--------------------------- MODULE MCAndroidIngest ---------------------------
(***************************************************************************)
(* Instances of AndroidIngest for TLC.                                     *)
(***************************************************************************)
EXTENDS AndroidIngest

CONSTANTS r1, r2, manual, gopay, octo, ref

TwoRequests == {r1, r2}
OneOther == {manual}

Note(kind, app, number, hint, at) ==
  [kind |-> kind, app |-> app, amount |-> 10, ref |-> number, hint |-> hint,
   at |-> at]

\* A payment, a receipt of a second app that quotes its reference six minutes
\* later, a top-up, a transfer without a destination and what is no payment.
Mixed ==
  {Note("payment", gopay, ref, None, 100), Note("payment", octo, ref, None, 106),
   Note("topup", gopay, None, gopay, 100), Note("transfer", octo, None, None, 106),
   Note("promo", gopay, None, None, 100), Note("malformed", gopay, None, None, 100)}

\* A manual entry of the same amount seven minutes later.
ByHand ==
  [t \in {manual} |->
    [source |-> "other", hash |-> None, ref |-> None, amount |-> 10,
     at |-> 107, wallet |-> gopay, destination |-> None, duplicate |-> None,
     evidence |-> {}, live |-> TRUE]]
BothWallets == {gopay, octo}
=============================================================================
