----------------------------- MODULE MCDelivery -----------------------------
(***************************************************************************)
(* The instances of the delivery that TLC checks.                          *)
(***************************************************************************)
EXTENDS Delivery, TLC

CONSTANTS p1, turn, notice

OnePerson == (turn :> p1 @@ notice :> p1)
TwoAndOne == (turn :> 2 @@ notice :> 1)

\* Without the files and what is said of them: only FileAfterItsText reads them.
MCView ==
  <<channel, marking, keeping, sending, wrote,
    [p \in People |-> SelectSeq(received[p], LAMBDA x : x.part = "text")],
    jumped, done, dropped, cut, faults>>
=============================================================================
