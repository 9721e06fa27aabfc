---------------------------- MODULE MCDispatcher ----------------------------
(***************************************************************************)
(* The instance of the dispatcher that TLC checks.                         *)
(***************************************************************************)
EXTENDS Dispatcher, TLC

CONSTANTS m1, m2, s1, n1, n2

MCKind == [m \in Messages |-> CASE m \in {m1, m2} -> "person"
                                [] m = s1 -> "scheduled"
                                [] OTHER -> "note"]

MCSymmetry == Permutations({m1, m2}) \cup Permutations({n1, n2})

\* How a call ended is read by the turn that made it and by nobody else.
Reads(m) ==
  CASE turn[m].at = "prompting" -> {"answered", "stopping", "restart", "outgrown"}
    [] turn[m].at \in {"alongside", "following"} -> {"answered"}
    [] turn[m].at = "closing" /\ turn[m].first -> {"restart"}
    [] OTHER -> {}

\* Of the times, only the order matters, and only of the messages that are not
\* reported yet or are kept.
Timed == {m \in Messages : turn[m].at \in Running \/ InFile(m)}

Ended == [m \in Messages |-> IF call[m] \in Calls!Over \ Reads(m) THEN "over" ELSE call[m]]

Times == [m \in Messages |->
  IF m \in Timed THEN Cardinality({n \in Timed : received[n] <= received[m]}) ELSE 0]

MCView == <<Ended, stop, turn, order, batch, file, replay, bridges, given, Times>>

\* Without notes, nothing reads which result a message had, nor what was seen.
MCTurnsView ==
  <<Ended, stop,
    [m \in Messages |-> IF turn[m].at \in Results THEN "over" ELSE turn[m]],
    order, file, replay, bridges, answered, Times>>
=============================================================================
