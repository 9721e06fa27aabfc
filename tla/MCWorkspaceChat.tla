-------------------------- MODULE MCWorkspaceChat --------------------------
(* Instances of WorkspaceChat for TLC.                                     *)
EXTENDS WorkspaceChat

EachOne == <<1, 1>>
FirstOnly == <<1, 0>>

\* What the bounds have used up is left out of a turn that is over, and of the
\* notice what it has read for good.
Left(t) ==
  IF turn[t].phase \notin Over THEN turn[t]
  ELSE [turn[t] EXCEPT !.chunks = 0, !.steps = 0, !.line = "closed", !.tried = TRUE,
                       !.phase = IF notice = "new" THEN @ ELSE "over"]

Remembered ==
  IF notice \in {"new", "stored"} THEN <<known, theirs>> ELSE theirs => known = Here

MCView ==
  <<[t \in Turns |-> Left(t)], Remembered, notice, space, out, renewing, second, tries, faults>>
=============================================================================
