-------------------------- MODULE MCSessionManager --------------------------
(***************************************************************************)
(* The instance of the session manager that TLC checks: two pairs of one   *)
(* agent, and prompts of which the last opens no turn (a retry, a          *)
(* correction, or a prompt sent alongside).                                *)
(***************************************************************************)
EXTENDS SessionManagerCalls, TLC

CONSTANTS k1, k2, a1, p1, p2, p3, p4

MCAgentOf == [k \in Keys |-> a1]
MCKeyOf   == [p \in Prompts |-> IF p \in {p1, p2} THEN k1 ELSE k2]
MCOpens   == [p \in Prompts |-> p = p1]

\* What is left to tell about a child nothing can happen to any more, and about
\* a prompt that is over: two states that differ in the rest go on alike.
Rest(c) ==
  IF \/ session[c].phase \in {"failed", "gone"}
     \/ /\ session[c].closed /\ turn[c] = Idle /\ queue[c] = <<>>
        /\ Alongside(c) = {}
  THEN <<session[c].phase, session[c].convo, session[c].key,
         session[c].refused, session[c].outgrown>>
  ELSE session[c]

MCSymmetry == Permutations({p3, p4})

MCView ==
  <<pool, [c \in Children |-> Rest(c)], queue, turn, lastTurnAt, spawned, config,
    [p \in Prompts |-> IF prompt[p].at \in Outcomes THEN "over" ELSE prompt[p]]>>
=============================================================================
