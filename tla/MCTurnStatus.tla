---------------------------- MODULE MCTurnStatus ----------------------------
(* Instances of TurnStatus for TLC.                                        *)
EXTENDS TurnStatus, TLC

CONSTANTS t1, t2

FirstTwice == (t1 :> 1) @@ (t2 :> 0)

\* Once the turn is over only the line is left to follow.
MCView ==
  <<IF st.closed THEN <<st.chain, st.rendering>>
    ELSE <<st, tools, input, longTimers, summaries, told>>,
    line, call, chat, posts, left, lost, faults>>
=============================================================================
