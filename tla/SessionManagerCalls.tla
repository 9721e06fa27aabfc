------------------------- MODULE SessionManagerCalls -------------------------
(***************************************************************************)
(* The session manager keeps what prompt() and promptAlongside() promise:  *)
(* SessionManager implements PromptCalls.                                  *)
(***************************************************************************)
EXTENDS SessionManager

\* What the caller of prompt() knows of its call: it is unsent while the call
\* is queued, starts over on another session, or asks the slot why its session
\* did not start.
Promised(p) ==
  CASE prompt[p].at = "new" -> "none"
    [] prompt[p].at \in {"again", "queued", "asking"} ->
         IF Opens[p] THEN "opening" ELSE "waiting"
    [] OTHER -> prompt[p].at

Calls == INSTANCE PromptCalls WITH
           Callers <- Prompts, PairOf <- KeyOf,
           call <- [p \in Prompts |-> Promised(p)]

\* Every call is refused unsent or sent once and ended, with an outcome that
\* tells the caller which, through every way a session starts, ends and is
\* replaced under it.
PromisesKept == Calls!CallsSpec
=============================================================================
