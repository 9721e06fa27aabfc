----------------------------- MODULE PromptCalls -----------------------------
(***************************************************************************)
(* What SessionManager.prompt() and promptAlongside() promise their        *)
(* callers (src/src/session-manager.ts, the errors and PromptOptions):     *)
(* each call is refused before the assistant sees it, or is sent once and  *)
(* then ends, and the way it ends tells the caller which.  A caller makes  *)
(* one call at a time.                                                     *)
(***************************************************************************)

CONSTANTS
  Callers,  \* those who call prompt() or promptAlongside()
  PairOf    \* the (agent, user) pair each calls for

VARIABLES
  call,      \* the call of each caller, or how its last one ended
  stopping   \* stopStartingTurns was called

callVars == <<call, stopping>>

Refusals == {"stopping", "restart", "failed"}
Endings  == {"answered", "restart", "watchdog", "outgrown", "failed"}
Over     == {"none", "lost"} \cup Refusals \cup Endings

\* A call not sent yet: "opening" when it opens a turn.
Unsent   == {"opening", "waiting"}
Calling  == Unsent \cup {"sent", "alongside"}

CallsInit ==
  /\ call = [p \in Callers |-> "none"]
  /\ stopping = FALSE

Becomes(p, at) == call' = [call EXCEPT ![p] = at] /\ UNCHANGED stopping

\* prompt() is called, and goes on to find the session or to have it started.
Begin(p, opens) ==
  /\ call[p] \in Over
  /\ ~ (opens /\ stopping)
  /\ Becomes(p, IF opens THEN "opening" ELSE "waiting")

\* prompt() throws at once.
RefusedAtOnce(p, opens) ==
  /\ call[p] \in Over
  /\ \/ opens /\ stopping /\ Becomes(p, "stopping")
     \/ Becomes(p, "failed")

\* The session did not start, or ended before these calls were sent, or the
\* bridge began to stop.
Refused(S, error) ==
  /\ \A p \in S : call[p] \in Unsent
  /\ error = "stopping" => stopping
  /\ call' = [p \in Callers |-> IF p \in S THEN error ELSE call[p]]
  /\ UNCHANGED stopping

\* session/prompt goes to the assistant.
Send(p) ==
  /\ call[p] \in Unsent
  /\ ~ (call[p] = "opening" /\ stopping)
  /\ Becomes(p, "sent")

\* A session/prompt is in flight, or its end is still being settled.
Working(pair) == \E p \in Callers : PairOf[p] = pair /\ call[p] = "sent"

\* promptAlongside(): the prompt goes into the work in progress.
Join(p) ==
  /\ call[p] \in Over
  /\ Working(PairOf[p])
  /\ Becomes(p, "alongside")

\* A call that was sent ends, with an outcome that says it was.
Ends(p, ending) ==
  /\ \/ call[p] = "sent"
     \/ call[p] = "alongside" /\ ending \in {"answered", "failed"}
  /\ Becomes(p, ending)

StopStarting == stopping' = TRUE /\ UNCHANGED call

\* The bridge is gone, with the calls it had.
BridgeGone ==
  /\ call' = [p \in Callers |-> IF call[p] \in Calling THEN "lost" ELSE call[p]]
  /\ stopping' = FALSE

CallsNext ==
  \/ \E p \in Callers, opens \in BOOLEAN : Begin(p, opens) \/ RefusedAtOnce(p, opens)
  \/ \E S \in SUBSET Callers, error \in Refusals : Refused(S, error)
  \/ \E p \in Callers : Send(p) \/ Join(p) \/ \E ending \in Endings : Ends(p, ending)
  \/ StopStarting
  \/ BridgeGone

CallsSpec == CallsInit /\ [][CallsNext]_callVars
=============================================================================
