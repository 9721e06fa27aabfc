--------------------------- MODULE SessionManager ---------------------------
(***************************************************************************)
(* The session manager of the bridge (src/src/session-manager.ts, with the *)
(* prompt queue of src/src/prompt-queue.ts): the ACP children it spawns,   *)
(* the map of sessions, the spawns in flight, the queue of each session,   *)
(* and the record of the session ids a pair may resume.                    *)
(*                                                                         *)
(* One step is what the event loop runs between two awaits.  A child is    *)
(* numbered in the order it is spawned, and an opencode session            *)
(* (a conversation) is named after the child that created it.              *)
(*                                                                         *)
(* A prompt waiting for the spawn it shares is kept in the queue of the    *)
(* child being spawned: no item of that queue runs before the handshake is *)
(* over, and the waiters are resumed in the order they came.               *)
(***************************************************************************)
EXTENDS Integers, Sequences, FiniteSets

CONSTANTS
  Keys,        \* the (agent, user) pairs
  Agents,      \* the agent ids
  AgentOf,     \* the agent of each pair
  Prompts,     \* the calls of prompt() and promptAlongside()
  KeyOf,       \* the pair each prompt is for
  Opens,       \* options.opensTurn of each prompt
  Limits,      \* the values session.max_concurrent may take
  MaxSpawns,   \* bound: how many children are ever spawned
  MaxReloads,  \* bound: how many changes of agents.yaml are applied
  MaxRestarts, \* bound: how many times the bridge itself is killed and restarted
  Stops        \* bound: whether the bridge is ever told to stop

None == 0
Children == 1 .. MaxSpawns

ASSUME SessionAssumption ==
  /\ IsFiniteSet(Keys)
  /\ MaxSpawns \in Nat
  /\ MaxReloads \in Nat
  /\ MaxRestarts \in Nat
  /\ Stops \in BOOLEAN
  /\ AgentOf \in [Keys -> Agents]
  /\ KeyOf \in [Prompts -> Keys]
  /\ Opens \in [Prompts -> BOOLEAN]
  /\ Limits \subseteq Nat \ {0}
  /\ None \notin Keys
  /\ None \notin Prompts

VARIABLES
  entries,     \* the session each pair is mapped to
  spawning,    \* inFlightSpawns: the child being started for each pair
  resumable,   \* the session id remembered for each pair
  session,     \* each child, its connection and its SessionEntry
  queue,       \* each session's PromptQueue: the items not started
  turn,        \* the item of each queue that runs, and how far it is
  prompt,      \* where each call of prompt() is
  lastTurnAt,  \* the order of the mapped entries' lastTurnAt, by pair
  spawned,     \* how many children have been spawned
  known,       \* agentsById
  revision,    \* which configuration of each agent is in force
  limit,       \* maxConcurrent
  reloads,     \* how many changes of agents.yaml were applied
  restarts,    \* how many times the bridge was restarted
  stopping,    \* stopStartingTurns was called
  down         \* shutdown was called

pool   == <<entries, spawning, resumable>>
config == <<known, revision, limit, reloads, restarts, stopping, down>>
vars   == <<pool, session, queue, turn, prompt, lastTurnAt, spawned, config>>

-----------------------------------------------------------------------------
Handshake == {"init", "loading", "opening", "selecting"}
Outcomes  == {"answered", "restart", "stopping", "watchdog", "outgrown", "failed",
              "lost"}
Stages    == {"idle", "reading", "rpc", "joining", "asking", "drain"}

Unborn == [key |-> None, revision |-> 0, phase |-> "unborn", convo |-> None,
           refused |-> None, killed |-> FALSE, exited |-> FALSE,
           aborted |-> FALSE, closed |-> FALSE, byBridge |-> FALSE,
           outgrown |-> FALSE, flushed |-> FALSE]

Idle == [stage |-> "idle", prompt |-> None]

\* The bridge learns that a process is gone from its connection, which closes,
\* and from its exit event, in either order.
Alive(c)   == session[c].phase \notin {"unborn", "gone"} /\ ~ session[c].exited
              /\ ~ session[c].aborted
RunningToTheEnd(c) == turn[c].stage # "idle" \* mutant: running is reset too late
Running(c) == turn[c].stage \in {"rpc", "joining", "asking"}
Usable(c)  == ~ (session[c].closed \/ session[c].byBridge \/ session[c].aborted)
HasSession(k) == entries[k] # None /\ Usable(entries[k])
Occupied == {k \in Keys : entries[k] # None}
Alongside(c) == {p \in Prompts : prompt[p] = [at |-> "alongside", on |-> c]}

\* SIGTERM, unless the child is gone already.
Kill(s) == [s EXCEPT !.killed = @ \/ ~ s.closed]

EndedUnflushed(s) == [Kill(s) EXCEPT !.byBridge = TRUE] \* mutant: no flushQueue

\* What every path by which the bridge ends a session does to its entry: the
\* queue refuses what it holds and what comes, and the child is told to end.
Ended(s) == [Kill(s) EXCEPT !.byBridge = TRUE, !.flushed = TRUE]

FailedAlive(s) == [s EXCEPT !.phase = "failed"] \* mutant: the child is left alive

\* A handshake that threw: its child is unreferenced, and told to end.
Failed(s) == [s EXCEPT !.phase = "failed", !.killed = TRUE]

\* mutant: the guard inverted
RememberInverted(ids, s) == IF s.outgrown THEN [ids EXCEPT ![s.key] = s.convo] ELSE ids

\* rememberResumableSession, which an outgrown session never reaches.
Remember(ids, s) == IF s.outgrown THEN ids ELSE [ids EXCEPT ![s.key] = s.convo]

Forget(ids, k, convo) == IF ids[k] = convo THEN [ids EXCEPT ![k] = None] ELSE ids

\* lastTurnAt = Date.now(): the session of pair k becomes the most recent.
Touch(k) ==
  [j \in Keys |-> IF j = k THEN Cardinality(Keys)
                  ELSE IF lastTurnAt[j] > lastTurnAt[k] THEN lastTurnAt[j] - 1
                  ELSE lastTurnAt[j]]

Settle(p, outcome) == prompt' = [prompt EXCEPT ![p] = [at |-> outcome, on |-> None]]

\* The error with which a flushed queue refuses an item when its turn comes.
Refusal == IF stopping THEN "stopping" ELSE "restart"

Init ==
  /\ entries   = [k \in Keys |-> None]
  /\ spawning  = [k \in Keys |-> None]
  /\ resumable = [k \in Keys |-> None]
  /\ session   = [c \in Children |-> Unborn]
  /\ queue     = [c \in Children |-> <<>>]
  /\ turn      = [c \in Children |-> Idle]
  /\ prompt    = [p \in Prompts |-> [at |-> "new", on |-> None]]
  /\ lastTurnAt = [k \in Keys |-> 0]
  /\ spawned   = 0
  /\ known \in SUBSET Agents
  /\ revision  = [a \in Agents |-> 0]
  /\ limit \in Limits
  /\ reloads   = 0
  /\ restarts  = 0
  /\ stopping  = FALSE
  /\ down      = FALSE

-----------------------------------------------------------------------------
(* prompt(): finding the session, or the spawn, a prompt goes to.          *)

Called(p) == prompt[p].at \in {"new", "again"}

Admitted(p) ==
  /\ Called(p)
  /\ AgentOf[KeyOf[p]] \in known
  /\ ~ (Opens[p] /\ stopping)

\* The agent is not registered, or the bridge starts no turn any more.
PromptRefused(p) ==
  /\ Called(p) /\ ~ Admitted(p)
  /\ Settle(p, IF AgentOf[KeyOf[p]] \in known THEN "stopping" ELSE "failed")
  /\ UNCHANGED <<pool, session, queue, turn, lastTurnAt, spawned, config>>

\* A prompt that opens a turn first reads, in the queue, whether the session
\* holds an unfinished summary (settleSummary).
Item(p) == [prompt |-> p, kind |-> IF Opens[p] THEN "read" ELSE "turn"]

Enqueue(p, c) ==
  /\ queue' = [queue EXCEPT ![c] = Append(@, Item(p))]
  /\ prompt' = [prompt EXCEPT ![p] = [at |-> "queued", on |-> c]]

PromptJoinsSession(p) ==
  /\ Admitted(p) /\ HasSession(KeyOf[p])
  /\ Enqueue(p, entries[KeyOf[p]])
  /\ UNCHANGED <<pool, session, turn, lastTurnAt, spawned, config>>

\* A session that is being ended or has ended leaves the map, its id kept.
DropStale(k) ==
  IF entries[k] = None
  THEN UNCHANGED <<entries, resumable>>
  ELSE /\ entries' = [entries EXCEPT ![k] = None]
       /\ resumable' = Remember(resumable, session[entries[k]])

PromptJoinsSpawn(p) ==
  LET k == KeyOf[p] IN
  /\ Admitted(p) /\ ~ HasSession(k)
  /\ spawning[k] # None
  /\ DropStale(k)
  /\ Enqueue(p, spawning[k])
  /\ UNCHANGED <<spawning, session, turn, lastTurnAt, spawned, config>>

PromptSpawns(p) ==
  LET k == KeyOf[p]
      c == spawned + 1
  IN
  /\ Admitted(p) /\ ~ HasSession(k)
  /\ spawning[k] = None
  /\ spawned < MaxSpawns
  /\ DropStale(k)
  /\ spawned' = c
  /\ spawning' = [spawning EXCEPT ![k] = c]
  /\ session' = [session EXCEPT ![c] = [Unborn EXCEPT
                   !.key = k, !.revision = revision[AgentOf[k]],
                   !.phase = "init"]]
  /\ Enqueue(p, c)
  /\ UNCHANGED <<turn, lastTurnAt, config>>

-----------------------------------------------------------------------------
(* spawnAndInit(): the handshake with a child just spawned.  An answer may *)
(* still be read from a child that has exited, until its connection closes.*)

\* initialize() answered: the id to resume is read now, and loaded when the
\* runtime offers session/load.
Initialized(c) ==
  LET id == resumable[session[c].key] IN
  /\ session[c].phase = "init" /\ ~ session[c].aborted
  /\ \/ /\ id # None
        /\ session' = [session EXCEPT ![c].phase = "loading", ![c].convo = id]
     \/ session' = [session EXCEPT ![c].phase = "opening", ![c].refused = id]
  /\ UNCHANGED <<pool, queue, turn, prompt, lastTurnAt, spawned, config>>

\* session/load answered, with the model set back where it had to be.
SessionLoaded(c) ==
  /\ session[c].phase = "loading" /\ ~ session[c].aborted
  /\ session' = [session EXCEPT ![c].phase = "selecting"]
  /\ UNCHANGED <<pool, queue, turn, prompt, lastTurnAt, spawned, config>>

\* session/load, or setting the model back, threw: the runtime refused it, or
\* the connection closed meanwhile.  The id is forgotten in both cases.
LoadFailed(c) ==
  LET s == session[c] IN
  /\ s.phase = "loading"
  /\ session' = [session EXCEPT ![c].phase = "opening", ![c].convo = None,
                                ![c].refused = s.convo]
  /\ resumable' = Forget(resumable, s.key, s.convo)
  /\ UNCHANGED <<entries, spawning, queue, turn, prompt, lastTurnAt, spawned, config>>

\* session/new answered.
SessionCreated(c) ==
  /\ session[c].phase = "opening" /\ ~ session[c].aborted
  /\ session' = [session EXCEPT ![c].phase = "selecting", ![c].convo = c]
  /\ UNCHANGED <<pool, queue, turn, prompt, lastTurnAt, spawned, config>>

MakesRoomLate(V, occupied, k) == \* mutant: > in place of >=
  LET others == occupied \ {k} IN
  /\ V \subseteq others
  /\ \A v \in V, w \in others \ V : lastTurnAt[v] < lastTurnAt[w]
  /\ \/ V = {} /\ Cardinality(occupied) <= limit
     \/ Cardinality(occupied) > limit /\ Cardinality(occupied \ V) = limit

\* evictForCapacity(k), with the pairs of occupied in the map: V, the least
\* recently used of the others, makes room for one more session.
MakesRoom(V, occupied, k) ==
  LET others == occupied \ {k} IN
  /\ V \subseteq others
  /\ \A v \in V, w \in others \ V : lastTurnAt[v] < lastTurnAt[w]
  /\ \/ V = {} /\ Cardinality(occupied) < limit
     \/ Cardinality(occupied) >= limit /\ Cardinality(occupied \ V) = limit - 1
     \/ V = others /\ Cardinality(occupied \ V) >= limit

\* The mode is selected (an agent that advertises no mode is not held to it,
\* even when the call failed with its connection): the entry exists, its id is
\* recorded, and everyone who waited for the spawn makes room, maps the entry and
\* queues its prompt.  The second of them makes room again, with the entry
\* already in the map.
HandshakeDone(c) ==
  LET k == session[c].key IN
  /\ session[c].phase = "selecting"
  /\ \E V1, V2 \in SUBSET Keys :
       LET V == V1 \cup V2
           ids == Remember(resumable, session[c])
       IN
       /\ MakesRoom(V1, Occupied, k)
       /\ IF Len(queue[c]) > 1 THEN MakesRoom(V2, (Occupied \ V1) \cup {k}, k) ELSE V2 = {}
       /\ entries' = [j \in Keys |-> IF j = k THEN c ELSE IF j \in V THEN None ELSE entries[j]]
       /\ session' = [d \in Children |->
                        IF d = c THEN [session[c] EXCEPT !.phase = "up"]
                        ELSE IF \E v \in V : entries[v] = d THEN Ended(session[d])
                        ELSE session[d]]
       /\ resumable' = [j \in Keys |-> IF j \in V THEN Remember(ids, session[entries[j]])[j]
                                       ELSE ids[j]]
  /\ spawning' = [spawning EXCEPT ![k] = None]
  /\ lastTurnAt' = Touch(k)
  /\ UNCHANGED <<queue, turn, prompt, spawned, config>>

\* A step of the handshake threw.  Only a connection that closed is worth
\* asking the slot about; the prompts that waited are held meanwhile.
HandshakeFails(c) ==
  /\ session[c].phase \in Handshake \ {"loading"}
  /\ session' = [session EXCEPT ![c] = Failed(@)]
  /\ spawning' = [spawning EXCEPT ![session[c].key] = None]
  /\ prompt' = [p \in Prompts |->
                  IF prompt[p] # [at |-> "queued", on |-> c] THEN prompt[p]
                  ELSE [at |-> IF session[c].aborted THEN "asking" ELSE "failed", on |-> None]]
  /\ queue' = [queue EXCEPT ![c] = <<>>]
  /\ UNCHANGED <<entries, resumable, turn, lastTurnAt, spawned, config>>

\* lostToRestart answered for a prompt whose session did not start.
SlotAnswersStart(p) ==
  /\ prompt[p].at = "asking"
  /\ \E outcome \in {"restart", "failed"} : Settle(p, outcome)
  /\ UNCHANGED <<pool, session, queue, turn, lastTurnAt, spawned, config>>

-----------------------------------------------------------------------------
(* The queue of a session, and the turn it runs.                           *)

\* The next item, when the queue may take one.
Front(c) == Head(queue[c])
TakesUnflushed(c) == \* mutant: flush does not drain the queue
  session[c].phase = "up" /\ turn[c] = Idle /\ queue[c] # <<>> /\ ~ session[c].flushed
Takes(c) == session[c].phase = "up" /\ turn[c] = Idle /\ queue[c] # <<>>
TakePeeked(c) == UNCHANGED queue \* mutant: the item is not shifted out
Take(c)  == queue' = [queue EXCEPT ![c] = Tail(@)]
Runs(c, stage) == turn' = [turn EXCEPT ![c] = [stage |-> stage, prompt |-> Front(c).prompt]]

TooLateNever(c) == FALSE \* mutant: the queue's task does not look again

\* The item runs and throws at once: the bridge started to stop meanwhile.
TooLate(c) == Front(c).kind = "turn" /\ Opens[Front(c).prompt] /\ stopping

RefuseNext(c) ==
  /\ Takes(c)
  /\ session[c].flushed \/ TooLate(c)
  /\ Take(c)
  /\ Settle(Front(c).prompt, Refusal)
  /\ UNCHANGED <<pool, session, turn, lastTurnAt, spawned, config>>

ReadSummary(c) ==
  /\ Takes(c) /\ ~ session[c].flushed /\ Front(c).kind = "read"
  /\ Take(c)
  /\ Runs(c, "reading")
  /\ UNCHANGED <<pool, session, prompt, lastTurnAt, spawned, config>>

\* The session holds no summary to finish: the prompt is queued, or starts
\* over when the session is no longer the pair's.
SummaryRead(c) ==
  LET p == turn[c].prompt IN
  /\ turn[c].stage = "reading"
  /\ turn' = [turn EXCEPT ![c] = Idle]
  /\ IF entries[KeyOf[p]] = c
     THEN /\ queue' = [queue EXCEPT ![c] = Append(@, [prompt |-> p, kind |-> "turn"])]
          /\ UNCHANGED prompt
     ELSE /\ prompt' = [prompt EXCEPT ![p] = [at |-> "again", on |-> None]]
          /\ UNCHANGED queue
  /\ UNCHANGED <<pool, session, lastTurnAt, spawned, config>>

\* session/prompt is sent, under the watchdog.
SendTurn(c) ==
  /\ Takes(c) /\ ~ session[c].flushed /\ Front(c).kind = "turn" /\ ~ TooLate(c)
  /\ Take(c)
  /\ Runs(c, "rpc")
  /\ prompt' = [prompt EXCEPT ![Front(c).prompt] = [at |-> "sent", on |-> c]]
  /\ UNCHANGED <<pool, session, lastTurnAt, spawned, config>>

\* session/prompt answered; the prompts sent alongside are waited for.
RpcReturns(c) ==
  /\ turn[c].stage = "rpc" /\ ~ session[c].aborted
  /\ turn' = [turn EXCEPT ![c].stage = "joining"]
  /\ UNCHANGED <<pool, session, queue, prompt, lastTurnAt, spawned, config>>

StartDrain(c) ==
  /\ turn[c].stage = "joining"
  /\ Alongside(c) = {}
  /\ turn' = [turn EXCEPT ![c].stage = "drain"]
  /\ UNCHANGED <<pool, session, queue, prompt, lastTurnAt, spawned, config>>

\* The end of the queue's task, whatever ended it.  lastTurnAt orders the
\* mapped sessions only, so that of a session already unmapped is not kept.
TurnOver(c, s, outcome) ==
  /\ Settle(turn[c].prompt, outcome)
  /\ turn' = [turn EXCEPT ![c] = Idle]
  /\ session' = [session EXCEPT ![c] = s]
  /\ lastTurnAt' = IF entries[s.key] = c THEN Touch(s.key) ELSE lastTurnAt

\* Drained and reconciled.
TurnAnswered(c) ==
  /\ turn[c].stage = "drain"
  /\ TurnOver(c, session[c], "answered")
  /\ UNCHANGED <<pool, queue, spawned, config>>

\* The agent answered session/prompt with an error.
AgentFails(c) ==
  /\ turn[c].stage = "rpc" /\ ~ session[c].aborted
  /\ TurnOver(c, session[c], "failed")
  /\ UNCHANGED <<pool, queue, spawned, config>>

\* The connection closed under the turn: the bridge did it, or the slot is
\* asked whether it restarted.
ConnectionLost(c) ==
  /\ turn[c].stage = "rpc" /\ session[c].aborted
  /\ IF session[c].byBridge
     THEN TurnOver(c, session[c], "restart")
     ELSE /\ turn' = [turn EXCEPT ![c].stage = "asking"]
          /\ UNCHANGED <<session, prompt, lastTurnAt>>
  /\ UNCHANGED <<pool, queue, spawned, config>>

SlotAnswersTurn(c) ==
  /\ turn[c].stage = "asking"
  /\ \E outcome \in {"restart", "failed"} : TurnOver(c, session[c], outcome)
  /\ UNCHANGED <<pool, queue, spawned, config>>

Unmapped(c) == [k \in Keys |-> IF entries[k] = c THEN None ELSE entries[k]]

\* The runtime can no longer summarise the session: letGo.
Outgrows(c) ==
  LET s == session[c] IN
  /\ turn[c].stage = "rpc" /\ ~ s.aborted
  /\ entries' = Unmapped(c)
  /\ resumable' = Forget(resumable, s.key, s.convo)
  /\ TurnOver(c, [Ended(s) EXCEPT !.outgrown = TRUE], "outgrown")
  /\ UNCHANGED <<spawning, queue, spawned, config>>

\* The watchdog is still set while the slot is asked, when the turn is lost
\* already and its rejection changes nothing.
WatchdogFires(c) ==
  /\ Running(c)
  /\ entries' = Unmapped(c)
  /\ IF turn[c].stage = "asking"
     THEN /\ session' = [session EXCEPT ![c] = Ended(@)]
          /\ UNCHANGED <<turn, prompt, lastTurnAt>>
     ELSE TurnOver(c, Ended(session[c]), "watchdog")
  /\ UNCHANGED <<spawning, resumable, queue, spawned, config>>

-----------------------------------------------------------------------------
(* promptAlongside(): a prompt sent outside the queue of a running turn.   *)

PromptAlongside(p) ==
  LET k == KeyOf[p] IN
  /\ prompt[p].at = "new"
  /\ HasSession(k) /\ Running(entries[k])
  /\ prompt' = [prompt EXCEPT ![p] = [at |-> "alongside", on |-> entries[k]]]
  /\ UNCHANGED <<pool, session, queue, turn, lastTurnAt, spawned, config>>

AlongsideEnds(p) ==
  /\ prompt[p].at = "alongside"
  /\ \E outcome \in {"answered", "failed"} :
       /\ outcome = "answered" => ~ session[prompt[p].on].aborted
       /\ Settle(p, outcome)
  /\ UNCHANGED <<pool, session, queue, turn, lastTurnAt, spawned, config>>

-----------------------------------------------------------------------------
(* The child: its process, its connection and its exit event.              *)

\* Killed, crashed, or gone with its slot: the connection's signal aborts.
ConnectionCloses(c) ==
  /\ session[c].phase \in Handshake \cup {"up"} /\ ~ session[c].aborted
  /\ session' = [session EXCEPT ![c].aborted = TRUE]
  /\ UNCHANGED <<pool, queue, turn, prompt, lastTurnAt, spawned, config>>

\* The exit event.  Its listener is there only once the entry is made: one that
\* comes before is heard by nobody, at whatever step of the handshake it comes.
ChildExits(c) ==
  /\ session[c].phase \in {"selecting", "up"} /\ ~ session[c].exited
  /\ IF session[c].phase = "up"
     THEN /\ session' = [session EXCEPT ![c] = [@ EXCEPT !.exited = TRUE, !.closed = TRUE]]
          /\ entries' = Unmapped(c)
          /\ resumable' = Remember(resumable, session[c])
     ELSE /\ session' = [session EXCEPT ![c].exited = TRUE]
          /\ UNCHANGED <<entries, resumable>>
  /\ UNCHANGED <<spawning, queue, turn, prompt, lastTurnAt, spawned, config>>

\* The idle timer ends the session and leaves it in the map.  A turn does not
\* stop it: it sets it again when it starts and when it ends, on a session whose
\* child has exited too.  On a session that is ended already it changes nothing.
IdleFires(c) ==
  /\ session[c].phase = "up" /\ ~ session[c].flushed
  /\ session' = [session EXCEPT ![c] = Ended(@)]
  /\ UNCHANGED <<pool, queue, turn, prompt, lastTurnAt, spawned, config>>

-----------------------------------------------------------------------------
(* The reload of agents.yaml, and the end of the bridge.  A reload that     *)
(* began before the bridge started to stop goes on: only its first step,   *)
(* the session limits, is not applied any more.                            *)

Reload == reloads < MaxReloads /\ reloads' = reloads + 1 /\ UNCHANGED restarts

KillAgentSessions(a) ==
  LET mine == {k \in Keys : AgentOf[k] = a /\ entries[k] # None} IN
  /\ entries' = [k \in Keys |-> IF k \in mine THEN None ELSE entries[k]]
  /\ session' = [c \in Children |-> IF \E k \in mine : entries[k] = c
                                    THEN Ended(session[c]) ELSE session[c]]
  /\ resumable' = [k \in Keys |-> IF k \in mine
                                  THEN Remember(resumable, session[entries[k]])[k]
                                  ELSE resumable[k]]
  /\ UNCHANGED <<spawning, queue, turn, prompt, lastTurnAt, spawned>>

ReplaceAgent(a) ==
  /\ a \in known /\ Reload
  /\ KillAgentSessions(a)
  /\ revision' = [revision EXCEPT ![a] = @ + 1]
  /\ UNCHANGED <<known, limit, stopping, down>>

RemoveAgent(a) ==
  /\ a \in known /\ Reload
  /\ KillAgentSessions(a)
  /\ known' = known \ {a}
  /\ UNCHANGED <<revision, limit, stopping, down>>

AddAgent(a) ==
  /\ a \notin known /\ Reload
  /\ known' = known \cup {a}
  /\ revision' = [revision EXCEPT ![a] = @ + 1]
  /\ UNCHANGED <<pool, session, queue, turn, prompt, lastTurnAt, spawned, limit, stopping, down>>

\* The sessions over a lowered limit stay until the next one is mapped.
ApplySession(n) ==
  /\ n # limit /\ Reload /\ ~ stopping
  /\ limit' = n
  /\ UNCHANGED <<pool, session, queue, turn, prompt, lastTurnAt, spawned,
                 known, revision, stopping, down>>

StopStartingTurns ==
  /\ Stops /\ ~ stopping
  /\ stopping' = TRUE
  /\ UNCHANGED <<pool, session, queue, turn, prompt, lastTurnAt, spawned,
                 known, revision, limit, reloads, restarts, down>>

\* Every mapped session is ended.  A child still being spawned is not in the
\* map, and its session is mapped after this.
Shutdown ==
  /\ stopping /\ ~ down
  /\ down' = TRUE
  /\ entries' = [k \in Keys |-> None]
  /\ session' = [c \in Children |->
                   IF \E k \in Keys : entries[k] = c
                   THEN [Kill(session[c]) EXCEPT !.flushed = TRUE]
                   ELSE session[c]]
  /\ UNCHANGED <<spawning, resumable, queue, turn, prompt, lastTurnAt, spawned,
                 known, revision, limit, reloads, restarts, stopping>>

\* The bridge ends, killed or stopped, and another starts.  Its children go with
\* it, their pipes closed, and what it held in memory; the ids are on disk.
BridgeRestarts ==
  /\ restarts < MaxRestarts
  /\ restarts' = restarts + 1
  /\ entries' = [k \in Keys |-> None]
  /\ spawning' = [k \in Keys |-> None]
  /\ session' = [c \in Children |->
                   CASE session[c].phase = "up" -> [session[c] EXCEPT !.phase = "gone"]
                     [] session[c].phase \in Handshake -> Failed(session[c])
                     [] OTHER -> session[c]]
  /\ queue' = [c \in Children |-> <<>>]
  /\ turn' = [c \in Children |-> Idle]
  /\ prompt' = [p \in Prompts |-> IF prompt[p].at \in Outcomes \cup {"new"} THEN prompt[p]
                                  ELSE [at |-> "lost", on |-> None]]
  /\ lastTurnAt' = [k \in Keys |-> 0]
  /\ stopping' = FALSE
  /\ down' = FALSE
  /\ UNCHANGED <<resumable, spawned, known, revision, limit, reloads>>

-----------------------------------------------------------------------------
PromptStep(p) ==
  \/ PromptRefused(p) \/ PromptJoinsSession(p) \/ PromptJoinsSpawn(p)
  \/ PromptSpawns(p) \/ SlotAnswersStart(p)
  \/ PromptAlongside(p) \/ AlongsideEnds(p)

HandshakeStep(c) ==
  \/ Initialized(c) \/ SessionLoaded(c) \/ LoadFailed(c) \/ SessionCreated(c)
  \/ HandshakeDone(c) \/ HandshakeFails(c)

TurnStep(c) ==
  \/ RefuseNext(c) \/ ReadSummary(c) \/ SummaryRead(c) \/ SendTurn(c)
  \/ RpcReturns(c) \/ StartDrain(c) \/ TurnAnswered(c) \/ AgentFails(c)
  \/ ConnectionLost(c) \/ SlotAnswersTurn(c) \/ Outgrows(c) \/ WatchdogFires(c)

ChildStep(c) == ConnectionCloses(c) \/ ChildExits(c) \/ IdleFires(c)

ReloadStep(a) == ReplaceAgent(a) \/ RemoveAgent(a) \/ AddAgent(a)

Next ==
  \/ \E p \in Prompts : PromptStep(p)
  \/ \E c \in Children : HandshakeStep(c) \/ TurnStep(c) \/ ChildStep(c)
  \/ \E a \in Agents : ReloadStep(a)
  \/ \E n \in Limits : ApplySession(n)
  \/ StopStartingTurns
  \/ Shutdown
  \/ BridgeRestarts

Spec == Init /\ [][Next]_vars


\* What the event loop, the timers and the child's end bring about.  A child
\* answers each step of its handshake or is gone: there is no timeout on it.  A
\* turn is bounded by the watchdog, and a session with no turn by its idle timer,
\* which is all that bounds a prompt alongside a turn the agent failed.
Fairness ==
  /\ \A p \in Prompts :
       /\ WF_vars(prompt[p].at # "new" /\ (PromptRefused(p) \/ PromptJoinsSession(p)
                                          \/ PromptJoinsSpawn(p) \/ PromptSpawns(p)))
       /\ WF_vars(SlotAnswersStart(p))
       /\ WF_vars(prompt[p].at = "alongside" /\ session[prompt[p].on].aborted /\ AlongsideEnds(p))
  /\ \A c \in Children :
       /\ WF_vars(HandshakeStep(c))
       /\ WF_vars(TurnStep(c))
       /\ WF_vars(turn[c] = Idle /\ queue[c] = <<>> /\ IdleFires(c))
       /\ WF_vars((session[c].killed \/ session[c].exited) /\ ConnectionCloses(c))

FairSpec == Spec /\ Fairness

-----------------------------------------------------------------------------
Maybe == Children \cup {None}

Session ==
  [key: Keys \cup {None}, revision: Nat,
   phase: Handshake \cup {"unborn", "up", "failed", "gone"},
   convo: Maybe, refused: Maybe, killed: BOOLEAN, exited: BOOLEAN,
   aborted: BOOLEAN, closed: BOOLEAN, byBridge: BOOLEAN,
   outgrown: BOOLEAN, flushed: BOOLEAN]

QueueItem == [prompt: Prompts, kind: {"read", "turn"}]

Turn == [stage: Stages, prompt: Prompts \cup {None}]

Call ==
  [at: Outcomes \cup {"new", "again", "queued", "sent", "alongside", "asking"},
   on: Maybe]

\* The types of the variables.
TypeOK ==
  /\ entries \in [Keys -> Maybe]
  /\ spawning \in [Keys -> Maybe]
  /\ resumable \in [Keys -> Maybe]
  /\ session \in [Children -> Session]
  /\ queue \in [Children -> Seq(QueueItem)]
  /\ turn \in [Children -> Turn]
  /\ prompt \in [Prompts -> Call]
  /\ lastTurnAt \in [Keys -> Nat]
  /\ spawned \in 0 .. MaxSpawns
  /\ known \subseteq Agents
  /\ revision \in [Agents -> Nat]
  /\ limit \in Limits
  /\ reloads \in 0 .. MaxReloads
  /\ restarts \in 0 .. MaxRestarts
  /\ stopping \in BOOLEAN
  /\ down \in BOOLEAN

\* No child is leaked: a process that lives and was not told to end is the one
\* being started for its pair, or the one its pair is mapped to.  Concurrent
\* first prompts, handshakes that fail, evictions, reloads and sessions dropped
\* as stale must each leave none behind.
NoOrphanChild ==
  \A c \in Children :
    Alive(c) /\ ~ session[c].killed =>
      spawning[session[c].key] = c \/ entries[session[c].key] = c

\* A session the bridge ends is sent nothing more (README.md, "Sessions"):
\* neither what was queued on it before, nor what is queued on it after, nor a
\* prompt alongside its turn.
EndedSessionIsSentNothing ==
  [][\A p \in Prompts :
       prompt'[p].at \in {"sent", "alongside"} /\ prompt'[p].at # prompt[p].at
         => ~ session[prompt'[p].on].byBridge]_vars

\* Once the bridge stops starting turns, no prompt that opens one is sent,
\* however long ago it was accepted and whatever it waited for.
StoppingStartsNoTurn ==
  [][\A p \in Prompts :
       prompt'[p].at = "sent" /\ prompt[p].at # "sent" /\ Opens[p] => ~ stopping]_vars

\* A session is mapped only with the map within session.max_concurrent, after
\* a reload lowered it too.
RoomForEverySession ==
  [][(\E k \in Keys : entries[k] = None /\ entries'[k] # None)
       => Cardinality({k \in Keys : entries'[k] # None}) <= limit]_vars

\* A pair that was in a conversation starts another only after the runtime did
\* not load one again, or one outgrew its summary and was let go: without either
\* no idle timer, eviction, reload, crash of the child, watchdog or restart of
\* the bridge loses it.
ConversationKept ==
  \A c, d \in Children :
    /\ c < d /\ session[c].key = session[d].key
    /\ session[c].phase \in {"up", "gone"} /\ session[d].convo = d
    => \E e \in 1 .. d :
         /\ session[e].key = session[d].key
         /\ (c < e /\ session[e].refused # None) \/ session[e].outgrown

\* How many times prompt p is in the hands of the queue of child c.
Held(c, p) ==
  Cardinality({i \in 1 .. Len(queue[c]) : queue[c][i].prompt = p})
    + (IF turn[c].prompt = p THEN 1 ELSE 0)

\* No prompt is lost and none is sent twice: one that is waiting or running is
\* held once, by the queue it is waiting in or running from, and one that is
\* over, or is being asked about, is held by none.
PromptHasOnePlace ==
  \A c \in Children, p \in Prompts :
    Held(c, p) = IF prompt[p].at \in {"queued", "sent"} /\ prompt[p].on = c THEN 1 ELSE 0

\* A turn drains, and ends, only when every prompt sent alongside it has been
\* answered, so that their updates still reach the turn that answers them.
AlongsideIsWaitedFor ==
  \A c \in Children : turn[c].stage = "drain" => Alongside(c) = {}

\* What the comments and the README say and the code does not do.

\* The session a pair is mapped to runs under the configuration in force: "after
\* replaceAgent the next prompt spawns under the reloaded AgentConfig".  A spawn
\* in flight while the agent is replaced is mapped after it.
ReloadedSessionsAreCurrent ==
  \A k \in Keys : entries[k] # None =>
    AgentOf[k] \in known /\ session[entries[k]].revision = revision[AgentOf[k]]

\* The id remembered for a pair is the one it is "talking through, recorded when
\* the session starts and kept AFTER its child dies".  The exit of an earlier
\* child of the pair, when it comes late, records its own id over it.
LiveConversationIsRemembered ==
  \A k \in Keys : entries[k] # None => resumable[k] = session[entries[k]].convo

\* "Conversations survive restarts": the id of one is forgotten only when the
\* runtime refuses to load it, or to summarise it.  A slot that restarts while
\* it loads the conversation has refused nothing.
RestartForgetsNoConversation ==
  [][\A k \in Keys : resumable[k] # None /\ resumable'[k] = None =>
       \E c \in Children :
         /\ session[c].key = k
         /\ \/ session[c].phase = "loading" /\ ~ session[c].aborted
            \/ session'[c].outgrown]_vars

\* Every prompt is answered or refused: none waits for ever for a spawn, in the
\* queue of a session the bridge ended, or alongside a turn that hangs, unless
\* the bound on spawns is reached.
PromptsSettle ==
  \A p \in Prompts :
    prompt[p].at # "new" ~> prompt[p].at \in Outcomes \/ spawned = MaxSpawns
=============================================================================
