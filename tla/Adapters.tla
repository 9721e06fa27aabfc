------------------------------ MODULE Adapters ------------------------------
(***************************************************************************)
(* The adapters of the bridge: started at boot and by every change of      *)
(* agents.yaml (src/src/bridge.ts, config-reloader.ts, config-diff.ts),    *)
(* tried again by the supervisor when they do not start                    *)
(* (adapter-supervisor.ts), and stopped with the bridge.                   *)
(*                                                                         *)
(* The boot and the reloads run one after the other, each through its      *)
(* agents one by one; the supervisor's tries run beside them.  An agent's  *)
(* adapters are numbered as they are made.  The channel's library is       *)
(* external: a start() comes up, fails, or is refused the credential, and  *)
(* one that was called before a stop() may still come up after it.         *)
(***************************************************************************)
EXTENDS Integers, Sequences, FiniteSets

CONSTANTS
  Agents,       \* the agents agents.yaml may name
  Configs,      \* what it may say of one: its channel, its credentials, ...
  MaxWrites,    \* bound: how often the file is written
  MaxAdapters   \* bound: how many adapters are made for one agent

None == 0
Absent == 0

ASSUME AdaptersAssumption ==
  /\ Absent \notin Configs
  /\ MaxWrites \in Nat /\ MaxAdapters \in Nat \ {0}

VARIABLES
  phase,        \* of the bridge: "booting", "up", "stopping" or "stopped"
  file,         \* agents.yaml: the configuration of each agent, if it names it
  changed,      \* the file was written and not read since
  reloading,    \* the reloads read and not over, in order
  applying,     \* the first of them has begun
  snapshot,     \* currentSnapshot, the configuration the last reload left
  todo,         \* what the boot or the reload has still to do
  step,         \* what it is doing
  adapters,     \* the adapter the bridge holds for each agent
  made,         \* how many were made for it
  config,       \* the configuration each was made with
  skipped,      \* the agents for which none could be made when one was due (history)
  up,           \* those that are connected
  timers,       \* the adapter each agent's retry will start
  attempting,   \* the adapters the supervisor is starting
  terminal,     \* the agents whose retries a refusal stopped
  startFailures,         \* the agents reported as not ready
  credentialRejections,  \* the agents reported as refused
  writes                 \* how often the file was written

disk       == <<file, changed, writes>>
chain      == <<reloading, applying, snapshot, todo>>
table      == <<adapters, made, config, skipped>>
supervisor == <<timers, attempting, terminal>>
status     == <<startFailures, credentialRejections>>
vars       == <<phase, disk, chain, step, table, up, supervisor, status>>

Files    == [Agents -> Configs \cup {Absent}]
Numbers  == 1 .. MaxAdapters
Outcomes == {"up", "down", "refused"}

Op(a, does) == [agent |-> a, does |-> does]
Idle == [agent |-> None, does |-> "nothing", at |-> "idle"]
Stopping == phase \in {"stopping", "stopped"}

Held(a, n) == adapters[a] = n /\ n # None

Init ==
  /\ file \in Files /\ snapshot = file
  /\ changed = FALSE /\ writes = 0
  /\ reloading = <<>> /\ applying = FALSE
  /\ todo = {Op(a, "start") : a \in {b \in Agents : file[b] # Absent}}
  /\ phase = IF todo = {} THEN "up" ELSE "booting"
  /\ step = Idle
  /\ adapters = [a \in Agents |-> IF file[a] = Absent THEN None ELSE 1]
  /\ made = adapters
  /\ config = [a \in Agents |-> [n \in Numbers |-> IF n = 1 THEN file[a] ELSE Absent]]
  /\ up = [a \in Agents |-> {}]
  /\ timers = [a \in Agents |-> None]
  /\ attempting = [a \in Agents |-> {}]
  /\ skipped = {}
  /\ terminal = {} /\ startFailures = {} /\ credentialRejections = {}

-----------------------------------------------------------------------------
(* ConfigReloader: agents.yaml is watched once the boot is over.           *)

FileWritten ==
  /\ writes < MaxWrites
  /\ writes' = writes + 1
  /\ file' \in Files
  /\ changed' = (changed \/ phase = "up")
  /\ UNCHANGED <<phase, chain, step, table, up, supervisor, status>>

\* Once no write has come for a while; a file that is not valid is skipped.
Reload ==
  /\ changed /\ ~ Stopping
  /\ changed' = FALSE
  /\ reloading' \in {reloading, Append(reloading, file)}
  /\ UNCHANGED <<phase, file, writes, applying, snapshot, todo, step, table, up, supervisor, status>>

-----------------------------------------------------------------------------
(* applyReload(), one after the other.                                     *)

Diff(prev, next) ==
  {Op(a, "remove") : a \in {b \in Agents : prev[b] # Absent /\ next[b] = Absent}}
    \cup {Op(a, "replace") : a \in {b \in Agents : Absent \notin {prev[b], next[b]} /\ prev[b] # next[b]}}
    \cup {Op(a, "add") : a \in {b \in Agents : prev[b] = Absent /\ next[b] # Absent}}

\* A reload that changes no agent starts those held as refused again.
Work(next) ==
  IF Diff(snapshot, next) # {} THEN Diff(snapshot, next)
  ELSE {Op(a, "again") : a \in {b \in credentialRejections : adapters[b] # None}}

DropsNone == FALSE \* mutant: a stopping bridge applies no reload and never says so

Drops == Stopping

ReloadBegins ==
  /\ reloading # <<>> /\ ~ applying
  /\ IF Drops \/ (~ Stopping /\ Work(Head(reloading)) = {})
     THEN reloading' = Tail(reloading) /\ UNCHANGED <<applying, todo>>
     ELSE ~ Stopping /\ applying' = TRUE /\ todo' = Work(Head(reloading)) /\ UNCHANGED reloading
  /\ UNCHANGED <<phase, disk, snapshot, step, table, up, supervisor, status>>

\* Removals first, then what changed, then what is new.
Ready == {op \in todo : \A o \in todo : o.does = "remove" => op.does = "remove"}
Next1 == {op \in Ready : op.does = "add" => \A o \in Ready : o.does = "add"}

LeftFromFile(next) == file \* mutant: the snapshot is the file as it is now

Left(next) == next

\* What is left of the reload, or of the boot, once an agent is done with.
Done ==
  /\ step' = Idle
  /\ IF todo # {} THEN UNCHANGED <<phase, reloading, applying, snapshot>>
     ELSE IF applying
     THEN /\ snapshot' = Left(Head(reloading))
          /\ reloading' = Tail(reloading) /\ applying' = FALSE
          /\ UNCHANGED phase
     ELSE phase' = "up" /\ UNCHANGED <<reloading, applying, snapshot>>
  /\ UNCHANGED todo

Stays == UNCHANGED <<phase, reloading, applying, snapshot>>

\* Drop everything the supervisor remembers about the agent.
Cancel(a) ==
  /\ timers' = [timers EXCEPT ![a] = None]
  /\ terminal' = terminal \ {a}

\* Starting anew drops the connection it had.
Disconnects(a, n) == up' = [up EXCEPT ![a] = @ \ {n}]

BeginsStart(op) ==
  /\ op.does \in {"start", "again"}
  /\ step' = [agent |-> op.agent, does |-> op.does, at |-> "starting"]
  /\ Disconnects(op.agent, adapters[op.agent])
  /\ IF op.does = "again" THEN Cancel(op.agent) ELSE UNCHANGED <<timers, terminal>>
  /\ UNCHANGED attempting

BeginsOther(op) ==
  /\ op.does \in {"remove", "replace", "add"}
  /\ step' = [agent |-> op.agent, does |-> op.does,
              at |-> IF op.does # "add" /\ adapters[op.agent] # None THEN "stopping"
                     ELSE IF op.does = "remove" THEN "dropping" ELSE "creating"]
  /\ UNCHANGED <<up, supervisor>>

Begins(op) ==
  /\ step = Idle /\ op \in Next1
  /\ todo' = todo \ {op}
  /\ BeginsStart(op) \/ BeginsOther(op)
  /\ UNCHANGED <<disk, table, status>> /\ Stays

\* The old adapter is stopped, if there was one, and the bridge holds it no more.
DropsOld ==
  LET a == step.agent IN
  /\ step.at \in {"stopping", "dropping"}
  /\ up' = [up EXCEPT ![a] = @ \ {adapters[a]}]
  /\ adapters' = [adapters EXCEPT ![a] = None]
  /\ IF step.does = "remove" THEN Cancel(a) /\ skipped' = skipped \ {a} /\ Done
     ELSE /\ step' = [step EXCEPT !.at = "creating"]
          /\ UNCHANGED <<timers, terminal, skipped, todo>> /\ Stays
  /\ UNCHANGED <<disk, made, config, attempting, status>>

\* A new adapter, or none: after two failures the agent is skipped.
Creates ==
  LET a == step.agent
      n == made[a] + 1 IN
  /\ step.at = "creating"
  /\ \/ /\ n <= MaxAdapters
        /\ made' = [made EXCEPT ![a] = n]
        /\ adapters' = [adapters EXCEPT ![a] = n]
        /\ config' = [config EXCEPT ![a][n] = Head(reloading)[a]]
        /\ skipped' = skipped \ {a}
        /\ step' = [step EXCEPT !.at = "starting"]
        /\ UNCHANGED todo /\ Stays
     \/ /\ skipped' = skipped \cup {a}
        /\ Done /\ UNCHANGED <<adapters, made, config>>
  /\ UNCHANGED <<disk, up, supervisor, status>>

-----------------------------------------------------------------------------
(* Starts, of the boot, of a reload and of the supervisor.                 *)

ComesStillFailed(a, n, outcome) == \* mutant: a start that comes up does not clear the failure
  /\ up' = [up EXCEPT ![a] = IF outcome = "up" THEN @ \cup {n} ELSE @ \ {n}]
  /\ startFailures' = IF outcome = "up" THEN startFailures ELSE startFailures \cup {a}

Comes(a, n, outcome) ==
  /\ up' = [up EXCEPT ![a] = IF outcome = "up" THEN @ \cup {n} ELSE @ \ {n}]
  /\ startFailures' = IF outcome = "up" THEN startFailures \ {a} ELSE startFailures \cup {a}

RetriesWhateverWas(a) == FALSE \* mutant: a first failure is not retried

\* An agent marked terminal is not armed again.
Retries(a) == ~ Stopping /\ a \notin terminal

Schedule(a, n) ==
  /\ timers' = IF Retries(a) THEN [timers EXCEPT ![a] = n] ELSE timers
  /\ UNCHANGED terminal

\* startAdapter() and recordStartOutcome().
StartEnds(outcome) ==
  LET a == step.agent IN
  /\ step.at = "starting"
  /\ Comes(a, adapters[a], outcome)
  /\ credentialRejections' = IF outcome = "refused" THEN credentialRejections \cup {a}
                             ELSE credentialRejections \ {a}
  /\ CASE outcome = "up"      -> Cancel(a)
       [] outcome = "refused" -> UNCHANGED <<timers, terminal>>
       [] outcome = "down"    -> Schedule(a, adapters[a])
  /\ Done
  /\ UNCHANGED <<disk, table, attempting>>

TimerFires(a) ==
  /\ timers[a] # None
  /\ timers' = [timers EXCEPT ![a] = None]
  /\ attempting' = [attempting EXCEPT ![a] = @ \cup {timers[a]}]
  /\ Disconnects(a, timers[a])
  /\ UNCHANGED <<phase, disk, chain, step, table, terminal, status>>

MarkSilently(a) == credentialRejections \* mutant: the refusal is reported to nobody

\* onTerminal: reported once.
Mark(a) == IF a \in terminal THEN credentialRejections ELSE credentialRejections \cup {a}

\* attempt()
AttemptEnds(a, n, outcome) ==
  /\ n \in attempting[a]
  /\ attempting' = [attempting EXCEPT ![a] = @ \ {n}]
  /\ Comes(a, n, outcome)
  /\ CASE outcome = "up" -> Cancel(a) /\ credentialRejections' = credentialRejections \ {a}
       [] outcome = "refused" ->
            /\ timers' = [timers EXCEPT ![a] = None]
            /\ terminal' = terminal \cup {a}
            /\ credentialRejections' = Mark(a)
       [] outcome = "down" -> Schedule(a, n) /\ UNCHANGED credentialRejections
  /\ UNCHANGED <<phase, disk, chain, step, table>>

-----------------------------------------------------------------------------
(* stop(), in its order: the file and the timers, the turns in flight, the *)
(* reload being applied, the adapters.                                     *)

StopBegins ==
  /\ phase = "up"
  /\ phase' = "stopping"
  /\ changed' = FALSE
  /\ timers' = [a \in Agents |-> None]
  /\ UNCHANGED <<file, writes, chain, step, table, up, attempting, terminal, status>>

ReloadsOverAnyway == TRUE \* mutant: the reload being applied is not waited for

ReloadsOver == reloading = <<>>

AdaptersStop ==
  /\ phase = "stopping" /\ ReloadsOver
  /\ phase' = "stopped"
  /\ up' = [a \in Agents |-> up[a] \ {adapters[a]}]
  /\ UNCHANGED <<disk, chain, step, table, supervisor, status>>

-----------------------------------------------------------------------------
ChainStep ==
  \/ ReloadBegins \/ (\E op \in todo : Begins(op)) \/ DropsOld \/ Creates
  \/ \E outcome \in Outcomes : StartEnds(outcome)

SupervisorStep(a) ==
  TimerFires(a) \/ \E n \in Numbers, outcome \in Outcomes : AttemptEnds(a, n, outcome)

Next ==
  \/ FileWritten \/ Reload \/ ChainStep
  \/ \E a \in Agents : SupervisorStep(a)
  \/ StopBegins \/ AdaptersStop

Spec == Init /\ [][Next]_vars

\* A channel's start() and stop() have no limit of their own: a reload, and the
\* stop behind it, wait for them as long as they take.
AtAChannel == step.at \in {"starting", "stopping"}

\* What waits for no channel goes on, and the turns in flight end or are ended.
FairSpec == Spec /\ WF_vars(~ AtAChannel /\ ChainStep) /\ WF_vars(AdaptersStop)

-----------------------------------------------------------------------------
\* The types of the variables.
TypeOK ==
  /\ phase \in {"booting", "up", "stopping", "stopped"}
  /\ file \in Files /\ changed \in BOOLEAN /\ writes \in 0 .. MaxWrites
  /\ reloading \in Seq(Files) /\ applying \in BOOLEAN /\ snapshot \in Files
  /\ todo \subseteq [agent: Agents, does: {"start", "again", "remove", "replace", "add"}]
  /\ step \in [agent: Agents, does: {"start", "again", "remove", "replace", "add"},
               at: {"stopping", "dropping", "creating", "starting"}] \cup {Idle}
  /\ adapters \in [Agents -> Numbers \cup {None}] /\ made \in [Agents -> Numbers \cup {0}]
  /\ config \in [Agents -> [Numbers -> Configs \cup {Absent}]] /\ skipped \subseteq Agents
  /\ up \in [Agents -> SUBSET Numbers]
  /\ timers \in [Agents -> Numbers \cup {None}] /\ attempting \in [Agents -> SUBSET Numbers]
  /\ terminal \subseteq Agents
  /\ startFailures \subseteq Agents /\ credentialRejections \subseteq Agents

\* Once every reload read is over, each agent the last of them named has an adapter
\* made with what it said, or none could be made when one was last due; and no
\* other agent has one.
AdaptersFollowTheFile ==
  reloading = <<>> =>
    \A a \in Agents :
      /\ adapters[a] # None => snapshot[a] # Absent /\ config[a][adapters[a]] = snapshot[a]
      /\ snapshot[a] # Absent => adapters[a] # None \/ a \in skipped

\* The agents whose first adapter is the only one the bridge ever made for them.
FirstHeld(a) == made[a] = 1 /\ Held(a, 1) /\ ~ Stopping

\* An adapter that did not start for a reason that can pass is tried again,
\* however the tries, the refusals and the starts of a reload interleave.
FailureIsRetried ==
  \A a \in Agents :
    FirstHeld(a) /\ a \in startFailures \ credentialRejections /\ 1 \notin attempting[a]
      /\ step.agent # a => timers[a] = 1

\* What /internal/status says of an agent no start is awaited for is what its
\* channel is, whichever of the reload and the supervisor started it last.
StatusIsTrue ==
  \A a \in Agents :
    FirstHeld(a) /\ step.agent # a /\ attempting[a] = {} /\ Op(a, "start") \notin todo =>
      (a \in startFailures <=> 1 \notin up[a])

\* A refused credential is not tried again by the supervisor, and an agent whose
\* retries were stopped is reported as refused.
RefusedIsReported ==
  \A a \in Agents :
    FirstHeld(a) /\ step.agent # a =>
      /\ a \in credentialRejections => timers[a] = None /\ attempting[a] = {}
      /\ a \in terminal => a \in credentialRejections

\* Neither a reload nor the supervisor calls start() once the stop has begun to
\* stop the adapters.  A start() the supervisor had called before is not waited
\* for, and may still come up: AttemptEnds stays possible.
NoStartAfterTheStop ==
  [][phase = "stopped" =>
       /\ \A a \in Agents : attempting'[a] \subseteq attempting[a]
       /\ step'.at = "starting" => step.at = "starting"]_vars

\* A stop ends, whatever reloads it finds in progress, unless one of them waits
\* forever for a channel's start() or stop().
StopEnds ==
  []<>(~ AtAChannel) => (phase = "stopping" ~> phase = "stopped")

\* What the comments say and the code does not do.

\* A retry armed for an adapter that is replaced is cancelled: "firing it would
\* start an adapter the bridge no longer holds, and nothing would ever stop it".
OnlyHeldAdaptersAreTried ==
  [][\A a \in Agents : \A n \in attempting'[a] \ attempting[a] : Held(a, n)]_vars

\* An agent no adapter could be made for is without one "until the next reload",
\* which has the agent among those it sees to.
SkippedAreSeenTo ==
  [][ReloadBegins /\ ~ Stopping =>
       \A a \in skipped : Head(reloading)[a] # Absent => \E op \in todo' : op.agent = a]_vars
=============================================================================
