--------------------------- MODULE AdaptersProofs ---------------------------
(***************************************************************************)
(* What holds of the adapters for any agents and configurations, and any   *)
(* number of writes and adapters: those the bridge holds follow the file,  *)
(* what is reported of an agent is true, a failure is tried again, and     *)
(* nothing calls a start() once the stop has stopped them.                 *)
(***************************************************************************)
EXTENDS Adapters, TLAPS

\* The boot and the reloads run one after the other, each agent once in each.
Chain ==
  /\ phase = "booting" => reloading = <<>> /\ ~ changed
  /\ applying => reloading # <<>> /\ phase # "booting"
  /\ phase # "booting" /\ ~ applying => todo = {} /\ step = Idle
  /\ phase = "stopped" => reloading = <<>>
  /\ step # Idle => \A op \in todo : op.agent # step.agent
  /\ \A o, p \in todo : o.agent = p.agent => o = p

\* What is to be done is what the file being applied asks.
Asked ==
  \A op \in todo :
    /\ op.does = "start" <=> phase = "booting"
    /\ op.does \in {"start", "again"} => adapters[op.agent] # None
    /\ op.does \in {"replace", "add"} => Head(reloading)[op.agent] # Absent
    /\ op.does = "add" => snapshot[op.agent] = Absent
    /\ op.does = "again" => Head(reloading)[op.agent] = snapshot[op.agent]

\* And so is what is being done.
Doing ==
  /\ step.at = "starting" => adapters[step.agent] # None
  /\ step.at \in {"stopping", "dropping", "creating"} =>
       applying /\ (step.does = "remove" \/ Head(reloading)[step.agent] # Absent)
  /\ step.at = "creating" => step.does # "remove" /\ adapters[step.agent] = None

\* An adapter of the agent, if the bridge holds one, was made as the file f says.
Follows(a, f) == adapters[a] # None => f[a] # Absent /\ config[a][adapters[a]] = f[a]

Pending(a) ==
  \/ \E op \in todo : op.agent = a
  \/ step.agent = a /\ step.at \in {"stopping", "dropping"}

\* A reload takes the agents from one configuration to the next.
Followed ==
  \A a \in Agents :
    /\ ~ applying \/ Pending(a) => Follows(a, snapshot)
    /\ applying /\ ~ Pending(a) => Follows(a, Head(reloading))

\* The supervisor knows the adapters that were made.
Numbered ==
  /\ \A a \in Agents :
       /\ adapters[a] <= made[a] /\ timers[a] <= made[a] /\ attempting[a] \subseteq 1 .. made[a]
       /\ made[a] = 0 => a \notin terminal \cup credentialRejections \cup startFailures
  /\ Stopping => \A a \in Agents : timers[a] = None

First(a) == made[a] = 1 /\ adapters[a] = 1

Starting(a) == (step.agent = a /\ step.at = "starting") \/ Op(a, "start") \in todo

\* Of an agent's first adapter, what is reported and what is tried go together.
Tried(a) ==
  /\ a \in credentialRejections \/ Starting(a) => timers[a] = None /\ attempting[a] = {}
  /\ a \in terminal => a \in credentialRejections /\ ~ Starting(a)
  /\ Op(a, "again") \in todo => a \in credentialRejections
  /\ Op(a, "start") \in todo => a \notin startFailures
  /\ ~ Stopping /\ ~ Starting(a) /\ attempting[a] = {} =>
       /\ a \in startFailures \ credentialRejections => timers[a] = 1
       /\ a \in startFailures <=> 1 \notin up[a]

Firsts == \A a \in Agents : First(a) => Tried(a)

\* An agent of the file f has an adapter, or none could be made.
Named(a, f) == f[a] # Absent => adapters[a] # None \/ a \in skipped

Waits(a) == \E op \in todo : op.agent = a

Worked(a) == step.agent = a /\ step.at \in {"stopping", "dropping", "creating"}

\* A reload leaves no agent of its file without one, and removes none of them.
Served ==
  /\ \A a \in Agents :
       /\ ~ applying \/ Waits(a) => Named(a, snapshot)
       /\ applying /\ ~ Waits(a) /\ ~ Worked(a) => Named(a, Head(reloading))
  /\ \A op \in todo : op.does = "remove" => Head(reloading)[op.agent] = Absent
  /\ step.does = "remove" => Head(reloading)[step.agent] = Absent

Inv == TypeOK /\ Chain /\ Asked /\ Doing /\ Followed /\ Served /\ Numbered /\ Firsts

Does == {"start", "again", "remove", "replace", "add"}
Ats  == {"stopping", "dropping", "creating", "starting"}

\* A step in progress is of an agent, with the types of its fields.
LEMMA StepType ==
  ASSUME TypeOK, step # Idle
  PROVE  step.agent \in Agents /\ step.does \in Does /\ step.at \in Ats
BY DEF TypeOK, Does, Ats

\* The step that is none is at no stage.
LEMMA IdleType ==
  Idle.at = "idle"
BY DEF Idle

\* A reload's work and the boot's are operations on agents.
LEMMA WorkType ==
  ASSUME TypeOK, NEW next \in Files
  PROVE  /\ Work(next) \subseteq [agent: Agents, does: Does]
         /\ \A o, p \in Work(next) : o.agent = p.agent => o = p
         /\ \A op \in Work(next) :
              /\ op.does # "start"
              /\ op.does = "remove" => next[op.agent] = Absent
              /\ op.does \in {"replace", "add"} => next[op.agent] # Absent
              /\ op.does = "add" => snapshot[op.agent] = Absent
              /\ op.does = "again" =>
                   /\ next[op.agent] = snapshot[op.agent] /\ adapters[op.agent] # None
                   /\ op.agent \in credentialRejections
         /\ \A a \in Agents : (\A op \in Work(next) : op.agent # a) => next[a] = snapshot[a]
<1>1. CASE Diff(snapshot, next) # {}
  <2>1. Work(next) = Diff(snapshot, next)
    BY <1>1 DEF Work
  <2>2. \A op \in Diff(snapshot, next) :
          /\ op \in [agent: Agents, does: Does]
          /\ \/ op.does = "remove" /\ snapshot[op.agent] # Absent /\ next[op.agent] = Absent
             \/ op.does = "replace" /\ snapshot[op.agent] # Absent /\ next[op.agent] # Absent
             \/ op.does = "add" /\ snapshot[op.agent] = Absent /\ next[op.agent] # Absent
    BY DEF Diff, Op, Does
  <2>3. \A o, p \in Diff(snapshot, next) : o.agent = p.agent => o = p
    BY <2>2
  <2>4. ASSUME NEW a \in Agents, \A op \in Diff(snapshot, next) : op.agent # a
        PROVE  next[a] = snapshot[a]
    <3>1. \A does : Op(a, does).agent = a
      BY DEF Op
    <3>2. /\ ~ (snapshot[a] # Absent /\ next[a] = Absent)
          /\ ~ (Absent \notin {snapshot[a], next[a]} /\ snapshot[a] # next[a])
          /\ ~ (snapshot[a] = Absent /\ next[a] # Absent)
      BY <2>4, <3>1 DEF Diff
    <3> QED
      BY <3>2
  <2> QED
    BY <2>1, <2>2, <2>3, <2>4
<1>2. CASE Diff(snapshot, next) = {}
  <2>1. Work(next) = {Op(a, "again") : a \in {b \in credentialRejections : adapters[b] # None}}
    BY <1>2 DEF Work
  <2>2. \A a \in Agents : next[a] = snapshot[a]
    BY <1>2 DEF Diff
  <2> QED
    BY <2>1, <2>2 DEF Op, TypeOK, Does
<1> QED BY <1>1, <1>2

-----------------------------------------------------------------------------
\* The types.
LEMMA TypeInit ==
  Init => TypeOK
<1> SUFFICES ASSUME Init PROVE TypeOK
  OBVIOUS
<1> USE AdaptersAssumption
<1>1. file \in Files /\ snapshot \in Files /\ writes \in 0 .. MaxWrites
  BY DEF Init
<1>2. changed \in BOOLEAN /\ applying \in BOOLEAN
  BY Zenon DEF Init
<1>. /\ reloading \in Seq(Files)
     /\ phase \in {"booting", "up", "stopping", "stopped"}
  BY DEF Init
<1>3. /\ todo \subseteq [agent: Agents, does: Does]
      /\ step = Idle
  BY DEF Init, Op, Does
<1>4. adapters \in [Agents -> Numbers \cup {None}] /\ made \in [Agents -> Numbers \cup {0}]
  BY DEF Init, Numbers, None
<1>5. config \in [Agents -> [Numbers -> Configs \cup {Absent}]]
  BY DEF Init, Files
<1>6. /\ up \in [Agents -> SUBSET Numbers]
      /\ timers \in [Agents -> Numbers \cup {None}] /\ attempting \in [Agents -> SUBSET Numbers]
      /\ terminal \subseteq Agents
      /\ startFailures \subseteq Agents /\ credentialRejections \subseteq Agents
      /\ skipped \subseteq Agents
  BY DEF Init
<1> QED
  BY <1>1, <1>2, <1>3, <1>4, <1>5, <1>6 DEF TypeOK, Does

\* Being done with an agent keeps the types of the chain of reloads.
LEMMA DoneType ==
  ASSUME TypeOK, applying => reloading # <<>>, Done
  PROVE  /\ step' = Idle /\ todo' = todo
         /\ phase' \in {"booting", "up", "stopping", "stopped"}
         /\ reloading' \in Seq(Files) /\ applying' \in BOOLEAN /\ snapshot' \in Files
<1>1. reloading # <<>> => Head(reloading) \in Files /\ Tail(reloading) \in Seq(Files)
  BY DEF TypeOK
<1> QED
  BY <1>1 DEF Done, Left, TypeOK

\* What a start comes to keeps the types of the connections and the failures.
LEMMA ComesType ==
  ASSUME TypeOK, NEW a \in Agents, NEW n \in Numbers, NEW outcome, Comes(a, n, outcome)
  PROVE  up' \in [Agents -> SUBSET Numbers] /\ startFailures' \subseteq Agents
BY DEF Comes, TypeOK

\* Forgetting an agent keeps the types of the supervisor.
LEMMA CancelType ==
  ASSUME TypeOK, NEW a, Cancel(a)
  PROVE  timers' \in [Agents -> Numbers \cup {None}] /\ terminal' \subseteq Agents
BY DEF Cancel, TypeOK

\* Arming a retry keeps the types of the supervisor.
LEMMA ScheduleType ==
  ASSUME TypeOK, NEW a, NEW n \in Numbers \cup {None}, Schedule(a, n)
  PROVE  timers' \in [Agents -> Numbers \cup {None}] /\ terminal' \subseteq Agents
BY DEF Schedule, TypeOK

\* Every step keeps the types.
LEMMA TypeStep ==
  ASSUME TypeOK, Chain, Doing, Asked, [Next]_vars
  PROVE  TypeOK'
<1> USE DEF disk, chain, table, supervisor, status
<1>0. applying => reloading # <<>>
  BY DEF Chain
<1>1. CASE UNCHANGED vars
  BY <1>1 DEF vars, TypeOK
<1>2. CASE FileWritten
  <2>1. writes' \in 0 .. MaxWrites
    BY <1>2, AdaptersAssumption DEF FileWritten, TypeOK
  <2>2. changed' \in BOOLEAN
    BY <1>2 DEF FileWritten, TypeOK
  <2> QED
    BY <1>2, <2>1, <2>2 DEF FileWritten, TypeOK
<1>3. CASE Reload
  <2>1. reloading' \in Seq(Files)
    <3>1. reloading \in Seq(Files) /\ file \in Files
      BY DEF TypeOK
    <3>2. Append(reloading, file) \in Seq(Files)
      BY <3>1
    <3> QED
      BY <1>3, <3>1, <3>2 DEF Reload
  <2>2. changed' \in BOOLEAN
    BY Zenon, <1>3 DEF Reload
  <2> QED
    BY <1>3, <2>1, <2>2 DEF Reload, TypeOK
<1>4. CASE ReloadBegins
  <2>1. Head(reloading) \in Files /\ Tail(reloading) \in Seq(Files)
    BY <1>4 DEF ReloadBegins, TypeOK
  <2>2. Work(Head(reloading)) \subseteq [agent: Agents, does: Does]
    BY <2>1, WorkType
  <2>3. /\ reloading' \in Seq(Files) /\ applying' \in BOOLEAN
        /\ todo' \subseteq [agent: Agents, does: Does]
    BY <1>4, <2>1, <2>2 DEF ReloadBegins, TypeOK, Does
  <2> QED
    BY <1>4, <2>3 DEF ReloadBegins, TypeOK, Does
<1>5. ASSUME NEW op \in todo, Begins(op) PROVE TypeOK'
  <2>1. op.agent \in Agents /\ op.does \in Does
    BY DEF TypeOK, Does
  <2>2. todo' \subseteq [agent: Agents, does: Does]
    BY <1>5 DEF Begins, TypeOK, Does
  <2>3. step' \in [agent: Agents, does: Does, at: Ats] /\ up' \in [Agents -> SUBSET Numbers]
        /\ timers' \in [Agents -> Numbers \cup {None}] /\ terminal' \subseteq Agents
        /\ attempting' = attempting
    <3>1. CASE BeginsStart(op)
      BY <2>1, <3>1, CancelType DEF BeginsStart, Disconnects, TypeOK, Does, Ats
    <3>2. CASE BeginsOther(op)
      BY <2>1, <3>2 DEF BeginsOther, TypeOK, Does, Ats
    <3> QED
      BY <1>5, <3>1, <3>2 DEF Begins
  <2> QED
    BY <1>5, <2>2, <2>3 DEF Begins, Stays, TypeOK, Does, Ats
<1>6. CASE DropsOld
  <2>1. step.agent \in Agents /\ step.does \in Does /\ step.at \in Ats
    BY <1>6, StepType, IdleType DEF DropsOld
  <2>2. up' \in [Agents -> SUBSET Numbers] /\ adapters' \in [Agents -> Numbers \cup {None}]
    BY <1>6, <2>1 DEF DropsOld, TypeOK
  <2>3. CASE step.does = "remove"
    <3>1. Cancel(step.agent) /\ Done
      BY <1>6, <2>3 DEF DropsOld
    <3>2. timers' \in [Agents -> Numbers \cup {None}] /\ terminal' \subseteq Agents
      BY <3>1, CancelType
    <3>3. /\ step' = Idle /\ todo' = todo
          /\ phase' \in {"booting", "up", "stopping", "stopped"}
          /\ reloading' \in Seq(Files) /\ applying' \in BOOLEAN /\ snapshot' \in Files
      BY <1>0, <3>1, DoneType
    <3> QED
      BY <1>6, <2>2, <3>2, <3>3 DEF DropsOld, TypeOK
  <2>4. CASE step.does # "remove"
    <3>1. step' \in [agent: Agents, does: Does, at: Ats]
      BY <1>6, <2>1, <2>4 DEF DropsOld, TypeOK, Idle, Does, Ats
    <3> QED
      BY <1>6, <2>2, <2>4, <3>1 DEF DropsOld, Stays, TypeOK, Does, Ats
  <2> QED BY <2>3, <2>4
<1>7. CASE Creates
  <2>1. step.agent \in Agents /\ step.does \in Does /\ step.at \in Ats
    BY <1>7, StepType, IdleType DEF Creates
  <2>2. CASE Done /\ UNCHANGED <<adapters, made, config>>
    <3>1. /\ step' = Idle /\ todo' = todo
          /\ phase' \in {"booting", "up", "stopping", "stopped"}
          /\ reloading' \in Seq(Files) /\ applying' \in BOOLEAN /\ snapshot' \in Files
      BY <1>0, <2>2, DoneType
    <3>2. skipped' \subseteq Agents
      BY <1>7, <2>1 DEF Creates, TypeOK
    <3> QED
      BY <1>7, <2>2, <3>1, <3>2 DEF Creates, TypeOK
  <2>3. CASE ~ (Done /\ UNCHANGED <<adapters, made, config>>)
    <3> DEFINE a == step.agent
               n == made[step.agent] + 1
    <3>1. /\ n <= MaxAdapters
          /\ made' = [made EXCEPT ![a] = n] /\ adapters' = [adapters EXCEPT ![a] = n]
          /\ config' = [config EXCEPT ![a][n] = Head(reloading)[a]]
          /\ step' = [step EXCEPT !.at = "starting"]
          /\ UNCHANGED todo /\ Stays
      BY <1>7, <2>3 DEF Creates
    <3>2. n \in Numbers
      <4>1. made[step.agent] \in Numbers \cup {0}
        BY <2>1 DEF TypeOK
      <4>2. made[step.agent] \in Nat
        BY <4>1 DEF Numbers
      <4> QED
        BY <3>1, <4>2, AdaptersAssumption DEF Numbers
    <3>3. Head(reloading) \in Files
      BY <1>7, <1>0 DEF Creates, Doing, TypeOK
    <3>4. Head(reloading)[a] \in Configs \cup {Absent}
      BY <2>1, <3>3 DEF Files
    <3>5. step' \in [agent: Agents, does: Does, at: Ats]
      BY <2>1, <3>1, <1>7 DEF Creates, TypeOK, Idle, Does, Ats
    <3> HIDE DEF n
    <3>6. /\ adapters' \in [Agents -> Numbers \cup {None}] /\ made' \in [Agents -> Numbers \cup {0}]
          /\ config' \in [Agents -> [Numbers -> Configs \cup {Absent}]]
      BY <2>1, <3>1, <3>2, <3>4 DEF TypeOK
    <3> QED
      BY <1>7, <3>1, <3>5, <3>6 DEF Creates, Stays, TypeOK, Does, Ats
  <2> QED BY <2>2, <2>3
<1>8. ASSUME NEW outcome \in Outcomes, StartEnds(outcome) PROVE TypeOK'
  <2>1. step.agent \in Agents /\ adapters[step.agent] \in Numbers
    <3>1. step.agent \in Agents
      BY <1>8, StepType, IdleType DEF StartEnds
    <3> QED
      BY <1>8, <3>1 DEF StartEnds, Doing, TypeOK
  <2>2. up' \in [Agents -> SUBSET Numbers] /\ startFailures' \subseteq Agents
    BY <1>8, <2>1, ComesType DEF StartEnds
  <2>3. credentialRejections' \subseteq Agents
    BY <1>8, <2>1 DEF StartEnds, TypeOK
  <2>4. timers' \in [Agents -> Numbers \cup {None}] /\ terminal' \subseteq Agents
    <3>1. \/ Cancel(step.agent) \/ UNCHANGED <<timers, terminal>>
          \/ Schedule(step.agent, adapters[step.agent])
      BY <1>8 DEF StartEnds, Outcomes
    <3> QED
      BY <2>1, <3>1, CancelType, ScheduleType DEF TypeOK
  <2>5. /\ step' = Idle /\ todo' = todo
        /\ phase' \in {"booting", "up", "stopping", "stopped"}
        /\ reloading' \in Seq(Files) /\ applying' \in BOOLEAN /\ snapshot' \in Files
    BY <1>0, <1>8, DoneType DEF StartEnds
  <2> QED
    BY <1>8, <2>2, <2>3, <2>4, <2>5 DEF StartEnds, TypeOK
<1>9. ASSUME NEW a \in Agents, TimerFires(a) PROVE TypeOK'
  BY <1>9 DEF TimerFires, Disconnects, TypeOK
<1>10. ASSUME NEW a \in Agents, NEW n \in Numbers, NEW outcome \in Outcomes, AttemptEnds(a, n, outcome)
       PROVE  TypeOK'
  <2>1. up' \in [Agents -> SUBSET Numbers] /\ startFailures' \subseteq Agents
    BY <1>10, ComesType DEF AttemptEnds
  <2>2. /\ timers' \in [Agents -> Numbers \cup {None}] /\ terminal' \subseteq Agents
        /\ credentialRejections' \subseteq Agents
    <3>1. CASE outcome = "up"
      BY <1>10, <3>1, CancelType DEF AttemptEnds, TypeOK
    <3>2. CASE outcome = "refused"
      BY <1>10, <3>2 DEF AttemptEnds, Mark, TypeOK
    <3>3. CASE outcome = "down"
      BY <1>10, <3>3, ScheduleType DEF AttemptEnds, TypeOK
    <3> QED
      BY <3>1, <3>2, <3>3 DEF Outcomes
  <2>3. attempting' \in [Agents -> SUBSET Numbers]
    BY <1>10 DEF AttemptEnds, TypeOK
  <2> QED
    BY <1>10, <2>1, <2>2, <2>3 DEF AttemptEnds, TypeOK
<1>11. CASE StopBegins
  <2>1. changed' \in BOOLEAN /\ timers' \in [Agents -> Numbers \cup {None}]
    BY <1>11 DEF StopBegins
  <2> QED
    BY <1>11, <2>1 DEF StopBegins, TypeOK
<1>12. CASE AdaptersStop
  BY <1>12 DEF AdaptersStop, TypeOK
<1> QED
  BY <1>1, <1>2, <1>3, <1>4, <1>5, <1>6, <1>7, <1>8, <1>9, <1>10, <1>11, <1>12
     DEF Next, ChainStep, SupervisorStep

-----------------------------------------------------------------------------
(* The boot and the reloads.                                               *)

Reloads == Chain /\ Asked /\ Doing /\ Followed

\* The agent being done with follows the file; so do all, when it is the last one.
LEMMA DoneKeeps ==
  ASSUME TypeOK, Reloads, step # Idle, Done, changed' = changed,
         \A b \in Agents : b # step.agent =>
           adapters'[b] = adapters[b] /\ config'[b] = config[b],
         adapters'[step.agent] # None =>
           LET f == IF applying THEN Head(reloading) ELSE snapshot
           IN f[step.agent] # Absent /\ config'[step.agent][adapters'[step.agent]] = f[step.agent]
  PROVE  Reloads'
<1>1. step' = Idle /\ todo' = todo /\ step'.at = "idle"
  BY IdleType DEF Done
<1>2. step.agent \in Agents /\ \A op \in todo : op.agent \in Agents /\ op.agent # step.agent
  BY StepType DEF Reloads, Chain, TypeOK
<1>3. \A a \in Agents : Pending(a)' <=> \E op \in todo : op.agent = a
  BY <1>1 DEF Pending
<1>4. \A a \in Agents : a # step.agent => (Pending(a)' <=> Pending(a))
  BY <1>3 DEF Pending
<1>5. \A a \in Agents : a = step.agent => ~ Pending(a)'
  BY <1>2, <1>3
<1>6. CASE todo # {}
  <2>1. UNCHANGED <<phase, reloading, applying, snapshot>>
    BY <1>6 DEF Done
  <2>2. Chain'
    BY <1>1, <1>6, <2>1 DEF Reloads, Chain
  <2>3. Asked'
    BY <1>1, <1>2, <2>1 DEF Reloads, Asked
  <2>4. Doing'
    BY <1>1 DEF Doing
  <2>5. Followed'
    <3> SUFFICES ASSUME NEW a \in Agents
                 PROVE  /\ ~ applying' \/ Pending(a)' => Follows(a, snapshot)'
                        /\ applying' /\ ~ Pending(a)' => Follows(a, Head(reloading))'
      BY DEF Followed
    <3>1. CASE a = step.agent
      BY <1>5, <2>1, <3>1 DEF Follows
    <3>2. CASE a # step.agent
      BY <1>4, <2>1, <3>2 DEF Reloads, Followed, Follows
    <3> QED BY <3>1, <3>2
  <2> QED
    BY <2>2, <2>3, <2>4, <2>5 DEF Reloads
<1>7. CASE todo = {} /\ applying
  <2>1. snapshot' = Head(reloading) /\ ~ applying' /\ phase' = phase /\ phase # "booting"
        /\ phase # "stopped"
    BY <1>7 DEF Done, Left, Reloads, Chain
  <2>2. Chain'
    BY <1>1, <1>7, <2>1 DEF Reloads, Chain
  <2>3. Asked' /\ Doing'
    BY <1>1, <1>7 DEF Asked, Doing
  <2>4. Followed'
    <3> SUFFICES ASSUME NEW a \in Agents PROVE Follows(a, snapshot)'
      BY <1>3, <1>7, <2>1 DEF Followed
    <3>1. CASE a = step.agent
      BY <1>7, <2>1, <3>1 DEF Follows
    <3>2. CASE a # step.agent
      <4>1. ~ Pending(a)
        BY <1>3, <1>4, <1>7, <3>2
      <4> QED
        BY <1>7, <2>1, <3>2, <4>1 DEF Reloads, Followed, Follows
    <3> QED BY <3>1, <3>2
  <2> QED
    BY <2>2, <2>3, <2>4 DEF Reloads
<1>8. CASE todo = {} /\ ~ applying
  <2>1. /\ phase = "booting" /\ phase' = "up"
        /\ UNCHANGED <<reloading, applying, snapshot>>
    BY <1>8 DEF Done, Reloads, Chain
  <2>2. Chain'
    BY <1>1, <1>8, <2>1 DEF Reloads, Chain
  <2>3. Asked' /\ Doing'
    BY <1>1, <1>8 DEF Asked, Doing
  <2>4. Followed'
    <3> SUFFICES ASSUME NEW a \in Agents PROVE Follows(a, snapshot)'
      BY <1>8, <2>1 DEF Followed
    <3>1. CASE a = step.agent
      BY <1>8, <2>1, <3>1 DEF Follows
    <3>2. CASE a # step.agent
      BY <1>8, <2>1, <3>2 DEF Reloads, Followed, Follows
    <3> QED BY <3>1, <3>2
  <2> QED
    BY <2>2, <2>3, <2>4 DEF Reloads
<1> QED BY <1>6, <1>7, <1>8

\* A step that touches neither the chain nor the adapters keeps what the reloads keep.
LEMMA ReloadsStay ==
  ASSUME Reloads, UNCHANGED <<phase, changed, reloading, applying, snapshot, todo, step, table>>
  PROVE  Reloads'
BY DEF Reloads, Chain, Asked, Doing, Followed, Follows, Pending, table

\* The boot starts the adapters it made as the file says.
LEMMA InitReloads ==
  Init => Reloads
<1> SUFFICES ASSUME Init PROVE Reloads
  OBVIOUS
<1>1. /\ \A op \in todo : op.agent \in Agents /\ op.does = "start" /\ file[op.agent] # Absent
      /\ \A o, p \in todo : o.agent = p.agent => o = p
  BY DEF Init, Op
<1>2. step = Idle /\ step.at = "idle" /\ ~ applying /\ reloading = <<>> /\ ~ changed
  BY IdleType DEF Init
<1>3. (phase = "booting" <=> todo # {}) /\ phase # "stopped"
  BY DEF Init
<1>4. Chain
  BY <1>1, <1>2, <1>3 DEF Chain
<1>5. Asked
  BY <1>1, <1>3 DEF Asked, Init, None
<1>6. Doing
  BY <1>2 DEF Doing
<1>7. Followed
  <2>1. \A a \in Agents : Follows(a, snapshot)
    BY AdaptersAssumption DEF Init, Follows, Numbers, None
  <2> QED
    BY <1>2, <2>1 DEF Followed
<1> QED
  BY <1>4, <1>5, <1>6, <1>7 DEF Reloads

\* An agent's turn in the reload or the boot begins.
LEMMA BeginsKeepsReloads ==
  ASSUME TypeOK, Reloads, NEW op \in todo, Begins(op)
  PROVE  Reloads'
<1> USE IdleType
<1>1. /\ step = Idle /\ todo' = todo \ {op} /\ UNCHANGED <<adapters, made, config>>
      /\ UNCHANGED <<phase, changed, reloading, applying, snapshot>>
  BY DEF Begins, Stays, disk, table
<1>2. op.agent \in Agents /\ \A o \in todo' : o.agent # op.agent /\ o \in todo
  BY <1>1 DEF TypeOK, Reloads, Chain
<1>3. /\ step'.agent = op.agent /\ step'.does = op.does
      /\ \/ op.does \in {"start", "again"} /\ step'.at = "starting"
         \/ /\ op.does \in {"remove", "replace", "add"}
            /\ step'.at = IF op.does # "add" /\ adapters[op.agent] # None THEN "stopping"
                          ELSE IF op.does = "remove" THEN "dropping" ELSE "creating"
  BY DEF Begins, BeginsStart, BeginsOther
<1>4. step'.at \in Ats /\ step' # Idle
  BY <1>3 DEF Ats, Idle
<1>5. op.does # "start" <=> applying
  BY DEF Reloads, Chain, Asked
<1>6. Chain'
  <2>1. phase # "booting" => applying
    BY DEF Reloads, Chain
  <2> QED
    BY <1>1, <1>2, <1>3, <2>1 DEF Reloads, Chain
<1>7. Asked'
  BY <1>1, <1>2 DEF Reloads, Asked
<1>8. op.does = "add" => adapters[op.agent] = None
  <2>1. Pending(op.agent)
    BY DEF Pending
  <2> QED
    BY <1>2, <2>1 DEF Reloads, Asked, Followed, Follows
<1>9. Doing'
  BY <1>1, <1>3, <1>5, <1>8 DEF Reloads, Asked, Doing
<1>10. Followed'
  <2> SUFFICES ASSUME NEW a \in Agents
               PROVE  /\ ~ applying \/ Pending(a)' => Follows(a, snapshot)
                      /\ applying /\ ~ Pending(a)' => Follows(a, Head(reloading))
    BY <1>1 DEF Followed, Follows
  <2>1. CASE a # op.agent
    <3>1. Pending(a)' <=> Pending(a)
      BY <1>1, <1>3, <2>1 DEF Pending
    <3> QED
      BY <3>1 DEF Reloads, Followed
  <2>2. CASE a = op.agent
    <3>1. Follows(a, snapshot)
      BY <2>2 DEF Reloads, Followed, Pending
    <3>2. ASSUME applying, ~ Pending(a)' PROVE Follows(a, Head(reloading))
      <4>1. step'.at \notin {"stopping", "dropping"}
        BY <1>3, <2>2, <3>2 DEF Pending
      <4>2. CASE op.does = "again"
        BY <2>2, <3>1, <4>2 DEF Reloads, Asked, Follows
      <4>3. CASE op.does # "again"
        BY <1>3, <1>5, <1>8, <2>2, <3>2, <4>1, <4>3 DEF Follows
      <4> QED BY <4>2, <4>3
    <3> QED BY <3>1, <3>2
  <2> QED BY <2>1, <2>2
<1> QED
  BY <1>6, <1>7, <1>9, <1>10 DEF Reloads

\* The old adapter of a removed or changed agent goes.
LEMMA DropsKeepsReloads ==
  ASSUME TypeOK, Reloads, DropsOld
  PROVE  Reloads'
<1>1. /\ step # Idle /\ step.agent \in Agents /\ step.at \in {"stopping", "dropping"} /\ applying
      /\ step.does \in Does
  BY StepType, IdleType DEF DropsOld, Reloads, Doing
<1>2. /\ adapters'[step.agent] = None
      /\ \A b \in Agents : b # step.agent => adapters'[b] = adapters[b]
      /\ config' = config /\ made' = made /\ changed' = changed
  BY <1>1 DEF DropsOld, TypeOK, disk
<1>3. CASE step.does = "remove"
  BY <1>1, <1>2, <1>3, DoneKeeps DEF DropsOld
<1>4. CASE step.does # "remove"
  <2>1. /\ step' = [step EXCEPT !.at = "creating"]
        /\ UNCHANGED <<todo, phase, reloading, applying, snapshot>>
    BY <1>4 DEF DropsOld, Stays
  <2>2. step'.agent = step.agent /\ step'.does = step.does /\ step'.at = "creating" /\ step' # Idle
    BY <1>1, <2>1, StepType DEF TypeOK, Idle
  <2>3. \A op \in todo : op.agent \in Agents /\ op.agent # step.agent
    BY <1>1 DEF Reloads, Chain, TypeOK
  <2>4. Chain'
    BY <1>1, <1>2, <2>1, <2>2 DEF Reloads, Chain
  <2>5. Asked'
    BY <1>2, <2>1, <2>3 DEF Reloads, Asked
  <2>6. Doing'
    BY <1>1, <1>2, <1>4, <2>1, <2>2 DEF Reloads, Doing
  <2>7. Followed'
    <3> SUFFICES ASSUME NEW a \in Agents
                 PROVE  /\ ~ applying \/ Pending(a)' => Follows(a, snapshot)'
                        /\ applying /\ ~ Pending(a)' => Follows(a, Head(reloading))'
      BY <2>1 DEF Followed
    <3>1. CASE a = step.agent
      BY <1>2, <3>1 DEF Follows
    <3>2. CASE a # step.agent
      <4>1. Pending(a)' <=> Pending(a)
        BY <2>1, <2>2, <3>2 DEF Pending
      <4> QED
        BY <1>2, <2>1, <3>2, <4>1 DEF Reloads, Followed, Follows
    <3> QED BY <3>1, <3>2
  <2> QED
    BY <2>4, <2>5, <2>6, <2>7 DEF Reloads
<1> QED BY <1>3, <1>4

\* A new adapter is made as the file being applied says, or none is.
LEMMA CreatesKeepsReloads ==
  ASSUME TypeOK, Reloads, Creates
  PROVE  Reloads'
<1>1. /\ step # Idle /\ step.agent \in Agents /\ step.at = "creating" /\ applying
      /\ adapters[step.agent] = None /\ Head(reloading)[step.agent] # Absent
      /\ changed' = changed
  BY StepType, IdleType DEF Creates, Reloads, Doing, disk
<1>2. CASE Done /\ UNCHANGED <<adapters, made, config>>
  BY <1>1, <1>2, DoneKeeps
<1>3. CASE ~ (Done /\ UNCHANGED <<adapters, made, config>>)
  <2> DEFINE a == step.agent
             n == made[step.agent] + 1
  <2>1. /\ n <= MaxAdapters
        /\ made' = [made EXCEPT ![a] = n] /\ adapters' = [adapters EXCEPT ![a] = n]
        /\ config' = [config EXCEPT ![a][n] = Head(reloading)[a]]
        /\ step' = [step EXCEPT !.at = "starting"]
        /\ UNCHANGED todo /\ Stays
    BY <1>3 DEF Creates
  <2>2. n \in Numbers
    <3>1. made[step.agent] \in Numbers \cup {0}
      BY <1>1 DEF TypeOK
    <3>2. made[step.agent] \in Nat
      BY <3>1 DEF Numbers
    <3> QED
      BY <2>1, <3>2, AdaptersAssumption DEF Numbers
  <2> HIDE DEF n
  <2>3. step'.agent = a /\ step'.does = step.does /\ step'.at = "starting" /\ step' # Idle
    BY <1>1, <2>1, StepType DEF TypeOK, Idle
  <2>4. /\ adapters'[a] = n /\ n # None /\ config'[a][n] = Head(reloading)[a]
        /\ \A b \in Agents : b # a => adapters'[b] = adapters[b] /\ config'[b] = config[b]
    <3>1. adapters'[a] = n /\ \A b \in Agents : b # a => adapters'[b] = adapters[b]
      BY <1>1, <2>1 DEF TypeOK
    <3>2. n # None
      BY <2>2 DEF Numbers, None
    <3>3. \A b \in Agents : b # a => config'[b] = config[b]
      BY <1>1, <2>1 DEF TypeOK
    <3>4. config'[a] = [config[a] EXCEPT ![n] = Head(reloading)[a]]
      BY <1>1, <2>1 DEF TypeOK
    <3>5. config[a] \in [Numbers -> Configs \cup {Absent}]
      BY <1>1 DEF TypeOK
    <3> QED
      BY <2>2, <3>1, <3>2, <3>3, <3>4, <3>5
  <2>5. UNCHANGED <<phase, reloading, applying, snapshot, todo>>
    BY <2>1 DEF Stays
  <2>6. \A op \in todo : op.agent \in Agents /\ op.agent # a
    BY <1>1 DEF Reloads, Chain, TypeOK
  <2>7. Chain'
    BY <1>1, <2>3, <2>5 DEF Reloads, Chain
  <2>8. Asked'
    BY <2>4, <2>5, <2>6 DEF Reloads, Asked
  <2>9. Doing'
    BY <2>3, <2>4 DEF Doing
  <2>10. Followed'
    <3> SUFFICES ASSUME NEW b \in Agents
                 PROVE  /\ ~ applying \/ Pending(b)' => Follows(b, snapshot)'
                        /\ applying /\ ~ Pending(b)' => Follows(b, Head(reloading))'
      BY <2>5 DEF Followed
    <3>1. CASE b = a
      <4>1. ~ Pending(b)'
        BY <2>3, <2>5, <2>6, <3>1 DEF Pending
      <4> QED
        BY <1>1, <2>4, <2>5, <3>1, <4>1 DEF Follows
    <3>2. CASE b # a
      <4>1. Pending(b)' <=> Pending(b)
        BY <2>3, <2>5, <3>2 DEF Pending
      <4> QED
        BY <2>4, <2>5, <3>2, <4>1 DEF Reloads, Followed, Follows
    <3> QED BY <3>1, <3>2
  <2> QED
    BY <2>7, <2>8, <2>9, <2>10 DEF Reloads
<1> QED BY <1>2, <1>3

\* A reload is begun, or dropped: the agents it has nothing to do for follow it already.
LEMMA ReloadBeginsKeepsReloads ==
  ASSUME TypeOK, Reloads, ReloadBegins
  PROVE  Reloads'
<1>1. /\ reloading # <<>> /\ ~ applying /\ phase \notin {"booting", "stopped"}
      /\ todo = {} /\ step = Idle /\ step.at = "idle"
  BY IdleType DEF ReloadBegins, Reloads, Chain
<1>2. UNCHANGED <<phase, changed, snapshot, step, adapters, config, credentialRejections>>
  BY DEF ReloadBegins, disk, table, status
<1>3. \A a \in Agents : Follows(a, snapshot)
  BY <1>1 DEF Reloads, Followed
<1>4. CASE reloading' = Tail(reloading) /\ UNCHANGED <<applying, todo>>
  <2>1. Chain' /\ Asked' /\ Doing'
    BY <1>1, <1>2, <1>4 DEF Chain, Asked, Doing
  <2>2. Followed'
    BY <1>1, <1>2, <1>3, <1>4 DEF Followed, Follows
  <2> QED
    BY <2>1, <2>2 DEF Reloads
<1>5. CASE applying' = TRUE /\ todo' = Work(Head(reloading)) /\ UNCHANGED reloading
  <2> DEFINE next == Head(reloading)
  <2>1. next \in Files
    BY <1>1 DEF TypeOK
  <2> HIDE DEF next
  <2>2. todo' = Work(next) /\ reloading' # <<>> /\ Head(reloading)' = next
    BY <1>1, <1>5 DEF next
  <2>3. \A op \in todo' : op.agent \in Agents
    BY <2>1, <2>2, WorkType
  <2>4. Chain'
    BY <1>1, <1>2, <1>5, <2>1, <2>2, WorkType DEF Chain
  <2>5. Asked'
    <3> SUFFICES ASSUME NEW op \in todo'
                 PROVE  /\ op.does = "start" <=> (phase' = "booting")
                        /\ op.does \in {"start", "again"} => adapters'[op.agent] # None
                        /\ op.does \in {"replace", "add"} => Head(reloading)'[op.agent] # Absent
                        /\ op.does = "add" => snapshot'[op.agent] = Absent
                        /\ op.does = "again" => Head(reloading)'[op.agent] = snapshot'[op.agent]
      BY DEF Asked
    <3> QED
      BY <1>1, <1>2, <2>1, <2>2, WorkType
  <2>6. Doing'
    BY <1>1, <1>2 DEF Doing
  <2>7. Followed'
    <3> SUFFICES ASSUME NEW a \in Agents
                 PROVE  /\ ~ applying' \/ Pending(a)' => Follows(a, snapshot)'
                        /\ applying' /\ ~ Pending(a)' => Follows(a, Head(reloading))'
      BY DEF Followed
    <3>1. Follows(a, snapshot)'
      BY <1>2, <1>3 DEF Follows
    <3>2. ASSUME ~ Pending(a)' PROVE Follows(a, Head(reloading))'
      <4>1. \A op \in Work(next) : op.agent # a
        BY <2>2, <3>2 DEF Pending
      <4>2. next[a] = snapshot[a]
        BY <2>1, <4>1, WorkType
      <4> QED
        BY <1>2, <2>2, <3>1, <4>2 DEF Follows
    <3> QED BY <1>5, <3>1, <3>2
  <2> QED
    BY <2>4, <2>5, <2>6, <2>7 DEF Reloads
<1> QED
  BY <1>4, <1>5 DEF ReloadBegins

\* A file read goes behind the reloads not over.
LEMMA ReloadKeepsReloads ==
  ASSUME TypeOK, Reloads, Reload
  PROVE  Reloads'
<1>1. UNCHANGED <<phase, applying, snapshot, todo, step, table>> /\ ~ changed' /\ ~ Stopping
  BY DEF Reload, table
<1>2. phase # "booting"
  BY DEF Reload, Reloads, Chain
<1>3. applying => reloading' # <<>> /\ Head(reloading') = Head(reloading)
  BY DEF Reload, Reloads, Chain, TypeOK
<1>4. Chain'
  BY <1>1, <1>2, <1>3 DEF Reloads, Chain, Stopping
<1>5. Asked'
  <2>1. todo # {} => applying
    BY <1>2 DEF Reloads, Chain
  <2> QED
    BY <1>1, <1>3, <2>1 DEF Reloads, Asked, table
<1>6. Doing'
  BY <1>1, <1>3 DEF Reloads, Doing, table
<1>7. Followed'
  BY <1>1, <1>3 DEF Reloads, Followed, Follows, Pending, table
<1> QED
  BY <1>4, <1>5, <1>6, <1>7 DEF Reloads

\* The start of the boot or of a reload ends, and with it the agent's turn.
LEMMA StartKeepsReloads ==
  ASSUME TypeOK, Reloads, NEW outcome, StartEnds(outcome)
  PROVE  Reloads'
<1>1. /\ step # Idle /\ step.agent \in Agents /\ step.at = "starting" /\ Done
      /\ UNCHANGED <<changed, adapters, config>>
  BY StepType, IdleType DEF StartEnds, disk, table
<1>2. ~ Pending(step.agent)
  BY <1>1 DEF Pending, Reloads, Chain
<1>3. Follows(step.agent, IF applying THEN Head(reloading) ELSE snapshot)
  BY <1>1, <1>2 DEF Reloads, Followed
<1> QED
  BY <1>1, <1>3, DoneKeeps DEF Follows

\* Every step keeps what the boot and the reloads keep.
LEMMA ReloadsStep ==
  ASSUME TypeOK, Reloads, [Next]_vars
  PROVE  Reloads'
<1> USE DEF disk, chain, table, supervisor, status
<1>1. CASE UNCHANGED vars
  BY <1>1, ReloadsStay DEF vars
<1>2. CASE FileWritten
  <2>1. /\ UNCHANGED <<phase, reloading, applying, snapshot, todo, step, table>>
        /\ phase = "booting" /\ ~ changed => ~ changed'
    BY <1>2 DEF FileWritten
  <2>2. Chain'
    BY <2>1 DEF Reloads, Chain
  <2>3. Asked' /\ Doing' /\ Followed'
    BY <2>1 DEF Reloads, Asked, Doing, Followed, Follows, Pending
  <2> QED
    BY <2>2, <2>3 DEF Reloads
<1>3. CASE Reload
  BY <1>3, ReloadKeepsReloads
<1>4. CASE ReloadBegins
  BY <1>4, ReloadBeginsKeepsReloads
<1>5. ASSUME NEW op \in todo, Begins(op) PROVE Reloads'
  BY <1>5, BeginsKeepsReloads
<1>6. CASE DropsOld
  BY <1>6, DropsKeepsReloads
<1>7. CASE Creates
  BY <1>7, CreatesKeepsReloads
<1>8. ASSUME NEW outcome \in Outcomes, StartEnds(outcome) PROVE Reloads'
  BY <1>8, StartKeepsReloads
<1>9. ASSUME NEW a \in Agents, SupervisorStep(a) PROVE Reloads'
  BY <1>9, ReloadsStay DEF SupervisorStep, TimerFires, AttemptEnds
<1>10. CASE StopBegins
  <2>1. /\ UNCHANGED <<reloading, applying, snapshot, todo, step, table>> /\ ~ changed'
        /\ phase = "up" /\ phase' = "stopping"
    BY <1>10 DEF StopBegins
  <2>2. Chain'
    BY <2>1 DEF Reloads, Chain
  <2>3. Asked' /\ Doing' /\ Followed'
    BY <2>1 DEF Reloads, Asked, Doing, Followed, Follows, Pending
  <2> QED
    BY <2>2, <2>3 DEF Reloads
<1>11. CASE AdaptersStop
  <2>1. /\ UNCHANGED <<changed, reloading, applying, snapshot, todo, step, table>>
        /\ phase = "stopping" /\ phase' = "stopped" /\ reloading = <<>>
    BY <1>11 DEF AdaptersStop, ReloadsOver
  <2>2. Chain'
    BY <2>1 DEF Reloads, Chain
  <2>3. Asked' /\ Doing' /\ Followed'
    BY <2>1 DEF Reloads, Asked, Doing, Followed, Follows, Pending
  <2> QED
    BY <2>2, <2>3 DEF Reloads
<1> QED
  BY <1>1, <1>2, <1>3, <1>4, <1>5, <1>6, <1>7, <1>8, <1>9, <1>10, <1>11 DEF Next, ChainStep

-----------------------------------------------------------------------------
(* No agent of the file is left without an adapter unseen.                 *)

\* The agent being done with has an adapter if the file names it, or is marked; so
\* has every other, when it is the last one.
LEMMA DoneServes ==
  ASSUME TypeOK, Reloads, Served, step # Idle, Done,
         \A b \in Agents : b # step.agent =>
           adapters'[b] = adapters[b] /\ (b \in skipped' <=> b \in skipped),
         LET f == IF applying THEN Head(reloading) ELSE snapshot
         IN f[step.agent] # Absent => adapters'[step.agent] # None \/ step.agent \in skipped'
  PROVE  Served'
<1>1. step' = Idle /\ todo' = todo /\ step'.at = "idle" /\ step'.does = "nothing"
  BY DEF Done, Idle
<1>2. step.agent \in Agents /\ \A op \in todo : op.agent \in Agents /\ op.agent # step.agent
  BY StepType DEF Reloads, Chain, TypeOK
<1>3. \A a \in Agents : (Waits(a)' <=> Waits(a)) /\ ~ Worked(a)'
  BY <1>1 DEF Waits, Worked
<1>4. ~ Waits(step.agent)
  BY <1>2 DEF Waits
<1>5. \A a \in Agents : a # step.agent => ~ Worked(a)
  BY DEF Worked
<1>6. CASE todo # {}
  <2>1. UNCHANGED <<reloading, applying, snapshot>>
    BY <1>6 DEF Done
  <2>2. ASSUME NEW a \in Agents
        PROVE  /\ ~ applying' \/ Waits(a)' => Named(a, snapshot)'
               /\ applying' /\ ~ Waits(a)' /\ ~ Worked(a)' => Named(a, Head(reloading))'
    <3>1. CASE a = step.agent
      BY <1>3, <1>4, <2>1, <3>1 DEF Named
    <3>2. CASE a # step.agent
      BY <1>3, <1>5, <2>1, <3>2 DEF Served, Named
    <3> QED BY <3>1, <3>2
  <2> QED
    BY <1>1, <2>1, <2>2 DEF Served
<1>7. CASE todo = {} /\ applying
  <2>1. snapshot' = Head(reloading) /\ ~ applying'
    BY <1>7 DEF Done, Left
  <2>2. \A a \in Agents : ~ Waits(a)
    BY <1>7 DEF Waits
  <2>3. ASSUME NEW a \in Agents PROVE Named(a, snapshot)'
    <3>1. CASE a = step.agent
      BY <1>7, <2>1, <3>1 DEF Named
    <3>2. CASE a # step.agent
      BY <1>5, <1>7, <2>1, <2>2, <3>2 DEF Served, Named
    <3> QED BY <3>1, <3>2
  <2> QED
    BY <1>1, <1>7, <2>1, <2>3 DEF Served
<1>8. CASE todo = {} /\ ~ applying
  <2>1. UNCHANGED <<reloading, applying, snapshot>>
    BY <1>8 DEF Done
  <2>2. ASSUME NEW a \in Agents PROVE Named(a, snapshot)'
    BY <1>8, <2>1 DEF Served, Named
  <2> QED
    BY <1>1, <1>8, <2>1, <2>2 DEF Served
<1> QED BY <1>6, <1>7, <1>8 DEF TypeOK

\* A step that leaves the reloads and the table alone keeps that.
LEMMA ServedStays ==
  ASSUME Served, UNCHANGED <<reloading, applying, snapshot, todo, step, adapters, skipped>>
  PROVE  Served'
BY DEF Served, Named, Waits, Worked

\* At first every agent of the file has one.
LEMMA ServedInit ==
  Init => Served
<1> SUFFICES ASSUME Init PROVE Served
  OBVIOUS
<1>1. step.does = "nothing" /\ ~ applying /\ \A op \in todo : op.does = "start"
  BY DEF Init, Idle, Op
<1>2. \A a \in Agents : Named(a, snapshot)
  BY DEF Init, Named, None
<1> QED
  BY <1>1, <1>2 DEF Served

\* An agent's turn begins.
LEMMA BeginsServes ==
  ASSUME TypeOK, Reloads, Served, NEW op \in todo, Begins(op)
  PROVE  Served'
<1>1. /\ step = Idle /\ todo' = todo \ {op}
      /\ UNCHANGED <<adapters, skipped, reloading, applying, snapshot>>
  BY DEF Begins, Stays, table
<1>2. op.agent \in Agents /\ \A o \in todo' : o.agent # op.agent /\ o \in todo
  BY <1>1 DEF TypeOK, Reloads, Chain
<1>3. /\ step'.agent = op.agent /\ step'.does = op.does
      /\ op.does \in {"remove", "replace", "add"} => step'.at \in {"stopping", "dropping", "creating"}
  BY DEF Begins, BeginsStart, BeginsOther
<1>4. ASSUME NEW a \in Agents
      PROVE  /\ ~ applying' \/ Waits(a)' => Named(a, snapshot)'
             /\ applying' /\ ~ Waits(a)' /\ ~ Worked(a)' => Named(a, Head(reloading))'
  <2>1. CASE a # op.agent
    <3>1. Waits(a)' <=> Waits(a)
      BY <1>1, <2>1 DEF Waits
    <3>2. ~ Worked(a)
      BY <1>1, IdleType DEF Worked
    <3> QED
      BY <1>1, <3>1, <3>2 DEF Served, Named
  <2>2. CASE a = op.agent
    <3>1. ~ Waits(a)' /\ Named(a, snapshot)
      BY <1>2, <2>2 DEF Waits, Served
    <3>2. ASSUME applying, ~ Worked(a)' PROVE Named(a, Head(reloading))
      <4>1. op.does = "again"
        BY <1>3, <2>2, <3>2 DEF Worked, Reloads, Asked, Chain, TypeOK
      <4> QED
        BY <2>2, <3>1, <4>1 DEF Reloads, Asked, Named
    <3> QED
      BY <1>1, <3>1, <3>2 DEF Named
  <2> QED BY <2>1, <2>2
<1>5. \A o \in todo' : o.does = "remove" => Head(reloading)'[o.agent] = Absent
  BY <1>1 DEF Served
<1>6. step'.does = "remove" => Head(reloading)'[step'.agent] = Absent
  BY <1>1, <1>3 DEF Served
<1> QED
  BY <1>4, <1>5, <1>6 DEF Served

\* The old adapter goes, of an agent that is removed or is to have another.
LEMMA DropsServes ==
  ASSUME TypeOK, Reloads, Served, DropsOld
  PROVE  Served'
<1>1. /\ step # Idle /\ step.agent \in Agents /\ step.at \in {"stopping", "dropping"} /\ applying
      /\ \A b \in Agents : b # step.agent => adapters'[b] = adapters[b]
  BY StepType, IdleType DEF DropsOld, Reloads, Doing, TypeOK
<1>2. CASE step.does = "remove"
  <2>1. Done /\ skipped' = skipped \ {step.agent} /\ Head(reloading)[step.agent] = Absent
    BY <1>2 DEF DropsOld, Served
  <2> QED
    BY <1>1, <2>1, DoneServes
<1>3. CASE step.does # "remove"
  <2>1. /\ step' = [step EXCEPT !.at = "creating"]
        /\ UNCHANGED <<todo, reloading, applying, snapshot, skipped>>
    BY <1>3 DEF DropsOld, Stays
  <2>2. step'.agent = step.agent /\ step'.does = step.does /\ step'.at = "creating"
    BY <1>1, <2>1, StepType DEF TypeOK, Idle
  <2>3. ASSUME NEW a \in Agents
        PROVE  /\ ~ applying' \/ Waits(a)' => Named(a, snapshot)'
               /\ applying' /\ ~ Waits(a)' /\ ~ Worked(a)' => Named(a, Head(reloading))'
    <3>1. CASE a = step.agent
      <4>1. ~ Waits(a)' /\ Worked(a)'
        BY <1>1, <2>1, <2>2, <3>1 DEF Waits, Worked, Reloads, Chain
      <4> QED
        BY <1>1, <2>1, <4>1
    <3>2. CASE a # step.agent
      <4>1. (Waits(a)' <=> Waits(a)) /\ ~ Worked(a)
        BY <2>1, <3>2 DEF Waits, Worked
      <4> QED
        BY <1>1, <2>1, <3>2, <4>1 DEF Served, Named
    <3> QED BY <3>1, <3>2
  <2> QED
    BY <1>3, <2>1, <2>2, <2>3 DEF Served
<1> QED BY <1>2, <1>3

\* A new adapter is made, or the agent is marked.
LEMMA CreatesServes ==
  ASSUME TypeOK, Reloads, Served, Creates
  PROVE  Served'
<1>1. step # Idle /\ step.agent \in Agents /\ step.at = "creating" /\ applying /\ step.does # "remove"
  BY StepType, IdleType DEF Creates, Reloads, Doing
<1>2. CASE /\ skipped' = skipped \cup {step.agent}
           /\ Done /\ UNCHANGED <<adapters, made, config>>
  BY <1>1, <1>2, DoneServes
<1>3. CASE /\ adapters' = [adapters EXCEPT ![step.agent] = made[step.agent] + 1]
           /\ skipped' = skipped \ {step.agent}
           /\ step' = [step EXCEPT !.at = "starting"]
           /\ UNCHANGED todo /\ Stays
  <2>1. /\ step'.agent = step.agent /\ step'.does = step.does
        /\ UNCHANGED <<todo, reloading, applying, snapshot>>
    BY <1>1, <1>3, StepType DEF TypeOK, Idle, Stays
  <2>2. adapters'[step.agent] # None
    <3>1. made[step.agent] \in Nat
      BY <1>1 DEF TypeOK, Numbers
    <3> QED
      BY <1>1, <1>3, <3>1 DEF TypeOK, None
  <2>3. ASSUME NEW a \in Agents
        PROVE  /\ ~ applying' \/ Waits(a)' => Named(a, snapshot)'
               /\ applying' /\ ~ Waits(a)' /\ ~ Worked(a)' => Named(a, Head(reloading))'
    <3>1. CASE a = step.agent
      BY <2>2, <3>1 DEF Named
    <3>2. CASE a # step.agent
      <4>1. (Waits(a)' <=> Waits(a)) /\ ~ Worked(a) /\ adapters'[a] = adapters[a]
        BY <1>1, <1>3, <2>1, <3>2 DEF Waits, Worked, TypeOK
      <4> QED
        BY <1>3, <2>1, <3>2, <4>1 DEF Served, Named
    <3> QED BY <3>1, <3>2
  <2> QED
    BY <1>1, <2>1, <2>3 DEF Served
<1> QED
  BY <1>2, <1>3 DEF Creates

\* A reload is begun, or dropped: it sees to every agent its file says something new of.
LEMMA ReloadBeginsServes ==
  ASSUME TypeOK, Reloads, Served, ReloadBegins
  PROVE  Served'
<1>1. /\ reloading # <<>> /\ ~ applying /\ todo = {} /\ step = Idle
      /\ UNCHANGED <<snapshot, step, adapters, skipped>>
  BY DEF ReloadBegins, Reloads, Chain, table
<1>2. step'.at = "idle" /\ step'.does = "nothing"
  BY <1>1 DEF Idle
<1>3. \A a \in Agents : Named(a, snapshot)'
  BY <1>1 DEF Served, Named
<1>4. CASE reloading' = Tail(reloading) /\ UNCHANGED <<applying, todo>>
  BY <1>1, <1>2, <1>3, <1>4 DEF Served
<1>5. CASE applying' = TRUE /\ todo' = Work(Head(reloading)) /\ UNCHANGED reloading
  <2> DEFINE next == Head(reloading)
  <2>1. next \in Files
    BY <1>1 DEF TypeOK
  <2> HIDE DEF next
  <2>2. todo' = Work(next) /\ Head(reloading)' = next
    BY <1>5 DEF next
  <2>3. ASSUME NEW a \in Agents, ~ Waits(a)' PROVE Named(a, Head(reloading))'
    <3>1. next[a] = snapshot[a]
      BY <2>1, <2>2, <2>3, WorkType DEF Waits
    <3> QED
      BY <1>1, <1>3, <2>2, <3>1 DEF Named
  <2>4. \A op \in todo' : op.does = "remove" => Head(reloading)'[op.agent] = Absent
    BY <2>1, <2>2, WorkType
  <2> QED
    BY <1>2, <1>3, <2>3, <2>4 DEF Served
<1> QED
  BY <1>4, <1>5 DEF ReloadBegins

\* A file read goes behind the reloads not over.
LEMMA ReloadServes ==
  ASSUME TypeOK, Reloads, Served, Reload
  PROVE  Served'
<1>1. UNCHANGED <<phase, applying, snapshot, todo, step, adapters, skipped>> /\ ~ Stopping
  BY DEF Reload, table
<1>2. ASSUME applying PROVE Head(reloading') = Head(reloading)
  <2>1. reloading \in Seq(Files) /\ reloading # <<>> /\ file \in Files
    BY <1>2 DEF Reloads, Chain, TypeOK
  <2>2. Head(Append(reloading, file)) = Head(reloading)
    BY <2>1
  <2> QED
    BY <2>2 DEF Reload
<1>3. phase # "booting"
  BY DEF Reload, Reloads, Chain
<1>4. todo # {} \/ step # Idle => applying
  BY <1>3 DEF Reloads, Chain
<1>5. step.does = "remove" => step # Idle
  BY DEF Idle
<1> QED
  BY <1>1, <1>2, <1>4, <1>5 DEF Served, Named, Waits, Worked

\* The start of the boot or of a reload ends, and with it the agent's turn.
LEMMA StartServes ==
  ASSUME TypeOK, Reloads, Served, NEW outcome, StartEnds(outcome)
  PROVE  Served'
<1>1. /\ step # Idle /\ step.at = "starting" /\ Done /\ UNCHANGED <<adapters, skipped>>
      /\ adapters[step.agent] # None
  BY IdleType DEF StartEnds, table, Reloads, Doing
<1> QED
  BY <1>1, DoneServes

\* Every step keeps the agents of the file served.
LEMMA ServedStep ==
  ASSUME TypeOK, Reloads, Served, [Next]_vars
  PROVE  Served'
<1> USE DEF disk, chain, table, supervisor, status
<1>1. UNCHANGED vars \/ FileWritten \/ StopBegins \/ AdaptersStop
        => UNCHANGED <<reloading, applying, snapshot, todo, step, adapters, skipped>>
  BY DEF vars, FileWritten, StopBegins, AdaptersStop
<1>2. ASSUME NEW a \in Agents, SupervisorStep(a)
      PROVE  UNCHANGED <<reloading, applying, snapshot, todo, step, adapters, skipped>>
  BY <1>2 DEF SupervisorStep, TimerFires, AttemptEnds
<1> QED
  <2>1. CASE UNCHANGED vars \/ FileWritten \/ StopBegins \/ AdaptersStop
    BY <1>1, <2>1, ServedStays
  <2>2. CASE \E a \in Agents : SupervisorStep(a)
    BY <1>2, <2>2, ServedStays
  <2>3. CASE Reload \/ ReloadBegins \/ DropsOld \/ Creates
    BY <2>3, ReloadServes, ReloadBeginsServes, DropsServes, CreatesServes
  <2>4. CASE \/ \E op \in todo : Begins(op)
            \/ \E outcome \in Outcomes : StartEnds(outcome)
    BY <2>4, BeginsServes, StartServes
  <2> QED
    BY <2>1, <2>2, <2>3, <2>4 DEF Next, ChainStep

-----------------------------------------------------------------------------
(* The numbers of the adapters.                                            *)

\* At first one adapter is made for each agent of the file, and none is armed.
LEMMA NumberedInit ==
  Init => Numbered
BY DEF Init, Numbered, None, Stopping

Reported == terminal \cup credentialRejections \cup startFailures

\* A step makes no adapter of the agent, and arms at most a retry of one that was made.
MakesNone(a) ==
  /\ adapters'[a] = adapters[a] \/ adapters'[a] = None
  /\ timers'[a] = timers[a] \/ timers'[a] = None \/ (~ Stopping /\ timers'[a] \in 1 .. made[a])
  /\ \A n \in attempting'[a] : n \in attempting[a] \/ (n = timers[a] /\ n # None)
  /\ a \in Reported' => made[a] # 0 \/ a \in Reported
  /\ Stopping' => Stopping \/ timers'[a] = None

\* Such a step keeps what is known of the numbers.
LEMMA NumberedStays ==
  ASSUME TypeOK, Numbered, made' = made, \A a \in Agents : MakesNone(a)
  PROVE  Numbered'
<1>1. \A a \in Agents : made[a] \in Nat /\ timers[a] \in Nat /\ adapters[a] \in Nat
  BY DEF TypeOK, Numbers, None
<1>2. ASSUME NEW a \in Agents
      PROVE  adapters'[a] <= made'[a] /\ timers'[a] <= made'[a] /\ attempting'[a] \subseteq 1 .. made'[a]
  <2>1. adapters[a] <= made[a] /\ timers[a] <= made[a] /\ attempting[a] \subseteq 1 .. made[a]
    BY DEF Numbered
  <2>2. adapters'[a] <= made'[a]
    BY <1>1, <2>1 DEF MakesNone, None
  <2>3. timers'[a] <= made'[a]
    BY <1>1, <2>1 DEF MakesNone, None
  <2>4. attempting'[a] \subseteq 1 .. made'[a]
    BY <1>1, <2>1 DEF MakesNone, None
  <2> QED
    BY <2>2, <2>3, <2>4
<1>3. \A a \in Agents : made'[a] = 0 => a \notin Reported'
  BY DEF Numbered, MakesNone, Reported
<1>4. Stopping' => \A a \in Agents : timers'[a] = None
  BY DEF Numbered, MakesNone
<1> QED
  BY <1>2, <1>3, <1>4 DEF Numbered, Reported

\* Being done with an agent neither begins a stop nor takes one back.
LEMMA DoneStopping ==
  ASSUME Reloads, step # Idle, Done
  PROVE  Stopping' <=> Stopping
BY DEF Reloads, Chain, Done, Stopping

\* Every step keeps what is known of the numbers.
LEMMA NumberedStep ==
  ASSUME TypeOK, Reloads, Numbered, [Next]_vars
  PROVE  Numbered'
<1> USE DEF disk, chain, table, supervisor, status
<1>1. CASE UNCHANGED <<phase, made, adapters, timers, attempting, terminal, status>>
  BY <1>1, NumberedStays DEF MakesNone, Reported, Stopping
<1>2. ASSUME NEW op \in todo, Begins(op) PROVE Numbered'
  <2>1. /\ UNCHANGED <<phase, made, adapters, attempting, status>> /\ terminal' \subseteq terminal
        /\ \A a \in Agents : timers'[a] \in {timers[a], None}
    BY <1>2 DEF Begins, BeginsStart, BeginsOther, Stays, Cancel, TypeOK
  <2> QED
    BY <2>1, NumberedStays DEF MakesNone, Reported, Stopping
<1>3. CASE DropsOld
  <2>1. /\ UNCHANGED <<made, attempting, status>> /\ terminal' \subseteq terminal
        /\ \A a \in Agents : timers'[a] \in {timers[a], None} /\ adapters'[a] \in {adapters[a], None}
    BY <1>3 DEF DropsOld, Cancel, TypeOK
  <2>2. Stopping' <=> Stopping
    BY <1>3, DoneStopping, IdleType DEF DropsOld, Stays, Stopping
  <2> QED
    BY <2>1, <2>2, NumberedStays DEF MakesNone, Reported
<1>4. CASE Creates
  <2>1. step.agent \in Agents
    BY <1>4, StepType, IdleType DEF Creates
  <2>2. CASE Done /\ UNCHANGED <<adapters, made, config>>
    BY <1>4, <2>2, DoneStopping, IdleType, NumberedStays DEF Creates, MakesNone, Reported
  <2>3. CASE ~ (Done /\ UNCHANGED <<adapters, made, config>>)
    <3> DEFINE a == step.agent
               n == made[step.agent] + 1
    <3>1. made' = [made EXCEPT ![a] = n] /\ adapters' = [adapters EXCEPT ![a] = n]
          /\ UNCHANGED <<phase, timers, attempting, terminal, status>>
      BY <1>4, <2>3 DEF Creates, Stays
    <3>2. \A b \in Agents : made[b] \in Nat /\ timers[b] \in Nat /\ adapters[b] \in Nat
      BY DEF TypeOK, Numbers, None
    <3>3. ASSUME NEW b \in Agents
          PROVE  /\ adapters'[b] <= made'[b] /\ timers'[b] <= made'[b]
                 /\ attempting'[b] \subseteq 1 .. made'[b]
                 /\ made'[b] = 0 => made[b] = 0
      <4>1. made'[b] = (IF b = a THEN n ELSE made[b]) /\ adapters'[b] = IF b = a THEN n ELSE adapters[b]
        BY <2>1, <3>1 DEF TypeOK
      <4>2. adapters[b] <= made[b] /\ timers[b] <= made[b] /\ attempting[b] \subseteq 1 .. made[b]
        BY DEF Numbered
      <4>3. CASE b = a
        BY <3>1, <3>2, <4>1, <4>2, <4>3
      <4>4. CASE b # a
        BY <3>1, <3>2, <4>1, <4>2, <4>4
      <4> QED BY <4>3, <4>4
    <3> QED
      BY <3>1, <3>3 DEF Numbered, Stopping
  <2> QED BY <2>2, <2>3
<1>5. ASSUME NEW outcome \in Outcomes, StartEnds(outcome) PROVE Numbered'
  <2>1. step.agent \in Agents /\ adapters[step.agent] # None
    BY <1>5, StepType, IdleType DEF StartEnds, Reloads, Doing
  <2>2. adapters[step.agent] \in 1 .. made[step.agent] /\ made[step.agent] # 0
    BY <2>1 DEF TypeOK, Numbered, Numbers, None
  <2>3. Stopping' <=> Stopping
    BY <1>5, DoneStopping, IdleType DEF StartEnds
  <2>4. UNCHANGED <<adapters, made, attempting>>
    BY <1>5 DEF StartEnds
  <2>5. /\ terminal' \subseteq terminal
        /\ \A a \in Agents : timers'[a] \in {timers[a], None} \/ (~ Stopping /\ timers'[a] \in 1 .. made[a])
    <3>1. \/ Cancel(step.agent) \/ UNCHANGED <<timers, terminal>>
          \/ Schedule(step.agent, adapters[step.agent])
      BY <1>5 DEF StartEnds, Outcomes
    <3> QED
      BY <2>1, <2>2, <3>1 DEF Cancel, Schedule, Retries, TypeOK
  <2>6. /\ credentialRejections' \subseteq credentialRejections \cup {step.agent}
        /\ startFailures' \subseteq startFailures \cup {step.agent}
    BY <1>5 DEF StartEnds, Comes
  <2> QED
    BY <2>1, <2>2, <2>3, <2>4, <2>5, <2>6, NumberedStays DEF MakesNone, Reported
<1>6. ASSUME NEW a \in Agents, TimerFires(a) PROVE Numbered'
  <2>1. /\ UNCHANGED <<phase, made, adapters, terminal, status>> /\ timers[a] # None
        /\ \A b \in Agents : timers'[b] \in {timers[b], None}
        /\ \A b \in Agents : attempting'[b] \subseteq attempting[b] \cup (IF b = a THEN {timers[b]} ELSE {})
    BY <1>6 DEF TimerFires, TypeOK
  <2> QED
    BY <2>1, NumberedStays DEF MakesNone, Reported, Stopping
<1>7. ASSUME NEW a \in Agents, NEW n \in Numbers, NEW outcome \in Outcomes, AttemptEnds(a, n, outcome)
      PROVE  Numbered'
  <2>1. n \in attempting[a] /\ n \in 1 .. made[a] /\ made[a] # 0
    BY <1>7 DEF AttemptEnds, Numbered, TypeOK, Numbers
  <2>2. UNCHANGED <<phase, adapters, made>> /\ \A b \in Agents : attempting'[b] \subseteq attempting[b]
    BY <1>7 DEF AttemptEnds, TypeOK
  <2>3. /\ terminal' \subseteq terminal \cup {a}
        /\ \A b \in Agents : timers'[b] \in {timers[b], None} \/ (~ Stopping /\ timers'[b] \in 1 .. made[b])
        /\ credentialRejections' \subseteq credentialRejections \cup {a}
        /\ startFailures' \subseteq startFailures \cup {a}
    <3>1. startFailures' \subseteq startFailures \cup {a}
      BY <1>7 DEF AttemptEnds, Comes
    <3>2. CASE outcome = "up"
      BY <1>7, <3>1, <3>2 DEF AttemptEnds, Cancel, TypeOK
    <3>3. CASE outcome = "refused"
      BY <1>7, <3>1, <3>3 DEF AttemptEnds, Mark, TypeOK
    <3>4. CASE outcome = "down"
      BY <1>7, <2>1, <3>1, <3>4 DEF AttemptEnds, Schedule, Retries, TypeOK
    <3> QED
      BY <3>2, <3>3, <3>4 DEF Outcomes
  <2> QED
    BY <2>1, <2>2, <2>3, NumberedStays DEF MakesNone, Reported, Stopping
<1>8. CASE StopBegins
  <2>1. \A a \in Agents : timers'[a] = None
    BY <1>8 DEF StopBegins
  <2> QED
    BY <1>8, <2>1, NumberedStays DEF StopBegins, MakesNone, Reported
<1>9. CASE AdaptersStop
  BY <1>9, NumberedStays DEF AdaptersStop, MakesNone, Reported, Stopping
<1>10. (UNCHANGED vars \/ FileWritten \/ Reload \/ ReloadBegins)
         => UNCHANGED <<phase, made, adapters, timers, attempting, terminal, status>>
  BY DEF vars, FileWritten, Reload, ReloadBegins
<1> QED
  BY <1>1, <1>2, <1>3, <1>4, <1>5, <1>6, <1>7, <1>8, <1>9, <1>10 DEF Next, ChainStep, SupervisorStep

-----------------------------------------------------------------------------
(* The first adapters.                                                     *)

\* A step that leaves an agent's first adapter as it was.
Leaves(a) ==
  /\ adapters'[a] = adapters[a] /\ made'[a] = made[a]
  /\ timers'[a] = timers[a] /\ attempting'[a] = attempting[a]
  /\ a \in terminal' <=> a \in terminal
  /\ a \in startFailures' <=> a \in startFailures
  /\ a \in credentialRejections' <=> a \in credentialRejections
  /\ 1 \in up'[a] <=> 1 \in up[a]
  /\ Starting(a)' <=> Starting(a)
  /\ Op(a, "again") \in todo' => a \in credentialRejections
  /\ Op(a, "start") \in todo' => Op(a, "start") \in todo
  /\ Stopping => Stopping'

\* Such a step keeps what is reported and tried of it together.
LEMMA LeftAsItWas ==
  ASSUME NEW a \in Agents, First(a) => Tried(a), Leaves(a)
  PROVE  First(a)' => Tried(a)'
BY DEF First, Tried, Leaves

\* The first adapters are all still to be started.
LEMMA FirstsInit ==
  Init => Firsts
<1> SUFFICES ASSUME Init, NEW a \in Agents, First(a) PROVE Tried(a)
  BY DEF Firsts
<1>1. file[a] # Absent
  BY DEF Init, First, None
<1>2. Op(a, "start") \in todo /\ Op(a, "again") \notin todo
  BY <1>1 DEF Init, Op
<1> QED
  BY <1>2 DEF Init, Tried, Starting

\* An agent has one operation to be done at most.
LEMMA Unique ==
  ASSUME Reloads, NEW op \in todo, NEW does, Op(op.agent, does) \in todo
  PROVE  op.does = does
BY DEF Reloads, Chain, Op

\* A start that begins awaits its outcome; nothing else of a first adapter changes.
LEMMA BeginsKeepsFirsts ==
  ASSUME TypeOK, Reloads, Firsts, NEW op \in todo, Begins(op), NEW a \in Agents
  PROVE  First(a)' => Tried(a)'
<1> DEFINE b == op.agent
<1>1. /\ step = Idle /\ step.at = "idle" /\ todo' = todo \ {op} /\ b \in Agents
      /\ UNCHANGED <<phase, adapters, made, attempting, startFailures, credentialRejections>>
  BY IdleType DEF Begins, BeginsStart, BeginsOther, Stays, table, status, supervisor, TypeOK
<1>2. /\ \A does : Op(b, does) \notin todo'
      /\ \A does : Op(b, does) \in todo => op.does = does
      /\ \A c, does : c # b => (Op(c, does) \in todo' <=> Op(c, does) \in todo)
  BY <1>1, Unique DEF Reloads, Chain, Op
<1>3. First(a) => Tried(a)
  BY DEF Firsts
<1>4. op = Op(b, op.does)
  BY DEF TypeOK, Op
<1>5. CASE BeginsStart(op)
  <2>1. /\ step'.agent = b /\ step'.at = "starting" /\ op.does \in {"start", "again"}
        /\ \A c \in Agents : c # b => up'[c] = up[c] /\ timers'[c] = timers[c]
        /\ \A c : c # b => (c \in terminal' <=> c \in terminal)
    BY <1>1, <1>5 DEF BeginsStart, Disconnects, Cancel, TypeOK
  <2>2. CASE a # b
    <3>1. Starting(a)' <=> Starting(a)
      BY <1>1, <1>2, <2>1, <2>2 DEF Starting
    <3>2. First(a) => (Op(a, "again") \in todo => a \in credentialRejections)
      BY <1>3 DEF Tried
    <3>3. First(a) => Leaves(a)
      BY <1>1, <1>2, <2>1, <2>2, <3>1, <3>2 DEF Leaves, Stopping
    <3>4. First(a)' => First(a)
      BY <1>1 DEF First
    <3> QED
      BY <1>3, <3>3, <3>4, LeftAsItWas
  <2>3. CASE a = b
    <3> SUFFICES ASSUME First(a)' PROVE Tried(a)'
      OBVIOUS
    <3>1. Tried(a)
      BY <1>1, <1>3 DEF First
    <3>2. Starting(a)' /\ Op(a, "again") \notin todo' /\ Op(a, "start") \notin todo'
      BY <1>2, <2>1, <2>3 DEF Starting
    <3>3. CASE op.does = "start"
      <4>1. Starting(a)
        BY <1>4, <2>3, <3>3 DEF Starting
      <4>2. UNCHANGED <<timers, terminal>>
        BY <1>5, <3>3 DEF BeginsStart
      <4> QED
        BY <1>1, <3>1, <3>2, <4>1, <4>2 DEF Tried
    <3>4. CASE op.does = "again"
      <4>1. a \in credentialRejections
        BY <1>4, <2>3, <3>1, <3>4 DEF Tried
      <4>2. timers'[a] = None /\ a \notin terminal'
        BY <1>5, <2>3, <3>4 DEF BeginsStart, Cancel, TypeOK
      <4> QED
        BY <1>1, <3>1, <3>2, <4>1, <4>2 DEF Tried
    <3> QED
      BY <2>1, <3>3, <3>4
  <2> QED BY <2>2, <2>3
<1>6. CASE BeginsOther(op)
  <2>1. /\ step'.agent = b /\ step'.at # "starting" /\ op.does \notin {"start", "again"}
        /\ UNCHANGED <<up, timers, terminal>>
    BY <1>6 DEF BeginsOther, supervisor
  <2>2. Starting(a)' <=> Starting(a)
    BY <1>1, <1>2, <2>1 DEF Starting
  <2>3. First(a) => (Op(a, "again") \in todo => a \in credentialRejections)
    BY <1>3 DEF Tried
  <2>4. /\ Op(a, "again") \in todo' => Op(a, "again") \in todo
        /\ Op(a, "start") \in todo' => Op(a, "start") \in todo
    BY <1>1
  <2>5. First(a) => Leaves(a)
    BY <1>1, <2>1, <2>2, <2>3, <2>4 DEF Leaves, Stopping
  <2>6. First(a)' => First(a)
    BY <1>1 DEF First
  <2> QED
    BY <1>3, <2>5, <2>6, LeftAsItWas
<1> QED
  BY <1>5, <1>6 DEF Begins

\* An adapter that is dropped is no first one of its agent any more.
LEMMA DropsKeepsFirsts ==
  ASSUME TypeOK, Reloads, Firsts, DropsOld, NEW a \in Agents
  PROVE  First(a)' => Tried(a)'
<1>1. /\ step # Idle /\ step.agent \in Agents /\ step.at \in {"stopping", "dropping"}
  BY StepType, IdleType DEF DropsOld
<1>2. /\ adapters' = [adapters EXCEPT ![step.agent] = None] /\ todo' = todo
      /\ UNCHANGED <<made, attempting, startFailures, credentialRejections>>
      /\ \A c \in Agents : c # step.agent => up'[c] = up[c] /\ timers'[c] = timers[c]
      /\ \A c : c # step.agent => (c \in terminal' <=> c \in terminal)
  BY DEF DropsOld, Done, Cancel, TypeOK, status
<1>3. step'.at # "starting"
  BY <1>1, IdleType, StepType DEF DropsOld, Done, TypeOK, Idle
<1>4. Stopping' <=> Stopping
  BY <1>1, DoneStopping DEF DropsOld, Stays, Stopping
<1>5. CASE a = step.agent
  BY <1>1, <1>2, <1>5 DEF First, None, TypeOK
<1>6. CASE a # step.agent
  <2>1. Starting(a)' <=> Starting(a)
    BY <1>1, <1>2, <1>3 DEF Starting
  <2>2. First(a) => Tried(a)
    BY DEF Firsts
  <2>3. adapters'[a] = adapters[a]
    BY <1>2, <1>6 DEF TypeOK
  <2>4. First(a) => Leaves(a)
    BY <1>2, <1>4, <1>6, <2>1, <2>2, <2>3 DEF Leaves, Tried
  <2>5. First(a)' => First(a)
    BY <1>2, <2>3 DEF First
  <2> QED
    BY <2>2, <2>4, <2>5, LeftAsItWas
<1> QED BY <1>5, <1>6

\* The first adapter of a new agent is unknown to the supervisor.
LEMMA CreatesKeepsFirsts ==
  ASSUME TypeOK, Reloads, Numbered, Firsts, Creates, NEW a \in Agents
  PROVE  First(a)' => Tried(a)'
<1>1. /\ step # Idle /\ step.agent \in Agents /\ step.at = "creating"
      /\ adapters[step.agent] = None
  BY StepType, IdleType DEF Creates, Reloads, Doing
<1>2. /\ UNCHANGED <<todo, timers, attempting, terminal, startFailures, credentialRejections, up>>
  BY DEF Creates, Done, supervisor, status
<1>3. Stopping' <=> Stopping
  BY <1>1, DoneStopping DEF Creates, Stays, Stopping
<1>4. \A does : Op(step.agent, does) \notin todo
  BY <1>1 DEF Reloads, Chain, Op
<1>5. First(a) => Tried(a)
  BY DEF Firsts
<1>6. CASE Done /\ UNCHANGED <<adapters, made, config>>
  <2>1. adapters' = adapters /\ made' = made /\ step'.at # "starting"
    BY <1>6, IdleType DEF Done, table
  <2>2. Starting(a)' <=> Starting(a)
    BY <1>1, <1>2, <2>1 DEF Starting
  <2>3. First(a) => Leaves(a)
    BY <1>2, <1>3, <1>5, <2>1, <2>2 DEF Leaves, Tried
  <2>4. First(a)' => First(a)
    BY <2>1 DEF First
  <2> QED
    BY <1>5, <2>3, <2>4, LeftAsItWas
<1>7. CASE ~ (Done /\ UNCHANGED <<adapters, made, config>>)
  <2>1. /\ made' = [made EXCEPT ![step.agent] = made[step.agent] + 1]
        /\ adapters' = [adapters EXCEPT ![step.agent] = made[step.agent] + 1]
        /\ step' = [step EXCEPT !.at = "starting"]
    BY <1>7 DEF Creates
  <2>2. step'.agent = step.agent /\ step'.at = "starting"
    BY <1>1, <2>1, StepType DEF TypeOK, Idle
  <2>3. CASE a # step.agent
    <3>1. Starting(a)' <=> Starting(a)
      BY <1>1, <1>2, <2>2, <2>3 DEF Starting
    <3>2. adapters'[a] = adapters[a] /\ made'[a] = made[a]
      BY <2>1, <2>3 DEF TypeOK
    <3>3. First(a) => Leaves(a)
      BY <1>2, <1>3, <1>5, <3>1, <3>2 DEF Leaves, Tried
    <3>4. First(a)' => First(a)
      BY <3>2 DEF First
    <3> QED
      BY <1>5, <3>3, <3>4, LeftAsItWas
  <2>4. CASE a = step.agent
    <3> SUFFICES ASSUME First(a)' PROVE Tried(a)'
      OBVIOUS
    <3>1. made'[a] = made[a] + 1 /\ made[a] \in Nat
      BY <1>1, <2>1, <2>4 DEF TypeOK, Numbers
    <3>2. made[a] = 0
      BY <3>1 DEF First
    <3>3. /\ timers[a] = None /\ attempting[a] = {}
          /\ a \notin terminal /\ a \notin credentialRejections /\ a \notin startFailures
      BY <3>2 DEF Numbered, TypeOK, Numbers, None
    <3>4. Starting(a)'
      BY <2>2, <2>4 DEF Starting
    <3> QED
      BY <1>2, <1>4, <2>4, <3>3, <3>4 DEF Tried
  <2> QED BY <2>3, <2>4
<1> QED BY <1>6, <1>7

\* The outcome of a start is reported, and armed again if it can pass.
LEMMA StartKeepsFirsts ==
  ASSUME TypeOK, Reloads, Firsts, NEW outcome \in Outcomes, StartEnds(outcome), NEW a \in Agents
  PROVE  First(a)' => Tried(a)'
<1> DEFINE b == step.agent
<1>1. /\ step # Idle /\ b \in Agents /\ step.at = "starting" /\ Done /\ todo' = todo
      /\ step'.at # "starting"
      /\ UNCHANGED <<adapters, made, attempting>>
  BY StepType, IdleType DEF StartEnds, Done, table
<1>2. Stopping' <=> Stopping
  BY <1>1, DoneStopping
<1>3. \A does : Op(b, does) \notin todo
  BY <1>1 DEF Reloads, Chain, Op
<1>4. First(a)' => First(a) /\ Tried(a)
  BY <1>1 DEF First, Firsts
<1>5. \/ Cancel(b) \/ UNCHANGED <<timers, terminal>> \/ Schedule(b, adapters[b])
  BY DEF StartEnds, Outcomes
<1>6. CASE a # b
  <2>1. timers'[a] = timers[a] /\ (a \in terminal' <=> a \in terminal)
    BY <1>1, <1>5, <1>6 DEF Cancel, Schedule, TypeOK
  <2>2. /\ up'[a] = up[a]
        /\ a \in startFailures' <=> a \in startFailures
        /\ a \in credentialRejections' <=> a \in credentialRejections
    BY <1>1, <1>6 DEF StartEnds, Comes, TypeOK
  <2>3. Starting(a)' <=> Starting(a)
    BY <1>1, <1>6 DEF Starting
  <2>4. First(a) /\ Tried(a) => Leaves(a)
    BY <1>1, <1>2, <2>1, <2>2, <2>3 DEF Leaves, Tried
  <2> QED
    BY <1>4, <2>4, LeftAsItWas
<1>7. CASE a = b
  <2> SUFFICES ASSUME First(a)' PROVE Tried(a)'
    OBVIOUS
  <2>1. Tried(a) /\ adapters[a] = 1
    BY <1>4 DEF First
  <2>2. Starting(a) /\ ~ Starting(a)'
    BY <1>1, <1>3, <1>7 DEF Starting
  <2>3. timers[a] = None /\ attempting[a] = {} /\ a \notin terminal
    BY <2>1, <2>2 DEF Tried
  <2>4. /\ 1 \in up'[a] <=> outcome = "up"
        /\ a \in startFailures' <=> outcome # "up"
        /\ a \in credentialRejections' <=> outcome = "refused"
    BY <1>1, <1>7, <2>1 DEF StartEnds, Comes, TypeOK
  <2>5. a \notin terminal' /\ (outcome = "refused" => timers'[a] = None)
    BY <1>5, <2>3 DEF StartEnds, Cancel, Schedule, Outcomes
  <2>6. outcome = "down" /\ ~ Stopping => timers'[a] = 1
    BY <1>7, <2>1, <2>3 DEF StartEnds, Schedule, Retries, TypeOK
  <2> QED
    BY <1>1, <1>2, <1>3, <1>7, <2>2, <2>3, <2>4, <2>5, <2>6 DEF Tried, Outcomes
<1> QED BY <1>6, <1>7

\* A retry that fires is being attempted.
LEMMA FiresKeepsFirsts ==
  ASSUME TypeOK, Numbered, Firsts, NEW b \in Agents, TimerFires(b), NEW a \in Agents
  PROVE  First(a)' => Tried(a)'
<1>1. /\ timers[b] # None /\ timers' = [timers EXCEPT ![b] = None]
      /\ attempting' = [attempting EXCEPT ![b] = @ \cup {timers[b]}]
      /\ up' = [up EXCEPT ![b] = @ \ {timers[b]}]
      /\ UNCHANGED <<phase, todo, step, adapters, made, terminal, startFailures, credentialRejections>>
  BY DEF TimerFires, Disconnects, chain, table, status
<1>2. First(a)' => First(a) /\ Tried(a)
  BY <1>1 DEF First, Firsts
<1>3. Starting(a)' <=> Starting(a)
  BY <1>1 DEF Starting
<1>4. CASE a # b
  <2>1. timers'[a] = timers[a] /\ attempting'[a] = attempting[a] /\ up'[a] = up[a]
    BY <1>1, <1>4 DEF TypeOK
  <2>2. Tried(a) => Leaves(a)
    BY <1>1, <1>3, <2>1 DEF Leaves, Tried, Stopping
  <2> QED
    BY <1>2, <2>2, LeftAsItWas
<1>5. CASE a = b
  <2>1. timers'[a] = None /\ attempting'[a] # {}
    BY <1>1, <1>5 DEF TypeOK
  <2> QED
    BY <1>1, <1>2, <1>3, <1>5, <2>1 DEF Tried
<1> QED BY <1>4, <1>5

\* The outcome of a retry is reported, and armed again if it can pass.
LEMMA AttemptKeepsFirsts ==
  ASSUME TypeOK, Numbered, Firsts, NEW b \in Agents, NEW n \in Numbers, NEW outcome \in Outcomes,
         AttemptEnds(b, n, outcome), NEW a \in Agents
  PROVE  First(a)' => Tried(a)'
<1>1. /\ n \in attempting[b] /\ attempting' = [attempting EXCEPT ![b] = @ \ {n}]
      /\ UNCHANGED <<phase, todo, step, adapters, made>>
  BY DEF AttemptEnds, chain, table
<1>2. First(a)' => First(a) /\ Tried(a)
  BY <1>1 DEF First, Firsts
<1>3. Starting(a)' <=> Starting(a)
  BY <1>1 DEF Starting
<1>4. CASE a # b
  <2>1. /\ attempting'[a] = attempting[a] /\ up'[a] = up[a]
        /\ a \in startFailures' <=> a \in startFailures
    BY <1>1, <1>4 DEF AttemptEnds, Comes, TypeOK
  <2>2. /\ timers'[a] = timers[a]
        /\ a \in terminal' <=> a \in terminal
        /\ a \in credentialRejections' <=> a \in credentialRejections
    <3>1. CASE outcome = "up"
      BY <1>4, <3>1 DEF AttemptEnds, Cancel, TypeOK
    <3>2. CASE outcome = "refused"
      BY <1>4, <3>2 DEF AttemptEnds, Mark, TypeOK
    <3>3. CASE outcome = "down"
      BY <1>4, <3>3 DEF AttemptEnds, Schedule, TypeOK
    <3> QED
      BY <3>1, <3>2, <3>3 DEF Outcomes
  <2>3. Tried(a) => Leaves(a)
    BY <1>1, <1>3, <2>1, <2>2 DEF Leaves, Tried, Stopping
  <2> QED
    BY <1>2, <2>3, LeftAsItWas
<1>5. CASE a = b
  <2> SUFFICES ASSUME First(a)' PROVE Tried(a)'
    OBVIOUS
  <2>1. Tried(a) /\ made[a] = 1
    BY <1>2 DEF First
  <2>2. n = 1 /\ attempting'[a] = {}
    BY <1>1, <1>5, <2>1 DEF Numbered, TypeOK
  <2>3. /\ a \notin credentialRejections /\ a \notin terminal /\ ~ Starting(a)
        /\ Op(a, "again") \notin todo /\ Op(a, "start") \notin todo
    BY <1>1, <1>5, <2>1 DEF Tried, Starting
  <2>4. /\ 1 \in up'[a] <=> outcome = "up"
        /\ a \in startFailures' <=> outcome # "up"
    BY <1>5, <2>2 DEF AttemptEnds, Comes, TypeOK
  <2>5. /\ a \in credentialRejections' <=> outcome = "refused"
        /\ a \in terminal' => outcome = "refused"
        /\ outcome = "refused" => timers'[a] = None
        /\ outcome = "down" /\ ~ Stopping => timers'[a] = 1
    <3>1. CASE outcome = "up"
      BY <1>5, <2>3, <3>1 DEF AttemptEnds, Cancel
    <3>2. CASE outcome = "refused"
      BY <1>5, <2>3, <3>2 DEF AttemptEnds, Mark, TypeOK
    <3>3. CASE outcome = "down"
      BY <1>5, <2>2, <2>3, <3>3 DEF AttemptEnds, Schedule, Retries, TypeOK
    <3> QED
      BY <3>1, <3>2, <3>3 DEF Outcomes
  <2> QED
    BY <1>1, <1>3, <2>2, <2>3, <2>4, <2>5 DEF Tried, Stopping, Outcomes
<1> QED BY <1>4, <1>5

\* Every step keeps what is reported and what is tried of the first adapters together.
LEMMA FirstsStep ==
  ASSUME TypeOK, Reloads, Numbered, Firsts, [Next]_vars
  PROVE  Firsts'
<1> SUFFICES ASSUME NEW a \in Agents PROVE First(a)' => Tried(a)'
  BY DEF Firsts
<1> USE DEF disk, chain, table, supervisor, status
<1>0. First(a) => Tried(a)
  BY DEF Firsts
<1>1. ASSUME UNCHANGED <<phase, todo, step, adapters, made, timers, attempting, terminal,
                         startFailures, credentialRejections, up>>
      PROVE  First(a)' => Tried(a)'
  <2>1. First(a) => Leaves(a)
    BY <1>0, <1>1 DEF Leaves, Starting, Stopping, Tried
  <2>2. First(a)' => First(a)
    BY <1>1 DEF First
  <2> QED
    BY <1>0, <2>1, <2>2, LeftAsItWas
<1>2. UNCHANGED vars \/ FileWritten \/ Reload
        => UNCHANGED <<phase, todo, step, adapters, made, timers, attempting, terminal,
                       startFailures, credentialRejections, up>>
  BY DEF vars, FileWritten, Reload
<1>3. CASE ReloadBegins
  <2>1. /\ UNCHANGED <<phase, step, adapters, made, timers, attempting, terminal,
                       startFailures, credentialRejections, up>>
        /\ Op(a, "again") \in todo' => a \in credentialRejections
        /\ Op(a, "start") \notin todo' /\ Op(a, "start") \notin todo
    <3>1. todo = {} /\ Head(reloading) \in Files
      BY <1>3 DEF ReloadBegins, Reloads, Chain, TypeOK
    <3>2. todo' = {} \/ todo' = Work(Head(reloading))
      BY <1>3, <3>1 DEF ReloadBegins
    <3>3. ASSUME NEW does, Op(a, does) \in Work(Head(reloading))
          PROVE  does # "start" /\ (does = "again" => a \in credentialRejections)
      BY <3>1, <3>3, WorkType DEF Op
    <3> QED
      BY <1>3, <3>1, <3>2, <3>3 DEF ReloadBegins
  <2>2. First(a) => Leaves(a)
    BY <2>1 DEF Leaves, Starting, Stopping
  <2>3. First(a)' => First(a)
    BY <2>1 DEF First
  <2> QED
    BY <1>0, <2>2, <2>3, LeftAsItWas
<1>4. ASSUME NEW op \in todo, Begins(op) PROVE First(a)' => Tried(a)'
  BY <1>4, BeginsKeepsFirsts
<1>5. CASE DropsOld
  BY <1>5, DropsKeepsFirsts
<1>6. CASE Creates
  BY <1>6, CreatesKeepsFirsts
<1>7. ASSUME NEW outcome \in Outcomes, StartEnds(outcome) PROVE First(a)' => Tried(a)'
  BY <1>7, StartKeepsFirsts
<1>8. ASSUME NEW b \in Agents, TimerFires(b) PROVE First(a)' => Tried(a)'
  BY <1>8, FiresKeepsFirsts
<1>9. ASSUME NEW b \in Agents, NEW n \in Numbers, NEW outcome \in Outcomes, AttemptEnds(b, n, outcome)
      PROVE  First(a)' => Tried(a)'
  BY <1>9, AttemptKeepsFirsts
<1>10. CASE StopBegins
  <2>1. /\ UNCHANGED <<todo, step, adapters, made, attempting, terminal,
                       startFailures, credentialRejections, up>>
        /\ timers'[a] = None /\ phase' = "stopping"
    BY <1>10 DEF StopBegins
  <2> QED
    BY <1>0, <2>1 DEF First, Tried, Starting, Stopping
<1>11. CASE AdaptersStop
  <2>1. /\ UNCHANGED <<todo, step, adapters, made, timers, attempting, terminal,
                       startFailures, credentialRejections>>
        /\ phase' = "stopped"
    BY <1>11 DEF AdaptersStop
  <2> QED
    BY <1>0, <2>1 DEF First, Tried, Starting, Stopping
<1> QED
  BY <1>1, <1>2, <1>3, <1>4, <1>5, <1>6, <1>7, <1>8, <1>9, <1>10, <1>11
     DEF Next, ChainStep, SupervisorStep

-----------------------------------------------------------------------------
(* The theorems.                                                           *)

\* The inductive invariant: the boot and the reloads take the agents one by one
\* from one configuration to the next, the supervisor knows no adapter that was
\* not made, and what it does of a first adapter goes with what is reported.
THEOREM Invariance ==
  Spec => []Inv
<1>1. Init => Inv
  BY TypeInit, InitReloads, ServedInit, NumberedInit, FirstsInit DEF Inv, Reloads
<1>2. Inv /\ [Next]_vars => Inv'
  <2> SUFFICES ASSUME Inv, [Next]_vars PROVE Inv'
    OBVIOUS
  <2>1. TypeOK /\ Reloads /\ Served /\ Numbered /\ Firsts
    BY DEF Inv, Reloads
  <2>2. TypeOK'
    BY <2>1, TypeStep DEF Reloads
  <2>3. Reloads'
    BY <2>1, ReloadsStep
  <2>4. Numbered'
    BY <2>1, NumberedStep
  <2>5. Firsts'
    BY <2>1, FirstsStep
  <2>6. Served'
    BY <2>1, ServedStep
  <2> QED
    BY <2>2, <2>3, <2>4, <2>5, <2>6 DEF Inv, Reloads
<1> QED
  BY <1>1, <1>2, PTL DEF Spec

\* The variables keep their types: no operation is on an agent that is not one, and
\* no more adapters are made than the bound.
THEOREM TypeCorrect ==
  Spec => []TypeOK
<1>1. Inv => TypeOK
  BY DEF Inv
<1> QED
  BY <1>1, Invariance, PTL

\* Once the reloads read are over, the bridge holds for each agent of the file an
\* adapter made as the file says, unless none could be made when one was last due,
\* and none for another: whatever was written meanwhile, and whichever reload
\* removed, replaced or added it (bridge.ts, applyReload).
THEOREM FileFollowed ==
  Spec => []AdaptersFollowTheFile
<1>1. Inv => AdaptersFollowTheFile
  BY DEF Inv, Chain, Followed, Follows, Served, Named, AdaptersFollowTheFile
<1> QED
  BY <1>1, Invariance, PTL

\* An agent's first adapter that failed to start is armed again, unless its
\* credential was refused (adapter-supervisor.ts, schedule).
THEOREM FailuresRetried ==
  Spec => []FailureIsRetried
<1>1. Inv => FailureIsRetried
  <2> SUFFICES ASSUME Inv, NEW a \in Agents, FirstHeld(a), a \in startFailures \ credentialRejections,
                      1 \notin attempting[a], step.agent # a
               PROVE  timers[a] = 1
    BY DEF FailureIsRetried
  <2>1. First(a) /\ Tried(a) /\ ~ Stopping
    BY DEF Inv, Firsts, FirstHeld, Held, First
  <2>2. attempting[a] = {}
    BY <2>1 DEF Inv, Numbered, First, TypeOK
  <2>3. ~ Starting(a)
    BY <2>1 DEF Starting, Tried
  <2> QED
    BY <2>1, <2>2, <2>3 DEF Tried
<1> QED
  BY <1>1, Invariance, PTL

\* What is reported of an agent's first adapter is what its channel is, once no
\* start of it is awaited (bridge.ts, recordStartOutcome; adapter-supervisor.ts).
THEOREM StatusTrue ==
  Spec => []StatusIsTrue
<1>1. Inv => StatusIsTrue
  BY DEF Inv, Firsts, StatusIsTrue, FirstHeld, Held, First, Tried, Starting
<1> QED
  BY <1>1, Invariance, PTL

\* A refused credential is not tried again by the supervisor, and is reported.
THEOREM RefusalsReported ==
  Spec => []RefusedIsReported
<1>1. Inv => RefusedIsReported
  BY DEF Inv, Firsts, RefusedIsReported, FirstHeld, Held, First, Tried, Starting
<1> QED
  BY <1>1, Invariance, PTL

\* The stop leaves no timer and no reload: neither calls start() after it.  A start()
\* the supervisor had called before may still be in progress (bridge.ts, stop).
THEOREM NothingStartsStopped ==
  Spec => NoStartAfterTheStop
<1> DEFINE Quiet == phase = "stopped" =>
                      /\ \A a \in Agents : attempting'[a] \subseteq attempting[a]
                      /\ step'.at = "starting" => step.at = "starting"
<1>1. Inv /\ [Next]_vars => [Quiet]_vars
  <2> SUFFICES ASSUME Inv, [Next]_vars, phase = "stopped" PROVE Quiet
    OBVIOUS
  <2> USE DEF disk, chain, table, supervisor, status
  <2>1. reloading = <<>> /\ todo = {} /\ step = Idle /\ step.at = "idle"
    BY IdleType DEF Inv, Chain
  <2>2. \A a \in Agents : timers[a] = None
    BY DEF Inv, Numbered, Stopping
  <2>3. CASE UNCHANGED <<step, attempting>>
    BY <2>3
  <2>4. ASSUME NEW a \in Agents, SupervisorStep(a) PROVE Quiet
    <3>1. ~ TimerFires(a)
      BY <2>2 DEF TimerFires
    <3>2. PICK n \in Numbers : /\ attempting' = [attempting EXCEPT ![a] = @ \ {n}]
                               /\ step' = step
      BY <2>4, <3>1 DEF SupervisorStep, AttemptEnds
    <3> QED
      BY <3>2 DEF Inv, TypeOK
  <2>5. ChainStep => FALSE
    BY <2>1 DEF ChainStep, ReloadBegins, DropsOld, Creates, StartEnds
  <2>6. UNCHANGED vars \/ FileWritten \/ Reload \/ StopBegins \/ AdaptersStop
          => UNCHANGED <<step, attempting>>
    BY DEF vars, FileWritten, Reload, StopBegins, AdaptersStop
  <2> QED
    BY <2>3, <2>4, <2>5, <2>6 DEF Next
<1> QED
  BY <1>1, Invariance, PTL DEF Spec, NoStartAfterTheStop
=============================================================================
