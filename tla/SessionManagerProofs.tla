------------------------ MODULE SessionManagerProofs ------------------------
(***************************************************************************)
(* Theorems about the session manager, for any pairs, prompts and bounds.  *)
(***************************************************************************)
EXTENDS SessionManagerCalls, FiniteSetTheorems, TLAPS

-----------------------------------------------------------------------------
(* The inductive invariant.                                                *)

\* A pair's child is the pair's own: in its handshake while the pair waits for
\* it, in which case the pair has no session, and up once it is mapped.
Bound ==
  \A k \in Keys :
    /\ spawning[k] # None => /\ session[spawning[k]].key = k
                             /\ session[spawning[k]].phase \in Handshake
                             /\ entries[k] = None
    /\ entries[k] # None => /\ session[entries[k]].key = k
                            /\ session[entries[k]].phase = "up"

\* A child in its handshake is waited for, and one that is up is mapped unless
\* it was told to end or is gone; a session the bridge ended was told so, and
\* its queue refuses.
Owned ==
  \A c \in Children :
    /\ spawned < c => session[c].phase = "unborn"
    /\ session[c].phase # "unborn" => session[c].key \in Keys
    /\ session[c].phase \in Handshake => spawning[session[c].key] = c
    /\ session[c].phase = "up" => \/ entries[session[c].key] = c
                                  \/ session[c].killed
                                  \/ session[c].exited \/ session[c].aborted
    /\ session[c].phase = "failed" => session[c].killed
    /\ session[c].closed => session[c].exited
    /\ session[c].byBridge => /\ session[c].flushed
                              /\ session[c].killed \/ session[c].closed

\* Only a session that started runs the items of its queue.
TurnsAreUp ==
  \A c \in Children :
    turn[c].stage # "idle" => session[c].phase = "up" /\ turn[c].prompt \in Prompts

Inv == TypeOK /\ Bound /\ Owned /\ TurnsAreUp

-----------------------------------------------------------------------------
(* What the helpers on one session, and on the record of ids, return.      *)

\* No child has the number that stands for none.
LEMMA MaybeType ==
  /\ None \in Maybe /\ Children \subseteq Maybe
  /\ \A x \in Maybe : x # None => x \in Children
  /\ None \notin Children
BY SessionAssumption DEF Maybe, None, Children

\* Every update of a session's record that some action makes.
LEMMA SessionType ==
  ASSUME NEW s \in Session
  PROVE  /\ Kill(s) \in Session /\ Ended(s) \in Session /\ Failed(s) \in Session
         /\ [Kill(s) EXCEPT !.flushed = TRUE] \in Session
         /\ [Ended(s) EXCEPT !.outgrown = TRUE] \in Session
         /\ [s EXCEPT !.aborted = TRUE] \in Session
         /\ [s EXCEPT !.exited = TRUE] \in Session
         /\ [s EXCEPT !.exited = TRUE, !.closed = TRUE] \in Session
<1>1. Kill(s) \in Session /\ Ended(s) \in Session /\ Failed(s) \in Session
  BY DEF Kill, Ended, Failed, Session
<1>2. \A t \in Session : /\ [t EXCEPT !.flushed = TRUE] \in Session
                        /\ [t EXCEPT !.outgrown = TRUE] \in Session
  BY DEF Session
<1>3. /\ [s EXCEPT !.aborted = TRUE] \in Session
      /\ [s EXCEPT !.exited = TRUE] \in Session
      /\ [s EXCEPT !.exited = TRUE, !.closed = TRUE] \in Session
  BY DEF Session
<1>4. QED
  BY <1>1, <1>2, <1>3

\* The updates of a session's record that a step of its handshake makes.
LEMMA PhaseType ==
  ASSUME NEW s \in Session, NEW id \in Maybe,
         NEW ph \in Handshake \cup {"up", "gone"}
  PROVE  /\ [s EXCEPT !.phase = ph] \in Session
         /\ [s EXCEPT !.phase = ph, !.convo = id] \in Session
         /\ [s EXCEPT !.phase = ph, !.refused = id] \in Session
         /\ [s EXCEPT !.phase = ph, !.convo = None, !.refused = id] \in Session
         /\ s.convo \in Maybe
BY MaybeType DEF Session

\* The record of a child just spawned.
LEMMA BornType ==
  ASSUME NEW k \in Keys, NEW r \in Nat
  PROVE  [Unborn EXCEPT !.key = k, !.revision = r, !.phase = "init"] \in Session
BY MaybeType DEF Unborn, Session, Handshake

\* Recording a session's id keeps the record of ids well typed.
LEMMA RememberType ==
  ASSUME NEW ids \in [Keys -> Maybe], NEW s \in Session
  PROVE  Remember(ids, s) \in [Keys -> Maybe]
BY DEF Remember, Session

\* So does forgetting one.
LEMMA ForgetType ==
  ASSUME NEW ids \in [Keys -> Maybe], NEW k, NEW convo
  PROVE  Forget(ids, k, convo) \in [Keys -> Maybe]
BY MaybeType DEF Forget

\* So does dropping a stale session from the map.
LEMMA DropStaleType ==
  ASSUME NEW k, DropStale(k), entries \in [Keys -> Maybe], k \in Keys,
         resumable \in [Keys -> Maybe], session \in [Children -> Session]
  PROVE  entries' \in [Keys -> Maybe] /\ resumable' \in [Keys -> Maybe]
<1>1. CASE entries[k] = None
  BY <1>1 DEF DropStale
<1>2. CASE entries[k] # None
  <2>1. session[entries[k]] \in Session
    BY <1>2, MaybeType
  <2>2. QED
    BY <1>2, <2>1, RememberType, MaybeType DEF DropStale
<1>3. QED
  BY <1>1, <1>2

\* The order of the sessions by their last turn stays one of numbers.
LEMMA TouchType ==
  ASSUME lastTurnAt \in [Keys -> Nat], NEW k \in Keys
  PROVE  Touch(k) \in [Keys -> Nat]
<1>1. Cardinality(Keys) \in Nat
  BY FS_CardinalityType, SessionAssumption
<1>2. QED
  BY <1>1 DEF Touch

\* Where a prompt is, when it is on a child or on none.
LEMMA CallType ==
  ASSUME NEW c \in Maybe,
         NEW at \in Outcomes \cup {"new", "again", "queued", "sent", "alongside", "asking"}
  PROVE  [at |-> at, on |-> c] \in Call
BY DEF Call

\* A prompt that is over is well typed.
LEMMA SettleType ==
  ASSUME prompt \in [Prompts -> Call], NEW p, NEW outcome \in Outcomes,
         Settle(p, outcome)
  PROVE  prompt' \in [Prompts -> Call]
<1>1. [at |-> outcome, on |-> None] \in Call
  BY CallType, MaybeType
<1>2. QED
  BY <1>1 DEF Settle

\* Queueing a prompt keeps the queues and the prompts well typed.
LEMMA EnqueueType ==
  ASSUME prompt \in [Prompts -> Call], queue \in [Children -> Seq(QueueItem)],
         NEW p \in Prompts, NEW c \in Children, Enqueue(p, c)
  PROVE  queue' \in [Children -> Seq(QueueItem)] /\ prompt' \in [Prompts -> Call]
<1>1. Item(p) \in QueueItem
  BY DEF Item, QueueItem
<1>2. [at |-> "queued", on |-> c] \in Call
  BY CallType, MaybeType
<1>3. queue' \in [Children -> Seq(QueueItem)]
  BY <1>1 DEF Enqueue
<1>4. QED
  BY <1>2, <1>3 DEF Enqueue

-----------------------------------------------------------------------------
(* The types.                                                              *)

\* The types hold initially.
LEMMA TypeInit == Init => TypeOK
<1>1. Unborn \in Session
  BY MaybeType, SessionAssumption DEF Unborn, Session
<1>2. Idle \in Turn
  BY DEF Idle, Turn, Stages
<1>3. [at |-> "new", on |-> None] \in Call
  BY CallType, MaybeType
<1>4. <<>> \in Seq(QueueItem)
  OBVIOUS
<1>5. 0 \in 0 .. MaxSpawns /\ 0 \in 0 .. MaxReloads /\ 0 \in 0 .. MaxRestarts
  BY SessionAssumption
<1>6. SUFFICES ASSUME Init PROVE TypeOK
  OBVIOUS
<1>7. /\ entries \in [Keys -> Maybe] /\ spawning \in [Keys -> Maybe]
      /\ resumable \in [Keys -> Maybe] /\ lastTurnAt \in [Keys -> Nat]
      /\ revision \in [Agents -> Nat]
  BY <1>6, MaybeType DEF Init
<1>8. /\ session \in [Children -> Session] /\ turn \in [Children -> Turn]
      /\ queue \in [Children -> Seq(QueueItem)] /\ prompt \in [Prompts -> Call]
  BY <1>1, <1>2, <1>3, <1>4, <1>6 DEF Init
<1>9. QED
  BY <1>5, <1>6, <1>7, <1>8 DEF Init, TypeOK

\* The pairs whose session makes room for that of child c, with what the end of
\* its handshake does to them.
MapsInPlaceOf(c, V) ==
  LET k == session[c].key
      ids == Remember(resumable, session[c])
  IN
  /\ \A j \in V : j # k /\ entries[j] # None
  /\ entries' = [j \in Keys |-> IF j = k THEN c ELSE IF j \in V THEN None ELSE entries[j]]
  /\ session' = [d \in Children |->
                   IF d = c THEN [session[c] EXCEPT !.phase = "up"]
                   ELSE IF \E v \in V : entries[v] = d THEN Ended(session[d])
                   ELSE session[d]]
  /\ resumable' = [j \in Keys |-> IF j \in V THEN Remember(ids, session[entries[j]])[j]
                                  ELSE ids[j]]

\* The two rounds of evictForCapacity put the new session in the place of one set
\* of pairs, the new session's own pair not among them.
LEMMA MappedInPlace ==
  ASSUME NEW c \in Children, HandshakeDone(c)
  PROVE  \E V \in SUBSET Keys : MapsInPlaceOf(c, V)
<1>. DEFINE k == session[c].key
            ids == Remember(resumable, session[c])
            Maps(V) ==
              /\ entries' = [j \in Keys |-> IF j = k THEN c ELSE IF j \in V THEN None
                                            ELSE entries[j]]
              /\ session' = [d \in Children |->
                               IF d = c THEN [session[c] EXCEPT !.phase = "up"]
                               ELSE IF \E v \in V : entries[v] = d THEN Ended(session[d])
                               ELSE session[d]]
              /\ resumable' = [j \in Keys |->
                                 IF j \in V THEN Remember(ids, session[entries[j]])[j]
                                 ELSE ids[j]]
<1>1. PICK V1 \in SUBSET Keys, V2 \in SUBSET Keys :
        /\ MakesRoom(V1, Occupied, k)
        /\ MakesRoom(V2, (Occupied \ V1) \cup {k}, k) \/ V2 = {}
        /\ Maps(V1 \cup V2)
  <2>. HIDE DEF Maps
  <2>1. QED
    BY ZenonT(60) DEF HandshakeDone, Maps
<1>. HIDE DEF Maps
<1>2. \A j \in V1 \cup V2 : j # k /\ entries[j] # None
  BY <1>1 DEF MakesRoom, Occupied
<1>3. MapsInPlaceOf(c, V1 \cup V2)
  BY <1>1, <1>2 DEF MapsInPlaceOf, Maps
<1>4. QED
  BY <1>3

\* Every step keeps the types.
LEMMA TypeStep ==
  ASSUME Inv, [Next]_vars
  PROVE  TypeOK'
<1>. USE DEF TypeOK
<1>0. /\ TypeOK
      /\ \A c \in Children : session[c].phase # "unborn" => session[c].key \in Keys
      /\ \A c \in Children : turn[c].stage # "idle" =>
                              session[c].phase # "unborn" /\ turn[c].prompt \in Prompts
      /\ \A p \in Prompts : KeyOf[p] \in Keys /\ AgentOf[KeyOf[p]] \in Agents
  BY SessionAssumption DEF Inv, Owned, TurnsAreUp
<1>1. ASSUME NEW p \in Prompts, PromptStep(p) PROVE TypeOK'
  <2>1. CASE PromptRefused(p)
    <3>1. prompt' \in [Prompts -> Call]
      BY <1>0, <2>1, SettleType DEF PromptRefused, Outcomes
    <3>2. QED
      BY <1>0, <2>1, <3>1 DEF PromptRefused, pool, config
  <2>2. CASE PromptJoinsSession(p)
    <3>1. entries[KeyOf[p]] \in Children
      BY <1>0, <2>2, MaybeType DEF PromptJoinsSession, HasSession
    <3>2. queue' \in [Children -> Seq(QueueItem)] /\ prompt' \in [Prompts -> Call]
      BY <1>0, <2>2, <3>1, EnqueueType DEF PromptJoinsSession
    <3>3. QED
      BY <1>0, <2>2, <3>2 DEF PromptJoinsSession, pool, config
  <2>3. CASE PromptJoinsSpawn(p)
    <3>1. spawning[KeyOf[p]] \in Children
      BY <1>0, <2>3, MaybeType DEF PromptJoinsSpawn
    <3>2. queue' \in [Children -> Seq(QueueItem)] /\ prompt' \in [Prompts -> Call]
      BY <1>0, <2>3, <3>1, EnqueueType DEF PromptJoinsSpawn
    <3>3. entries' \in [Keys -> Maybe] /\ resumable' \in [Keys -> Maybe]
      BY <1>0, <2>3, DropStaleType DEF PromptJoinsSpawn
    <3>4. QED
      BY <1>0, <2>3, <3>2, <3>3 DEF PromptJoinsSpawn, config
  <2>4. CASE PromptSpawns(p)
    <3>1. spawned + 1 \in Children /\ spawned' \in 0 .. MaxSpawns
      BY <1>0, <2>4, SessionAssumption DEF PromptSpawns, Children
    <3>2. session' \in [Children -> Session]
      BY <1>0, <2>4, <3>1, BornType DEF PromptSpawns
    <3>3. entries' \in [Keys -> Maybe] /\ resumable' \in [Keys -> Maybe]
      BY <1>0, <2>4, DropStaleType DEF PromptSpawns
    <3>4. spawning' \in [Keys -> Maybe]
      BY <1>0, <2>4, <3>1, MaybeType DEF PromptSpawns
    <3>5. queue' \in [Children -> Seq(QueueItem)] /\ prompt' \in [Prompts -> Call]
      BY <1>0, <2>4, <3>1, EnqueueType DEF PromptSpawns
    <3>6. QED
      BY <1>0, <2>4, <3>1, <3>2, <3>3, <3>4, <3>5 DEF PromptSpawns, config
  <2>5. CASE SlotAnswersStart(p)
    <3>1. prompt' \in [Prompts -> Call]
      BY <1>0, <2>5, SettleType DEF SlotAnswersStart, Outcomes
    <3>2. QED
      BY <1>0, <2>5, <3>1 DEF SlotAnswersStart, pool, config
  <2>6. CASE PromptAlongside(p)
    <3>1. entries[KeyOf[p]] \in Children
      BY <1>0, <2>6, MaybeType DEF PromptAlongside, HasSession
    <3>2. [at |-> "alongside", on |-> entries[KeyOf[p]]] \in Call
      BY <3>1, MaybeType, CallType
    <3>3. QED
      BY <1>0, <2>6, <3>2 DEF PromptAlongside, pool, config
  <2>7. CASE AlongsideEnds(p)
    <3>1. prompt' \in [Prompts -> Call]
      BY <1>0, <2>7, SettleType DEF AlongsideEnds, Outcomes
    <3>2. QED
      BY <1>0, <2>7, <3>1 DEF AlongsideEnds, pool, config
  <2>8. QED
    BY <1>1, <2>1, <2>2, <2>3, <2>4, <2>5, <2>6, <2>7 DEF PromptStep
<1>2. ASSUME NEW c \in Children, HandshakeStep(c) PROVE TypeOK'
  <2>. session[c] \in Session
    BY <1>0
  <2>1. CASE Initialized(c)
    <3>1. resumable[session[c].key] \in Maybe
      BY <1>0, <2>1 DEF Initialized
    <3>2. session' \in [Children -> Session]
      <4>. DEFINE id == resumable[session[c].key]
      <4>1. /\ [session[c] EXCEPT !.phase = "loading", !.convo = id] \in Session
            /\ [session[c] EXCEPT !.phase = "opening", !.refused = id] \in Session
        BY <3>1, PhaseType DEF Handshake
      <4>2. QED
        BY <1>0, <2>1, <4>1 DEF Initialized
    <3>3. QED
      BY <1>0, <2>1, <3>2 DEF Initialized, pool, config
  <2>2. CASE SessionLoaded(c)
    <3>1. session' \in [Children -> Session]
      BY <1>0, <2>2, MaybeType, PhaseType DEF SessionLoaded, Handshake
    <3>2. QED
      BY <1>0, <2>2, <3>1 DEF SessionLoaded, pool, config
  <2>3. CASE LoadFailed(c)
    <3>1. session' \in [Children -> Session]
      <4>1. session[c].convo \in Maybe
        BY PhaseType, MaybeType
      <4>2. [session[c] EXCEPT !.phase = "opening", !.convo = None,
                               !.refused = session[c].convo] \in Session
        BY <4>1, PhaseType DEF Handshake
      <4>3. QED
        BY <1>0, <2>3, <4>2 DEF LoadFailed
    <3>2. resumable' \in [Keys -> Maybe]
      BY <1>0, <2>3, ForgetType DEF LoadFailed
    <3>3. QED
      BY <1>0, <2>3, <3>1, <3>2 DEF LoadFailed, config
  <2>4. CASE SessionCreated(c)
    <3>1. session' \in [Children -> Session]
      BY <1>0, <2>4, MaybeType, PhaseType DEF SessionCreated, Handshake
    <3>2. QED
      BY <1>0, <2>4, <3>1 DEF SessionCreated, pool, config
  <2>5. CASE HandshakeDone(c)
    <3>1. session[c].key \in Keys
      BY <1>0, <2>5 DEF HandshakeDone
    <3>2. PICK V \in SUBSET Keys : MapsInPlaceOf(c, V)
      BY <2>5, MappedInPlace
    <3>. USE DEF MapsInPlaceOf
    <3>3. session' \in [Children -> Session]
      BY <1>0, <3>2, SessionType, PhaseType, MaybeType
    <3>4. entries' \in [Keys -> Maybe]
      BY <1>0, <3>2, MaybeType
    <3>5. resumable' \in [Keys -> Maybe]
      <4>. DEFINE ids == Remember(resumable, session[c])
      <4>1. ids \in [Keys -> Maybe]
        BY <1>0, RememberType
      <4>. HIDE DEF ids
      <4>2. ASSUME NEW j \in Keys, entries[j] # None
            PROVE  Remember(ids, session[entries[j]])[j] \in Maybe
        <5>1. session[entries[j]] \in Session
          BY <1>0, <4>2, MaybeType
        <5>2. QED
          BY <4>1, <5>1, RememberType
      <4>3. resumable' = [j \in Keys |-> IF j \in V THEN Remember(ids, session[entries[j]])[j]
                                         ELSE ids[j]]
        BY <3>2 DEF ids
      <4>4. QED
        BY <3>2, <4>1, <4>2, <4>3
    <3>6. spawning' \in [Keys -> Maybe] /\ lastTurnAt' \in [Keys -> Nat]
      BY <1>0, <2>5, <3>1, MaybeType, TouchType DEF HandshakeDone
    <3>7. QED
      BY <1>0, <2>5, <3>3, <3>4, <3>5, <3>6 DEF HandshakeDone, config
  <2>6. CASE HandshakeFails(c)
    <3>1. session' \in [Children -> Session]
      BY <1>0, <2>6, SessionType DEF HandshakeFails
    <3>2. queue' \in [Children -> Seq(QueueItem)]
      BY <1>0, <2>6 DEF HandshakeFails
    <3>3. prompt' \in [Prompts -> Call]
      BY <1>0, <2>6, MaybeType, CallType DEF HandshakeFails, Outcomes
    <3>4. spawning' \in [Keys -> Maybe]
      BY <1>0, <2>6, MaybeType DEF HandshakeFails
    <3>5. QED
      BY <1>0, <2>6, <3>1, <3>2, <3>3, <3>4 DEF HandshakeFails, config
  <2>7. QED
    BY <1>2, <2>1, <2>2, <2>3, <2>4, <2>5, <2>6 DEF HandshakeStep
<1>3. ASSUME NEW c \in Children, TurnStep(c) PROVE TypeOK'
  <2>0. /\ session[c] \in Session /\ turn[c] \in Turn /\ queue[c] \in Seq(QueueItem)
        /\ Ended(session[c]) \in Session
        /\ [Ended(session[c]) EXCEPT !.outgrown = TRUE] \in Session
    BY <1>0, SessionType
  <2>a. ASSUME NEW s \in Session, NEW outcome \in Outcomes, TurnOver(c, s, outcome),
               s.key \in Keys
        PROVE  /\ prompt' \in [Prompts -> Call] /\ turn' \in [Children -> Turn]
               /\ session' \in [Children -> Session] /\ lastTurnAt' \in [Keys -> Nat]
    <3>1. Idle \in Turn
      BY DEF Idle, Turn, Stages
    <3>2. QED
      BY <1>0, <2>a, <3>1, SettleType, TouchType DEF TurnOver
  <2>b. turn[c].stage # "idle" =>
          /\ session[c].key \in Keys /\ Ended(session[c]).key \in Keys
          /\ [Ended(session[c]) EXCEPT !.outgrown = TRUE].key \in Keys
    BY <1>0, <2>0 DEF Ended, Kill, Session
  <2>c. Unmapped(c) \in [Keys -> Maybe]
    BY <1>0, MaybeType DEF Unmapped
  <2>d. ASSUME NEW stage \in Stages
        PROVE  [turn EXCEPT ![c].stage = stage] \in [Children -> Turn]
    BY <1>0, <2>0 DEF Turn
  <2>e. Takes(c) => /\ Front(c) \in QueueItem
                    /\ Front(c).prompt \in Prompts
                    /\ [queue EXCEPT ![c] = Tail(@)] \in [Children -> Seq(QueueItem)]
    <3>1. SUFFICES ASSUME Takes(c) PROVE /\ Head(queue[c]) \in QueueItem
                                         /\ Tail(queue[c]) \in Seq(QueueItem)
      BY <1>0 DEF Front, QueueItem
    <3>2. queue[c] \in Seq(QueueItem) /\ queue[c] # <<>>
      BY <2>0, <3>1 DEF Takes
    <3>3. QED
      BY <3>2
  <2>1. CASE RefuseNext(c)
    <3>1. prompt' \in [Prompts -> Call]
      BY <1>0, <2>1, SettleType DEF RefuseNext, Refusal, Outcomes
    <3>2. QED
      BY <1>0, <2>1, <2>e, <3>1 DEF RefuseNext, Take, pool, config
  <2>2. CASE ReadSummary(c)
    <3>1. turn' \in [Children -> Turn]
      BY <1>0, <2>2, <2>e DEF ReadSummary, Runs, Turn, Stages
    <3>2. QED
      BY <1>0, <2>2, <2>e, <3>1 DEF ReadSummary, Take, pool, config
  <2>3. CASE SummaryRead(c)
    <3>1. turn[c].prompt \in Prompts
      BY <1>0, <2>3 DEF SummaryRead
    <3>2. turn' \in [Children -> Turn]
      BY <1>0, <2>3 DEF SummaryRead, Idle, Turn, Stages
    <3>3. prompt' \in [Prompts -> Call]
      BY SMTT(30), <1>0, <2>3, <3>1, MaybeType, CallType DEF SummaryRead
    <3>4. queue' \in [Children -> Seq(QueueItem)]
      <4>1. [prompt |-> turn[c].prompt, kind |-> "turn"] \in QueueItem
        BY <3>1 DEF QueueItem
      <4>2. Append(queue[c], [prompt |-> turn[c].prompt, kind |-> "turn"]) \in Seq(QueueItem)
        BY <2>0, <4>1
      <4>3. QED
        BY <1>0, <2>3, <4>2 DEF SummaryRead
    <3>5. QED
      BY <1>0, <2>3, <3>2, <3>3, <3>4 DEF SummaryRead, pool, config
  <2>4. CASE SendTurn(c)
    <3>1. turn' \in [Children -> Turn]
      BY <1>0, <2>4, <2>e DEF SendTurn, Runs, Turn, Stages
    <3>2. prompt' \in [Prompts -> Call]
      BY <1>0, <2>4, <2>e, MaybeType, CallType DEF SendTurn
    <3>3. QED
      BY <1>0, <2>4, <2>e, <3>1, <3>2 DEF SendTurn, Take, pool, config
  <2>5. CASE RpcReturns(c)
    BY <1>0, <2>5, <2>d DEF RpcReturns, Stages, pool, config
  <2>6. CASE StartDrain(c)
    BY <1>0, <2>6, <2>d DEF StartDrain, Stages, pool, config
  <2>7. CASE TurnAnswered(c)
    BY <1>0, <2>0, <2>7, <2>a, <2>b DEF TurnAnswered, Outcomes, pool, config
  <2>8. CASE AgentFails(c)
    BY <1>0, <2>0, <2>8, <2>a, <2>b DEF AgentFails, Outcomes, pool, config
  <2>9. CASE ConnectionLost(c)
    <3>1. CASE session[c].byBridge
      BY <1>0, <2>0, <2>9, <2>a, <2>b, <3>1 DEF ConnectionLost, Outcomes, pool, config
    <3>2. CASE ~ session[c].byBridge
      BY <1>0, <2>9, <2>d, <3>2 DEF ConnectionLost, Stages, pool, config
    <3>3. QED
      BY <3>1, <3>2
  <2>10. CASE SlotAnswersTurn(c)
    BY <1>0, <2>0, <2>10, <2>a, <2>b DEF SlotAnswersTurn, Outcomes, pool, config
  <2>11. CASE Outgrows(c)
    <3>1. resumable' \in [Keys -> Maybe]
      BY <1>0, <2>11, ForgetType DEF Outgrows
    <3>2. QED
      BY <1>0, <2>0, <2>11, <2>a, <2>b, <2>c, <3>1 DEF Outgrows, Outcomes, config
  <2>12. CASE WatchdogFires(c)
    <3>1. CASE turn[c].stage = "asking"
      BY <1>0, <2>0, <2>12, <2>c, <3>1 DEF WatchdogFires, config
    <3>2. CASE turn[c].stage # "asking"
      <4>1. turn[c].stage # "idle"
        BY <2>12 DEF WatchdogFires, Running
      <4>2. QED
        BY <1>0, <2>0, <2>12, <2>a, <2>b, <2>c, <3>2, <4>1 DEF WatchdogFires, Outcomes, config
    <3>3. QED
      BY <3>1, <3>2
  <2>13. QED
    BY <1>3, <2>1, <2>2, <2>3, <2>4, <2>5, <2>6, <2>7, <2>8, <2>9, <2>10, <2>11, <2>12
       DEF TurnStep
<1>4. ASSUME NEW c \in Children, ChildStep(c) PROVE TypeOK'
  <2>0. session[c] \in Session
    BY <1>0
  <2>1. CASE ConnectionCloses(c)
    BY <1>0, <2>0, <2>1, SessionType DEF ConnectionCloses, pool, config
  <2>2. CASE ChildExits(c)
    <3>1. session' \in [Children -> Session]
      BY <1>0, <2>0, <2>2, SessionType DEF ChildExits
    <3>2. entries' \in [Keys -> Maybe] /\ resumable' \in [Keys -> Maybe]
      <4>1. Remember(resumable, session[c]) \in [Keys -> Maybe]
        BY <1>0, <2>0, RememberType
      <4>2. Unmapped(c) \in [Keys -> Maybe]
        BY <1>0, MaybeType DEF Unmapped
      <4>3. QED
        BY <1>0, <2>2, <4>1, <4>2 DEF ChildExits
    <3>3. QED
      BY <1>0, <2>2, <3>1, <3>2 DEF ChildExits, config
  <2>3. CASE IdleFires(c)
    BY <1>0, <2>0, <2>3, SessionType DEF IdleFires, pool, config
  <2>4. QED
    BY <1>4, <2>1, <2>2, <2>3 DEF ChildStep
<1>5. ASSUME NEW a \in Agents, ReloadStep(a) PROVE TypeOK'
  <2>1. ASSUME KillAgentSessions(a)
        PROVE  /\ entries' \in [Keys -> Maybe] /\ resumable' \in [Keys -> Maybe]
               /\ session' \in [Children -> Session]
    <3>1. entries' \in [Keys -> Maybe] /\ session' \in [Children -> Session]
      BY <1>0, <2>1, MaybeType, SessionType DEF KillAgentSessions
    <3>2. ASSUME NEW k \in Keys, entries[k] # None
          PROVE  Remember(resumable, session[entries[k]])[k] \in Maybe
      <4>1. session[entries[k]] \in Session
        BY <1>0, <3>2, MaybeType
      <4>2. Remember(resumable, session[entries[k]]) \in [Keys -> Maybe]
        BY <1>0, <4>1, RememberType
      <4>3. QED
        BY <3>2, <4>2
    <3>3. QED
      BY <1>0, <2>1, <3>1, <3>2 DEF KillAgentSessions
  <2>2. Reload => reloads' \in 0 .. MaxReloads /\ restarts' = restarts
    BY <1>0, SessionAssumption DEF Reload
  <2>3. [revision EXCEPT ![a] = @ + 1] \in [Agents -> Nat]
    BY <1>0
  <2>4. CASE ReplaceAgent(a)
    BY <1>0, <2>1, <2>2, <2>3, <2>4 DEF ReplaceAgent, KillAgentSessions
  <2>5. CASE RemoveAgent(a)
    BY <1>0, <2>1, <2>2, <2>5 DEF RemoveAgent, KillAgentSessions
  <2>6. CASE AddAgent(a)
    BY <1>0, <2>2, <2>3, <2>6 DEF AddAgent, pool
  <2>7. QED
    BY <1>5, <2>4, <2>5, <2>6 DEF ReloadStep
<1>6. ASSUME NEW n \in Limits, ApplySession(n) PROVE TypeOK'
  BY <1>0, <1>6, SessionAssumption DEF ApplySession, Reload, pool
<1>7. CASE StopStartingTurns
  BY <1>0, <1>7 DEF StopStartingTurns, pool
<1>8. CASE Shutdown
  <2>1. session' \in [Children -> Session]
    BY <1>0, <1>8, SessionType DEF Shutdown
  <2>2. QED
    BY <1>0, <1>8, <2>1, MaybeType DEF Shutdown
<1>9. CASE BridgeRestarts
  <2>1. session' \in [Children -> Session]
    BY <1>0, <1>9, SessionType, PhaseType, MaybeType DEF BridgeRestarts
  <2>2. prompt' \in [Prompts -> Call]
    BY <1>0, <1>9, CallType, MaybeType DEF BridgeRestarts, Outcomes
  <2>3. /\ queue' \in [Children -> Seq(QueueItem)] /\ turn' \in [Children -> Turn]
        /\ entries' \in [Keys -> Maybe] /\ spawning' \in [Keys -> Maybe]
        /\ lastTurnAt' \in [Keys -> Nat]
    BY <1>9, MaybeType DEF BridgeRestarts, Idle, Turn, Stages
  <2>4. restarts' \in 0 .. MaxRestarts
    BY <1>0, <1>9, SessionAssumption DEF BridgeRestarts
  <2>5. QED
    BY <1>0, <1>9, <2>1, <2>2, <2>3, <2>4 DEF BridgeRestarts
<1>10. CASE UNCHANGED vars
  BY <1>0, <1>10 DEF vars, pool, config
<1>11. QED
  BY <1>1, <1>2, <1>3, <1>4, <1>5, <1>6, <1>7, <1>8, <1>9, <1>10 DEF Next

-----------------------------------------------------------------------------
(* The children and their pairs.                                           *)

\* A step that starts and ends no handshake: a child keeps its pair, and a
\* pair's session leaves the map only when it was told to end or is gone.
GentleTo(c) ==
  /\ session'[c].key = session[c].key
  /\ \/ session'[c].phase = session[c].phase
     \/ session'[c].phase \in Handshake /\ session[c].phase \in Handshake
  /\ session[c].killed => session'[c].killed
  /\ session[c].exited => session'[c].exited
  /\ session[c].aborted => session'[c].aborted
  /\ session'[c].closed => session'[c].exited
  /\ session'[c].byBridge => /\ session'[c].flushed
                             /\ session'[c].killed \/ session'[c].closed
  /\ session[c].phase = "up" /\ entries[session[c].key] = c =>
       \/ entries'[session[c].key] = c
       \/ session'[c].killed \/ session'[c].exited \/ session'[c].aborted

Gentle ==
  /\ spawning' = spawning /\ spawned' = spawned
  /\ \A k \in Keys : entries'[k] = entries[k] \/ entries'[k] = None
  /\ \A c \in Children : GentleTo(c)

\* A gentle step keeps each child bound to its pair and owned.
LEMMA GentleStep ==
  ASSUME Inv, TypeOK', Gentle
  PROVE  Bound' /\ Owned'
<1>1. Bound'
  <2>. SUFFICES ASSUME NEW k \in Keys
       PROVE  /\ spawning[k] # None => /\ session'[spawning[k]].key = k
                                       /\ session'[spawning[k]].phase \in Handshake
                                       /\ entries'[k] = None
              /\ entries'[k] # None => /\ session'[entries'[k]].key = k
                                       /\ session'[entries'[k]].phase = "up"
    BY DEF Gentle, Bound
  <2>1. /\ spawning[k] # None => spawning[k] \in Children
        /\ entries[k] # None => entries[k] \in Children
    BY MaybeType DEF Inv, TypeOK
  <2>2. "up" \notin Handshake
    BY DEF Handshake
  <2>3. QED
    BY <2>1, <2>2 DEF Inv, Bound, Gentle, GentleTo
<1>2. Owned'
  <2>. SUFFICES ASSUME NEW c \in Children
       PROVE  /\ spawned < c => session'[c].phase = "unborn"
              /\ session'[c].phase # "unborn" => session'[c].key \in Keys
              /\ session'[c].phase \in Handshake => spawning[session'[c].key] = c
              /\ session'[c].phase = "up" => \/ entries'[session'[c].key] = c
                                             \/ session'[c].killed
                                             \/ session'[c].exited \/ session'[c].aborted
              /\ session'[c].phase = "failed" => session'[c].killed
    BY DEF Gentle, GentleTo, Owned
  <2>1. Handshake \cap {"unborn", "up", "failed"} = {}
    BY DEF Handshake
  <2>2. QED
    BY <2>1 DEF Inv, Owned, Gentle, GentleTo
<1>3. QED
  BY <1>1, <1>2

\* What the bridge's ending of a session does to its record.
LEMMA EndedFields ==
  ASSUME NEW s \in Session, NEW t,
         t = Ended(s) \/ t = [Kill(s) EXCEPT !.flushed = TRUE]
  PROVE  /\ t.key = s.key /\ t.phase = s.phase
         /\ t.closed => s.closed
         /\ s.exited => t.exited
         /\ s.aborted => t.aborted
         /\ s.killed \/ ~ s.closed => t.killed
         /\ t.flushed
         /\ t.killed \/ t.closed
BY DEF Kill, Ended, Session

\* A step that touches neither the map nor the children is gentle.
LEMMA UnchangedIsGentle ==
  ASSUME Inv, UNCHANGED <<entries, spawning, spawned, session>>
  PROVE  Gentle
BY DEF Inv, Owned, Gentle, GentleTo

\* A step of a session's queue is gentle: a session it unmaps was told to end.
LEMMA TurnIsGentle ==
  ASSUME Inv, NEW c \in Children, TurnStep(c)
  PROVE  Gentle
<1>0. session[c] \in Session /\ session \in [Children -> Session]
  BY DEF Inv, TypeOK
<1>. DEFINE Ends(s) ==
       /\ session' = [session EXCEPT ![c] = s]
       /\ s = Ended(session[c]) \/ s = [Ended(session[c]) EXCEPT !.outgrown = TRUE]
       /\ entries' = Unmapped(c) /\ spawning' = spawning /\ spawned' = spawned
<1>1. ASSUME NEW s, Ends(s) PROVE Gentle
  <2>1. /\ s.key = session[c].key /\ s.phase = session[c].phase
        /\ s.killed = (session[c].killed \/ ~ session[c].closed)
        /\ s.exited = session[c].exited /\ s.aborted = session[c].aborted
        /\ s.closed = session[c].closed /\ s.flushed = TRUE
    BY <1>0, <1>1 DEF Ended, Kill, Session
  <2>2. \A k \in Keys : entries'[k] = entries[k] \/ entries'[k] = None
    BY <1>1 DEF Unmapped
  <2>3. QED
    BY <1>0, <1>1, <2>1, <2>2 DEF Inv, Owned, Gentle, GentleTo, Unmapped
<1>. HIDE DEF Ends
<1>2. CASE Outgrows(c)
  <2>1. Ends([Ended(session[c]) EXCEPT !.outgrown = TRUE])
    BY <1>2 DEF Outgrows, TurnOver, Ends
  <2>2. QED
    BY <1>1, <2>1
<1>3. CASE WatchdogFires(c)
  <2>1. Ends(Ended(session[c]))
    BY <1>3 DEF WatchdogFires, TurnOver, Ends
  <2>2. QED
    BY <1>1, <2>1
<1>4. CASE ~ Outgrows(c) /\ ~ WatchdogFires(c)
  <2>1. [session EXCEPT ![c] = session[c]] = session
    BY <1>0
  <2>2. UNCHANGED <<entries, spawning, spawned, session>>
    BY <1>4, <2>1 DEF TurnStep, RefuseNext, ReadSummary, SummaryRead, SendTurn, RpcReturns,
      StartDrain, TurnAnswered, AgentFails, ConnectionLost, SlotAnswersTurn, TurnOver, pool
  <2>3. QED
    BY <2>2, UnchangedIsGentle
<1>5. QED
  BY <1>2, <1>3, <1>4

\* A step of the child is gentle: a session whose exit unmaps it has exited.
LEMMA ChildIsGentle ==
  ASSUME Inv, NEW c \in Children, ChildStep(c)
  PROVE  Gentle
<1>0. session[c] \in Session /\ session \in [Children -> Session]
  BY DEF Inv, TypeOK
<1>1. CASE ConnectionCloses(c)
  BY <1>0, <1>1 DEF ConnectionCloses, Gentle, Inv, Owned, pool, Session, GentleTo
<1>2. CASE ChildExits(c)
  <2>. DEFINE s == [session[c] EXCEPT !.exited = TRUE]
              t == [session[c] EXCEPT !.exited = TRUE, !.closed = TRUE]
  <2>1. /\ s.key = session[c].key /\ s.phase = session[c].phase
        /\ s.killed = session[c].killed /\ s.flushed = session[c].flushed
        /\ s.exited = TRUE /\ s.aborted = session[c].aborted
        /\ s.closed = session[c].closed /\ s.byBridge = session[c].byBridge
    BY <1>0 DEF Session
  <2>2. /\ t.key = session[c].key /\ t.phase = session[c].phase
        /\ t.killed = session[c].killed /\ t.flushed = session[c].flushed
        /\ t.exited = TRUE /\ t.aborted = session[c].aborted
        /\ t.closed = TRUE /\ t.byBridge = session[c].byBridge
    BY <1>0 DEF Session
  <2>3. \/ session' = [session EXCEPT ![c] = s] /\ entries' = entries
        \/ session' = [session EXCEPT ![c] = t] /\ entries' = Unmapped(c)
    BY <1>0, <1>2 DEF ChildExits
  <2>4. spawning' = spawning /\ spawned' = spawned
    BY <1>2 DEF ChildExits
  <2>. HIDE DEF s, t
  <2>5. QED
    BY <1>0, <2>1, <2>2, <2>3, <2>4 DEF Gentle, GentleTo, Inv, Owned, Unmapped
<1>3. CASE IdleFires(c)
  <2>. DEFINE s == Ended(session[c])
  <2>1. /\ s.key = session[c].key /\ s.phase = session[c].phase
        /\ s.killed \/ s.closed
        /\ session[c].killed => s.killed
        /\ s.flushed = TRUE
        /\ s.exited = session[c].exited /\ s.aborted = session[c].aborted
        /\ s.closed = session[c].closed
    BY <1>0 DEF Ended, Kill, Session
  <2>2. /\ session' = [session EXCEPT ![c] = s]
        /\ entries' = entries /\ spawning' = spawning /\ spawned' = spawned
    BY <1>3 DEF IdleFires, pool
  <2>. HIDE DEF s
  <2>3. QED
    BY <1>0, <2>1, <2>2 DEF Gentle, GentleTo, Inv, Owned
<1>4. QED
  BY <1>1, <1>2, <1>3 DEF ChildStep

\* Ending an agent's sessions is gentle.
LEMMA ReloadIsGentle ==
  ASSUME Inv, NEW a \in Agents, KillAgentSessions(a)
  PROVE  Gentle
<1>0. session \in [Children -> Session]
  BY DEF Inv, TypeOK
<1>1. /\ spawning' = spawning /\ spawned' = spawned
      /\ \A k \in Keys : entries'[k] = entries[k] \/ entries'[k] = None
  BY DEF KillAgentSessions
<1>2. ASSUME NEW c \in Children
      PROVE  \/ /\ session'[c] = session[c]
                /\ \A k \in Keys : entries[k] = c => entries'[k] = c
             \/ session'[c] = Ended(session[c])
  BY MaybeType DEF KillAgentSessions
<1>3. ASSUME NEW c \in Children PROVE GentleTo(c)
  <2>1. CASE /\ session'[c] = session[c]
             /\ \A k \in Keys : entries[k] = c => entries'[k] = c
    BY <2>1 DEF Inv, Owned, GentleTo
  <2>2. CASE session'[c] = Ended(session[c])
    <3>1. session[c] \in Session
      BY <1>0
    <3>. DEFINE t == session'[c]
    <3>2. /\ t.key = session[c].key /\ t.phase = session[c].phase
          /\ t.closed => session[c].closed
          /\ session[c].exited => t.exited
          /\ session[c].aborted => t.aborted
          /\ session[c].killed \/ ~ session[c].closed => t.killed
          /\ t.flushed
          /\ t.killed \/ t.closed
      BY <2>2, <3>1, EndedFields
    <3>3. QED
      BY <3>2 DEF Inv, Owned, GentleTo
  <2>3. QED
    BY <1>2, <2>1, <2>2
<1>4. QED
  BY <1>1, <1>3 DEF Gentle

\* Ending every mapped session is gentle.
LEMMA ShutdownIsGentle ==
  ASSUME Inv, Shutdown
  PROVE  Gentle
<1>0. session \in [Children -> Session]
  BY DEF Inv, TypeOK
<1>1. /\ spawning' = spawning /\ spawned' = spawned
      /\ \A k \in Keys : entries'[k] = entries[k] \/ entries'[k] = None
  BY DEF Shutdown
<1>2. ASSUME NEW c \in Children
      PROVE  \/ /\ session'[c] = session[c]
                /\ \A k \in Keys : entries[k] # c
             \/ session'[c] = [Kill(session[c]) EXCEPT !.flushed = TRUE]
  BY DEF Shutdown
<1>3. ASSUME NEW c \in Children PROVE GentleTo(c)
  <2>1. CASE session'[c] = session[c] /\ \A k \in Keys : entries[k] # c
    BY <2>1 DEF Inv, Owned, GentleTo
  <2>2. CASE session'[c] = [Kill(session[c]) EXCEPT !.flushed = TRUE]
    <3>1. session[c] \in Session
      BY <1>0
    <3>. DEFINE t == session'[c]
    <3>2. /\ t.key = session[c].key /\ t.phase = session[c].phase
          /\ t.closed => session[c].closed
          /\ session[c].exited => t.exited
          /\ session[c].aborted => t.aborted
          /\ session[c].killed \/ ~ session[c].closed => t.killed
          /\ t.flushed
          /\ t.killed \/ t.closed
      BY <2>2, <3>1, EndedFields
    <3>3. QED
      BY <3>2 DEF Inv, Owned, GentleTo
  <2>3. QED
    BY <1>2, <2>1, <2>2
<1>4. QED
  BY <1>1, <1>3 DEF Gentle

\* A step inside the handshake is gentle.
LEMMA HandshakeIsGentle ==
  ASSUME Inv, NEW c \in Children,
         Initialized(c) \/ SessionLoaded(c) \/ LoadFailed(c) \/ SessionCreated(c)
  PROVE  Gentle
<1>0. session[c] \in Session /\ session \in [Children -> Session]
  BY DEF Inv, TypeOK
<1>1. /\ session[c].phase \in Handshake /\ entries' = entries
      /\ spawning' = spawning /\ spawned' = spawned
  BY DEF Initialized, SessionLoaded, LoadFailed, SessionCreated, pool, Handshake
<1>2. PICK s : /\ session' = [session EXCEPT ![c] = s]
               /\ s.phase \in Handshake /\ s.key = session[c].key
               /\ s.killed = session[c].killed /\ s.exited = session[c].exited
               /\ s.aborted = session[c].aborted /\ s.closed = session[c].closed
               /\ s.byBridge = session[c].byBridge /\ s.flushed = session[c].flushed
  <2>. DEFINE Like(s) == /\ s.phase \in Handshake /\ s.key = session[c].key
                         /\ s.killed = session[c].killed /\ s.exited = session[c].exited
                         /\ s.aborted = session[c].aborted /\ s.closed = session[c].closed
                         /\ s.byBridge = session[c].byBridge /\ s.flushed = session[c].flushed
  <2>1. SUFFICES \E s : session' = [session EXCEPT ![c] = s] /\ Like(s)
    OBVIOUS
  <2>2. \A ph \in Handshake : \A x :
          /\ Like([session[c] EXCEPT !.phase = ph])
          /\ Like([session[c] EXCEPT !.phase = ph, !.convo = x])
          /\ Like([session[c] EXCEPT !.phase = ph, !.refused = x])
          /\ Like([session[c] EXCEPT !.phase = ph, !.convo = None, !.refused = x])
    BY <1>0 DEF Session
  <2>. HIDE DEF Like
  <2>3. "loading" \in Handshake /\ "opening" \in Handshake /\ "selecting" \in Handshake
    BY DEF Handshake
  <2>4. CASE Initialized(c)
    <3>. DEFINE id == resumable[session[c].key]
    <3>1. \/ session' = [session EXCEPT
               ![c] = [session[c] EXCEPT !.phase = "loading", !.convo = id]]
          \/ session' = [session EXCEPT
               ![c] = [session[c] EXCEPT !.phase = "opening", !.refused = id]]
      BY <1>0, <2>4 DEF Initialized
    <3>. HIDE DEF id
    <3>2. QED
      BY <2>2, <2>3, <3>1
  <2>5. CASE SessionLoaded(c)
    BY <1>0, <2>2, <2>3, <2>5 DEF SessionLoaded
  <2>6. CASE LoadFailed(c)
    <3>. DEFINE id == session[c].convo
    <3>1. session' = [session EXCEPT
             ![c] = [session[c] EXCEPT !.phase = "opening", !.convo = None, !.refused = id]]
      BY <1>0, <2>6 DEF LoadFailed
    <3>. HIDE DEF id
    <3>2. QED
      BY <2>2, <2>3, <3>1
  <2>7. CASE SessionCreated(c)
    <3>1. session' = [session EXCEPT
             ![c] = [session[c] EXCEPT !.phase = "selecting", !.convo = c]]
      BY <1>0, <2>7 DEF SessionCreated
    <3>2. QED
      BY <2>2, <2>3, <3>1
  <2>8. QED
    BY <2>4, <2>5, <2>6, <2>7
<1>3. "up" \notin Handshake
  BY DEF Handshake
<1>4. QED
  BY <1>0, <1>1, <1>2, <1>3 DEF Inv, Owned, Gentle, GentleTo

\* Mapping a session leaves every pair with its own child, and the sessions it
\* evicts are told to end.
LEMMA HandshakeDoneBound ==
  ASSUME Inv, TypeOK', NEW c \in Children, HandshakeDone(c)
  PROVE  Bound' /\ Owned'
<1>. DEFINE k == session[c].key
<1>0. /\ session \in [Children -> Session]
      /\ session[c].phase \in Handshake /\ k \in Keys
      /\ spawning[k] = c /\ entries[k] = None
      /\ spawning' = [spawning EXCEPT ![k] = None] /\ spawned' = spawned
  BY MaybeType DEF Inv, TypeOK, Owned, Bound, HandshakeDone, Handshake
<1>1. PICK V \in SUBSET Keys : MapsInPlaceOf(c, V)
  BY MappedInPlace
<1>2. /\ entries' = [j \in Keys |-> IF j = k THEN c ELSE IF j \in V THEN None ELSE entries[j]]
      /\ session' = [d \in Children |->
                       IF d = c THEN [session[c] EXCEPT !.phase = "up"]
                       ELSE IF \E v \in V : entries[v] = d THEN Ended(session[d])
                       ELSE session[d]]
  BY <1>1 DEF MapsInPlaceOf
<1>3. /\ session'[c].key = k /\ session'[c].phase = "up"
      /\ session'[c].closed = session[c].closed /\ session'[c].exited = session[c].exited
      /\ session'[c].byBridge = session[c].byBridge /\ session'[c].flushed = session[c].flushed
      /\ session'[c].killed = session[c].killed
  <2>1. session[c] \in Session
    BY <1>0
  <2>2. session'[c] = [session[c] EXCEPT !.phase = "up"]
    BY <1>2
  <2>3. QED
    BY <2>1, <2>2 DEF Session
<1>4. ASSUME NEW d \in Children, d # c
      PROVE  /\ session'[d].key = session[d].key /\ session'[d].phase = session[d].phase
             /\ session'[d].closed => session'[d].exited
             /\ session'[d].byBridge => /\ session'[d].flushed
                                        /\ session'[d].killed \/ session'[d].closed
             /\ session[d].killed => session'[d].killed
             /\ session[d].exited => session'[d].exited
             /\ session[d].aborted => session'[d].aborted
             /\ \/ \A v \in V : entries[v] # d
                \/ session'[d].killed \/ session'[d].exited
  <2>1. session[d] \in Session
    BY <1>0
  <2>2. CASE \E v \in V : entries[v] = d
    <3>1. session'[d] = Ended(session[d])
      BY <1>2, <1>4, <2>2
    <3>2. QED
      BY <2>1, <3>1, EndedFields DEF Inv, Owned
  <2>3. CASE ~ \E v \in V : entries[v] = d
    <3>1. session'[d] = session[d]
      BY <1>2, <1>4, <2>3
    <3>2. QED
      BY <2>3, <3>1 DEF Inv, Owned
  <2>4. QED
    BY <2>2, <2>3
<1>5. "up" \notin Handshake /\ "failed" # "up" /\ "unborn" \notin Handshake
  BY DEF Handshake
<1>6. Bound'
  <2>. SUFFICES ASSUME NEW j \in Keys
       PROVE  /\ spawning'[j] # None => /\ session'[spawning'[j]].key = j
                                        /\ session'[spawning'[j]].phase \in Handshake
                                        /\ entries'[j] = None
              /\ entries'[j] # None => /\ session'[entries'[j]].key = j
                                       /\ session'[entries'[j]].phase = "up"
    BY DEF Bound
  <2>1. spawning \in [Keys -> Maybe] /\ entries \in [Keys -> Maybe]
    BY DEF Inv, TypeOK
  <2>2. CASE j = k
    BY <1>0, <1>2, <1>3, <2>1, <2>2
  <2>3. CASE j # k
    <3>1. spawning'[j] = spawning[j] /\ (entries'[j] = entries[j] \/ entries'[j] = None)
      BY <1>0, <1>2, <2>1, <2>3
    <3>2. spawning[j] # None => spawning[j] \in Children /\ spawning[j] # c
      BY <2>1, <2>3, MaybeType DEF Inv, Bound
    <3>3. entries[j] # None => entries[j] \in Children /\ entries[j] # c
      BY <1>0, <1>5, <2>1, MaybeType DEF Inv, Bound
    <3>4. QED
      BY <1>4, <3>1, <3>2, <3>3 DEF Inv, Bound
  <2>4. QED
    BY <2>2, <2>3
<1>7. Owned'
  <2>1. ASSUME NEW d \in Children, d = c
        PROVE  /\ ~ spawned < d /\ session'[d].key \in Keys /\ session'[d].phase = "up"
               /\ entries'[session'[d].key] = d
               /\ session'[d].closed => session'[d].exited
               /\ session'[d].byBridge => /\ session'[d].flushed
                                          /\ session'[d].killed \/ session'[d].closed
    BY <1>0, <1>2, <1>3, <1>5, <2>1 DEF Inv, Owned
  <2>2. ASSUME NEW d \in Children, d # c
        PROVE  /\ spawned < d => session'[d].phase = "unborn"
               /\ session'[d].phase # "unborn" => session'[d].key \in Keys
               /\ session'[d].phase \in Handshake => spawning'[session'[d].key] = d
               /\ session'[d].phase = "up" => \/ entries'[session'[d].key] = d
                                              \/ session'[d].killed
                                              \/ session'[d].exited \/ session'[d].aborted
               /\ session'[d].phase = "failed" => session'[d].killed
    <3>1. session'[d].phase \in Handshake => spawning'[session'[d].key] = d
      <4>1. SUFFICES ASSUME session[d].phase \in Handshake
                     PROVE  spawning'[session[d].key] = d
        BY <1>4, <2>2
      <4>2. session[d].key \in Keys /\ spawning[session[d].key] = d
        BY <1>5, <2>2, <4>1 DEF Inv, Owned
      <4>3. session[d].key # k
        BY <1>0, <2>2, <4>2
      <4>4. spawning \in [Keys -> Maybe]
        BY DEF Inv, TypeOK
      <4>5. QED
        BY <1>0, <4>2, <4>3, <4>4
    <3>2. session'[d].phase = "up" => \/ entries'[session'[d].key] = d
                                     \/ session'[d].killed
                                     \/ session'[d].exited \/ session'[d].aborted
      BY <1>0, <1>2, <1>4, <2>2, MaybeType DEF Inv, Owned
    <3>3. QED
      BY <1>4, <2>2, <3>1, <3>2 DEF Inv, Owned
  <2>3. QED
    BY <1>0, <1>4, <1>5, <2>1, <2>2 DEF Owned
<1>8. QED
  BY <1>6, <1>7

\* A handshake that fails leaves its child told to end and its pair with none.
LEMMA HandshakeFailsBound ==
  ASSUME Inv, TypeOK', NEW c \in Children, HandshakeFails(c)
  PROVE  Bound' /\ Owned'
<1>. DEFINE k == session[c].key
<1>0. /\ session \in [Children -> Session] /\ session[c] \in Session
      /\ spawning \in [Keys -> Maybe] /\ entries \in [Keys -> Maybe]
      /\ session[c].phase \in Handshake /\ k \in Keys
      /\ spawning[k] = c /\ entries[k] = None
      /\ spawning' = [spawning EXCEPT ![k] = None] /\ spawned' = spawned /\ entries' = entries
      /\ session' = [session EXCEPT ![c] = Failed(@)]
  BY MaybeType DEF Inv, TypeOK, Owned, Bound, HandshakeFails, Handshake
<1>1. /\ session'[c].key = k /\ session'[c].phase = "failed" /\ session'[c].killed
      /\ session'[c].closed = session[c].closed /\ session'[c].exited = session[c].exited
      /\ session'[c].byBridge = session[c].byBridge /\ session'[c].flushed = session[c].flushed
  BY <1>0 DEF Failed, Session
<1>2. \A d \in Children : d # c => session'[d] = session[d]
  BY <1>0
<1>3. "failed" \notin Handshake /\ "up" \notin Handshake /\ "unborn" \notin Handshake
  BY DEF Handshake
<1>4. Bound'
  <2>. SUFFICES ASSUME NEW j \in Keys
       PROVE  /\ spawning'[j] # None => /\ session'[spawning'[j]].key = j
                                        /\ session'[spawning'[j]].phase \in Handshake
                                        /\ entries[j] = None
              /\ entries[j] # None => /\ session'[entries[j]].key = j
                                      /\ session'[entries[j]].phase = "up"
    BY <1>0 DEF Bound
  <2>1. CASE j = k
    BY <1>0, <2>1
  <2>2. CASE j # k
    <3>1. spawning'[j] = spawning[j]
      BY <1>0, <2>2
    <3>2. spawning[j] # None => spawning[j] \in Children /\ spawning[j] # c
      BY <1>0, <2>2, MaybeType DEF Inv, Bound
    <3>3. entries[j] # None => entries[j] \in Children /\ entries[j] # c
      BY <1>0, <1>3, MaybeType DEF Inv, Bound
    <3>4. QED
      BY <1>2, <3>1, <3>2, <3>3 DEF Inv, Bound
  <2>3. QED
    BY <2>1, <2>2
<1>5. Owned'
  <2>1. ~ spawned < c
    BY <1>0, <1>3 DEF Inv, Owned
  <2>2. ASSUME NEW d \in Children, d # c, session[d].phase \in Handshake
        PROVE  spawning'[session[d].key] = d
    <3>1. session[d].key \in Keys /\ spawning[session[d].key] = d
      BY <1>3, <2>2 DEF Inv, Owned
    <3>2. QED
      BY <1>0, <2>2, <3>1
  <2>3. QED
    BY <1>0, <1>1, <1>2, <1>3, <2>1, <2>2 DEF Inv, Owned
<1>6. QED
  BY <1>4, <1>5

\* Dropping a session is gentle when the session is stale.
LEMMA DropStaleIsGentle ==
  ASSUME Inv, NEW k \in Keys, DropStale(k), ~ HasSession(k),
         UNCHANGED <<spawning, spawned, session>>
  PROVE  Gentle
<1>1. entries \in [Keys -> Maybe]
  BY DEF Inv, TypeOK
<1>2. \A j \in Keys : entries'[j] = entries[j] \/ (j = k /\ entries'[j] = None)
  BY <1>1 DEF DropStale
<1>3. ASSUME NEW c \in Children, entries[k] = c
      PROVE  session[c].killed \/ session[c].exited \/ session[c].aborted
  BY <1>3, MaybeType DEF HasSession, Usable, Inv, Owned
<1>4. QED
  BY <1>2, <1>3 DEF Inv, Owned, Gentle, GentleTo

\* A new child is the one its pair, which has no session, waits for.
LEMMA SpawnBound ==
  ASSUME Inv, TypeOK', NEW p \in Prompts, PromptSpawns(p)
  PROVE  Bound' /\ Owned'
<1>. DEFINE k == KeyOf[p]
            c == spawned + 1
            new == [Unborn EXCEPT !.key = k, !.revision = revision[AgentOf[k]], !.phase = "init"]
<1>0. /\ session \in [Children -> Session]
      /\ spawning \in [Keys -> Maybe] /\ entries \in [Keys -> Maybe]
      /\ spawned \in Nat /\ c \in Children /\ k \in Keys /\ c # None
  BY SMTT(30), SessionAssumption DEF Inv, TypeOK, PromptSpawns, Children, None
<1>1. /\ ~ HasSession(k) /\ DropStale(k)
      /\ spawning[k] = None /\ spawning' = [spawning EXCEPT ![k] = c]
      /\ spawned' = c /\ session' = [session EXCEPT ![c] = new]
  BY DEF PromptSpawns
<1>2. /\ new.key = k /\ new.phase = "init" /\ ~ new.closed /\ ~ new.byBridge
  BY DEF Unborn
<1>. HIDE DEF new
<1>3. session[c].phase = "unborn"
  BY <1>0 DEF Inv, Owned
<1>4. "init" \in Handshake /\ "unborn" \notin Handshake
  BY DEF Handshake
<1>5. entries'[k] = None /\ \A j \in Keys : j # k => entries'[j] = entries[j]
  BY <1>0, <1>1 DEF DropStale
<1>6. ASSUME NEW d \in Children, entries[k] = d
      PROVE  session[d].killed \/ session[d].exited \/ session[d].aborted
  BY <1>1, <1>6, MaybeType DEF HasSession, Usable, Inv, Owned
<1>7. \A d \in Children : d # c => session'[d] = session[d]
  BY <1>0, <1>1
<1>8. session'[c] = new
  BY <1>0, <1>1
<1>9. Bound'
  <2>. SUFFICES ASSUME NEW j \in Keys
       PROVE  /\ spawning'[j] # None => /\ session'[spawning'[j]].key = j
                                        /\ session'[spawning'[j]].phase \in Handshake
                                        /\ entries'[j] = None
              /\ entries'[j] # None => /\ session'[entries'[j]].key = j
                                       /\ session'[entries'[j]].phase = "up"
    BY DEF Bound
  <2>1. CASE j = k
    BY <1>0, <1>1, <1>2, <1>4, <1>5, <1>8, <2>1
  <2>2. CASE j # k
    <3>1. spawning'[j] = spawning[j] /\ entries'[j] = entries[j]
      BY <1>0, <1>1, <1>5, <2>2
    <3>2. spawning[j] # None => spawning[j] \in Children /\ spawning[j] # c
      BY <1>0, <1>3, <1>4, MaybeType DEF Inv, Bound
    <3>3. entries[j] # None => entries[j] \in Children /\ entries[j] # c
      BY <1>0, <1>3, MaybeType DEF Inv, Bound
    <3>4. QED
      BY <1>7, <3>1, <3>2, <3>3 DEF Inv, Bound
  <2>3. QED
    BY <2>1, <2>2
<1>10. Owned'
  <2>1. ASSUME NEW d \in Children, d # c, session[d].phase \in Handshake
        PROVE  spawning'[session[d].key] = d
    <3>1. session[d].key \in Keys /\ spawning[session[d].key] = d
      BY <1>4, <2>1 DEF Inv, Owned
    <3>2. d # None
      BY MaybeType
    <3>3. QED
      BY <1>0, <1>1, <3>1, <3>2
  <2>2. ASSUME NEW d \in Children, d # c, session[d].phase = "up"
        PROVE  \/ entries'[session[d].key] = d
               \/ session[d].killed \/ session[d].exited \/ session[d].aborted
    BY <1>5, <1>6, <2>2 DEF Inv, Owned
  <2>3. ASSUME NEW d \in Children, c < d
        PROVE  session'[d].phase = "unborn"
    <3>1. d # c /\ spawned < d
      BY <1>0, <2>3 DEF Children
    <3>2. QED
      BY <1>7, <3>1 DEF Inv, Owned
  <2>4. ~ c < c /\ spawning'[k] = c
    BY <1>0, <1>1
  <2>5. QED
    BY <1>0, <1>1, <1>2, <1>4, <1>7, <1>8, <2>1, <2>2, <2>3, <2>4 DEF Inv, Owned
<1>11. QED
  BY <1>9, <1>10

\* A bridge that restarts owns nothing of what it had.
LEMMA RestartBound ==
  ASSUME Inv, TypeOK', BridgeRestarts
  PROVE  Bound' /\ Owned' /\ TurnsAreUp'
<1>1. Bound'
  BY DEF BridgeRestarts, Bound
<1>2. ASSUME NEW c \in Children
      PROVE  /\ session'[c].phase \in {"unborn", "failed", "gone"}
             /\ session[c].phase = "unborn" => session'[c].phase = "unborn"
             /\ session'[c].phase # "unborn" => session[c].phase # "unborn"
             /\ session'[c].key = session[c].key
             /\ session'[c].phase = "failed" => session'[c].killed
             /\ session[c].killed => session'[c].killed
             /\ session'[c].closed = session[c].closed /\ session'[c].exited = session[c].exited
             /\ session'[c].byBridge = session[c].byBridge
             /\ session'[c].flushed = session[c].flushed
  <2>0. session[c] \in Session
    BY DEF Inv, TypeOK
  <2>1. CASE session[c].phase = "up"
    <3>1. session'[c] = [session[c] EXCEPT !.phase = "gone"]
      BY <2>1 DEF BridgeRestarts, Handshake
    <3>2. QED
      BY <2>0, <2>1, <3>1 DEF Session
  <2>2. CASE session[c].phase \in Handshake
    <3>1. session'[c] = Failed(session[c])
      BY <2>2 DEF BridgeRestarts, Handshake
    <3>2. QED
      BY <2>0, <2>2, <3>1 DEF Failed, Session, Handshake
  <2>3. CASE session[c].phase \notin Handshake \cup {"up"}
    <3>1. session'[c] = session[c]
      BY <2>3 DEF BridgeRestarts
    <3>2. QED
      BY <2>0, <2>3, <3>1 DEF Session, Inv, Owned
  <2>4. QED
    BY <2>1, <2>2, <2>3
<1>3. spawned' = spawned /\ Handshake \cap {"unborn", "failed", "gone"} = {}
  BY DEF BridgeRestarts, Handshake
<1>4. Owned'
  BY <1>2, <1>3 DEF Inv, Owned
<1>5. TurnsAreUp'
  BY DEF BridgeRestarts, TurnsAreUp, Idle
<1>6. QED
  BY <1>1, <1>4, <1>5

-----------------------------------------------------------------------------
(* The invariant.                                                          *)

\* Turns that do not change stay on sessions that started.
LEMMA SameTurns ==
  ASSUME Inv, turn' = turn,
         \A c \in Children : session[c].phase = "up" => session'[c].phase = "up"
  PROVE  TurnsAreUp'
BY DEF Inv, TurnsAreUp

\* A queue runs an item only on a session that started.
LEMMA TurnsStayUp ==
  ASSUME Inv, NEW c \in Children, TurnStep(c)
  PROVE  TurnsAreUp'
<1>0. turn \in [Children -> Turn] /\ turn[c] \in Turn
  BY DEF Inv, TypeOK
<1>1. \A d \in Children : session'[d].phase = session[d].phase \/ session[d].phase # "up"
  BY TurnIsGentle DEF Gentle, GentleTo, Handshake
<1>2. Takes(c) => Front(c).prompt \in Prompts /\ session[c].phase = "up"
  <2>. SUFFICES ASSUME Takes(c)
                PROVE  Head(queue[c]).prompt \in Prompts /\ session[c].phase = "up"
    BY DEF Front
  <2>1. queue[c] \in Seq(QueueItem)
    BY DEF Inv, TypeOK
  <2>2. queue[c] # <<>> /\ session[c].phase = "up"
    BY DEF Takes
  <2>3. Head(queue[c]) \in QueueItem
    BY <2>1, <2>2
  <2>4. QED
    BY <2>2, <2>3 DEF QueueItem
<1>3. \/ turn' = turn
      \/ turn' = [turn EXCEPT ![c] = Idle]
      \/ turn[c].stage # "idle" /\ \E st \in Stages : turn' = [turn EXCEPT ![c].stage = st]
      \/ Takes(c) /\ \E st \in Stages :
           turn' = [turn EXCEPT ![c] = [stage |-> st, prompt |-> Front(c).prompt]]
  BY DEF TurnStep, RefuseNext, ReadSummary, SummaryRead, SendTurn, RpcReturns, StartDrain,
    TurnAnswered, AgentFails, ConnectionLost, SlotAnswersTurn, Outgrows, WatchdogFires,
    TurnOver, Runs, Stages
<1>4. \A d \in Children : d # c => turn'[d] = turn[d]
  BY <1>0, <1>3
<1>5. turn'[c].stage # "idle" => session[c].phase = "up" /\ turn'[c].prompt \in Prompts
  <2>1. CASE turn' = turn
    BY <2>1 DEF Inv, TurnsAreUp
  <2>2. CASE turn' = [turn EXCEPT ![c] = Idle]
    BY <1>0, <2>2 DEF Idle
  <2>3. CASE turn[c].stage # "idle" /\ \E st \in Stages : turn' = [turn EXCEPT ![c].stage = st]
    <3>1. turn'[c].prompt = turn[c].prompt
      BY <1>0, <2>3 DEF Turn
    <3>2. QED
      BY <2>3, <3>1 DEF Inv, TurnsAreUp
  <2>4. CASE Takes(c) /\ \E st \in Stages :
               turn' = [turn EXCEPT ![c] = [stage |-> st, prompt |-> Front(c).prompt]]
    BY <1>0, <1>2, <2>4
  <2>5. QED
    BY <1>3, <2>1, <2>2, <2>3, <2>4
<1>6. QED
  BY <1>1, <1>4, <1>5 DEF Inv, TurnsAreUp

\* A gentle step ends no session's phase.
LEMMA GentleKeepsUp ==
  ASSUME Gentle, NEW c \in Children, session[c].phase = "up"
  PROVE  session'[c].phase = "up"
BY DEF Gentle, GentleTo, Handshake

\* The invariant holds initially.
LEMMA InvInit == Init => Inv
<1>. SUFFICES ASSUME Init PROVE Inv
  OBVIOUS
<1>1. Bound
  BY DEF Init, Bound
<1>2. Owned
  BY DEF Init, Owned, Unborn, Handshake
<1>3. TurnsAreUp
  BY DEF Init, TurnsAreUp, Idle
<1>4. QED
  BY <1>1, <1>2, <1>3, TypeInit DEF Inv

\* Every step keeps the invariant.
LEMMA InvStep == Inv /\ [Next]_vars => Inv'
<1>. SUFFICES ASSUME Inv, [Next]_vars PROVE Inv'
  OBVIOUS
<1>0. TypeOK'
  BY TypeStep
<1>1. ASSUME Gentle, turn' = turn PROVE Inv'
  BY <1>0, <1>1, GentleStep, GentleKeepsUp, SameTurns DEF Inv
<1>2. ASSUME UNCHANGED <<entries, spawning, spawned, session, turn>> PROVE Inv'
  BY <1>1, <1>2, UnchangedIsGentle
<1>3. ASSUME NEW p \in Prompts, PromptStep(p) PROVE Inv'
  <2>1. CASE PromptJoinsSpawn(p)
    <3>1. KeyOf[p] \in Keys
      BY SessionAssumption
    <3>2. Gentle /\ turn' = turn
      BY <2>1, <3>1, DropStaleIsGentle DEF PromptJoinsSpawn
    <3>3. QED
      BY <1>1, <3>2
  <2>2. CASE PromptSpawns(p)
    <3>1. \A c \in Children : session[c].phase = "up" => session'[c].phase = "up"
      <4>1. spawned + 1 \in Children /\ spawned < spawned + 1
        BY <2>2, SessionAssumption DEF Inv, TypeOK, PromptSpawns, Children
      <4>2. session[spawned + 1].phase = "unborn"
        BY <4>1 DEF Inv, Owned
      <4>3. \A c \in Children : c # spawned + 1 => session'[c] = session[c]
        BY <2>2 DEF PromptSpawns, Inv, TypeOK
      <4>4. QED
        BY <4>2, <4>3
    <3>2. turn' = turn
      BY <2>2 DEF PromptSpawns
    <3>3. QED
      BY <1>0, <2>2, <3>1, <3>2, SpawnBound, SameTurns DEF Inv
  <2>3. CASE ~ PromptJoinsSpawn(p) /\ ~ PromptSpawns(p)
    BY <1>2, <1>3, <2>3 DEF PromptStep, PromptRefused, PromptJoinsSession, SlotAnswersStart,
      PromptAlongside, AlongsideEnds, pool
  <2>4. QED
    BY <2>1, <2>2, <2>3
<1>4. ASSUME NEW c \in Children, HandshakeStep(c) PROVE Inv'
  <2>1. CASE HandshakeDone(c)
    <3>1. PICK V \in SUBSET Keys : MapsInPlaceOf(c, V)
      BY <2>1, MappedInPlace
    <3>2. ASSUME NEW d \in Children, session[d].phase = "up" PROVE session'[d].phase = "up"
      <4>1. session[d] \in Session
        BY DEF Inv, TypeOK
      <4>2. session'[d] \in {[session[d] EXCEPT !.phase = "up"], Ended(session[d]), session[d]}
        BY <3>1 DEF MapsInPlaceOf
      <4>3. QED
        BY <3>2, <4>1, <4>2 DEF Session, Ended, Kill
    <3>3. turn' = turn
      BY <2>1 DEF HandshakeDone
    <3>4. QED
      BY <1>0, <2>1, <3>2, <3>3, HandshakeDoneBound, SameTurns DEF Inv
  <2>2. CASE HandshakeFails(c)
    <3>1. \A d \in Children : session[d].phase = "up" => session'[d].phase = "up"
      BY <2>2 DEF HandshakeFails, Handshake, Inv, TypeOK
    <3>2. turn' = turn
      BY <2>2 DEF HandshakeFails
    <3>3. QED
      BY <1>0, <2>2, <3>1, <3>2, HandshakeFailsBound, SameTurns DEF Inv
  <2>3. CASE Initialized(c) \/ SessionLoaded(c) \/ LoadFailed(c) \/ SessionCreated(c)
    <3>1. turn' = turn
      BY <2>3 DEF Initialized, SessionLoaded, LoadFailed, SessionCreated
    <3>2. QED
      BY <1>1, <2>3, <3>1, HandshakeIsGentle
  <2>4. QED
    BY <1>4, <2>1, <2>2, <2>3 DEF HandshakeStep
<1>5. ASSUME NEW c \in Children, TurnStep(c) PROVE Inv'
  BY <1>0, <1>5, TurnIsGentle, GentleStep, TurnsStayUp DEF Inv
<1>6. ASSUME NEW c \in Children, ChildStep(c) PROVE Inv'
  <2>1. turn' = turn
    BY <1>6 DEF ChildStep, ConnectionCloses, ChildExits, IdleFires
  <2>2. QED
    BY <1>1, <1>6, <2>1, ChildIsGentle
<1>7. ASSUME NEW a \in Agents, ReloadStep(a) PROVE Inv'
  <2>1. CASE AddAgent(a)
    BY <1>2, <2>1 DEF AddAgent, pool
  <2>2. CASE KillAgentSessions(a)
    <3>1. turn' = turn
      BY <2>2 DEF KillAgentSessions
    <3>2. QED
      BY <1>1, <2>2, <3>1, ReloadIsGentle
  <2>3. QED
    BY <1>7, <2>1, <2>2 DEF ReloadStep, ReplaceAgent, RemoveAgent
<1>8. ASSUME NEW n \in Limits, ApplySession(n) PROVE Inv'
  BY <1>2, <1>8 DEF ApplySession, pool
<1>9. CASE StopStartingTurns
  BY <1>2, <1>9 DEF StopStartingTurns, pool
<1>10. CASE Shutdown
  <2>1. turn' = turn
    BY <1>10 DEF Shutdown
  <2>2. QED
    BY <1>1, <1>10, <2>1, ShutdownIsGentle
<1>11. CASE BridgeRestarts
  BY <1>0, <1>11, RestartBound DEF Inv
<1>12. CASE UNCHANGED vars
  BY <1>2, <1>12 DEF vars, pool
<1>13. QED
  BY <1>3, <1>4, <1>5, <1>6, <1>7, <1>8, <1>9, <1>10, <1>11, <1>12 DEF Next

\* Every reachable state satisfies the invariant.
THEOREM Invariance == Spec => []Inv
BY InvInit, InvStep, PTL DEF Spec

-----------------------------------------------------------------------------
(* What follows from the invariant.                                        *)

\* The variables keep their types.
THEOREM TypeCorrect == Spec => []TypeOK
BY Invariance, PTL DEF Inv

\* No child is leaked, whatever the pairs, the prompts and their order: a child
\* nobody told to end is the one its pair waits for or is mapped to.
THEOREM NoOrphans == Spec => []NoOrphanChild
<1>1. Inv => NoOrphanChild
  <2>. SUFFICES ASSUME Inv, NEW c \in Children, Alive(c), ~ session[c].killed
                PROVE  \/ spawning[session[c].key] = c
                       \/ entries[session[c].key] = c
    BY DEF NoOrphanChild
  <2>1. session[c] \in Session
    BY DEF Inv, TypeOK
  <2>2. session[c].phase \in Handshake \cup {"up", "failed"}
    BY <2>1 DEF Session, Alive
  <2>3. session[c].phase # "failed"
    BY DEF Inv, Owned
  <2>4. ~ session[c].exited /\ ~ session[c].aborted
    BY DEF Alive
  <2>5. QED
    BY <2>2, <2>3, <2>4 DEF Inv, Owned
<1>2. QED
  BY <1>1, Invariance, PTL

\* Which step sends a prompt: the head of a queue that does not refuse, or one
\* alongside a turn of a session in use.
LEMMA WhoSends ==
  ASSUME Inv, [Next]_vars, NEW p \in Prompts,
         prompt'[p].at \in {"sent", "alongside"}, prompt'[p].at # prompt[p].at
  PROVE  \/ \E c \in Children : SendTurn(c) /\ Front(c).prompt = p /\ prompt'[p].on = c
                                                           /\ prompt'[p].at = "sent"
         \/ PromptAlongside(p) /\ prompt'[p].at = "alongside"
                              /\ prompt'[p].on = entries[KeyOf[p]]
<1>0. prompt \in [Prompts -> Call]
  BY DEF Inv, TypeOK
<1>1. prompt' # prompt
  OBVIOUS
<1>2. ASSUME NEW q, NEW outcome \in Outcomes, Settle(q, outcome)
      PROVE  FALSE
  BY <1>0, <1>2 DEF Settle, Outcomes
<1>3. ASSUME NEW q \in Prompts, PromptStep(q)
      PROVE  q = p /\ PromptAlongside(p) /\ prompt'[p].at = "alongside"
                   /\ prompt'[p].on = entries[KeyOf[p]]
  <2>1. CASE PromptAlongside(q)
    BY <1>0, <2>1 DEF PromptAlongside
  <2>2. CASE PromptJoinsSession(q) \/ PromptJoinsSpawn(q) \/ PromptSpawns(q)
    <3>1. ASSUME NEW c, Enqueue(q, c) PROVE FALSE
      <4>1. prompt' = [prompt EXCEPT ![q] = [at |-> "queued", on |-> c]]
        BY <3>1 DEF Enqueue
      <4>2. QED
        BY <1>0, <4>1
    <3>2. QED
      BY <2>2, <3>1 DEF PromptJoinsSession, PromptJoinsSpawn, PromptSpawns
  <2>3. CASE PromptRefused(q) \/ SlotAnswersStart(q) \/ AlongsideEnds(q)
    BY <1>2, <2>3 DEF PromptRefused, SlotAnswersStart, AlongsideEnds, Outcomes
  <2>4. QED
    BY <1>3, <2>1, <2>2, <2>3 DEF PromptStep
<1>4. ASSUME NEW c \in Children, HandshakeStep(c)
      PROVE  FALSE
  <2>1. CASE HandshakeFails(c)
    BY <1>0, <2>1 DEF HandshakeFails
  <2>2. QED
    BY <1>1, <1>4, <2>1 DEF HandshakeStep, Initialized, SessionLoaded, LoadFailed,
      SessionCreated, HandshakeDone
<1>5. ASSUME NEW c \in Children, TurnStep(c)
      PROVE  SendTurn(c) /\ Front(c).prompt = p /\ prompt'[p].on = c /\ prompt'[p].at = "sent"
  <2>1. CASE SendTurn(c)
    BY <1>0, <2>1 DEF SendTurn
  <2>2. CASE RefuseNext(c) \/ TurnAnswered(c) \/ AgentFails(c) \/ ConnectionLost(c)
             \/ SlotAnswersTurn(c) \/ Outgrows(c) \/ WatchdogFires(c)
    BY <1>1, <1>2, <2>2 DEF RefuseNext, Refusal, TurnAnswered, AgentFails, ConnectionLost,
      SlotAnswersTurn, Outgrows, WatchdogFires, TurnOver, Outcomes
  <2>3. CASE SummaryRead(c)
    <3>1. CASE prompt' = [prompt EXCEPT ![turn[c].prompt] = [at |-> "again", on |-> None]]
      BY <1>0, <3>1
    <3>2. QED
      BY <1>1, <2>3, <3>1 DEF SummaryRead
  <2>4. QED
    BY <1>1, <1>5, <2>1, <2>2, <2>3 DEF TurnStep, ReadSummary, RpcReturns, StartDrain
<1>6. ASSUME BridgeRestarts
      PROVE  FALSE
  BY <1>0, <1>6 DEF BridgeRestarts
<1>7. QED
  BY <1>1, <1>3, <1>4, <1>5, <1>6 DEF Next, ChildStep, ConnectionCloses, ChildExits, IdleFires,
    ReloadStep, ReplaceAgent, RemoveAgent, KillAgentSessions, AddAgent, ApplySession,
    StopStartingTurns, Shutdown, vars

\* A session the bridge ended is sent nothing more, by any order of an eviction,
\* a reload, a watchdog, an idle timer and the prompts queued before or after.
THEOREM EndedIsSentNothing == Spec => EndedSessionIsSentNothing
<1>1. ASSUME Inv, [Next]_vars, NEW p \in Prompts,
             prompt'[p].at \in {"sent", "alongside"}, prompt'[p].at # prompt[p].at
      PROVE  ~ session[prompt'[p].on].byBridge
  <2>1. CASE \E c \in Children : SendTurn(c) /\ prompt'[p].on = c
    BY <1>1, <2>1 DEF SendTurn, Inv, Owned
  <2>2. CASE PromptAlongside(p) /\ prompt'[p].on = entries[KeyOf[p]]
    BY <2>2 DEF PromptAlongside, HasSession, Usable
  <2>3. QED
    BY <1>1, <2>1, <2>2, WhoSends
<1>2. Inv /\ [Next]_vars =>
        [\A p \in Prompts :
           prompt'[p].at \in {"sent", "alongside"} /\ prompt'[p].at # prompt[p].at
             => ~ session[prompt'[p].on].byBridge]_vars
  BY <1>1
<1>3. QED
  BY <1>2, Invariance, PTL DEF Spec, EndedSessionIsSentNothing

\* Once the bridge stops starting turns it sends no prompt that opens one,
\* however long ago it was queued.
THEOREM NoTurnWhileStopping == Spec => StoppingStartsNoTurn
<1>1. ASSUME Inv, [Next]_vars, NEW p \in Prompts,
             prompt'[p].at = "sent", prompt[p].at # "sent", Opens[p]
      PROVE  ~ stopping
  <2>1. PICK c \in Children : SendTurn(c) /\ Front(c).prompt = p
    BY <1>1, WhoSends
  <2>2. QED
    BY <1>1, <2>1 DEF SendTurn, TooLate
<1>2. Inv /\ [Next]_vars =>
        [\A p \in Prompts :
           prompt'[p].at = "sent" /\ prompt[p].at # "sent" /\ Opens[p] => ~ stopping]_vars
  BY <1>1
<1>3. QED
  BY <1>2, Invariance, PTL DEF Spec, StoppingStartsNoTurn

-----------------------------------------------------------------------------
(* Where a prompt is: the queues, the turns and the state of the calls.    *)

\* The prompts a queue holds.
OnQueue(q) == {q[i].prompt : i \in 1 .. Len(q)}

\* No prompt is on it twice.
Distinct(q) == \A i, j \in 1 .. Len(q) : q[i].prompt = q[j].prompt => i = j

\* A prompt is on child c, waiting in its queue or running from it and not
\* both, exactly while its call says so.
PlacedAt(c, p) ==
  /\ p \in OnQueue(queue[c]) => prompt[p].at = "queued" /\ turn[c].prompt # p
  /\ turn[c].prompt = p =>
       prompt[p].at = (IF turn[c].stage = "reading" THEN "queued" ELSE "sent")
  /\ p \in OnQueue(queue[c]) \/ turn[c].prompt = p <=>
       prompt[p].at \in {"queued", "sent"} /\ prompt[p].on = c

Places ==
  \A c \in Children :
    /\ Distinct(queue[c])
    /\ turn[c].stage = "idle" => turn[c].prompt = None
    /\ \A p \in Prompts : PlacedAt(c, p)

\* What adding an item to a queue does to the prompts it holds.
LEMMA AppendItem ==
  ASSUME NEW q \in Seq(QueueItem), NEW x \in QueueItem
  PROVE  /\ OnQueue(Append(q, x)) = OnQueue(q) \cup {x.prompt}
         /\ Distinct(q) /\ x.prompt \notin OnQueue(q) => Distinct(Append(q, x))
<1>1. /\ Len(Append(q, x)) = Len(q) + 1 /\ Len(q) \in Nat
      /\ \A i \in 1 .. Len(q) : Append(q, x)[i] = q[i]
      /\ Append(q, x)[Len(q) + 1] = x
  OBVIOUS
<1>2. 1 .. Len(q) + 1 = (1 .. Len(q)) \cup {Len(q) + 1}
  BY <1>1
<1>3. OnQueue(Append(q, x)) = OnQueue(q) \cup {x.prompt}
  BY <1>1, <1>2 DEF OnQueue
<1>4. ASSUME Distinct(q), x.prompt \notin OnQueue(q)
      PROVE  Distinct(Append(q, x))
  <2>1. \A i \in 1 .. Len(q) : q[i].prompt # x.prompt
    BY <1>4 DEF OnQueue
  <2>2. QED
    BY <1>1, <1>2, <1>4, <2>1 DEF Distinct
<1>5. QED
  BY <1>3, <1>4

\* What taking the first item does.
LEMMA TakeItem ==
  ASSUME NEW q \in Seq(QueueItem), q # <<>>, Distinct(q)
  PROVE  /\ Head(q) \in QueueItem /\ Head(q).prompt \in OnQueue(q)
         /\ OnQueue(Tail(q)) = OnQueue(q) \ {Head(q).prompt}
         /\ Distinct(Tail(q))
<1>1. /\ Len(q) \in Nat /\ Len(q) >= 1 /\ Len(Tail(q)) = Len(q) - 1
      /\ \A i \in 1 .. Len(q) - 1 : Tail(q)[i] = q[i + 1]
      /\ Head(q) = q[1] /\ q[1] \in QueueItem
  OBVIOUS
<1>2. Head(q).prompt \in OnQueue(q)
  BY <1>1 DEF OnQueue
<1>3. OnQueue(Tail(q)) = OnQueue(q) \ {Head(q).prompt}
  <2>1. ASSUME NEW i \in 1 .. Len(Tail(q))
        PROVE  Tail(q)[i].prompt \in OnQueue(q) \ {Head(q).prompt}
    <3>1. i + 1 \in 1 .. Len(q) /\ i + 1 # 1 /\ Tail(q)[i] = q[i + 1] /\ 1 \in 1 .. Len(q)
      BY <1>1
    <3>2. q[i + 1].prompt # q[1].prompt
      BY <3>1 DEF Distinct
    <3>3. QED
      BY <1>1, <3>1, <3>2 DEF OnQueue
  <2>2. ASSUME NEW i \in 1 .. Len(q), q[i].prompt # Head(q).prompt
        PROVE  q[i].prompt \in OnQueue(Tail(q))
    <3>1. i # 1
      BY <1>1, <2>2
    <3>2. i - 1 \in 1 .. Len(Tail(q)) /\ Tail(q)[i - 1] = q[i]
      BY <1>1, <3>1
    <3>3. QED
      BY <3>2 DEF OnQueue
  <2>3. QED
    BY <2>1, <2>2 DEF OnQueue
<1>4. Distinct(Tail(q))
  <2>. SUFFICES ASSUME NEW i \in 1 .. Len(Tail(q)), NEW j \in 1 .. Len(Tail(q)),
                       Tail(q)[i].prompt = Tail(q)[j].prompt
                PROVE  i = j
    BY DEF Distinct
  <2>1. /\ i + 1 \in 1 .. Len(q) /\ j + 1 \in 1 .. Len(q)
        /\ Tail(q)[i] = q[i + 1] /\ Tail(q)[j] = q[j + 1]
    BY <1>1
  <2>2. i + 1 = j + 1
    BY <2>1 DEF Distinct
  <2>3. QED
    BY <2>2
<1>5. QED
  BY <1>1, <1>2, <1>3, <1>4

\* An empty queue holds nothing.
LEMMA EmptyQueue == OnQueue(<<>>) = {} /\ Distinct(<<>>)
BY DEF OnQueue, Distinct

\* A step that moves one prompt, on one child or off it, is to be looked at for
\* that prompt on that child only.
LEMMA OneMoves ==
  ASSUME Places, NEW c \in Children, NEW p \in Prompts,
         \A d \in Children \ {c} : queue'[d] = queue[d] /\ turn'[d] = turn[d],
         \A q \in Prompts \ {p} : prompt'[q] = prompt[q],
         prompt[p].at \in {"queued", "sent"} => prompt[p].on = c,
         prompt'[p].at \in {"queued", "sent"} => prompt'[p].on = c,
         Distinct(queue'[c]), turn'[c].stage = "idle" => turn'[c].prompt = None,
         \A q \in Prompts \ {p} : /\ q \in OnQueue(queue'[c]) <=> q \in OnQueue(queue[c])
                                  /\ turn'[c].prompt = q <=> turn[c].prompt = q
                                  /\ turn[c].prompt = q => turn'[c].stage = turn[c].stage,
         PlacedAt(c, p)'
  PROVE  Places'
<1>1. ASSUME NEW d \in Children, d # c
      PROVE  /\ Distinct(queue'[d])
             /\ turn'[d].stage = "idle" => turn'[d].prompt = None
             /\ \A q \in Prompts : PlacedAt(d, q)'
  <2>1. queue'[d] = queue[d] /\ turn'[d] = turn[d]
    BY <1>1
  <2>2. PlacedAt(d, p)'
    <3>1. PlacedAt(d, p)
      BY DEF Places
    <3>2. ~ (prompt[p].at \in {"queued", "sent"} /\ prompt[p].on = d)
      BY <1>1
    <3>3. ~ (prompt'[p].at \in {"queued", "sent"} /\ prompt'[p].on = d)
      BY <1>1
    <3>4. p \notin OnQueue(queue[d]) /\ turn[d].prompt # p
      BY <3>1, <3>2 DEF PlacedAt
    <3>5. p \notin OnQueue(queue'[d]) /\ turn'[d].prompt # p
      BY <2>1, <3>4
    <3>6. QED
      BY <3>3, <3>5 DEF PlacedAt
  <2>3. ASSUME NEW q \in Prompts, q # p PROVE PlacedAt(d, q)'
    <3>1. prompt'[q] = prompt[q]
      BY <2>3
    <3>2. PlacedAt(d, q)
      BY DEF Places
    <3>3. QED
      BY <2>1, <3>1, <3>2 DEF PlacedAt
  <2>4. QED
    BY <2>1, <2>2, <2>3 DEF Places
<1>2. ASSUME NEW q \in Prompts, q # p PROVE PlacedAt(c, q)'
  <2>1. /\ prompt'[q] = prompt[q]
        /\ q \in OnQueue(queue'[c]) <=> q \in OnQueue(queue[c])
        /\ turn'[c].prompt = q <=> turn[c].prompt = q
        /\ turn[c].prompt = q => turn'[c].stage = turn[c].stage
    BY <1>2
  <2>2. PlacedAt(c, q)
    BY DEF Places
  <2>3. QED
    BY <2>1, <2>2 DEF PlacedAt
<1>3. QED
  BY <1>1, <1>2 DEF Places

\* A step that moves no prompt onto a child or off it changes none of this.
LEMMA NoneMoves ==
  ASSUME Places, queue' = queue, turn' = turn, NEW p \in Prompts,
         \A q \in Prompts \ {p} : prompt'[q] = prompt[q],
         prompt'[p] = prompt[p] \/ /\ prompt[p].at \notin {"queued", "sent"}
                                   /\ prompt'[p].at \notin {"queued", "sent"}
  PROVE  Places'
<1>1. ASSUME NEW c \in Children, NEW q \in Prompts PROVE PlacedAt(c, q)'
  <2>1. PlacedAt(c, q)
    BY DEF Places
  <2>2. QED
    BY <2>1 DEF PlacedAt
<1>2. QED
  BY <1>1 DEF Places

\* A call that has a session or a spawn to wait for is put in its queue.
LEMMA EnqueuePlaces ==
  ASSUME Inv, Places, NEW p \in Prompts, NEW c \in Children,
         Called(p), Enqueue(p, c), turn' = turn
  PROVE  Places'
<1>0. /\ queue \in [Children -> Seq(QueueItem)] /\ prompt \in [Prompts -> Call]
      /\ queue[c] \in Seq(QueueItem)
  BY DEF Inv, TypeOK
<1>1. Item(p) \in QueueItem /\ Item(p).prompt = p
  BY DEF Item, QueueItem
<1>2. prompt[p].at \notin {"queued", "sent"}
  BY DEF Called
<1>3. p \notin OnQueue(queue[c]) /\ turn[c].prompt # p
  BY <1>2 DEF Places, PlacedAt
<1>4. /\ queue'[c] = Append(queue[c], Item(p))
      /\ prompt'[p].at = "queued" /\ prompt'[p].on = c
      /\ \A q \in Prompts \ {p} : prompt'[q] = prompt[q]
      /\ \A d \in Children \ {c} : queue'[d] = queue[d]
  BY <1>0 DEF Enqueue
<1>5. OnQueue(queue'[c]) = OnQueue(queue[c]) \cup {p} /\ Distinct(queue'[c])
  BY <1>0, <1>1, <1>3, <1>4, AppendItem DEF Places
<1>6. PlacedAt(c, p)'
  BY <1>3, <1>4, <1>5 DEF PlacedAt
<1>7. turn'[c].stage = "idle" => turn'[c].prompt = None
  BY DEF Places
<1>8. QED
  BY <1>2, <1>4, <1>5, <1>6, <1>7, OneMoves

\* The calls of prompt() and promptAlongside() keep the places.
LEMMA PromptPlaces ==
  ASSUME Inv, Places, NEW p \in Prompts, PromptStep(p)
  PROVE  Places'
<1>0. prompt \in [Prompts -> Call] /\ KeyOf[p] \in Keys
  BY SessionAssumption DEF Inv, TypeOK
<1>1. CASE PromptJoinsSession(p)
  <2>1. entries[KeyOf[p]] \in Children
    BY <1>0, <1>1, MaybeType DEF PromptJoinsSession, HasSession, Inv, TypeOK
  <2>2. QED
    BY <1>1, <2>1, EnqueuePlaces DEF PromptJoinsSession, Admitted
<1>2. CASE PromptJoinsSpawn(p)
  <2>1. spawning[KeyOf[p]] \in Children
    BY <1>0, <1>2, MaybeType DEF PromptJoinsSpawn, Inv, TypeOK
  <2>2. QED
    BY <1>2, <2>1, EnqueuePlaces DEF PromptJoinsSpawn, Admitted
<1>3. CASE PromptSpawns(p)
  <2>1. spawned + 1 \in Children
    BY <1>3, SessionAssumption DEF PromptSpawns, Inv, TypeOK, Children
  <2>2. QED
    BY <1>3, <2>1, EnqueuePlaces DEF PromptSpawns, Admitted
<1>4. CASE PromptRefused(p) \/ SlotAnswersStart(p) \/ AlongsideEnds(p)
  <2>1. /\ prompt[p].at \notin {"queued", "sent"}
        /\ queue' = queue /\ turn' = turn
        /\ \E outcome \in Outcomes : Settle(p, outcome)
    BY <1>4 DEF PromptRefused, Called, SlotAnswersStart, AlongsideEnds, Outcomes
  <2>2. /\ prompt'[p].at \notin {"queued", "sent"}
        /\ \A q \in Prompts \ {p} : prompt'[q] = prompt[q]
    BY <1>0, <2>1 DEF Settle, Outcomes
  <2>3. QED
    BY <2>1, <2>2, NoneMoves
<1>5. CASE PromptAlongside(p)
  <2>1. /\ prompt[p].at \notin {"queued", "sent"}
        /\ prompt'[p].at \notin {"queued", "sent"}
        /\ queue' = queue /\ turn' = turn
        /\ \A q \in Prompts \ {p} : prompt'[q] = prompt[q]
    BY <1>0, <1>5 DEF PromptAlongside
  <2>2. QED
    BY <2>1, NoneMoves
<1>6. QED
  BY <1>1, <1>2, <1>3, <1>4, <1>5 DEF PromptStep

\* The turn of a child ends, and with it the prompt it was running.
LEMMA TurnOverPlaces ==
  ASSUME Inv, Places, NEW c \in Children, turn[c].stage # "idle",
         queue' = queue, turn' = [turn EXCEPT ![c] = Idle],
         NEW outcome \in Outcomes \cup {"again"}, Settle(turn[c].prompt, outcome)
  PROVE  Places'
<1>0. /\ prompt \in [Prompts -> Call] /\ turn \in [Children -> Turn]
      /\ turn[c].prompt \in Prompts
  BY DEF Inv, TypeOK, TurnsAreUp
<1>. PICK p \in Prompts : p = turn[c].prompt
  BY <1>0
<1>1. /\ prompt[p].at \in {"queued", "sent"} /\ prompt[p].on = c
      /\ p \notin OnQueue(queue[c])
  BY <1>0 DEF Places, PlacedAt
<1>2. /\ prompt'[p].at = outcome
      /\ \A q \in Prompts \ {p} : prompt'[q] = prompt[q]
      /\ turn'[c].stage = "idle" /\ turn'[c].prompt = None
      /\ \A d \in Children \ {c} : turn'[d] = turn[d]
  BY <1>0 DEF Settle, Idle
<1>3. None \notin Prompts /\ outcome \notin {"queued", "sent"}
  BY SessionAssumption DEF Outcomes
<1>4. \A q \in Prompts \ {p} : ~ turn'[c].prompt = q /\ ~ turn[c].prompt = q
  BY <1>2, <1>3
<1>5. /\ p \notin OnQueue(queue'[c]) /\ turn'[c].prompt # p
      /\ prompt'[p].at \notin {"queued", "sent"}
  BY <1>0, <1>1, <1>2, <1>3
<1>6. PlacedAt(c, p)'
  BY <1>5 DEF PlacedAt
<1>7. Distinct(queue'[c])
  BY DEF Places
<1>8. /\ \A d \in Children \ {c} : queue'[d] = queue[d] /\ turn'[d] = turn[d]
      /\ \A q \in Prompts \ {p} : q \in OnQueue(queue'[c]) <=> q \in OnQueue(queue[c])
  BY <1>2
<1>9. QED
  BY <1>0, <1>1, <1>2, <1>4, <1>5, <1>6, <1>7, <1>8, OneMoves

\* The turn of a child goes on, past the point where its prompt was sent.
LEMMA StagePlaces ==
  ASSUME Inv, Places, NEW c \in Children, turn[c].stage \notin {"idle", "reading"},
         queue' = queue, prompt' = prompt,
         NEW stage \in Stages \ {"idle", "reading"},
         turn' = [turn EXCEPT ![c].stage = stage]
  PROVE  Places'
<1>0. turn \in [Children -> Turn] /\ turn[c].prompt \in Prompts
  BY DEF Inv, TypeOK, TurnsAreUp
<1>1. /\ turn'[c].stage = stage /\ turn'[c].prompt = turn[c].prompt
      /\ \A d \in Children \ {c} : turn'[d] = turn[d]
  BY <1>0 DEF Turn
<1>2. PlacedAt(c, turn[c].prompt)
  BY <1>0 DEF Places
<1>3. PlacedAt(c, turn[c].prompt)'
  BY <1>1, <1>2 DEF PlacedAt
<1>4. ASSUME NEW d \in Children, NEW q \in Prompts PROVE PlacedAt(d, q)'
  <2>1. CASE d = c
    <3>1. PlacedAt(c, q)
      BY DEF Places
    <3>2. QED
      BY <1>1, <2>1, <3>1 DEF PlacedAt
  <2>2. CASE d # c
    <3>1. PlacedAt(d, q) /\ turn'[d] = turn[d]
      BY <1>1, <2>2 DEF Places
    <3>2. QED
      BY <3>1 DEF PlacedAt
  <2>3. QED
    BY <2>1, <2>2
<1>5. \A d \in Children : Distinct(queue'[d]) /\ (turn'[d].stage = "idle" => turn'[d].prompt = None)
  BY <1>1 DEF Places
<1>6. QED
  BY <1>4, <1>5 DEF Places

\* A queue that may take an item holds one, on a child that runs none.
LEMMA WhatIsTaken ==
  ASSUME Inv, Places, NEW c \in Children, Takes(c)
  PROVE  /\ queue[c] \in Seq(QueueItem) /\ queue[c] # <<>> /\ Distinct(queue[c])
         /\ turn[c].prompt = None
         /\ Front(c).prompt \in Prompts /\ Front(c).prompt \in OnQueue(queue[c])
         /\ prompt[Front(c).prompt].at = "queued" /\ prompt[Front(c).prompt].on = c
         /\ OnQueue(Tail(queue[c])) = OnQueue(queue[c]) \ {Front(c).prompt}
         /\ Distinct(Tail(queue[c]))
<1>1. queue[c] \in Seq(QueueItem) /\ queue[c] # <<>> /\ Distinct(queue[c])
  BY DEF Inv, TypeOK, Takes, Places
<1>2. /\ Head(queue[c]) \in QueueItem /\ Head(queue[c]).prompt \in OnQueue(queue[c])
      /\ OnQueue(Tail(queue[c])) = OnQueue(queue[c]) \ {Head(queue[c]).prompt}
      /\ Distinct(Tail(queue[c]))
  BY <1>1, TakeItem
<1>3. Front(c).prompt \in Prompts /\ turn[c].prompt = None
  BY <1>2 DEF Front, QueueItem, Takes, Idle
<1>4. PlacedAt(c, Front(c).prompt)
  BY <1>3 DEF Places
<1>5. QED
  BY <1>1, <1>2, <1>3, <1>4 DEF PlacedAt, Front

\* An item is taken from a queue: its prompt runs, or is over.
LEMMA TakePlaces ==
  ASSUME Inv, Places, NEW c \in Children, Takes(c), Take(c),
         NEW p \in Prompts, p = Front(c).prompt,
         \A q \in Prompts \ {p} : prompt'[q] = prompt[q],
         \/ turn' = turn /\ prompt'[p].at \notin {"queued", "sent"}
         \/ /\ turn' = [turn EXCEPT ![c] = [stage |-> "reading", prompt |-> p]]
            /\ prompt' = prompt
         \/ /\ turn' = [turn EXCEPT ![c] = [stage |-> "rpc", prompt |-> p]]
            /\ prompt'[p] = [at |-> "sent", on |-> c]
  PROVE  Places'
<1>0. /\ queue \in [Children -> Seq(QueueItem)] /\ turn \in [Children -> Turn]
      /\ None \notin Prompts
  BY SessionAssumption DEF Inv, TypeOK
<1>1. /\ turn[c].prompt = None /\ turn[c].stage = "idle"
      /\ p \in OnQueue(queue[c])
      /\ prompt[p].at = "queued" /\ prompt[p].on = c
  BY WhatIsTaken DEF Takes, Idle
<1>2. /\ queue'[c] = Tail(queue[c])
      /\ \A d \in Children \ {c} : queue'[d] = queue[d]
  BY <1>0 DEF Take
<1>3. OnQueue(queue'[c]) = OnQueue(queue[c]) \ {p} /\ Distinct(queue'[c])
  BY <1>2, WhatIsTaken
<1>4. \A d \in Children \ {c} : turn'[d] = turn[d]
  BY <1>0
<1>5. \/ turn'[c].prompt = None /\ prompt'[p].at \notin {"queued", "sent"}
                                /\ turn'[c].stage = "idle"
      \/ turn'[c].prompt = p /\ turn'[c].stage = "reading"
                             /\ prompt'[p].at = "queued" /\ prompt'[p].on = c
      \/ turn'[c].prompt = p /\ turn'[c].stage = "rpc"
                             /\ prompt'[p].at = "sent" /\ prompt'[p].on = c
  BY <1>0, <1>1
<1>6. PlacedAt(c, p)'
  BY <1>0, <1>3, <1>5 DEF PlacedAt
<1>7. \A q \in Prompts \ {p} : turn'[c].prompt # q /\ turn[c].prompt # q
  BY <1>0, <1>1, <1>5
<1>8. /\ prompt'[p].at \in {"queued", "sent"} => prompt'[p].on = c
      /\ turn'[c].stage = "idle" => turn'[c].prompt = None
  BY <1>5
<1>9. QED
  BY <1>1, <1>2, <1>3, <1>4, <1>6, <1>7, <1>8, OneMoves

\* A prompt whose session holds no summary to finish is queued again, or starts
\* over on another session.
LEMMA SummaryPlaces ==
  ASSUME Inv, Places, NEW c \in Children, SummaryRead(c)
  PROVE  Places'
<1>0. /\ queue \in [Children -> Seq(QueueItem)] /\ turn \in [Children -> Turn]
      /\ turn[c].stage = "reading" /\ turn[c].prompt \in Prompts
      /\ queue[c] \in Seq(QueueItem)
      /\ None \notin Prompts
  BY SessionAssumption DEF Inv, TypeOK, TurnsAreUp, SummaryRead
<1>. PICK p \in Prompts : p = turn[c].prompt
  BY <1>0
<1>1. CASE entries[KeyOf[p]] = c
  <2>. DEFINE x == [prompt |-> p, kind |-> "turn"]
  <2>1. x \in QueueItem /\ x.prompt = p
    BY DEF QueueItem
  <2>2. queue' = [queue EXCEPT ![c] = Append(@, x)] /\ prompt' = prompt
        /\ turn' = [turn EXCEPT ![c] = Idle]
    BY <1>1 DEF SummaryRead
  <2>. HIDE DEF x
  <2>3. PlacedAt(c, p)
    BY DEF Places
  <2>4. /\ p \notin OnQueue(queue[c]) /\ prompt[p].at = "queued" /\ prompt[p].on = c
    BY <1>0, <2>3 DEF PlacedAt
  <2>5. /\ queue'[c] = Append(queue[c], x)
        /\ turn'[c].stage = "idle" /\ turn'[c].prompt = None
        /\ \A d \in Children \ {c} : queue'[d] = queue[d] /\ turn'[d] = turn[d]
    BY <1>0, <2>2 DEF Idle
  <2>6. OnQueue(queue'[c]) = OnQueue(queue[c]) \cup {p} /\ Distinct(queue'[c])
    BY <1>0, <2>1, <2>4, <2>5, AppendItem DEF Places
  <2>7. PlacedAt(c, p)'
    BY <1>0, <2>2, <2>4, <2>5, <2>6 DEF PlacedAt
  <2>8. \A q \in Prompts \ {p} : turn'[c].prompt # q /\ turn[c].prompt # q
    BY <1>0, <2>5
  <2>9. QED
    BY <2>2, <2>4, <2>5, <2>6, <2>7, <2>8, OneMoves
<1>2. CASE entries[KeyOf[p]] # c
  <2>1. /\ prompt' = [prompt EXCEPT ![p] = [at |-> "again", on |-> None]]
        /\ queue' = queue /\ turn' = [turn EXCEPT ![c] = Idle]
    BY <1>2 DEF SummaryRead
  <2>2. Settle(turn[c].prompt, "again")
    BY <2>1 DEF Settle
  <2>3. QED
    BY <1>0, <2>1, <2>2, TurnOverPlaces
<1>3. QED
  BY <1>1, <1>2

\* The queues and the turns keep the places.
LEMMA TurnPlaces ==
  ASSUME Inv, Places, NEW c \in Children, TurnStep(c)
  PROVE  Places'
<1>0. prompt \in [Prompts -> Call]
  BY DEF Inv, TypeOK
<1>1. CASE RefuseNext(c)
  <2>1. Takes(c) /\ Take(c) /\ turn' = turn
        /\ \E outcome \in Outcomes : Settle(Front(c).prompt, outcome)
    BY <1>1 DEF RefuseNext, Refusal, Outcomes
  <2>2. PICK p \in Prompts : p = Front(c).prompt
    BY <2>1, WhatIsTaken
  <2>3. /\ prompt'[p].at \notin {"queued", "sent"}
        /\ \A q \in Prompts \ {p} : prompt'[q] = prompt[q]
    BY <1>0, <2>1, <2>2 DEF Settle, Outcomes
  <2>4. QED
    BY <2>1, <2>2, <2>3, TakePlaces
<1>2. CASE ReadSummary(c)
  <2>1. Takes(c) /\ Take(c) /\ prompt' = prompt
    BY <1>2 DEF ReadSummary
  <2>2. PICK p \in Prompts : p = Front(c).prompt
    BY <2>1, WhatIsTaken
  <2>3. turn' = [turn EXCEPT ![c] = [stage |-> "reading", prompt |-> p]]
    BY <1>2, <2>2 DEF ReadSummary, Runs
  <2>4. QED
    BY <2>1, <2>2, <2>3, TakePlaces
<1>3. CASE SendTurn(c)
  <2>1. Takes(c) /\ Take(c)
    BY <1>3 DEF SendTurn
  <2>2. PICK p \in Prompts : p = Front(c).prompt
    BY <2>1, WhatIsTaken
  <2>3. /\ turn' = [turn EXCEPT ![c] = [stage |-> "rpc", prompt |-> p]]
        /\ prompt' = [prompt EXCEPT ![p] = [at |-> "sent", on |-> c]]
    BY <1>3, <2>2 DEF SendTurn, Runs
  <2>4. /\ prompt'[p] = [at |-> "sent", on |-> c]
        /\ \A q \in Prompts \ {p} : prompt'[q] = prompt[q]
    BY <1>0, <2>3
  <2>5. QED
    BY <2>1, <2>2, <2>3, <2>4, TakePlaces
<1>4. CASE SummaryRead(c)
  BY <1>4, SummaryPlaces
<1>5. CASE RpcReturns(c) \/ StartDrain(c)
  BY <1>5, StagePlaces DEF RpcReturns, StartDrain, Stages
<1>6. ASSUME turn[c].stage # "idle", queue' = queue,
             NEW s, NEW outcome \in Outcomes, TurnOver(c, s, outcome)
      PROVE  Places'
  BY <1>6, TurnOverPlaces DEF TurnOver
<1>7. CASE TurnAnswered(c) \/ AgentFails(c) \/ SlotAnswersTurn(c) \/ Outgrows(c)
  BY <1>6, <1>7 DEF TurnAnswered, AgentFails, SlotAnswersTurn, Outgrows, Outcomes
<1>8. CASE ConnectionLost(c)
  <2>1. CASE session[c].byBridge
    BY <1>6, <1>8, <2>1 DEF ConnectionLost, Outcomes
  <2>2. CASE ~ session[c].byBridge
    BY <1>8, <2>2, StagePlaces DEF ConnectionLost, Stages
  <2>3. QED
    BY <2>1, <2>2
<1>9. CASE WatchdogFires(c)
  <2>1. CASE turn[c].stage = "asking"
    <3>1. queue' = queue /\ turn' = turn /\ prompt' = prompt
      BY <1>9, <2>1 DEF WatchdogFires
    <3>2. QED
      BY <3>1 DEF Places, PlacedAt
  <2>2. CASE turn[c].stage # "asking"
    BY <1>6, <1>9, <2>2 DEF WatchdogFires, Running, Outcomes
  <2>3. QED
    BY <2>1, <2>2
<1>10. QED
  BY <1>1, <1>2, <1>3, <1>4, <1>5, <1>7, <1>8, <1>9 DEF TurnStep

\* A handshake that fails lets go of all that waited for it.
LEMMA FailurePlaces ==
  ASSUME Inv, Places, NEW c \in Children, HandshakeFails(c)
  PROVE  Places'
<1>0. /\ prompt \in [Prompts -> Call] /\ queue \in [Children -> Seq(QueueItem)]
      /\ turn[c].stage = "idle" /\ turn[c].prompt = None /\ None \notin Prompts
  BY SessionAssumption DEF Inv, TypeOK, TurnsAreUp, HandshakeFails, Handshake, Places
<1>1. /\ queue'[c] = <<>> /\ turn' = turn
      /\ \A d \in Children \ {c} : queue'[d] = queue[d]
  BY <1>0 DEF HandshakeFails
<1>2. \A p \in Prompts :
        IF prompt[p] = [at |-> "queued", on |-> c]
        THEN prompt'[p].at \notin {"queued", "sent"}
        ELSE prompt'[p] = prompt[p]
  BY DEF HandshakeFails
<1>3. ASSUME NEW p \in Prompts PROVE PlacedAt(c, p)'
  <2>1. PlacedAt(c, p) /\ prompt[p] \in Call
    BY <1>0 DEF Places
  <2>2. p \notin OnQueue(queue'[c]) /\ turn'[c].prompt # p
    BY <1>0, <1>1, EmptyQueue
  <2>3. prompt[p].at = "queued" /\ prompt[p].on = c => prompt[p] = [at |-> "queued", on |-> c]
    BY <2>1 DEF Call
  <2>4. ~ (prompt[p].at = "sent" /\ prompt[p].on = c)
    BY <1>0, <2>1 DEF PlacedAt
  <2>5. QED
    BY <1>2, <2>2, <2>3, <2>4 DEF PlacedAt
<1>4. ASSUME NEW d \in Children, d # c, NEW p \in Prompts PROVE PlacedAt(d, p)'
  <2>1. PlacedAt(d, p) /\ queue'[d] = queue[d] /\ turn'[d] = turn[d]
    BY <1>1, <1>4 DEF Places
  <2>2. prompt[p] = [at |-> "queued", on |-> c] => prompt[p].on # d
    BY <1>4
  <2>3. QED
    BY <1>2, <2>1, <2>2 DEF PlacedAt
<1>5. \A d \in Children : Distinct(queue'[d]) /\ (turn'[d].stage = "idle" => turn'[d].prompt = None)
  BY <1>1, EmptyQueue DEF Places
<1>6. QED
  BY <1>3, <1>4, <1>5 DEF Places

\* A bridge that starts over has nothing in its queues.
LEMMA RestartPlaces ==
  ASSUME Inv, BridgeRestarts
  PROVE  Places'
<1>1. \A c \in Children : queue'[c] = <<>> /\ turn'[c].stage = "idle" /\ turn'[c].prompt = None
  BY DEF BridgeRestarts, Idle
<1>2. \A p \in Prompts : prompt'[p].at \notin {"queued", "sent"}
  BY DEF BridgeRestarts, Outcomes
<1>3. None \notin Prompts
  BY SessionAssumption
<1>4. QED
  BY <1>1, <1>2, <1>3, EmptyQueue DEF Places, PlacedAt

\* Initially no queue holds anything.
LEMMA PlacesInit == Init => Places
<1>. SUFFICES ASSUME Init PROVE Places
  OBVIOUS
<1>1. \A c \in Children : queue[c] = <<>> /\ turn[c].stage = "idle" /\ turn[c].prompt = None
  BY DEF Init, Idle
<1>2. \A p \in Prompts : prompt[p].at \notin {"queued", "sent"}
  BY DEF Init
<1>3. None \notin Prompts
  BY SessionAssumption
<1>4. QED
  BY <1>1, <1>2, <1>3, EmptyQueue DEF Places, PlacedAt

\* Every step keeps the places.
LEMMA PlacesStep == Inv /\ Places /\ [Next]_vars => Places'
<1>. SUFFICES ASSUME Inv, Places, [Next]_vars PROVE Places'
  OBVIOUS
<1>1. ASSUME UNCHANGED <<queue, turn, prompt>> PROVE Places'
  BY <1>1 DEF Places, PlacedAt
<1>2. ASSUME NEW c \in Children, HandshakeStep(c) PROVE Places'
  <2>1. CASE HandshakeFails(c)
    BY <2>1, FailurePlaces
  <2>2. CASE ~ HandshakeFails(c)
    BY <1>1, <1>2, <2>2 DEF HandshakeStep, Initialized, SessionLoaded, LoadFailed,
      SessionCreated, HandshakeDone
  <2>3. QED
    BY <2>1, <2>2
<1>3. ASSUME NEW c \in Children, ChildStep(c) PROVE Places'
  BY <1>1, <1>3 DEF ChildStep, ConnectionCloses, ChildExits, IdleFires
<1>4. ASSUME NEW a \in Agents, ReloadStep(a) PROVE Places'
  BY <1>1, <1>4 DEF ReloadStep, ReplaceAgent, RemoveAgent, AddAgent, KillAgentSessions
<1>5. CASE (\E n \in Limits : ApplySession(n)) \/ StopStartingTurns \/ Shutdown
  BY <1>1, <1>5 DEF ApplySession, StopStartingTurns, Shutdown
<1>6. CASE UNCHANGED vars
  BY <1>1, <1>6 DEF vars
<1>7. QED
  BY <1>2, <1>3, <1>4, <1>5, <1>6, PromptPlaces, TurnPlaces, RestartPlaces DEF Next

\* What a place is, counted.
LEMMA HeldOnce ==
  ASSUME Inv, Places, NEW c \in Children, NEW p \in Prompts
  PROVE  Held(c, p) = IF p \in OnQueue(queue[c]) \/ turn[c].prompt = p THEN 1 ELSE 0
<1>. DEFINE I == {i \in 1 .. Len(queue[c]) : queue[c][i].prompt = p}
<1>1. PlacedAt(c, p) /\ Distinct(queue[c])
  BY DEF Places
<1>2. CASE p \in OnQueue(queue[c])
  <2>1. PICK i \in 1 .. Len(queue[c]) : queue[c][i].prompt = p
    BY <1>2 DEF OnQueue
  <2>2. I = {i}
    BY <1>1, <2>1 DEF Distinct
  <2>3. Cardinality(I) = 1
    BY <2>2, FS_Singleton
  <2>4. turn[c].prompt # p
    BY <1>1, <1>2 DEF PlacedAt
  <2>5. QED
    BY <1>2, <2>3, <2>4 DEF Held
<1>3. CASE p \notin OnQueue(queue[c])
  <2>1. I = {}
    BY <1>3 DEF OnQueue
  <2>2. Cardinality(I) = 0
    BY <2>1, FS_EmptySet
  <2>3. QED
    BY <1>3, <2>2 DEF Held
<1>4. QED
  BY <1>2, <1>3

\* The places are kept in every reachable state.
LEMMA PlacesKept == Spec => []Places
BY PlacesInit, PlacesStep, Invariance, PTL DEF Spec

\* No prompt is lost and none is sent twice, whatever ends the session it is
\* waiting on: each is in one queue, or run by one, for as long as its call waits.
THEOREM OnePlace == Spec => []PromptHasOnePlace
<1>1. Inv /\ Places => PromptHasOnePlace
  BY HeldOnce DEF PromptHasOnePlace, Places, PlacedAt
<1>2. QED
  BY <1>1, Invariance, PlacesKept, PTL

-----------------------------------------------------------------------------
(* The prompts alongside a turn.                                           *)

\* A prompt alongside a turn stays alongside that one.
LEMMA StaysAlongside ==
  ASSUME Inv, [Next]_vars, NEW p \in Prompts,
         prompt[p].at = "alongside", prompt'[p].at = "alongside"
  PROVE  prompt'[p] = prompt[p]
<1>0. prompt \in [Prompts -> Call]
  BY DEF Inv, TypeOK
<1>1. ASSUME NEW q, NEW outcome \in Outcomes \cup {"again"}, Settle(q, outcome)
      PROVE  prompt'[p] = prompt[p]
  BY <1>0, <1>1 DEF Settle, Outcomes
<1>2. ASSUME NEW q \in Prompts, NEW at \in {"queued", "sent"}, NEW c,
             prompt' = [prompt EXCEPT ![q] = [at |-> at, on |-> c]]
      PROVE  prompt'[p] = prompt[p]
  BY <1>0, <1>2
<1>3. ASSUME NEW q \in Prompts, PromptStep(q)
      PROVE  prompt'[p] = prompt[p]
  <2>1. CASE PromptAlongside(q)
    BY <1>0, <2>1 DEF PromptAlongside
  <2>2. CASE PromptJoinsSession(q) \/ PromptJoinsSpawn(q) \/ PromptSpawns(q)
    BY <1>2, <2>2 DEF PromptJoinsSession, PromptJoinsSpawn, PromptSpawns, Enqueue
  <2>3. CASE PromptRefused(q) \/ SlotAnswersStart(q) \/ AlongsideEnds(q)
    BY <1>1, <2>3 DEF PromptRefused, SlotAnswersStart, AlongsideEnds, Outcomes
  <2>4. QED
    BY <1>3, <2>1, <2>2, <2>3 DEF PromptStep
<1>4. ASSUME NEW c \in Children, HandshakeStep(c)
      PROVE  prompt'[p] = prompt[p]
  <2>1. CASE HandshakeFails(c)
    BY <1>0, <2>1 DEF HandshakeFails
  <2>2. CASE prompt' = prompt
    BY <2>2
  <2>3. QED
    BY <1>4, <2>1, <2>2 DEF HandshakeStep, Initialized, SessionLoaded, LoadFailed,
      SessionCreated, HandshakeDone
<1>5. ASSUME NEW c \in Children, TurnStep(c)
      PROVE  prompt'[p] = prompt[p]
  <2>1. CASE SendTurn(c)
    <3>1. Takes(c) /\ prompt' = [prompt EXCEPT ![Front(c).prompt] = [at |-> "sent", on |-> c]]
      BY <2>1 DEF SendTurn
    <3>2. QED
      BY <1>0, <3>1
  <2>2. CASE \E q, outcome : outcome \in Outcomes \cup {"again"} /\ Settle(q, outcome)
    BY <1>1, <2>2
  <2>3. CASE prompt' = prompt
    BY <2>3
  <2>4. CASE SummaryRead(c)
    BY <2>2, <2>3, <2>4 DEF SummaryRead, Settle
  <2>5. CASE RefuseNext(c) \/ TurnAnswered(c) \/ AgentFails(c) \/ ConnectionLost(c)
             \/ SlotAnswersTurn(c) \/ Outgrows(c) \/ WatchdogFires(c)
    BY <2>2, <2>3, <2>5 DEF RefuseNext, Refusal, TurnAnswered, AgentFails, ConnectionLost,
      SlotAnswersTurn, Outgrows, WatchdogFires, TurnOver, Outcomes
  <2>6. QED
    BY <1>5, <2>1, <2>3, <2>4, <2>5 DEF TurnStep, ReadSummary, RpcReturns, StartDrain
<1>6. ASSUME BridgeRestarts
      PROVE  FALSE
  BY <1>0, <1>6 DEF BridgeRestarts, Outcomes
<1>7. QED
  BY <1>3, <1>4, <1>5, <1>6 DEF Next, ChildStep, ConnectionCloses, ChildExits, IdleFires,
    ReloadStep, ReplaceAgent, RemoveAgent, KillAgentSessions, AddAgent, ApplySession,
    StopStartingTurns, Shutdown, vars

\* A turn drains from the step that found nothing alongside it.
LEMMA WhoDrains ==
  ASSUME Inv, [Next]_vars, NEW c \in Children,
         turn'[c].stage = "drain", turn[c].stage # "drain"
  PROVE  StartDrain(c)
<1>0. turn \in [Children -> Turn]
  BY DEF Inv, TypeOK
<1>1. turn' # turn
  OBVIOUS
<1>2. ASSUME NEW d \in Children, TurnStep(d)
      PROVE  StartDrain(c)
  <2>1. CASE StartDrain(d)
    BY <1>0, <2>1 DEF StartDrain
  <2>2. ASSUME NEW stage \in Stages \ {"drain"},
               \/ turn' = [turn EXCEPT ![d].stage = stage]
               \/ \E q : turn' = [turn EXCEPT ![d] = [stage |-> stage, prompt |-> q]]
        PROVE  FALSE
    BY <1>0, <2>2 DEF Turn
  <2>3. CASE turn' = [turn EXCEPT ![d] = Idle]
    BY <2>2, <2>3 DEF Idle, Stages
  <2>4. CASE ReadSummary(d) \/ SendTurn(d)
    BY <2>2, <2>4 DEF ReadSummary, SendTurn, Runs, Stages
  <2>5. CASE RpcReturns(d) \/ ConnectionLost(d)
    BY <2>2, <2>3, <2>5 DEF RpcReturns, ConnectionLost, TurnOver, Stages
  <2>6. QED
    BY <1>1, <1>2, <2>1, <2>3, <2>4, <2>5 DEF TurnStep, RefuseNext, SummaryRead, TurnAnswered,
      AgentFails, SlotAnswersTurn, Outgrows, WatchdogFires, TurnOver
<1>3. ~ BridgeRestarts
  BY <1>0 DEF BridgeRestarts, Idle
<1>4. QED
  BY <1>1, <1>2, <1>3 DEF Next, PromptStep, PromptRefused, PromptJoinsSession, PromptJoinsSpawn,
    PromptSpawns, SlotAnswersStart, PromptAlongside, AlongsideEnds, HandshakeStep, Initialized,
    SessionLoaded, LoadFailed, SessionCreated, HandshakeDone, HandshakeFails, ChildStep,
    ConnectionCloses, ChildExits, IdleFires, ReloadStep, ReplaceAgent, RemoveAgent,
    KillAgentSessions, AddAgent, ApplySession, StopStartingTurns, Shutdown, vars

\* A turn drains, and ends, only when every prompt sent alongside it has been
\* answered, however many were sent and whenever they joined.
THEOREM AlongsideWaited == Spec => []AlongsideIsWaitedFor
<1>1. Init => AlongsideIsWaitedFor
  BY DEF Init, AlongsideIsWaitedFor, Alongside
<1>2. Inv /\ AlongsideIsWaitedFor /\ [Next]_vars => AlongsideIsWaitedFor'
  <2>. SUFFICES ASSUME Inv, AlongsideIsWaitedFor, [Next]_vars,
                       NEW c \in Children, turn'[c].stage = "drain",
                       NEW p \in Prompts, prompt'[p] = [at |-> "alongside", on |-> c]
                PROVE  FALSE
    BY DEF AlongsideIsWaitedFor, Alongside
  <2>1. prompt'[p].at = "alongside" /\ prompt'[p].on = c
    OBVIOUS
  <2>2. CASE prompt[p].at = "alongside"
    <3>1. p \in Alongside(c)
      BY <2>1, <2>2, StaysAlongside DEF Alongside
    <3>2. turn[c].stage # "drain"
      BY <3>1 DEF AlongsideIsWaitedFor
    <3>3. QED
      BY <3>1, <3>2, WhoDrains DEF StartDrain
  <2>3. CASE prompt[p].at # "alongside"
    <3>1. PromptAlongside(p) /\ entries[KeyOf[p]] = c
      BY <2>1, <2>3, WhoSends
    <3>2. turn[c].stage # "drain" /\ turn' = turn
      BY <3>1 DEF PromptAlongside, Running
    <3>3. QED
      BY <3>2
  <2>4. QED
    BY <2>2, <2>3
<1>3. QED
  BY <1>1, <1>2, Invariance, PTL DEF Spec

-----------------------------------------------------------------------------
(* The conversations: the ids of the sessions, and the record of them.     *)

\* No session is named after child c yet.
Fresh(c) == session[c].phase \in {"unborn", "init", "loading", "opening"}

\* Child c of a pair held a conversation.
Was(c) == session[c].phase \in {"up", "gone"}

\* The pair of child c has lost its conversation for a reason the runtime gave, to
\* a child no later than the n-th.
LostBy(c, n) ==
  \E e \in 1 .. n : /\ session[e].key = session[c].key
                    /\ (c < e /\ session[e].refused # None) \/ session[e].outgrown

\* A session that started has an id, no session is named after a child that did
\* not create one, and the id of a pair that had a conversation is remembered
\* unless it was lost; the child being started for a pair is its youngest.
Named ==
  \A c \in Children :
    /\ session[c].phase = "unborn" => session[c].key = None
    /\ session[c].phase \in {"unborn", "init"} => session[c].refused = None
    /\ session[c].phase \in {"loading", "selecting", "up", "gone"} => session[c].convo # None
    /\ Fresh(c) => /\ \A k \in Keys : resumable[k] # c
                   /\ \A d \in Children : session[d].convo # c
    /\ \A k \in Keys : spawning[k] # None /\ session[c].key = k => c <= spawning[k]
    /\ Was(c) => resumable[session[c].key] # None \/ LostBy(c, MaxSpawns)

\* A child that asks for a new conversation, or has had one made, is one of a pair
\* that had none or has lost it.
NewForAReason ==
  \A c, d \in Children :
    /\ c < d /\ session[c].key = session[d].key
    /\ Was(c) /\ (session[d].phase = "opening" \/ session[d].convo = d)
    => LostBy(c, d)

Conversations == Named /\ NewForAReason

\* A step that opens no conversation and starts no session for child c.
Aged(c) ==
  /\ session'[c].key = session[c].key
  /\ session'[c].convo = session[c].convo
  /\ session'[c].refused = session[c].refused
  /\ session[c].outgrown => session'[c].outgrown
  /\ \/ session'[c].phase = session[c].phase
     \/ session[c].phase = "up" /\ session'[c].phase = "gone"
     \/ session[c].phase \in Handshake /\ session'[c].phase = "failed"

\* What such a step may do to the id remembered for a pair.
Noted(k) ==
  \/ resumable'[k] = resumable[k]
  \/ \E c \in Children : /\ session[c].phase = "up" /\ session[c].key = k
                         /\ resumable'[k] = session[c].convo
  \/ \E c \in Children : /\ session[c].key = k /\ session'[c].outgrown
                         /\ resumable'[k] = None

Quiet ==
  /\ \A c \in Children : Aged(c)
  /\ \A k \in Keys : Noted(k) /\ spawning'[k] \in {spawning[k], None}

\* A child that was lost its conversation to keeps its pair and its reason.
LEMMA LossStays ==
  ASSUME NEW c \in Children, NEW n \in 0 .. MaxSpawns, LostBy(c, n),
         session[c].key \in Keys, session'[c].key = session[c].key, Named,
         \A e \in Children : session[e].phase # "unborn" =>
           /\ session'[e].key = session[e].key
           /\ session[e].refused # None => session'[e].refused # None
           /\ session[e].outgrown => session'[e].outgrown
  PROVE  LostBy(c, n)'
<1>1. PICK e \in 1 .. n : /\ session[e].key = session[c].key
                          /\ (c < e /\ session[e].refused # None) \/ session[e].outgrown
  BY DEF LostBy
<1>2. e \in Children /\ session[e].phase # "unborn"
  BY <1>1, SessionAssumption DEF Named, Children
<1>3. QED
  BY <1>1, <1>2 DEF LostBy

\* A quiet step keeps every conversation.
LEMMA QuietKeeps ==
  ASSUME Inv, Conversations, Quiet
  PROVE  Conversations'
<1>0. /\ \A c \in Children : session[c] \in Session /\ Aged(c)
      /\ \A c \in Children : session[c].phase # "unborn" => session[c].key \in Keys
      /\ \A k \in Keys : spawning[k] \in Maybe
  BY DEF Inv, TypeOK, Owned, Quiet
<1>1. ASSUME NEW c \in Children, NEW n \in 0 .. MaxSpawns, LostBy(c, n),
             session[c].phase # "unborn"
      PROVE  LostBy(c, n)'
  BY <1>0, <1>1, LossStays DEF Conversations, Aged
<1>2. \A c \in Children : /\ Was(c)' => Was(c) /\ session[c].key \in Keys
                                       /\ session[c].phase # "unborn"
                          /\ Fresh(c)' => Fresh(c)
                          /\ session'[c].phase = "opening" => session[c].phase = "opening"
  BY <1>0 DEF Aged, Was, Fresh
<1>3. \A c \in Children :
        /\ session'[c].phase \in {"unborn", "init", "loading", "selecting"} =>
             session'[c].phase = session[c].phase
        /\ session'[c].phase \in {"up", "gone"} => Was(c)
  BY <1>0 DEF Aged, Was
<1>4. ASSUME NEW c \in Children, Fresh(c)'
      PROVE  /\ \A k \in Keys : resumable'[k] # c
             /\ \A d \in Children : session'[d].convo # c
  <2>1. /\ \A k \in Keys : resumable[k] # c
        /\ \A d \in Children : session[d].convo # c
    BY <1>2, <1>4 DEF Conversations, Named
  <2>2. c # None
    BY MaybeType
  <2>3. QED
    BY <1>0, <2>1, <2>2 DEF Aged, Quiet, Noted
<1>5. ASSUME NEW c \in Children, NEW k \in Keys, spawning'[k] # None, session'[c].key = k
      PROVE  c <= spawning'[k]
  BY <1>0, <1>5 DEF Aged, Quiet, Conversations, Named
<1>6. ASSUME NEW c \in Children, Was(c)'
      PROVE  resumable'[session'[c].key] # None \/ LostBy(c, MaxSpawns)'
  <2>. DEFINE k == session[c].key
  <2>1. k \in Keys /\ session'[c].key = k /\ Noted(k) /\ Was(c)
    BY <1>0, <1>2, <1>6 DEF Aged, Quiet
  <2>2. resumable[k] # None \/ LostBy(c, MaxSpawns)
    BY <2>1 DEF Conversations, Named
  <2>3. MaxSpawns \in 0 .. MaxSpawns
    BY SessionAssumption
  <2>4. CASE resumable'[k] = resumable[k]
    BY <1>1, <1>2, <1>6, <2>1, <2>2, <2>3, <2>4
  <2>5. CASE \E d \in Children : session[d].phase = "up" /\ resumable'[k] = session[d].convo
    BY <2>1, <2>5 DEF Conversations, Named
  <2>6. CASE \E d \in Children : session[d].key = k /\ session'[d].outgrown
    <3>1. PICK d \in Children : session[d].key = k /\ session'[d].outgrown
      BY <2>6
    <3>2. d \in 1 .. MaxSpawns /\ session'[d].key = k
      BY <1>0, <3>1 DEF Children, Aged
    <3>3. QED
      BY <2>1, <3>1, <3>2 DEF LostBy
  <2>7. QED
    BY <2>1, <2>4, <2>5, <2>6 DEF Noted
<1>7. Named'
  <2>1. ASSUME NEW c \in Children
        PROVE  /\ session'[c].phase = "unborn" => session'[c].key = None
               /\ session'[c].phase \in {"unborn", "init"} => session'[c].refused = None
               /\ session'[c].phase \in {"loading", "selecting", "up", "gone"} =>
                    session'[c].convo # None
    <3>1. Aged(c)
      BY <1>0
    <3>2. QED
      BY <1>3, <3>1 DEF Aged, Was, Conversations, Named
  <2>2. QED
    BY <1>4, <1>5, <1>6, <2>1 DEF Named
<1>8. NewForAReason'
  <2>. SUFFICES ASSUME NEW c \in Children, NEW d \in Children,
                       c < d, session'[c].key = session'[d].key, Was(c)',
                       session'[d].phase = "opening" \/ session'[d].convo = d
                PROVE  LostBy(c, d)'
    BY DEF NewForAReason
  <2>1. /\ session[c].key = session[d].key /\ Was(c) /\ session[c].phase # "unborn"
        /\ session[d].phase = "opening" \/ session[d].convo = d
    BY <1>0, <1>2 DEF Aged
  <2>2. LostBy(c, d)
    BY <2>1 DEF Conversations, NewForAReason
  <2>3. d \in 0 .. MaxSpawns
    BY DEF Children
  <2>4. QED
    BY <1>1, <2>1, <2>2, <2>3
<1>9. QED
  BY <1>7, <1>8 DEF Conversations

\* A child whose record does not change, or is that of a session told to end.
LEMMA AgedFrom ==
  ASSUME Inv, NEW c \in Children,
         session'[c] \in {session[c], Ended(session[c]),
                          [Kill(session[c]) EXCEPT !.flushed = TRUE],
                          [Ended(session[c]) EXCEPT !.outgrown = TRUE],
                          [session[c] EXCEPT !.aborted = TRUE],
                          [session[c] EXCEPT !.exited = TRUE],
                          [session[c] EXCEPT !.exited = TRUE, !.closed = TRUE]}
  PROVE  Aged(c)
<1>1. session[c] \in Session
  BY DEF Inv, TypeOK
<1>. PICK s \in Session : s = session[c]
  BY <1>1
<1>. PICK t : t = session'[c]
  OBVIOUS
<1>2. /\ t.key = s.key /\ t.convo = s.convo /\ t.refused = s.refused
      /\ s.outgrown => t.outgrown
      /\ t.phase = s.phase
  <2>1. CASE t = s
    BY <2>1
  <2>2. CASE t \in {Ended(s), [Kill(s) EXCEPT !.flushed = TRUE], [Ended(s) EXCEPT !.outgrown = TRUE]}
    <3>1. PICK kill \in BOOLEAN : kill = (s.killed \/ ~ s.closed)
      OBVIOUS
    <3>2. CASE t = Ended(s)
      BY <3>1, <3>2 DEF Kill, Ended, Session
    <3>3. CASE t = [Kill(s) EXCEPT !.flushed = TRUE]
      BY <3>1, <3>3 DEF Kill, Session
    <3>4. CASE t = [Ended(s) EXCEPT !.outgrown = TRUE]
      BY <3>1, <3>4 DEF Kill, Ended, Session
    <3>5. QED
      BY <2>2, <3>2, <3>3, <3>4
  <2>3. CASE t \in {[s EXCEPT !.aborted = TRUE], [s EXCEPT !.exited = TRUE],
                    [s EXCEPT !.exited = TRUE, !.closed = TRUE]}
    BY <2>3 DEF Session
  <2>4. QED
    BY <2>1, <2>2, <2>3
<1>3. QED
  BY <1>2 DEF Aged

\* A step that touches neither the children nor the ids is quiet.
LEMMA UnchangedIsQuiet ==
  ASSUME Inv, UNCHANGED <<session, resumable, spawning>>
  PROVE  Quiet
BY AgedFrom DEF Quiet, Noted

\* What dropping a stale session notes.
LEMMA DropStaleNotes ==
  ASSUME Inv, NEW k \in Keys, DropStale(k), NEW j \in Keys
  PROVE  Noted(j)
<1>1. CASE entries[k] = None
  BY <1>1 DEF DropStale, Noted
<1>2. CASE entries[k] # None
  <2>1. /\ entries[k] \in Children /\ resumable \in [Keys -> Maybe]
        /\ session[entries[k]].key = k /\ session[entries[k]].phase = "up"
    BY <1>2, MaybeType DEF Inv, TypeOK, Bound
  <2>2. QED
    BY <1>2, <2>1 DEF DropStale, Remember, Noted
<1>3. QED
  BY <1>1, <1>2

\* A step of a queue is quiet, a session that outgrew its summary excepted, which
\* says so.
LEMMA TurnIsQuiet ==
  ASSUME Inv, NEW c \in Children, TurnStep(c)
  PROVE  Quiet
<1>0. /\ session \in [Children -> Session] /\ session[c] \in Session
      /\ resumable \in [Keys -> Maybe] /\ spawning' = spawning
      /\ session[c].phase # "unborn" => session[c].key \in Keys
  BY DEF Inv, TypeOK, Owned, TurnStep, RefuseNext, ReadSummary, SummaryRead, SendTurn,
    RpcReturns, StartDrain, TurnAnswered, AgentFails, ConnectionLost, SlotAnswersTurn,
    Outgrows, WatchdogFires, TurnOver, pool
<1>1. CASE Outgrows(c)
  <2>1. /\ session' = [session EXCEPT ![c] = [Ended(session[c]) EXCEPT !.outgrown = TRUE]]
        /\ resumable' = Forget(resumable, session[c].key, session[c].convo)
    BY <1>1 DEF Outgrows, TurnOver
  <2>2. session'[c].outgrown
    BY <1>0, <2>1 DEF Ended, Kill, Session
  <2>3. ASSUME NEW d \in Children PROVE Aged(d)
    <3>1. session'[d] \in {session[d], [Ended(session[d]) EXCEPT !.outgrown = TRUE]}
      BY <1>0, <2>1
    <3>2. QED
      BY <3>1, AgedFrom
  <2>4. ASSUME NEW k \in Keys PROVE Noted(k)
    BY <1>0, <2>1, <2>2 DEF Forget, Noted
  <2>5. QED
    BY <1>0, <2>3, <2>4 DEF Quiet
<1>2. CASE WatchdogFires(c)
  <2>1. session' = [session EXCEPT ![c] = Ended(session[c])] /\ resumable' = resumable
    BY <1>2 DEF WatchdogFires, TurnOver
  <2>2. ASSUME NEW d \in Children PROVE Aged(d)
    <3>1. session'[d] \in {session[d], Ended(session[d])}
      BY <1>0, <2>1
    <3>2. QED
      BY <3>1, AgedFrom
  <2>3. QED
    BY <1>0, <2>1, <2>2 DEF Quiet, Noted
<1>3. CASE ~ Outgrows(c) /\ ~ WatchdogFires(c)
  <2>1. [session EXCEPT ![c] = session[c]] = session
    BY <1>0
  <2>2. UNCHANGED <<session, resumable, spawning>>
    BY <1>0, <1>3, <2>1 DEF TurnStep, RefuseNext, ReadSummary, SummaryRead, SendTurn, RpcReturns,
      StartDrain, TurnAnswered, AgentFails, ConnectionLost, SlotAnswersTurn, TurnOver, pool
  <2>3. QED
    BY <2>2, UnchangedIsQuiet
<1>4. QED
  BY <1>1, <1>2, <1>3

\* So is one of the child: its exit records the id again.
LEMMA ChildIsQuiet ==
  ASSUME Inv, NEW c \in Children, ChildStep(c)
  PROVE  Quiet
<1>0. /\ session \in [Children -> Session] /\ session[c] \in Session
      /\ resumable \in [Keys -> Maybe] /\ spawning' = spawning
  BY DEF Inv, TypeOK, ChildStep, ConnectionCloses, ChildExits, IdleFires, pool
<1>1. session' \in {[session EXCEPT ![c] = Ended(session[c])],
                    [session EXCEPT ![c] = [session[c] EXCEPT !.aborted = TRUE]],
                    [session EXCEPT ![c] = [session[c] EXCEPT !.exited = TRUE]],
                    [session EXCEPT ![c] = [session[c] EXCEPT !.exited = TRUE, !.closed = TRUE]]}
  BY <1>0 DEF ChildStep, ConnectionCloses, ChildExits, IdleFires
<1>2. \A d \in Children \ {c} : session'[d] = session[d]
  BY <1>0, <1>1
<1>3. session'[c] \in {Ended(session[c]), [session[c] EXCEPT !.aborted = TRUE],
                       [session[c] EXCEPT !.exited = TRUE],
                       [session[c] EXCEPT !.exited = TRUE, !.closed = TRUE]}
  BY <1>0, <1>1
<1>4. ASSUME NEW d \in Children PROVE Aged(d)
  <2>1. CASE d = c
    BY <1>3, <2>1, AgedFrom
  <2>2. CASE d # c
    <3>1. session'[d] = session[d]
      BY <1>2, <2>2
    <3>2. QED
      BY <3>1, AgedFrom
  <2>3. QED
    BY <2>1, <2>2
<1>5. ASSUME NEW k \in Keys PROVE Noted(k)
  <2>1. \/ resumable' = resumable
        \/ session[c].phase = "up" /\ resumable' = Remember(resumable, session[c])
    BY DEF ChildStep, ConnectionCloses, ChildExits, IdleFires, pool
  <2>2. QED
    BY <1>0, <2>1 DEF Remember, Noted
<1>6. QED
  BY <1>0, <1>4, <1>5 DEF Quiet

\* So is ending an agent's sessions, which records theirs.
LEMMA ReloadIsQuiet ==
  ASSUME Inv, NEW a \in Agents, KillAgentSessions(a)
  PROVE  Quiet
<1>. DEFINE mine == {k \in Keys : AgentOf[k] = a /\ entries[k] # None}
<1>0. resumable \in [Keys -> Maybe]
  BY DEF Inv, TypeOK
<1>1. /\ \A c \in Children : session'[c] \in {Ended(session[c]), session[c]}
      /\ \A k \in Keys : resumable'[k] = IF k \in mine
                                         THEN Remember(resumable, session[entries[k]])[k]
                                         ELSE resumable[k]
      /\ spawning' = spawning
  BY DEF KillAgentSessions
<1>2. ASSUME NEW c \in Children PROVE Aged(c)
  BY <1>1, AgedFrom
<1>3. ASSUME NEW k \in Keys PROVE Noted(k)
  <2>1. CASE k \in mine
    <3>1. /\ entries[k] \in Children /\ session[entries[k]].phase = "up"
          /\ session[entries[k]].key = k
      BY <2>1, MaybeType DEF Inv, TypeOK, Bound
    <3>2. resumable'[k] \in {resumable[k], session[entries[k]].convo}
      BY <1>0, <1>1, <2>1, <3>1 DEF Remember
    <3>3. QED
      BY <3>1, <3>2 DEF Noted
  <2>2. CASE k \notin mine
    BY <1>1, <2>2 DEF Noted
  <2>3. QED
    BY <2>1, <2>2
<1>4. QED
  BY <1>1, <1>2, <1>3 DEF Quiet

\* So are the end of every mapped session, and the end of the bridge.
LEMMA EndIsQuiet ==
  ASSUME Inv, Shutdown \/ BridgeRestarts
  PROVE  Quiet
<1>0. session \in [Children -> Session]
  BY DEF Inv, TypeOK
<1>1. resumable' = resumable /\ \A k \in Keys : spawning'[k] \in {spawning[k], None}
  BY DEF Shutdown, BridgeRestarts
<1>2. ASSUME NEW c \in Children PROVE Aged(c)
  <2>. PICK s \in Session : s = session[c]
    BY <1>0
  <2>1. CASE Shutdown
    <3>1. session'[c] \in {[Kill(s) EXCEPT !.flushed = TRUE], s}
      BY <2>1 DEF Shutdown
    <3>2. QED
      BY <3>1 DEF Kill, Session, Aged
  <2>2. CASE BridgeRestarts
    <3>1. session'[c] = CASE s.phase = "up" -> [s EXCEPT !.phase = "gone"]
                          [] s.phase \in Handshake -> Failed(s)
                          [] OTHER -> s
      BY <2>2 DEF BridgeRestarts
    <3>2. "up" \notin Handshake
      BY DEF Handshake
    <3>3. CASE s.phase = "up"
      BY <3>1, <3>2, <3>3 DEF Session, Aged
    <3>4. CASE s.phase \in Handshake
      <4>1. session'[c] = Failed(s)
        BY <3>1, <3>2, <3>4
      <4>2. /\ Failed(s).key = s.key /\ Failed(s).convo = s.convo
            /\ Failed(s).refused = s.refused /\ Failed(s).outgrown = s.outgrown
            /\ Failed(s).phase = "failed"
        BY DEF Failed, Session
      <4>3. QED
        BY <3>4, <4>1, <4>2 DEF Aged
    <3>5. CASE s.phase # "up" /\ s.phase \notin Handshake
      BY <3>1, <3>5 DEF Session, Aged
    <3>6. QED
      BY <3>3, <3>4, <3>5
  <2>3. QED
    BY <2>1, <2>2
<1>3. QED
  BY <1>1, <1>2 DEF Quiet, Noted

\* So is a handshake that fails.
LEMMA FailureIsQuiet ==
  ASSUME Inv, NEW c \in Children, HandshakeFails(c)
  PROVE  Quiet
<1>0. session \in [Children -> Session] /\ spawning \in [Keys -> Maybe]
  BY DEF Inv, TypeOK
<1>1. /\ session' = [session EXCEPT ![c] = Failed(@)] /\ session[c].phase \in Handshake
      /\ resumable' = resumable
      /\ spawning' = [spawning EXCEPT ![session[c].key] = None]
  BY DEF HandshakeFails
<1>2. ASSUME NEW d \in Children PROVE Aged(d)
  <2>1. CASE d = c
    BY <1>0, <1>1, <2>1 DEF Failed, Session, Aged
  <2>2. CASE d # c
    <3>1. session'[d] = session[d]
      BY <1>0, <1>1, <2>2
    <3>2. QED
      BY <3>1 DEF Aged
  <2>3. QED
    BY <2>1, <2>2
<1>3. QED
  BY <1>0, <1>1, <1>2 DEF Quiet, Noted

\* What a step of the handshake with child c owes the conversations: the rest of the
\* children only age, and c is the youngest of its pair.
LEMMA HandshakeKeeps ==
  ASSUME Inv, Conversations, NEW c \in Children, session[c].phase \in Handshake,
         \A d \in Children \ {c} : Aged(d),
         session'[c].key = session[c].key,
         session[c].refused # None => session'[c].refused # None,
         session[c].outgrown => session'[c].outgrown,
         session'[c].phase \in {"loading", "opening", "selecting", "up"},
         Fresh(c)' => Fresh(c),
         session'[c].phase # "opening" => session'[c].convo # None,
         \A j \in Keys : spawning'[j] \in {spawning[j], None},
         \A x \in Children : Fresh(x)' =>
           (\A j \in Keys : resumable'[j] # x) /\ session'[c].convo # x,
         \A d \in Children : Was(d)' =>
           resumable'[session[d].key] # None \/ LostBy(d, MaxSpawns) \/ LostBy(d, MaxSpawns)',
         session'[c].phase = "opening" \/ session'[c].convo = c =>
           \A d \in Children : d < c /\ session[d].key = session[c].key /\ Was(d) =>
             LostBy(d, c) \/ LostBy(d, c)'
  PROVE  Conversations'
<1>0. /\ session[c].key \in Keys /\ spawning[session[c].key] = c
      /\ \A d \in Children : session[d].phase # "unborn" => session[d].key \in Keys
      /\ session[c].phase \notin {"unborn", "up", "gone"}
      /\ MaxSpawns \in 0 .. MaxSpawns
  BY SessionAssumption DEF Inv, Owned, Handshake
<1>1. \A d \in Children : session[d].key = session[c].key => d <= c
  BY <1>0, MaybeType DEF Conversations, Named
<1>2. ASSUME NEW d \in Children, NEW n \in 0 .. MaxSpawns, LostBy(d, n),
             session[d].phase # "unborn"
      PROVE  LostBy(d, n)'
  BY <1>0, <1>2, LossStays DEF Conversations, Aged
<1>3. \A d \in Children : session'[d].key = session[d].key
  BY DEF Aged
<1>4. \A d \in Children \ {c} :
        /\ Was(d)' => Was(d) /\ session[d].phase # "unborn"
        /\ Fresh(d)' => Fresh(d)
        /\ session'[d].phase = "opening" => session[d].phase = "opening"
        /\ session'[d].convo = session[d].convo
  BY DEF Aged, Was, Fresh
<1>5. ASSUME NEW d \in Children
      PROVE  /\ session'[d].phase = "unborn" => session'[d].key = None
             /\ session'[d].phase \in {"unborn", "init"} => session'[d].refused = None
             /\ session'[d].phase \in {"loading", "selecting", "up", "gone"} =>
                  session'[d].convo # None
  <2>1. CASE d = c
    BY <2>1
  <2>2. CASE d # c
    <3>1. Aged(d)
      BY <2>2
    <3>2. QED
      BY <3>1 DEF Aged, Conversations, Named, Handshake
  <2>3. QED
    BY <2>1, <2>2
<1>6. ASSUME NEW x \in Children, Fresh(x)'
      PROVE  /\ \A k \in Keys : resumable'[k] # x
             /\ \A d \in Children : session'[d].convo # x
  <2>1. Fresh(x)
    BY <1>4, <1>6
  <2>2. \A d \in Children \ {c} : session'[d].convo # x
    BY <1>4, <2>1 DEF Conversations, Named
  <2>3. QED
    BY <1>6, <2>2
<1>7. ASSUME NEW d \in Children, NEW k \in Keys, spawning'[k] # None, session'[d].key = k
      PROVE  d <= spawning'[k]
  BY <1>3, <1>7 DEF Conversations, Named
<1>8. ASSUME NEW d \in Children, Was(d)'
      PROVE  resumable'[session'[d].key] # None \/ LostBy(d, MaxSpawns)'
  <2>1. session[d].phase # "unborn"
    BY <1>0, <1>4, <1>8
  <2>2. QED
    BY <1>0, <1>2, <1>3, <1>8, <2>1
<1>9. Named'
  BY <1>5, <1>6, <1>7, <1>8 DEF Named
<1>10. NewForAReason'
  <2>. SUFFICES ASSUME NEW b \in Children, NEW d \in Children,
                       b < d, session'[b].key = session'[d].key, Was(b)',
                       session'[d].phase = "opening" \/ session'[d].convo = d
                PROVE  LostBy(b, d)'
    BY DEF NewForAReason
  <2>1. session[b].key = session[d].key /\ d \in 0 .. MaxSpawns /\ b \in Int /\ d \in Int
    BY <1>3 DEF Children
  <2>2. b # c
    BY <1>1, <2>1 DEF Children
  <2>3. Was(b) /\ session[b].phase # "unborn"
    BY <1>4, <2>2
  <2>4. CASE d = c
    BY <1>2, <2>1, <2>3, <2>4
  <2>5. CASE d # c
    <3>1. LostBy(b, d)
      BY <1>4, <2>1, <2>3, <2>5 DEF Conversations, NewForAReason
    <3>2. QED
      BY <1>2, <2>1, <2>3, <3>1
  <2>6. QED
    BY <2>4, <2>5
<1>11. QED
  BY <1>9, <1>10 DEF Conversations

\* A loss that reached the pair of a child in its handshake reached it by then.
LEMMA LostSoFar ==
  ASSUME Inv, Conversations, NEW c \in Children, session[c].phase \in Handshake,
         NEW d \in Children, session[d].key = session[c].key, LostBy(d, MaxSpawns)
  PROVE  LostBy(d, c)
<1>1. session[c].key \in Keys /\ spawning[session[c].key] = c /\ c # None
  BY MaybeType DEF Inv, Owned, Handshake
<1>2. PICK e \in 1 .. MaxSpawns : /\ session[e].key = session[d].key
                                  /\ (d < e /\ session[e].refused # None) \/ session[e].outgrown
  BY DEF LostBy
<1>3. e <= c
  BY <1>1, <1>2 DEF Conversations, Named, Children
<1>4. e \in 1 .. c
  BY <1>2, <1>3 DEF Children
<1>5. QED
  BY <1>2, <1>4 DEF LostBy

\* The id to resume is read, and loaded or not.
LEMMA InitializedKeeps ==
  ASSUME Inv, Conversations, NEW c \in Children, Initialized(c)
  PROVE  Conversations'
<1>. DEFINE id == resumable[session[c].key]
<1>0. /\ session \in [Children -> Session] /\ session[c] \in Session
      /\ session[c].phase = "init" /\ session[c].phase \in Handshake /\ session[c].key \in Keys
      /\ resumable' = resumable /\ spawning' = spawning
      /\ session[c].refused = None
      /\ Fresh(c)
  BY DEF Inv, TypeOK, Owned, Initialized, Handshake, pool, Conversations, Named, Fresh
<1>1. \/ /\ id # None
         /\ session' = [session EXCEPT ![c] = [session[c] EXCEPT !.phase = "loading",
                                                                 !.convo = id]]
      \/ session' = [session EXCEPT ![c] = [session[c] EXCEPT !.phase = "opening",
                                                              !.refused = id]]
  BY <1>0 DEF Initialized
<1>2. \A d \in Children \ {c} : session'[d] = session[d]
  BY <1>0, <1>1
<1>3. \A d \in Children \ {c} : Aged(d)
  BY <1>2 DEF Aged
<1>4. /\ session'[c].key = session[c].key /\ session'[c].outgrown = session[c].outgrown
      /\ \/ /\ id # None /\ session'[c].phase = "loading" /\ session'[c].convo = id
         \/ /\ session'[c].phase = "opening" /\ session'[c].refused = id
            /\ session'[c].convo = session[c].convo
  <2>. PICK s \in Session : s = session[c]
    BY <1>0
  <2>. PICK i : i = id
    OBVIOUS
  <2>1. \/ i # None /\ session'[c] = [s EXCEPT !.phase = "loading", !.convo = i]
        \/ session'[c] = [s EXCEPT !.phase = "opening", !.refused = i]
    BY <1>0, <1>1
  <2>2. CASE i # None /\ session'[c] = [s EXCEPT !.phase = "loading", !.convo = i]
    BY <2>2 DEF Session
  <2>3. CASE session'[c] = [s EXCEPT !.phase = "opening", !.refused = i]
    BY <2>3 DEF Session
  <2>4. QED
    BY <2>1, <2>2, <2>3
<1>5. \A x \in Children : Fresh(x)' => Fresh(x)
  BY <1>0, <1>2 DEF Fresh
<1>6. \A x \in Children : Fresh(x)' =>
        (\A j \in Keys : resumable'[j] # x) /\ session'[c].convo # x
  BY <1>0, <1>4, <1>5 DEF Conversations, Named
<1>7. \A d \in Children : Was(d)' => Was(d)
  BY <1>2, <1>4 DEF Was
<1>8. \A d \in Children : Was(d)' =>
        resumable'[session[d].key] # None \/ LostBy(d, MaxSpawns)
  BY <1>0, <1>7 DEF Conversations, Named
<1>9. ASSUME session'[c].phase = "opening" \/ session'[c].convo = c,
             NEW d \in Children, d < c, session[d].key = session[c].key, Was(d)
      PROVE  LostBy(d, c) \/ LostBy(d, c)'
  <2>1. session'[c].phase = "opening" /\ session'[c].refused = id
    BY <1>0, <1>4, <1>9 DEF Conversations, Named
  <2>2. CASE id = None
    <3>1. LostBy(d, MaxSpawns)
      BY <1>9, <2>2 DEF Conversations, Named
    <3>2. QED
      BY <1>0, <1>9, <3>1, LostSoFar
  <2>3. CASE id # None
    <3>1. session'[d].key = session[d].key
      BY <1>2, <1>4
    <3>2. c \in 1 .. c /\ session'[c].key = session'[d].key /\ session'[c].refused # None
      BY <1>4, <1>9, <2>1, <2>3, <3>1 DEF Children
    <3>3. QED
      BY <1>9, <3>2 DEF LostBy
  <2>4. QED
    BY <2>2, <2>3
<1>10. session'[c].phase \in {"loading", "opening"} /\ (session'[c].phase # "opening" => session'[c].convo # None)
  BY <1>4
<1>11. QED
  BY <1>0, <1>3, <1>4, <1>5, <1>6, <1>8, <1>9, <1>10, HandshakeKeeps

\* The conversation was loaded, or a new one made.
LEMMA SelectingKeeps ==
  ASSUME Inv, Conversations, NEW c \in Children, SessionLoaded(c) \/ SessionCreated(c)
  PROVE  Conversations'
<1>0. /\ session \in [Children -> Session] /\ session[c] \in Session
      /\ session[c].phase \in {"loading", "opening"} /\ session[c].phase \in Handshake
      /\ session[c].key \in Keys
      /\ resumable' = resumable /\ spawning' = spawning
      /\ Fresh(c) /\ c # None
  BY MaybeType DEF Inv, TypeOK, Owned, SessionLoaded, SessionCreated, Handshake, pool, Fresh
<1>1. \/ /\ session[c].phase = "loading"
         /\ session' = [session EXCEPT ![c] = [session[c] EXCEPT !.phase = "selecting"]]
      \/ /\ session[c].phase = "opening"
         /\ session' = [session EXCEPT ![c] = [session[c] EXCEPT !.phase = "selecting",
                                                                 !.convo = c]]
  BY <1>0 DEF SessionLoaded, SessionCreated
<1>2. \A d \in Children \ {c} : session'[d] = session[d]
  BY <1>0, <1>1
<1>3. \A d \in Children \ {c} : Aged(d)
  BY <1>2 DEF Aged
<1>4. /\ session'[c].key = session[c].key /\ session'[c].outgrown = session[c].outgrown
      /\ session'[c].refused = session[c].refused
      /\ session'[c].phase = "selecting"
      /\ \/ session[c].phase = "loading" /\ session'[c].convo = session[c].convo
         \/ session[c].phase = "opening" /\ session'[c].convo = c
  <2>. PICK s \in Session : s = session[c]
    BY <1>0
  <2>1. CASE s.phase = "loading" /\ session'[c] = [s EXCEPT !.phase = "selecting"]
    BY <2>1 DEF Session
  <2>2. CASE s.phase = "opening" /\ session'[c] = [s EXCEPT !.phase = "selecting", !.convo = c]
    BY <2>2 DEF Session
  <2>3. QED
    BY <1>0, <1>1, <2>1, <2>2
<1>5. \A x \in Children : Fresh(x)' => Fresh(x) /\ x # c
  BY <1>2, <1>4 DEF Fresh
<1>6. \A x \in Children : Fresh(x)' =>
        (\A j \in Keys : resumable'[j] # x) /\ session'[c].convo # x
  BY <1>0, <1>4, <1>5 DEF Conversations, Named
<1>7. \A d \in Children : Was(d)' => Was(d)
  BY <1>2, <1>4 DEF Was
<1>8. \A d \in Children : Was(d)' =>
        resumable'[session[d].key] # None \/ LostBy(d, MaxSpawns)
  BY <1>0, <1>7 DEF Conversations, Named
<1>9. ASSUME session'[c].phase = "opening" \/ session'[c].convo = c,
             NEW d \in Children, d < c, session[d].key = session[c].key, Was(d)
      PROVE  LostBy(d, c)
  <2>1. session[c].phase = "opening"
    BY <1>0, <1>4, <1>9 DEF Conversations, Named
  <2>2. QED
    BY <1>9, <2>1 DEF Conversations, NewForAReason
<1>10. session'[c].convo # None
  BY <1>0, <1>4 DEF Conversations, Named
<1>11. QED
  BY <1>0, <1>3, <1>4, <1>5, <1>6, <1>8, <1>9, <1>10, HandshakeKeeps

\* The runtime did not load the conversation: the pair's loss has a reason.
LEMMA LoadFailedKeeps ==
  ASSUME Inv, Conversations, NEW c \in Children, LoadFailed(c)
  PROVE  Conversations'
<1>. DEFINE k == session[c].key
<1>0. /\ session \in [Children -> Session] /\ session[c] \in Session
      /\ session[c].phase = "loading" /\ session[c].phase \in Handshake /\ k \in Keys
      /\ resumable \in [Keys -> Maybe]
      /\ spawning[k] = c /\ spawning' = spawning
      /\ Fresh(c) /\ session[c].convo # None /\ c # None
  BY MaybeType DEF Inv, TypeOK, Owned, LoadFailed, Handshake, Fresh, Conversations, Named
<1>1. /\ session' = [session EXCEPT ![c] = [session[c] EXCEPT !.phase = "opening", !.convo = None,
                                                              !.refused = session[c].convo]]
      /\ resumable' = Forget(resumable, k, session[c].convo)
  BY <1>0 DEF LoadFailed
<1>2. \A d \in Children \ {c} : session'[d] = session[d]
  BY <1>0, <1>1
<1>3. \A d \in Children \ {c} : Aged(d)
  BY <1>2 DEF Aged
<1>4. /\ session'[c].key = k /\ session'[c].outgrown = session[c].outgrown
      /\ session'[c].refused # None /\ session'[c].phase = "opening"
      /\ session'[c].convo = None
  BY <1>0, <1>1 DEF Session
<1>5. \A x \in Children : Fresh(x)' => Fresh(x) /\ x # None
  BY <1>0, <1>2, MaybeType DEF Fresh
<1>6. \A x \in Children : Fresh(x)' =>
        (\A j \in Keys : resumable'[j] # x) /\ session'[c].convo # x
  BY <1>0, <1>1, <1>4, <1>5 DEF Conversations, Named, Forget
<1>7. \A d \in Children : Was(d)' => Was(d) /\ d # c
  BY <1>2, <1>4 DEF Was
<1>8. ASSUME NEW d \in Children, session[d].key = k, d # c, NEW n \in {c, MaxSpawns}
      PROVE  LostBy(d, n)'
  <2>1. d < c
    BY <1>0, <1>8 DEF Conversations, Named, Children
  <2>2. c \in 1 .. n /\ session'[d].key = session'[c].key
    BY <1>2, <1>4, <1>8 DEF Children
  <2>3. QED
    BY <1>4, <2>1, <2>2 DEF LostBy
<1>9. ASSUME NEW d \in Children, Was(d)'
      PROVE  \/ resumable'[session[d].key] # None
             \/ LostBy(d, MaxSpawns) \/ LostBy(d, MaxSpawns)'
  <2>1. CASE session[d].key = k
    BY <1>7, <1>8, <1>9, <2>1
  <2>2. CASE session[d].key # k
    <3>1. session[d].key \in Keys
      BY <1>7, <1>9 DEF Inv, Owned, Was
    <3>2. resumable'[session[d].key] = resumable[session[d].key]
      BY <1>0, <1>1, <2>2, <3>1 DEF Forget
    <3>3. QED
      BY <1>7, <1>9, <3>2 DEF Conversations, Named
  <2>3. QED
    BY <2>1, <2>2
<1>10. \A d \in Children : d < c /\ session[d].key = k /\ Was(d) => LostBy(d, c)'
  BY <1>8 DEF Children
<1>11. QED
  BY <1>0, <1>3, <1>4, <1>5, <1>6, <1>9, <1>10, HandshakeKeeps

\* The session starts: its id is recorded, and so are those of the sessions it is
\* mapped in the place of.
LEMMA DoneKeeps ==
  ASSUME Inv, Conversations, NEW c \in Children, HandshakeDone(c)
  PROVE  Conversations'
<1>. DEFINE k == session[c].key
            ids == Remember(resumable, session[c])
<1>0. /\ session \in [Children -> Session] /\ session[c] \in Session
      /\ session[c].phase = "selecting" /\ session[c].phase \in Handshake /\ k \in Keys
      /\ resumable \in [Keys -> Maybe] /\ spawning \in [Keys -> Maybe]
      /\ spawning' = [spawning EXCEPT ![k] = None]
      /\ session[c].convo # None
      /\ \A j \in Keys : entries[j] # None => entries[j] \in Children
  BY MaybeType DEF Inv, TypeOK, Owned, HandshakeDone, Handshake, Conversations, Named
<1>. PICK V \in SUBSET Keys : MapsInPlaceOf(c, V)
  BY MappedInPlace
<1>1. /\ session'[c] = [session[c] EXCEPT !.phase = "up"]
      /\ \A d \in Children \ {c} : session'[d] \in {Ended(session[d]), session[d]}
      /\ \A j \in V : j # k /\ entries[j] # None
      /\ \A j \in Keys : resumable'[j] = IF j \in V THEN Remember(ids, session[entries[j]])[j]
                                         ELSE ids[j]
  BY DEF MapsInPlaceOf
<1>2. \A d \in Children \ {c} : Aged(d)
  BY <1>1, AgedFrom
<1>3. /\ session'[c].key = k /\ session'[c].outgrown = session[c].outgrown
      /\ session'[c].refused = session[c].refused
      /\ session'[c].phase = "up" /\ session'[c].convo = session[c].convo
  BY <1>0, <1>1 DEF Session
<1>4. ids \in [Keys -> Maybe]
  BY <1>0, RememberType
<1>5. \A j \in Keys : ids[j] = resumable[j]
                      \/ (j = k /\ ids[j] = session[c].convo /\ ~ session[c].outgrown)
  BY <1>0 DEF Remember
<1>6. ASSUME NEW j \in Keys
      PROVE  \/ resumable'[j] = resumable[j]
             \/ \E d \in Children : /\ session[d].convo # None
                                    /\ resumable'[j] = session[d].convo
  <2>1. CASE j \in V
    <3>1. entries[j] \in Children /\ session[entries[j]].key = j /\ session[entries[j]].phase = "up"
      BY <1>0, <1>1, <2>1 DEF Inv, Bound
    <3>2. session[entries[j]].convo # None
      BY <3>1 DEF Conversations, Named
    <3>3. resumable'[j] \in {ids[j], session[entries[j]].convo}
      BY <1>1, <1>4, <2>1, <3>1 DEF Remember
    <3>4. QED
      BY <1>0, <1>5, <3>1, <3>2, <3>3
  <2>2. CASE j \notin V
    BY <1>0, <1>1, <1>5, <2>2
  <2>3. QED
    BY <2>1, <2>2
<1>7. resumable'[k] # None \/ session[c].outgrown
  BY <1>0, <1>1 DEF Remember
<1>8. \A x \in Children : Fresh(x)' => Fresh(x)
  BY <1>2, <1>3 DEF Aged, Fresh
<1>9. \A x \in Children : Fresh(x)' =>
        (\A j \in Keys : resumable'[j] # x) /\ session'[c].convo # x
  BY <1>3, <1>6, <1>8 DEF Conversations, Named
<1>10. ASSUME NEW d \in Children, Was(d)'
       PROVE  resumable'[session[d].key] # None \/ LostBy(d, MaxSpawns)
  <2>1. CASE d = c
    <3>1. session[c].outgrown => LostBy(c, MaxSpawns)
      BY DEF LostBy, Children
    <3>2. QED
      BY <1>7, <2>1, <3>1
  <2>2. CASE d # c
    <3>1. Was(d)
      BY <1>2, <1>10, <2>2 DEF Aged, Was
    <3>2. session[d].key \in Keys
      BY <3>1 DEF Inv, Owned, Was
    <3>3. QED
      BY <1>6, <3>1, <3>2 DEF Conversations, Named
  <2>3. QED
    BY <2>1, <2>2
<1>11. ASSUME session'[c].phase = "opening" \/ session'[c].convo = c,
              NEW d \in Children, d < c, session[d].key = session[c].key, Was(d)
       PROVE  LostBy(d, c)
  BY <1>3, <1>11 DEF Conversations, NewForAReason
<1>12. \A j \in Keys : spawning'[j] \in {spawning[j], None}
  BY <1>0
<1>13. QED
  BY <1>0, <1>2, <1>3, <1>8, <1>9, <1>10, <1>11, <1>12, HandshakeKeeps

\* A new child has no conversation, and is the youngest.
LEMMA SpawnKeeps ==
  ASSUME Inv, Conversations, NEW p \in Prompts, PromptSpawns(p)
  PROVE  Conversations'
<1>. DEFINE k == KeyOf[p]
<1>0. /\ session \in [Children -> Session] /\ spawning \in [Keys -> Maybe]
      /\ resumable \in [Keys -> Maybe] /\ spawned \in 0 .. MaxSpawns
      /\ MaxSpawns \in 0 .. MaxSpawns /\ k \in Keys /\ k # None
      /\ spawning[k] = None
      /\ spawned + 1 \in Children
  BY SessionAssumption DEF Inv, TypeOK, PromptSpawns, Children
<1>. PICK c \in Children : c = spawned + 1
  BY <1>0
<1>1. /\ session' = [session EXCEPT ![c] = [Unborn EXCEPT !.key = k,
                       !.revision = revision[AgentOf[k]], !.phase = "init"]]
      /\ spawning' = [spawning EXCEPT ![k] = c]
      /\ DropStale(k)
  BY DEF PromptSpawns
<1>2. /\ \A d \in Children : session[d].phase # "unborn" => d < c /\ session[d].key \in Keys
      /\ session[c].phase = "unborn"
  BY <1>0 DEF Inv, Owned, Children
<1>3. /\ session'[c].key = k /\ session'[c].phase = "init" /\ session'[c].convo = None
      /\ session'[c].refused = None
      /\ \A d \in Children \ {c} : session'[d] = session[d]
  BY <1>0, <1>1 DEF Unborn
<1>4. ASSUME NEW d \in Children, NEW n \in 0 .. MaxSpawns, LostBy(d, n),
             session[d].phase # "unborn"
      PROVE  LostBy(d, n)'
  <2>1. \A e \in Children : session[e].phase # "unborn" => session'[e] = session[e]
    BY <1>2, <1>3
  <2>2. QED
    BY <1>2, <1>4, <2>1, LossStays DEF Conversations
<1>5. \A x \in Children : Fresh(x)' => Fresh(x) /\ x # None
  BY <1>2, <1>3, MaybeType DEF Fresh
<1>6. \A j \in Keys : \/ resumable'[j] = resumable[j]
                      \/ \E d \in Children : session[d].phase = "up"
                                             /\ resumable'[j] = session[d].convo
  <2>1. CASE entries[k] = None
    BY <1>1, <2>1 DEF DropStale
  <2>2. CASE entries[k] # None
    <3>1. entries[k] \in Children /\ session[entries[k]].key = k /\ session[entries[k]].phase = "up"
      BY <1>0, <2>2, MaybeType DEF Inv, TypeOK, Bound
    <3>2. QED
      BY <1>0, <1>1, <2>2, <3>1 DEF DropStale, Remember
  <2>3. QED
    BY <2>1, <2>2
<1>7. ASSUME NEW x \in Children, Fresh(x)'
      PROVE  /\ \A j \in Keys : resumable'[j] # x
             /\ \A d \in Children : session'[d].convo # x
  BY <1>3, <1>5, <1>6, <1>7 DEF Conversations, Named
<1>8. ASSUME NEW d \in Children, NEW j \in Keys, spawning'[j] # None, session'[d].key = j
      PROVE  d <= spawning'[j]
  <2>1. CASE j = k
    <3>1. spawning'[j] = c
      BY <1>0, <1>1, <2>1
    <3>2. d = c \/ session[d].phase # "unborn"
      BY <1>0, <1>3, <1>8, <2>1 DEF Conversations, Named
    <3>3. QED
      BY <1>2, <3>1, <3>2 DEF Children
  <2>2. CASE j # k
    BY <1>0, <1>1, <1>3, <1>8, <2>2 DEF Conversations, Named
  <2>3. QED
    BY <2>1, <2>2
<1>9. ASSUME NEW d \in Children, Was(d)'
      PROVE  d # c /\ Was(d) /\ session[d].phase # "unborn" /\ session[d].key \in Keys
             /\ session'[d] = session[d]
  BY <1>2, <1>3, <1>9 DEF Was
<1>10. ASSUME NEW d \in Children, Was(d)'
       PROVE  resumable'[session'[d].key] # None \/ LostBy(d, MaxSpawns)'
  <2>1. resumable[session[d].key] # None \/ LostBy(d, MaxSpawns)
    BY <1>9, <1>10 DEF Conversations, Named
  <2>2. \A e \in Children : session[e].phase = "up" => session[e].convo # None
    BY DEF Conversations, Named
  <2>3. session'[d].key = session[d].key /\ session[d].key \in Keys /\ session[d].phase # "unborn"
    BY <1>9, <1>10
  <2>4. CASE LostBy(d, MaxSpawns)
    BY <1>0, <1>4, <2>3, <2>4
  <2>5. CASE resumable[session[d].key] # None
    <3>1. resumable'[session[d].key] # None
      BY <1>6, <2>2, <2>3, <2>5
    <3>2. QED
      BY <2>3, <3>1
  <2>6. QED
    BY <2>1, <2>4, <2>5
<1>11. Named'
  <2>1. ASSUME NEW d \in Children
        PROVE  /\ session'[d].phase = "unborn" => session'[d].key = None
               /\ session'[d].phase \in {"unborn", "init"} => session'[d].refused = None
               /\ session'[d].phase \in {"loading", "selecting", "up", "gone"} =>
                    session'[d].convo # None
    BY <1>3 DEF Conversations, Named
  <2>2. QED
    BY <1>7, <1>8, <1>10, <2>1 DEF Named
<1>12. NewForAReason'
  <2>. SUFFICES ASSUME NEW b \in Children, NEW d \in Children,
                       b < d, session'[b].key = session'[d].key, Was(b)',
                       session'[d].phase = "opening" \/ session'[d].convo = d
                PROVE  LostBy(b, d)'
    BY DEF NewForAReason
  <2>1. d # c
    BY <1>3, MaybeType
  <2>2. session'[d] = session[d] /\ d \in 0 .. MaxSpawns
    BY <1>3, <2>1 DEF Children
  <2>3. LostBy(b, d)
    BY <1>9, <2>2 DEF Conversations, NewForAReason
  <2>4. QED
    BY <1>4, <1>9, <2>2, <2>3
<1>13. QED
  BY <1>11, <1>12 DEF Conversations

\* Initially there is no child.
LEMMA ConversationsInit == Init => Conversations
<1>. SUFFICES ASSUME Init PROVE Conversations
  OBVIOUS
<1>1. \A c \in Children : session[c] = Unborn /\ c # None
  BY MaybeType DEF Init
<1>2. \A k \in Keys : resumable[k] = None /\ spawning[k] = None
  BY DEF Init
<1>3. Named
  BY <1>1, <1>2 DEF Named, Unborn, Was
<1>4. NewForAReason
  BY <1>1 DEF NewForAReason, Unborn, Was
<1>5. QED
  BY <1>3, <1>4 DEF Conversations

\* Every step keeps the conversations.
LEMMA ConversationsStep == Inv /\ Conversations /\ [Next]_vars => Conversations'
<1>. SUFFICES ASSUME Inv, Conversations, [Next]_vars PROVE Conversations'
  OBVIOUS
<1>1. ASSUME Quiet PROVE Conversations'
  BY <1>1, QuietKeeps
<1>2. ASSUME UNCHANGED <<session, resumable, spawning>> PROVE Conversations'
  BY <1>1, <1>2, UnchangedIsQuiet
<1>3. ASSUME NEW p \in Prompts, PromptStep(p) PROVE Conversations'
  <2>1. CASE PromptSpawns(p)
    BY <2>1, SpawnKeeps
  <2>2. CASE PromptJoinsSpawn(p)
    <3>1. session' = session /\ spawning' = spawning /\ DropStale(KeyOf[p]) /\ KeyOf[p] \in Keys
      BY <2>2, SessionAssumption DEF PromptJoinsSpawn
    <3>2. \A c \in Children : Aged(c)
      BY <3>1 DEF Aged
    <3>3. Quiet
      BY <3>1, <3>2, DropStaleNotes DEF Quiet
    <3>4. QED
      BY <1>1, <3>3
  <2>3. CASE ~ PromptSpawns(p) /\ ~ PromptJoinsSpawn(p)
    BY <1>2, <1>3, <2>3 DEF PromptStep, PromptRefused, PromptJoinsSession, SlotAnswersStart,
      PromptAlongside, AlongsideEnds, pool
  <2>4. QED
    BY <2>1, <2>2, <2>3
<1>4. ASSUME NEW c \in Children, HandshakeStep(c) PROVE Conversations'
  BY <1>1, <1>4, InitializedKeeps, SelectingKeeps, LoadFailedKeeps, DoneKeeps, FailureIsQuiet
    DEF HandshakeStep
<1>5. ASSUME NEW a \in Agents, ReloadStep(a) PROVE Conversations'
  <2>1. CASE AddAgent(a)
    BY <1>2, <2>1 DEF AddAgent, pool
  <2>2. CASE KillAgentSessions(a)
    BY <1>1, <2>2, ReloadIsQuiet
  <2>3. QED
    BY <1>5, <2>1, <2>2 DEF ReloadStep, ReplaceAgent, RemoveAgent
<1>6. ASSUME NEW n \in Limits, ApplySession(n) PROVE Conversations'
  BY <1>2, <1>6 DEF ApplySession, pool
<1>7. CASE StopStartingTurns
  BY <1>2, <1>7 DEF StopStartingTurns, pool
<1>8. CASE Shutdown \/ BridgeRestarts
  BY <1>1, <1>8, EndIsQuiet
<1>9. CASE UNCHANGED vars
  BY <1>2, <1>9 DEF vars, pool
<1>10. QED
  BY <1>1, <1>3, <1>4, <1>5, <1>6, <1>7, <1>8, <1>9, TurnIsQuiet, ChildIsQuiet DEF Next

\* A pair that was in a conversation starts another only after the runtime did not
\* load one again, or one outgrew its summary: no order of crashes, restarts of the
\* bridge, evictions, reloads and prompts loses one otherwise.
THEOREM ConversationsAreKept == Spec => []ConversationKept
<1>1. Inv /\ Conversations => ConversationKept
  <2>. SUFFICES ASSUME Inv, Conversations, NEW c \in Children, NEW d \in Children,
                       c < d, session[c].key = session[d].key,
                       session[c].phase \in {"up", "gone"}, session[d].convo = d
                PROVE  \E e \in 1 .. d :
                         /\ session[e].key = session[d].key
                         /\ (c < e /\ session[e].refused # None) \/ session[e].outgrown
    BY DEF ConversationKept
  <2>1. LostBy(c, d)
    BY DEF Conversations, NewForAReason, Was
  <2>2. QED
    BY <2>1 DEF LostBy
<1>2. Spec => []Conversations
  BY ConversationsInit, ConversationsStep, Invariance, PTL DEF Spec
<1>3. QED
  BY <1>1, <1>2, Invariance, PTL

-----------------------------------------------------------------------------
(* The room in the map.                                                    *)

\* What evictForCapacity leaves has room for the pair it was called for.
LEMMA RoomMade ==
  ASSUME NEW V, NEW occupied \in SUBSET Keys, NEW k \in Keys,
         MakesRoom(V, occupied, k), limit \in Nat \ {0}
  PROVE  Cardinality((occupied \ V) \cup {k}) <= limit
<1>1. IsFiniteSet(occupied) /\ IsFiniteSet(occupied \ V)
  BY FS_Subset, SessionAssumption
<1>2. /\ Cardinality(occupied) \in Nat /\ Cardinality(occupied \ V) \in Nat
      /\ Cardinality((occupied \ V) \cup {k}) \in Nat
  BY <1>1, FS_AddElement, FS_CardinalityType
<1>3. Cardinality((occupied \ V) \cup {k}) <= Cardinality(occupied \ V) + 1
  <2>1. Cardinality((occupied \ V) \cup {k}) =
          IF k \in occupied \ V THEN Cardinality(occupied \ V) ELSE Cardinality(occupied \ V) + 1
    BY <1>1, FS_AddElement
  <2>2. QED
    BY <1>2, <2>1
<1>4. CASE (V = {} /\ Cardinality(occupied) < limit) \/ Cardinality(occupied \ V) = limit - 1
  <2>1. CASE V = {} /\ Cardinality(occupied) < limit
    <3>1. occupied \ V = occupied
      BY <2>1
    <3>2. QED
      BY <1>2, <1>3, <2>1, <3>1
  <2>2. CASE Cardinality(occupied \ V) = limit - 1
    BY <1>2, <1>3, <2>2
  <2>3. QED
    BY <1>4, <2>1, <2>2
<1>5. CASE V = occupied \ {k}
  <2>1. (occupied \ V) \cup {k} = {k}
    BY <1>5
  <2>2. QED
    BY <2>1, FS_Singleton
<1>6. QED
  BY <1>4, <1>5 DEF MakesRoom

\* When a handshake is done the map is within its limit, whoever waited for it.
LEMMA RoomAtHandshake ==
  ASSUME Inv, NEW c \in Children, HandshakeDone(c)
  PROVE  Cardinality({k \in Keys : entries'[k] # None}) <= limit
<1>. DEFINE k == session[c].key
<1>0. /\ limit \in Nat \ {0} /\ k \in Keys /\ c # None /\ Occupied \in SUBSET Keys
  BY SessionAssumption, MaybeType DEF Inv, TypeOK, Owned, HandshakeDone, Handshake, Occupied
<1>1. PICK V1 \in SUBSET Keys, V2 \in SUBSET Keys :
        /\ MakesRoom(V1, Occupied, k)
        /\ MakesRoom(V2, (Occupied \ V1) \cup {k}, k) \/ V2 = {}
        /\ entries' = [j \in Keys |-> IF j = k THEN c ELSE IF j \in V1 \cup V2 THEN None
                                      ELSE entries[j]]
  BY ZenonT(60) DEF HandshakeDone
<1>2. {j \in Keys : entries'[j] # None} = (Occupied \ (V1 \cup V2)) \cup {k}
  BY <1>0, <1>1 DEF Occupied
<1>3. CASE V2 = {}
  <2>1. (Occupied \ (V1 \cup V2)) \cup {k} = (Occupied \ V1) \cup {k}
    BY <1>3
  <2>2. QED
    BY <1>0, <1>1, <1>2, <2>1, RoomMade
<1>4. CASE MakesRoom(V2, (Occupied \ V1) \cup {k}, k)
  <2>1. Cardinality((((Occupied \ V1) \cup {k}) \ V2) \cup {k}) <= limit
    BY <1>0, <1>4, RoomMade
  <2>2. (((Occupied \ V1) \cup {k}) \ V2) \cup {k} = (Occupied \ (V1 \cup V2)) \cup {k}
    OBVIOUS
  <2>3. QED
    BY <1>2, <2>1, <2>2
<1>5. QED
  BY <1>1, <1>3, <1>4

\* No other step maps a session.
LEMMA WhoMaps ==
  ASSUME Inv, [Next]_vars, NEW k \in Keys, entries[k] = None, entries'[k] # None
  PROVE  \E c \in Children : HandshakeDone(c)
<1>. SUFFICES ASSUME \A c \in Children : ~ HandshakeDone(c)
              PROVE  FALSE
  OBVIOUS
<1>0. entries \in [Keys -> Maybe] /\ entries' # entries /\ ~ Gentle
  BY DEF Inv, TypeOK, Gentle
<1>1. ASSUME NEW p \in Prompts, PromptStep(p) PROVE FALSE
  <2>1. ASSUME NEW j, DropStale(j) PROVE FALSE
    BY <1>0, <2>1 DEF DropStale
  <2>2. QED
    BY <1>0, <1>1, <2>1 DEF PromptStep, PromptRefused, PromptJoinsSession, PromptJoinsSpawn,
      PromptSpawns, SlotAnswersStart, PromptAlongside, AlongsideEnds, pool
<1>2. ASSUME NEW c \in Children, HandshakeStep(c) PROVE FALSE
  BY <1>0, <1>2 DEF HandshakeStep, Initialized, SessionLoaded, LoadFailed, SessionCreated,
    HandshakeFails, pool
<1>3. ASSUME NEW a \in Agents, ReloadStep(a) PROVE FALSE
  BY <1>0, <1>3, ReloadIsGentle DEF ReloadStep, ReplaceAgent, RemoveAgent, AddAgent, pool
<1>4. ~ Shutdown /\ ~ BridgeRestarts
  BY DEF Shutdown, BridgeRestarts
<1>5. QED
  BY <1>0, <1>1, <1>2, <1>3, <1>4, TurnIsGentle, ChildIsGentle DEF Next, ApplySession,
    StopStartingTurns, vars, pool

\* A session is mapped only with the map within session.max_concurrent, for any
\* number of pairs and however many prompts waited for the same spawn.
THEOREM RoomForEach == Spec => RoomForEverySession
<1>1. ASSUME Inv, [Next]_vars, NEW k \in Keys, entries[k] = None, entries'[k] # None
      PROVE  Cardinality({j \in Keys : entries'[j] # None}) <= limit
  BY <1>1, WhoMaps, RoomAtHandshake
<1>2. Inv /\ [Next]_vars =>
        [(\E k \in Keys : entries[k] = None /\ entries'[k] # None)
           => Cardinality({k \in Keys : entries'[k] # None}) <= limit]_vars
  BY <1>1
<1>3. QED
  BY <1>2, Invariance, PTL DEF Spec, RoomForEverySession

-----------------------------------------------------------------------------
(* The promises to the callers.                                            *)

\* A prompt waits on, and is sent to, a child of its own pair.
OwnPair ==
  \A p \in Prompts :
    prompt[p].at \in {"queued", "sent"} =>
      /\ prompt[p].on \in Children
      /\ session[prompt[p].on].phase # "unborn"
      /\ session[prompt[p].on].key = KeyOf[p]

\* A child that was spawned keeps its pair.
LEMMA KeysStay ==
  ASSUME Inv, [Next]_vars, NEW c \in Children, session[c].phase # "unborn"
  PROVE  session'[c].key = session[c].key /\ session'[c].phase # "unborn"
<1>1. CASE Quiet
  BY <1>1 DEF Quiet, Aged, Handshake
<1>2. CASE Gentle
  BY <1>2 DEF Gentle, GentleTo, Handshake
<1>3. CASE session' = session
  BY <1>3
<1>4. ASSUME NEW p \in Prompts, PromptStep(p)
      PROVE  session'[c].key = session[c].key /\ session'[c].phase # "unborn"
  <2>1. CASE PromptSpawns(p)
    <3>1. spawned + 1 # c
      BY <2>1, SessionAssumption DEF PromptSpawns, Inv, TypeOK, Owned, Children
    <3>2. session'[c] = session[c]
      BY <2>1, <3>1 DEF PromptSpawns, Inv, TypeOK
    <3>3. QED
      BY <3>2
  <2>2. CASE ~ PromptSpawns(p)
    BY <1>3, <1>4, <2>2 DEF PromptStep, PromptRefused, PromptJoinsSession, PromptJoinsSpawn,
      SlotAnswersStart, PromptAlongside, AlongsideEnds
  <2>3. QED
    BY <2>1, <2>2
<1>5. ASSUME NEW d \in Children, HandshakeStep(d)
      PROVE  session'[c].key = session[c].key /\ session'[c].phase # "unborn"
  <2>1. CASE HandshakeDone(d)
    <3>1. PICK V \in SUBSET Keys : MapsInPlaceOf(d, V)
      BY <2>1, MappedInPlace
    <3>2. session[c] \in Session
      BY DEF Inv, TypeOK
    <3>3. CASE c = d
      <4>1. session'[c] = [session[c] EXCEPT !.phase = "up"]
        BY <3>1, <3>3 DEF MapsInPlaceOf
      <4>2. QED
        BY <3>2, <4>1 DEF Session
    <3>4. CASE c # d
      <4>1. session'[c] \in {Ended(session[c]), session[c]}
        BY <3>1, <3>4 DEF MapsInPlaceOf
      <4>2. QED
        BY <4>1, AgedFrom DEF Aged, Handshake
    <3>5. QED
      BY <3>3, <3>4
  <2>2. QED
    BY <1>1, <1>2, <1>5, <2>1, HandshakeIsGentle, FailureIsQuiet DEF HandshakeStep
<1>6. ASSUME NEW a \in Agents, ReloadStep(a)
      PROVE  session'[c].key = session[c].key /\ session'[c].phase # "unborn"
  BY <1>1, <1>3, <1>6, ReloadIsQuiet DEF ReloadStep, ReplaceAgent, RemoveAgent, AddAgent
<1>7. QED
  BY <1>1, <1>3, <1>4, <1>5, <1>6, TurnIsQuiet, ChildIsQuiet, EndIsQuiet DEF Next, ApplySession,
    StopStartingTurns, vars

\* A prompt that is called goes to the child its pair has or waits for.
LEMMA QueuedOnOwn ==
  ASSUME Inv, NEW p \in Prompts,
         PromptJoinsSession(p) \/ PromptJoinsSpawn(p) \/ PromptSpawns(p)
  PROVE  \E c \in Children :
           /\ Enqueue(p, c) /\ session'[c].phase # "unborn" /\ session'[c].key = KeyOf[p]
<1>0. KeyOf[p] \in Keys
  BY SessionAssumption
<1>1. CASE PromptJoinsSession(p)
  <2>1. PICK c : c = entries[KeyOf[p]]
    OBVIOUS
  <2>2. c \in Children
    BY <1>0, <1>1, <2>1, MaybeType DEF PromptJoinsSession, HasSession, Inv, TypeOK
  <2>3. session[c].phase \in {"up", "gone"} /\ session[c].key = KeyOf[p]
    BY <1>0, <1>1, <2>1 DEF PromptJoinsSession, HasSession, Inv, Bound
  <2>4. session' = session /\ Enqueue(p, c)
    BY <1>1, <2>1 DEF PromptJoinsSession
  <2>5. QED
    BY <2>2, <2>3, <2>4
<1>2. CASE PromptJoinsSpawn(p)
  <2>1. PICK c : c = spawning[KeyOf[p]]
    OBVIOUS
  <2>2. c \in Children
    BY <1>0, <1>2, <2>1, MaybeType DEF PromptJoinsSpawn, Inv, TypeOK
  <2>3. session[c].phase # "unborn" /\ session[c].key = KeyOf[p]
    BY <1>0, <1>2, <2>1 DEF PromptJoinsSpawn, Inv, Bound, Handshake
  <2>4. session' = session /\ Enqueue(p, c)
    BY <1>2, <2>1 DEF PromptJoinsSpawn
  <2>5. QED
    BY <2>2, <2>3, <2>4
<1>3. CASE PromptSpawns(p)
  <2>1. spawned + 1 \in Children /\ session \in [Children -> Session]
    BY <1>3, SessionAssumption DEF PromptSpawns, Inv, TypeOK, Children
  <2>2. /\ session'[spawned + 1].phase = "init"
        /\ session'[spawned + 1].key = KeyOf[p]
    BY <1>3, <2>1 DEF PromptSpawns, Unborn
  <2>3. Enqueue(p, spawned + 1)
    BY <1>3 DEF PromptSpawns
  <2>4. QED
    BY <2>1, <2>2, <2>3
<1>4. QED
  BY <1>1, <1>2, <1>3

\* Which step puts a prompt on a child.
LEMMA WhoQueues ==
  ASSUME Inv, Places, [Next]_vars, NEW p \in Prompts, prompt'[p].at \in {"queued", "sent"}
  PROVE  \/ prompt[p].at \in {"queued", "sent"} /\ prompt'[p].on = prompt[p].on
         \/ PromptJoinsSession(p) \/ PromptJoinsSpawn(p) \/ PromptSpawns(p)
<1>0. prompt \in [Prompts -> Call]
  BY DEF Inv, TypeOK
<1>1. ASSUME NEW q, NEW outcome \in Outcomes \cup {"again"}, Settle(q, outcome)
      PROVE  prompt'[p] = prompt[p]
  BY <1>0, <1>1 DEF Settle, Outcomes
<1>2. ASSUME NEW q \in Prompts, PromptStep(q)
      PROVE  prompt'[p] = prompt[p] \/ PromptJoinsSession(p) \/ PromptJoinsSpawn(p) \/ PromptSpawns(p)
  <2>1. CASE PromptAlongside(q)
    BY <1>0, <2>1 DEF PromptAlongside
  <2>2. CASE PromptJoinsSession(q) \/ PromptJoinsSpawn(q) \/ PromptSpawns(q)
    <3>1. ASSUME NEW c, Enqueue(q, c), q # p PROVE prompt'[p] = prompt[p]
      BY <1>0, <3>1 DEF Enqueue
    <3>2. CASE q = p
      BY <2>2, <3>2
    <3>3. CASE q # p
      BY <2>2, <3>1, <3>3 DEF PromptJoinsSession, PromptJoinsSpawn, PromptSpawns
    <3>4. QED
      BY <3>2, <3>3
  <2>3. CASE PromptRefused(q) \/ SlotAnswersStart(q) \/ AlongsideEnds(q)
    BY <1>1, <2>3 DEF PromptRefused, SlotAnswersStart, AlongsideEnds, Outcomes
  <2>4. QED
    BY <1>2, <2>1, <2>2, <2>3 DEF PromptStep
<1>3. ASSUME NEW c \in Children, HandshakeStep(c)
      PROVE  prompt'[p] = prompt[p]
  <2>1. CASE HandshakeFails(c)
    BY <1>0, <2>1 DEF HandshakeFails
  <2>2. CASE prompt' = prompt
    BY <2>2
  <2>3. QED
    BY <1>3, <2>1, <2>2 DEF HandshakeStep, Initialized, SessionLoaded, LoadFailed,
      SessionCreated, HandshakeDone
<1>4. ASSUME NEW c \in Children, TurnStep(c)
      PROVE  prompt'[p] = prompt[p] \/ (prompt[p].at = "queued" /\ prompt'[p].on = prompt[p].on)
  <2>1. CASE SendTurn(c)
    <3>1. Takes(c) /\ prompt' = [prompt EXCEPT ![Front(c).prompt] = [at |-> "sent", on |-> c]]
      BY <2>1 DEF SendTurn
    <3>2. prompt[Front(c).prompt].at = "queued" /\ prompt[Front(c).prompt].on = c
      BY <3>1, WhatIsTaken
    <3>3. CASE p = Front(c).prompt
      BY <1>0, <3>1, <3>2, <3>3
    <3>4. CASE p # Front(c).prompt
      BY <1>0, <3>1, <3>4
    <3>5. QED
      BY <3>3, <3>4
  <2>2. CASE \E q, outcome : outcome \in Outcomes \cup {"again"} /\ Settle(q, outcome)
    BY <1>1, <2>2
  <2>3. CASE prompt' = prompt
    BY <2>3
  <2>4. CASE SummaryRead(c)
    BY <2>2, <2>3, <2>4 DEF SummaryRead, Settle
  <2>5. CASE RefuseNext(c) \/ TurnAnswered(c) \/ AgentFails(c) \/ ConnectionLost(c)
             \/ SlotAnswersTurn(c) \/ Outgrows(c) \/ WatchdogFires(c)
    BY <2>2, <2>3, <2>5 DEF RefuseNext, Refusal, TurnAnswered, AgentFails, ConnectionLost,
      SlotAnswersTurn, Outgrows, WatchdogFires, TurnOver, Outcomes
  <2>6. QED
    BY <1>4, <2>1, <2>3, <2>4, <2>5 DEF TurnStep, ReadSummary, RpcReturns, StartDrain
<1>5. ~ BridgeRestarts
  BY <1>0 DEF BridgeRestarts, Outcomes
<1>6. QED
  BY <1>2, <1>3, <1>4, <1>5 DEF Next, ChildStep, ConnectionCloses, ChildExits, IdleFires,
    ReloadStep, ReplaceAgent, RemoveAgent, KillAgentSessions, AddAgent, ApplySession,
    StopStartingTurns, Shutdown, vars

\* Prompts stay with their pair.
LEMMA OwnPairKept == Spec => []OwnPair
<1>1. Init => OwnPair
  BY DEF Init, OwnPair
<1>2. Inv /\ Places /\ OwnPair /\ [Next]_vars => OwnPair'
  <2>. SUFFICES ASSUME Inv, Places, OwnPair, [Next]_vars,
                       NEW p \in Prompts, prompt'[p].at \in {"queued", "sent"}
                PROVE  /\ prompt'[p].on \in Children
                       /\ session'[prompt'[p].on].phase # "unborn"
                       /\ session'[prompt'[p].on].key = KeyOf[p]
    BY DEF OwnPair
  <2>1. CASE prompt[p].at \in {"queued", "sent"} /\ prompt'[p].on = prompt[p].on
    <3>1. /\ prompt[p].on \in Children /\ session[prompt[p].on].phase # "unborn"
          /\ session[prompt[p].on].key = KeyOf[p]
      BY <2>1 DEF OwnPair
    <3>2. QED
      BY <2>1, <3>1, KeysStay
  <2>2. CASE PromptJoinsSession(p) \/ PromptJoinsSpawn(p) \/ PromptSpawns(p)
    <3>1. PICK c \in Children :
            /\ Enqueue(p, c) /\ session'[c].phase # "unborn" /\ session'[c].key = KeyOf[p]
      BY <2>2, QueuedOnOwn
    <3>2. prompt'[p].on = c
      BY <3>1 DEF Enqueue, Inv, TypeOK
    <3>3. QED
      BY <3>1, <3>2
  <2>3. QED
    BY <2>1, <2>2, WhoQueues
<1>3. QED
  BY <1>1, <1>2, Invariance, PlacesKept, PTL DEF Spec

\* What a call is to its caller, from where it is.
LEMMA PromisedAs ==
  ASSUME NEW p \in Prompts
  PROVE  /\ prompt[p].at = "new" => Promised(p) = "none"
         /\ prompt[p].at \in {"again", "queued", "asking"} =>
              Promised(p) = IF Opens[p] THEN "opening" ELSE "waiting"
         /\ prompt[p].at \notin {"new", "again", "queued", "asking"} => Promised(p) = prompt[p].at
BY DEF Promised

\* Initially nobody has called.
LEMMA CallsInit == Init => Calls!CallsInit
<1>. SUFFICES ASSUME Init PROVE Calls!CallsInit
  OBVIOUS
<1>1. \A p \in Prompts : Promised(p) = "none"
  BY PromisedAs DEF Init
<1>2. QED
  BY <1>1 DEF Calls!CallsInit, Init

\* A step that changes one call for its caller.
LEMMA CallBecomes ==
  ASSUME NEW p \in Prompts, \A q \in Prompts \ {p} : prompt'[q] = prompt[q],
         stopping' = stopping, NEW at, Promised(p)' = at
  PROVE  Calls!Becomes(p, at)
<1>1. \A q \in Prompts \ {p} : Promised(q)' = Promised(q)
  BY DEF Promised
<1>2. QED
  BY <1>1 DEF Calls!Becomes

\* A step the callers do not see.
LEMMA Unseen ==
  ASSUME \A p \in Prompts : Promised(p)' = Promised(p), stopping' = stopping
  PROVE  UNCHANGED Calls!callVars
BY DEF Calls!callVars

\* A call is refused before it is sent.
LEMMA RefusedUnsent ==
  ASSUME NEW p \in Prompts, \A q \in Prompts \ {p} : prompt'[q] = prompt[q],
         prompt[p].at \in {"again", "queued", "asking"},
         NEW error \in {"stopping", "restart", "failed"}, prompt'[p].at = error,
         error = "stopping" => stopping, stopping' = stopping
  PROVE  Calls!CallsNext
<1>1. \A q \in Prompts \ {p} : Promised(q)' = Promised(q)
  BY DEF Promised
<1>2. Promised(p) \in Calls!Unsent
  BY PromisedAs DEF Calls!Unsent
<1>3. Promised(p)' = error
  BY DEF Promised
<1>4. Calls!Refused({p}, error)
  BY <1>1, <1>2, <1>3 DEF Calls!Refused
<1>5. error \in Calls!Refusals /\ {p} \in SUBSET Prompts
  BY DEF Calls!Refusals
<1>6. QED
  BY <1>4, <1>5 DEF Calls!CallsNext

\* A call that was sent ends.
LEMMA EndsSent ==
  ASSUME NEW p \in Prompts, \A q \in Prompts \ {p} : prompt'[q] = prompt[q],
         NEW ending \in {"answered", "restart", "watchdog", "outgrown", "failed"},
         \/ prompt[p].at = "sent"
         \/ prompt[p].at = "alongside" /\ ending \in {"answered", "failed"},
         prompt'[p].at = ending, stopping' = stopping
  PROVE  Calls!CallsNext
<1>1. Promised(p) = prompt[p].at /\ Promised(p)' = ending
  BY DEF Promised
<1>2. Calls!Becomes(p, ending)
  BY <1>1, CallBecomes
<1>3. Calls!Ends(p, ending) /\ ending \in Calls!Endings
  BY <1>1, <1>2 DEF Calls!Ends, Calls!Endings
<1>4. QED
  BY <1>3 DEF Calls!CallsNext

\* prompt() refuses the call, accepts it, or goes on with one that starts over.
LEMMA PromptCalled ==
  ASSUME Inv, NEW p \in Prompts,
         PromptRefused(p) \/ PromptJoinsSession(p) \/ PromptJoinsSpawn(p) \/ PromptSpawns(p)
  PROVE  [Calls!CallsNext]_(Calls!callVars)
<1>0. /\ prompt \in [Prompts -> Call] /\ stopping \in BOOLEAN /\ Opens[p] \in BOOLEAN
      /\ stopping' = stopping /\ prompt[p].at \in {"new", "again"}
  BY SessionAssumption DEF Inv, TypeOK, PromptRefused, PromptJoinsSession, PromptJoinsSpawn,
    PromptSpawns, Admitted, Called, config
<1>1. CASE PromptRefused(p)
  <2>. PICK error \in {"stopping", "failed"} :
         /\ error = "stopping" => Opens[p] /\ stopping
         /\ Settle(p, error)
    BY <1>1 DEF PromptRefused, Admitted
  <2>1. /\ prompt'[p].at = error
        /\ \A q \in Prompts \ {p} : prompt'[q] = prompt[q]
    BY <1>0 DEF Settle
  <2>2. CASE prompt[p].at = "again"
    BY <1>0, <2>1, <2>2, RefusedUnsent
  <2>3. CASE prompt[p].at = "new"
    <3>1. Promised(p) = "none" /\ Promised(p)' = error
      BY <2>1, <2>3 DEF Promised
    <3>2. Calls!Becomes(p, error)
      BY <1>0, <2>1, <3>1, CallBecomes
    <3>3. Calls!RefusedAtOnce(p, Opens[p])
      BY <3>1, <3>2 DEF Calls!RefusedAtOnce, Calls!Over
    <3>4. QED
      BY <1>0, <3>3 DEF Calls!CallsNext
  <2>4. QED
    BY <1>0, <2>2, <2>3
<1>2. ASSUME NEW c, Enqueue(p, c), ~ (Opens[p] /\ stopping)
      PROVE  [Calls!CallsNext]_(Calls!callVars)
  <2>1. /\ prompt'[p].at = "queued"
        /\ \A q \in Prompts \ {p} : prompt'[q] = prompt[q]
    BY <1>0, <1>2 DEF Enqueue
  <2>2. Promised(p)' = IF Opens[p] THEN "opening" ELSE "waiting"
    BY <2>1 DEF Promised
  <2>3. CASE prompt[p].at = "again"
    <3>1. \A q \in Prompts : Promised(q)' = Promised(q)
      BY <2>1, <2>3 DEF Promised
    <3>2. QED
      BY <1>0, <3>1, Unseen
  <2>4. CASE prompt[p].at = "new"
    <3>1. Promised(p) = "none"
      BY <2>4, PromisedAs
    <3>2. Calls!Becomes(p, IF Opens[p] THEN "opening" ELSE "waiting")
      BY <1>0, <2>1, <2>2, CallBecomes
    <3>3. Calls!Begin(p, Opens[p])
      BY <1>2, <3>1, <3>2 DEF Calls!Begin, Calls!Over
    <3>4. QED
      BY <1>0, <3>3 DEF Calls!CallsNext
  <2>5. QED
    BY <1>0, <2>3, <2>4
<1>3. QED
  BY <1>1, <1>2 DEF PromptJoinsSession, PromptJoinsSpawn, PromptSpawns, Admitted

\* A call alongside joins work of its own pair; it ends, or one whose session did
\* not start is refused.
LEMMA PromptBeside ==
  ASSUME Inv, Places, OwnPair, NEW p \in Prompts,
         SlotAnswersStart(p) \/ PromptAlongside(p) \/ AlongsideEnds(p)
  PROVE  Calls!CallsNext
<1>0. prompt \in [Prompts -> Call] /\ stopping' = stopping /\ KeyOf[p] \in Keys
  BY SessionAssumption DEF Inv, TypeOK, SlotAnswersStart, PromptAlongside, AlongsideEnds, config
<1>1. CASE SlotAnswersStart(p)
  <2>. PICK error \in {"restart", "failed"} : Settle(p, error)
    BY <1>1 DEF SlotAnswersStart
  <2>1. /\ prompt'[p].at = error /\ prompt[p].at = "asking"
        /\ \A q \in Prompts \ {p} : prompt'[q] = prompt[q]
    BY <1>0, <1>1 DEF Settle, SlotAnswersStart
  <2>2. QED
    BY <1>0, <2>1, RefusedUnsent
<1>2. CASE AlongsideEnds(p)
  <2>. PICK ending \in {"answered", "failed"} : Settle(p, ending)
    BY <1>2 DEF AlongsideEnds
  <2>1. /\ prompt'[p].at = ending /\ prompt[p].at = "alongside"
        /\ \A q \in Prompts \ {p} : prompt'[q] = prompt[q]
    BY <1>0, <1>2 DEF Settle, AlongsideEnds
  <2>2. QED
    BY <1>0, <2>1, EndsSent
<1>3. CASE PromptAlongside(p)
  <2>. PICK c \in Children : c = entries[KeyOf[p]]
    BY <1>0, <1>3, MaybeType DEF PromptAlongside, HasSession, Inv, TypeOK
  <2>1. /\ turn[c].stage \in {"rpc", "joining", "asking"} /\ session[c].key = KeyOf[p]
        /\ prompt[p].at = "new"
    BY <1>0, <1>3, MaybeType DEF PromptAlongside, Running, Inv, Bound
  <2>2. /\ prompt'[p].at = "alongside"
        /\ \A q \in Prompts \ {p} : prompt'[q] = prompt[q]
    BY <1>0, <1>3 DEF PromptAlongside
  <2>. PICK q \in Prompts : q = turn[c].prompt
    BY <2>1 DEF Inv, TurnsAreUp
  <2>3. prompt[q].at = "sent" /\ prompt[q].on = c
    <3>1. PlacedAt(c, q)
      BY DEF Places
    <3>2. QED
      BY <2>1, <3>1 DEF PlacedAt
  <2>4. KeyOf[q] = KeyOf[p] /\ Promised(q) = "sent"
    BY <2>1, <2>3, PromisedAs DEF OwnPair
  <2>5. Calls!Working(KeyOf[p])
    BY <2>4 DEF Calls!Working
  <2>6. Promised(p) = "none" /\ Promised(p)' = "alongside"
    BY <2>1, <2>2 DEF Promised
  <2>7. Calls!Join(p)
    BY <1>0, <2>2, <2>5, <2>6, CallBecomes DEF Calls!Join, Calls!Over
  <2>8. QED
    BY <2>7 DEF Calls!CallsNext
<1>4. QED
  BY <1>1, <1>2, <1>3

\* A queue sends each call once, refuses it or starts it over, and its turn ends it.
LEMMA TurnCalls ==
  ASSUME Inv, Places, NEW c \in Children, TurnStep(c)
  PROVE  [Calls!CallsNext]_(Calls!callVars)
<1>0. /\ prompt \in [Prompts -> Call] /\ stopping' = stopping /\ stopping \in BOOLEAN
  BY DEF Inv, TypeOK, TurnStep, RefuseNext, ReadSummary, SummaryRead, SendTurn, RpcReturns,
    StartDrain, TurnAnswered, AgentFails, ConnectionLost, SlotAnswersTurn, Outgrows,
    WatchdogFires, config
<1>1. ASSUME prompt' = prompt PROVE [Calls!CallsNext]_(Calls!callVars)
  <2>1. \A p \in Prompts : Promised(p)' = Promised(p)
    BY <1>1 DEF Promised
  <2>2. QED
    BY <1>0, <2>1, Unseen
<1>2. CASE RefuseNext(c)
  <2>1. Takes(c) /\ Settle(Front(c).prompt, Refusal)
    BY <1>2 DEF RefuseNext
  <2>. PICK p \in Prompts : p = Front(c).prompt
    BY <2>1, WhatIsTaken
  <2>. PICK error \in {"stopping", "restart"} : error = Refusal
    BY DEF Refusal
  <2>2. prompt[p].at = "queued" /\ (error = "stopping" => stopping)
    BY <2>1, WhatIsTaken DEF Refusal
  <2>3. /\ prompt'[p].at = error
        /\ \A q \in Prompts \ {p} : prompt'[q] = prompt[q]
    BY <1>0, <2>1 DEF Settle
  <2>4. QED
    BY <1>0, <2>2, <2>3, RefusedUnsent
<1>3. CASE SendTurn(c)
  <2>1. Takes(c) /\ ~ TooLate(c) /\ Front(c).kind = "turn"
    BY <1>3 DEF SendTurn
  <2>. PICK p \in Prompts : p = Front(c).prompt
    BY <2>1, WhatIsTaken
  <2>2. prompt[p].at = "queued" /\ ~ (Opens[p] /\ stopping)
    BY <2>1, WhatIsTaken DEF TooLate
  <2>3. /\ prompt'[p].at = "sent"
        /\ \A q \in Prompts \ {p} : prompt'[q] = prompt[q]
    BY <1>0, <1>3 DEF SendTurn
  <2>4. Promised(p) = (IF Opens[p] THEN "opening" ELSE "waiting") /\ Promised(p)' = "sent"
    BY <2>2, <2>3 DEF Promised
  <2>5. Calls!Becomes(p, "sent")
    BY <1>0, <2>3, <2>4, CallBecomes
  <2>6. Calls!Send(p)
    BY <2>2, <2>4, <2>5 DEF Calls!Send, Calls!Unsent
  <2>7. QED
    BY <2>6 DEF Calls!CallsNext
<1>4. CASE SummaryRead(c)
  <2>. PICK p \in Prompts : p = turn[c].prompt
    BY <1>4 DEF SummaryRead, Inv, TurnsAreUp
  <2>1. CASE prompt' = [prompt EXCEPT ![p] = [at |-> "again", on |-> None]]
    <3>1. prompt[p].at = "queued"
      <4>1. PlacedAt(c, p)
        BY DEF Places
      <4>2. QED
        BY <1>4, <4>1 DEF PlacedAt, SummaryRead
    <3>2. prompt'[p].at = "again" /\ \A q \in Prompts \ {p} : prompt'[q] = prompt[q]
      BY <1>0, <2>1
    <3>3. \A q \in Prompts : Promised(q)' = Promised(q)
      BY <3>1, <3>2 DEF Promised
    <3>4. QED
      BY <1>0, <3>3, Unseen
  <2>2. QED
    BY <1>1, <1>4, <2>1 DEF SummaryRead
<1>5. ASSUME turn[c].stage \in {"rpc", "joining", "asking", "drain"}, NEW s,
             NEW ending \in {"answered", "restart", "watchdog", "outgrown", "failed"},
             TurnOver(c, s, ending)
      PROVE  Calls!CallsNext
  <2>. PICK p \in Prompts : p = turn[c].prompt
    BY <1>5 DEF Inv, TurnsAreUp
  <2>1. prompt[p].at = "sent"
    <3>1. PlacedAt(c, p)
      BY DEF Places
    <3>2. QED
      BY <1>5, <3>1 DEF PlacedAt
  <2>2. /\ prompt'[p].at = ending
        /\ \A q \in Prompts \ {p} : prompt'[q] = prompt[q]
    BY <1>0, <1>5 DEF TurnOver, Settle
  <2>3. QED
    BY <1>0, <2>1, <2>2, EndsSent
<1>6. CASE TurnAnswered(c) \/ AgentFails(c) \/ SlotAnswersTurn(c) \/ Outgrows(c)
  BY <1>5, <1>6 DEF TurnAnswered, AgentFails, SlotAnswersTurn, Outgrows
<1>7. CASE ConnectionLost(c)
  BY <1>1, <1>5, <1>7 DEF ConnectionLost
<1>8. CASE WatchdogFires(c)
  BY <1>1, <1>5, <1>8 DEF WatchdogFires, Running
<1>9. QED
  BY <1>1, <1>2, <1>3, <1>4, <1>6, <1>7, <1>8 DEF TurnStep, ReadSummary, RpcReturns, StartDrain

\* A handshake that fails refuses those who waited for it, or asks the slot.
LEMMA FailureCalls ==
  ASSUME Inv, NEW c \in Children, HandshakeFails(c)
  PROVE  [Calls!CallsNext]_(Calls!callVars)
<1>. DEFINE S == {p \in Prompts : prompt[p] = [at |-> "queued", on |-> c]}
<1>0. /\ stopping' = stopping
      /\ \A p \in Prompts : p \notin S => prompt'[p] = prompt[p]
      /\ \A p \in S : prompt[p].at = "queued"
      /\ \/ \A p \in S : prompt'[p].at = "asking"
         \/ \A p \in S : prompt'[p].at = "failed"
  BY DEF HandshakeFails, config
<1>1. \A p \in Prompts : p \notin S => Promised(p)' = Promised(p)
  BY <1>0 DEF Promised
<1>. PICK T \in SUBSET Prompts : T = S
  OBVIOUS
<1>2. CASE \A p \in S : prompt'[p].at = "asking"
  <2>1. \A p \in S : Promised(p)' = Promised(p)
    BY <1>0, <1>2 DEF Promised
  <2>2. QED
    BY <1>0, <1>1, <2>1, Unseen
<1>3. CASE \A p \in S : prompt'[p].at = "failed"
  <2>1. \A p \in T : Promised(p) \in {"opening", "waiting"} /\ Promised(p)' = "failed"
    BY <1>0, <1>3 DEF Promised
  <2>2. \A p \in Prompts : Promised(p)' = IF p \in T THEN "failed" ELSE Promised(p)
    BY <1>1, <2>1
  <2>3. Calls!Refused(T, "failed")
    BY <1>0, <2>1, <2>2 DEF Calls!Refused, Calls!Unsent
  <2>4. QED
    BY <2>3 DEF Calls!CallsNext, Calls!Refusals
<1>4. QED
  BY <1>0, <1>2, <1>3

\* A bridge that restarts loses the calls it had.
LEMMA RestartCalls ==
  ASSUME Inv, BridgeRestarts
  PROVE  Calls!CallsNext
<1>0. prompt \in [Prompts -> Call]
  BY DEF Inv, TypeOK
<1>1. ASSUME NEW p \in Prompts
      PROVE  Promised(p)' = IF Promised(p) \in Calls!Calling THEN "lost" ELSE Promised(p)
  <2>1. prompt[p].at \in Outcomes \cup {"new", "again", "queued", "sent", "alongside", "asking"}
    BY <1>0 DEF Call
  <2>2. CASE prompt[p].at \in Outcomes \cup {"new"}
    <3>1. prompt'[p] = prompt[p]
      BY <2>2 DEF BridgeRestarts
    <3>2. QED
      BY <2>2, <3>1 DEF Promised, Outcomes, Calls!Calling, Calls!Unsent
  <2>3. CASE prompt[p].at \in {"again", "queued", "sent", "alongside", "asking"}
    <3>1. prompt'[p].at = "lost"
      BY <2>3 DEF BridgeRestarts, Outcomes
    <3>2. QED
      BY <2>3, <3>1 DEF Promised, Calls!Calling, Calls!Unsent
  <2>4. QED
    BY <2>1, <2>2, <2>3
<1>2. Calls!BridgeGone
  BY <1>1 DEF Calls!BridgeGone, BridgeRestarts
<1>3. QED
  BY <1>2 DEF Calls!CallsNext

\* Every step of the session manager is one of its promises, or is not seen.
LEMMA CallsStep ==
  ASSUME Inv, Places, OwnPair, [Next]_vars
  PROVE  [Calls!CallsNext]_(Calls!callVars)
<1>1. ASSUME prompt' = prompt, stopping' = stopping
      PROVE  [Calls!CallsNext]_(Calls!callVars)
  <2>1. \A p \in Prompts : Promised(p)' = Promised(p)
    BY <1>1 DEF Promised
  <2>2. QED
    BY <1>1, <2>1, Unseen
<1>2. ASSUME NEW p \in Prompts, PromptStep(p) PROVE [Calls!CallsNext]_(Calls!callVars)
  BY <1>2, PromptCalled, PromptBeside DEF PromptStep
<1>3. ASSUME NEW c \in Children, HandshakeStep(c) PROVE [Calls!CallsNext]_(Calls!callVars)
  BY <1>1, <1>3, FailureCalls DEF HandshakeStep, Initialized, SessionLoaded, LoadFailed,
    SessionCreated, HandshakeDone, config
<1>4. CASE StopStartingTurns
  <2>1. prompt' = prompt /\ stopping' = TRUE
    BY <1>4 DEF StopStartingTurns
  <2>2. \A p \in Prompts : Promised(p)' = Promised(p)
    BY <2>1 DEF Promised
  <2>3. Calls!StopStarting
    BY <2>1, <2>2 DEF Calls!StopStarting
  <2>4. QED
    BY <2>3 DEF Calls!CallsNext
<1>5. QED
  BY <1>1, <1>2, <1>3, <1>4, TurnCalls, RestartCalls DEF Next, ChildStep, ConnectionCloses,
    ChildExits, IdleFires, ReloadStep, ReplaceAgent, RemoveAgent, KillAgentSessions, AddAgent,
    ApplySession, Shutdown, Reload, vars, config

\* SessionManager implements PromptCalls: whatever happens to a session, each call is
\* refused unsent, or sent once and ended with an outcome that says which.
THEOREM KeepsPromises == Spec => PromisesKept
BY CallsInit, CallsStep, Invariance, PlacesKept, OwnPairKept, PTL
  DEF Spec, PromisesKept, Calls!CallsSpec
=============================================================================
