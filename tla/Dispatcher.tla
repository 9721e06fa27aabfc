----------------------------- MODULE Dispatcher -----------------------------
(***************************************************************************)
(* The dispatcher of the bridge (src/src/dispatcher.ts), with the notes     *)
(* that wait to share a turn (note-coalescer.ts), the messages a stopping   *)
(* bridge keeps for the next one (pending-messages.ts) and the second try  *)
(* of a scheduled message (internal-server.ts).                            *)
(*                                                                         *)
(* The dispatcher keeps everything by conversation, and conversations meet *)
(* only in the stop, so the module is about one of them.  The calls of     *)
(* prompt() and promptAlongside() behave as PromptCalls says, which the    *)
(* session manager implements; a turn makes one call at a time.            *)
(*                                                                         *)
(* One step is what the event loop runs between two awaits.                *)
(***************************************************************************)
EXTENDS Integers, Sequences, FiniteSets

CONSTANTS
  Messages,      \* the messages, scheduled messages and platform notes
  Kind,          \* "person", "scheduled" or "note", of each
  FollowUps,     \* bound: tries after an empty answer (EMPTY_TURN_RETRIES)
  MaxTries,      \* bound: tries of a held turn before its deadline
  MaxBridges,    \* bound: how many bridges run one after the other
  MaxReplays,    \* bound: how many times the agent's channel comes up
  Crashes        \* bound: whether a bridge may die without stopping

None == 0

ASSUME DispatcherAssumption ==
  /\ None \notin Messages
  /\ Kind \in [Messages -> {"person", "scheduled", "note"}]
  /\ FollowUps \in Nat /\ MaxTries \in Nat
  /\ MaxBridges \in Nat \ {0} /\ MaxReplays \in Nat
  /\ Crashes \in BOOLEAN

VARIABLES
  call,         \* the call of prompt() each message's turn makes
  stopping,     \* stop() was called
  interrupting, \* the stop has waited as long as it waits
  stopped,      \* the dispatcher's stop() is over
  turn,         \* where handleMessage is with each message
  inOrder,      \* the last turn that took its place in the conversation
  places,       \* the turns that have a place and have not left it
  byPersonNow,  \* the running turn is one a person asked for
  holds,        \* the last turn that is held through a restart
  waiting,      \* the platform note whose batch waits for its turn
  notes,        \* the notes that share the turn of each, as its text was joined
  received,     \* receivedAt of each message
  clock,        \* the time
  file,         \* the messages kept for the next bridge, on disk
  replay,       \* the replays of the file that this bridge runs
  bridges,      \* how many bridges there were
  seen,         \* the messages the assistant was given
  answered      \* the messages it answered, with more than an empty turn

Calls == INSTANCE PromptCalls WITH
           Callers <- Messages, PairOf <- [m \in Messages |-> None]

order  == <<inOrder, places, byPersonNow, holds>>
stop   == <<stopping, interrupting, stopped>>
batch  == <<waiting, notes>>
kept   == <<file, received, clock>>
given  == <<seen, answered>>
vars   == <<call, stop, turn, order, batch, kept, replay, bridges, given>>

-----------------------------------------------------------------------------
Placed  == {"answering", "prompting", "held", "startingOver", "closing", "following"}
Running == {"checking", "preparing", "alongside", "placed"} \cup Placed
Results == {"answered", "failed", "kept", "expired", "lost"}

\* A turn: how far it is, whether the person wrote its message for it, whether a
\* failure of it is held for another try, the turns it waits for, and its tries.
NoTurn == [at |-> "none", person |-> FALSE, first |-> FALSE, behind |-> {}, held |-> FALSE,
           over |-> FALSE, tries |-> 0, why |-> "answered"]

RunningNow == {m \in Messages : turn[m].at \in Running}

Is(m, at) == turn[m].at = at
Goes(m, at) == turn' = [turn EXCEPT ![m].at = at]
Returns(m, result) == turn' = [turn EXCEPT ![m] = [NoTurn EXCEPT !.at = result]]

NoReplay == [todo |-> <<>>, old |-> 0, now |-> None, tell |-> FALSE, at |-> "looking"]

Init ==
  /\ Calls!CallsInit
  /\ interrupting = FALSE /\ stopped = FALSE
  /\ turn = [m \in Messages |-> NoTurn]
  /\ inOrder = None /\ places = {} /\ byPersonNow = FALSE /\ holds = None
  /\ waiting = None
  /\ notes = [m \in Messages |-> {m}]
  /\ received = [m \in Messages |-> 0] /\ clock = 0
  /\ file = <<>>
  /\ replay = [r \in 1 .. MaxReplays |-> NoReplay]
  /\ bridges = 1
  /\ seen = {} /\ answered = {}

-----------------------------------------------------------------------------
(* The file of kept messages.                                              *)

WithoutNone(list, m) == list \* mutant: taken out only once answered, which a stop forestalls

\* A message is in the file once at most.
Without(list, m) ==
  LET i == CHOOSE k \in 1 .. Len(list) : list[k] = m
  IN SubSeq(list, 1, i - 1) \o SubSeq(list, i + 1, Len(list))

InFile(m) == \E i \in 1 .. Len(file) : file[i] = m

KeptLast(list, m, at) == Append(list, m) \* mutant: in the order they are kept

\* After every message of the list received before it.
KeptIn(list, m, at) ==
  LET n == Cardinality({i \in 1 .. Len(list) :
                          \E j \in i .. Len(list) : received[list[j]] <= at})
  IN SubSeq(list, 1, n) \o <<m>> \o SubSeq(list, n + 1, Len(list))

\* keepForNextBridge: a message that cannot be written is answered with a notice.
Keep(m, list, at) ==
  \/ file' = KeptIn(list, m, at) /\ Returns(m, "kept")
  \/ file' = list /\ Returns(m, "failed")

\* handleMessage, up to its first await: a bridge that is stopping keeps the
\* message.
Handle(m, list, at, person, first) ==
  /\ received' = [received EXCEPT ![m] = at]
  /\ IF stopping THEN Keep(m, list, at)
     ELSE /\ turn' = [turn EXCEPT ![m] = [NoTurn EXCEPT !.at = "checking", !.person = person, !.first = first]]
          /\ file' = list

-----------------------------------------------------------------------------
(* Messages arrive; a platform note that finds a turn running waits for it, *)
(* with the notes that arrive meanwhile.                                   *)

Arrives(m) == Is(m, "none") /\ clock' = clock + 1

Receive(m) ==
  /\ Arrives(m) /\ Kind[m] # "scheduled"
  /\ Kind[m] = "note" => waiting = None /\ RunningNow = {}
  /\ Handle(m, file, clock', Kind[m] = "person", FALSE)
  /\ UNCHANGED <<call, stop, order, batch, replay, bridges, given>>

\* A scheduled message, after its heads-up: its caller was answered already and
\* is told the outcome at the end.
Injected(m) ==
  /\ Arrives(m) /\ Kind[m] = "scheduled"
  /\ Handle(m, file, clock', FALSE, TRUE)
  /\ UNCHANGED <<call, stop, order, batch, replay, bridges, given>>

NoteWaits(m) ==
  /\ Arrives(m) /\ Kind[m] = "note"
  /\ IF waiting # None
     THEN /\ turn' = [turn EXCEPT ![m].at = "joined", ![m].behind = {waiting}]
          /\ UNCHANGED waiting
     ELSE /\ RunningNow # {}
          /\ turn' = [turn EXCEPT ![m].at = "batched", ![m].behind = RunningNow]
          /\ waiting' = m
  /\ UNCHANGED <<call, stop, order, notes, file, received, replay, bridges, given>>

StaysOpen(m) == UNCHANGED waiting \* mutant: the batch is not closed before its turn

Closes(m) == waiting' = IF waiting = m THEN None ELSE waiting

\* The batch is closed, and its notes become the text of one turn.
BatchRuns(m) ==
  /\ Is(m, "batched") /\ turn[m].behind \cap RunningNow = {}
  /\ Closes(m)
  /\ notes' = [notes EXCEPT ![m] = {m} \cup {n \in Messages : Is(n, "joined") /\ turn[n].behind = {m}}]
  /\ clock' = clock + 1
  /\ Handle(m, file, clock', FALSE, FALSE)
  /\ UNCHANGED <<call, stop, order, replay, bridges, given>>

-----------------------------------------------------------------------------
(* runTurn(): the work in progress, or a place of its own.                 *)

\* The turn waits for every turn of the conversation that has a place.
TakesPlace(m) ==
  /\ turn' = [turn EXCEPT ![m].at = "placed", ![m].behind = {inOrder} \ {None}]
  /\ inOrder' = m
  /\ places' = places \cup {m}
  /\ UNCHANGED <<byPersonNow, holds>>

NoCredit(m) ==
  /\ Is(m, "checking")
  /\ Returns(m, "answered")
  /\ UNCHANGED <<call, stop, order, batch, kept, replay, bridges, given>>

\* The awaits before are over: a message of the person, while a turn a person
\* asked for is at work, is built to join it.
MayJoin(m) == turn[m].person /\ inOrder # None /\ byPersonNow /\ Calls!Working(None)

TriesToJoin(m) ==
  /\ Is(m, "checking") /\ MayJoin(m)
  /\ Goes(m, "preparing")
  /\ UNCHANGED <<call, stop, order, batch, kept, replay, bridges, given>>

\* There is no work to join, or its session is being ended, or the prompt to
\* join it could not be built.
GetsInLine(m) ==
  /\ turn[m].at \in {"checking", "preparing"}
  /\ TakesPlace(m)
  /\ UNCHANGED <<call, stop, batch, kept, replay, bridges, given>>

Joins(m) ==
  /\ Is(m, "preparing")
  /\ Calls!Join(m)
  /\ Goes(m, "alongside")
  /\ seen' = seen \cup notes[m]
  /\ UNCHANGED <<interrupting, stopped, order, batch, kept, replay, bridges, answered>>

AlongsideOver(m) ==
  /\ Is(m, "alongside") /\ call[m] \in Calls!Over
  /\ IF call[m] = "answered"
     THEN Returns(m, "answered") /\ UNCHANGED order
     ELSE TakesPlace(m)
  /\ UNCHANGED <<call, stop, batch, kept, replay, bridges, given>>

LeavesAll(m) == \* mutant: the place of a later turn is forgotten
  places' = places \ {m} /\ inOrder' = None /\ byPersonNow' = FALSE /\ UNCHANGED holds

LeavesIfLast(m) == \* mutant: only the last place is released
  /\ places' = IF inOrder = m THEN places \ {m} ELSE places
  /\ inOrder' = IF inOrder = m THEN None ELSE inOrder
  /\ byPersonNow' = FALSE
  /\ UNCHANGED holds

\* What the end of every turn that has a place does, whatever ended it.
Leaves(m) ==
  /\ places' = places \ {m}
  /\ inOrder' = IF inOrder = m THEN None ELSE inOrder
  /\ byPersonNow' = FALSE
  /\ UNCHANGED holds

\* The turns before it have ended.
MyTurn(m) == Is(m, "placed") /\ turn[m].behind \cap places = {}

IsKept(m) ==
  /\ MyTurn(m) /\ stopping
  /\ Keep(m, file, received[m])
  /\ Leaves(m)
  /\ UNCHANGED <<call, stop, batch, received, clock, replay, bridges, given>>

Starts(m) ==
  /\ MyTurn(m) /\ ~ stopping
  /\ Goes(m, "answering")
  /\ byPersonNow' = (byPersonNow \/ turn[m].person)
  /\ UNCHANGED <<call, stop, inOrder, places, holds, batch, kept, replay, bridges, given>>

-----------------------------------------------------------------------------
(* answer(): the prompt, through restarts of the slot.                     *)

Calling(m, opens) == Calls!Begin(m, opens) \/ Calls!RefusedAtOnce(m, opens)

\* Behind any turn still held; then the prompt is built.
Prompts(m) ==
  /\ Is(m, "answering") /\ holds = None
  /\ Calling(m, TRUE)
  /\ Goes(m, "prompting")
  /\ UNCHANGED <<interrupting, stopped, order, batch, kept, replay, bridges, given>>

\* The hold of the turn, if it has one, ends.
Unheld(m) ==
  /\ holds' = IF holds = m THEN None ELSE holds
  /\ UNCHANGED <<inOrder, places, byPersonNow>>

GoesOn(m, at, why) ==
  /\ turn' = [turn EXCEPT ![m].at = at, ![m].why = why, ![m].held = FALSE, ![m].tries = 0]
  /\ Unheld(m)

\* The session restarted: the turn is held behind those held already.
Held(m) ==
  IF turn[m].held
  THEN Goes(m, "held") /\ UNCHANGED order
  ELSE /\ turn' = [turn EXCEPT ![m].at = "held", ![m].held = TRUE, ![m].behind = {holds} \ {None}]
       /\ holds' = m
       /\ UNCHANGED <<inOrder, places, byPersonNow>>

PromptOver(m) ==
  /\ Is(m, "prompting") /\ call[m] \in Calls!Over
  /\ CASE call[m] = "answered" -> GoesOn(m, "closing", "answered")
       [] call[m] = "stopping" -> GoesOn(m, "closing", "kept")
       [] call[m] = "restart" /\ ~ interrupting -> Held(m)
       [] call[m] = "outgrown" /\ ~ turn[m].over -> GoesOn(m, "startingOver", "answered")
       [] OTHER -> GoesOn(m, "closing", "failed")
  /\ UNCHANGED <<call, stop, batch, kept, replay, bridges, given>>

\* The turns held before it are over.
NextHeld(m) == Is(m, "held") /\ ~ \E n \in turn[m].behind : turn[n].held

TriesAgain(m) ==
  /\ NextHeld(m) /\ turn[m].tries < MaxTries
  /\ Calling(m, ~ turn[m].over)
  /\ turn' = [turn EXCEPT ![m].at = "prompting", ![m].tries = @ + 1, ![m].behind = {}]
  /\ UNCHANGED <<interrupting, stopped, order, batch, kept, replay, bridges, given>>

\* The deadline has passed.  A turn held behind another first tries once.
GivesUp(m) ==
  /\ NextHeld(m) /\ turn[m].behind = {}
  /\ GoesOn(m, "closing", "failed")
  /\ UNCHANGED <<call, stop, batch, kept, replay, bridges, given>>

\* The conversation starts over in a new session, the person told: the message
\* is sent once more, by a prompt that opens no turn.
StartsOver(m) ==
  /\ Is(m, "startingOver")
  /\ Calling(m, FALSE)
  /\ turn' = [turn EXCEPT ![m].at = "prompting", ![m].over = TRUE]
  /\ UNCHANGED <<interrupting, stopped, order, batch, kept, replay, bridges, given>>

\* Drained: a message the assistant was not given is kept.
ClosesKept(m) ==
  /\ Is(m, "closing") /\ turn[m].why = "kept"
  /\ Keep(m, file, received[m])
  /\ Leaves(m)
  /\ UNCHANGED <<call, stop, batch, received, clock, replay, bridges, given>>

\* The follow-ups, in order: other tries after an empty answer, none of them
\* once the bridge stops, one after an answer held back as markup, and the
\* correction of a file that did not arrive.
Markup     == FollowUps + 1
Correction == FollowUps + 2

FollowsUp(m) ==
  /\ Is(m, "closing") /\ turn[m].why \in {"answered", "unsent"}
  /\ \E next \in turn[m].tries + 1 .. Correction :
       /\ next \in 1 .. FollowUps => ~ stopping /\ next = turn[m].tries + 1
       /\ turn[m].why = "unsent" => next = Correction
       /\ turn' = [turn EXCEPT ![m].at = "following", ![m].tries = next]
       /\ answered' = IF next \in 1 .. FollowUps THEN answered \ notes[m] ELSE answered
  /\ Calling(m, FALSE)
  /\ UNCHANGED <<interrupting, stopped, order, batch, kept, replay, bridges, seen>>

FollowUpOver(m) ==
  LET why == CASE turn[m].tries = Correction -> "failed"
               [] call[m] = "answered" -> "answered"
               [] turn[m].tries = Markup -> "unsent"
               [] OTHER -> "failed"
  IN
  /\ Is(m, "following") /\ call[m] \in Calls!Over
  /\ turn' = [turn EXCEPT ![m].at = "closing", ![m].why = why]
  /\ answered' = IF call[m] = "answered" THEN answered \cup notes[m] ELSE answered
  /\ UNCHANGED <<call, stop, order, batch, kept, replay, bridges, seen>>

\* The result; an answer that did not reach the person is a failure.
Finishes(m) ==
  /\ Is(m, "closing") /\ turn[m].why # "kept"
  /\ \E result \in {"answered", "failed"} :
       /\ result = "answered" => turn[m].why = "answered"
       /\ Returns(m, result)
  /\ Leaves(m)
  /\ UNCHANGED <<call, stop, batch, kept, replay, bridges, given>>

RetryableAnyhow(m) == turn[m].first \* mutant: whatever the turn came to

\* A failure of the first try of a scheduled message that has no copy of its own:
\* neither a restart nor the stop.
Retryable(m) ==
  /\ turn[m].first /\ turn[m].why = "failed" /\ turn[m].tries <= FollowUps
  /\ ~ interrupting /\ call[m] # "restart"

\* When it neither ran a tool nor wrote to the person, nobody is told of it.
Delays(m) ==
  /\ Is(m, "closing") /\ Retryable(m)
  /\ Returns(m, "delayed")
  /\ Leaves(m)
  /\ UNCHANGED <<call, stop, batch, kept, replay, bridges, given>>

\* It is submitted once more, as a message received now.
Retries(m) ==
  /\ Is(m, "delayed")
  /\ clock' = clock + 1
  /\ Handle(m, file, clock', FALSE, FALSE)
  /\ UNCHANGED <<call, stop, order, batch, replay, bridges, given>>

-----------------------------------------------------------------------------
(* The session manager, as PromptCalls promises.                           *)

Carries(m) == turn[m].at \in {"prompting", "alongside"}

CallStep(m) ==
  /\ \/ /\ Calls!Send(m)
        /\ seen' = IF Carries(m) THEN seen \cup notes[m] ELSE seen
        /\ UNCHANGED answered
     \/ /\ \E error \in Calls!Refusals : Calls!Refused({m}, error)
        /\ UNCHANGED given
     \/ /\ \E ending \in Calls!Endings : Calls!Ends(m, ending)
        /\ answered' = IF Carries(m) /\ call'[m] = "answered" THEN answered \cup notes[m] ELSE answered
        /\ UNCHANGED seen
  /\ UNCHANGED <<interrupting, stopped, turn, order, batch, kept, replay, bridges>>

-----------------------------------------------------------------------------
(* replayPending(): each time the agent's channel comes up, the bridge      *)
(* reads the file and answers what is in it, one message after another.    *)

ReplayStarts(r) ==
  /\ replay[r] = NoReplay /\ file # <<>>
  /\ \E old \in 0 .. Len(file) :
       replay' = [replay EXCEPT ![r] = [NoReplay EXCEPT !.todo = file, !.old = old]]
  /\ UNCHANGED <<call, stop, turn, order, batch, kept, bridges, given>>

Looks(r) == replay[r].at = "looking" /\ replay[r].todo # <<>>
Front(r) == Head(replay[r].todo)

\* take(): whether this call took the message out of the file.  The write may
\* fail, and the message stays in the file.
Takes(m) == InFile(m)

TooOld(r) == replay[r].old > 0

\* One that is too old is taken out of the file, and its person will be told.
ReplayExpires(r) ==
  LET m == Front(r) IN
  /\ Looks(r) /\ ~ stopping /\ TooOld(r)
  /\ \/ /\ Takes(m)
        /\ file' = Without(file, m) /\ Returns(m, "expired")
        /\ replay' = [replay EXCEPT ![r].todo = Tail(@), ![r].old = @ - 1, ![r].tell = TRUE]
     \/ /\ replay' = [replay EXCEPT ![r].todo = Tail(@), ![r].old = @ - 1]
        /\ UNCHANGED <<file, turn>>
  /\ UNCHANGED <<call, stop, order, batch, received, clock, bridges, given>>

\* The person is told of those first, and the bridge may begin to stop meanwhile.
ReplayTells(r) ==
  /\ Looks(r) /\ ~ stopping /\ ~ TooOld(r) /\ replay[r].tell
  /\ replay' = [replay EXCEPT ![r].at = "telling", ![r].tell = FALSE]
  /\ UNCHANGED <<call, stop, turn, order, batch, kept, bridges, given>>

\* Taken out of the file, then answered; received when the person sent it.
ReplayTakes(r) ==
  LET m == Front(r) IN
  /\ \/ Looks(r) /\ ~ stopping /\ ~ TooOld(r) /\ ~ replay[r].tell
     \/ replay[r].at = "telling"
  /\ \/ /\ Takes(m)
        /\ Handle(m, Without(file, m), received[m], FALSE, FALSE)
        /\ replay' = [replay EXCEPT ![r].todo = Tail(@), ![r].at = "waiting", ![r].now = m]
     \/ /\ replay' = [replay EXCEPT ![r].todo = Tail(@), ![r].at = "looking"]
        /\ UNCHANGED <<file, turn, received>>
  /\ UNCHANGED <<call, stop, order, batch, clock, bridges, given>>

ReplayGoesOn(r) ==
  /\ replay[r].at = "waiting" /\ replay[r].now \notin RunningNow
  /\ replay' = [replay EXCEPT ![r].at = "looking", ![r].now = None]
  /\ UNCHANGED <<call, stop, turn, order, batch, kept, bridges, given>>

\* The file holds no more, or the bridge is stopping.
ReplayEnds(r) ==
  /\ replay[r].at = "looking" /\ replay[r] # NoReplay
  /\ replay[r].todo = <<>> \/ stopping
  /\ replay' = [replay EXCEPT ![r] = NoReplay]
  /\ UNCHANGED <<call, stop, turn, order, batch, kept, bridges, given>>

-----------------------------------------------------------------------------
(* stop(), and the bridges one after another.                              *)

StopBegins ==
  /\ ~ stopping
  /\ Calls!StopStarting
  /\ UNCHANGED <<interrupting, stopped, turn, order, batch, kept, replay, bridges, given>>

\* Turns still run at the limit, and their sessions are ended.
Interrupts ==
  /\ stopping /\ ~ interrupting /\ RunningNow # {}
  /\ interrupting' = TRUE
  /\ UNCHANGED <<call, stopping, stopped, turn, order, batch, kept, replay, bridges, given>>

\* No turn runs, or the time to tell the interrupted ones is over too.
StopEnds ==
  /\ stopping /\ ~ stopped
  /\ RunningNow = {} \/ interrupting
  /\ stopped' = TRUE
  /\ UNCHANGED <<call, stopping, interrupting, turn, order, batch, kept, replay, bridges, given>>

\* The process is gone, and the next bridge starts with the file.  A batch
\* whose turns have ended runs before a process that stopped is gone.
NextBridge ==
  /\ bridges < MaxBridges
  /\ \/ stopped /\ \A m \in Messages : Is(m, "batched") => turn[m].behind \cap RunningNow # {}
     \/ Crashes
  /\ bridges' = bridges + 1
  /\ Calls!BridgeGone
  /\ interrupting' = FALSE /\ stopped' = FALSE
  /\ turn' = [m \in Messages |->
                IF turn[m].at \in Running \cup {"batched", "delayed"} THEN [NoTurn EXCEPT !.at = "lost"]
                ELSE turn[m]]
  /\ inOrder' = None /\ places' = {} /\ byPersonNow' = FALSE /\ holds' = None
  /\ waiting' = None
  /\ replay' = [r \in 1 .. MaxReplays |-> NoReplay]
  /\ UNCHANGED <<notes, kept, given>>

-----------------------------------------------------------------------------
MessageStep(m) ==
  \/ BatchRuns(m) \/ NoCredit(m) \/ TriesToJoin(m) \/ GetsInLine(m) \/ Joins(m)
  \/ AlongsideOver(m) \/ IsKept(m) \/ Starts(m) \/ Prompts(m) \/ PromptOver(m)
  \/ TriesAgain(m) \/ GivesUp(m) \/ StartsOver(m) \/ ClosesKept(m)
  \/ FollowsUp(m) \/ FollowUpOver(m) \/ Finishes(m)
  \/ Delays(m) \/ Retries(m)

ReplayStep(r) ==
  \/ ReplayStarts(r) \/ ReplayExpires(r) \/ ReplayTells(r) \/ ReplayTakes(r)
  \/ ReplayGoesOn(r) \/ ReplayEnds(r)

Next ==
  \/ \E m \in Messages : Receive(m) \/ Injected(m) \/ NoteWaits(m) \/ MessageStep(m) \/ CallStep(m)
  \/ \E r \in 1 .. MaxReplays : ReplayStep(r)
  \/ StopBegins \/ Interrupts \/ StopEnds \/ NextBridge

Spec == Init /\ [][Next]_vars

\* The event loop runs every turn on, and the session manager ends every call.
Fairness ==
  \A m \in Messages : WF_vars(MessageStep(m)) /\ WF_vars(CallStep(m))

FairSpec == Spec /\ Fairness

-----------------------------------------------------------------------------
Stages == Running \cup Results \cup {"none", "batched", "joined", "delayed"}

Turn ==
  [at: Stages, person: BOOLEAN, first: BOOLEAN, behind: SUBSET Messages, held: BOOLEAN, over: BOOLEAN,
   tries: Nat, why: {"answered", "failed", "kept", "unsent"}]

Replay ==
  [todo: Seq(Messages), old: Nat, now: Messages \cup {None}, tell: BOOLEAN,
   at: {"looking", "telling", "waiting"}]

\* The types of the variables.
TypeOK ==
  /\ call \in [Messages -> Calls!Over \cup Calls!Calling]
  /\ stopping \in BOOLEAN /\ interrupting \in BOOLEAN /\ stopped \in BOOLEAN
  /\ turn \in [Messages -> Turn]
  /\ inOrder \in Messages \cup {None} /\ places \subseteq Messages
  /\ byPersonNow \in BOOLEAN /\ holds \in Messages \cup {None}
  /\ waiting \in Messages \cup {None} /\ notes \in [Messages -> SUBSET Messages]
  /\ received \in [Messages -> Nat] /\ clock \in Nat
  /\ file \in Seq(Messages)
  /\ replay \in [1 .. MaxReplays -> Replay]
  /\ bridges \in 1 .. MaxBridges
  /\ seen \subseteq Messages /\ answered \subseteq Messages

\* One turn of a conversation at a time, from its first prompt to its last
\* follow-up, through holds, restarts and messages that fail to join the work.
OneTurnAtATime ==
  \A m, n \in Messages : turn[m].at \in Placed /\ turn[n].at \in Placed => m = n

\* The file holds the messages in the order the bridges received them, however
\* late each was kept, and each once.
FileInOrder ==
  \A i, j \in 1 .. Len(file) : i < j => received[file[i]] < received[file[j]]

\* A message the assistant answered is never given to it again, by this bridge
\* or by the next.
AnsweredOnce ==
  [][\A m \in Messages :
       call'[m] \in {"sent", "alongside"} /\ call[m] \notin {"sent", "alongside"}
         /\ turn'[m].at \in {"prompting", "alongside"}
       => notes[m] \cap answered = {}]_vars

\* A note reported as answered was given to the assistant.
ReportedNotesWereSeen ==
  \A n, m \in Messages :
    Is(n, "joined") /\ turn[n].behind = {m} /\ Is(m, "answered") /\ m \in seen => n \in seen

\* Every message that arrived ends: answered, reported as failed, kept, or lost
\* with its bridge.
MessagesEnd ==
  \A m \in Messages : turn[m].at \in Running \cup {"batched", "delayed"} ~> turn[m].at \in Results

\* What the comments say and the code does not do.

\* BridgeStoppingError: "Nothing was sent, so the message can be kept and
\* answered by the next bridge without the assistant seeing it twice."
KeptWereNotSeen == \A m \in Messages : InFile(m) => m \notin seen

\* A message does not go "into a work nobody asked for just now, a scheduled
\* message or a platform note: it is a request of its own".
JoinsOnlyPersonalWork ==
  [][\A m \in Messages :
       turn'[m].at = "alongside" /\ turn[m].at # "alongside" =>
         \E n \in Messages : call[n] = "sent" /\ turn[n].person]_vars
=============================================================================
