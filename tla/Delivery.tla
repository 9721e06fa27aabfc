------------------------------ MODULE Delivery ------------------------------
(***************************************************************************)
(* How what the bridge writes reaches a person: the send queue of a turn   *)
(* (src/src/send-queue.ts), the send path of the bridge                    *)
(* (src/src/bridge.ts, sendThrough and resolveSendTarget), and the replies *)
(* kept while the channel cannot carry them (src/src/kept-replies.ts).     *)
(*                                                                         *)
(* One agent, its people, and the senders that write to them: the turns,   *)
(* each with a send queue, and the direct sends (a heads-up, a notice      *)
(* spelled out), which try once.  The channel is external: it goes and     *)
(* comes back, refuses a message, and cannot reach a person who shares no  *)
(* server with the bot.                                                    *)
(***************************************************************************)
EXTENDS Integers, Sequences, FiniteSets

CONSTANTS
  People,       \* the people of the agent
  Senders,      \* what writes to them
  Person,       \* whom each sender writes to
  Direct,       \* the senders with no queue of their own
  Kinds,        \* what a chunk carries: "text", "file", "both", "withheld"
  MaxChunks,    \* bound: how many chunks each sender writes
  Retries,      \* the length of SEND_RETRY_DELAYS_MS
  MaxFaults,    \* bound: refusals, lost servers, restarts and outages
  MaxAdapters,  \* bound: how many adapters are made
  MaxWaiting    \* bound: the poll starts no delivery behind this many

None == 0

ASSUME DeliveryAssumption ==
  /\ Person \in [Senders -> People]
  /\ Direct \subseteq Senders
  /\ None \notin Senders
  /\ Kinds \subseteq {"text", "file", "both", "withheld"}
  /\ MaxChunks \in [Senders -> Nat] /\ Retries \in Nat /\ MaxFaults \in Nat
  /\ MaxAdapters \in Nat \ {0} /\ MaxWaiting \in Nat

VARIABLES
  adapter,      \* the adapter the bridge holds, None when the agent is gone
  made,         \* how many adapters were made
  ready,        \* it started and reports itself connected
  reachable,    \* the people the channel can reach
  marks,        \* noSharedServerMarks
  aged,         \* those marked more than noServerRetryMs ago
  kept,         \* the replies kept for each person, oldest first
  running,      \* the deliveries of each person's kept replies, in order
  queue,        \* each send queue's items
  hand,         \* the chunk it is sending
  at,           \* where it stands with it
  through,      \* the adapter its send target was made for
  tries,        \* the retries the chunk had
  lost,         \* the queue lost a chunk (failures, failureMarkerQueued)
  wrote,        \* everything written, the failure markers included
  received,     \* what each person received, in order
  jumped,       \* what was sent while its person was marked
  done,         \* what the channel took, or the send path withheld
  dropped,      \* what was refused by a channel that could carry it
  cut,          \* what a restart or the agent's removal cut
  faults        \* how many faults there were

channel == <<adapter, made, ready, reachable>>
marking == <<marks, aged>>
keeping == <<kept, running>>
sending == <<queue, hand, at, through, tries, lost>>
history == <<received, jumped, done, dropped, cut>>
vars    == <<channel, marking, keeping, sending, wrote, history, faults>>

Adapters == 0 .. MaxAdapters
Message(s, n, k) == [from |-> s, n |-> n, kind |-> k]
Marker(m) == Message(m.from, m.n, "marker")
Messages == [from : Senders, n : UNION {1 .. MaxChunks[s] : s \in Senders}, kind : Kinds \cup {"marker"}]

Written(s) == Cardinality({m \in wrote : m.from = s /\ m.kind # "marker"})

\* One run of deliverNow(): the adapter it sends through, whether it met a
\* refusal for want of a shared server, whether it returned, the reply it took
\* out, and the sender that awaits it.
Delivery(n, s) == [through |-> n, noServer |-> FALSE, over |-> FALSE, hand |-> <<>>, waiter |-> s]

Init ==
  /\ adapter = 1 /\ made = 1 /\ ready \in BOOLEAN /\ reachable = People
  /\ marks = {} /\ aged = {}
  /\ kept = [p \in People |-> <<>>] /\ running = [p \in People |-> <<>>]
  /\ queue = [s \in Senders |-> <<>>] /\ hand = queue
  /\ at = [s \in Senders |-> "idle"]
  /\ through = [s \in Senders |-> None]
  /\ tries = [s \in Senders |-> 0]
  /\ lost = [s \in Senders |-> FALSE]
  /\ wrote = {} /\ received = kept
  /\ jumped = {} /\ done = {} /\ dropped = {} /\ cut = {}
  /\ faults = 0

\* channelCanCarry(): through the adapter the bridge holds, while it is up.
CanCarry(n) == n # None /\ n = adapter /\ ready

Faulty == faults < MaxFaults /\ faults' = faults + 1

-----------------------------------------------------------------------------
(* sendThrough(): what the channel answers for a chunk's text, and what    *)
(* its person receives of the chunk.  The files follow the text whatever   *)
(* it met, unless the channel is down; a file that does not go is told     *)
(* about, and the caption of a refused file is sent as a text.             *)

Answers(kind, reaches) ==
  IF kind \in {"file", "withheld"} THEN {"ok"}
  ELSE IF reaches THEN {"ok", "refused"} ELSE {"noServer", "refused"}

FilePosts(kind, answer, reaches, carried) ==
  IF ~ reaches \/ kind \notin {"file", "both"} THEN {<<>>}
  ELSE {<<>>, <<"told">>}
         \cup IF kind = "file" \/ answer = "ok" \/ carried THEN {<<"file">>} ELSE {}

Sent(kind, reaches, carried) ==
  UNION {{[answer |-> a,
           posts |-> (IF kind \notin {"file", "withheld"} /\ a = "ok" THEN <<"text">> ELSE <<>>) \o f] :
            f \in FilePosts(kind, a, reaches, carried)} : a \in Answers(kind, reaches)}

Posts(m, parts) == [i \in DOMAIN parts |-> [of |-> m, part |-> parts[i]]]

\* What the send of m through adapter n brings, and the fault it may be.
Outcome(m, n, p, answer) ==
  /\ \E o \in Sent(m.kind, p \in reachable, CanCarry(n)) :
       /\ o.answer = answer
       /\ received' = [received EXCEPT ![p] = @ \o Posts(m, o.posts)]
  /\ IF answer = "refused" /\ CanCarry(n) THEN Faulty ELSE UNCHANGED faults

-----------------------------------------------------------------------------
(* The kept replies.  deliverKeptFor() starts a delivery for every person  *)
(* anything is kept for, but those marked less than a minute ago; each     *)
(* delivery waits for the one before it of its person.                     *)

\* mutant: a person marked is not tried again
DueOnlyUnmarked(p, mk, ag) == p \notin mk

Due(p, mk, ag) == p \notin mk \/ p \in ag

DeliverKeptFor(run, kp, mk, ag, up) ==
  [p \in People |->
     IF adapter # None /\ up /\ kp[p] # <<>> /\ Due(p, mk, ag)
     THEN Append(run[p], Delivery(adapter, None)) ELSE run[p]]

\* keepReply(): kept behind what is kept for its person, and sent at once if
\* another adapter can carry it.  The send queue is told it is taken care of.
Keep(s, run, kp, mk, ag) ==
  LET p == Person[s] kp1 == [kp EXCEPT ![p] = Append(@, Head(hand[s]))] IN
  /\ kept' = kp1
  /\ running' = DeliverKeptFor(run, kp1, mk, ag, ready)
  /\ hand' = [hand EXCEPT ![s] = <<>>]
  /\ at' = [at EXCEPT ![s] = "idle"]

\* Once nothing is being delivered ahead of it: kept behind what still is, or
\* sent.
SendOrKeep(s, run) ==
  IF kept[Person[s]] # <<>> \/ ~ CanCarry(through[s])
  THEN Keep(s, run, kept, marks, aged)
  ELSE /\ at' = [at EXCEPT ![s] = "sending"]
       /\ running' = run
       /\ UNCHANGED <<kept, hand>>

\* mutant: a reply is taken out of the list only once it was sent
LeftOver(p) == kept[p]

LeftOnceTaken(p) == Tail(kept[p])

\* mutant: a reply the channel could not carry goes behind the ones kept after it
BackLast(p, m) == Append(kept[p], m)

\* mutant: a reply the channel could not carry is not put back
BackNever(p, m) == kept[p]

BackFirst(p, m) == <<m>> \o kept[p]

\* The head of the line has no reply in hand: it takes out the oldest reply
\* and sends it, or returns, and the sender that awaits it goes on.
DeliveryTakes(p) ==
  LET d == Head(running[p]) IN
  /\ running[p] # <<>> /\ d.hand = <<>>
  /\ ~ d.over /\ ~ d.noServer /\ CanCarry(d.through) /\ kept[p] # <<>>
  /\ running' = [running EXCEPT ![p][1].hand = <<Head(kept[p])>>]
  /\ kept' = [kept EXCEPT ![p] = LeftOnceTaken(p)]
  /\ UNCHANGED <<channel, marking, sending, wrote, history, faults>>

DeliveryReturns(p) ==
  LET d == Head(running[p]) rest == [running EXCEPT ![p] = Tail(@)] IN
  /\ running[p] # <<>> /\ d.hand = <<>>
  /\ d.over \/ d.noServer \/ ~ CanCarry(d.through) \/ kept[p] = <<>>
  /\ CASE d.waiter = None ->
            /\ running' = rest
            /\ UNCHANGED <<kept, hand, at>>
       [] d.waiter # None /\ at[d.waiter] = "behind" -> SendOrKeep(d.waiter, rest)
       [] OTHER ->
            /\ running' = rest
            /\ at' = [at EXCEPT ![d.waiter] = "idle"]
            /\ UNCHANGED <<kept, hand>>
  /\ UNCHANGED <<channel, marking, queue, through, tries, lost, wrote, history, faults>>

\* The answer to a kept reply's send.  Refused because the channel went, or
\* for want of a shared server, it goes back first in line; refused by a
\* channel that is up, it is dropped.
DeliverySent(p) ==
  LET d == Head(running[p]) m == Head(d.hand) IN
  /\ running[p] # <<>> /\ d.hand # <<>>
  /\ Outcome(m, d.through, p, "ok")
  /\ running' = [running EXCEPT ![p][1].hand = <<>>]
  /\ done' = done \cup {m}
  /\ marks' = marks \ {p} /\ aged' = aged \ {p}
  /\ UNCHANGED <<channel, kept, sending, wrote, jumped, dropped, cut>>

DeliveryRefused(p) ==
  LET d == Head(running[p])
      m == Head(d.hand) IN
  /\ running[p] # <<>> /\ d.hand # <<>>
  /\ \E answer \in {"refused", "noServer"} :
       LET back == answer = "noServer" \/ ~ CanCarry(d.through) IN
       /\ Outcome(m, d.through, p, answer)
       /\ marks' = IF answer = "noServer" THEN marks \cup {p} ELSE marks
       /\ aged' = IF answer = "noServer" THEN aged \ {p} ELSE aged
       /\ running' = [running EXCEPT ![p][1] =
            [d EXCEPT !.hand = <<>>, !.noServer = (answer = "noServer"), !.over = back]]
       /\ kept' = IF back THEN [kept EXCEPT ![p] = BackFirst(p, m)] ELSE kept
       /\ dropped' = IF back THEN dropped ELSE dropped \cup {m}
  /\ UNCHANGED <<channel, sending, wrote, jumped, done, cut>>

\* The check every 5 seconds while anything is kept.
Poll ==
  /\ \A p \in People : Len(running[p]) <= MaxWaiting
  /\ running' = DeliverKeptFor(running, kept, marks, aged, ready)
  /\ running' # running
  /\ UNCHANGED <<channel, marking, kept, sending, wrote, history, faults>>

\* A minute passed since the person was last refused.
MarkAges(p) ==
  /\ p \in marks \ aged
  /\ aged' = aged \cup {p}
  /\ UNCHANGED <<channel, marks, keeping, sending, wrote, history, faults>>

-----------------------------------------------------------------------------
(* The senders.                                                            *)

\* A turn's send target and its queue, or a direct send's target.
Opens(s) ==
  /\ adapter # None
  /\ at[s] = "idle" /\ queue[s] = <<>> /\ hand[s] = <<>>
  /\ Written(s) < MaxChunks[s]
  /\ <<through[s], lost[s]>> # <<adapter, FALSE>>
  /\ through' = [through EXCEPT ![s] = adapter]
  /\ lost' = [lost EXCEPT ![s] = FALSE]
  /\ UNCHANGED <<channel, marking, keeping, queue, hand, at, tries, wrote, history, faults>>

\* The turn's stream flushes a chunk while the queue sends the ones before it.
Enqueue(s, k) ==
  LET m == Message(s, Written(s) + 1, k) IN
  /\ through[s] # None /\ Written(s) < MaxChunks[s]
  /\ s \in Direct => through[s] = adapter
  /\ queue' = [queue EXCEPT ![s] = Append(@, m)]
  /\ wrote' = wrote \cup {m}
  /\ UNCHANGED <<channel, marking, keeping, hand, at, through, tries, lost, history, faults>>

\* drainLoop(), once the pace allows.
Shift(s) ==
  /\ at[s] = "idle" /\ hand[s] = <<>> /\ queue[s] # <<>>
  /\ hand' = [hand EXCEPT ![s] = <<Head(queue[s])>>]
  /\ queue' = [queue EXCEPT ![s] = Tail(@)]
  /\ at' = [at EXCEPT ![s] = "begin"]
  /\ tries' = [tries EXCEPT ![s] = 0]
  /\ UNCHANGED <<channel, marking, keeping, through, lost, wrote, history, faults>>

\* mutant: a reply taken out to be sent is not waited for
PendingKept(p) == kept[p] # <<>>

Pending(p) == kept[p] # <<>> \/ running[p] # <<>>

\* The chunk's approval link is there.  A marked person is tried at once; a
\* chunk for anybody else waits for what is kept to be delivered.
Attempt(s) ==
  LET p == Person[s] IN
  /\ at[s] = "begin"
  /\ CASE p \in marks ->
            /\ at' = [at EXCEPT ![s] = "ahead"]
            /\ UNCHANGED <<kept, running, hand>>
       [] p \notin marks /\ Pending(p) /\ adapter # None ->
            /\ at' = [at EXCEPT ![s] = "behind"]
            /\ running' = [running EXCEPT ![p] = Append(@, Delivery(adapter, s))]
            /\ UNCHANGED <<kept, hand>>
       [] OTHER -> SendOrKeep(s, running)
  /\ UNCHANGED <<channel, marking, queue, through, tries, lost, wrote, history, faults>>

\* The channel took the chunk.  To a person that was marked, what is kept is
\* sent now, and the queue waits for it.
Delivered(s) ==
  LET p == Person[s] m == Head(hand[s]) IN
  /\ at[s] \in {"sending", "ahead"}
  /\ Outcome(m, through[s], p, "ok")
  /\ marks' = marks \ {p} /\ aged' = aged \ {p}
  /\ done' = done \cup {m}
  /\ hand' = [hand EXCEPT ![s] = <<>>]
  /\ IF at[s] = "ahead" /\ adapter # None
     THEN /\ at' = [at EXCEPT ![s] = "after"]
          /\ running' = [running EXCEPT ![p] = Append(@, Delivery(adapter, s))]
     ELSE at' = [at EXCEPT ![s] = "idle"] /\ UNCHANGED running
  /\ jumped' = IF at[s] = "ahead" THEN jumped \cup {m} ELSE jumped
  /\ UNCHANGED <<channel, kept, queue, through, tries, lost, wrote, dropped, cut>>

\* Refused for want of a shared server, or by a channel that cannot carry it.
NotCarried(s) ==
  LET p == Person[s] m == Head(hand[s]) IN
  /\ at[s] \in {"sending", "ahead"}
  /\ \E answer \in {"refused", "noServer"} :
       /\ answer = "noServer" \/ ~ CanCarry(through[s])
       /\ Outcome(m, through[s], p, answer)
       /\ marks' = IF answer = "noServer" THEN marks \cup {p} ELSE marks
       /\ aged' = IF answer = "noServer" THEN aged \ {p} ELSE aged
  /\ Keep(s, running, kept, marks', aged')
  /\ UNCHANGED <<channel, queue, through, tries, lost, wrote, jumped, done, dropped, cut>>

\* mutant: one retry more than the backoff has
LastTryLate(s) == s \in Direct \/ lost[s] \/ tries[s] > Retries

LastTry(s) == s \in Direct \/ lost[s] \/ tries[s] = Retries

\* Refused by a channel that can carry it: tried again after a backoff, or
\* lost.  The first chunk a queue loses brings the failure marker and ends
\* the retries of the later ones.
Refused(s) ==
  LET m == Head(hand[s]) first == s \notin Direct /\ ~ lost[s] IN
  /\ at[s] \in {"sending", "ahead"}
  /\ CanCarry(through[s])
  /\ Outcome(m, through[s], Person[s], "refused")
  /\ IF ~ LastTry(s)
     THEN /\ at' = [at EXCEPT ![s] = "backoff"]
          /\ tries' = [tries EXCEPT ![s] = @ + 1]
          /\ UNCHANGED <<hand, queue, lost, dropped, wrote>>
     ELSE /\ at' = [at EXCEPT ![s] = "idle"]
          /\ hand' = [hand EXCEPT ![s] = <<>>]
          /\ dropped' = dropped \cup {m}
          /\ lost' = [lost EXCEPT ![s] = s \notin Direct]
          /\ queue' = IF first THEN [queue EXCEPT ![s] = <<Marker(m)>> \o @] ELSE queue
          /\ wrote' = IF first THEN wrote \cup {Marker(m)} ELSE wrote
          /\ UNCHANGED tries
  /\ UNCHANGED <<channel, marking, keeping, through, jumped, done, cut>>

Retry(s) ==
  /\ at[s] = "backoff"
  /\ at' = [at EXCEPT ![s] = "begin"]
  /\ UNCHANGED <<channel, marking, keeping, queue, hand, through, tries, lost, wrote, history, faults>>

-----------------------------------------------------------------------------
(* The channel and the bridge.                                             *)

\* A start that came up, by the bridge or the supervisor: channelBack().
Started ==
  /\ adapter # None /\ ~ ready
  /\ ready' = TRUE
  /\ \E back \in BOOLEAN : \* a client that reconnects by itself says nothing
       running' = IF back THEN DeliverKeptFor(running, kept, marks, aged, TRUE) ELSE running
  /\ UNCHANGED <<adapter, made, reachable, marking, kept, sending, wrote, history, faults>>

Goes ==
  /\ ready /\ Faulty
  /\ ready' = FALSE
  /\ UNCHANGED <<adapter, made, reachable, marking, keeping, sending, wrote, history>>

\* A reload replaces the adapter, or adds the agent again: registerAdapter().  An
\* adapter that cannot tell whether it is connected counts as ready at once.
Replaced ==
  /\ made < MaxAdapters
  /\ made' = made + 1 /\ adapter' = made' /\ ready' \in BOOLEAN
  /\ marks' = {} /\ aged' = {}
  /\ UNCHANGED <<reachable, keeping, sending, wrote, history, faults>>

KeptMessages == UNION {{kept[p][i] : i \in DOMAIN kept[p]} : p \in People}

\* A reload removes the agent: forgetAgent().
Removed ==
  /\ adapter # None /\ made < MaxAdapters
  /\ adapter' = None /\ ready' = FALSE
  /\ marks' = {} /\ aged' = {}
  /\ kept' = [p \in People |-> <<>>]
  /\ cut' = cut \cup KeptMessages
  /\ UNCHANGED <<made, reachable, running, sending, wrote, received, jumped, done, dropped, faults>>

LeavesServer(p) ==
  /\ p \in reachable /\ Faulty
  /\ reachable' = reachable \ {p}
  /\ UNCHANGED <<adapter, made, ready, marking, keeping, sending, wrote, history>>

\* The person is in a server of the bot's, with or without an event to say so.
JoinsServer(p) ==
  /\ p \notin reachable
  /\ reachable' = reachable \cup {p}
  /\ \/ UNCHANGED <<marking, running>>
     \/ /\ ready /\ adapter # None
        /\ marks' = {} /\ aged' = {}
        /\ running' = DeliverKeptFor(running, kept, {}, {}, ready)
  /\ UNCHANGED <<adapter, made, ready, kept, sending, wrote, history, faults>>

\* The bridge stops, or dies, and the next one reads what was kept.
Restart ==
  /\ Faulty
  /\ ready' \in {FALSE, adapter # None} /\ marks' = {} /\ aged' = {}
  /\ running' = [p \in People |-> <<>>]
  /\ queue' = [s \in Senders |-> <<>>] /\ hand' = queue'
  /\ at' = [s \in Senders |-> "idle"]
  /\ through' = [s \in Senders |-> None]
  /\ tries' = [s \in Senders |-> 0]
  /\ lost' = [s \in Senders |-> FALSE]
  /\ cut' = cut \cup (wrote \ (done \cup dropped \cup KeptMessages))
  /\ UNCHANGED <<adapter, made, reachable, kept, wrote, received, jumped, done, dropped>>

-----------------------------------------------------------------------------
DeliveryStep(p) == DeliveryTakes(p) \/ DeliveryReturns(p)
                     \/ DeliverySent(p) \/ DeliveryRefused(p)

SenderStep(s) == Shift(s) \/ Attempt(s) \/ Delivered(s) \/ NotCarried(s)
                   \/ Refused(s) \/ Retry(s)

Next ==
  \/ \E p \in People : DeliveryStep(p) \/ MarkAges(p) \/ LeavesServer(p) \/ JoinsServer(p)
  \/ \E s \in Senders : SenderStep(s) \/ Opens(s) \/ \E k \in Kinds : Enqueue(s, k)
  \/ Poll \/ Started \/ Goes \/ Replaced \/ Removed \/ Restart

Spec == Init /\ [][Next]_vars

\* Every send is answered, the timers fire, a delivery that may go on does.
\* Nothing is asked of the channel, the person, the reloads or the writers.
FairSpec ==
  /\ Spec /\ WF_vars(Poll)
  /\ \A p \in People : WF_vars(DeliveryStep(p)) /\ WF_vars(MarkAges(p))
  /\ \A s \in Senders : WF_vars(SenderStep(s))

-----------------------------------------------------------------------------
Deliveries ==
  [through : Adapters \ {None}, noServer : BOOLEAN, over : BOOLEAN,
   hand : Seq(Messages), waiter : Senders \cup {None}]

\* Types and ranges of the whole state.
TypeOK ==
  /\ adapter \in Adapters /\ made \in Adapters /\ ready \in BOOLEAN
  /\ reachable \subseteq People /\ marks \subseteq People /\ aged \subseteq marks
  /\ kept \in [People -> Seq(Messages)]
  /\ running \in [People -> Seq(Deliveries)]
  /\ queue \in [Senders -> Seq(Messages)]
  /\ hand \in [Senders -> Seq(Messages)]
  /\ at \in [Senders -> {"idle", "begin", "behind", "sending", "ahead", "after", "backoff"}]
  /\ through \in [Senders -> Adapters]
  /\ tries \in [Senders -> 0 .. Retries] /\ lost \in [Senders -> BOOLEAN]
  /\ wrote \subseteq Messages
  /\ received \in [People -> Seq([of : Messages, part : {"text", "file", "told"}])]
  /\ jumped \subseteq Messages /\ done \subseteq Messages
  /\ dropped \subseteq Messages /\ cut \subseteq Messages
  /\ faults \in 0 .. MaxFaults

Indices(q, m) == {i \in DOMAIN q : q[i] = m}
Carried(p) == {i \in DOMAIN running[p] : running[p][i].hand # <<>>}

\* The places where a message is.
Places(m) ==
  ({"queue"} \X Indices(queue[m.from], m))
    \cup ({"hand"} \X Indices(hand[m.from], m))
    \cup ({"kept"} \X Indices(kept[Person[m.from]], m))
    \cup ({"carried"} \X {i \in Carried(Person[m.from]) : running[Person[m.from]][i].hand = <<m>>})
    \cup {<<"over", x>> : x \in {y \in 1 .. 3 : m \in <<done, dropped, cut>>[y]}}

\* Whatever the channel does, every chunk and every failure marker a turn or a
\* direct send wrote is in exactly one place: in its queue, being sent, kept,
\* being delivered, taken by the channel, refused by a channel that was up, or
\* cut by a restart or by the removal of its agent.
EachHasOnePlace == \A m \in wrote : Cardinality(Places(m)) = 1

Texts(p) == {i \in DOMAIN received[p] : received[p][i].part = "text"}

\* Nobody reads the same text twice, however often the queue retried it, the
\* channel came and went, deliveries overlapped or the bridge was restarted.
NothingTwice ==
  \A p \in People : \A i, j \in Texts(p) :
    received[p][i].of = received[p][j].of => i = j

\* m was written before o by the same sender; a marker stands right after the
\* chunk it is about.
Before(m, o) ==
  /\ m.from = o.from
  /\ m.n < o.n \/ (m.n = o.n /\ m.kind # "marker" /\ o.kind = "marker")

\* A person reads what one sender wrote in the order it was written, the note
\* of a lost part in its place, unless a text was sent ahead of what was kept
\* because its person was marked as sharing no server with the bot.
InOrder ==
  \A p \in People : \A i, j \in Texts(p) :
    /\ i < j /\ received[p][i].of \notin jumped
    => ~ Before(received[p][j].of, received[p][i].of)

\* A chunk for a person not marked is never sent while a reply is kept for them
\* or is on its way: it goes behind them, also when it waited for a delivery
\* and another one was started meanwhile.
SentBehindTheKept ==
  [][\A s \in Senders :
       (at[s] # "sending" /\ at'[s] = "sending")
         => kept'[Person[s]] = <<>> /\ \A i \in DOMAIN running'[Person[s]] :
                                         running'[Person[s]][i].hand = <<>>]_vars

\* A reply kept is sent, or dropped by a channel that refuses it, once the
\* channel is up, and its person can be reached, for good.
KeptIsSent ==
  \A p \in People :
    <>[](ready /\ p \in reachable) => []<>(kept[p] = <<>>)

\* A file is uploaded after the text it came with (README.md:323-325).
FileAfterItsText ==
  \A p \in People : \A i \in DOMAIN received[p] :
    received[p][i].part = "file" /\ received[p][i].of.kind = "both" =>
      \E j \in 1 .. i - 1 : received[p][j] = [received[p][i] EXCEPT !.part = "text"]

\* Nothing is kept for an agent that is gone (kept-replies.ts:78).
NothingKeptForTheGone == adapter = None => \A p \in People : kept[p] = <<>>
=============================================================================
