------------------------------ MODULE Discord ------------------------------
(***************************************************************************)
(* The Discord adapter (src/src/discord-adapter.ts) with the typing         *)
(* indicator (typing-keepalive.ts) and the measurement of whether Discord   *)
(* answers (reachability.ts).                                              *)
(*                                                                         *)
(* A keepalive and a DM channel belong to one person, so the module is     *)
(* about one.  Messages come from the person, sends come from the bridge   *)
(* at any time, several under way together.  The adapter is started, and   *)
(* started again on a fresh client, whether the login before failed, is    *)
(* still pending or came up; and it is stopped, a login in flight or not.  *)
(*                                                                         *)
(* The refreshes of the indicator are numbered.  Discord's client answers  *)
(* the requests of one route in the order they were made; the module has   *)
(* that from the library, and a message, being of another route, may       *)
(* overtake a refresh.                                                     *)
(*                                                                         *)
(* Time is counted in probe intervals.  The last answer came at some       *)
(* moment between two ticks of the timer; age is how many ticks have come  *)
(* since, and late says that the same moment of this interval has passed.  *)
(***************************************************************************)
EXTENDS Integers, FiniteSets

CONSTANTS
  Messages,     \* the messages the person sends
  Sends,        \* the messages, files and notices the bridge sends
  MaxTicks,     \* how many refreshes a keepalive makes after its first
  StaleAfter,   \* how many intervals Discord may be silent
  MaxAge,       \* bound: intervals of silence that are counted
  MaxClients    \* bound: clients made one after the other

None == 0

ASSUME DiscordAssumption ==
  /\ None \notin Messages
  /\ MaxTicks \in Nat /\ MaxClients \in Nat \ {0}
  /\ StaleAfter \in Nat \ {0} /\ MaxAge \in Nat

VARIABLES
  client,       \* the client in use, by number
  login,        \* the login() of each client: none yet, pending, over
  closing,      \* how many start()s are still closing the client before theirs
  attempted,    \* loginAttempted
  live,         \* the clients that hold the handlers and were not closed
  met,          \* the clients whose .user is there: they met Discord's READY
  dm,           \* the client of the DM channel that is kept for the person
  send,         \* where each send is
  handler,      \* where the handler of each message is
  active,       \* the message whose keepalive is registered for the person
  timer,        \* the keepalives whose timer runs
  ticks,        \* how many times the timer of each fired
  last,         \* the last refresh of each
  issued,       \* how many refreshes were handed to Discord
  landed,       \* how many of them Discord has answered, the earliest first
  cleared,      \* the messages whose keepalive ran when it was ended for a message
                \* that Discord then took
  monitor       \* the measurement: what its timer, its probe and its callbacks know

session   == <<client, login, closing, attempted, live, met>>
keepalive == <<active, timer, ticks, last, issued>>
vars      == <<session, dm, send, handler, keepalive, landed, cleared, monitor>>

Clients == 1 .. MaxClients

\* client.user of the client in use.
user == client \in met

-----------------------------------------------------------------------------
(* Whether Discord answers.                                                *)

Unmeasured == [on |-> FALSE, contact |-> FALSE, age |-> 0, late |-> FALSE,
               probing |-> FALSE, reported |-> FALSE, missed |-> 0]

StaleEarly(m) == m.contact /\ m.age >= StaleAfter - 1 \* mutant: one interval less

\* snapshot(): silent for longer than is tolerated.
Stale(m) == m.contact /\ (m.age > StaleAfter \/ (m.age = StaleAfter /\ m.late))

\* note(): Discord answered, and whoever was told of a silence is told it is over.
Heard(m) == [m EXCEPT !.contact = TRUE, !.age = 0, !.late = FALSE,
                      !.reported = FALSE, !.missed = 0]

Tick ==
  /\ monitor.on /\ ~ monitor.probing
  /\ monitor.age < MaxAge /\ (monitor.age > 0 => monitor.late)
  /\ monitor' = [monitor EXCEPT !.age = @ + 1, !.late = FALSE, !.probing = TRUE]
  /\ UNCHANGED <<session, dm, send, handler, keepalive, landed, cleared>>

MomentPasses ==
  /\ monitor.on /\ monitor.age > 0 /\ ~ monitor.late
  /\ monitor' = [monitor EXCEPT !.late = TRUE]
  /\ UNCHANGED <<session, dm, send, handler, keepalive, landed, cleared>>

\* The probe is answered, or refused, or out of time when the next tick comes.
ProbeEnds ==
  /\ monitor.probing
  /\ \/ monitor' = [Heard(monitor) EXCEPT !.probing = FALSE]
     \/ monitor' = [monitor EXCEPT !.probing = FALSE, !.missed = @ + 1,
                                   !.reported = Stale(monitor)]
  /\ UNCHANGED <<session, dm, send, handler, keepalive, landed, cleared>>

-----------------------------------------------------------------------------
(* The keepalives of the typing indicator.                                 *)

\* refresh(): one more request, which the keepalive of m remembers.
Refreshes(m) == issued' = issued + 1 /\ last' = [last EXCEPT ![m] = issued + 1]

\* TypingSessions.end: the timer stops, and nothing is registered any more.
Ends == active' = None /\ timer' = timer \ {active}

\* TypingSessions.start: the keepalive of an earlier message is ended and not
\* waited for.
StartsTyping(m) ==
  /\ active' = m
  /\ timer' = (timer \ {active}) \cup {m}
  /\ Refreshes(m)
  /\ handler' = [handler EXCEPT ![m] = "handling"]
  /\ UNCHANGED ticks

TypingTick(m) ==
  /\ m \in timer
  /\ IF ticks[m] < MaxTicks
     THEN Refreshes(m) /\ ticks' = [ticks EXCEPT ![m] = @ + 1] /\ UNCHANGED timer
     ELSE timer' = timer \ {m} /\ UNCHANGED <<ticks, issued, last>>
  /\ UNCHANGED <<session, dm, send, handler, active, landed, cleared, monitor>>

Lands ==
  /\ landed < issued
  /\ landed' = landed + 1
  /\ UNCHANGED <<session, dm, send, handler, keepalive, cleared, monitor>>

-----------------------------------------------------------------------------
(* The messages of the person: onMessage, by any client that holds it.     *)

\* The files of a message are stored, and refused with a notice, before the
\* indicator is raised.
Comes(m) ==
  /\ handler[m] = "none"
  /\ dm' \in live \cap met /\ monitor' = Heard(monitor)
  /\ \/ StartsTyping(m)
     \/ handler' = [handler EXCEPT ![m] = "files"] /\ UNCHANGED keepalive
  /\ UNCHANGED <<session, send, landed, cleared>>

FilesStored(m) ==
  /\ handler[m] = "files"
  /\ StartsTyping(m)
  /\ UNCHANGED <<session, dm, send, landed, cleared, monitor>>

\* Only the owner clears the slot.
Unregistered(m) == IF active = m THEN None ELSE active

HandlerEnds(m) ==
  /\ handler[m] = "handling"
  /\ handler' = [handler EXCEPT ![m] = "over"]
  /\ active' = Unregistered(m) /\ timer' = timer \ {m}
  /\ UNCHANGED <<session, dm, send, ticks, last, issued, landed, cleared, monitor>>

-----------------------------------------------------------------------------
(* A send: makeSendTarget and sendFile, which end the indicator first, and  *)
(* sendNotice, which leaves it to the turn.                                *)

\* by: the client it fetches the channel with; ended: the keepalive it ended;
\* raised: those that ran when it did.
Unsent == [at |-> "none", notice |-> FALSE, by |-> None, ended |-> None, raised |-> {}]

At(s, at) == send[s].at = at
Goes(s, at) == send' = [send EXCEPT ![s].at = at]

Ask(s, notice) ==
  /\ At(s, "none")
  /\ send' = [send EXCEPT ![s].at = "asked", ![s].notice = notice]
  /\ UNCHANGED <<session, dm, handler, keepalive, landed, cleared, monitor>>

SendsNotice(s) == send[s].notice /\ Goes(s, "sending") /\ UNCHANGED keepalive

\* The indicator comes down for a message or a file, and its last refresh is
\* waited for.
EndsTyping(s) ==
  /\ ~ send[s].notice
  /\ send' = [send EXCEPT ![s].at = "ending", ![s].ended = active,
                         ![s].raised = timer \cup ({active} \ {None})]
  /\ Ends
  /\ UNCHANGED <<ticks, last, issued>>

HasChannel(s) == SendsNotice(s) \/ EndsTyping(s)

KeptChannel(s) ==
  /\ At(s, "asked") /\ dm # None
  /\ HasChannel(s)
  /\ UNCHANGED <<session, dm, handler, landed, cleared, monitor>>

NoUser == dm = None /\ ~ user

ExpiresAfterTheLogin(s) == \* mutant: a login that hangs is waited for without end
  /\ At(s, "asked") /\ NoUser /\ login[client] # "pending"
  /\ Goes(s, "refused")
  /\ UNCHANGED <<session, dm, handler, keepalive, landed, cleared, monitor>>

\* No client has met Discord: at once with no login under way, else when
\* DISCORD_LOGIN_WAIT_MS are over.
Expires(s) ==
  /\ At(s, "asked") /\ NoUser
  /\ Goes(s, "refused")
  /\ UNCHANGED <<session, dm, handler, keepalive, landed, cleared, monitor>>

Fetches(s) ==
  /\ At(s, "asked") /\ dm = None /\ user
  /\ send' = [send EXCEPT ![s].at = "fetching", ![s].by = client]
  /\ UNCHANGED <<session, dm, handler, keepalive, landed, cleared, monitor>>

Fetched(s) ==
  /\ At(s, "fetching")
  /\ \/ dm' = send[s].by /\ HasChannel(s)
     \/ Goes(s, "refused") /\ UNCHANGED <<dm, keepalive>>
  /\ UNCHANGED <<session, handler, landed, cleared, monitor>>

AwaitedNothing(s) == TRUE \* mutant: the refresh in flight is not waited for

\* The promise of TypingSessions.end: the latest refresh was answered.
Awaited(s) == send[s].ended # None => last[send[s].ended] <= landed

TypingEnded(s) ==
  /\ At(s, "ending") /\ Awaited(s)
  /\ Goes(s, "sending")
  /\ UNCHANGED <<session, dm, handler, keepalive, landed, cleared, monitor>>

Posted(s) ==
  /\ At(s, "sending")
  /\ \/ /\ Goes(s, "sent")
        /\ cleared' = cleared \cup send[s].raised
        /\ monitor' = Heard(monitor)
     \/ Goes(s, "refused") /\ UNCHANGED <<cleared, monitor>>
  /\ UNCHANGED <<session, dm, handler, keepalive, landed>>

\* closeNotice: the box of a notice posted before is closed, of another bridge too.
NoticeClosed ==
  /\ user
  /\ monitor' = Heard(monitor)
  /\ UNCHANGED <<session, dm, send, handler, keepalive, landed, cleared>>

-----------------------------------------------------------------------------
(* start() and stop().  The bridge starts every adapter it makes, and then  *)
(* starts and stops it when it will.                                       *)

Init ==
  /\ client = 1 /\ login = [c \in Clients |-> "none"] /\ closing = 0
  /\ attempted = FALSE /\ live = {1} /\ met = {}
  /\ dm = None
  /\ send = [s \in Sends |-> Unsent]
  /\ handler = [m \in Messages |-> "none"]
  /\ active = None /\ timer = {}
  /\ ticks = [m \in Messages |-> 0] /\ last = [m \in Messages |-> 0]
  /\ issued = 0 /\ landed = 0 /\ cleared = {}
  /\ monitor = Unmeasured

\* A client serves one login: the next start() takes the handlers off the client
\* in use and closes it, whatever its login came to and whoever uses it.
Start ==
  /\ attempted' = TRUE
  /\ IF attempted
     THEN /\ client + closing < MaxClients
          /\ closing' = closing + 1 /\ live' = live \ {client}
          /\ monitor' = [monitor EXCEPT !.on = FALSE]
          /\ UNCHANGED login
     ELSE login' = [login EXCEPT ![client] = "pending"] /\ UNCHANGED <<closing, live, monitor>>
  /\ UNCHANGED <<client, met, dm, send, handler, keepalive, landed, cleared>>

\* The last client is closed: the channels it opened go, and a fresh one logs in.
Connects ==
  /\ closing > 0
  /\ closing' = closing - 1
  /\ client' = client + 1
  /\ login' = [login EXCEPT ![client + 1] = "pending"]
  /\ live' = live \cup {client + 1}
  /\ dm' = None /\ monitor' = Unmeasured
  /\ UNCHANGED <<attempted, met, send, handler, keepalive, landed, cleared>>

MeetsDiscord(c) ==
  /\ login[c] = "pending" /\ c \in live \ met
  /\ met' = met \cup {c}
  /\ UNCHANGED <<client, login, closing, attempted, live, dm, send, handler, keepalive,
                 landed, cleared, monitor>>

LoginOver(c) ==
  /\ login[c] = "pending"
  /\ login' = [login EXCEPT ![c] = "over"]
  /\ UNCHANGED <<client, closing, attempted, live, met, dm, send, handler, keepalive,
                 landed, cleared>>

\* The measurement of the client in use begins, whichever client logged in.
LoginDone(c) ==
  /\ c \in met \/ c \notin live
  /\ LoginOver(c)
  /\ monitor' = [Heard(monitor) EXCEPT !.on = TRUE]

LoginFails(c) ==
  /\ c \notin live \cap met
  /\ LoginOver(c)
  /\ UNCHANGED monitor

\* A client that has met Discord is closed; a login in flight may still come up.
Stop ==
  /\ attempted
  /\ live' = live \ ({client} \cap met)
  /\ monitor' = [monitor EXCEPT !.on = FALSE]
  /\ UNCHANGED <<client, login, closing, attempted, met, dm, send, handler, keepalive,
                 landed, cleared>>

-----------------------------------------------------------------------------
LoginStep(c) == MeetsDiscord(c) \/ LoginDone(c) \/ LoginFails(c)

SessionStep == Start \/ Connects \/ Stop \/ \E c \in Clients : LoginStep(c)

MonitorStep == Tick \/ MomentPasses \/ ProbeEnds

HandlerStep(m) == Comes(m) \/ FilesStored(m) \/ HandlerEnds(m) \/ TypingTick(m)

SendStep(s) ==
  KeptChannel(s) \/ Expires(s) \/ Fetches(s) \/ Fetched(s) \/ TypingEnded(s) \/ Posted(s)

Next ==
  \/ SessionStep \/ MonitorStep \/ NoticeClosed \/ Lands
  \/ \E m \in Messages : HandlerStep(m)
  \/ \E s \in Sends : SendStep(s) \/ \E notice \in BOOLEAN : Ask(s, notice)

Spec == Init /\ [][Next]_vars

\* Discord answers a request or the library gives it up, and a wait has an end.
\* A login may never be answered.
FairSpec == Spec /\ WF_vars(Lands) /\ \A s \in Sends : WF_vars(SendStep(s))

-----------------------------------------------------------------------------
Sending == [at : {"none", "asked", "fetching", "ending", "sending", "sent", "refused"},
            notice : BOOLEAN, by : Nat, ended : Messages \cup {None}, raised : SUBSET Messages]

Monitor == [on : BOOLEAN, contact : BOOLEAN, age : Nat, late : BOOLEAN,
            probing : BOOLEAN, reported : BOOLEAN, missed : Nat]

TypeOK ==
  /\ client \in Clients /\ login \in [Clients -> {"none", "pending", "over"}]
  /\ closing \in Nat /\ client + closing \in Clients /\ attempted \in BOOLEAN
  /\ live \subseteq Clients /\ met \subseteq Clients
  /\ dm \in Nat
  /\ send \in [Sends -> Sending]
  /\ handler \in [Messages -> {"none", "files", "handling", "over"}]
  /\ active \in Messages \cup {None} /\ timer \subseteq Messages
  /\ ticks \in [Messages -> Nat] /\ last \in [Messages -> Nat]
  /\ issued \in Nat /\ landed \in Nat /\ cleared \subseteq Messages
  /\ monitor \in Monitor

\* The message is the clear: once Discord took a message for which the indicator
\* came down, no refresh of that keepalive is on its way to it, or made again.
NoGhost ==
  \A m \in cleared : m \notin timer /\ last[m] <= landed

\* While the measurement runs, the channel counts as silent only after probes in a
\* row were missed, all but one of those that fit in the time Discord may be silent:
\* with the code's three, "a single blip cannot flip it", whatever the moment of the
\* last answer and of the probes, the login or the message that answered last.
BlipIsNotSilence ==
  monitor.on /\ Stale(monitor) => monitor.missed >= StaleAfter - 1

\* What reachability.ts:41 says beside that and the code does not do: "three missed
\* probes".  The last of them need only be slower than the answer before.
EveryProbeWasMissed == monitor.on /\ Stale(monitor) => monitor.missed >= StaleAfter

\* Every send of the bridge is told whether Discord took the message, also one
\* asked for during a login that is never answered, or whose client is replaced
\* while it fetches, waits or posts.
SendsEnd == \A s \in Sends : At(s, "asked") ~> (At(s, "sent") \/ At(s, "refused"))
=============================================================================
