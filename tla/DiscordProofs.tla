--------------------------- MODULE DiscordProofs ---------------------------
(***************************************************************************)
(* What holds of the Discord adapter for any messages, sends and bounds:   *)
(* the types, that no refresh of a typing indicator comes after the        *)
(* message that ended it, and that no single missed probe reads as         *)
(* silence.                                                                *)
(***************************************************************************)
EXTENDS Discord, TLAPS

\* The keepalive of m will not start again: its message was handed over, and its
\* timer is down.
Down(m) == handler[m] \in {"handling", "over"} /\ m \notin timer

\* One keepalive at most has its timer running, the registered one, and only while
\* its message is handled.
OneKeepalive ==
  /\ timer \subseteq {active}
  /\ active # None => handler[active] = "handling"

\* What a send raised is down, and once it is being sent no refresh is on its way.
RaisedIsDown ==
  \A s \in Sends :
    /\ send[s].at \in {"none", "asked", "fetching"} => send[s].raised = {}
    /\ \A m \in send[s].raised :
         /\ m = send[s].ended /\ Down(m)
         /\ send[s].at = "sending" => last[m] <= landed

\* So is what a message cleared.
ClearedIsDown == \A m \in cleared : Down(m) /\ last[m] <= landed

\* Every interval of silence has its missed probe, but for the one still out.
EveryIntervalProbed ==
  monitor.age <= monitor.missed + (IF monitor.probing THEN 1 ELSE 0)

Inv == TypeOK /\ OneKeepalive /\ RaisedIsDown /\ ClearedIsDown /\ EveryIntervalProbed

-----------------------------------------------------------------------------
(* The steps, by what they touch.                                          *)

\* The types of the clients and their logins.
SessionOK ==
  /\ client \in Clients /\ login \in [Clients -> {"none", "pending", "over"}]
  /\ closing \in Nat /\ client + closing \in Clients /\ attempted \in BOOLEAN
  /\ live \subseteq Clients /\ met \subseteq Clients

\* The measurement alone, or the session with it.
Measures ==
  /\ UNCHANGED <<send, handler, keepalive, landed, cleared>>
  /\ SessionOK' /\ dm' \in Nat
  /\ monitor' \in Monitor /\ EveryIntervalProbed'

\* A heartbeat begins an interval in which nothing was missed.
LEMMA HeardIsProbed ==
  ASSUME NEW m \in Monitor
  PROVE  /\ Heard(m) \in Monitor
         /\ Heard(m).age = 0 /\ Heard(m).missed = 0 /\ Heard(m).probing = m.probing
BY DEF Heard, Monitor

\* What the timer and a missed probe change.
LEMMA TimerChanges ==
  ASSUME NEW m \in Monitor, NEW n \in Nat
  PROVE  [m EXCEPT !.age = n, !.late = FALSE, !.probing = TRUE] \in Monitor
BY DEF Monitor

\* A missed probe keeps the type of the monitor.
LEMMA MissChanges ==
  ASSUME NEW m \in Monitor, NEW n \in Nat, NEW r \in BOOLEAN
  PROVE  [m EXCEPT !.probing = FALSE, !.missed = n, !.reported = r] \in Monitor
BY DEF Monitor

\* The steps of the login, the probe and the notices keep what the monitor measures.
LEMMA MeasuresStep ==
  ASSUME TypeOK, EveryIntervalProbed, SessionStep \/ MonitorStep \/ NoticeClosed
  PROVE  Measures
<1> USE DEF keepalive, session, TypeOK, SessionOK
<1>1. CASE Tick
  <2>1. monitor' \in Monitor
    <3>1. monitor.age + 1 \in Nat
      BY DEF Monitor
    <3> QED
      BY <1>1, <3>1, TimerChanges DEF Tick
  <2>2. /\ monitor'.age = monitor.age + 1 /\ monitor'.missed = monitor.missed
        /\ monitor'.probing /\ ~ monitor.probing
        /\ monitor.age \in Nat /\ monitor.missed \in Nat
    BY <1>1 DEF Tick, Monitor
  <2>3. EveryIntervalProbed'
    BY <2>2 DEF EveryIntervalProbed
  <2> QED
    BY <1>1, <2>1, <2>3 DEF Tick, Measures
<1>2. CASE MomentPasses
  BY <1>2 DEF MomentPasses, Measures, EveryIntervalProbed, Monitor
<1>3. CASE ProbeEnds
  <2>1. CASE monitor' = [Heard(monitor) EXCEPT !.probing = FALSE]
    <3>1. monitor' \in Monitor /\ monitor'.age = 0 /\ monitor'.missed = 0
      BY <2>1, HeardIsProbed DEF Monitor
    <3> QED
      BY <1>3, <3>1 DEF ProbeEnds, Measures, EveryIntervalProbed
  <2>2. CASE monitor' = [monitor EXCEPT !.probing = FALSE, !.missed = @ + 1,
                                        !.reported = Stale(monitor)]
    <3>1. /\ monitor' \in Monitor
          /\ monitor'.age = monitor.age /\ monitor'.missed = monitor.missed + 1
      <4>1. monitor.missed + 1 \in Nat /\ Stale(monitor) \in BOOLEAN
        BY DEF Monitor, Stale
      <4>2. monitor' \in Monitor
        BY <2>2, <4>1, MissChanges
      <4> QED
        BY <2>2, <4>2 DEF Monitor
    <3>2. monitor.age \in Nat /\ monitor.missed \in Nat /\ monitor.age <= monitor.missed + 1
      BY DEF EveryIntervalProbed, Monitor
    <3>3. EveryIntervalProbed'
      BY <3>1, <3>2 DEF EveryIntervalProbed, Monitor
    <3> QED
      BY <1>3, <3>1, <3>3 DEF ProbeEnds, Measures
  <2> QED
    BY <1>3, <2>1, <2>2 DEF ProbeEnds
<1>4. CASE NoticeClosed
  BY <1>4, HeardIsProbed DEF NoticeClosed, Measures, EveryIntervalProbed
<1>. DEFINE turned(on) == [monitor EXCEPT !.on = on]
<1>5. \A on \in BOOLEAN : turned(on) \in Monitor /\ turned(on).age = monitor.age
                          /\ turned(on).missed = monitor.missed /\ turned(on).probing = monitor.probing
  BY DEF Monitor
<1>6. CASE Start
  <2>1. dm' \in Nat /\ UNCHANGED <<send, handler, keepalive, landed, cleared>>
    BY <1>6 DEF Start
  <2>2. SessionOK'
    <3>1. client' \in Clients /\ attempted' \in BOOLEAN /\ met' \subseteq Clients
      BY <1>6 DEF Start
    <3>2. closing' \in Nat /\ client' + closing' \in Clients
      <4>1. CASE attempted
        <5>1. client + closing < MaxClients /\ closing' = closing + 1 /\ client' = client
          BY <1>6, <4>1 DEF Start
        <5>2. client \in Nat /\ client >= 1 /\ MaxClients \in Nat
          BY DiscordAssumption DEF Clients
        <5> QED
          BY <5>1, <5>2 DEF Clients
      <4>2. CASE ~ attempted
        <5>1. closing' = closing /\ client' = client
          BY <1>6, <4>2 DEF Start
        <5> QED
          BY <5>1
      <4> QED
        BY <4>1, <4>2
    <3>3. login' \in [Clients -> {"none", "pending", "over"}] /\ live' \subseteq Clients
      BY <1>6 DEF Start
    <3> QED
      BY <3>1, <3>2, <3>3
  <2>3. monitor' = monitor \/ monitor' = turned(FALSE)
    BY <1>6 DEF Start
  <2>4. monitor' \in Monitor /\ EveryIntervalProbed'
    BY <1>5, <2>3 DEF EveryIntervalProbed
  <2> QED
    BY <2>1, <2>2, <2>4 DEF Measures
<1>7. CASE Connects
  <2>1. Unmeasured \in Monitor /\ Unmeasured.age = 0 /\ Unmeasured.missed = 0
    BY DEF Unmeasured, Monitor
  <2>2. monitor' \in Monitor /\ EveryIntervalProbed'
    BY <1>7, <2>1 DEF Connects, EveryIntervalProbed
  <2>3. client + 1 \in Clients /\ client + 1 + (closing - 1) \in Clients /\ closing - 1 \in Nat
    BY <1>7, DiscordAssumption DEF Connects, Clients
  <2>4. SessionOK' /\ dm' \in Nat
    BY <1>7, <2>3 DEF Connects, SessionOK, None
  <2> QED
    BY <1>7, <2>2, <2>4 DEF Connects, Measures
<1>8. ASSUME NEW c \in Clients, LoginStep(c) PROVE Measures
  <2>1. SessionOK' /\ dm' \in Nat
    BY <1>8 DEF LoginStep, MeetsDiscord, LoginDone, LoginFails, LoginOver, SessionOK
  <2>2. CASE UNCHANGED monitor
    BY <1>8, <2>1, <2>2 DEF LoginStep, MeetsDiscord, LoginDone, LoginFails, LoginOver, Measures,
       EveryIntervalProbed
  <2>3. CASE LoginDone(c)
    <3>1. monitor' \in Monitor /\ monitor'.age = 0 /\ monitor'.missed = 0
      BY <2>3, HeardIsProbed DEF LoginDone, Monitor
    <3> QED
      BY <2>1, <2>3, <3>1 DEF LoginDone, LoginOver, Measures, EveryIntervalProbed
  <2> QED
    BY <1>8, <2>2, <2>3 DEF LoginStep, MeetsDiscord, LoginFails
<1>9. CASE Stop
  <2>1. monitor' \in Monitor /\ EveryIntervalProbed'
    BY <1>5, <1>9 DEF Stop, EveryIntervalProbed
  <2>2. SessionOK'
    BY <1>9 DEF Stop, SessionOK
  <2> QED
    BY <1>9, <2>1, <2>2 DEF Stop, Measures
<1> QED
  BY <1>1, <1>2, <1>3, <1>4, <1>6, <1>7, <1>8, <1>9
  DEF SessionStep, MonitorStep

\* A step that touches no typing keeps the invariant if its measurements do.
LEMMA MeasuresKeep ==
  ASSUME Inv, Measures
  PROVE  Inv'
<1>1. TypeOK'
  BY DEF Inv, Measures, SessionOK, TypeOK, keepalive
<1>2. OneKeepalive' /\ RaisedIsDown' /\ ClearedIsDown'
  BY DEF Inv, Measures, OneKeepalive, RaisedIsDown, ClearedIsDown, Down, keepalive
<1> QED
  BY <1>1, <1>2 DEF Inv, Measures

-----------------------------------------------------------------------------
(* The handlers of the person's messages, and the refreshes.               *)

\* Typing that starts for a message keeps the invariant.
LEMMA StartsKeep ==
  ASSUME Inv, NEW m \in Messages, handler[m] \in {"none", "files"}, StartsTyping(m),
         UNCHANGED <<session, send, landed, cleared>>, dm' \in Nat,
         monitor' \in Monitor, EveryIntervalProbed'
  PROVE  Inv'
<1> USE DiscordAssumption DEF Inv
<1>1. TypeOK'
  BY DEF TypeOK, StartsTyping, Refreshes, session
<1>2. OneKeepalive'
  BY DEF OneKeepalive, TypeOK, StartsTyping, None
<1>3. \A n \in Messages : Down(n) => n # m /\ Down(n)' /\ last'[n] = last[n]
  BY DEF Down, TypeOK, StartsTyping, Refreshes
<1>4. RaisedIsDown'
  BY <1>3 DEF RaisedIsDown, TypeOK, Sending
<1>5. ClearedIsDown'
  BY <1>3 DEF ClearedIsDown, TypeOK
<1> QED
  BY <1>1, <1>2, <1>4, <1>5

\* The steps of a message's handler keep the invariant.
LEMMA HandlerKeeps ==
  ASSUME Inv, NEW m \in Messages, HandlerStep(m)
  PROVE  Inv'
<1> USE DiscordAssumption
<1>0. Comes(m) => dm' \in Nat
  BY DEF Comes, Inv, TypeOK, Clients
<1>1. CASE Comes(m) /\ StartsTyping(m)
  <2>1. monitor' \in Monitor /\ EveryIntervalProbed'
    BY <1>1, HeardIsProbed DEF Comes, Inv, TypeOK, EveryIntervalProbed
  <2> QED
    BY <1>0, <1>1, <2>1, StartsKeep DEF Comes, Inv, TypeOK
<1>2. CASE Comes(m) /\ handler' = [handler EXCEPT ![m] = "files"] /\ UNCHANGED keepalive
  <2>1. monitor' \in Monitor /\ EveryIntervalProbed'
    BY <1>2, HeardIsProbed DEF Comes, Inv, TypeOK, EveryIntervalProbed
  <2>2. TypeOK'
    BY <1>0, <1>2, <2>1 DEF Comes, Inv, TypeOK, keepalive, session
  <2>3. OneKeepalive'
    BY <1>2 DEF Comes, Inv, OneKeepalive, TypeOK, keepalive
  <2>4. \A n \in Messages : Down(n) => Down(n)' /\ last'[n] = last[n]
    BY <1>2 DEF Comes, Down, Inv, TypeOK, keepalive
  <2>5. RaisedIsDown'
    BY <1>2, <2>4 DEF Comes, Inv, RaisedIsDown, TypeOK, Sending
  <2>6. ClearedIsDown'
    BY <1>2, <2>4 DEF Comes, Inv, ClearedIsDown, TypeOK
  <2> QED
    BY <2>1, <2>2, <2>3, <2>5, <2>6 DEF Inv
<1>3. CASE FilesStored(m)
  <2>1. monitor' \in Monitor /\ EveryIntervalProbed' /\ dm' \in Nat
    BY <1>3 DEF FilesStored, Inv, TypeOK, EveryIntervalProbed
  <2> QED
    BY <1>3, <2>1, StartsKeep DEF FilesStored
<1>4. CASE HandlerEnds(m)
  <2>1. TypeOK'
    BY <1>4 DEF HandlerEnds, Unregistered, Inv, TypeOK, session
  <2>2. OneKeepalive'
    BY <1>4 DEF HandlerEnds, Unregistered, Inv, OneKeepalive, TypeOK
  <2>3. \A n \in Messages : Down(n) => Down(n)' /\ last'[n] = last[n]
    BY <1>4 DEF HandlerEnds, Down, Inv, TypeOK
  <2>4. RaisedIsDown' /\ ClearedIsDown'
    BY <1>4, <2>3 DEF HandlerEnds, Inv, RaisedIsDown, ClearedIsDown, TypeOK, Sending
  <2> QED
    BY <1>4, <2>1, <2>2, <2>4 DEF Inv, HandlerEnds, EveryIntervalProbed
<1>5. CASE TypingTick(m)
  <2>1. TypeOK'
    BY <1>5 DEF TypingTick, Refreshes, Inv, TypeOK, session
  <2>2. OneKeepalive'
    BY <1>5 DEF TypingTick, Inv, OneKeepalive
  <2>3. \A n \in Messages : Down(n) => Down(n)' /\ last'[n] = last[n]
    BY <1>5 DEF TypingTick, Refreshes, Down, Inv, TypeOK
  <2>4. RaisedIsDown' /\ ClearedIsDown'
    BY <1>5, <2>3 DEF TypingTick, Inv, RaisedIsDown, ClearedIsDown, TypeOK, Sending
  <2> QED
    BY <1>5, <2>1, <2>2, <2>4 DEF Inv, TypingTick, EveryIntervalProbed
<1> QED
  BY <1>1, <1>2, <1>3, <1>4, <1>5 DEF HandlerStep, Comes

\* A refresh that reaches Discord keeps the invariant.
LEMMA LandsKeeps ==
  ASSUME Inv, Lands
  PROVE  Inv'
<1>1. TypeOK' /\ OneKeepalive' /\ EveryIntervalProbed'
  BY DEF Lands, Inv, TypeOK, OneKeepalive, EveryIntervalProbed, session, keepalive
<1>2. \A m \in Messages : last[m] <= landed => last'[m] <= landed'
  BY DEF Lands, Inv, TypeOK, keepalive
<1>3. RaisedIsDown' /\ ClearedIsDown'
  BY <1>2 DEF Lands, Inv, RaisedIsDown, ClearedIsDown, Down, TypeOK, Sending, keepalive
<1> QED
  BY <1>1, <1>3 DEF Inv

-----------------------------------------------------------------------------
(* The sends.                                                              *)

\* A send that gets its channel ends the keepalive it raised, or leaves it.
LEMMA ChannelKeeps ==
  ASSUME Inv, NEW s \in Sends, send[s].at \in {"asked", "fetching"}, HasChannel(s),
         UNCHANGED <<session, handler, landed, cleared, monitor>>, dm' \in Nat
  PROVE  Inv'
<1> USE DiscordAssumption
<1>1. CASE SendsNotice(s)
  <2>1. TypeOK' /\ OneKeepalive' /\ ClearedIsDown'
    BY <1>1 DEF SendsNotice, Goes, Inv, TypeOK, OneKeepalive, ClearedIsDown, Down, Sending, keepalive, session
  <2>2. RaisedIsDown'
    BY <1>1 DEF SendsNotice, Goes, Inv, TypeOK, RaisedIsDown, Down, Sending, keepalive
  <2> QED
    BY <2>1, <2>2 DEF Inv, EveryIntervalProbed
<1>2. CASE EndsTyping(s)
  <2>1. TypeOK'
    <3>1. send'[s].raised \in SUBSET Messages /\ send'[s] \in Sending
      BY ZenonT(60), <1>2 DEF EndsTyping, Inv, TypeOK, Sending
    <3>2. send' \in [Sends -> Sending]
      BY <1>2, <3>1 DEF EndsTyping, Inv, TypeOK
    <3> QED
      BY <1>2, <3>2 DEF EndsTyping, Ends, Inv, TypeOK, session
  <2>2. OneKeepalive'
    BY <1>2 DEF EndsTyping, Ends, Inv, OneKeepalive
  <2>3. \A n \in Messages : Down(n) => Down(n)' /\ last'[n] = last[n]
    BY <1>2 DEF EndsTyping, Ends, Down
  <2>4. \A n \in send'[s].raised : n = send'[s].ended /\ Down(n)' /\ n \in Messages
    BY <1>2 DEF EndsTyping, Ends, Down, Inv, OneKeepalive, TypeOK, Sending
  <2>5. send'[s].at = "ending" /\ \A t \in Sends : t # s => send'[t] = send[t]
    BY <1>2 DEF EndsTyping, Inv, TypeOK, Sending
  <2>6. RaisedIsDown'
    BY <2>3, <2>4, <2>5 DEF Inv, RaisedIsDown, TypeOK, Sending
  <2>7. ClearedIsDown'
    BY <2>3 DEF Inv, ClearedIsDown, TypeOK
  <2> QED
    BY <2>1, <2>2, <2>6, <2>7 DEF Inv, EveryIntervalProbed
<1> QED
  BY <1>1, <1>2 DEF HasChannel

\* A send that only goes from one place to another.
Moves(s, at) ==
  /\ send' \in [Sends -> Sending]
  /\ \A t \in Sends : t # s => send'[t] = send[t]
  /\ send'[s].at = at
  /\ send'[s].raised = send[s].raised /\ send'[s].ended = send[s].ended
  /\ UNCHANGED <<session, dm, handler, keepalive, landed, cleared, monitor>>

\* A send that goes on to its next stage keeps the invariant.
LEMMA MovesKeep ==
  ASSUME Inv, NEW s \in Sends, NEW at \in {"asked", "fetching", "sending", "refused"}, Moves(s, at),
         at \in {"asked", "fetching"} => send[s].raised = {},
         at = "sending" => \A m \in send[s].raised : last[m] <= landed
  PROVE  Inv'
<1>1. TypeOK' /\ OneKeepalive' /\ ClearedIsDown' /\ EveryIntervalProbed'
  BY DEF Moves, Inv, TypeOK, OneKeepalive, ClearedIsDown, EveryIntervalProbed, Down, keepalive, session
<1>2. \A m \in Messages : Down(m)' = Down(m) /\ last'[m] = last[m]
  BY DEF Moves, Down, keepalive
<1>3. RaisedIsDown'
  BY <1>2 DEF Moves, Inv, TypeOK, RaisedIsDown, Sending
<1> QED
  BY <1>1, <1>3 DEF Inv

\* The steps of a send keep the invariant.
LEMMA SendKeeps ==
  ASSUME Inv, NEW s \in Sends, SendStep(s) \/ \E notice \in BOOLEAN : Ask(s, notice)
  PROVE  Inv'
<1> USE DiscordAssumption
<1>0. send[s] \in Sending /\ send[s].by \in Nat /\ send[s].notice \in BOOLEAN
  BY DEF Inv, TypeOK, Sending
<1>1. ASSUME NEW notice \in BOOLEAN, Ask(s, notice) PROVE Inv'
  <2>1. send[s].raised = {}
    BY <1>1 DEF Ask, At, Inv, RaisedIsDown
  <2>2. Moves(s, "asked")
    BY <1>0, <1>1 DEF Ask, Moves, Inv, TypeOK, Sending
  <2> QED
    BY <2>1, <2>2, MovesKeep
<1>2. CASE KeptChannel(s)
  BY <1>2, ChannelKeeps DEF KeptChannel, At, Inv, TypeOK
<1>3. CASE Expires(s)
  <2>1. Moves(s, "refused")
    BY <1>0, <1>3 DEF Expires, Goes, Moves, Inv, TypeOK, Sending
  <2> QED
    BY <2>1, MovesKeep
<1>4. CASE Fetches(s)
  <2>1. send[s].raised = {}
    BY <1>4 DEF Fetches, At, Inv, RaisedIsDown
  <2>2. client \in Nat
    BY DEF Inv, TypeOK, Clients
  <2>3. Moves(s, "fetching")
    BY <1>0, <1>4, <2>2 DEF Fetches, Moves, Inv, TypeOK, Sending
  <2> QED
    BY <2>1, <2>3, MovesKeep
<1>5. CASE Fetched(s) /\ dm' = send[s].by /\ HasChannel(s)
  BY <1>0, <1>5, ChannelKeeps DEF Fetched, At
<1>6. CASE Fetched(s) /\ Goes(s, "refused") /\ UNCHANGED <<dm, keepalive>>
  <2>1. Moves(s, "refused")
    BY <1>0, <1>6 DEF Fetched, Goes, Moves, Inv, TypeOK, Sending
  <2> QED
    BY <2>1, MovesKeep
<1>7. CASE TypingEnded(s)
  <2>1. Moves(s, "sending")
    BY <1>0, <1>7 DEF TypingEnded, Goes, Moves, Inv, TypeOK, Sending
  <2>2. \A m \in send[s].raised : last[m] <= landed
    BY <1>7, DiscordAssumption DEF TypingEnded, Awaited, Inv, RaisedIsDown, TypeOK, Sending
  <2> QED
    BY <2>1, <2>2, MovesKeep
<1>8. CASE Posted(s)
  <2>1. monitor' \in Monitor /\ EveryIntervalProbed'
    BY <1>8, HeardIsProbed DEF Posted, Inv, TypeOK, EveryIntervalProbed
  <2>2. OneKeepalive'
    BY <1>8 DEF Posted, Inv, OneKeepalive, keepalive
  <2>3. \A m \in send[s].raised : Down(m) /\ last[m] <= landed
    BY <1>8 DEF Posted, At, Inv, RaisedIsDown
  <2>4. ClearedIsDown'
    BY <1>8, <2>3 DEF Posted, Inv, ClearedIsDown, Down, keepalive
  <2>5. TypeOK'
    BY <1>0, <1>8, <2>1 DEF Posted, Goes, Inv, TypeOK, Sending, keepalive, session
  <2>6. RaisedIsDown'
    <3>1. \A t \in Sends : /\ send'[t].raised = send[t].raised /\ send'[t].ended = send[t].ended
                           /\ send'[t].at = send[t].at \/ send'[t].at \in {"sent", "refused"}
      BY <1>8 DEF Posted, Goes, Inv, TypeOK, Sending
    <3>2. \A m \in Messages : Down(m)' = Down(m) /\ last'[m] = last[m] /\ landed' = landed
      BY <1>8 DEF Posted, Down, keepalive
    <3>3. \A t \in Sends : send[t].raised \subseteq Messages
      BY DEF Inv, TypeOK, Sending
    <3> QED
      BY <3>1, <3>2, <3>3 DEF Inv, RaisedIsDown
  <2> QED
    BY <2>1, <2>2, <2>4, <2>5, <2>6 DEF Inv
<1> QED
  BY <1>1, <1>2, <1>3, <1>4, <1>5, <1>6, <1>7, <1>8 DEF SendStep, Fetched

-----------------------------------------------------------------------------
\* The invariant holds at first.
LEMMA InvInit == Init => Inv
<1> SUFFICES ASSUME Init PROVE Inv
  OBVIOUS
<1>1. Unsent \in Sending /\ Unsent.raised = {}
  BY DEF Unsent, Sending, None
<1>2. Unmeasured \in Monitor /\ Unmeasured.age = 0 /\ Unmeasured.missed = 0
  BY DEF Unmeasured, Monitor
<1>3. TypeOK
  <2>1. SessionOK
    <3>1. 1 \in Clients /\ client = 1 /\ closing = 0 /\ 1 + 0 \in Clients
      BY DiscordAssumption DEF Init, Clients
    <3>2. login \in [Clients -> {"none", "pending", "over"}]
      BY DEF Init
    <3>3. attempted \in BOOLEAN /\ live \subseteq Clients /\ met \subseteq Clients
      BY <3>1 DEF Init
    <3> QED
      BY <3>1, <3>2, <3>3 DEF SessionOK
  <2>2. /\ dm \in Nat /\ send \in [Sends -> Sending] /\ active \in Messages \cup {None}
        /\ timer \subseteq Messages /\ monitor \in Monitor
    BY <1>1, <1>2 DEF Init, None
  <2>3. /\ handler \in [Messages -> {"none", "files", "handling", "over"}]
        /\ ticks \in [Messages -> Nat] /\ last \in [Messages -> Nat]
        /\ issued \in Nat /\ landed \in Nat /\ cleared \subseteq Messages
    BY DEF Init
  <2> QED
    BY <2>1, <2>2, <2>3 DEF SessionOK, TypeOK
<1>4. OneKeepalive /\ RaisedIsDown /\ ClearedIsDown
  BY <1>1 DEF Init, OneKeepalive, RaisedIsDown, ClearedIsDown
<1> QED
  BY <1>2, <1>3, <1>4 DEF Init, Inv, EveryIntervalProbed

\* Every step keeps the invariant.
LEMMA InvStep == Inv /\ [Next]_vars => Inv'
<1> SUFFICES ASSUME Inv, [Next]_vars PROVE Inv'
  OBVIOUS
<1>1. CASE SessionStep \/ MonitorStep \/ NoticeClosed
  BY <1>1, MeasuresStep, MeasuresKeep DEF Inv
<1>2. CASE Lands
  BY <1>2, LandsKeeps
<1>3. ASSUME NEW m \in Messages, HandlerStep(m) PROVE Inv'
  BY <1>3, HandlerKeeps
<1>4. ASSUME NEW s \in Sends, SendStep(s) \/ \E notice \in BOOLEAN : Ask(s, notice) PROVE Inv'
  BY <1>4, SendKeeps
<1>5. CASE UNCHANGED vars
  BY <1>5 DEF vars, session, keepalive, Inv, TypeOK, OneKeepalive, RaisedIsDown, ClearedIsDown,
     EveryIntervalProbed, Down
<1> QED
  BY <1>1, <1>2, <1>3, <1>4, <1>5 DEF Next

\* The inductive invariant holds in every behaviour.
THEOREM Invariance == Spec => []Inv
BY InvInit, InvStep, PTL DEF Spec

\* The variables keep their types.
THEOREM TypeCorrect == Spec => []TypeOK
<1>1. Inv => TypeOK
  BY DEF Inv
<1> QED BY <1>1, Invariance, PTL

\* No refresh of the indicator comes after the message that ended it, however many
\* messages, sends and refreshes there are.
THEOREM MessageIsTheClear == Spec => []NoGhost
<1>1. Inv => NoGhost
  BY DEF Inv, ClearedIsDown, Down, NoGhost
<1> QED BY <1>1, Invariance, PTL

\* The channel is silent only after all but one of the probes that fit in the time it
\* may be, whatever that time is.
THEOREM NoBlipIsSilence == Spec => []BlipIsNotSilence
<1>1. Inv => BlipIsNotSilence
  BY DiscordAssumption DEF Inv, EveryIntervalProbed, TypeOK, Monitor, Stale, BlipIsNotSilence
<1> QED BY <1>1, Invariance, PTL
=============================================================================
