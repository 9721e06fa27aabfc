----------------------------- MODULE TurnStatus -----------------------------
(***************************************************************************)
(* The status line of one turn: when it appears, which step it names and   *)
(* when it goes (src/src/turn-status.ts), and how a channel that edits and *)
(* deletes its own messages keeps it (src/src/status-line.ts).             *)
(*                                                                         *)
(* The platform is external: a call on the line's message takes its time,  *)
(* and may fail with or without having done what it was asked.             *)
(***************************************************************************)
EXTENDS Integers, Sequences, FiniteSets

CONSTANTS
  Tools,        \* the tools the turn starts
  NoTool,
  MaxInputs,    \* bound: how often the input of each tool changes
  MaxAnswers,   \* bound: the messages of the answer
  MaxSummaries, \* bound: how often the session writes its summary
  MaxFaults     \* bound: failed calls

ASSUME TurnStatusAssumption ==
  /\ NoTool \notin Tools
  /\ MaxInputs \in [Tools -> Nat]
  /\ {MaxAnswers, MaxSummaries, MaxFaults} \subseteq Nat

\* What a line says: the sentence of a step with its input, the plain one, or
\* that the session takes stock.
Plain == <<"plain">>
Compaction == <<"compaction">>
Sentences == (UNION {{t} \X (0 .. MaxInputs[t]) : t \in Tools}) \cup {Plain, Compaction}
Unsaid == <<>>
Close == <<"close">>

VARIABLES
  tools,      \* [Tools -> "new", "running", "ended"]
  input,      \* [Tools -> Nat], which input each tool has now
  longTimers, \* the tools whose STATUS_AFTER_MS timer runs
  st,         \* TurnStatus's own fields, and the operations of the line not yet
              \* started or under way, in order
  line,       \* the fields of messageStatusLine, and what its message says
  call,       \* the platform call under way
  chat,       \* the messages in the chat, a line by its number, an answer as 0
  posts,      \* how many lines were posted
  left,       \* the lines whose removal failed
  lost,       \* the lines whose post failed and reached the chat
  told,       \* how many of the answers in the chat the status was told of
  summaries, faults

vars == <<tools, input, longTimers, st, line, call, chat, posts, left, lost, told, summaries, faults>>

step == <<tools, input, longTimers, summaries>>
platform == <<chat, posts, left, lost, told, faults>>

NoCall == [do |-> "none", on |-> 0, done |-> FALSE]

Init ==
  /\ tools = [t \in Tools |-> "new"] /\ input = [t \in Tools |-> 0]
  /\ longTimers = {}
  /\ st = [step |-> NoTool, shown |-> FALSE, closed |-> FALSE, stale |-> FALSE,
           passedSince |-> FALSE, compactingNow |-> FALSE, text |-> Unsaid,
           paced |-> FALSE, editTimer |-> FALSE, rendering |-> "no", asked |-> Unsaid,
           chain |-> <<>>]
  /\ line = [message |-> 0, postTried |-> FALSE, closed |-> FALSE, passed |-> FALSE,
             says |-> Unsaid, missed |-> FALSE]
  /\ call = NoCall
  /\ chat = <<>> /\ posts = 0 /\ left = {} /\ lost = {} /\ told = 0
  /\ summaries = 0 /\ faults = 0

-----------------------------------------------------------------------------
(* Rendering: s is the status, ts and ins the tools and their inputs.      *)

\* mutant: a sentence the line says already is not said again
SaidAnywhere(s, sentence) == sentence = s.text

\* The line says it already, and no message passed it.
Said(s, sentence) == sentence = s.text /\ ~ s.passedSince

\* A render has its sentence: line.show().
Say(s, sentence) ==
  IF Said(s, sentence) THEN [s EXCEPT !.rendering = "no", !.asked = Unsaid]
  ELSE [s EXCEPT !.rendering = "showing", !.asked = Unsaid, !.passedSince = FALSE,
                 !.text = sentence, !.paced = TRUE, !.chain = Append(@, sentence)]

\* render()
Render(s, ins) ==
  LET r == [s EXCEPT !.stale = FALSE] IN
  CASE s.compactingNow -> Say(r, Compaction)
    [] ~ s.compactingNow /\ s.step # NoTool ->
         [r EXCEPT !.rendering = "asking", !.asked = <<s.step, ins[s.step]>>]
    [] OTHER -> Say(r, Plain)

\* mutant: what changes during a render is not rendered after it
RefreshOnce(s, ins) ==
  IF s.rendering # "no" \/ s.editTimer THEN s
  ELSE IF s.paced THEN [s EXCEPT !.editTimer = TRUE] ELSE Render(s, ins)

\* refresh()
Refresh(s, ins) ==
  CASE s.rendering # "no" -> [s EXCEPT !.stale = TRUE]
    [] s.rendering = "no" /\ ~ s.editTimer /\ s.paced -> [s EXCEPT !.editTimer = TRUE]
    [] s.rendering = "no" /\ ~ s.editTimer /\ ~ s.paced -> Render(s, ins)
    [] OTHER -> s

\* The end of a render.
Rendered(s, ins) ==
  LET r == [s EXCEPT !.rendering = "no"] IN
  IF r.stale /\ ~ r.closed THEN Refresh(r, ins) ELSE r

\* The catalogue answers with the sentence it was asked for, or fails.
SentenceComes ==
  /\ st.rendering = "asking"
  /\ \E sentence \in {st.asked, Plain} :
       LET s == Say(st, sentence) IN
       st' = IF st.closed THEN Rendered([st EXCEPT !.asked = Unsaid], input)
             ELSE IF s.rendering = "no" THEN Rendered(s, input) ELSE s
  /\ UNCHANGED <<step, line, call, platform>>

\* STATUS_EDIT_EVERY_MS after the last edit, the timer set meanwhile fires.
PaceOver ==
  /\ st.paced
  /\ LET s == [st EXCEPT !.paced = FALSE, !.editTimer = FALSE] IN
     st' = IF st.editTimer /\ ~ st.closed THEN Render(s, input) ELSE s
  /\ UNCHANGED <<step, line, call, platform>>

-----------------------------------------------------------------------------
(* What the turn reports.                                                  *)

\* A tool_call, of a tool that runs or is over already.
ToolStarts(t) ==
  /\ tools[t] = "new" /\ ~ st.closed
  /\ \E running \in BOOLEAN :
       /\ tools' = [tools EXCEPT ![t] = IF running THEN "running" ELSE "ended"]
       /\ LET s == [st EXCEPT !.step = t, !.compactingNow = FALSE] IN
          st' = CASE running /\ st.shown -> Refresh(s, input)
                  [] running /\ ~ st.shown -> s
                  [] OTHER -> st
       /\ longTimers' = longTimers \cup (IF running /\ ~ st.shown THEN {t} ELSE {})
  /\ UNCHANGED <<input, summaries, line, call, platform>>

\* A tool_call_update: another input, the end of the tool, or both.
ToolUpdate(t) ==
  /\ tools[t] # "new" /\ ~ st.closed
  /\ \E changed, ended \in BOOLEAN :
       /\ changed \/ (ended /\ tools[t] = "running")
       /\ changed => input[t] < MaxInputs[t]
       /\ input' = IF changed THEN [input EXCEPT ![t] = @ + 1] ELSE input
       /\ tools' = IF ended THEN [tools EXCEPT ![t] = "ended"] ELSE tools
       /\ longTimers' = IF ended THEN longTimers \ {t} ELSE longTimers
       /\ st' = IF changed /\ ~ ended /\ st.shown /\ st.step = t /\ tools[t] = "running"
                THEN Refresh(st, input') ELSE st
  /\ UNCHANGED <<summaries, line, call, platform>>

\* ranLong()
RanLong(t) ==
  /\ t \in longTimers
  /\ longTimers' = longTimers \ {t}
  /\ st' = IF ~ st.closed /\ ~ st.shown /\ tools[t] = "running"
           THEN Refresh([st EXCEPT !.shown = TRUE, !.step = t], input) ELSE st
  /\ UNCHANGED <<tools, input, summaries, line, call, platform>>

Running(t) == t # NoTool /\ tools[t] = "running"

\* compacting()
SummaryStarts ==
  /\ ~ st.closed /\ ~ st.compactingNow /\ summaries < MaxSummaries
  /\ summaries' = summaries + 1
  /\ st' = Refresh([st EXCEPT !.compactingNow = TRUE, !.shown = TRUE], input)
  /\ UNCHANGED <<tools, input, longTimers, line, call, platform>>

SummaryEnds ==
  /\ ~ st.closed /\ st.compactingNow
  /\ st' = Refresh([st EXCEPT !.compactingNow = FALSE,
                              !.step = IF Running(@) THEN @ ELSE NoTool], input)
  /\ UNCHANGED <<step, line, call, platform>>

Answers == Cardinality({i \in DOMAIN chat : chat[i] = 0})

\* A chunk of the answer reaches the chat, and then its send returns: passed().
AnswerLands ==
  /\ Answers < MaxAnswers
  /\ chat' = Append(chat, 0)
  /\ UNCHANGED <<step, st, line, call, posts, left, lost, told, faults>>

\* mutant: a message that passes the line waits for the next step
PassedLater(s, ins) == [s EXCEPT !.passedSince = TRUE]

Passed(s, ins) ==
  IF s.shown /\ (Running(s.step) \/ s.compactingNow)
  THEN Refresh([s EXCEPT !.passedSince = TRUE], ins)
  ELSE [s EXCEPT !.passedSince = TRUE]

AnswerSent ==
  /\ told < Answers
  /\ told' = told + 1
  /\ IF st.closed THEN UNCHANGED <<st, line>>
     ELSE /\ line' = [line EXCEPT !.passed = TRUE]
          /\ st' = Passed(st, input)
  /\ UNCHANGED <<step, call, chat, posts, left, lost, faults>>

\* mutant: nothing is taken down while there is no message yet
ClosingWhatIsThere(s) == IF line.message # 0 THEN Append(s.chain, Close) ELSE s.chain

Closing(s) == IF s.shown THEN Append(s.chain, Close) ELSE s.chain

\* close(), of the status and then of the line.
TurnEnds ==
  /\ ~ st.closed
  /\ longTimers' = {}
  /\ st' = [st EXCEPT !.closed = TRUE, !.editTimer = FALSE,
                      !.chain = Closing(st)]
  /\ line' = [line EXCEPT !.closed = st.shown]
  /\ UNCHANGED <<tools, input, summaries, call, platform>>

-----------------------------------------------------------------------------
(* The operations of the line, one after another.                          *)

Doing(do, on) == [do |-> do, on |-> on, done |-> FALSE]

\* The operation is over, and so is the render that asked for it.
OpDone ==
  LET s == [st EXCEPT !.chain = Tail(@)] IN
  /\ call' = NoCall
  /\ st' = IF Head(st.chain) = Close THEN s ELSE Rendered(s, input)

\* mutant: a post that failed is tried again
ShowAgain ==
  LET free == [line EXCEPT !.passed = FALSE] IN
  CASE line.passed /\ line.message # 0 ->
         call' = Doing("replace", line.message) /\ line' = [free EXCEPT !.message = 0]
    [] ~ line.passed /\ line.message # 0 ->
         call' = Doing("edit", line.message) /\ line' = free
    [] OTHER -> call' = Doing("post", 0) /\ line' = free

\* show(), when there is something to do for it.
Show ==
  LET free == [line EXCEPT !.passed = FALSE] IN
  CASE line.passed /\ line.message # 0 ->
         call' = Doing("replace", line.message) /\ line' = [free EXCEPT !.message = 0]
    [] ~ line.passed /\ line.message # 0 ->
         call' = Doing("edit", line.message) /\ line' = free
    [] line.message = 0 /\ ~ line.postTried ->
         call' = Doing("post", 0) /\ line' = [free EXCEPT !.postTried = TRUE]
    [] OTHER -> FALSE

OpStarts ==
  /\ call = NoCall /\ st.chain # <<>>
  /\ LET op == Head(st.chain)
         dead == line.message = 0 /\ (op = Close \/ line.postTried)
     IN CASE op # Close /\ line.closed -> OpDone /\ UNCHANGED line
          [] ~ (op # Close /\ line.closed) /\ dead ->
               OpDone /\ line' = [line EXCEPT !.passed = @ /\ op = Close]
          [] op = Close /\ line.message # 0 ->
               /\ call' = Doing("remove", line.message)
               /\ line' = [line EXCEPT !.message = 0]
               /\ UNCHANGED st
          [] OTHER -> Show /\ UNCHANGED st
  /\ UNCHANGED <<step, platform>>

\* The chat without a line, which it holds once or not at all.
Without(id) ==
  IF \A i \in DOMAIN chat : chat[i] # id THEN chat
  ELSE LET at == CHOOSE i \in DOMAIN chat : chat[i] = id IN
       [i \in 1 .. Len(chat) - 1 |-> chat[IF i < at THEN i ELSE i + 1]]

\* The platform does what it was asked.
CallActs ==
  /\ call.do # "none" /\ ~ call.done
  /\ call' = [call EXCEPT !.done = TRUE]
  /\ posts' = IF call.do = "post" THEN posts + 1 ELSE posts
  /\ chat' = CASE call.do = "post" -> Append(chat, posts')
               [] call.do \in {"replace", "remove"} -> Without(call.on)
               [] OTHER -> chat
  /\ line' = IF call.do = "edit" THEN [line EXCEPT !.says = Head(st.chain)] ELSE line
  /\ UNCHANGED <<step, st, left, lost, told, faults>>

\* Its answer comes back.  A post is remembered, and what is replaced is
\* posted again whatever the removal answered.
CallAnswered ==
  /\ call.done
  /\ CASE call.do = "replace" ->
            call' = Doing("post", 0) /\ line' = [line EXCEPT !.postTried = TRUE] /\ UNCHANGED st
       [] call.do = "post" ->
            OpDone /\ line' = [line EXCEPT !.message = posts, !.says = Head(st.chain),
                                           !.missed = FALSE]
       [] call.do = "edit" -> OpDone /\ line' = [line EXCEPT !.missed = FALSE]
       [] OTHER -> OpDone /\ UNCHANGED line
  /\ UNCHANGED <<step, platform>>

\* Or the call fails, done or not.
CallFails ==
  /\ call.do # "none" /\ faults < MaxFaults
  /\ faults' = faults + 1
  /\ lost' = IF call.do = "post" /\ call.done THEN lost \cup {posts} ELSE lost
  /\ left' = IF call.do \in {"replace", "remove"} /\ ~ call.done THEN left \cup {call.on}
             ELSE left
  /\ IF call.do = "replace"
     THEN call' = Doing("post", 0) /\ line' = [line EXCEPT !.postTried = TRUE] /\ UNCHANGED st
     ELSE OpDone /\ line' = [line EXCEPT !.missed = @ \/ call.do = "edit"]
  /\ UNCHANGED <<step, chat, posts, told>>

-----------------------------------------------------------------------------
LineStep == OpStarts \/ CallActs \/ CallAnswered \/ CallFails

Next ==
  \/ \E t \in Tools : ToolStarts(t) \/ ToolUpdate(t) \/ RanLong(t)
  \/ SummaryStarts \/ SummaryEnds \/ AnswerLands \/ AnswerSent \/ TurnEnds
  \/ SentenceComes \/ PaceOver \/ LineStep

Spec == Init /\ [][Next]_vars

\* The catalogue and the platform answer, the timers fire, a send returns.
\* Nothing is asked of the assistant, and the turn need not end.
FairSpec ==
  Spec /\ WF_vars(SentenceComes) /\ WF_vars(PaceOver) /\ WF_vars(LineStep) /\ WF_vars(AnswerSent)

-----------------------------------------------------------------------------
\* Types and ranges of the whole state.
TypeOK ==
  /\ tools \in [Tools -> {"new", "running", "ended"}]
  /\ input \in [Tools -> Nat] /\ \A t \in Tools : input[t] <= MaxInputs[t]
  /\ longTimers \subseteq Tools
  /\ st \in [step : Tools \cup {NoTool}, shown : BOOLEAN, closed : BOOLEAN, stale : BOOLEAN,
             passedSince : BOOLEAN, compactingNow : BOOLEAN, text : Sentences \cup {Unsaid},
             paced : BOOLEAN, editTimer : BOOLEAN, rendering : {"no", "asking", "showing"},
             asked : Sentences \cup {Unsaid}, chain : Seq(Sentences \cup {Close})]
  /\ line \in [message : 0 .. posts, postTried : BOOLEAN, closed : BOOLEAN, passed : BOOLEAN,
               says : Sentences \cup {Unsaid}, missed : BOOLEAN]
  /\ call \in [do : {"none", "post", "edit", "replace", "remove"}, on : 0 .. posts, done : BOOLEAN]
  /\ posts \in Nat /\ chat \in Seq(0 .. posts) /\ left \cup lost \subseteq 1 .. posts
  /\ told \in 0 .. MaxAnswers /\ summaries \in 0 .. MaxSummaries /\ faults \in 0 .. MaxFaults

Lines == {chat[i] : i \in DOMAIN chat} \ ({0} \cup left)

\* The chat never shows two lines of one turn, but for one whose removal failed:
\* another is posted only once the last is taken down, and none after a post
\* that failed and may have reached the chat.
OneLine == Cardinality(Lines) <= 1

\* Whatever was being looked up, waited for, posted or replaced when the turn
\* ended, no line of it stays in the chat, but for one whose post or removal
\* failed.
GoneAtTheEnd == st.closed ~> [](Lines \subseteq lost)

\* While a step runs the line ends up below what the assistant wrote, also when
\* the message came while the line was being posted, moved or edited.  So says the
\* comment of status-line.ts, and so do the tests; the one of turn-status.ts says
\* the contrary of the text: TextMovesNoLine, below.
BelowTheAnswer ==
  <>[](st.shown /\ ~ st.closed /\ Running(st.step))
    => <>[](line.message # 0 => chat[Len(chat)] = line.message)

\* The line comes to say the step the turn is at, with the input it has, or the
\* plain sentence, or that the session takes stock, unless the edit failed.
NamesTheStep ==
  \A sentence \in Sentences \ {Plain} :
    <>[](/\ st.shown /\ ~ st.closed
         /\ IF st.compactingNow THEN sentence = Compaction
            ELSE Running(st.step) /\ sentence = <<st.step, input[st.step]>>)
      => <>[](line.message # 0 => line.missed \/ line.says \in {sentence, Plain})

\* What a comment says and the code does not do.

\* "Its text, intermediate or final, neither creates the status, nor removes it,
\* nor moves it": a line in the chat stays where it is until the turn is over.
TextMovesNoLine ==
  [][\A i \in DOMAIN chat : chat[i] # 0 =>
       st.closed \/ (i \in DOMAIN chat' /\ chat'[i] = chat[i])]_vars
=============================================================================
