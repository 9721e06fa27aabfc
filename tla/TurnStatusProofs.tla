-------------------------- MODULE TurnStatusProofs --------------------------
(***************************************************************************)
(* What is proved of TurnStatus for any tools, bounds and faults: its      *)
(* types, and that the chat never shows two lines of one turn.             *)
(*                                                                         *)
(* The lines that show are named, at every moment, by the one place that   *)
(* may still take them down: the line's own field, or the call under way;  *)
(* a line that no place names any more was posted last, and none follows   *)
(* it.                                                                     *)
(***************************************************************************)
EXTENDS TurnStatus, FiniteSetTheorems, TLAPS

StatusType ==
  [step : Tools \cup {NoTool}, shown : BOOLEAN, closed : BOOLEAN, stale : BOOLEAN,
   passedSince : BOOLEAN, compactingNow : BOOLEAN, text : Sentences \cup {Unsaid},
   paced : BOOLEAN, editTimer : BOOLEAN, rendering : {"no", "asking", "showing"},
   asked : Sentences \cup {Unsaid}, chain : Seq(Sentences \cup {Close})]

\* The catalogue is only asked for a sentence there is.
Status(s) == s \in StatusType /\ (s.rendering = "asking" => s.asked \in Sentences)

Inputs(ins) == ins \in [Tools -> Nat] /\ \A t \in Tools : ins[t] <= MaxInputs[t]

\* The operation at the head of the line's chain stays at its head.
Ahead(s, r) == s.chain # <<>> => r.chain # <<>> /\ Head(r.chain) = Head(s.chain)

-----------------------------------------------------------------------------
(* The inductive invariant, by its parts.                                  *)

ToolsOK ==
  /\ tools \in [Tools -> {"new", "running", "ended"}]
  /\ input \in [Tools -> Nat] /\ \A t \in Tools : input[t] <= MaxInputs[t]
  /\ longTimers \subseteq Tools

StatusOK == st \in StatusType /\ (st.rendering = "asking" => st.asked \in Sentences)

LineOK ==
  line \in [message : 0 .. posts, postTried : BOOLEAN, closed : BOOLEAN, passed : BOOLEAN,
            says : Sentences \cup {Unsaid}, missed : BOOLEAN]

CallOK ==
  call \in [do : {"none", "post", "edit", "replace", "remove"}, on : 0 .. posts, done : BOOLEAN]

ChatOK == posts \in Nat /\ chat \in Seq(0 .. posts) /\ left \cup lost \subseteq 1 .. posts

CountsOK ==
  told \in 0 .. MaxAnswers /\ summaries \in 0 .. MaxSummaries /\ faults \in 0 .. MaxFaults

\* A call is under way for the operation at the head of the chain.
OpUnderWay ==
  /\ call.done => call.do # "none"
  /\ call.do # "none" => st.chain # <<>>
  /\ call.do \in {"post", "edit", "replace"} => Head(st.chain) # Close
  /\ call.do = "post" /\ call.done => posts # 0

Once(c) == \A i, j \in DOMAIN c : c[i] = c[j] /\ c[i] # 0 => i = j

ChatOnce == \A i, j \in DOMAIN chat : chat[i] = chat[j] /\ chat[i] # 0 => i = j

AnswersBound == IsFiniteSet({i \in DOMAIN chat : chat[i] = 0}) /\ Answers <= MaxAnswers

\* The lines that show, and the place that names them: the line, or its call.
\* After a post that nobody remembers none is tried.
OneKept ==
  /\ line.message # 0 =>
       line.postTried /\ Lines \subseteq {line.message} /\ call.do \in {"none", "edit"}
  /\ ~ line.postTried => Lines = {} /\ call.do = "none"
  /\ call.do = "post" => IF call.done THEN Lines \subseteq {posts} ELSE Lines = {}
  /\ call.do \in {"replace", "remove"} =>
       call.on # 0 /\ IF call.done THEN Lines = {} ELSE Lines \subseteq {call.on}
  /\ \E id \in 0 .. posts : Lines \subseteq {id}

Inv ==
  /\ ToolsOK /\ StatusOK /\ LineOK /\ CallOK /\ ChatOK /\ CountsOK
  /\ OpUnderWay /\ ChatOnce /\ AnswersBound /\ OneKept

-----------------------------------------------------------------------------
(* The chat.                                                               *)

HeldIn(c) == {c[i] : i \in DOMAIN c}
AnswersIn(c) == {i \in DOMAIN c : c[i] = 0}

\* The chat d is c with one message more, in a turn that posted n lines, then m.
Adds(d, m, c, n, x) ==
  n \in Nat /\ m \in Nat /\ n <= m /\ c \in Seq(0 .. n) /\ x \in 0 .. m /\ d = Append(c, x)

\* What a message adds to the chat.
LEMMA Appended ==
  ASSUME NEW d, NEW m, NEW c, NEW n, NEW x, Adds(d, m, c, n, x)
  PROVE  /\ d \in Seq(0 .. m) /\ HeldIn(d) = HeldIn(c) \cup {x}
         /\ Once(c) /\ (x = 0 \/ x \notin HeldIn(c)) => Once(d)
         /\ AnswersIn(d) \subseteq AnswersIn(c) \cup {Len(c) + 1}
         /\ x # 0 => AnswersIn(d) \subseteq AnswersIn(c)
<1>0. n \in Nat /\ m \in Nat /\ n <= m /\ c \in Seq(0 .. n) /\ x \in 0 .. m /\ d = Append(c, x)
  BY DEF Adds
<1>1. c \in Seq(0 .. m)
  <2>1. 0 .. n \subseteq 0 .. m
    BY <1>0
  <2> QED BY <1>0, <2>1
<1>3. /\ d \in Seq(0 .. m) /\ DOMAIN d = 1 .. Len(c) + 1 /\ DOMAIN c = 1 .. Len(c)
      /\ Len(c) \in Nat /\ d[Len(c) + 1] = x /\ \A i \in 1 .. Len(c) : d[i] = c[i]
  BY <1>0, <1>1
<1>4. \A i \in DOMAIN d : i \in DOMAIN c \/ i = Len(c) + 1
  BY <1>3
<1>5. {d[i] : i \in DOMAIN d} = {c[i] : i \in DOMAIN c} \cup {x}
  <2>1. \A i \in DOMAIN d : d[i] \in {c[j] : j \in DOMAIN c} \cup {x}
    BY <1>3, <1>4
  <2>2. \A j \in DOMAIN c : j \in DOMAIN d /\ d[j] = c[j]
    BY <1>3
  <2>3. Len(c) + 1 \in DOMAIN d
    BY <1>3
  <2>4. x \in {d[i] : i \in DOMAIN d}
    BY <1>3, <2>3
  <2> QED BY <2>1, <2>2, <2>4
<1>6. ASSUME Once(c), x = 0 \/ x \notin {c[i] : i \in DOMAIN c}
      PROVE  Once(d)
  BY <1>3, <1>4, <1>6 DEF Once
<1>7. {i \in DOMAIN d : d[i] = 0} \subseteq {i \in DOMAIN c : c[i] = 0} \cup {Len(c) + 1}
  BY <1>3, <1>4
<1>8. x # 0 => {i \in DOMAIN d : d[i] = 0} \subseteq {i \in DOMAIN c : c[i] = 0}
  BY <1>3, <1>4
<1> QED BY <1>3, <1>5, <1>6, <1>7, <1>8 DEF HeldIn, AnswersIn

\* What is left of the chat without a line that it holds once.
LEMMA Removed ==
  ASSUME NEW n \in Nat, chat \in Seq(0 .. n), NEW id \in Nat, id # 0, Once(chat),
         IsFiniteSet({i \in DOMAIN chat : chat[i] = 0}), chat' = Without(id)
  PROVE  /\ chat' \in Seq(0 .. n) /\ Once(chat')
         /\ {chat'[i] : i \in DOMAIN chat'} \subseteq {chat[i] : i \in DOMAIN chat} \ {id}
         /\ IsFiniteSet({i \in DOMAIN chat' : chat'[i] = 0})
         /\ Cardinality({i \in DOMAIN chat' : chat'[i] = 0})
              <= Cardinality({i \in DOMAIN chat : chat[i] = 0})
<1>0. PICK c \in Seq(0 .. n) : c = chat
  OBVIOUS
<1>1. DOMAIN c = 1 .. Len(c) /\ Len(c) \in Nat /\ \A i \in 1 .. Len(c) : c[i] \in 0 .. n
  OBVIOUS
<1>2. CASE \A i \in DOMAIN c : c[i] # id
  <2>1. chat' = chat
    BY <1>0, <1>2 DEF Without
  <2>2. Cardinality({i \in DOMAIN c : c[i] = 0}) \in Nat
    BY <1>0, FS_CardinalityType
  <2> QED BY <1>0, <1>2, <2>1, <2>2
<1>3. CASE \E i \in DOMAIN c : c[i] = id
  <2>1. PICK at \in DOMAIN c : at = (CHOOSE i \in DOMAIN c : c[i] = id) /\ c[at] = id
    BY <1>3
  <2>15. at \in Nat /\ 1 <= at /\ at <= Len(c)
    BY <1>1
  <2> DEFINE old(i) == IF i < at THEN i ELSE i + 1
  <2>2. PICK d : d = chat'
    OBVIOUS
  <2>3. d = [i \in 1 .. Len(c) - 1 |-> c[IF i < at THEN i ELSE i + 1]]
    BY <1>0, <1>3, <2>1, <2>2 DEF Without
  <2>16. Len(c) - 1 \in Nat
    BY <1>1, <2>15
  <2>4. PICK k \in Nat : k = Len(c) - 1
    BY <2>16
  <2>5. \A i \in 1 .. k : old(i) \in DOMAIN c /\ old(i) # at
    <3> SUFFICES ASSUME NEW i \in 1 .. k PROVE old(i) \in DOMAIN c /\ old(i) # at
      OBVIOUS
    <3>1. i \in Nat /\ 1 <= i /\ i + 1 <= Len(c)
      BY <1>1, <2>4
    <3>2. old(i) \in Nat /\ 1 <= old(i) /\ old(i) <= Len(c) /\ old(i) # at
      BY <1>1, <2>15, <3>1
    <3> QED BY <1>1, <3>2
  <2>6. \A i, j \in 1 .. k : old(i) = old(j) => i = j
    BY <2>15
  <2>7. DOMAIN d = 1 .. k /\ \A i \in 1 .. k : d[i] = c[old(i)]
    BY <2>3, <2>4
  <2> HIDE DEF old
  <2>8. d \in Seq(0 .. n)
    <3>1. d \in [1 .. k -> 0 .. n]
      <4>1. d = [i \in 1 .. k |-> d[i]]
        BY <2>3, <2>4, <2>7
      <4>2. \A i \in 1 .. k : d[i] \in 0 .. n
        BY <1>1, <2>5, <2>7
      <4> QED BY <4>1, <4>2
    <3> QED BY <3>1
  <2>9. Once(d)
    BY <1>0, <2>5, <2>6, <2>7 DEF Once
  <2>10. {d[i] : i \in DOMAIN d} \subseteq {c[i] : i \in DOMAIN c} \ {id}
    <3> SUFFICES ASSUME NEW i \in 1 .. k
                 PROVE  d[i] \in {c[j] : j \in DOMAIN c} /\ d[i] # id
      BY <2>7
    <3>1. d[i] = c[old(i)] /\ old(i) \in DOMAIN c /\ old(i) # at
      BY <2>5, <2>7
    <3> QED BY <1>0, <2>1, <3>1 DEF Once
  <2> DEFINE Z == {i \in DOMAIN d : d[i] = 0}
             Y == {i \in DOMAIN c : c[i] = 0}
             f == [i \in Z |-> old(i)]
  <2>11. f \in Injection(Z, Y)
    <3>1. \A i \in Z : old(i) \in Y
      BY <2>5, <2>7
    <3>2. \A i, j \in Z : old(i) = old(j) => i = j
      BY <2>6, <2>7
    <3> HIDE DEF Z, Y
    <3>3. f \in [Z -> Y]
      BY <3>1
    <3>4. IsInjective(f)
      BY <3>2 DEF IsInjective
    <3> QED BY <3>3, <3>4 DEF Injection
  <2>12. IsFiniteSet(Y)
    BY <1>0
  <2> HIDE DEF Z, Y, f
  <2>13. IsFiniteSet(Z) /\ Cardinality(Z) <= Cardinality(Y)
    BY <2>11, <2>12, FS_Injection
  <2> QED BY <1>0, <2>2, <2>8, <2>9, <2>10, <2>13 DEF Z, Y
<1> QED BY <1>2, <1>3

-----------------------------------------------------------------------------
(* The status.                                                             *)

\* The sentences there are.
LEMMA SentencesThere ==
  /\ Plain \in Sentences /\ Compaction \in Sentences
  /\ \A ins : Inputs(ins) => \A t \in Tools : <<t, ins[t]>> \in Sentences
<1>1. Plain \in Sentences /\ Compaction \in Sentences
  BY DEF Sentences
<1>2. ASSUME NEW ins, Inputs(ins), NEW t \in Tools PROVE <<t, ins[t]>> \in Sentences
  <2>1. ins[t] \in 0 .. MaxInputs[t]
    BY <1>2, TurnStatusAssumption DEF Inputs
  <2>2. <<t, ins[t]>> \in {t} \X (0 .. MaxInputs[t])
    BY <2>1
  <2> QED BY <2>2 DEF Sentences
<1> QED BY <1>1, <1>2

\* An operation goes behind the others, and the head leaves.
LEMMA ChainOf ==
  ASSUME NEW S, NEW q \in Seq(S), NEW x \in S
  PROVE  /\ Append(q, x) \in Seq(S) /\ Append(q, x) # <<>>
         /\ q # <<>> => Head(Append(q, x)) = Head(q) /\ Head(q) \in S /\ Tail(q) \in Seq(S)
<1>1. Append(q, x) \in Seq(S) /\ Len(Append(q, x)) = Len(q) + 1 /\ Len(q) \in Nat
  OBVIOUS
<1>2. Append(q, x) # <<>>
  BY <1>1
<1>3. ASSUME q # <<>>
      PROVE  Head(Append(q, x)) = Head(q) /\ Head(q) \in S /\ Tail(q) \in Seq(S)
  <2>1. Head(q) \in S /\ Tail(q) \in Seq(S)
    BY <1>3
  <2>2. 1 \in 1 .. Len(q)
    BY <1>1, <1>3
  <2>3. Append(q, x)[1] = q[1]
    BY <2>2
  <2> QED BY <1>2, <2>1, <2>3
<1> QED BY <1>1, <1>2, <1>3

\* A sentence is shown, or the line says it already.
LEMMA SayKeeps ==
  ASSUME NEW s, Status(s), NEW x \in Sentences
  PROVE  /\ Status(Say(s, x)) /\ Ahead(s, Say(s, x))
         /\ Say(s, x).rendering # "asking"
<1>1. PICK b \in Seq(Sentences \cup {Close}) : b = Append(s.chain, x) /\ Ahead(s, [chain |-> b])
  <2>1. s.chain \in Seq(Sentences \cup {Close})
    BY DEF Status, StatusType
  <2>2. /\ Append(s.chain, x) \in Seq(Sentences \cup {Close}) /\ Append(s.chain, x) # <<>>
        /\ s.chain # <<>> => Head(Append(s.chain, x)) = Head(s.chain)
    BY <2>1, ChainOf
  <2> QED BY <2>2 DEF Ahead
<1>2. CASE Said(s, x)
  <2> DEFINE r == [s EXCEPT !.rendering = "no", !.asked = Unsaid]
  <2>1. r \in StatusType
    BY ZenonT(60) DEF Status, StatusType
  <2>2. r.rendering = "no" /\ r.chain = s.chain
    BY DEF Status, StatusType
  <2> QED BY <1>2, <2>1, <2>2 DEF Say, Status, Ahead
<1>3. CASE ~ Said(s, x)
  <2> DEFINE r == [s EXCEPT !.rendering = "showing", !.asked = Unsaid, !.passedSince = FALSE,
                            !.text = x, !.paced = TRUE, !.chain = b]
  <2>1. r \in StatusType
    BY ZenonT(60) DEF Status, StatusType
  <2>2. r.rendering = "showing" /\ r.chain = b
    BY DEF Status, StatusType
  <2>3. r = Say(s, x)
    BY <1>1, <1>3 DEF Say
  <2> HIDE DEF r
  <2>4. Status(r) /\ Ahead(s, r) /\ r.rendering # "asking"
    BY <1>1, <2>1, <2>2 DEF Status, Ahead
  <2> QED BY <2>3, <2>4
<1> QED BY <1>2, <1>3

\* A render asks the catalogue, or says what it knows.
LEMMA RenderKeeps ==
  ASSUME NEW s, Status(s), NEW ins, Inputs(ins)
  PROVE  Status(Render(s, ins)) /\ Ahead(s, Render(s, ins))
<1>1. PICK r : r = [s EXCEPT !.stale = FALSE]
  OBVIOUS
<1>2. Status(r) /\ r.chain = s.chain
  <2>1. r \in StatusType
    BY <1>1, ZenonT(60) DEF Status, StatusType
  <2>2. r.rendering = s.rendering /\ r.asked = s.asked /\ r.chain = s.chain
    BY <1>1 DEF Status, StatusType
  <2> QED BY <2>1, <2>2 DEF Status
<1>3. CASE s.compactingNow
  <2>1. Render(s, ins) = Say(r, Compaction)
    BY <1>1, <1>3 DEF Render
  <2> QED BY <1>2, <2>1, SayKeeps, SentencesThere DEF Ahead
<1>4. CASE ~ s.compactingNow /\ s.step # NoTool
  <2>1. PICK x \in Sentences : x = <<s.step, ins[s.step]>>
    BY <1>4, SentencesThere DEF Status, StatusType
  <2> DEFINE y == [r EXCEPT !.rendering = "asking", !.asked = x]
  <2>2. y \in StatusType
    BY <1>2, ZenonT(60) DEF Status, StatusType
  <2>3. y.asked = x /\ y.chain = r.chain
    BY <1>2 DEF Status, StatusType
  <2>4. Render(s, ins) = y
    BY <1>1, <1>4, <2>1 DEF Render
  <2> QED BY <1>2, <2>2, <2>3, <2>4 DEF Status, Ahead
<1>5. CASE ~ s.compactingNow /\ ~ (s.step # NoTool)
  <2>1. Render(s, ins) = Say(r, Plain)
    BY <1>1, <1>5 DEF Render
  <2> QED BY <1>2, <2>1, SayKeeps, SentencesThere DEF Ahead
<1> QED BY <1>3, <1>4, <1>5

\* A refresh renders, waits for its turn, or leaves a render that runs stale.
LEMMA RefreshKeeps ==
  ASSUME NEW s, Status(s), NEW ins, Inputs(ins)
  PROVE  Status(Refresh(s, ins)) /\ Ahead(s, Refresh(s, ins))
<1>1. CASE s.rendering # "no"
  <2> DEFINE r == [s EXCEPT !.stale = TRUE]
  <2>1. r \in StatusType
    BY ZenonT(60) DEF Status, StatusType
  <2>2. r.rendering = s.rendering /\ r.asked = s.asked /\ r.chain = s.chain
    BY DEF Status, StatusType
  <2>3. Refresh(s, ins) = r
    BY <1>1 DEF Refresh
  <2> QED BY <2>1, <2>2, <2>3 DEF Status, Ahead
<1>2. CASE s.rendering = "no" /\ ~ s.editTimer /\ s.paced
  <2> DEFINE r == [s EXCEPT !.editTimer = TRUE]
  <2>1. r \in StatusType
    BY ZenonT(60) DEF Status, StatusType
  <2>2. r.rendering = s.rendering /\ r.asked = s.asked /\ r.chain = s.chain
    BY DEF Status, StatusType
  <2>3. Refresh(s, ins) = r
    BY <1>2 DEF Refresh
  <2> QED BY <2>1, <2>2, <2>3 DEF Status, Ahead
<1>3. CASE s.rendering = "no" /\ ~ s.editTimer /\ ~ s.paced
  <2>1. Refresh(s, ins) = Render(s, ins)
    BY <1>3 DEF Refresh
  <2> QED BY <2>1, RenderKeeps
<1>4. CASE s.rendering = "no" /\ s.editTimer
  <2>1. Refresh(s, ins) = s
    BY <1>4 DEF Refresh
  <2> QED BY <2>1 DEF Ahead
<1> QED BY <1>1, <1>2, <1>3, <1>4

\* A render is over; what changed meanwhile is rendered.
LEMMA RenderedKeeps ==
  ASSUME NEW s, Status(s), NEW ins, Inputs(ins)
  PROVE  Status(Rendered(s, ins)) /\ Ahead(s, Rendered(s, ins))
<1>1. PICK r : r = [s EXCEPT !.rendering = "no"]
  OBVIOUS
<1>2. Status(r) /\ r.chain = s.chain
  <2>1. r \in StatusType
    BY <1>1, ZenonT(60) DEF Status, StatusType
  <2>2. r.rendering = "no" /\ r.chain = s.chain
    BY <1>1 DEF Status, StatusType
  <2> QED BY <2>1, <2>2 DEF Status
<1>3. Rendered(s, ins) = IF r.stale /\ ~ r.closed THEN Refresh(r, ins) ELSE r
  BY <1>1 DEF Rendered
<1> QED BY <1>2, <1>3, RefreshKeeps DEF Ahead

-----------------------------------------------------------------------------
(* What the turn reports: every action keeps the invariant.                *)

LineIsKept == LineOK /\ CallOK /\ ChatOK /\ OpUnderWay /\ ChatOnce /\ AnswersBound /\ OneKept

\* The status and the inputs, as the operators take them.
LEMMA Now ==
  ASSUME Inv
  PROVE  Status(st) /\ Inputs(input) /\ st \in StatusType
BY DEF Inv, StatusOK, ToolsOK, Status, Inputs

\* A step that leaves the line, its call and the chat alone.
LEMMA Quiet ==
  ASSUME Inv, UNCHANGED <<line, call, platform>>, Status(st'), Ahead(st, st')
  PROVE  LineIsKept' /\ StatusOK' /\ told' = told /\ faults' = faults
<1>1. /\ line' = line /\ call' = call /\ chat' = chat /\ posts' = posts /\ left' = left
      /\ lost' = lost /\ told' = told /\ faults' = faults
  BY DEF platform
<1>2. LineOK' /\ CallOK' /\ ChatOK' /\ ChatOnce'
  BY <1>1 DEF Inv, LineOK, CallOK, ChatOK, ChatOnce
<1>3. AnswersBound'
  BY <1>1 DEF Inv, AnswersBound, Answers
<1>4. OneKept'
  BY <1>1 DEF Inv, OneKept, Lines
<1>5. OpUnderWay'
  BY <1>1 DEF Inv, OpUnderWay, Ahead
<1>6. StatusOK'
  BY DEF Status, StatusOK
<1> QED BY <1>1, <1>2, <1>3, <1>4, <1>5, <1>6 DEF LineIsKept

\* Such a step, when the tools and the counts keep their types.
LEMMA QuietStep ==
  ASSUME Inv, UNCHANGED <<line, call, platform>>, Status(st'), Ahead(st, st'), ToolsOK',
         summaries' \in 0 .. MaxSummaries
  PROVE  Inv'
<1>1. LineIsKept' /\ StatusOK' /\ told' = told /\ faults' = faults
  BY Quiet
<1>2. CountsOK'
  BY <1>1 DEF Inv, CountsOK
<1> QED BY <1>1, <1>2 DEF Inv, LineIsKept

\* A step of the status alone.
LEMMA StatusStep ==
  ASSUME Inv, UNCHANGED <<step, line, call, platform>>, Status(st'), Ahead(st, st')
  PROVE  Inv'
<1>1. ToolsOK' /\ summaries' \in 0 .. MaxSummaries
  BY DEF Inv, ToolsOK, CountsOK, step
<1> QED BY <1>1, QuietStep

\* The catalogue answers.
LEMMA SentenceKeeps ==
  ASSUME Inv, SentenceComes
  PROVE  Inv'
<1>1. PICK x \in {st.asked, Plain} :
        LET s == Say(st, x) IN
        st' = IF st.closed THEN Rendered([st EXCEPT !.asked = Unsaid], input)
              ELSE IF s.rendering = "no" THEN Rendered(s, input) ELSE s
  BY DEF SentenceComes
<1>2. x \in Sentences
  BY <1>1, SentencesThere DEF SentenceComes, Inv, StatusOK
<1>3. PICK s : s = Say(st, x)
  OBVIOUS
<1>4. Status(s) /\ Ahead(st, s)
  BY <1>2, <1>3, Now, SayKeeps
<1>5. CASE st.closed
  <2>1. PICK r : r = [st EXCEPT !.asked = Unsaid]
    OBVIOUS
  <2>2. st \in StatusType /\ st.rendering = "asking"
    BY Now DEF SentenceComes
  <2>3. r \in StatusType
    BY <2>1, <2>2, ZenonT(60) DEF StatusType
  <2>4. r.chain = st.chain /\ r.closed
    BY <1>5, <2>1, <2>2 DEF StatusType
  <2>5. PICK q : q = [r EXCEPT !.rendering = "no"]
    OBVIOUS
  <2>6. q \in StatusType
    BY <2>3, <2>5, ZenonT(60) DEF StatusType
  <2>7. q.chain = st.chain /\ q.closed /\ q.rendering = "no"
    BY <2>3, <2>4, <2>5 DEF StatusType
  <2>8. st' = q
    BY <1>1, <1>5, <2>1, <2>5, <2>7 DEF Rendered
  <2>9. Status(st') /\ Ahead(st, st')
    BY <2>6, <2>7, <2>8 DEF Status, Ahead
  <2> QED BY <2>9, StatusStep DEF SentenceComes
<1>6. CASE ~ st.closed
  <2>1. st' = IF s.rendering = "no" THEN Rendered(s, input) ELSE s
    BY <1>1, <1>3, <1>6
  <2>2. Status(st') /\ Ahead(st, st')
    BY <1>4, <2>1, Now, RenderedKeeps DEF Ahead
  <2> QED BY <2>2, StatusStep DEF SentenceComes
<1> QED BY <1>5, <1>6

\* The edit is due, or the line may be edited again.
LEMMA PaceKeeps ==
  ASSUME Inv, PaceOver
  PROVE  Inv'
<1>1. PICK s : s = [st EXCEPT !.paced = FALSE, !.editTimer = FALSE]
  OBVIOUS
<1>2. s \in StatusType
  BY <1>1, Now, ZenonT(60) DEF StatusType
<1>3. s.rendering = st.rendering /\ s.asked = st.asked /\ s.chain = st.chain
  BY <1>1, Now DEF StatusType
<1>4. Status(s)
  BY <1>2, <1>3, Now DEF Status
<1>5. st' = IF st.editTimer /\ ~ st.closed THEN Render(s, input) ELSE s
  BY <1>1 DEF PaceOver
<1>6. Status(st') /\ Ahead(st, st')
  BY <1>3, <1>4, <1>5, Now, RenderKeeps DEF Ahead
<1> QED BY <1>6, StatusStep DEF PaceOver

\* A tool starts.
LEMMA ToolStartsKeeps ==
  ASSUME Inv, NEW t \in Tools, ToolStarts(t)
  PROVE  Inv'
<1>1. PICK running \in BOOLEAN :
        /\ tools' = [tools EXCEPT ![t] = IF running THEN "running" ELSE "ended"]
        /\ LET s == [st EXCEPT !.step = t, !.compactingNow = FALSE] IN
           st' = CASE running /\ st.shown -> Refresh(s, input)
                   [] running /\ ~ st.shown -> s
                   [] OTHER -> st
        /\ longTimers' = longTimers \cup (IF running /\ ~ st.shown THEN {t} ELSE {})
  BY DEF ToolStarts
<1>2. PICK s : s = [st EXCEPT !.step = t, !.compactingNow = FALSE]
  OBVIOUS
<1>3. s \in StatusType
  BY <1>2, Now, ZenonT(60) DEF StatusType
<1>4. s.rendering = st.rendering /\ s.asked = st.asked /\ s.chain = st.chain
  BY <1>2, Now DEF StatusType
<1>5. Status(s)
  BY <1>3, <1>4, Now DEF Status
<1>6. st' \in {Refresh(s, input), s, st}
  BY <1>1, <1>2
<1>7. Status(st') /\ Ahead(st, st')
  BY <1>4, <1>5, <1>6, Now, RefreshKeeps DEF Ahead
<1>8. ToolsOK' /\ summaries' \in 0 .. MaxSummaries
  <2>1. tools' \in [Tools -> {"new", "running", "ended"}] /\ longTimers' \subseteq Tools
    BY <1>1 DEF Inv, ToolsOK
  <2> QED BY <2>1 DEF Inv, ToolsOK, CountsOK, ToolStarts
<1> QED BY <1>7, <1>8, QuietStep DEF ToolStarts

\* The input of a tool changes, or the tool ends.
LEMMA ToolUpdateKeeps ==
  ASSUME Inv, NEW t \in Tools, ToolUpdate(t)
  PROVE  Inv'
<1>1. PICK changed \in BOOLEAN, ended \in BOOLEAN :
        /\ changed => input[t] < MaxInputs[t]
        /\ input' = IF changed THEN [input EXCEPT ![t] = @ + 1] ELSE input
        /\ tools' = IF ended THEN [tools EXCEPT ![t] = "ended"] ELSE tools
        /\ longTimers' = IF ended THEN longTimers \ {t} ELSE longTimers
        /\ st' = IF changed /\ ~ ended /\ st.shown /\ st.step = t /\ tools[t] = "running"
                 THEN Refresh(st, input') ELSE st
  BY DEF ToolUpdate
<1>2. input \in [Tools -> Nat] /\ MaxInputs \in [Tools -> Nat] /\ \A u \in Tools : input[u] <= MaxInputs[u]
  BY TurnStatusAssumption DEF Inv, ToolsOK
<1>3. input' \in [Tools -> Nat] /\ \A u \in Tools : input'[u] <= MaxInputs[u]
  <2>1. CASE changed
    <3>1. input' = [input EXCEPT ![t] = input[t] + 1] /\ input[t] + 1 <= MaxInputs[t]
      BY <1>1, <1>2, <2>1
    <3> QED BY <1>2, <3>1
  <2>2. CASE ~ changed
    BY <1>1, <1>2, <2>2
  <2> QED BY <2>1, <2>2
<1>4. Status(st') /\ Ahead(st, st')
  <2>1. Inputs(input')
    BY <1>3 DEF Inputs
  <2> QED BY <1>1, <2>1, Now, RefreshKeeps DEF Ahead
<1>5. ToolsOK' /\ summaries' \in 0 .. MaxSummaries
  <2>1. tools' \in [Tools -> {"new", "running", "ended"}] /\ longTimers' \subseteq Tools
    BY <1>1 DEF Inv, ToolsOK
  <2> QED BY <1>3, <2>1 DEF Inv, ToolsOK, CountsOK, ToolUpdate
<1> QED BY <1>4, <1>5, QuietStep DEF ToolUpdate

\* A tool ran long.
LEMMA RanLongKeeps ==
  ASSUME Inv, NEW t \in Tools, RanLong(t)
  PROVE  Inv'
<1>1. PICK s : s = [st EXCEPT !.shown = TRUE, !.step = t]
  OBVIOUS
<1>2. s \in StatusType
  BY <1>1, Now, ZenonT(60) DEF StatusType
<1>3. s.rendering = st.rendering /\ s.asked = st.asked /\ s.chain = st.chain
  BY <1>1, Now DEF StatusType
<1>4. Status(s)
  BY <1>2, <1>3, Now DEF Status
<1>5. st' \in {Refresh(s, input), st}
  BY <1>1 DEF RanLong
<1>6. Status(st') /\ Ahead(st, st')
  BY <1>3, <1>4, <1>5, Now, RefreshKeeps DEF Ahead
<1>7. ToolsOK' /\ summaries' \in 0 .. MaxSummaries
  BY DEF Inv, ToolsOK, CountsOK, RanLong
<1> QED BY <1>6, <1>7, QuietStep DEF RanLong

\* The session takes stock.
LEMMA SummaryStartsKeeps ==
  ASSUME Inv, SummaryStarts
  PROVE  Inv'
<1>1. PICK s : s = [st EXCEPT !.compactingNow = TRUE, !.shown = TRUE]
  OBVIOUS
<1>2. s \in StatusType
  BY <1>1, Now, ZenonT(60) DEF StatusType
<1>3. s.rendering = st.rendering /\ s.asked = st.asked /\ s.chain = st.chain
  BY <1>1, Now DEF StatusType
<1>4. Status(s)
  BY <1>2, <1>3, Now DEF Status
<1>5. st' = Refresh(s, input)
  BY <1>1 DEF SummaryStarts
<1>6. Status(st') /\ Ahead(st, st')
  BY <1>3, <1>4, <1>5, Now, RefreshKeeps DEF Ahead
<1>7. ToolsOK' /\ summaries' \in 0 .. MaxSummaries
  <2>1. summaries' = summaries + 1 /\ summaries \in 0 .. MaxSummaries /\ summaries < MaxSummaries
    BY DEF Inv, CountsOK, SummaryStarts
  <2>2. summaries' \in 0 .. MaxSummaries
    BY <2>1, TurnStatusAssumption
  <2> QED BY <2>2 DEF Inv, ToolsOK, SummaryStarts
<1> QED BY <1>6, <1>7, QuietStep DEF SummaryStarts

\* It is done, and the step that still runs is named again.
LEMMA SummaryEndsKeeps ==
  ASSUME Inv, SummaryEnds
  PROVE  Inv'
<1>1. PICK x \in Tools \cup {NoTool} : x = IF Running(st.step) THEN st.step ELSE NoTool
  BY Now DEF StatusType
<1>2. PICK s : s = [st EXCEPT !.compactingNow = FALSE, !.step = x]
  OBVIOUS
<1>3. s \in StatusType
  BY <1>2, Now, ZenonT(60) DEF StatusType
<1>4. s.rendering = st.rendering /\ s.asked = st.asked /\ s.chain = st.chain
  BY <1>2, Now DEF StatusType
<1>5. Status(s)
  BY <1>3, <1>4, Now DEF Status
<1>6. st' = Refresh(s, input)
  BY <1>1, <1>2, Now DEF SummaryEnds
<1>7. Status(st') /\ Ahead(st, st')
  BY <1>4, <1>5, <1>6, Now, RefreshKeeps DEF Ahead
<1> QED BY <1>7, StatusStep DEF SummaryEnds

-----------------------------------------------------------------------------
(* The answer, and the end of the turn.                                    *)


\* A message of the answer reaches the chat.
LEMMA AnswerLandsKeeps ==
  ASSUME Inv, AnswerLands
  PROVE  Inv'
<1>1. /\ chat' = Append(chat, 0) /\ posts' = posts /\ left' = left /\ lost' = lost
      /\ line' = line /\ call' = call /\ st' = st /\ told' = told /\ faults' = faults
      /\ UNCHANGED step /\ Answers < MaxAnswers
  BY DEF AnswerLands
<1>2. PICK c \in Seq(0 .. posts) : c = chat
  BY DEF Inv, ChatOK
<1>3. posts \in Nat
  BY DEF Inv, ChatOK
<1>4. /\ chat' \in Seq(0 .. posts)
      /\ {chat'[i] : i \in DOMAIN chat'} = {chat[i] : i \in DOMAIN chat} \cup {0}
      /\ Once(chat) => Once(chat')
      /\ {i \in DOMAIN chat' : chat'[i] = 0}
           \subseteq {i \in DOMAIN chat : chat[i] = 0} \cup {Len(c) + 1}
  <2>1. PICK d : d = chat'
    OBVIOUS
  <2>2. Adds(d, posts, c, posts, 0)
    BY <1>1, <1>2, <1>3, <2>1 DEF Adds
  <2>3. /\ d \in Seq(0 .. posts) /\ HeldIn(d) = HeldIn(c) \cup {0} /\ (Once(c) => Once(d))
        /\ AnswersIn(d) \subseteq AnswersIn(c) \cup {Len(c) + 1}
    BY <2>2, Appended
  <2>4. /\ {chat'[i] : i \in DOMAIN chat'} = HeldIn(d) /\ {i \in DOMAIN chat' : chat'[i] = 0} = AnswersIn(d)
        /\ {chat[i] : i \in DOMAIN chat} = HeldIn(c) /\ {i \in DOMAIN chat : chat[i] = 0} = AnswersIn(c)
    BY <1>2, <2>1 DEF HeldIn, AnswersIn
  <2> QED BY <1>2, <2>1, <2>3, <2>4, Zenon
<1>5. Lines' = Lines
  BY <1>1, <1>4 DEF Lines
<1>6. ChatOK' /\ ChatOnce' /\ LineOK' /\ CallOK'
  BY <1>1, <1>4 DEF Inv, ChatOK, ChatOnce, Once, LineOK, CallOK
<1>7. OpUnderWay' /\ StatusOK'
  BY <1>1 DEF Inv, OpUnderWay, StatusOK
<1>8. OneKept'
  BY <1>1, <1>5 DEF Inv, OneKept
<1>9. AnswersBound'
  <2> DEFINE Y == {i \in DOMAIN chat : chat[i] = 0}
             Z == {i \in DOMAIN chat' : chat'[i] = 0}
  <2>1. IsFiniteSet(Y) /\ Answers = Cardinality(Y) /\ Answers' = Cardinality(Z)
    BY DEF Inv, AnswersBound, Answers
  <2>2. Z \in SUBSET (Y \cup {Len(c) + 1})
    BY <1>4
  <2> HIDE DEF Y, Z
  <2>3. /\ IsFiniteSet(Y \cup {Len(c) + 1}) /\ Cardinality(Y) \in Nat
        /\ Cardinality(Y \cup {Len(c) + 1}) <= Cardinality(Y) + 1
        /\ Cardinality(Y \cup {Len(c) + 1}) \in Nat
    <3>1. IsFiniteSet(Y \cup {Len(c) + 1})
      BY <2>1, FS_AddElement
    <3>2. Cardinality(Y \cup {Len(c) + 1})
            = IF Len(c) + 1 \in Y THEN Cardinality(Y) ELSE Cardinality(Y) + 1
      BY <2>1, FS_AddElement
    <3>3. Cardinality(Y) \in Nat /\ Cardinality(Y \cup {Len(c) + 1}) \in Nat
      BY <2>1, <3>1, FS_CardinalityType
    <3> QED BY <3>1, <3>2, <3>3
  <2>4. /\ IsFiniteSet(Z) /\ Cardinality(Z) \in Nat
        /\ Cardinality(Z) <= Cardinality(Y \cup {Len(c) + 1})
    BY <2>2, <2>3, FS_Subset, FS_CardinalityType
  <2>5. Cardinality(Z) <= MaxAnswers
    BY <1>1, <2>1, <2>3, <2>4, TurnStatusAssumption
  <2> QED BY <2>1, <2>4, <2>5 DEF AnswersBound, Z
<1>10. CountsOK' /\ ToolsOK'
  BY <1>1 DEF Inv, CountsOK, ToolsOK, step
<1> QED BY <1>6, <1>7, <1>8, <1>9, <1>10 DEF Inv

\* Its send returns, and the line is passed.
LEMMA AnswerSentKeeps ==
  ASSUME Inv, AnswerSent
  PROVE  Inv'
<1>1. /\ chat' = chat /\ posts' = posts /\ left' = left /\ lost' = lost
      /\ call' = call /\ faults' = faults /\ UNCHANGED step
      /\ told' = told + 1 /\ told < Answers
  BY DEF AnswerSent
<1>2. told' \in 0 .. MaxAnswers
  <2>1. Answers \in Nat
    BY FS_CardinalityType DEF Inv, AnswersBound, Answers
  <2>2. Answers <= MaxAnswers /\ told \in 0 .. MaxAnswers
    BY DEF Inv, AnswersBound, CountsOK
  <2> QED BY <1>1, <2>1, <2>2, TurnStatusAssumption
<1>3. LineOK' /\ line'.message = line.message /\ line'.postTried = line.postTried
  BY <1>1 DEF Inv, LineOK, AnswerSent
<1>4. Status(st') /\ Ahead(st, st')
  <2>1. PICK s : s = [st EXCEPT !.passedSince = TRUE]
    OBVIOUS
  <2>2. s \in StatusType
    BY <2>1, Now, ZenonT(60) DEF StatusType
  <2>3. s.rendering = st.rendering /\ s.asked = st.asked /\ s.chain = st.chain
    BY <2>1, Now DEF StatusType
  <2>4. Status(s)
    BY <2>2, <2>3, Now DEF Status
  <2>5. st' \in {Refresh(s, input), s, st}
    BY <2>1 DEF AnswerSent, Passed
  <2> QED BY <2>3, <2>4, <2>5, Now, RefreshKeeps DEF Ahead
<1>5. CallOK' /\ ChatOK' /\ ChatOnce' /\ ToolsOK'
  BY <1>1 DEF Inv, CallOK, ChatOK, ChatOnce, ToolsOK, step
<1>6. AnswersBound' /\ CountsOK'
  BY <1>1, <1>2 DEF Inv, AnswersBound, Answers, CountsOK, step
<1>7. OpUnderWay' /\ StatusOK'
  BY <1>1, <1>4 DEF Inv, OpUnderWay, StatusOK, Status, Ahead
<1>8. OneKept'
  BY <1>1, <1>3 DEF Inv, OneKept, Lines
<1> QED BY <1>3, <1>5, <1>6, <1>7, <1>8 DEF Inv

\* The turn ends: the line is to be taken down after what is under way.
LEMMA TurnEndsKeeps ==
  ASSUME Inv, TurnEnds
  PROVE  Inv'
<1>1. /\ chat' = chat /\ posts' = posts /\ left' = left /\ lost' = lost /\ told' = told
      /\ call' = call /\ faults' = faults /\ tools' = tools /\ input' = input
      /\ summaries' = summaries /\ longTimers' = {}
      /\ line' = [line EXCEPT !.closed = st.shown]
      /\ st' = [st EXCEPT !.closed = TRUE, !.editTimer = FALSE, !.chain = Closing(st)]
  BY DEF TurnEnds, platform
<1>2. LineOK' /\ line'.message = line.message /\ line'.postTried = line.postTried
  BY <1>1, Now DEF Inv, LineOK, StatusType
<1>3. PICK b \in Seq(Sentences \cup {Close}) :
        /\ b = Closing(st)
        /\ st.chain # <<>> => b # <<>> /\ Head(b) = Head(st.chain)
  <2>1. st.chain \in Seq(Sentences \cup {Close})
    BY Now DEF StatusType
  <2>2. /\ Append(st.chain, Close) \in Seq(Sentences \cup {Close})
        /\ Append(st.chain, Close) # <<>>
        /\ st.chain # <<>> => Head(Append(st.chain, Close)) = Head(st.chain)
    BY <2>1, ChainOf
  <2> QED BY <2>1, <2>2 DEF Closing
<1>4. Status(st') /\ Ahead(st, st')
  <2>1. st' = [st EXCEPT !.closed = TRUE, !.editTimer = FALSE, !.chain = b]
    BY <1>1, <1>3
  <2>2. st' \in StatusType
    BY <2>1, Now, ZenonT(60) DEF StatusType
  <2>3. st'.rendering = st.rendering /\ st'.asked = st.asked /\ st'.chain = b
    BY <2>1, Now DEF StatusType
  <2> QED BY <1>3, <2>2, <2>3, Now DEF Status, Ahead
<1>5. CallOK' /\ ChatOK' /\ ChatOnce' /\ ToolsOK'
  BY <1>1 DEF Inv, CallOK, ChatOK, ChatOnce, ToolsOK
<1>6. AnswersBound' /\ CountsOK'
  BY <1>1 DEF Inv, AnswersBound, Answers, CountsOK
<1>7. OpUnderWay' /\ StatusOK'
  BY <1>1, <1>4 DEF Inv, OpUnderWay, StatusOK, Status, Ahead
<1>8. OneKept'
  BY <1>1, <1>2 DEF Inv, OneKept, Lines
<1> QED BY <1>2, <1>5, <1>6, <1>7, <1>8 DEF Inv

-----------------------------------------------------------------------------
(* The operations of the line.                                             *)

\* An operation ends, and its render with it.
LEMMA OpDoneKeeps ==
  ASSUME Inv, OpDone, st.chain # <<>>
  PROVE  StatusOK' /\ OpUnderWay' /\ call' = NoCall
<1>1. PICK b \in Seq(Sentences \cup {Close}) : b = Tail(st.chain)
  BY Now, ChainOf DEF StatusType
<1>2. PICK s : s = [st EXCEPT !.chain = b]
  OBVIOUS
<1>3. s \in StatusType
  BY <1>2, Now, ZenonT(60) DEF StatusType
<1>4. s.rendering = st.rendering /\ s.asked = st.asked
  BY <1>2, Now DEF StatusType
<1>5. Status(s)
  BY <1>3, <1>4, Now DEF Status
<1>6. call' = NoCall /\ st' \in {s, Rendered(s, input)}
  BY <1>1, <1>2 DEF OpDone
<1>7. Status(st')
  BY <1>5, <1>6, Now, RenderedKeeps
<1>8. OpUnderWay'
  BY <1>6 DEF OpUnderWay, NoCall
<1> QED BY <1>6, <1>7, <1>8 DEF Status, StatusOK

\* The line and its call, by their fields.
LEMMA Fields ==
  ASSUME Inv
  PROVE  /\ line.message \in 0 .. posts /\ line.postTried \in BOOLEAN
         /\ call.do \in {"none", "post", "edit", "replace", "remove"}
         /\ call.on \in 0 .. posts /\ call.done \in BOOLEAN /\ posts \in Nat
BY DEF Inv, LineOK, CallOK, ChatOK

\* The chat and the tools stay as they are.
LEMMA ChatAlone ==
  ASSUME Inv, UNCHANGED <<step, platform>>
  PROVE  /\ ToolsOK' /\ ChatOK' /\ ChatOnce' /\ AnswersBound' /\ CountsOK'
         /\ Lines' = Lines /\ posts' = posts
<1>1. /\ chat' = chat /\ posts' = posts /\ left' = left /\ lost' = lost /\ told' = told
      /\ faults' = faults /\ tools' = tools /\ input' = input /\ longTimers' = longTimers
      /\ summaries' = summaries
  BY DEF step, platform
<1>2. ToolsOK' /\ ChatOK' /\ ChatOnce'
  BY <1>1 DEF Inv, ToolsOK, ChatOK, ChatOnce
<1>3. AnswersBound' /\ CountsOK' /\ Lines' = Lines
  BY <1>1 DEF Inv, AnswersBound, Answers, CountsOK, Lines
<1> QED BY <1>1, <1>2, <1>3

\* An operation starts with what it finds the line to be.
LEMMA OpStartsKeeps ==
  ASSUME Inv, OpStarts
  PROVE  Inv'
<1>1. /\ ToolsOK' /\ ChatOK' /\ ChatOnce' /\ AnswersBound' /\ CountsOK'
      /\ Lines' = Lines /\ posts' = posts
  BY ChatAlone DEF OpStarts
<1>2. call = NoCall /\ st.chain # <<>> /\ call.do = "none" /\ ~ call.done
  BY DEF OpStarts, NoCall
<1>3. PICK op \in Sentences \cup {Close} : op = Head(st.chain)
  BY <1>2, Now, ChainOf DEF StatusType
<1>4. line \in [message : 0 .. posts, postTried : BOOLEAN, closed : BOOLEAN, passed : BOOLEAN,
                says : Sentences \cup {Unsaid}, missed : BOOLEAN]
  BY DEF Inv, LineOK
<1>5. \/ /\ OpDone
         /\ line' = line \/ line' = [line EXCEPT !.passed = @ /\ op = Close]
      \/ /\ op = Close /\ line.message # 0 /\ call' = Doing("remove", line.message)
         /\ line' = [line EXCEPT !.message = 0] /\ st' = st
      \/ op # Close /\ Show /\ st' = st
  <2>1. CASE op # Close /\ line.closed
    BY <1>3, <2>1 DEF OpStarts
  <2>2. CASE ~ (op # Close /\ line.closed) /\ line.message = 0 /\ (op = Close \/ line.postTried)
    BY <1>3, <2>2 DEF OpStarts
  <2>3. CASE op = Close /\ line.message # 0
    BY <1>3, <2>3 DEF OpStarts
  <2>4. CASE op # Close /\ ~ line.closed /\ ~ (line.message = 0 /\ line.postTried)
    BY <1>3, <2>4 DEF OpStarts
  <2> QED BY <2>1, <2>2, <2>3, <2>4
<1>6. CASE OpDone /\ (line' = line \/ line' = [line EXCEPT !.passed = @ /\ op = Close])
  <2>1. StatusOK' /\ OpUnderWay' /\ call' = NoCall
    BY <1>2, <1>6, OpDoneKeeps
  <2>2. LineOK' /\ line'.message = line.message /\ line'.postTried = line.postTried
    BY <1>1, <1>4, <1>6 DEF LineOK
  <2>3. CallOK' /\ OneKept'
    BY <1>1, <1>2, <2>1, <2>2, Fields DEF Inv, CallOK, OneKept, NoCall
  <2> QED BY <1>1, <2>1, <2>2, <2>3 DEF Inv
<1>7. CASE /\ op = Close /\ line.message # 0 /\ call' = Doing("remove", line.message)
           /\ line' = [line EXCEPT !.message = 0] /\ st' = st
  <2>1. LineOK' /\ line'.message = 0 /\ line'.postTried = line.postTried
    BY <1>1, <1>4, <1>7, Fields DEF LineOK
  <2>2. call'.do = "remove" /\ call'.on = line.message /\ ~ call'.done /\ CallOK'
    BY <1>1, <1>7, Fields DEF CallOK, Doing
  <2>3. OneKept'
    BY <1>1, <1>7, <2>1, <2>2 DEF Inv, OneKept
  <2>4. OpUnderWay' /\ StatusOK'
    BY <1>2, <1>7, <2>2 DEF Inv, OpUnderWay, StatusOK
  <2> QED BY <1>1, <2>1, <2>2, <2>3, <2>4 DEF Inv
<1>8. CASE op # Close /\ Show /\ st' = st
  <2>0. PICK free : free = [line EXCEPT !.passed = FALSE]
    OBVIOUS
  <2>1. /\ free \in [message : 0 .. posts, postTried : BOOLEAN, closed : BOOLEAN,
                      passed : BOOLEAN, says : Sentences \cup {Unsaid}, missed : BOOLEAN]
        /\ free.message = line.message /\ free.postTried = line.postTried
    BY <1>4, <2>0
  <2>2. \/ /\ line.message # 0 /\ call' = Doing("replace", line.message)
           /\ line' = [free EXCEPT !.message = 0]
        \/ line.message # 0 /\ call' = Doing("edit", line.message) /\ line' = free
        \/ /\ line.message = 0 /\ ~ line.postTried /\ call' = Doing("post", 0)
           /\ line' = [free EXCEPT !.postTried = TRUE]
    <3>1. CASE line.passed /\ line.message # 0
      BY <1>8, <2>0, <3>1 DEF Show
    <3>2. CASE ~ line.passed /\ line.message # 0
      BY <1>8, <2>0, <3>2 DEF Show
    <3>3. CASE line.message = 0 /\ ~ line.postTried
      BY <1>8, <2>0, <3>3 DEF Show
    <3>4. CASE line.message = 0 /\ line.postTried
      BY <1>8, <3>4 DEF Show
    <3> QED BY <1>4, <3>1, <3>2, <3>3, <3>4
  <2>3. ASSUME line.message # 0, call' = Doing("replace", line.message),
               line' = [free EXCEPT !.message = 0]
        PROVE  LineOK' /\ CallOK' /\ OneKept'
    <3>1. LineOK' /\ line'.message = 0 /\ line'.postTried = line.postTried
      BY <1>1, <2>1, <2>3, Fields DEF LineOK
    <3>2. call'.do = "replace" /\ call'.on = line.message /\ ~ call'.done /\ CallOK'
      BY <1>1, <2>3, Fields DEF CallOK, Doing
    <3>3. OneKept'
      BY <1>1, <2>3, <3>1, <3>2 DEF Inv, OneKept
    <3> QED BY <3>1, <3>2, <3>3
  <2>4. ASSUME line.message # 0, call' = Doing("edit", line.message), line' = free
        PROVE  LineOK' /\ CallOK' /\ OneKept'
    <3>1. LineOK' /\ line'.message = line.message /\ line'.postTried = line.postTried
      BY <1>1, <2>1, <2>4 DEF LineOK
    <3>2. call'.do = "edit" /\ call'.on = line.message /\ ~ call'.done /\ CallOK'
      BY <1>1, <2>4, Fields DEF CallOK, Doing
    <3>3. OneKept'
      BY <1>1, <2>4, <3>1, <3>2 DEF Inv, OneKept
    <3> QED BY <3>1, <3>2, <3>3
  <2>5. ASSUME line.message = 0, ~ line.postTried, call' = Doing("post", 0),
               line' = [free EXCEPT !.postTried = TRUE]
        PROVE  LineOK' /\ CallOK' /\ OneKept'
    <3>1. LineOK' /\ line'.message = 0 /\ line'.postTried
      BY <1>1, <2>1, <2>5 DEF LineOK
    <3>2. call'.do = "post" /\ ~ call'.done /\ CallOK'
      BY <1>1, <2>5, Fields DEF CallOK, Doing
    <3>3. OneKept'
      BY <1>1, <2>5, <3>1, <3>2 DEF Inv, OneKept
    <3> QED BY <3>1, <3>2, <3>3
  <2>6. LineOK' /\ CallOK' /\ OneKept' /\ ~ call'.done /\ call'.do # "none"
    <3>1. call'.do # "none" /\ ~ call'.done
      BY <2>2 DEF Doing
    <3> QED BY <2>2, <2>3, <2>4, <2>5, <3>1
  <2>7. OpUnderWay' /\ StatusOK'
    BY <1>2, <1>3, <1>8, <2>6 DEF Inv, OpUnderWay, StatusOK
  <2> QED BY <1>1, <2>6, <2>7 DEF Inv
<1> QED BY <1>5, <1>6, <1>7, <1>8

\* The line is posted.
LEMMA PostActs ==
  ASSUME Inv, CallActs, call.do = "post"
  PROVE  Inv'
<1>1. /\ posts' = posts + 1 /\ chat' = Append(chat, posts + 1) /\ line' = line
      /\ call' = [call EXCEPT !.done = TRUE] /\ st' = st /\ left' = left /\ lost' = lost
      /\ told' = told /\ faults' = faults /\ UNCHANGED step /\ ~ call.done
  BY DEF CallActs
<1>2. PICK n \in Nat : n = posts /\ chat \in Seq(0 .. n) /\ left \cup lost \subseteq 1 .. n
  BY DEF Inv, ChatOK
<1>3. PICK m \in Nat : m = n + 1 /\ n <= m
  OBVIOUS
<1>4. PICK c : c = chat
  OBVIOUS
<1>5. PICK d : d = chat'
  OBVIOUS
<1>6. Adds(d, m, c, n, m)
  BY <1>1, <1>2, <1>3, <1>4, <1>5 DEF Adds
<1>7. m \notin HeldIn(c)
  <2>1. \A i \in DOMAIN c : c[i] \in 0 .. n
    BY <1>2, <1>4
  <2> QED BY <1>3, <2>1 DEF HeldIn
<1>8. /\ d \in Seq(0 .. m) /\ HeldIn(d) = HeldIn(c) \cup {m} /\ (Once(c) => Once(d))
      /\ AnswersIn(d) \subseteq AnswersIn(c)
  <2>1. m # 0
    BY <1>3
  <2> QED BY <1>6, <1>7, <2>1, Appended
<1>9. ChatOK' /\ ChatOnce'
  <2>1. posts' \in Nat /\ chat' \in Seq(0 .. posts')
    BY <1>1, <1>2, <1>3, <1>5, <1>8
  <2>2. left' \cup lost' \subseteq 1 .. posts'
    BY <1>1, <1>2
  <2>3. Once(c)
    BY <1>4 DEF Inv, ChatOnce, Once
  <2>4. ChatOnce'
    BY <1>5, <1>8, <2>3 DEF ChatOnce, Once
  <2> QED BY <2>1, <2>2, <2>4 DEF ChatOK
<1>10. AnswersBound'
  <2>1. IsFiniteSet(AnswersIn(c)) /\ Answers = Cardinality(AnswersIn(c)) /\ Answers <= MaxAnswers
    BY <1>4 DEF Inv, AnswersBound, Answers, AnswersIn
  <2>2. AnswersIn(d) \in SUBSET AnswersIn(c)
    BY <1>8
  <2>3. IsFiniteSet(AnswersIn(d)) /\ Cardinality(AnswersIn(d)) <= Cardinality(AnswersIn(c))
    BY <2>1, <2>2, FS_Subset
  <2>4. Cardinality(AnswersIn(d)) \in Nat /\ Cardinality(AnswersIn(c)) \in Nat
    BY <2>1, <2>3, FS_CardinalityType
  <2>5. Cardinality(AnswersIn(d)) <= MaxAnswers
    BY <2>1, <2>3, <2>4, TurnStatusAssumption
  <2> QED BY <1>5, <2>3, <2>5 DEF AnswersBound, Answers, AnswersIn
<1>11. Lines = {} /\ Lines = HeldIn(c) \ ({0} \cup left) /\ Lines' = HeldIn(d) \ ({0} \cup left)
  BY <1>1, <1>4, <1>5 DEF Inv, OneKept, Lines, HeldIn
<1>12. Lines' \subseteq {m}
  BY <1>8, <1>11
<1>13. LineOK'
  BY <1>1, <1>2 DEF Inv, LineOK
<1>14. CallOK' /\ call'.do = "post" /\ call'.done
  <2>1. call.on \in 0 .. posts'
    BY <1>1, <1>2, Fields
  <2>2. PICK on \in 0 .. posts' : on = call.on
    BY <2>1
  <2>3. call' = [do |-> "post", on |-> on, done |-> TRUE]
    BY <1>1, <2>2 DEF Inv, CallOK
  <2> QED BY <2>3 DEF CallOK
<1>15. OneKept'
  <2>1. line'.message = 0 /\ line'.postTried
    BY <1>1, Fields DEF Inv, OneKept
  <2>2. m = posts' /\ m \in 0 .. posts'
    BY <1>1, <1>2, <1>3
  <2> QED BY <1>12, <1>14, <2>1, <2>2 DEF OneKept
<1>16. OpUnderWay' /\ StatusOK'
  BY <1>1, <1>2, <1>14 DEF Inv, OpUnderWay, StatusOK
<1>17. CountsOK' /\ ToolsOK'
  BY <1>1 DEF Inv, CountsOK, ToolsOK, step
<1> QED BY <1>9, <1>10, <1>13, <1>14, <1>15, <1>16, <1>17 DEF Inv

\* It is taken down.
LEMMA RemovalActs ==
  ASSUME Inv, CallActs, call.do \in {"replace", "remove"}
  PROVE  Inv'
<1>1. /\ posts' = posts /\ chat' = Without(call.on) /\ line' = line
      /\ call' = [call EXCEPT !.done = TRUE] /\ st' = st /\ left' = left /\ lost' = lost
      /\ told' = told /\ faults' = faults /\ UNCHANGED step /\ ~ call.done
  BY DEF CallActs
<1>2. PICK n \in Nat : n = posts /\ chat \in Seq(0 .. n)
  BY DEF Inv, ChatOK
<1>3. PICK id \in Nat : id = call.on /\ id # 0 /\ Lines \subseteq {id}
  BY <1>1, Fields DEF Inv, OneKept
<1>4. /\ chat' \in Seq(0 .. n) /\ Once(chat')
      /\ {chat'[i] : i \in DOMAIN chat'} \subseteq {chat[i] : i \in DOMAIN chat} \ {id}
      /\ IsFiniteSet({i \in DOMAIN chat' : chat'[i] = 0})
      /\ Cardinality({i \in DOMAIN chat' : chat'[i] = 0})
           <= Cardinality({i \in DOMAIN chat : chat[i] = 0})
  <2>1. Once(chat) /\ IsFiniteSet({i \in DOMAIN chat : chat[i] = 0})
    BY DEF Inv, ChatOnce, Once, AnswersBound
  <2>2. chat' = Without(id)
    BY <1>1, <1>3
  <2> QED BY <1>2, <1>3, <2>1, <2>2, Removed
<1>5. Lines' = {}
  BY <1>1, <1>3, <1>4 DEF Lines
<1>6. ChatOK' /\ ChatOnce' /\ LineOK'
  BY <1>1, <1>2, <1>4 DEF Inv, ChatOK, ChatOnce, Once, LineOK
<1>7. AnswersBound'
  <2>1. IsFiniteSet({i \in DOMAIN chat : chat[i] = 0}) /\ Answers <= MaxAnswers
    BY DEF Inv, AnswersBound
  <2>2. Answers \in Nat /\ Answers' \in Nat
    BY <1>4, <2>1, FS_CardinalityType DEF Answers
  <2>3. Answers' <= Answers
    BY <1>4 DEF Answers
  <2> QED BY <1>4, <2>1, <2>2, <2>3, TurnStatusAssumption DEF AnswersBound
<1>8. CallOK' /\ call'.do = call.do /\ call'.on = call.on /\ call'.done
  BY <1>1 DEF Inv, CallOK
<1>9. OneKept'
  <2>1. line'.message = 0 /\ line'.postTried
    BY <1>1, Fields DEF Inv, OneKept
  <2>2. 0 \in 0 .. posts'
    BY <1>1, <1>2
  <2> QED BY <1>3, <1>5, <1>8, <2>1, <2>2 DEF OneKept
<1>10. OpUnderWay' /\ StatusOK'
  BY <1>1, <1>8 DEF Inv, OpUnderWay, StatusOK
<1>11. CountsOK' /\ ToolsOK'
  BY <1>1 DEF Inv, CountsOK, ToolsOK, step
<1> QED BY <1>6, <1>7, <1>8, <1>9, <1>10, <1>11 DEF Inv

\* It is edited.
LEMMA EditActs ==
  ASSUME Inv, CallActs, call.do = "edit"
  PROVE  Inv'
<1>1. /\ posts' = posts /\ chat' = chat /\ line' = [line EXCEPT !.says = Head(st.chain)]
      /\ call' = [call EXCEPT !.done = TRUE] /\ st' = st /\ left' = left /\ lost' = lost
      /\ told' = told /\ faults' = faults /\ UNCHANGED step
  BY DEF CallActs
<1>2. ToolsOK' /\ ChatOK' /\ ChatOnce' /\ AnswersBound' /\ CountsOK' /\ Lines' = Lines
  BY <1>1, ChatAlone DEF platform
<1>3. PICK x \in Sentences : x = Head(st.chain)
  BY Now, ChainOf DEF Inv, OpUnderWay, StatusType
<1>4. line' = [line EXCEPT !.says = x]
  BY <1>1, <1>3
<1>5. LineOK' /\ line'.message = line.message /\ line'.postTried = line.postTried
  BY <1>1, <1>4 DEF Inv, LineOK
<1>6. CallOK' /\ call'.do = "edit"
  BY <1>1 DEF Inv, CallOK
<1>7. OneKept'
  BY <1>1, <1>2, <1>5, <1>6 DEF Inv, OneKept
<1>8. OpUnderWay' /\ StatusOK'
  BY <1>1, <1>6 DEF Inv, OpUnderWay, StatusOK
<1> QED BY <1>2, <1>5, <1>6, <1>7, <1>8 DEF Inv

\* The platform does what it was asked.
LEMMA ActsKeeps ==
  ASSUME Inv, CallActs
  PROVE  Inv'
<1>1. call.do \in {"post", "edit", "replace", "remove"}
  BY Fields DEF CallActs
<1> QED BY <1>1, PostActs, RemovalActs, EditActs

\* A line that is replaced is posted again.
LEMMA PostAgain ==
  ASSUME Inv, call.do = "replace", call' = Doing("post", 0),
         line' = [line EXCEPT !.postTried = TRUE], st' = st, posts' = posts, Lines' = {}
  PROVE  LineOK' /\ CallOK' /\ OneKept' /\ OpUnderWay' /\ StatusOK'
<1>1. LineOK' /\ line'.message = line.message /\ line'.postTried
  BY DEF Inv, LineOK
<1>2. CallOK' /\ call'.do = "post" /\ ~ call'.done
  BY Fields DEF CallOK, Doing
<1>3. OneKept'
  <2>1. line'.message = 0
    BY <1>1, Fields DEF Inv, OneKept
  <2>2. 0 \in 0 .. posts'
    BY Fields
  <2> QED BY <1>1, <1>2, <2>1, <2>2 DEF OneKept
<1>4. OpUnderWay' /\ StatusOK'
  BY <1>2 DEF Inv, OpUnderWay, StatusOK
<1> QED BY <1>1, <1>2, <1>3, <1>4

\* The answer to a call comes back.
LEMMA AnsweredKeeps ==
  ASSUME Inv, CallAnswered
  PROVE  Inv'
<1>1. /\ ToolsOK' /\ ChatOK' /\ ChatOnce' /\ AnswersBound' /\ CountsOK'
      /\ Lines' = Lines /\ posts' = posts
  BY ChatAlone DEF CallAnswered
<1>2. call.done /\ call.do \in {"post", "edit", "replace", "remove"} /\ st.chain # <<>>
  BY Fields DEF Inv, OpUnderWay, CallAnswered
<1>3. CASE call.do = "replace"
  <2>1. call' = Doing("post", 0) /\ line' = [line EXCEPT !.postTried = TRUE] /\ st' = st
    BY <1>3 DEF CallAnswered
  <2>2. Lines' = {}
    BY <1>1, <1>2, <1>3 DEF Inv, OneKept
  <2> QED BY <1>1, <1>3, <2>1, <2>2, PostAgain DEF Inv
<1>4. CASE call.do # "replace"
  <2>1. OpDone
    BY <1>4 DEF CallAnswered
  <2>2. StatusOK' /\ OpUnderWay' /\ call' = NoCall
    BY <1>2, <2>1, OpDoneKeeps
  <2>3. CallOK' /\ call'.do = "none" /\ ~ call'.done
    BY <1>1, <2>2, Fields DEF CallOK, NoCall
  <2>4. CASE call.do = "post"
    <3>1. PICK x \in Sentences : x = Head(st.chain)
      BY <1>2, <2>4, Now, ChainOf DEF Inv, OpUnderWay, StatusType
    <3>2. line' = [line EXCEPT !.message = posts, !.says = x, !.missed = FALSE]
      BY <2>4, <3>1 DEF CallAnswered
    <3>3. LineOK' /\ line'.message = posts /\ line'.postTried = line.postTried
      <4>1. PICK n \in Nat : n = posts
        BY Fields
      <4>2. line \in [message : 0 .. n, postTried : BOOLEAN, closed : BOOLEAN, passed : BOOLEAN,
                      says : Sentences \cup {Unsaid}, missed : BOOLEAN]
        BY <4>1 DEF Inv, LineOK
      <4>3. line' = [line EXCEPT !.message = n, !.says = x, !.missed = FALSE]
        BY <3>2, <4>1
      <4>4. line'.message = n /\ line'.postTried = line.postTried
        BY <4>2, <4>3
      <4>5. line' \in [message : 0 .. n, postTried : BOOLEAN, closed : BOOLEAN, passed : BOOLEAN,
                      says : Sentences \cup {Unsaid}, missed : BOOLEAN]
        <5>1. n \in 0 .. n
          OBVIOUS
        <5> QED BY <4>2, <4>3, <5>1, ZenonT(60)
      <4> QED BY <1>1, <4>1, <4>4, <4>5 DEF LineOK
    <3>4. OneKept'
      BY <1>1, <1>2, <2>3, <2>4, <3>3, Fields DEF Inv, OneKept
    <3> QED BY <1>1, <2>2, <2>3, <3>3, <3>4 DEF Inv
  <2>5. CASE call.do # "post"
    <3>1. line' = line \/ line' = [line EXCEPT !.missed = FALSE]
      BY <1>4, <2>5 DEF CallAnswered
    <3>2. LineOK' /\ line'.message = line.message /\ line'.postTried = line.postTried
      BY <1>1, <3>1 DEF Inv, LineOK
    <3>3. OneKept'
      BY <1>1, <1>2, <2>3, <3>2, Fields DEF Inv, OneKept
    <3> QED BY <1>1, <2>2, <2>3, <3>2, <3>3 DEF Inv
  <2> QED BY <2>4, <2>5
<1> QED BY <1>3, <1>4

\* Or the call fails: a removal that was not done leaves its line behind.
LEMMA FailsKeeps ==
  ASSUME Inv, CallFails
  PROVE  Inv'
<1>1. /\ call.do \in {"post", "edit", "replace", "remove"} /\ st.chain # <<>>
      /\ chat' = chat /\ posts' = posts /\ told' = told /\ UNCHANGED step
      /\ faults' = faults + 1 /\ faults < MaxFaults
      /\ lost' = IF call.do = "post" /\ call.done THEN lost \cup {posts} ELSE lost
      /\ left' = IF call.do \in {"replace", "remove"} /\ ~ call.done THEN left \cup {call.on}
                 ELSE left
  BY Fields DEF Inv, OpUnderWay, CallFails
<1>2. ChatOK' /\ ChatOnce' /\ AnswersBound' /\ ToolsOK'
  <2>1. left' \subseteq 1 .. posts
    <3>1. call.do \in {"replace", "remove"} => call.on \in 1 .. posts
      BY Fields DEF Inv, OneKept
    <3> QED BY <1>1, <3>1 DEF Inv, ChatOK
  <2>2. lost' \subseteq 1 .. posts
    <3>1. call.do = "post" /\ call.done => posts \in 1 .. posts
      BY Fields DEF Inv, OpUnderWay
    <3> QED BY <1>1, <3>1 DEF Inv, ChatOK
  <2>3. ChatOnce' /\ AnswersBound' /\ ToolsOK'
    BY <1>1 DEF Inv, ChatOnce, AnswersBound, Answers, ToolsOK, step
  <2> QED BY <1>1, <2>1, <2>2, <2>3 DEF Inv, ChatOK
<1>3. CountsOK'
  <2>1. faults' \in 0 .. MaxFaults
    BY <1>1, TurnStatusAssumption DEF Inv, CountsOK
  <2> QED BY <1>1, <2>1 DEF Inv, CountsOK, step
<1>4. /\ Lines' \subseteq Lines
      /\ call.do \in {"replace", "remove"} => Lines' = {}
  BY <1>1, Fields DEF Inv, OneKept, Lines
<1>5. CASE call.do = "replace"
  <2>1. call' = Doing("post", 0) /\ line' = [line EXCEPT !.postTried = TRUE] /\ st' = st
    BY <1>5 DEF CallFails
  <2> QED BY <1>1, <1>2, <1>3, <1>4, <1>5, <2>1, PostAgain DEF Inv
<1>6. CASE call.do # "replace"
  <2>1. OpDone /\ line' = [line EXCEPT !.missed = @ \/ call.do = "edit"]
    BY <1>6 DEF CallFails
  <2>2. StatusOK' /\ OpUnderWay' /\ call' = NoCall
    BY <1>1, <2>1, OpDoneKeeps
  <2>3. CallOK' /\ call'.do = "none" /\ ~ call'.done
    BY <1>1, <2>2, Fields DEF CallOK, NoCall
  <2>4. LineOK' /\ line'.message = line.message /\ line'.postTried = line.postTried
    BY <1>1, <2>1 DEF Inv, LineOK
  <2>5. OneKept'
    BY <1>1, <1>4, <2>3, <2>4, Fields DEF Inv, OneKept
  <2> QED BY <1>2, <1>3, <2>2, <2>3, <2>4, <2>5 DEF Inv
<1> QED BY <1>5, <1>6

-----------------------------------------------------------------------------
(* The theorems.                                                           *)

\* The invariant holds at the start.
LEMMA InvStarts ==
  ASSUME Init
  PROVE  Inv
<1>1. ToolsOK /\ CountsOK
  BY TurnStatusAssumption DEF Init, ToolsOK, CountsOK
<1>2. StatusOK
  <2>1. st \in StatusType
    <3>1. <<>> \in Seq(Sentences \cup {Close})
      OBVIOUS
    <3> QED BY <3>1 DEF Init, StatusType
  <2> QED BY <2>1 DEF Init, StatusOK
<1>3. LineOK /\ CallOK /\ ChatOK
  BY DEF Init, LineOK, CallOK, ChatOK, NoCall
<1>4. OpUnderWay /\ ChatOnce
  BY DEF Init, OpUnderWay, ChatOnce, NoCall
<1>5. DOMAIN chat = {}
  BY DEF Init
<1>6. AnswersBound
  <2>1. {i \in DOMAIN chat : chat[i] = 0} = {}
    BY <1>5
  <2> QED BY <2>1, FS_EmptySet, TurnStatusAssumption DEF AnswersBound, Answers
<1>7. OneKept
  <2>1. Lines = {}
    BY <1>5 DEF Lines
  <2> QED BY <2>1 DEF Init, OneKept, NoCall
<1> QED BY <1>1, <1>2, <1>3, <1>4, <1>6, <1>7 DEF Inv

\* Every step keeps it.
LEMMA InvKept ==
  ASSUME Inv, [Next]_vars
  PROVE  Inv'
<1>1. CASE UNCHANGED vars
  <2>1. Status(st') /\ Ahead(st, st') /\ UNCHANGED <<step, line, call, platform>>
    BY <1>1, Now DEF vars, step, platform, Ahead
  <2> QED BY <2>1, StatusStep
<1>2. CASE \E t \in Tools : ToolStarts(t) \/ ToolUpdate(t) \/ RanLong(t)
  BY <1>2, ToolStartsKeeps, ToolUpdateKeeps, RanLongKeeps
<1>3. CASE SummaryStarts \/ SummaryEnds
  BY <1>3, SummaryStartsKeeps, SummaryEndsKeeps
<1>4. CASE AnswerLands \/ AnswerSent \/ TurnEnds
  BY <1>4, AnswerLandsKeeps, AnswerSentKeeps, TurnEndsKeeps
<1>5. CASE SentenceComes \/ PaceOver
  BY <1>5, SentenceKeeps, PaceKeeps
<1>6. CASE LineStep
  BY <1>6, OpStartsKeeps, ActsKeeps, AnsweredKeeps, FailsKeeps DEF LineStep
<1> QED BY <1>1, <1>2, <1>3, <1>4, <1>5, <1>6 DEF Next

\* The invariant holds in every state of the turn.
THEOREM Invariant == Spec => []Inv
<1>1. Init => Inv
  BY InvStarts
<1>2. Inv /\ [Next]_vars => Inv'
  BY InvKept
<1> QED BY <1>1, <1>2, PTL DEF Spec

\* Every variable keeps its type and its range.
THEOREM TypeCorrect == Spec => []TypeOK
<1>1. Inv => TypeOK
  BY DEF Inv, ToolsOK, StatusOK, StatusType, LineOK, CallOK, ChatOK, CountsOK, TypeOK
<1> QED BY <1>1, Invariant, PTL

\* The chat never shows two lines of one turn, but for one whose removal failed:
\* another is posted only once the last is taken down, and none after a post
\* that failed and may have reached the chat.
THEOREM NeverTwoLines == Spec => []OneLine
<1>1. ASSUME Inv PROVE OneLine
  <2>1. PICK id \in 0 .. posts : Lines \subseteq {id}
    BY <1>1 DEF Inv, OneKept
  <2>2. Lines = {} \/ Lines = {id}
    BY <2>1
  <2>3. Cardinality(Lines) = 0 \/ Cardinality(Lines) = 1
    BY <2>2, FS_EmptySet, FS_Singleton, Zenon
  <2> QED BY <2>3 DEF OneLine
<1> QED BY <1>1, Invariant, PTL
=============================================================================
