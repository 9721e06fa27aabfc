---------------------------- MODULE ReplyStream -----------------------------
(***************************************************************************)
(* The path of one turn's reply from the agent's chunks to the send queue: *)
(* where the text is cut (src/src/stream-buffer.ts) and what of it is held *)
(* back and judged whole (src/src/dispatcher.ts, replyStream).             *)
(*                                                                         *)
(* The text is a sequence of tokens:                                       *)
(*   "w" words   "s" . ! ?   "c" a closing mark   "b" a blank   "n" a line *)
(*   end   "h" a summary heading   "t" a tag or a tool-call block          *)
(*   "f" a code fence   "o" [[   "a" attach:   "x" ]]                      *)
(*   "p" the start of a heading   "u" the bracket that opens a tag         *)
(*   "q" the rest of a heading behind "p", of a tag behind "u"             *)
(* Indices count from 1, and 0 stands for the source's -1.                 *)
(***************************************************************************)
EXTENDS Integers, Sequences, SequencesExt, FiniteSets, FiniteSetsExt

CONSTANTS
  Chunks,           \* the texts an update carries
  SentenceMin,      \* sentenceMinChars
  MaxChars,         \* maxChars
  MarkerMax,        \* MARKER_MAX_CHARS
  TagMax,           \* the length up to which a line may yet become a tag
  SummaryHeadings,  \* SUMMARY_HEADER_THRESHOLD
  MaxText,          \* bound: the agent pauses with this much text waiting,
  MaxHeld           \* bound: or with this much of it held, or for the whole answer

Tokens == {"w", "s", "c", "b", "n", "h", "t", "f", "o", "a", "x", "p", "u", "q"}

ASSUME ReplyStreamAssumption ==
  /\ \A c \in Chunks : c \in Seq(Tokens) /\ c # <<>>
  /\ {SentenceMin, MaxChars, MarkerMax, TagMax, SummaryHeadings} \subseteq Nat \ {0}
  /\ SentenceMin <= MaxChars /\ MaxText \in Nat /\ MaxHeld \in Nat

VARIABLES
  stream,  \* the stream buffer, replyStream's own variables, and three of the
           \* specification: "shown", the headings of this message sent so far,
           \* each in one piece; "ends", whether what was sent of this message
           \* ends a line, or with the start of a heading; and "parted", a
           \* sentence was just sent ahead of a "[["
  out      \* what left the buffer in the last step: [head, next, why], next
           \* being the text of the buffer right after the cut

vars == <<stream, out>>

-----------------------------------------------------------------------------
(* Text.                                                                   *)

Blank(k) == k \in {"b", "n"}
Blanks(s) == \A i \in DOMAIN s : Blank(s[i])
TrimEnd(s) == SubSeq(s, 1, SelectLastInSeq(s, LAMBDA k : ~ Blank(k)))
TrimStart(s) ==
  IF Blanks(s) THEN <<>> ELSE SubSeq(s, SelectInSeq(s, LAMBDA k : ~ Blank(k)), Len(s))

\* A heading, a tag and a fence count at the start of a line.  The blanks
\* that indent them belong to the token.
Opening(s, k) == {i \in DOMAIN s : s[i] = k /\ (i = 1 \/ s[i - 1] = "n")}
Before(s, i) == SubSeq(s, 1, i - 1)
After(s, i) == SubSeq(s, i + 1, Len(s))

FenceOpenAfter(s, open) == (Cardinality(Opening(s, "f")) % 2 = 1) # open

\* What begins a line with k, and goes on with one of rest.
Begun(s, k, rest) == {i \in Opening(s, k) : i < Len(s) /\ s[i + 1] \in rest}

\* The heading at i leaves its line to k.
OfHeading(s, i, k) == s[k] = "b" \/ (s[i] = "p" /\ k = i + 1 /\ s[k] = "q")

\* A heading has its line to itself.
Headings(s) ==
  {i \in Opening(s, "h") \cup Begun(s, "p", {"q"}) : \E j \in i .. Len(s) :
     /\ j = Len(s) \/ s[j + 1] = "n"
     /\ \A k \in i + 1 .. j : OfHeading(s, i, k)}

\* tagLineStart(): the bracket is a tag's once a letter follows.
TagLines(s, open) ==
  {i \in Opening(s, "t") \cup Begun(s, "u", {"q", "w"}) : ~ FenceOpenAfter(Before(s, i), open)}

\* The last line is a bracket, and may become a tag once the next piece arrives.
Unfinished(s, open) ==
  {i \in Opening(s, "u") : /\ Len(s) - i < TagMax
                           /\ \A j \in i + 1 .. Len(s) : s[j] \notin {"n", "t", "u", "q"}
                           /\ ~ FenceOpenAfter(Before(s, i), open)}

\* withOpeningFence(): the line above it opens a fence.
WithOpeningFence(s, at, open) ==
  LET i == SelectLastInSeq(Before(s, at), LAMBDA k : ~ Blank(k)) IN
  IF i \in Opening(s, "f") /\ ~ FenceOpenAfter(Before(s, i), open)
  THEN i ELSE at

\* holdFrom(): where the text stops being sent, 0 when it may all go.
HoldFrom(s, open) ==
  LET headings == Headings(s)
      all == TagLines(s, open) \cup Unfinished(s, open)
               \cup (IF headings = {} THEN {}
                     ELSE {WithOpeningFence(s, Min(headings), open)})
  IN IF all = {} THEN 0 ELSE Min(all)

\* A tag, whole or in its two parts.
OfTag(s, j) ==
  \/ s[j] = "t"
  \/ s[j] = "u" /\ j < Len(s) /\ s[j + 1] = "q"
  \/ s[j] = "q" /\ j > 1 /\ s[j - 1] = "u"

\* withheldMarkupStart(): only tags from this line to the end.
MarkupStart(s, open) ==
  LET from == {i \in TagLines(s, open) :
                 \A j \in i .. Len(s) : OfTag(s, j) \/ Blank(s[j])}
  IN IF from = {} THEN 0 ELSE Min(from)

\* Where the "[[" at i is closed on its line, 0 when it is not.
Closing(s, i) ==
  LET j == SelectInSeq(After(s, i), LAMBDA k : k \in {"x", "n"}) IN
  IF j # 0 /\ s[i + j] = "x" THEN i + j ELSE 0

\* markerSpans(): a closed marker, or one still being written at the end.
MarkerSpans(s) ==
  LET opens == {i \in DOMAIN s : s[i] = "o"}
      inside(i) == \E j \in opens : j < i /\ i < Closing(s, j)
      stop(i) == IF Closing(s, i) # 0 THEN Closing(s, i) ELSE Len(s)
      open(i) == Closing(s, i) = 0
  IN {[start |-> i, stop |-> stop(i), open |-> open(i)] :
        i \in {i \in opens : /\ ~ inside(i) /\ stop(i) - i < MarkerMax
                             /\ open(i) => \A j \in i .. Len(s) : s[j] # "n"}}

OpenMarkerStart(s) ==
  LET starts == {m.start : m \in {m \in MarkerSpans(s) : m.open}} IN
  IF starts = {} THEN 0 ELSE Max(starts)

\* ATTACH_START.test()
HasAttach(s) ==
  \E i \in DOMAIN s : /\ s[i] = "o"
                      /\ LET j == SelectInSeq(After(s, i), LAMBDA k : ~ Blank(k))
                         IN j # 0 /\ s[i + j] = "a"

-----------------------------------------------------------------------------
(* What is done to a reply r, by the methods of the buffer.                *)

\* The headings of head, when next follows it.
SentHeadings(head, next) == Headings(head \o next) \cap Headings(head)

\* How what was sent of the message ends, with head behind it.
EndsAs(ends, head) ==
  CASE Last(head) = "n" -> "line"
    [] Last(head) = "p" /\ (IF Len(head) = 1 THEN ends = "line"
                            ELSE head[Len(head) - 1] = "n") -> "half"
    [] OTHER -> "middle"

\* deliver()
Deliver(r, head, text, next, why) ==
  [r EXCEPT !.out = Append(@, [head |-> head, next |-> next, why |-> why]),
            !.answer = IF r.whole THEN @ \o text ELSE @,
            !.fenceOpen = FenceOpenAfter(text, @),
            !.endedInMarkup = FALSE,
            !.parted = why = "settled" /\ Last(text) = "s" /\ ~ Blanks(next)
                         /\ Head(TrimStart(next)) = "o",
            !.ends = EndsAs(@, head),
            !.shown = Min({@ + Cardinality(SentHeadings(head, next)), SummaryHeadings})]

\* emit(), of the head of the buffer, trimmed at its end.
Emit(r, head, next, why) ==
  IF Blanks(head) THEN r ELSE Deliver(r, head, TrimEnd(head), next, why)

Withhold(r, text, why) ==
  [r EXCEPT !.out = Append(@, [head |-> text, next |-> <<>>, why |-> why])]

\* onHeld()
OnHeld(r, held) ==
  LET at == MarkupStart(held, r.fenceOpen) IN
  CASE Cardinality(Headings(held)) >= SummaryHeadings -> Withhold(r, held, "summary")
    [] Cardinality(Headings(held)) < SummaryHeadings /\ at # 0 ->
         [Withhold(Emit(r, Before(held, at), <<>>, "held"),
                   SubSeq(held, at, Len(held)), "markup") EXCEPT !.endedInMarkup = TRUE]
    [] OTHER -> Deliver(r, held, held, <<>>, "held")

\* release()
Release(r) ==
  LET held == TrimStart(TrimEnd(r.buffer))
      free == [r EXCEPT !.buffer = <<>>, !.cutFloor = 0, !.holding = FALSE]
  IN CASE ~ r.holding -> r
       [] r.holding /\ held = <<>> -> free
       [] OTHER -> OnHeld(free, held)

\* mutant: the piece goes out as it is, and is not asked about
HoldNever(r, piece) == 0

Hold(r, piece) == HoldFrom(piece, r.fenceOpen)

\* startsHold(), when the hold starts at that token.
StartHold(r, at) ==
  Emit([r EXCEPT !.buffer = SubSeq(@, at, Len(@)), !.holding = TRUE, !.idleTimer = FALSE],
       Before(r.buffer, at), SubSeq(r.buffer, at, Len(r.buffer)), "hold")

\* The head of the buffer leaves, and the rest starts a piece.
EmitHead(r, cut, why) ==
  Emit([r EXCEPT !.buffer = TrimStart(After(@, cut)), !.cutFloor = 0],
       SubSeq(r.buffer, 1, cut), After(r.buffer, cut), why)

Defer(r, cut) == [r EXCEPT !.deferredCut = cut, !.deferredTimer = TRUE]

\* mutant: the timer is stopped and the cut stays
TimerStopped(r) == [r EXCEPT !.deferredTimer = FALSE]

NotDeferred(r) == [r EXCEPT !.deferredCut = 0, !.deferredTimer = FALSE]

\* mutant: the full stop is the end of the sentence
ClosedAtStop(s, cut) == cut

\* closedAt(): the marks glued to a sentence end belong to the sentence.
ClosedAt(s, cut) ==
  IF cut \in DOMAIN s /\ s[cut] \in {"s", "c"}
  THEN Max({i \in cut .. Len(s) : \A j \in cut + 1 .. i : s[j] = "c"})
  ELSE cut

\* settleDeferred()
Settle(r) ==
  LET end == ClosedAt(r.buffer, r.deferredCut)
      rest == After(r.buffer, end)
      free == NotDeferred(r)
  IN CASE Blanks(rest) -> Defer(free, end)
       [] ~ Blanks(rest) /\ HasAttach(rest) -> [free EXCEPT !.cutFloor = end]
       [] OTHER -> EmitHead(free, end, "settled")

\* mutant: a full stop inside a path ends a sentence
BoundariesEverywhere(r) ==
  {i \in r.cutFloor + 1 .. Len(r.buffer) : r.buffer[i] \in {"s", "n"}}

\* The sentence ends outside every marker.
Boundaries(r) ==
  LET markers == UNION {m.start .. m.stop : m \in MarkerSpans(r.buffer)} IN
  {i \in (r.cutFloor + 1 .. Len(r.buffer)) \ markers : r.buffer[i] \in {"s", "n"}}

\* holdAtBoundary(), when there is one.
AtBoundary(r) ==
  LET cut == ClosedAt(r.buffer, Max(Boundaries(r)))
      at == Hold(r, SubSeq(r.buffer, 1, cut))
  IN CASE at # 0 -> StartHold(r, at)
       [] at = 0 /\ HasAttach(After(r.buffer, cut)) -> [r EXCEPT !.cutFloor = cut]
       [] OTHER -> Defer(r, cut)

\* The hard cap.
AtCap(r) ==
  LET at == Hold(r, r.buffer) open == OpenMarkerStart(r.buffer) IN
  CASE at # 0 -> StartHold(r, at)
    [] at = 0 /\ open = 0 ->
         Deliver([r EXCEPT !.buffer = <<>>, !.cutFloor = 0], r.buffer, r.buffer, <<>>, "cap")
    [] at = 0 /\ open > 1 ->
         Emit([r EXCEPT !.buffer = SubSeq(@, open, Len(@)), !.cutFloor = 0],
              Before(r.buffer, open), SubSeq(r.buffer, open, Len(r.buffer)), "cap")
    [] OTHER -> r

Cut(r) ==
  CASE r.holding \/ r.whole -> r
    [] ~ (r.holding \/ r.whole) /\ Len(r.buffer) >= SentenceMin /\ Boundaries(r) # {} ->
         AtBoundary([r EXCEPT !.idleTimer = TRUE])
    [] ~ (r.holding \/ r.whole) /\ Len(r.buffer) >= MaxChars
         /\ (Len(r.buffer) >= SentenceMin => Boundaries(r) = {}) ->
         AtCap([r EXCEPT !.idleTimer = TRUE])
    [] OTHER -> [r EXCEPT !.idleTimer = TRUE]

\* push()
Push(r, text) ==
  LET p == [r EXCEPT !.buffer = @ \o text] IN
  CASE r.deferredCut # 0 /\ Blanks(text) -> p
    [] r.deferredCut # 0 /\ ~ Blanks(text) -> Cut(Settle(p))
    [] OTHER -> Cut(p)

\* flush()
Flush(r) ==
  LET f == [NotDeferred(r) EXCEPT !.idleTimer = FALSE, !.cutFloor = 0]
      at == Hold(r, r.buffer)
  IN CASE r.holding \/ r.buffer = <<>> -> r
       [] ~ r.holding /\ r.buffer # <<>> /\ at # 0 -> StartHold(f, at)
       [] OTHER -> Emit([f EXCEPT !.buffer = <<>>], r.buffer, <<>>, "flush")

\* mutant: the whole text waits for the marker at its end
IdleWaits(r) ==
  IF r.holding \/ r.deferredCut # 0 \/ OpenMarkerStart(r.buffer) # 0 THEN r ELSE Flush(r)

\* flushIdle()
FlushIdle(r) ==
  LET open == OpenMarkerStart(r.buffer)
      at == Hold(r, Before(r.buffer, open))
  IN CASE r.holding \/ r.deferredCut # 0 \/ open = 1 -> r
       [] ~ (r.holding \/ r.deferredCut # 0) /\ open = 0 -> Flush(r)
       [] ~ (r.holding \/ r.deferredCut # 0) /\ open > 1 /\ at # 0 -> StartHold(r, at)
       [] OTHER -> Defer(r, open - 1)

\* sendAnswer()
SendAnswer(r) == [r EXCEPT !.answer = <<>>]

\* end()
EndBuffer(r) ==
  LET f == [NotDeferred(r) EXCEPT !.idleTimer = FALSE]
      at == Hold(r, r.buffer)
  IN CASE r.holding -> Release(f)
       [] ~ r.holding /\ at # 0 -> Release(StartHold(f, at))
       [] OTHER -> Emit([f EXCEPT !.buffer = <<>>, !.cutFloor = 0], r.buffer, <<>>, "end")

-----------------------------------------------------------------------------
(* The steps.                                                              *)

Reply(whole) ==
  [buffer |-> <<>>, deferredCut |-> 0, cutFloor |-> 0, holding |-> FALSE, ended |-> FALSE,
   idleTimer |-> FALSE, deferredTimer |-> FALSE,
   whole |-> whole, fenceOpen |-> FALSE, endedInMarkup |-> FALSE, answer |-> <<>>,
   shown |-> 0, ends |-> "line", parted |-> FALSE, out |-> <<>>]

Becomes(r) == \E x \in {r} : stream' = [x EXCEPT !.out = <<>>] /\ out' = x.out

Init ==
  /\ \E whole \in BOOLEAN : stream = Reply(whole)
  /\ out = <<>>

\* A chunk of text, the first of a new message or of the one before.
Chunk(text, new) ==
  LET ending == [Release(Flush(stream)) EXCEPT !.fenceOpen = FALSE, !.shown = 0,
                                                !.ends = "line"]
      r == IF new THEN ending ELSE stream
  IN /\ ~ stream.ended
     /\ Len(stream.buffer) + Len(stream.answer) + Len(text)
          <= (IF stream.whole \/ stream.holding THEN MaxHeld ELSE MaxText)
     /\ Becomes(Push(r, text))

\* A tool starts, or says more.
Tool ==
  /\ ~ stream.ended
  /\ Becomes(IF stream.whole THEN SendAnswer(Flush(stream)) ELSE Flush(stream))

\* Half a second after the last chunk.
Idle ==
  /\ stream.idleTimer
  /\ Becomes(FlushIdle([stream EXCEPT !.idleTimer = FALSE]))

\* MARKER_HOLD_MS after a piece was held back.
Ceiling ==
  LET r == EmitHead(NotDeferred(stream), stream.deferredCut, "ceiling") IN
  /\ stream.deferredTimer
  /\ Becomes([r EXCEPT !.idleTimer =
       @ \/ (r.buffer # <<>> /\ ~ r.holding /\ ~ r.whole)])

\* The turn ends.
End ==
  /\ ~ stream.ended
  /\ Becomes([SendAnswer(EndBuffer(stream)) EXCEPT !.ended = TRUE])

\* The prompt is sent again from the start.
Discard ==
  /\ ~ stream.ended
  /\ Becomes([Reply(stream.whole) EXCEPT !.ended = TRUE, !.fenceOpen = stream.fenceOpen,
                !.endedInMarkup = stream.endedInMarkup, !.shown = stream.shown])

\* openReply(): the next prompt's.
OpenReply ==
  /\ stream.ended
  /\ \E whole \in BOOLEAN : Becomes(Reply(whole))

Next ==
  \/ \E text \in Chunks, new \in BOOLEAN : Chunk(text, new)
  \/ Tool \/ Idle \/ Ceiling \/ End \/ Discard \/ OpenReply

Spec == Init /\ [][Next]_vars

\* The timers fire.  Nothing is asked of the agent.
FairSpec == Spec /\ WF_vars(Idle \/ Ceiling)

-----------------------------------------------------------------------------
\* A cut inside a marker, and not where another one starts in it.
CutsMarker(s, cut) ==
  \E m \in MarkerSpans(s) : cut \in m.start .. m.stop - 1 /\ s[cut + 1] # "o"

\* Types and ranges of the whole state.
TypeOK ==
  /\ stream.buffer \in Seq(Tokens) /\ stream.answer \in Seq(Tokens)
  /\ stream.deferredCut \in Nat /\ stream.cutFloor \in Nat
  /\ stream.shown \in 0 .. SummaryHeadings /\ stream.ends \in {"line", "half", "middle"}
  /\ {stream.holding, stream.ended, stream.idleTimer, stream.deferredTimer, stream.whole,
      stream.fenceOpen,
      stream.endedInMarkup, stream.parted} \subseteq BOOLEAN

\* A cut held back for the next words is always one of the text now in the
\* buffer: whatever was flushed, settled, held or released since, it lies
\* inside the buffer and inside no marker, its timer runs, and no hold is on.
CutIsReal ==
  /\ stream.deferredTimer <=> stream.deferredCut # 0
  /\ stream.deferredCut # 0 =>
       /\ stream.deferredCut <= Len(stream.buffer)
       /\ ~ stream.holding /\ ~ stream.whole /\ ~ stream.ended
       /\ ~ CutsMarker(stream.buffer, stream.deferredCut)

\* However a summary streams, in whatever chunks, and whatever flushes between
\* them, the person never gets as many of its headings as make it one, counting
\* each heading that leaves in one piece: one that a flush cuts in two is not
\* known for a heading, and may be sent (HeadingsHold).
SummaryNotSent == stream.shown < SummaryHeadings

\* No piece is cut inside a marker, and a piece cut at a sentence end leaves no
\* mark glued to that end to the next one.  A tool, a new message and the end
\* of the turn cut where the text is.
PiecesAreWhole ==
  [][\A i \in DOMAIN out' :
       LET p == out'[i] IN
       p.why \in {"settled", "ceiling", "cap", "hold"} =>
         /\ ~ CutsMarker(p.head \o p.next, Len(p.head))
         /\ p.why \in {"settled", "ceiling"} /\ Last(p.head) = "s" /\ p.next # <<>> => Head(p.next) # "c"]_vars

\* Once the agent falls silent, what it wrote leaves with the timers alone, and
\* waits only for the rest of a marker, for the judgement of a hold, or on a
\* channel that takes whole answers.
FinishedTextLeaves ==
  <>[][Idle \/ Ceiling]_vars
    => []<>(\/ Blanks(stream.buffer) \/ stream.holding \/ stream.whole
            \/ OpenMarkerStart(stream.buffer) = 1)

\* A sentence that ends just before a file's [[attach: marker leaves together
\* with it, unless the ceiling has passed (stream-buffer.ts:239-244).
SentenceWithItsMarker ==
  stream.parted /\ Len(stream.buffer) >= 2 => ~ HasAttach(SubSeq(stream.buffer, 1, 2))

\* A summary's heading is "the point to stop sending at" (egress-redaction.ts:319),
\* also when its line arrives in two chunks and a flush comes between them.
HeadingsHold ==
  stream.ends = "half" /\ stream.buffer # <<>> => Head(stream.buffer) # "q"
=============================================================================
