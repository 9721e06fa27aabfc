-------------------------- MODULE ReplyStreamProofs --------------------------
(***************************************************************************)
(* What is proved of the text of an answer, for any chunks and limits: a   *)
(* cut held back is one of the text in the buffer, no piece is cut inside  *)
(* a marker, and no summary is sent.                                       *)
(***************************************************************************)
EXTENDS ReplyStream, FiniteSetTheorems, SequenceTheorems, WellFoundedInduction, TLAPS

\* What a piece may be, as it leaves: cut where PiecesAreWhole lets it be.
Whys ==
  {"settled", "ceiling", "cap", "hold", "held", "summary", "markup", "flush", "end"}

Piece == [head : Seq(Tokens), next : Seq(Tokens), why : Whys]

IsWhole(p) ==
  p.why \in {"settled", "ceiling", "cap", "hold"} =>
    /\ ~ CutsMarker(p.head \o p.next, Len(p.head))
    /\ p.why \in {"settled", "ceiling"} /\ Last(p.head) = "s" /\ p.next # <<>> => Head(p.next) # "c"

AllWhole(ps) == \A i \in DOMAIN ps : IsWhole(ps[i])

Replies ==
  [buffer : Seq(Tokens), deferredCut : Nat, cutFloor : Nat, holding : BOOLEAN,
   ended : BOOLEAN, idleTimer : BOOLEAN, deferredTimer : BOOLEAN, whole : BOOLEAN,
   fenceOpen : BOOLEAN, endedInMarkup : BOOLEAN, answer : Seq(Tokens),
   shown : 0 .. SummaryHeadings, ends : {"line", "half", "middle"}, parted : BOOLEAN, out : Seq(Piece)]

\* The first d tokens of s end outside every marker, whatever s is continued with:
\* the markers that start before are closed, or another one starts right there.
Outside(s, d) ==
  \A m \in MarkerSpans(s) :
    m.start <= d => (~ m.open /\ m.stop <= d) \/ (d < Len(s) /\ s[d + 1] = "o")

\* The cut at d is a boundary with the marks that close it, if there are any.
Glued(r, d) ==
  \E i \in Boundaries(r) :
    /\ i <= d /\ \A j \in i + 1 .. d : r.buffer[j] = "c"
    /\ i < d => r.buffer[i] = "s"

\* A cut held back at d is one of the text in the buffer.  It may be sent, it leaves no
\* mark behind, and it is a sentence's end, or a marker starts right behind it.
Deferrable(r, d) ==
  LET s == r.buffer IN
  /\ d \in 1 .. Len(s)
  /\ Outside(s, d)
  /\ HoldFrom(SubSeq(s, 1, d), r.fenceOpen) = 0
  /\ d < Len(s) /\ s[d] = "s" => s[d + 1] # "c"
  /\ (d < Len(s) /\ s[d + 1] = "o") \/ Glued(r, d)

CutOK(r) ==
  /\ r.deferredTimer <=> r.deferredCut # 0
  /\ r.deferredCut # 0 =>
       ~ r.holding /\ ~ r.whole /\ ~ r.ended /\ Deferrable(r, r.deferredCut)

\* The idle timer runs only for a turn that still streams.
IdleOK(r) == r.idleTimer => ~ r.ended /\ ~ r.whole

\* No heading is sent before the turn, or the message, ends.
ShownOK(r) == r.shown < SummaryHeadings /\ (~ r.ended => r.shown = 0)

Good(r) == r \in Replies /\ AllWhole(r.out) /\ CutOK(r) /\ IdleOK(r) /\ ShownOK(r)

Inv == Good(stream) /\ stream.out = <<>>

-----------------------------------------------------------------------------
(* The least and the greatest position.                                    *)

Below == {ss \in Nat \X Nat : ss[1] < ss[2]}

LEMMA LeastIs ==
  ASSUME NEW S \in SUBSET Nat, S # {}
  PROVE  Min(S) \in S /\ \A y \in S : Min(S) <= y
<1>1. IsWellFoundedOn(Below, Nat)
  <2>1. Below = OpToRel(<, Nat)
    BY Zenon DEF OpToRel, Below
  <2>2. QED
    BY NatLessThanWellFounded, <2>1, Zenon
<1>2. PICK x \in S : \A y \in S : <<y, x>> \notin Below
  BY <1>1, WFMin, Zenon
<1>3. ASSUME NEW y \in S, y < x PROVE FALSE
  <2>1. <<y, x>> \in Nat \X Nat /\ <<y, x>>[1] = y /\ <<y, x>>[2] = x
    OBVIOUS
  <2>2. QED
    BY <1>2, <1>3, <2>1 DEF Below
<1>4. \A y \in S : x <= y
  BY <1>3
<1>5. QED
  BY <1>4 DEF Min

LEMMA GreatestIs ==
  ASSUME NEW n \in Nat, NEW S \in SUBSET (0 .. n), S # {}
  PROVE  Max(S) \in S /\ \A y \in S : y <= Max(S)
<1>. DEFINE T == {i \in Nat : n - i \in S}
<1>1. T \in SUBSET Nat /\ T # {}
  <2>1. PICK x \in S : TRUE
    OBVIOUS
  <2>2. n - x \in Nat /\ n - (n - x) = x
    BY <2>1
  <2>3. QED
    BY <2>1, <2>2
<1>2. Min(T) \in T /\ \A y \in T : Min(T) <= y
  BY <1>1, LeastIs
<1>. DEFINE x == n - Min(T)
<1>3. x \in S /\ \A y \in S : y <= x
  <2>1. ASSUME NEW y \in S PROVE Min(T) <= n - y
    <3>1. n - y \in Nat /\ n - (n - y) = y
      OBVIOUS
    <3>2. QED
      BY <1>2, <3>1
  <2>2. Min(T) \in Nat /\ x \in S
    BY <1>2
  <2>3. QED
    BY <2>1, <2>2
<1>4. QED
  BY <1>3 DEF Max

-----------------------------------------------------------------------------
(* A text and its pieces.                                                  *)

Text == Seq(Tokens)

LEMMA PieceOf ==
  ASSUME NEW s \in Text, NEW i \in Nat \ {0}, NEW j \in 0 .. Len(s)
  PROVE  /\ SubSeq(s, i, j) \in Text
         /\ Len(SubSeq(s, i, j)) = (IF i <= j THEN j - i + 1 ELSE 0)
         /\ \A k \in 1 .. j - i + 1 : SubSeq(s, i, j)[k] = s[i + k - 1]
BY SubSeqProperties DEF Text

LEMMA PrefixOf ==
  ASSUME NEW s \in Text, NEW d \in 0 .. Len(s)
  PROVE  /\ SubSeq(s, 1, d) \in Text /\ Len(SubSeq(s, 1, d)) = d
         /\ \A k \in 1 .. d : SubSeq(s, 1, d)[k] = s[k]
BY PieceOf

LEMMA TwoPieces ==
  ASSUME NEW s \in Text, NEW d \in 0 .. Len(s)
  PROVE  /\ SubSeq(s, 1, d) \o After(s, d) = s
         /\ After(s, d) \in Text /\ Len(After(s, d)) = Len(s) - d
         /\ \A k \in 1 .. Len(s) - d : After(s, d)[k] = s[d + k]
<1>1. Len(s) \in Nat /\ After(s, d) = SubSeq(s, d + 1, Len(s))
  BY DEF After, Text
<1>2. SubSeq(s, 1, d) \o SubSeq(s, d + 1, Len(s)) = SubSeq(s, 1, Len(s))
  <2>1. 1 \in 1 .. Len(s) + 1 /\ d \in 1 - 1 .. Len(s) /\ Len(s) \in d .. Len(s)
    BY <1>1
  <2>2. QED
    BY <2>1, ConcatAdjacentSubSeq, Zenon DEF Text
<1>3. SubSeq(s, 1, Len(s)) = s
  BY SubSeqFull DEF Text
<1>4. d + 1 \in Nat \ {0} /\ Len(s) \in 0 .. Len(s)
  BY <1>1
<1>5. /\ After(s, d) \in Text
      /\ Len(After(s, d)) = (IF d + 1 <= Len(s) THEN Len(s) - (d + 1) + 1 ELSE 0)
      /\ \A k \in 1 .. Len(s) - (d + 1) + 1 : After(s, d)[k] = s[d + 1 + k - 1]
  BY <1>1, <1>4, PieceOf
<1>6. SubSeq(s, 1, d) \o After(s, d) = s
  BY <1>1, <1>2, <1>3
<1>. DEFINE a == After(s, d)
<1>. HIDE DEF a
<1>7. Len(a) = Len(s) - d /\ \A k \in 1 .. Len(s) - d : a[k] = s[d + k]
  BY <1>1, <1>5 DEF a
<1>8. QED
  BY <1>5, <1>6, <1>7 DEF a

LEMMA Joined ==
  ASSUME NEW s \in Text, NEW t \in Text
  PROVE  /\ s \o t \in Text /\ Len(s \o t) = Len(s) + Len(t)
         /\ \A k \in 1 .. Len(s) : (s \o t)[k] = s[k]
         /\ \A k \in 1 .. Len(t) : (s \o t)[Len(s) + k] = t[k]
BY ConcatProperties DEF Text

LEMMA Trimmed ==
  ASSUME NEW s \in Text
  PROVE  TrimStart(s) \in Text /\ TrimEnd(s) \in Text
<1>. DEFINE I == {i \in 1 .. Len(s) : ~ Blank(s[i])}
<1>1. DOMAIN s = 1 .. Len(s) /\ Len(s) \in Nat
  BY DEF Text
<1>2. ASSUME ~ Blanks(s) PROVE TrimStart(s) \in Text
  <2>1. I # {}
    BY <1>1, <1>2 DEF Blanks
  <2>2. TrimStart(s) = SubSeq(s, Min(I), Len(s))
    BY <1>2, <2>1 DEF TrimStart, SelectInSeq
  <2>3. Min(I) \in 1 .. Len(s)
    <3>1. I \in SUBSET Nat
      BY <1>1
    <3>2. Min(I) \in I
      BY <2>1, <3>1, LeastIs
    <3>3. QED
      BY <3>2
  <2>. DEFINE m == Min(I)
  <2>. HIDE DEF m
  <2>4. /\ TrimStart(s) = SubSeq(s, m, Len(s)) /\ m \in Nat \ {0}
        /\ Len(s) \in 0 .. Len(s)
    BY <1>1, <2>2, <2>3 DEF m
  <2>5. QED
    BY <2>4, PieceOf
<1>3. TrimEnd(s) \in Text
  <2>1. CASE I = {}
    BY <1>1, <2>1, PieceOf DEF TrimEnd, SelectLastInSeq
  <2>2. CASE I # {}
    <3>1. TrimEnd(s) = SubSeq(s, 1, Max(I))
      BY <2>2 DEF TrimEnd, SelectLastInSeq
    <3>2. Max(I) \in 1 .. Len(s)
      <4>1. I \in SUBSET (0 .. Len(s))
        BY <1>1
      <4>2. QED
        BY <1>1, <2>2, <4>1, GreatestIs
    <3>. DEFINE m == Max(I)
    <3>. HIDE DEF m
    <3>3. TrimEnd(s) = SubSeq(s, 1, m) /\ m \in 0 .. Len(s)
      BY <1>1, <3>1, <3>2 DEF m
    <3>4. QED
      BY <3>3, PieceOf
  <2>3. QED
    BY <2>1, <2>2
<1>4. QED
  BY <1>2, <1>3, EmptySeq DEF TrimStart, Text

-----------------------------------------------------------------------------
(* Where a text is held.                                                   *)

\* The tokens before a position do not depend on where the text ends.
LEMMA SamePrefix ==
  ASSUME NEW s \in Text, NEW d \in 0 .. Len(s), NEW i \in 1 .. d
  PROVE  Before(SubSeq(s, 1, d), i) = Before(s, i)
<1>. DEFINE p == SubSeq(s, 1, d)
<1>1. p \in Text /\ Len(p) = d /\ \A k \in 1 .. d : p[k] = s[k]
  BY PrefixOf
<1>2. i - 1 \in 0 .. Len(p) /\ i - 1 \in 0 .. Len(s)
  BY <1>1 DEF Text
<1>3. /\ Before(p, i) \in Text /\ Len(Before(p, i)) = i - 1
      /\ \A k \in 1 .. i - 1 : Before(p, i)[k] = p[k]
  BY <1>1, <1>2, PrefixOf DEF Before
<1>4. /\ Before(s, i) \in Text /\ Len(Before(s, i)) = i - 1
      /\ \A k \in 1 .. i - 1 : Before(s, i)[k] = s[k]
  BY <1>1, <1>2, PrefixOf DEF Before
<1>5. \A k \in 1 .. i - 1 : p[k] = s[k]
  BY <1>1
<1>. HIDE DEF p
<1>6. QED
  BY <1>3, <1>4, <1>5, SeqEqual DEF p, Text

LEMMA SameOpening ==
  ASSUME NEW s \in Text, NEW d \in 0 .. Len(s), NEW k
  PROVE  Opening(SubSeq(s, 1, d), k) = Opening(s, k) \cap (1 .. d)
<1>. DEFINE p == SubSeq(s, 1, d)
<1>1. p \in Text /\ Len(p) = d /\ \A j \in 1 .. d : p[j] = s[j]
  BY PrefixOf
<1>. HIDE DEF p
<1>2. DOMAIN p = 1 .. d /\ DOMAIN s = 1 .. Len(s) /\ Len(s) \in Nat /\ 1 .. d \subseteq 1 .. Len(s)
  BY <1>1 DEF Text
<1>3. \A i \in 1 .. d : i # 1 => i - 1 \in 1 .. d
  OBVIOUS
<1>4. Opening(p, k) = Opening(s, k) \cap (1 .. d)
  BY <1>1, <1>2, <1>3 DEF Opening
<1>5. QED
  BY <1>4 DEF p

\* A heading of a text is one of what stands before any later position: its line ended
\* before, or what is left of it is blank; unless the position cuts it in two.
LEMMA HeadingsBefore ==
  ASSUME NEW s \in Text, NEW d \in 0 .. Len(s), d < Len(s) => s[d + 1] # "q"
  PROVE  Headings(s) \cap (1 .. d) \subseteq Headings(SubSeq(s, 1, d))
<1>. DEFINE p == SubSeq(s, 1, d)
<1>1. p \in Text /\ Len(p) = d /\ \A j \in 1 .. d : p[j] = s[j]
  BY PrefixOf
<1>2. \A k : Opening(p, k) = Opening(s, k) \cap (1 .. d)
  BY SameOpening
<1>. HIDE DEF p
<1>3. SUFFICES ASSUME NEW i \in Headings(s) \cap (1 .. d)
               PROVE  i \in Headings(p)
  BY DEF p
<1>4. i \in Opening(s, "h") \cup Begun(s, "p", {"q"}) /\ i \in 1 .. d
  BY DEF Headings
<1>5. PICK j \in i .. Len(s) : /\ j = Len(s) \/ s[j + 1] = "n"
                               /\ \A k \in i + 1 .. j : OfHeading(s, i, k)
  BY DEF Headings
<1>6. Len(s) \in Nat
  BY DEF Text
<1>7. i \in Opening(p, "h") \cup Begun(p, "p", {"q"})
  <2>1. CASE i \in Opening(s, "h")
    BY <1>2, <1>4, <2>1
  <2>2. CASE i \in Begun(s, "p", {"q"})
    <3>1. i \in Opening(s, "p") /\ i < Len(s) /\ s[i + 1] = "q"
      BY <2>2 DEF Begun
    <3>2. i # d
      BY <3>1
    <3>3. i + 1 \in 1 .. d
      BY <1>4, <1>6, <3>2
    <3>4. QED
      BY <1>1, <1>2, <1>4, <3>1, <3>3 DEF Begun
  <2>3. QED
    BY <1>4, <2>1, <2>2
<1>8. \A k \in i + 1 .. d : k <= j => OfHeading(p, i, k)
  <2>1. ASSUME NEW k \in i + 1 .. d, k <= j PROVE OfHeading(p, i, k)
    <3>1. k \in i + 1 .. j /\ k \in 1 .. d
      BY <1>4, <1>6, <2>1
    <3>2. OfHeading(s, i, k) /\ p[k] = s[k] /\ p[i] = s[i]
      BY <1>1, <1>4, <1>5, <3>1
    <3>3. QED
      BY <3>2 DEF OfHeading
  <2>2. QED
    BY <2>1
<1>9. CASE j < d
  <2>1. j + 1 \in 1 .. d /\ j # Len(s) /\ j \in i .. Len(p)
    BY <1>1, <1>4, <1>6, <1>9
  <2>2. p[j + 1] = "n"
    BY <1>1, <1>5, <2>1
  <2>3. \A k \in i + 1 .. j : OfHeading(p, i, k)
    BY <1>4, <1>6, <1>8, <2>1
  <2>4. QED
    BY <1>7, <2>1, <2>2, <2>3 DEF Headings
<1>10. CASE ~ j < d
  <2>1. d \in i .. Len(p) /\ \A k \in i + 1 .. d : k <= j
    BY <1>1, <1>4, <1>6, <1>10
  <2>2. \A k \in i + 1 .. d : OfHeading(p, i, k)
    BY <1>8, <2>1
  <2>3. QED
    BY <1>1, <1>7, <2>1, <2>2 DEF Headings
<1>11. QED
  BY <1>9, <1>10

\* A text is held from the start of a line, and from no later than its first heading.
LEMMA HeldFrom ==
  ASSUME NEW s \in Text, NEW open
  PROVE  LET at == HoldFrom(s, open) IN
         /\ at = 0 => Headings(s) = {} /\ TagLines(s, open) = {} /\ Unfinished(s, open) = {}
         /\ at # 0 => /\ at \in 1 .. Len(s) /\ (at = 1 \/ s[at - 1] = "n")
                      /\ \A i \in Headings(s) : at <= i
<1>. DEFINE first == WithOpeningFence(s, Min(Headings(s)), open)
            all == TagLines(s, open) \cup Unfinished(s, open)
                     \cup (IF Headings(s) = {} THEN {} ELSE {first})
            starts == {i \in 1 .. Len(s) : i = 1 \/ s[i - 1] = "n"}
<1>0. Len(s) \in Nat /\ DOMAIN s = 1 .. Len(s)
  BY DEF Text
<1>1. \A k : Opening(s, k) \subseteq starts
  BY <1>0 DEF Opening
<1>2. /\ Headings(s) \subseteq starts
      /\ TagLines(s, open) \subseteq starts /\ Unfinished(s, open) \subseteq starts
  BY <1>1 DEF Headings, TagLines, Unfinished, Begun
<1>3. ASSUME Headings(s) # {}
      PROVE  first \in starts /\ \A i \in Headings(s) : first <= i
  <2>. DEFINE m == Min(Headings(s))
  <2>1. m \in Headings(s) /\ \A i \in Headings(s) : m <= i
    <3>1. Headings(s) \in SUBSET Nat
      BY <1>2
    <3>2. QED
      BY <1>3, <3>1, LeastIs
  <2>2. m \in starts
    BY <1>2, <2>1
  <2>. DEFINE B == Before(s, m)
              I == {i \in 1 .. Len(B) : ~ Blank(B[i])}
              f == SelectLastInSeq(B, LAMBDA k : ~ Blank(k))
  <2>3. Len(B) = m - 1 /\ m - 1 \in Nat
    BY <1>0, <2>2, PrefixOf DEF Before
  <2>4. CASE f \in Opening(s, "f") /\ ~ FenceOpenAfter(Before(s, f), open)
    <3>1. first = f
      BY <2>4 DEF WithOpeningFence, SelectLastInSeq
    <3>2. f = (IF I # {} THEN Max(I) ELSE 0)
      BY DEF SelectLastInSeq
    <3>. HIDE DEF f
    <3>3. f \in starts
      BY <1>1, <2>4
    <3>4. f # 0 /\ I # {}
      BY <3>2, <3>3
    <3>5. f \in I
      <4>1. I \in SUBSET (0 .. Len(B))
        BY <2>3
      <4>2. Max(I) \in I
        BY <2>3, <3>4, <4>1, GreatestIs
      <4>3. QED
        BY <3>2, <3>4, <4>2
    <3>6. f <= m
      BY <2>2, <2>3, <3>5
    <3>7. QED
      BY <1>2, <2>1, <2>2, <3>1, <3>3, <3>6
  <2>5. CASE ~ (f \in Opening(s, "f") /\ ~ FenceOpenAfter(Before(s, f), open))
    <3>1. first = m
      BY <2>5 DEF WithOpeningFence, SelectLastInSeq
    <3>2. QED
      BY <2>1, <2>2, <3>1
  <2>6. QED
    BY <2>4, <2>5
<1>. HIDE DEF first
<1>4. HoldFrom(s, open) = IF all = {} THEN 0 ELSE Min(all)
  BY DEF HoldFrom, first
<1>5. all \subseteq starts /\ starts \subseteq Nat \ {0}
  BY <1>0, <1>2, <1>3
<1>6. ASSUME all # {} PROVE Min(all) \in all /\ \A i \in all : Min(all) <= i
  <2>1. all \in SUBSET Nat
    BY <1>5
  <2>2. QED
    BY <1>6, <2>1, LeastIs
<1>7. ASSUME HoldFrom(s, open) = 0
      PROVE  Headings(s) = {} /\ TagLines(s, open) = {} /\ Unfinished(s, open) = {}
  <2>1. all = {}
    BY <1>4, <1>5, <1>6, <1>7
  <2>2. QED
    BY <2>1
<1>8. ASSUME HoldFrom(s, open) # 0
      PROVE  /\ HoldFrom(s, open) \in starts
             /\ \A i \in Headings(s) : HoldFrom(s, open) <= i
  <2>1. all # {} /\ HoldFrom(s, open) = Min(all)
    BY <1>4, <1>8
  <2>2. Min(all) \in starts /\ \A i \in all : Min(all) <= i
    BY <1>5, <1>6, <2>1
  <2>3. ASSUME NEW i \in Headings(s) PROVE Min(all) <= i
    <3>1. first \in all /\ first <= i /\ first \in starts /\ i \in starts
      BY <1>2, <1>3, <2>3
    <3>2. Min(all) <= first
      BY <2>2, <3>1
    <3>3. QED
      BY <1>0, <2>2, <3>1, <3>2
  <2>4. QED
    BY <2>1, <2>2, <2>3
<1>9. QED
  BY <1>7, <1>8

\* A text that may be sent may still be with marks and blanks behind it.
LEMMA StillFree ==
  ASSUME NEW s \in Text, NEW open, NEW d \in 0 .. Len(s), NEW e \in d .. Len(s),
         HoldFrom(SubSeq(s, 1, d), open) = 0,
         \A k \in d + 1 .. e : s[k] \in {"c", "b", "n"}
  PROVE  HoldFrom(SubSeq(s, 1, e), open) = 0
<1>. DEFINE p == SubSeq(s, 1, d) q == SubSeq(s, 1, e)
<1>0. Len(s) \in Nat /\ e \in 0 .. Len(s)
  BY DEF Text
<1>1. /\ p \in Text /\ Len(p) = d /\ (\A k \in 1 .. d : p[k] = s[k])
      /\ q \in Text /\ Len(q) = e /\ (\A k \in 1 .. e : q[k] = s[k])
  BY <1>0, PrefixOf
<1>2. Headings(p) = {} /\ TagLines(p, open) = {} /\ Unfinished(p, open) = {}
  BY <1>1, HeldFrom
<1>3. \A k : Opening(p, k) = Opening(s, k) \cap (1 .. d)
  BY SameOpening
<1>4. \A k : Opening(q, k) = Opening(s, k) \cap (1 .. e)
  BY <1>0, SameOpening
<1>5. ASSUME NEW i \in 1 .. e, s[i] \in {"h", "t", "p", "u", "q", "w"} PROVE i \in 1 .. d
  BY <1>5
<1>6. \A i \in 1 .. d : Before(p, i) = Before(s, i) /\ Before(q, i) = Before(s, i)
  BY <1>0, SamePrefix
<1>7. d \in 0 .. Len(q) /\ SubSeq(q, 1, d) = p
  <2>1. d \in 0 .. Len(q)
    BY <1>0, <1>1
  <2>2. /\ SubSeq(q, 1, d) \in Text /\ Len(SubSeq(q, 1, d)) = d
        /\ \A k \in 1 .. d : SubSeq(q, 1, d)[k] = q[k]
    BY <1>1, <2>1, PrefixOf
  <2>3. \A k \in 1 .. d : q[k] = p[k]
    BY <1>0, <1>1
  <2>. HIDE DEF p, q
  <2>4. QED
    BY <1>1, <2>1, <2>2, <2>3, SeqEqual DEF Text
<1>8. \A k : \A i \in Opening(q, k) : i \in 1 .. e /\ s[i] = k /\ q[i] = k
  BY <1>1, <1>4 DEF Opening
<1>9. ASSUME NEW k \in {"h", "t", "p", "u"}, NEW i \in Opening(q, k)
      PROVE  i \in 1 .. d /\ i \in Opening(p, k)
  <2>1. i \in 1 .. e /\ s[i] = k /\ i \in Opening(s, k)
    BY <1>4, <1>8
  <2>2. i \in 1 .. d
    BY <1>5, <2>1
  <2>3. QED
    BY <1>3, <2>1, <2>2
<1>10. Headings(q) = {}
  <2>1. \A i \in Headings(q) : i \in 1 .. d
    BY <1>9 DEF Headings, Begun
  <2>2. d < Len(q) => q[d + 1] # "q"
    <3>1. SUFFICES ASSUME d < Len(q) PROVE q[d + 1] # "q"
      OBVIOUS
    <3>2. d + 1 \in d + 1 .. e /\ d + 1 \in 1 .. e
      BY <1>0, <1>1, <3>1
    <3>3. QED
      BY <1>1, <3>2
  <2>3. Headings(q) \cap (1 .. d) \subseteq Headings(p)
    <3>. HIDE DEF p, q
    <3>1. QED
      BY <1>1, <1>7, <2>2, HeadingsBefore
  <2>4. QED
    BY <1>2, <2>1, <2>3
<1>11. TagLines(q, open) = {}
  <2>1. SUFFICES ASSUME NEW i \in TagLines(q, open) PROVE FALSE
    OBVIOUS
  <2>2. i \in Opening(q, "t") \cup Begun(q, "u", {"q", "w"}) /\ ~ FenceOpenAfter(Before(q, i), open)
    BY DEF TagLines
  <2>3. i \in Opening(p, "t") \cup Begun(p, "u", {"q", "w"}) /\ i \in 1 .. d
    <3>1. CASE i \in Opening(q, "t")
      BY <1>9, <3>1
    <3>2. CASE i \in Begun(q, "u", {"q", "w"})
      <4>1. i \in Opening(q, "u") /\ i < Len(q) /\ q[i + 1] \in {"q", "w"}
        BY <3>2 DEF Begun
      <4>2. i \in 1 .. d /\ i \in Opening(p, "u") /\ i + 1 \in 1 .. e
        BY <1>0, <1>1, <1>9, <4>1
      <4>3. s[i + 1] = q[i + 1]
        BY <1>1, <4>2
      <4>4. i + 1 \in 1 .. d
        BY <1>5, <4>1, <4>2, <4>3
      <4>5. p[i + 1] = s[i + 1] /\ i < Len(p)
        BY <1>0, <1>1, <4>2, <4>4
      <4>6. QED
        BY <4>1, <4>2, <4>3, <4>5 DEF Begun
    <3>3. QED
      BY <2>2, <3>1, <3>2
  <2>4. Before(p, i) = Before(q, i)
    BY <1>6, <2>3
  <2>5. i \in TagLines(p, open)
    BY <2>2, <2>3, <2>4 DEF TagLines
  <2>6. QED
    BY <1>2, <2>5
<1>12. Unfinished(q, open) = {}
  <2>1. SUFFICES ASSUME NEW i \in Unfinished(q, open) PROVE FALSE
    OBVIOUS
  <2>2. /\ i \in Opening(q, "u") /\ Len(q) - i < TagMax
        /\ \A j \in i + 1 .. Len(q) : q[j] \notin {"n", "t", "u", "q"}
        /\ ~ FenceOpenAfter(Before(q, i), open)
    BY DEF Unfinished
  <2>3. i \in Opening(p, "u") /\ i \in 1 .. d
    BY <1>9, <2>2
  <2>4. Before(p, i) = Before(q, i)
    BY <1>6, <2>3
  <2>5. TagMax \in Nat
    BY ReplyStreamAssumption
  <2>6. Len(p) - i < TagMax
    BY <1>0, <1>1, <2>2, <2>3, <2>5
  <2>7. ASSUME NEW j \in i + 1 .. Len(p) PROVE p[j] \notin {"n", "t", "u", "q"}
    <3>1. j \in i + 1 .. Len(q) /\ j \in 1 .. d /\ j \in 1 .. e
      BY <1>0, <1>1, <2>3, <2>7
    <3>2. p[j] = s[j] /\ q[j] = s[j]
      BY <1>1, <3>1
    <3>3. QED
      BY <2>2, <3>1, <3>2
  <2>8. i \in Unfinished(p, open)
    BY <2>2, <2>3, <2>4, <2>6, <2>7 DEF Unfinished
  <2>9. QED
    BY <1>2, <2>8
<1>13. QED
  BY <1>10, <1>11, <1>12 DEF HoldFrom

-----------------------------------------------------------------------------
(* Markers.                                                                *)

\* The marker at i is closed at c: the first "]]" or line end behind it is that "]]".
ClosesAt(s, i, c) ==
  /\ c \in i + 1 .. Len(s) /\ s[c] = "x"
  /\ \A k \in i + 1 .. c - 1 : s[k] \notin {"x", "n"}

LEMMA ClosingIs ==
  ASSUME NEW s \in Text, NEW i \in 1 .. Len(s)
  PROVE  /\ Closing(s, i) # 0 => ClosesAt(s, i, Closing(s, i))
         /\ \A c : ClosesAt(s, i, c) => Closing(s, i) = c
<1>. DEFINE t == After(s, i)
            I == {k \in 1 .. Len(t) : t[k] \in {"x", "n"}}
            j == IF I # {} THEN Min(I) ELSE 0
<1>0. Len(s) \in Nat /\ i \in 0 .. Len(s) /\ i \in Nat
  BY DEF Text
<1>1. t \in Text /\ Len(t) = Len(s) - i /\ \A k \in 1 .. Len(s) - i : t[k] = s[i + k]
  BY <1>0, TwoPieces
<1>2. Closing(s, i) = IF j # 0 /\ s[i + j] = "x" THEN i + j ELSE 0
  BY DEF Closing, SelectInSeq
<1>. HIDE DEF t
<1>3. I \subseteq 1 .. Len(s) - i
  BY <1>1
<1>4. ASSUME I # {} PROVE j \in I /\ \A k \in I : j <= k
  <2>1. I \in SUBSET Nat
    BY <1>0, <1>3
  <2>2. QED
    BY <1>4, <2>1, LeastIs
<1>5. ASSUME Closing(s, i) # 0 PROVE ClosesAt(s, i, Closing(s, i))
  <2>1. j # 0 /\ s[i + j] = "x" /\ Closing(s, i) = i + j /\ I # {}
    BY <1>2, <1>5
  <2>2. j \in 1 .. Len(s) - i
    BY <1>3, <1>4, <2>1
  <2>3. ASSUME NEW k \in i + 1 .. i + j - 1, s[k] \in {"x", "n"} PROVE FALSE
    <3>0. j \in Nat /\ i + j <= Len(s)
      BY <1>0, <2>2
    <3>. HIDE DEF j
    <3>1. k - i \in 1 .. Len(s) - i /\ i + (k - i) = k /\ k - i < j
      BY <1>0, <3>0
    <3>2. k - i \in I
      BY <1>1, <2>3, <3>1
    <3>3. j <= k - i
      BY <1>4, <2>1, <3>2
    <3>4. QED
      BY <1>0, <2>2, <3>1, <3>3
  <2>. HIDE DEF j
  <2>4. i + j \in i + 1 .. Len(s)
    BY <1>0, <2>2
  <2>5. \A k \in i + 1 .. i + j - 1 : s[k] \notin {"x", "n"}
    BY <2>3
  <2>. HIDE DEF I
  <2>6. ClosesAt(s, i, i + j)
    BY <1>0, <2>1, <2>2, <2>4, <2>5 DEF ClosesAt
  <2>7. QED
    BY <2>1, <2>6
<1>6. ASSUME NEW c, ClosesAt(s, i, c) PROVE Closing(s, i) = c
  <2>1. c \in i + 1 .. Len(s) /\ s[c] = "x" /\ \A k \in i + 1 .. c - 1 : s[k] \notin {"x", "n"}
    BY <1>6 DEF ClosesAt
  <2>2. c - i \in 1 .. Len(s) - i /\ i + (c - i) = c
    BY <1>0, <2>1
  <2>3. c - i \in I
    BY <1>1, <2>1, <2>2
  <2>4. j \in I /\ j <= c - i
    BY <1>4, <2>3
  <2>5. j \in 1 .. Len(s) - i /\ s[i + j] \in {"x", "n"}
    BY <1>1, <1>3, <2>4
  <2>. HIDE DEF j
  <2>6. i + j \in i + 1 .. c /\ ~ (i + j \in i + 1 .. c - 1)
    BY <1>0, <2>1, <2>4, <2>5
  <2>7. i + j = c
    BY <1>0, <2>1, <2>5, <2>6
  <2>. HIDE DEF I
  <2>8. j # 0 /\ s[i + j] = "x"
    BY <1>0, <2>1, <2>5, <2>7
  <2>9. QED
    BY <1>2, <2>7, <2>8
<1>7. QED
  BY <1>5, <1>6

\* Where a marker stops, as far as it is written.
StopOf(s, i) == IF Closing(s, i) # 0 THEN Closing(s, i) ELSE Len(s)

\* i is where a marker starts.
Starts(s, i) ==
  /\ i \in 1 .. Len(s) /\ s[i] = "o"
  /\ ~ \E j \in 1 .. Len(s) : s[j] = "o" /\ j < i /\ i < Closing(s, j)
  /\ StopOf(s, i) - i < MarkerMax
  /\ Closing(s, i) = 0 => \A j \in i .. Len(s) : s[j] # "n"

LEMMA MarkerIs ==
  ASSUME NEW s \in Text
  PROVE  MarkerSpans(s) = {[start |-> i, stop |-> StopOf(s, i), open |-> Closing(s, i) = 0] :
                             i \in {i \in 1 .. Len(s) : Starts(s, i)}}
<1>1. DOMAIN s = 1 .. Len(s)
  BY DEF Text
<1>2. {i \in {k \in DOMAIN s : s[k] = "o"} :
         /\ ~ \E j \in {k \in DOMAIN s : s[k] = "o"} : j < i /\ i < Closing(s, j)
         /\ StopOf(s, i) - i < MarkerMax
         /\ (Closing(s, i) = 0) => \A j \in i .. Len(s) : s[j] # "n"}
      = {i \in 1 .. Len(s) : Starts(s, i)}
  BY <1>1 DEF Starts
<1>3. QED
  BY <1>2, Zenon DEF MarkerSpans, StopOf

\* What a marker is: it starts with "[[", has no line end in it, and is closed by its
\* "]]", or goes on to the end of the text.
LEMMA MarkerShape ==
  ASSUME NEW s \in Text, NEW m \in MarkerSpans(s)
  PROVE  /\ m.start \in 1 .. Len(s) /\ s[m.start] = "o" /\ m.open \in BOOLEAN
         /\ m.stop \in m.start .. Len(s)
         /\ m.open => m.stop = Len(s)
         /\ ~ m.open => m.stop = Closing(s, m.start) /\ ClosesAt(s, m.start, m.stop)
         /\ \A j \in m.start .. m.stop : s[j] # "n"
         /\ Starts(s, m.start)
         /\ m.open <=> Closing(s, m.start) = 0
<1>0. Len(s) \in Nat
  BY DEF Text
<1>1. PICK i \in 1 .. Len(s) :
        Starts(s, i) /\ m = [start |-> i, stop |-> StopOf(s, i), open |-> Closing(s, i) = 0]
  BY MarkerIs
<1>2. m.start = i /\ m.stop = StopOf(s, i) /\ m.open = (Closing(s, i) = 0)
  BY <1>1
<1>3. m.open \in BOOLEAN /\ (m.open <=> Closing(s, i) = 0)
  BY <1>2
<1>4. s[i] = "o" /\ (Closing(s, i) = 0 => \A j \in i .. Len(s) : s[j] # "n")
  BY <1>1 DEF Starts
<1>5. CASE Closing(s, i) = 0
  <2>1. m.stop = Len(s)
    BY <1>2, <1>5 DEF StopOf
  <2>2. QED
    BY <1>0, <1>1, <1>2, <1>3, <1>4, <1>5, <2>1
<1>6. CASE Closing(s, i) # 0
  <2>1. m.stop = Closing(s, i) /\ ClosesAt(s, i, m.stop)
    BY <1>2, <1>6, ClosingIs DEF StopOf
  <2>2. m.stop \in i + 1 .. Len(s) /\ s[m.stop] = "x" /\ \A k \in i + 1 .. m.stop - 1 : s[k] # "n"
    BY <2>1 DEF ClosesAt
  <2>3. ASSUME NEW j \in i .. m.stop PROVE s[j] # "n"
    <3>1. j = i \/ j = m.stop \/ j \in i + 1 .. m.stop - 1
      BY <1>0, <2>2
    <3>2. QED
      BY <1>4, <2>2, <3>1
  <2>4. QED
    BY <1>0, <1>1, <1>2, <1>3, <1>4, <1>6, <2>1, <2>2, <2>3
<1>7. QED
  BY <1>5, <1>6

\* The marker that starts at i.
LEMMA MarkerAt ==
  ASSUME NEW s \in Text, NEW i, Starts(s, i)
  PROVE  \E m \in MarkerSpans(s) : m.start = i
<1>1. i \in {k \in 1 .. Len(s) : Starts(s, k)}
  BY DEF Starts
<1>2. [start |-> i, stop |-> StopOf(s, i), open |-> Closing(s, i) = 0] \in MarkerSpans(s)
  BY <1>1, MarkerIs
<1>3. QED
  BY <1>2

\* A text that goes on closes a marker where it closed it, or behind its old end.
LEMMA ClosesLater ==
  ASSUME NEW s \in Text, NEW t \in Text, NEW i \in 1 .. Len(s)
  PROVE  /\ Closing(s, i) # 0 => Closing(s \o t, i) = Closing(s, i)
         /\ Closing(s, i) = 0 /\ Closing(s \o t, i) # 0 =>
              Closing(s \o t, i) \in Len(s) + 1 .. Len(s) + Len(t)
<1>. DEFINE u == s \o t
<1>0. Len(s) \in Nat /\ Len(t) \in Nat
  BY DEF Text
<1>1. u \in Text /\ Len(u) = Len(s) + Len(t) /\ \A k \in 1 .. Len(s) : u[k] = s[k]
  BY Joined
<1>. HIDE DEF u
<1>2. i \in 1 .. Len(u)
  BY <1>0, <1>1
<1>3. ASSUME NEW c \in 1 .. Len(s) PROVE ClosesAt(s, i, c) <=> ClosesAt(u, i, c)
  <2>1. \A k \in i + 1 .. c - 1 : k \in 1 .. Len(s)
    BY <1>0
  <2>2. c \in i + 1 .. Len(s) <=> c \in i + 1 .. Len(u)
    BY <1>0, <1>1
  <2>3. QED
    BY <1>1, <2>1, <2>2 DEF ClosesAt
<1>4. ASSUME Closing(s, i) # 0 PROVE Closing(u, i) = Closing(s, i)
  <2>1. ClosesAt(s, i, Closing(s, i)) /\ Closing(s, i) \in 1 .. Len(s)
    BY <1>0, <1>4, ClosingIs DEF ClosesAt
  <2>2. QED
    BY <1>1, <1>2, <1>3, <2>1, ClosingIs
<1>5. ASSUME Closing(s, i) = 0, Closing(u, i) # 0
      PROVE  Closing(u, i) \in Len(s) + 1 .. Len(s) + Len(t)
  <2>1. ClosesAt(u, i, Closing(u, i)) /\ Closing(u, i) \in 1 .. Len(u)
    BY <1>0, <1>1, <1>2, <1>5, ClosingIs DEF ClosesAt
  <2>2. Closing(u, i) \notin 1 .. Len(s)
    <3>1. SUFFICES ASSUME Closing(u, i) \in 1 .. Len(s) PROVE FALSE
      OBVIOUS
    <3>2. ClosesAt(s, i, Closing(u, i))
      BY <1>3, <2>1, <3>1
    <3>3. Closing(s, i) = Closing(u, i)
      BY <3>2, ClosingIs
    <3>4. QED
      BY <1>5, <3>3
  <2>3. QED
    BY <1>0, <1>1, <2>1, <2>2
<1>6. QED
  BY <1>4, <1>5 DEF u

\* No marker begins in a text because of what follows it, and one that was closed stays.
LEMMA MarkersStay ==
  ASSUME NEW s \in Text, NEW t \in Text,
         NEW m \in MarkerSpans(s \o t), m.start <= Len(s)
  PROVE  \E k \in MarkerSpans(s) :
           /\ k.start = m.start
           /\ ~ k.open => ~ m.open /\ m.stop = k.stop
<1>. DEFINE u == s \o t i == m.start
<1>0. Len(s) \in Nat /\ Len(t) \in Nat /\ MarkerMax \in Nat
  BY ReplyStreamAssumption DEF Text
<1>1. u \in Text /\ Len(u) = Len(s) + Len(t) /\ \A k \in 1 .. Len(s) : u[k] = s[k]
  BY Joined
<1>2. m \in MarkerSpans(u)
  OBVIOUS
<1>3. /\ i \in 1 .. Len(u) /\ u[i] = "o" /\ Starts(u, i)
      /\ m.open => m.stop = Len(u)
      /\ ~ m.open => m.stop = Closing(u, i)
      /\ m.open <=> Closing(u, i) = 0
  BY <1>1, <1>2, MarkerShape
<1>. HIDE DEF u
<1>4. i \in 1 .. Len(s)
  BY <1>0, <1>1, <1>3
<1>5. \A j \in 1 .. Len(s) : Closing(s, j) # 0 => Closing(u, j) = Closing(s, j)
  BY ClosesLater DEF u
<1>6. Starts(s, i)
  <2>1. s[i] = "o"
    BY <1>1, <1>3, <1>4
  <2>2. ~ \E j \in 1 .. Len(s) : s[j] = "o" /\ j < i /\ i < Closing(s, j)
    <3>1. SUFFICES ASSUME NEW j \in 1 .. Len(s), s[j] = "o", j < i, i < Closing(s, j)
                   PROVE  FALSE
      OBVIOUS
    <3>2. Closing(s, j) # 0
      BY <1>4, <3>1
    <3>3. u[j] = "o" /\ j \in 1 .. Len(u) /\ i < Closing(u, j)
      BY <1>0, <1>1, <1>5, <3>1, <3>2
    <3>4. QED
      BY <1>3, <3>1, <3>3 DEF Starts
  <2>3. StopOf(s, i) <= StopOf(u, i) /\ StopOf(s, i) \in Nat /\ StopOf(u, i) \in Nat
    <3>1. CASE Closing(s, i) # 0
      <4>1. Closing(s, i) \in Nat
        BY <1>0, <1>4, <3>1, ClosingIs DEF ClosesAt
      <4>2. QED
        BY <1>4, <1>5, <3>1, <4>1 DEF StopOf
    <3>2. CASE Closing(s, i) = 0
      <4>1. Closing(u, i) # 0 => Closing(u, i) \in Len(s) + 1 .. Len(s) + Len(t)
        BY <1>4, <3>2, ClosesLater DEF u
      <4>2. QED
        BY <1>0, <1>1, <3>2, <4>1 DEF StopOf
    <3>3. QED
      BY <3>1, <3>2
  <2>4. StopOf(s, i) - i < MarkerMax
    BY <1>0, <1>3, <1>4, <2>3 DEF Starts
  <2>5. ASSUME Closing(s, i) = 0, NEW j \in i .. Len(s) PROVE s[j] # "n"
    <3>1. \A k \in m.start .. m.stop : u[k] # "n"
      BY <1>1, <1>2, MarkerShape DEF u
    <3>2. j <= m.stop
      <4>1. CASE m.open
        BY <1>0, <1>1, <1>3, <1>4, <4>1
      <4>2. CASE ~ m.open
        <5>1. m.stop \in Len(s) + 1 .. Len(s) + Len(t)
          BY <1>3, <1>4, <2>5, <4>2, ClosesLater DEF u
        <5>2. QED
          BY <1>0, <1>4, <5>1
      <4>3. QED
        BY <4>1, <4>2
    <3>3. m.stop \in Int /\ j \in 1 .. Len(s)
      BY <1>0, <1>1, <1>2, <1>4, MarkerShape DEF u
    <3>4. QED
      BY <1>1, <1>4, <3>1, <3>2, <3>3
  <2>6. QED
    BY <1>4, <2>1, <2>2, <2>4, <2>5 DEF Starts
<1>7. PICK k \in MarkerSpans(s) : k.start = i
  BY <1>6, MarkerAt
<1>8. ASSUME ~ k.open PROVE ~ m.open /\ m.stop = k.stop
  <2>1. Closing(s, i) # 0 /\ k.stop = Closing(s, i)
    BY <1>7, <1>8, MarkerShape
  <2>2. Closing(u, i) = Closing(s, i)
    BY <1>4, <1>5, <2>1
  <2>3. QED
    BY <1>3, <2>1, <2>2
<1>9. QED
  BY <1>7, <1>8

-----------------------------------------------------------------------------
(* Cuts.                                                                   *)

\* A cut outside the markers is in none.
LEMMA OutsideIsNotIn ==
  ASSUME NEW s \in Text, NEW d \in 0 .. Len(s), Outside(s, d)
  PROVE  ~ CutsMarker(s, d)
<1>1. SUFFICES ASSUME NEW m \in MarkerSpans(s), d \in m.start .. m.stop - 1, s[d + 1] # "o"
               PROVE  FALSE
  BY DEF CutsMarker
<1>2. m.start \in Nat /\ m.stop \in Nat /\ d \in Nat
  <2>1. Len(s) \in Nat
    BY DEF Text
  <2>2. QED
    BY <2>1, MarkerShape
<1>3. m.start <= d /\ ~ (m.stop <= d)
  BY <1>1, <1>2
<1>4. QED
  BY <1>1, <1>3 DEF Outside

\* So is one at the end of the text, and one at the start of a line.
LEMMA EndIsNotIn ==
  ASSUME NEW s \in Text
  PROVE  ~ CutsMarker(s, Len(s))
<1>1. SUFFICES ASSUME NEW m \in MarkerSpans(s), Len(s) \in m.start .. m.stop - 1
               PROVE  FALSE
  BY DEF CutsMarker
<1>2. Len(s) \in Nat /\ m.start \in 1 .. Len(s) /\ m.stop \in m.start .. Len(s)
  BY MarkerShape DEF Text
<1>3. QED
  BY <1>1, <1>2

LEMMA LineIsNotIn ==
  ASSUME NEW s \in Text, NEW at \in 1 .. Len(s), at = 1 \/ s[at - 1] = "n"
  PROVE  ~ CutsMarker(s, at - 1)
<1>1. SUFFICES ASSUME NEW m \in MarkerSpans(s), at - 1 \in m.start .. m.stop - 1
               PROVE  FALSE
  BY DEF CutsMarker
<1>2. /\ Len(s) \in Nat /\ m.start \in 1 .. Len(s) /\ m.stop \in m.start .. Len(s)
      /\ \A j \in m.start .. m.stop : s[j] # "n"
  BY MarkerShape DEF Text
<1>3. at # 1 /\ at - 1 \in m.start .. m.stop
  BY <1>1, <1>2
<1>4. QED
  BY <1>2, <1>3

\* What follows a text moves none of its cuts into a marker.
LEMMA OutsideStays ==
  ASSUME NEW s \in Text, NEW t \in Text, NEW d \in 1 .. Len(s), Outside(s, d)
  PROVE  Outside(s \o t, d)
<1>1. SUFFICES ASSUME NEW m \in MarkerSpans(s \o t), m.start <= d
               PROVE  (~ m.open /\ m.stop <= d)
                        \/ (d < Len(s \o t) /\ (s \o t)[d + 1] = "o")
  BY DEF Outside
<1>2. /\ s \o t \in Text /\ Len(s \o t) = Len(s) + Len(t)
      /\ \A k \in 1 .. Len(s) : (s \o t)[k] = s[k]
      /\ Len(s) \in Nat /\ Len(t) \in Nat
  BY Joined DEF Text
<1>3. m.start \in 1 .. Len(s)
  <2>1. m.start \in Nat \ {0}
    BY <1>2, MarkerShape
  <2>2. QED
    BY <1>1, <1>2, <2>1
<1>4. PICK k \in MarkerSpans(s) : k.start = m.start /\ (~ k.open => ~ m.open /\ m.stop = k.stop)
  BY <1>3, MarkersStay
<1>5. (~ k.open /\ k.stop <= d) \/ (d < Len(s) /\ s[d + 1] = "o")
  BY <1>1, <1>4 DEF Outside
<1>6. QED
  BY <1>2, <1>4, <1>5

\* Where a boundary is, nothing is written inside a marker.
InMarker(s, i) == \E m \in MarkerSpans(s) : i \in m.start .. m.stop

LEMMA BoundaryIs ==
  ASSUME NEW r \in Replies
  PROVE  Boundaries(r) = {i \in r.cutFloor + 1 .. Len(r.buffer) :
                            r.buffer[i] \in {"s", "n"} /\ ~ InMarker(r.buffer, i)}
BY DEF Boundaries, InMarker

LEMMA BoundaryIsOutside ==
  ASSUME NEW s \in Text, NEW i \in 1 .. Len(s), ~ InMarker(s, i)
  PROVE  Outside(s, i)
<1>1. SUFFICES ASSUME NEW m \in MarkerSpans(s), m.start <= i
               PROVE  ~ m.open /\ m.stop <= i
  BY DEF Outside
<1>2. /\ Len(s) \in Nat /\ m.start \in 1 .. Len(s) /\ m.stop \in m.start .. Len(s)
      /\ m.open \in BOOLEAN /\ (m.open => m.stop = Len(s))
  BY MarkerShape DEF Text
<1>3. ~ (i <= m.stop)
  BY <1>1, <1>2 DEF InMarker
<1>4. QED
  BY <1>2, <1>3

LEMMA BoundaryStays ==
  ASSUME NEW s \in Text, NEW t \in Text, NEW i \in 1 .. Len(s), ~ InMarker(s, i)
  PROVE  ~ InMarker(s \o t, i)
<1>1. SUFFICES ASSUME NEW m \in MarkerSpans(s \o t), i \in m.start .. m.stop
               PROVE  FALSE
  BY DEF InMarker
<1>2. Len(s) \in Nat /\ Len(t) \in Nat /\ s \o t \in Text
  BY Joined DEF Text
<1>3. m.start \in 1 .. Len(s) /\ m.stop \in Int
  <2>1. m.start \in Nat \ {0} /\ m.stop \in Int
    BY <1>2, MarkerShape
  <2>2. QED
    BY <1>1, <1>2, <2>1
<1>4. PICK k \in MarkerSpans(s) : k.start = m.start /\ (~ k.open => ~ m.open /\ m.stop = k.stop)
  BY <1>3, MarkersStay
<1>5. k.open \in BOOLEAN /\ (k.open => k.stop = Len(s))
  BY MarkerShape
<1>6. i \in k.start .. k.stop
  BY <1>1, <1>2, <1>3, <1>4, <1>5
<1>7. QED
  BY <1>6 DEF InMarker

\* The marks that close a sentence belong to it, all of them and nothing else.
LEMMA ClosedAtIs ==
  ASSUME NEW s \in Text, NEW cut \in 1 .. Len(s)
  PROVE  LET e == ClosedAt(s, cut) IN
         /\ e \in cut .. Len(s) /\ \A j \in cut + 1 .. e : s[j] = "c"
         /\ s[cut] \in {"s", "c"} => e = Len(s) \/ s[e + 1] # "c"
         /\ s[cut] \notin {"s", "c"} => e = cut
<1>0. Len(s) \in Nat /\ DOMAIN s = 1 .. Len(s)
  BY DEF Text
<1>1. CASE s[cut] \notin {"s", "c"}
  <2>1. ClosedAt(s, cut) = cut
    BY <1>1 DEF ClosedAt
  <2>2. cut \in cut .. Len(s) /\ \A j \in cut + 1 .. cut : FALSE
    BY <1>0
  <2>3. QED
    BY <1>1, <2>1, <2>2
<1>2. CASE s[cut] \in {"s", "c"}
  <2>. DEFINE S == {i \in cut .. Len(s) : \A j \in cut + 1 .. i : s[j] = "c"}
  <2>1. PICK e \in S : e = ClosedAt(s, cut) /\ \A i \in S : i <= e
    <3>1. cut \in S
      BY <1>0
    <3>2. S \in SUBSET (0 .. Len(s))
      BY <1>0
    <3>3. Max(S) \in S /\ \A i \in S : i <= Max(S)
      BY <1>0, <3>1, <3>2, GreatestIs
    <3>4. ClosedAt(s, cut) = Max(S)
      BY <1>0, <1>2 DEF ClosedAt
    <3>5. QED
      BY <3>3, <3>4
  <2>2. cut \in Nat /\ e \in Nat
    BY <1>0
  <2>3. e \in cut .. Len(s) /\ \A j \in cut + 1 .. e : s[j] = "c"
    OBVIOUS
  <2>4. ASSUME e # Len(s), s[e + 1] = "c" PROVE FALSE
    <3>0. e \in cut .. Len(s) /\ e # Len(s) /\ Len(s) \in Nat
      BY <1>0, <2>3, <2>4
    <3>1. e + 1 \in cut .. Len(s)
      BY <2>2, <3>0
    <3>2. \A j \in cut + 1 .. e + 1 : j = e + 1 \/ j \in cut + 1 .. e
      BY <1>0, <2>3
    <3>3. \A j \in cut + 1 .. e + 1 : s[j] = "c"
      BY <2>3, <2>4, <3>2
    <3>4. e + 1 \in S
      BY <3>1, <3>3
    <3>5. e + 1 <= e
      BY <2>1, <3>4
    <3>6. QED
      BY <2>2, <3>5
  <2>5. QED
    BY <1>2, <2>1, <2>3, <2>4
<1>3. QED
  BY <1>1, <1>2

\* A cut stays outside the markers when the marks behind it join it.
LEMMA OutsideWithMarks ==
  ASSUME NEW s \in Text, NEW d \in 1 .. Len(s), Outside(s, d), NEW e \in d .. Len(s),
         \A j \in d + 1 .. e : s[j] = "c"
  PROVE  Outside(s, e)
<1>0. Len(s) \in Nat
  BY DEF Text
<1>1. CASE e = d
  BY <1>1
<1>2. CASE e # d
  <2>1. SUFFICES ASSUME NEW m \in MarkerSpans(s), m.start <= e
                 PROVE  ~ m.open /\ m.stop <= e
    BY DEF Outside
  <2>2. m.start \in 1 .. Len(s) /\ s[m.start] = "o" /\ m.stop \in m.start .. Len(s)
    BY MarkerShape
  <2>3. m.start <= d
    <3>1. SUFFICES ASSUME m.start > d PROVE FALSE
      BY <1>0, <2>2
    <3>2. m.start \in d + 1 .. e
      BY <1>0, <2>1, <2>2, <3>1
    <3>3. QED
      BY <2>2, <3>2
  <2>4. d + 1 \in d + 1 .. e
    BY <1>0, <1>2
  <2>5. s[d + 1] # "o"
    BY <2>4
  <2>6. ~ m.open /\ m.stop <= d
    BY <2>3, <2>5 DEF Outside
  <2>7. QED
    BY <1>0, <2>2, <2>6
<1>3. QED
  BY <1>1, <1>2

\* The marker that is still being written.
LEMMA OpenMarkerIs ==
  ASSUME NEW s \in Text
  PROVE  OpenMarkerStart(s) # 0 =>
           OpenMarkerStart(s) \in 1 .. Len(s) /\ s[OpenMarkerStart(s)] = "o"
<1>. DEFINE S == {m.start : m \in {m \in MarkerSpans(s) : m.open}}
<1>0. Len(s) \in Nat
  BY DEF Text
<1>1. OpenMarkerStart(s) = IF S = {} THEN 0 ELSE Max(S)
  BY DEF OpenMarkerStart
<1>2. \A i \in S : i \in 1 .. Len(s) /\ s[i] = "o"
  BY MarkerShape
<1>3. ASSUME S # {} PROVE Max(S) \in S
  <2>1. S \in SUBSET (0 .. Len(s))
    BY <1>0, <1>2
  <2>2. QED
    BY <1>0, <1>3, <2>1, GreatestIs
<1>. HIDE DEF S
<1>4. QED
  BY <1>1, <1>2, <1>3

\* A file's marker starts with a "[[".
LEMMA NoAttach ==
  ASSUME NEW s, \A i \in DOMAIN s : s[i] # "o"
  PROVE  ~ HasAttach(s)
BY DEF HasAttach

-----------------------------------------------------------------------------
(* What leaves the buffer.                                                 *)

LEMMA LimitsAre ==
  /\ {SentenceMin, MaxChars, MarkerMax, TagMax, SummaryHeadings} \subseteq Nat \ {0}
  /\ SentenceMin <= MaxChars
BY ReplyStreamAssumption

\* What delivering a piece leaves alone, beside how many headings were sent.
Alone(r, q) ==
  /\ q \in Replies /\ (AllWhole(r.out) => AllWhole(q.out))
  /\ q.buffer = r.buffer /\ q.deferredCut = r.deferredCut /\ q.cutFloor = r.cutFloor
  /\ q.holding = r.holding /\ q.ended = r.ended /\ q.idleTimer = r.idleTimer
  /\ q.deferredTimer = r.deferredTimer /\ q.whole = r.whole

\* A piece was sent in which there is no heading.
Sent(r, q) == Alone(r, q) /\ q.shown = r.shown

LEMMA HeadingsCount ==
  ASSUME NEW s \in Text, NEW S \in SUBSET Headings(s)
  PROVE  /\ IsFiniteSet(Headings(s)) /\ Cardinality(Headings(s)) \in Nat
         /\ Cardinality(S) \in Nat /\ Cardinality(S) <= Cardinality(Headings(s))
<1>1. Headings(s) \subseteq 1 .. Len(s) /\ Len(s) \in Nat
  BY DEF Headings, Opening, Begun, Text
<1>2. IsFiniteSet(1 .. Len(s))
  BY <1>1, FS_Interval
<1>3. IsFiniteSet(Headings(s))
  BY <1>1, <1>2, FS_Subset
<1>4. QED
  BY <1>3, FS_Subset, FS_CardinalityType

LEMMA LesserOf ==
  ASSUME NEW a \in Nat, NEW b \in Nat
  PROVE  Min({a, b}) = IF a <= b THEN a ELSE b
<1>1. Min({a, b}) \in {a, b} /\ \A y \in {a, b} : Min({a, b}) <= y
  <2>1. {a, b} \in SUBSET Nat /\ {a, b} # {}
    OBVIOUS
  <2>2. QED
    BY <2>1, LeastIs
<1>2. QED
  BY <1>1

LEMMA OneMore ==
  ASSUME NEW ps \in Seq(Piece), NEW p \in Piece, IsWhole(p)
  PROVE  Append(ps, p) \in Seq(Piece) /\ (AllWhole(ps) => AllWhole(Append(ps, p)))
<1>1. /\ Append(ps, p) \in Seq(Piece) /\ Len(ps) \in Nat
      /\ DOMAIN ps = 1 .. Len(ps) /\ DOMAIN Append(ps, p) = 1 .. Len(ps) + 1
      /\ (\A i \in 1 .. Len(ps) : Append(ps, p)[i] = ps[i])
      /\ Append(ps, p)[Len(ps) + 1] = p
  OBVIOUS
<1>2. \A i \in 1 .. Len(ps) + 1 : i \in 1 .. Len(ps) \/ i = Len(ps) + 1
  BY <1>1
<1>3. QED
  BY <1>1, <1>2 DEF AllWhole

LEMMA WithFlags ==
  ASSUME NEW r \in Replies, NEW f \in BOOLEAN, NEW d \in BOOLEAN,
         NEW g \in {"line", "half", "middle"}
  PROVE  [r EXCEPT !.fenceOpen = f, !.endedInMarkup = FALSE, !.parted = d, !.ends = g]
           \in Replies
BY DEF Replies

\* A piece that is delivered is added to what left, and its headings to those shown.
LEMMA Delivers ==
  ASSUME NEW r \in Replies, NEW head \in Text, NEW text \in Text, NEW next \in Text,
         NEW why \in Whys, IsWhole([head |-> head, next |-> next, why |-> why])
  PROVE  LET q == Deliver(r, head, text, next, why)
             n == r.shown + Cardinality(SentHeadings(head, next))
         IN Alone(r, q) /\ q.shown = IF n <= SummaryHeadings THEN n ELSE SummaryHeadings
<1>. DEFINE p == [head |-> head, next |-> next, why |-> why]
            n == r.shown + Cardinality(SentHeadings(head, next))
            a == IF r.whole THEN r.answer \o text ELSE r.answer
            f == FenceOpenAfter(text, r.fenceOpen)
            d == (/\ why = "settled" /\ Last(text) = "s" /\ ~ Blanks(next)
                  /\ Head(TrimStart(next)) = "o")
            h == Min({n, SummaryHeadings})
            g == EndsAs(r.ends, head)
            o == Append(r.out, p)
<1>1. Deliver(r, head, text, next, why)
        = [r EXCEPT !.out = o, !.answer = a, !.fenceOpen = f, !.endedInMarkup = FALSE,
                    !.parted = d, !.ends = g, !.shown = h]
  BY DEF Deliver
<1>2. p \in Piece /\ r.out \in Seq(Piece)
  BY DEF Piece, Replies, Text
<1>3. o \in Seq(Piece) /\ (AllWhole(r.out) => AllWhole(o))
  <2>. HIDE DEF p
  <2>1. IsWhole(p)
    BY DEF p
  <2>2. QED
    BY <1>2, <2>1, OneMore
<1>4. a \in Seq(Tokens)
  BY Joined DEF Replies, Text
<1>5. f \in BOOLEAN /\ d \in BOOLEAN /\ g \in {"line", "half", "middle"}
  BY DEF FenceOpenAfter, EndsAs
<1>6. /\ n \in Nat /\ SummaryHeadings \in Nat
      /\ h = IF n <= SummaryHeadings THEN n ELSE SummaryHeadings
  <2>1. Cardinality(SentHeadings(head, next)) \in Nat
    BY Joined, HeadingsCount DEF SentHeadings
  <2>2. r.shown \in Nat /\ SummaryHeadings \in Nat
    BY LimitsAre DEF Replies
  <2>3. n \in Nat
    BY <2>1, <2>2
  <2>. HIDE DEF n
  <2>4. QED
    BY <2>2, <2>3, LesserOf
<1>7. h \in 0 .. SummaryHeadings
  <2>. HIDE DEF n, h
  <2>1. QED
    BY <1>6
<1>. HIDE DEF p, n, a, f, d, g, h, o
<1>. DEFINE q == Deliver(r, head, text, next, why)
<1>8. /\ q.buffer = r.buffer /\ q.deferredCut = r.deferredCut /\ q.cutFloor = r.cutFloor
      /\ q.holding = r.holding /\ q.ended = r.ended /\ q.idleTimer = r.idleTimer
      /\ q.deferredTimer = r.deferredTimer /\ q.whole = r.whole
      /\ q.out = o /\ q.shown = h
  BY <1>1 DEF Replies
<1>9. q \in Replies
  <2>. DEFINE x == [r EXCEPT !.out = o, !.answer = a, !.shown = h]
  <2>1. x \in Replies
    BY <1>3, <1>4, <1>7 DEF Replies
  <2>2. q = [x EXCEPT !.fenceOpen = f, !.endedInMarkup = FALSE, !.parted = d, !.ends = g]
    BY <1>1 DEF Replies
  <2>. HIDE DEF x, q
  <2>3. QED
    BY <1>5, <2>1, <2>2, WithFlags
<1>. HIDE DEF q
<1>10. Alone(r, q) /\ q.shown = h
  BY <1>3, <1>8, <1>9 DEF Alone
<1>11. QED
  BY <1>6, <1>10 DEF q, n

\* A piece without a heading is sent, and none is counted.
LEMMA DeliverSends ==
  ASSUME NEW r \in Replies, NEW head \in Text, NEW text \in Text, NEW next \in Text,
         NEW why \in Whys, IsWhole([head |-> head, next |-> next, why |-> why]),
         SentHeadings(head, next) = {}
  PROVE  Sent(r, Deliver(r, head, text, next, why))
<1>1. Cardinality(SentHeadings(head, next)) = 0
  BY FS_EmptySet
<1>2. r.shown \in 0 .. SummaryHeadings /\ SummaryHeadings \in Nat
  BY LimitsAre DEF Replies
<1>. DEFINE q == Deliver(r, head, text, next, why)
            c == Cardinality(SentHeadings(head, next))
<1>3. /\ Alone(r, q)
      /\ q.shown = IF r.shown + c <= SummaryHeadings THEN r.shown + c ELSE SummaryHeadings
  BY Delivers
<1>. HIDE DEF q, c
<1>4. q.shown = r.shown
  BY <1>1, <1>2, <1>3 DEF c
<1>5. QED
  BY <1>3, <1>4 DEF Sent, q

LEMMA EmitSends ==
  ASSUME NEW r \in Replies, NEW head \in Text, NEW next \in Text, NEW why \in Whys,
         IsWhole([head |-> head, next |-> next, why |-> why]),
         SentHeadings(head, next) = {}
  PROVE  Sent(r, Emit(r, head, next, why))
<1>1. CASE Blanks(head)
  <2>1. Emit(r, head, next, why) = r
    BY <1>1 DEF Emit
  <2>2. QED
    BY <2>1 DEF Sent, Alone
<1>2. CASE ~ Blanks(head)
  <2>1. Emit(r, head, next, why) = Deliver(r, head, TrimEnd(head), next, why)
    BY <1>2 DEF Emit
  <2>2. TrimEnd(head) \in Text
    BY Trimmed
  <2>3. QED
    BY <2>1, <2>2, DeliverSends
<1>3. QED
  BY <1>1, <1>2

LEMMA Withholds ==
  ASSUME NEW r \in Replies, NEW text \in Text, NEW why \in {"summary", "markup"}
  PROVE  Sent(r, Withhold(r, text, why))
<1>. DEFINE p == [head |-> text, next |-> <<>>, why |-> why] o == Append(r.out, p)
<1>1. p \in Piece /\ IsWhole(p) /\ r.out \in Seq(Piece)
  <2>1. p.why = why /\ why \in Whys /\ why \notin {"settled", "ceiling", "cap", "hold"}
    BY DEF Whys
  <2>2. IsWhole(p)
    BY <2>1 DEF IsWhole
  <2>3. p \in Piece /\ r.out \in Seq(Piece)
    BY <2>1, EmptySeq DEF Piece, Replies, Text
  <2>4. QED
    BY <2>2, <2>3
<1>2. Withhold(r, text, why) = [r EXCEPT !.out = o]
  BY DEF Withhold
<1>3. o \in Seq(Piece) /\ (AllWhole(r.out) => AllWhole(o))
  <2>. HIDE DEF p
  <2>1. QED
    BY <1>1, OneMore
<1>. HIDE DEF o
<1>4. QED
  BY <1>2, <1>3 DEF Sent, Alone, Replies

-----------------------------------------------------------------------------
(* The end of a hold, and its start.                                       *)

\* What the lines before a position show, the text shows.
LEMMA HeadingsOfLines ==
  ASSUME NEW s \in Text, NEW at \in 1 .. Len(s), at = 1 \/ s[at - 1] = "n"
  PROVE  Before(s, at) \in Text /\ Headings(Before(s, at)) \subseteq Headings(s)
<1>. DEFINE d == at - 1 p == SubSeq(s, 1, d)
<1>0. Len(s) \in Nat /\ d \in 0 .. Len(s) /\ Before(s, at) = p
  BY DEF Text, Before
<1>1. p \in Text /\ Len(p) = d /\ \A j \in 1 .. d : p[j] = s[j]
  BY <1>0, PrefixOf
<1>2. \A k : Opening(p, k) = Opening(s, k) \cap (1 .. d)
  BY <1>0, SameOpening
<1>. HIDE DEF p
<1>3. ASSUME NEW i \in Headings(p) PROVE i \in Headings(s)
  <2>1. i \in Opening(s, "h") \cup Begun(s, "p", {"q"}) /\ i \in 1 .. d /\ p[i] \in {"h", "p"}
    <3>1. CASE i \in Opening(p, "h")
      BY <1>2, <3>1 DEF Opening
    <3>2. CASE i \in Begun(p, "p", {"q"})
      <4>1. i \in Opening(p, "p") /\ i < Len(p) /\ p[i + 1] = "q"
        BY <3>2 DEF Begun
      <4>2. i \in 1 .. d /\ i \in Opening(s, "p") /\ p[i] = "p"
        BY <1>2, <4>1 DEF Opening
      <4>3. i + 1 \in 1 .. d /\ i < Len(s)
        BY <1>0, <1>1, <4>1, <4>2
      <4>4. QED
        BY <1>1, <4>1, <4>2, <4>3 DEF Begun
    <3>3. QED
      BY <3>1, <3>2 DEF Headings
  <2>2. PICK j \in i .. Len(p) : /\ j = Len(p) \/ p[j + 1] = "n"
                                 /\ \A k \in i + 1 .. j : OfHeading(p, i, k)
    BY DEF Headings
  <2>3. j \in i .. d
    BY <1>1
  <2>4. j # d
    <3>1. SUFFICES ASSUME j = d PROVE FALSE
      OBVIOUS
    <3>2. p[d] = "n"
      BY <1>0, <1>1, <2>1
    <3>3. CASE i = d
      BY <2>1, <3>2, <3>3
    <3>4. CASE i # d
      <4>1. d \in i + 1 .. j
        BY <1>0, <2>1, <3>1, <3>4
      <4>2. QED
        BY <2>2, <3>2, <4>1 DEF OfHeading
    <3>5. QED
      BY <3>3, <3>4
  <2>5. j \in i .. Len(s) /\ j + 1 \in 1 .. d /\ \A k \in i + 1 .. j : k \in 1 .. d
    BY <1>0, <2>1, <2>3, <2>4
  <2>6. s[j + 1] = "n" /\ \A k \in i + 1 .. j : OfHeading(s, i, k)
    <3>1. s[j + 1] = "n"
      BY <1>1, <2>2, <2>4, <2>5
    <3>2. ASSUME NEW k \in i + 1 .. j PROVE OfHeading(s, i, k)
      BY <1>1, <2>1, <2>2, <2>5 DEF OfHeading
    <3>3. QED
      BY <3>1, <3>2
  <2>7. QED
    BY <2>1, <2>5, <2>6 DEF Headings
<1>4. QED
  BY <1>0, <1>1, <1>3

\* A reply of which nothing was shown shows fewer headings than a summary has.
LEMMA DeliversFew ==
  ASSUME NEW r \in Replies, r.shown = 0, NEW head \in Text, NEW text \in Text,
         Cardinality(Headings(head)) < SummaryHeadings
  PROVE  LET q == Deliver(r, head, text, <<>>, "held")
         IN Alone(r, q) /\ q.shown < SummaryHeadings
<1>. DEFINE q == Deliver(r, head, text, <<>>, "held")
            c == Cardinality(SentHeadings(head, <<>>))
<1>1. <<>> \in Text /\ head \o <<>> = head /\ SummaryHeadings \in Nat
  BY EmptySeq, ConcatEmptySeq, LimitsAre DEF Text
<1>2. SentHeadings(head, <<>>) \in SUBSET Headings(head)
  BY <1>1 DEF SentHeadings
<1>3. c \in Nat /\ c < SummaryHeadings
  BY <1>1, <1>2, HeadingsCount
<1>4. IsWhole([head |-> head, next |-> <<>>, why |-> "held"])
  BY DEF IsWhole
<1>5. "held" \in Whys
  BY DEF Whys
<1>6. /\ Alone(r, q)
      /\ q.shown = IF r.shown + c <= SummaryHeadings THEN r.shown + c ELSE SummaryHeadings
  BY <1>1, <1>4, <1>5, Delivers
<1>. HIDE DEF q, c
<1>7. q.shown < SummaryHeadings
  BY <1>1, <1>3, <1>6
<1>8. QED
  BY <1>6, <1>7 DEF q

\* What is held is withheld, or has fewer headings than a summary.
LEMMA HeldIsJudged ==
  ASSUME NEW r \in Replies, r.shown = 0, NEW held \in Text
  PROVE  Alone(r, OnHeld(r, held)) /\ OnHeld(r, held).shown < SummaryHeadings
<1>. DEFINE at == MarkupStart(held, r.fenceOpen)
            n == Cardinality(Headings(held))
<1>0. SummaryHeadings \in Nat \ {0} /\ n \in Nat
  BY LimitsAre, HeadingsCount
<1>1. CASE n >= SummaryHeadings
  <2>1. OnHeld(r, held) = Withhold(r, held, "summary")
    BY <1>0, <1>1 DEF OnHeld
  <2>2. QED
    BY <1>0, <2>1, Withholds DEF Sent
<1>2. CASE n < SummaryHeadings /\ at # 0
  <2>. DEFINE b == Before(held, at) e == Emit(r, b, <<>>, "held")
              w == Withhold(e, SubSeq(held, at, Len(held)), "markup")
  <2>1. OnHeld(r, held) = [w EXCEPT !.endedInMarkup = TRUE]
    BY <1>0, <1>2 DEF OnHeld
  <2>2. at \in 1 .. Len(held) /\ (at = 1 \/ held[at - 1] = "n")
    <3>. DEFINE from == {i \in TagLines(held, r.fenceOpen) :
                           \A j \in i .. Len(held) : OfTag(held, j) \/ Blank(held[j])}
    <3>1. from \subseteq {i \in 1 .. Len(held) : i = 1 \/ held[i - 1] = "n"}
      BY DEF TagLines, Opening, Begun, Text
    <3>2. at = IF from = {} THEN 0 ELSE Min(from)
      BY DEF MarkupStart
    <3>3. from # {} => Min(from) \in from
      <4>1. from \in SUBSET Nat
        BY <3>1
      <4>2. QED
        BY <4>1, LeastIs
    <3>. HIDE DEF from
    <3>4. QED
      BY <1>2, <3>1, <3>2, <3>3
  <2>3. b \in Text /\ Headings(b) \in SUBSET Headings(held)
    BY <2>2, HeadingsOfLines
  <2>4. Cardinality(Headings(b)) < SummaryHeadings
    BY <1>0, <1>2, <2>3, HeadingsCount
  <2>5. Alone(r, e) /\ e.shown < SummaryHeadings
    <3>1. CASE Blanks(b)
      <4>1. e = r
        BY <3>1 DEF Emit
      <4>2. QED
        BY <1>0, <4>1 DEF Alone
    <3>2. CASE ~ Blanks(b)
      <4>1. e = Deliver(r, b, TrimEnd(b), <<>>, "held")
        BY <3>2 DEF Emit
      <4>2. QED
        BY <2>3, <2>4, <4>1, Trimmed, DeliversFew
    <3>3. QED
      BY <3>1, <3>2
  <2>. HIDE DEF e, b
  <2>6. SubSeq(held, at, Len(held)) \in Text
    BY <2>2, PieceOf DEF Text
  <2>7. Sent(e, w)
    BY <2>5, <2>6, Withholds DEF Alone
  <2>. HIDE DEF w
  <2>8. [w EXCEPT !.endedInMarkup = TRUE] \in Replies
    BY <2>7 DEF Sent, Alone, Replies
  <2>9. QED
    BY <2>1, <2>5, <2>7, <2>8 DEF Sent, Alone, Replies
<1>3. CASE n < SummaryHeadings /\ at = 0
  <2>1. OnHeld(r, held) = Deliver(r, held, held, <<>>, "held")
    BY <1>0, <1>3 DEF OnHeld
  <2>2. QED
    BY <1>3, <2>1, DeliversFew
<1>4. QED
  BY <1>0, <1>1, <1>2, <1>3

\* What lasts through a turn, and what a step may leave of it.
Goes(r, q) ==
  /\ q \in Replies /\ (AllWhole(r.out) => AllWhole(q.out))
  /\ q.ended = r.ended /\ q.whole = r.whole
  /\ q.deferredCut = r.deferredCut /\ q.deferredTimer = r.deferredTimer

\* The end of a hold.
LEMMA Releases ==
  ASSUME NEW r \in Replies, r.shown = 0
  PROVE  LET q == Release(r) IN
         /\ Goes(r, q) /\ q.shown < SummaryHeadings
         /\ q.idleTimer = r.idleTimer
         /\ IF r.holding THEN q.buffer = <<>> /\ ~ q.holding ELSE q = r
<1>. DEFINE held == TrimStart(TrimEnd(r.buffer))
            free == [r EXCEPT !.buffer = <<>>, !.cutFloor = 0, !.holding = FALSE]
<1>0. SummaryHeadings \in Nat \ {0}
  BY LimitsAre
<1>1. held \in Text
  BY Trimmed DEF Replies, Text
<1>2. free \in Replies /\ free.shown = 0
  <2>1. <<>> \in Seq(Tokens) /\ 0 \in Nat
    BY EmptySeq
  <2>2. QED
    BY <2>1 DEF Replies
<1>3. CASE ~ r.holding
  <2>1. Release(r) = r
    BY <1>3 DEF Release
  <2>2. QED
    BY <1>0, <1>3, <2>1 DEF Goes
<1>4. CASE r.holding /\ held = <<>>
  <2>1. Release(r) = free
    BY <1>4 DEF Release
  <2>2. QED
    BY <1>0, <1>2, <1>4, <2>1 DEF Goes, Replies
<1>5. CASE r.holding /\ held # <<>>
  <2>1. Release(r) = OnHeld(free, held)
    BY <1>5 DEF Release
  <2>2. Alone(free, OnHeld(free, held)) /\ OnHeld(free, held).shown < SummaryHeadings
    BY <1>1, <1>2, HeldIsJudged
  <2>3. /\ free.buffer = <<>> /\ ~ free.holding /\ free.idleTimer = r.idleTimer
        /\ free.ended = r.ended /\ free.whole = r.whole /\ free.out = r.out
        /\ free.deferredCut = r.deferredCut /\ free.deferredTimer = r.deferredTimer
    BY DEF Replies
  <2>. DEFINE q == OnHeld(free, held)
  <2>4. Alone(free, q) /\ q.shown < SummaryHeadings /\ Release(r) = q
    BY <2>1, <2>2
  <2>. HIDE DEF held, free, q
  <2>5. QED
    BY <1>5, <2>3, <2>4 DEF Goes, Alone
<1>6. QED
  BY <1>3, <1>4, <1>5

\* The start of a hold, found in a part of the buffer: what stands before it is sent.
LEMMA Holds ==
  ASSUME NEW r \in Replies, NEW d \in 0 .. Len(r.buffer),
         NEW at, at = HoldFrom(SubSeq(r.buffer, 1, d), r.fenceOpen), at # 0
  PROVE  LET q == StartHold(r, at) IN
         Goes(r, q) /\ q.shown = r.shown /\ q.holding /\ ~ q.idleTimer
<1>. DEFINE s == r.buffer p == SubSeq(s, 1, d)
            head == Before(s, at) next == SubSeq(s, at, Len(s))
            x == [r EXCEPT !.buffer = next, !.holding = TRUE, !.idleTimer = FALSE]
<1>0. s \in Text /\ Len(s) \in Nat
  BY DEF Replies, Text
<1>1. p \in Text /\ Len(p) = d /\ \A k \in 1 .. d : p[k] = s[k]
  BY <1>0, PrefixOf
<1>2. at \in 1 .. d /\ (at = 1 \/ p[at - 1] = "n") /\ \A i \in Headings(p) : at <= i
  BY <1>1, HeldFrom
<1>3. at \in 1 .. Len(s) /\ (at = 1 \/ s[at - 1] = "n")
  <2>1. at # 1 => at - 1 \in 1 .. d
    BY <1>0, <1>2
  <2>2. QED
    BY <1>0, <1>1, <1>2, <2>1
<1>4. at - 1 \in 0 .. Len(s) /\ at - 1 + 1 = at
  BY <1>0, <1>3
<1>5. /\ head \in Text /\ Len(head) = at - 1 /\ head \o next = s
      /\ next \in Text
  <2>1. head = SubSeq(s, 1, at - 1) /\ next = After(s, at - 1)
    BY <1>4 DEF Before, After
  <2>. DEFINE e == at - 1
  <2>2. e \in 0 .. Len(s)
    BY <1>4
  <2>3. SubSeq(s, 1, e) \in Text /\ Len(SubSeq(s, 1, e)) = e
    BY <1>0, <2>2, PrefixOf
  <2>4. SubSeq(s, 1, e) \o After(s, e) = s /\ After(s, e) \in Text
    BY <1>0, <2>2, TwoPieces
  <2>. HIDE DEF head, next
  <2>5. QED
    BY <2>1, <2>3, <2>4
<1>6. SentHeadings(head, next) = {}
  <2>1. SUFFICES ASSUME NEW i \in Headings(head) PROVE FALSE
    BY DEF SentHeadings
  <2>2. head = Before(p, at)
    BY <1>0, <1>2, SamePrefix
  <2>3. at \in 1 .. Len(p)
    BY <1>1, <1>2
  <2>4. i \in Headings(p)
    <3>. HIDE DEF p
    <3>1. QED
      BY <1>1, <1>2, <2>2, <2>3, HeadingsOfLines
  <2>5. i \in 1 .. at - 1
    BY <1>5 DEF Headings, Opening, Begun, Text
  <2>6. QED
    BY <1>2, <2>4, <2>5
<1>7. IsWhole([head |-> head, next |-> next, why |-> "hold"])
  <2>1. ~ CutsMarker(s, at - 1)
    BY <1>0, <1>3, LineIsNotIn
  <2>. HIDE DEF head, next
  <2>2. QED
    BY <1>5, <2>1 DEF IsWhole
<1>8. "hold" \in Whys
  BY DEF Whys
<1>. HIDE DEF head, next, s
<1>9. x \in Replies /\ Goes(r, x) /\ x.shown = r.shown /\ x.holding /\ ~ x.idleTimer
  BY <1>5 DEF Replies, Goes, Text
<1>10. StartHold(r, at) = Emit(x, head, next, "hold")
  BY DEF StartHold, head, next, s
<1>. HIDE DEF x
<1>11. Sent(x, Emit(x, head, next, "hold"))
  BY <1>5, <1>6, <1>7, <1>8, <1>9, EmitSends
<1>12. QED
  BY <1>9, <1>10, <1>11 DEF Sent, Alone, Goes

\* A cut: the head of the buffer leaves.
LEMMA HeadLeaves ==
  ASSUME NEW r \in Replies, NEW cut \in 1 .. Len(r.buffer), NEW why \in {"settled", "ceiling"},
         Outside(r.buffer, cut), HoldFrom(SubSeq(r.buffer, 1, cut), r.fenceOpen) = 0,
         cut < Len(r.buffer) /\ r.buffer[cut] = "s" => r.buffer[cut + 1] # "c"
  PROVE  LET q == EmitHead(r, cut, why) IN
         /\ Goes(r, q) /\ q.shown = r.shown
         /\ q.holding = r.holding /\ q.idleTimer = r.idleTimer
<1>. DEFINE s == r.buffer head == SubSeq(s, 1, cut) next == After(s, cut)
            x == [r EXCEPT !.buffer = TrimStart(next), !.cutFloor = 0]
<1>0. s \in Text /\ Len(s) \in Nat /\ cut \in 0 .. Len(s)
  BY DEF Replies, Text
<1>1. /\ head \in Text /\ Len(head) = cut /\ head \o next = s
      /\ \A k \in 1 .. cut : head[k] = s[k]
      /\ next \in Text /\ Len(next) = Len(s) - cut
      /\ \A k \in 1 .. Len(s) - cut : next[k] = s[cut + k]
  BY <1>0, PrefixOf, TwoPieces
<1>2. SentHeadings(head, next) = {}
  <2>1. Headings(head) = {}
    BY <1>1, HeldFrom
  <2>2. QED
    BY <2>1 DEF SentHeadings
<1>3. IsWhole([head |-> head, next |-> next, why |-> why])
  <2>1. ~ CutsMarker(s, cut)
    BY <1>0, OutsideIsNotIn
  <2>2. ASSUME Last(head) = "s", next # <<>> PROVE Head(next) # "c"
    <3>1. s[cut] = "s"
      BY <1>0, <1>1, <2>2 DEF Last
    <3>2. Len(next) # 0
      BY <1>1, <2>2, EmptySeq DEF Text
    <3>3. cut < Len(s) /\ Head(next) = s[cut + 1]
      <4>1. cut < Len(s)
        BY <1>0, <1>1, <3>2
      <4>2. Head(next) = next[1]
        BY <1>1, <2>2 DEF Text
      <4>3. QED
        BY <1>0, <1>1, <4>1, <4>2
    <3>4. QED
      BY <3>1, <3>3
  <2>. HIDE DEF head, next
  <2>3. QED
    BY <1>1, <2>1, <2>2 DEF IsWhole
<1>4. why \in Whys
  BY DEF Whys
<1>5. TrimStart(next) \in Text
  BY <1>1, Trimmed
<1>. HIDE DEF head, next, s
<1>6. x \in Replies /\ Goes(r, x) /\ x.shown = r.shown /\ x.holding = r.holding
      /\ x.idleTimer = r.idleTimer
  BY <1>5 DEF Replies, Goes, Text
<1>7. EmitHead(r, cut, why) = Emit(x, head, next, why)
  BY DEF EmitHead, head, next, s
<1>. HIDE DEF x
<1>8. Sent(x, Emit(x, head, next, why))
  BY <1>1, <1>2, <1>3, <1>4, <1>6, EmitSends
<1>9. QED
  BY <1>6, <1>7, <1>8 DEF Sent, Alone, Goes

-----------------------------------------------------------------------------
(* A cut that is held back.                                                *)

LEMMA PlainGood ==
  ASSUME NEW q \in Replies, AllWhole(q.out), q.deferredCut = 0, ~ q.deferredTimer,
         IdleOK(q), ShownOK(q)
  PROVE  Good(q)
BY DEF Good, CutOK

\* Deferrable is of the text, the fence and the floor alone.
LEMMA SameCut ==
  ASSUME NEW r, NEW q, q.buffer = r.buffer, q.fenceOpen = r.fenceOpen, q.cutFloor = r.cutFloor,
         NEW d, Deferrable(r, d)
  PROVE  Deferrable(q, d)
<1>1. Boundaries(q) = Boundaries(r)
  BY DEF Boundaries
<1>2. Glued(r, d) => Glued(q, d)
  BY <1>1 DEF Glued
<1>3. QED
  BY <1>2 DEF Deferrable

LEMMA DeferGood ==
  ASSUME NEW r \in Replies, AllWhole(r.out), IdleOK(r), ShownOK(r),
         ~ r.holding, ~ r.whole, ~ r.ended, NEW cut, Deferrable(r, cut)
  PROVE  Good(Defer(r, cut))
<1>. DEFINE q == Defer(r, cut)
<1>1. cut \in Nat \ {0}
  BY DEF Deferrable, Replies
<1>2. q = [r EXCEPT !.deferredCut = cut, !.deferredTimer = TRUE]
  BY DEF Defer
<1>. HIDE DEF q
<1>3. q \in Replies
  BY <1>1, <1>2 DEF Replies
<1>4. /\ q.buffer = r.buffer /\ q.fenceOpen = r.fenceOpen /\ q.cutFloor = r.cutFloor
      /\ q.out = r.out /\ q.idleTimer = r.idleTimer /\ q.shown = r.shown
      /\ q.ended = r.ended /\ q.whole = r.whole /\ q.holding = r.holding
      /\ q.deferredCut = cut /\ q.deferredTimer = TRUE
  BY <1>2 DEF Replies
<1>5. Deferrable(q, cut)
  BY <1>4, SameCut
<1>6. QED
  BY <1>1, <1>3, <1>4, <1>5 DEF Good, CutOK, IdleOK, ShownOK, q

\* A sentence that may be sent may be held back, with the marks that close it.
LEMMA BoundaryDefers ==
  ASSUME NEW r \in Replies, NEW b \in Boundaries(r),
         HoldFrom(SubSeq(r.buffer, 1, ClosedAt(r.buffer, b)), r.fenceOpen) = 0
  PROVE  Deferrable(r, ClosedAt(r.buffer, b))
<1>. DEFINE s == r.buffer e == ClosedAt(s, b)
<1>0. s \in Text /\ Len(s) \in Nat /\ r.cutFloor \in Nat
  BY DEF Replies, Text
<1>1. b \in 1 .. Len(s) /\ s[b] \in {"s", "n"} /\ ~ InMarker(s, b)
  <2>1. b \in r.cutFloor + 1 .. Len(s) /\ s[b] \in {"s", "n"} /\ ~ InMarker(s, b)
    BY BoundaryIs
  <2>2. QED
    BY <1>0, <2>1
<1>. HIDE DEF s
<1>2. /\ e \in b .. Len(s) /\ \A j \in b + 1 .. e : s[j] = "c"
      /\ s[b] \in {"s", "c"} => e = Len(s) \/ s[e + 1] # "c"
      /\ s[b] \notin {"s", "c"} => e = b
  BY <1>0, <1>1, ClosedAtIs
<1>3. Outside(s, e)
  <2>1. Outside(s, b)
    BY <1>0, <1>1, BoundaryIsOutside
  <2>. HIDE DEF e
  <2>2. QED
    BY <1>0, <1>1, <1>2, <2>1, OutsideWithMarks
<1>4. HoldFrom(SubSeq(s, 1, e), r.fenceOpen) = 0
  BY DEF s
<1>. HIDE DEF e
<1>5. e \in 1 .. Len(s)
  BY <1>0, <1>1, <1>2
<1>6. e < Len(s) /\ s[e] = "s" => s[e + 1] # "c"
  BY <1>0, <1>1, <1>2
<1>7. Glued(r, e)
  <2>1. b \in Boundaries(r) /\ b <= e /\ (b < e => s[b] = "s")
    BY <1>0, <1>1, <1>2
  <2>2. QED
    BY <1>2, <2>1 DEF Glued, s
<1>8. QED
  BY <1>3, <1>4, <1>5, <1>6, <1>7 DEF Deferrable, s, e

\* What is left of it while the text goes on: the marks of its sentence may still come.
Placed(r, d) ==
  LET s == r.buffer IN
  /\ d \in 1 .. Len(s)
  /\ Outside(s, d)
  /\ HoldFrom(SubSeq(s, 1, d), r.fenceOpen) = 0
  /\ (d < Len(s) /\ s[d + 1] = "o") \/ Glued(r, d)

LEMMA DeferrableStays ==
  ASSUME NEW r \in Replies, NEW t \in Text, NEW d, Deferrable(r, d), NEW p \in Replies,
         p = [r EXCEPT !.buffer = r.buffer \o t]
  PROVE  Placed(p, d) /\ (Blanks(t) => Deferrable(p, d))
<1>. DEFINE s == r.buffer u == s \o t
<1>0. /\ s \in Text /\ Len(s) \in Nat /\ Len(t) \in Nat
      /\ r.cutFloor \in Nat /\ p.cutFloor = r.cutFloor
      /\ p.buffer = u /\ p.fenceOpen = r.fenceOpen
  <2>1. s \in Text /\ Len(s) \in Nat /\ Len(t) \in Nat /\ r.cutFloor \in Nat
    BY DEF Replies, Text
  <2>. HIDE DEF u
  <2>2. p = [r EXCEPT !.buffer = u]
    BY DEF u
  <2>3. p.buffer = u /\ p.cutFloor = r.cutFloor /\ p.fenceOpen = r.fenceOpen
    BY <2>2 DEF Replies
  <2>4. QED
    BY <2>1, <2>3
<1>1. /\ d \in 1 .. Len(s) /\ Outside(s, d)
      /\ HoldFrom(SubSeq(s, 1, d), r.fenceOpen) = 0
      /\ d < Len(s) /\ s[d] = "s" => s[d + 1] # "c"
      /\ (d < Len(s) /\ s[d + 1] = "o") \/ Glued(r, d)
  BY DEF Deferrable
<1>2. /\ u \in Text /\ Len(u) = Len(s) + Len(t)
      /\ \A k \in 1 .. Len(s) : u[k] = s[k]
      /\ \A k \in 1 .. Len(t) : u[Len(s) + k] = t[k]
  BY <1>0, Joined
<1>3. Outside(u, d)
  <2>. HIDE DEF s
  <2>1. QED
    BY <1>0, <1>1, OutsideStays
<1>. HIDE DEF s, u
<1>4. SubSeq(u, 1, d) = SubSeq(s, 1, d)
  <2>1. d \in 0 .. Len(s) /\ d \in 0 .. Len(u)
    BY <1>0, <1>1, <1>2
  <2>2. /\ SubSeq(s, 1, d) \in Text /\ Len(SubSeq(s, 1, d)) = d
        /\ \A k \in 1 .. d : SubSeq(s, 1, d)[k] = s[k]
    BY <1>0, <2>1, PrefixOf
  <2>3. /\ SubSeq(u, 1, d) \in Text /\ Len(SubSeq(u, 1, d)) = d
        /\ \A k \in 1 .. d : SubSeq(u, 1, d)[k] = u[k]
    BY <1>2, <2>1, PrefixOf
  <2>4. \A k \in 1 .. d : u[k] = s[k]
    BY <1>0, <1>1, <1>2
  <2>. DEFINE a == SubSeq(u, 1, d) b == SubSeq(s, 1, d)
  <2>. HIDE DEF a, b
  <2>5. /\ a \in Seq(Tokens) /\ b \in Seq(Tokens) /\ Len(a) = Len(b)
        /\ \A k \in 1 .. Len(a) : a[k] = b[k]
    BY <2>2, <2>3, <2>4 DEF Text, a, b
  <2>6. a = b
    BY <2>5, SeqEqual
  <2>7. QED
    BY <2>6 DEF a, b
<1>5. Glued(r, d) => Glued(p, d)
  <2>1. SUFFICES ASSUME NEW i \in Boundaries(r), i <= d, \A j \in i + 1 .. d : s[j] = "c",
                        i < d => s[i] = "s"
                 PROVE  Glued(p, d)
    BY DEF Glued, s
  <2>2. i \in r.cutFloor + 1 .. Len(s) /\ s[i] \in {"s", "n"} /\ ~ InMarker(s, i)
    BY BoundaryIs DEF s
  <2>3. i \in 1 .. Len(s) /\ i \in r.cutFloor + 1 .. Len(u)
    BY <1>0, <1>2, <2>2
  <2>4. ~ InMarker(u, i)
    BY <1>0, <2>2, <2>3, BoundaryStays DEF u
  <2>5. i \in Boundaries(p)
    BY <1>0, <1>2, <2>2, <2>3, <2>4, BoundaryIs
  <2>6. \A j \in i + 1 .. d : u[j] = "c"
    <3>1. \A j \in i + 1 .. d : j \in 1 .. Len(s)
      BY <1>0, <1>1, <2>3
    <3>2. QED
      BY <1>2, <2>1, <3>1
  <2>7. i < d => u[i] = "s"
    BY <1>2, <2>1, <2>3
  <2>8. QED
    BY <1>0, <2>1, <2>5, <2>6, <2>7 DEF Glued
<1>6. ASSUME d < Len(s), s[d + 1] = "o" PROVE d < Len(u) /\ u[d + 1] = "o"
  <2>1. d \in 1 .. Len(s) /\ Len(s) \in Nat /\ Len(t) \in Nat /\ Len(u) = Len(s) + Len(t)
    BY <1>0, <1>1, <1>2
  <2>2. d + 1 \in 1 .. Len(s) /\ d < Len(u)
    BY <1>6, <2>1
  <2>3. QED
    BY <1>2, <1>6, <2>2
<1>7. d \in 1 .. Len(u) /\ HoldFrom(SubSeq(u, 1, d), p.fenceOpen) = 0
  <2>1. d \in 1 .. Len(s) /\ Len(s) \in Nat /\ Len(t) \in Nat /\ Len(u) = Len(s) + Len(t)
    BY <1>0, <1>1, <1>2
  <2>2. d \in 1 .. Len(u)
    BY <2>1
  <2>3. QED
    BY <1>0, <1>1, <1>4, <2>2
<1>8. Placed(p, d)
  BY <1>0, <1>1, <1>3, <1>5, <1>6, <1>7 DEF Placed
<1>9. ASSUME Blanks(t), d < Len(u), u[d] = "s" PROVE u[d + 1] # "c"
  <2>1. CASE d < Len(s)
    <3>1. d + 1 \in 1 .. Len(s) /\ d \in 1 .. Len(s)
      BY <1>0, <1>1, <2>1
    <3>2. QED
      BY <1>1, <1>2, <1>9, <2>1, <3>1
  <2>2. CASE ~ d < Len(s)
    <3>1. d = Len(s) /\ 1 \in 1 .. Len(t) /\ DOMAIN t = 1 .. Len(t)
      BY <1>0, <1>1, <1>2, <1>9, <2>2 DEF Text
    <3>2. u[d + 1] = t[1] /\ Blank(t[1])
      BY <1>2, <1>9, <3>1 DEF Blanks
    <3>3. QED
      BY <3>2 DEF Blank
  <2>3. QED
    BY <2>1, <2>2
<1>10. QED
  BY <1>0, <1>8, <1>9 DEF Placed, Deferrable

\* With the marks that came it is one that may be held back, or sent.
LEMMA MarksJoin ==
  ASSUME NEW r \in Replies, NEW d, Placed(r, d)
  PROVE  Deferrable(r, ClosedAt(r.buffer, d))
<1>. DEFINE s == r.buffer e == ClosedAt(s, d)
<1>0. s \in Text /\ Len(s) \in Nat
  BY DEF Replies, Text
<1>1. /\ d \in 1 .. Len(s) /\ Outside(s, d)
      /\ HoldFrom(SubSeq(s, 1, d), r.fenceOpen) = 0
      /\ (d < Len(s) /\ s[d + 1] = "o") \/ Glued(r, d)
  BY DEF Placed
<1>. HIDE DEF s
<1>2. /\ e \in d .. Len(s) /\ \A j \in d + 1 .. e : s[j] = "c"
      /\ s[d] \in {"s", "c"} => e = Len(s) \/ s[e + 1] # "c"
      /\ s[d] \notin {"s", "c"} => e = d
  BY <1>0, <1>1, ClosedAtIs
<1>. HIDE DEF e
<1>3. Outside(s, e)
  BY <1>0, <1>1, <1>2, OutsideWithMarks
<1>4. HoldFrom(SubSeq(s, 1, e), r.fenceOpen) = 0
  <2>1. d \in 0 .. Len(s) /\ \A k \in d + 1 .. e : s[k] \in {"c", "b", "n"}
    BY <1>1, <1>2
  <2>2. QED
    BY <1>0, <1>1, <1>2, <2>1, StillFree
<1>5. e \in 1 .. Len(s) /\ (e < Len(s) /\ s[e] = "s" => s[e + 1] # "c")
  BY <1>0, <1>1, <1>2
<1>6. CASE d < Len(s) /\ s[d + 1] = "o"
  <2>1. e = d
    <3>1. SUFFICES ASSUME e # d PROVE FALSE
      OBVIOUS
    <3>2. d + 1 \in d + 1 .. e
      BY <1>0, <1>1, <1>2, <3>1
    <3>3. QED
      BY <1>2, <1>6, <3>2
  <2>2. QED
    BY <1>3, <1>4, <1>5, <1>6, <2>1 DEF Deferrable, s, e
<1>7. CASE Glued(r, d)
  <2>1. PICK i \in Boundaries(r) : /\ i <= d /\ \A j \in i + 1 .. d : s[j] = "c"
                                   /\ i < d => s[i] = "s"
    BY <1>7 DEF Glued, s
  <2>2. i \in Nat /\ s[i] \in {"s", "n"}
    <3>1. i \in r.cutFloor + 1 .. Len(s) /\ r.cutFloor \in Nat /\ s[i] \in {"s", "n"}
      BY BoundaryIs DEF Replies, s
    <3>2. QED
      BY <1>0, <3>1
  <2>3. i <= e /\ \A j \in i + 1 .. e : s[j] = "c"
    <3>1. \A j \in i + 1 .. e : j \in i + 1 .. d \/ j \in d + 1 .. e
      BY <1>0, <1>1, <1>2, <2>1, <2>2
    <3>2. i <= e
      BY <1>0, <1>1, <1>2, <2>1, <2>2
    <3>3. QED
      BY <1>2, <2>1, <3>1, <3>2
  <2>4. i < e => s[i] = "s"
    <3>1. CASE i < d
      BY <2>1, <3>1
    <3>2. CASE i = d
      BY <1>2, <2>2, <3>2
    <3>3. QED
      BY <1>1, <2>1, <2>2, <3>1, <3>2
  <2>5. Glued(r, e)
    BY <2>1, <2>3, <2>4 DEF Glued, s
  <2>6. QED
    BY <1>3, <1>4, <1>5, <2>5 DEF Deferrable, s, e
<1>8. QED
  BY <1>1, <1>6, <1>7

-----------------------------------------------------------------------------
(* The text is cut.                                                        *)

\* A reply that may be cut: a cut it holds back has only blanks behind it.
Settled(r) ==
  Good(r) /\ (r.deferredCut # 0 => Blanks(After(r.buffer, r.deferredCut)))

\* What is held back is settled by the text that comes.
LEMMA Settles ==
  ASSUME NEW r \in Replies, AllWhole(r.out), IdleOK(r), ShownOK(r),
         ~ r.holding, ~ r.whole, ~ r.ended, Placed(r, r.deferredCut)
  PROVE  Settled(Settle(r)) /\ ~ Settle(r).ended
<1>. DEFINE e == ClosedAt(r.buffer, r.deferredCut)
            rest == After(r.buffer, e)
            free == NotDeferred(r)
<1>1. Deferrable(r, e)
  BY MarksJoin
<1>2. e \in Nat \ {0} /\ e \in 1 .. Len(r.buffer)
  BY <1>1 DEF Deferrable, Replies
<1>3. free = [r EXCEPT !.deferredCut = 0, !.deferredTimer = FALSE]
  BY DEF NotDeferred
<1>. HIDE DEF e, rest, free
<1>4. /\ free \in Replies /\ free.buffer = r.buffer /\ free.fenceOpen = r.fenceOpen
      /\ free.cutFloor = r.cutFloor /\ free.out = r.out /\ free.idleTimer = r.idleTimer
      /\ free.shown = r.shown /\ free.ended = r.ended /\ free.whole = r.whole
      /\ free.holding = r.holding /\ free.deferredCut = 0 /\ free.deferredTimer = FALSE
  BY <1>3 DEF Replies
<1>5. Deferrable(free, e) /\ IdleOK(free) /\ ShownOK(free)
  BY <1>1, <1>4, SameCut DEF IdleOK, ShownOK
<1>6. CASE Blanks(rest)
  <2>. DEFINE q == Defer(free, e)
  <2>1. Settle(r) = q
    BY <1>6 DEF Settle, e, rest, free
  <2>2. Good(q)
    BY <1>4, <1>5, DeferGood
  <2>3. q.deferredCut = e /\ q.buffer = r.buffer /\ q.ended = r.ended
    BY <1>4 DEF Defer, Replies
  <2>. HIDE DEF q
  <2>4. QED
    BY <1>6, <2>1, <2>2, <2>3 DEF Settled, rest
<1>7. CASE ~ Blanks(rest) /\ HasAttach(rest)
  <2>. DEFINE q == [free EXCEPT !.cutFloor = e]
  <2>1. Settle(r) = q
    BY <1>7 DEF Settle, e, rest, free
  <2>2. /\ q \in Replies /\ q.out = r.out /\ q.deferredCut = 0 /\ q.deferredTimer = FALSE
        /\ q.idleTimer = r.idleTimer /\ q.ended = r.ended /\ q.whole = r.whole
        /\ q.shown = r.shown
    BY <1>2, <1>4 DEF Replies
  <2>. HIDE DEF q
  <2>3. Good(q)
    BY <2>2, PlainGood DEF IdleOK, ShownOK
  <2>4. QED
    BY <2>1, <2>2, <2>3 DEF Settled
<1>8. CASE ~ Blanks(rest) /\ ~ HasAttach(rest)
  <2>. DEFINE q == EmitHead(free, e, "settled")
  <2>1. Settle(r) = q
    BY <1>8 DEF Settle, e, rest, free
  <2>2. /\ Outside(free.buffer, e) /\ e \in 1 .. Len(free.buffer)
        /\ HoldFrom(SubSeq(free.buffer, 1, e), free.fenceOpen) = 0
        /\ (e < Len(free.buffer) /\ free.buffer[e] = "s" => free.buffer[e + 1] # "c")
    BY <1>5 DEF Deferrable
  <2>3. Goes(free, q) /\ q.shown = free.shown /\ q.idleTimer = free.idleTimer
    BY <1>4, <2>2, HeadLeaves
  <2>. HIDE DEF q
  <2>4. Good(q)
    BY <1>4, <2>3, PlainGood DEF Goes, IdleOK, ShownOK
  <2>5. QED
    BY <1>4, <2>1, <2>3, <2>4 DEF Settled, Goes
<1>9. QED
  BY <1>6, <1>7, <1>8

\* While only blanks have come, the last boundary is behind the cut, or is that cut.
LEMMA CutIsLast ==
  ASSUME NEW r \in Replies, NEW d \in Nat \ {0}, Deferrable(r, d), Blanks(After(r.buffer, d))
  PROVE  /\ Boundaries(r) # {}
         /\ LET cut == ClosedAt(r.buffer, Max(Boundaries(r))) IN
            /\ HoldFrom(SubSeq(r.buffer, 1, cut), r.fenceOpen) = 0
            /\ ~ HasAttach(After(r.buffer, cut))
<1>. DEFINE s == r.buffer B == Boundaries(r)
<1>0. s \in Text /\ Len(s) \in Nat /\ r.cutFloor \in Nat
  BY DEF Replies, Text
<1>1. /\ d \in 1 .. Len(s) /\ HoldFrom(SubSeq(s, 1, d), r.fenceOpen) = 0
      /\ (d < Len(s) /\ s[d + 1] = "o") \/ Glued(r, d)
  BY DEF Deferrable
<1>2. \A k \in d + 1 .. Len(s) : s[k] \in {"b", "n"}
  <2>1. d \in 0 .. Len(s)
    BY <1>1
  <2>2. /\ After(s, d) \in Text /\ Len(After(s, d)) = Len(s) - d
        /\ \A k \in 1 .. Len(s) - d : After(s, d)[k] = s[d + k]
    BY <1>0, <2>1, TwoPieces
  <2>3. DOMAIN After(s, d) = 1 .. Len(s) - d
    BY <2>2 DEF Text
  <2>4. \A k \in 1 .. Len(s) - d : Blank(s[d + k])
    BY <2>2, <2>3 DEF Blanks
  <2>5. ASSUME NEW k \in d + 1 .. Len(s) PROVE s[k] \in {"b", "n"}
    <3>1. k - d \in 1 .. Len(s) - d /\ d + (k - d) = k
      BY <1>0
    <3>. HIDE DEF s
    <3>2. Blank(s[d + (k - d)])
      BY <2>4, <3>1
    <3>3. QED
      BY <3>1, <3>2 DEF Blank
  <2>6. QED
    BY <2>5
<1>3. Glued(r, d)
  <2>1. SUFFICES ASSUME d < Len(s), s[d + 1] = "o" PROVE FALSE
    BY <1>1
  <2>2. d + 1 \in d + 1 .. Len(s)
    BY <1>0, <1>1, <2>1
  <2>3. QED
    BY <1>2, <2>1, <2>2
<1>. HIDE DEF s
<1>4. PICK i \in B : /\ i <= d /\ \A j \in i + 1 .. d : s[j] = "c"
                     /\ i < d => s[i] = "s"
  BY <1>3 DEF Glued, s
<1>5. B \subseteq {k \in 1 .. Len(s) : s[k] \in {"s", "n"}}
  <2>1. \A k \in B : k \in r.cutFloor + 1 .. Len(s) /\ s[k] \in {"s", "n"}
    BY BoundaryIs DEF s
  <2>2. QED
    BY <1>0, <2>1
<1>6. PICK b \in B : b = Max(B) /\ i <= b
  <2>1. B \in SUBSET (0 .. Len(s)) /\ B # {}
    BY <1>0, <1>4, <1>5
  <2>2. Max(B) \in B /\ \A k \in B : k <= Max(B)
    BY <1>0, <2>1, GreatestIs
  <2>3. QED
    BY <1>4, <2>2
<1>. DEFINE cut == ClosedAt(s, b)
<1>7. b \in 1 .. Len(s) /\ s[b] \in {"s", "n"} /\ i \in 1 .. Len(s)
  BY <1>4, <1>5, <1>6
<1>8. /\ cut \in b .. Len(s)
      /\ s[b] \in {"s", "c"} => cut = Len(s) \/ s[cut + 1] # "c"
  BY <1>0, <1>7, ClosedAtIs
<1>. HIDE DEF cut, B
<1>9. d <= cut
  <2>1. SUFFICES ASSUME cut < d PROVE FALSE
    BY <1>0, <1>1, <1>7, <1>8
  <2>2. b = i
    <3>1. SUFFICES ASSUME i < b PROVE FALSE
      BY <1>6, <1>7
    <3>2. b \in i + 1 .. d
      BY <1>0, <1>1, <1>7, <1>8, <2>1, <3>1
    <3>3. QED
      BY <1>4, <1>7, <3>2
  <2>3. i < d /\ s[b] = "s"
    BY <1>0, <1>1, <1>4, <1>7, <1>8, <2>1, <2>2
  <2>4. cut + 1 \in i + 1 .. d /\ cut # Len(s)
    BY <1>0, <1>1, <1>7, <1>8, <2>1, <2>2
  <2>5. s[cut + 1] = "c"
    BY <1>4, <2>4
  <2>6. QED
    BY <1>8, <2>3, <2>4, <2>5
<1>10. cut \in d .. Len(s) /\ d \in 0 .. Len(s) /\ cut \in 0 .. Len(s)
  BY <1>0, <1>1, <1>7, <1>8, <1>9
<1>11. HoldFrom(SubSeq(s, 1, cut), r.fenceOpen) = 0
  <2>1. \A k \in d + 1 .. cut : k \in d + 1 .. Len(s)
    BY <1>0, <1>1, <1>10
  <2>2. \A k \in d + 1 .. cut : s[k] \in {"c", "b", "n"}
    BY <1>2, <2>1
  <2>3. QED
    BY <1>0, <1>1, <1>10, <2>2, StillFree
<1>12. ~ HasAttach(After(s, cut))
  <2>. DEFINE a == After(s, cut)
  <2>1. /\ a \in Text /\ Len(a) = Len(s) - cut
        /\ \A k \in 1 .. Len(s) - cut : a[k] = s[cut + k]
    BY <1>0, <1>10, TwoPieces
  <2>. HIDE DEF a
  <2>2. ASSUME NEW k \in DOMAIN a PROVE a[k] # "o"
    <3>1. k \in 1 .. Len(s) - cut
      BY <2>1 DEF Text
    <3>2. cut + k \in d + 1 .. Len(s)
      BY <1>0, <1>1, <1>10, <3>1
    <3>3. QED
      BY <1>2, <2>1, <3>1, <3>2
  <2>3. ~ HasAttach(a)
    BY <2>2, NoAttach
  <2>4. QED
    BY <2>3 DEF a
<1>13. QED
  BY <1>4, <1>6, <1>11, <1>12 DEF s, B, cut

\* At the last sentence end.
LEMMA CutsAtBoundary ==
  ASSUME NEW r, Settled(r), ~ r.holding, ~ r.whole, ~ r.ended, Boundaries(r) # {}
  PROVE  Good(AtBoundary(r))
<1>. DEFINE s == r.buffer b == Max(Boundaries(r)) cut == ClosedAt(s, b)
            at == HoldFrom(SubSeq(s, 1, cut), r.fenceOpen)
<1>0. /\ r \in Replies /\ AllWhole(r.out) /\ CutOK(r) /\ IdleOK(r) /\ ShownOK(r)
      /\ r.deferredCut # 0 => Blanks(After(s, r.deferredCut))
      /\ s \in Text /\ Len(s) \in Nat /\ r.cutFloor \in Nat /\ r.deferredCut \in Nat
  BY DEF Settled, Good, Replies, Text
<1>1. b \in Boundaries(r) /\ b \in 1 .. Len(s)
  <2>1. \A k \in Boundaries(r) : k \in r.cutFloor + 1 .. Len(s)
    BY <1>0, BoundaryIs
  <2>2. Boundaries(r) \in SUBSET (0 .. Len(s))
    BY <1>0, <2>1
  <2>3. b \in Boundaries(r)
    BY <1>0, <2>2, GreatestIs
  <2>. HIDE DEF b
  <2>4. QED
    BY <1>0, <2>1, <2>3
<1>. HIDE DEF b
<1>2. cut \in b .. Len(s)
  BY <1>0, <1>1, ClosedAtIs
<1>. HIDE DEF cut
<1>3. cut \in 0 .. Len(s) /\ cut \in Nat
  BY <1>0, <1>1, <1>2
<1>4. r.deferredCut # 0 => at = 0 /\ ~ HasAttach(After(s, cut))
  <2>1. SUFFICES ASSUME r.deferredCut # 0 PROVE at = 0 /\ ~ HasAttach(After(s, cut))
    OBVIOUS
  <2>2. Deferrable(r, r.deferredCut)
    BY <1>0, <2>1 DEF CutOK
  <2>3. QED
    BY <1>0, <2>1, <2>2, CutIsLast DEF b, cut
<1>5. AtBoundary(r) = CASE at # 0 -> StartHold(r, at)
                        [] at = 0 /\ HasAttach(After(s, cut)) -> [r EXCEPT !.cutFloor = cut]
                        [] OTHER -> Defer(r, cut)
  BY DEF AtBoundary, Hold, b, cut
<1>. HIDE DEF at, s
<1>6. CASE at # 0
  <2>. DEFINE q == StartHold(r, at)
  <2>1. AtBoundary(r) = q
    BY <1>5, <1>6
  <2>2. Goes(r, q) /\ q.shown = r.shown /\ ~ q.idleTimer
    BY <1>0, <1>3, <1>6, Holds DEF at, s
  <2>. HIDE DEF q
  <2>3. r.deferredCut = 0 /\ ~ r.deferredTimer
    BY <1>0, <1>4, <1>6 DEF CutOK
  <2>4. Good(q)
    BY <1>0, <2>2, <2>3, PlainGood DEF Goes, IdleOK, ShownOK
  <2>5. QED
    BY <2>1, <2>4
<1>7. CASE at = 0 /\ HasAttach(After(s, cut))
  <2>. DEFINE q == [r EXCEPT !.cutFloor = cut]
  <2>1. AtBoundary(r) = q
    BY <1>5, <1>7
  <2>2. r.deferredCut = 0 /\ ~ r.deferredTimer
    BY <1>0, <1>4, <1>7 DEF CutOK
  <2>3. /\ q \in Replies /\ q.out = r.out /\ q.deferredCut = 0 /\ ~ q.deferredTimer
        /\ q.idleTimer = r.idleTimer /\ q.ended = r.ended /\ q.whole = r.whole
        /\ q.shown = r.shown
    BY <1>0, <1>3, <2>2 DEF Replies
  <2>. HIDE DEF q
  <2>4. Good(q)
    BY <1>0, <2>3, PlainGood DEF IdleOK, ShownOK
  <2>5. QED
    BY <2>1, <2>4
<1>8. CASE at = 0 /\ ~ HasAttach(After(s, cut))
  <2>1. AtBoundary(r) = Defer(r, cut)
    BY <1>5, <1>8
  <2>2. Deferrable(r, cut)
    BY <1>0, <1>1, <1>8, BoundaryDefers DEF at, cut, s
  <2>3. QED
    BY <1>0, <2>1, <2>2, DeferGood
<1>9. QED
  BY <1>6, <1>7, <1>8

\* At the cap.
LEMMA CutsAtCap ==
  ASSUME NEW r, Good(r), ~ r.whole, ~ r.ended, r.deferredCut = 0
  PROVE  Good(AtCap(r))
<1>. DEFINE s == r.buffer at == HoldFrom(s, r.fenceOpen) open == OpenMarkerStart(s)
<1>0. /\ r \in Replies /\ AllWhole(r.out) /\ IdleOK(r) /\ ShownOK(r) /\ ~ r.deferredTimer
      /\ s \in Text /\ Len(s) \in Nat /\ Len(s) \in 0 .. Len(s)
  BY DEF Good, CutOK, Replies, Text
<1>1. SubSeq(s, 1, Len(s)) = s
  BY <1>0, SubSeqFull DEF Text
<1>2. open # 0 => open \in 1 .. Len(s) /\ s[open] = "o"
  BY <1>0, OpenMarkerIs
<1>. HIDE DEF open
<1>3. AtCap(r) =
        CASE at # 0 -> StartHold(r, at)
          [] at = 0 /\ open = 0 ->
               Deliver([r EXCEPT !.buffer = <<>>, !.cutFloor = 0], s, s, <<>>, "cap")
          [] at = 0 /\ open > 1 ->
               Emit([r EXCEPT !.buffer = SubSeq(s, open, Len(s)), !.cutFloor = 0],
                    Before(s, open), SubSeq(s, open, Len(s)), "cap")
          [] OTHER -> r
  BY DEF AtCap, Hold, open
<1>4. <<>> \in Text /\ s \o <<>> = s /\ "cap" \in Whys
  BY <1>0, EmptySeq, ConcatEmptySeq DEF Text, Whys
<1>5. CASE at # 0
  <2>. DEFINE q == StartHold(r, at)
  <2>1. AtCap(r) = q
    BY <1>3, <1>5
  <2>2. Goes(r, q) /\ q.shown = r.shown /\ ~ q.idleTimer
    BY <1>0, <1>1, <1>5, Holds
  <2>. HIDE DEF q
  <2>3. Good(q)
    BY <1>0, <2>2, PlainGood DEF Goes, IdleOK, ShownOK
  <2>4. QED
    BY <2>1, <2>3
<1>6. CASE at = 0 /\ open = 0
  <2>. DEFINE x == [r EXCEPT !.buffer = <<>>, !.cutFloor = 0]
              q == Deliver(x, s, s, <<>>, "cap")
  <2>1. AtCap(r) = q
    BY <1>3, <1>6
  <2>2. /\ x \in Replies /\ x.out = r.out /\ x.deferredCut = 0 /\ ~ x.deferredTimer
        /\ x.idleTimer = r.idleTimer /\ x.ended = r.ended /\ x.whole = r.whole
        /\ x.shown = r.shown
    BY <1>0, <1>4 DEF Replies, Text
  <2>3. IsWhole([head |-> s, next |-> <<>>, why |-> "cap"])
    <3>1. ~ CutsMarker(s, Len(s))
      BY <1>0, EndIsNotIn
    <3>. HIDE DEF s
    <3>2. QED
      BY <1>4, <3>1 DEF IsWhole
  <2>4. SentHeadings(s, <<>>) = {}
    BY <1>0, <1>4, <1>6, HeldFrom DEF SentHeadings
  <2>. HIDE DEF x
  <2>5. Sent(x, q)
    BY <1>0, <1>4, <2>2, <2>3, <2>4, DeliverSends
  <2>. HIDE DEF q
  <2>6. Good(q)
    BY <1>0, <2>2, <2>5, PlainGood DEF Sent, Alone, IdleOK, ShownOK
  <2>7. QED
    BY <2>1, <2>6
<1>7. CASE at = 0 /\ open > 1
  <2>. DEFINE head == Before(s, open) next == SubSeq(s, open, Len(s))
              x == [r EXCEPT !.buffer = next, !.cutFloor = 0]
              q == Emit(x, head, next, "cap")
              d == open - 1
  <2>1. AtCap(r) = q
    BY <1>0, <1>2, <1>3, <1>7
  <2>2. open \in 1 .. Len(s) /\ s[open] = "o" /\ d \in 0 .. Len(s) /\ d + 1 = open
    BY <1>0, <1>2, <1>7
  <2>3. head = SubSeq(s, 1, d) /\ next = After(s, d)
    BY <2>2 DEF Before, After
  <2>. HIDE DEF d, head, next, s
  <2>4. /\ head \in Text /\ Len(head) = d /\ head \o next = s /\ next \in Text
    BY <1>0, <2>2, <2>3, PrefixOf, TwoPieces
  <2>5. IsWhole([head |-> head, next |-> next, why |-> "cap"])
    <3>1. ~ CutsMarker(s, d)
      BY <2>2 DEF CutsMarker
    <3>2. QED
      BY <2>4, <3>1 DEF IsWhole
  <2>6. SentHeadings(head, next) = {}
    BY <1>0, <1>7, <2>4, HeldFrom DEF SentHeadings
  <2>7. /\ x \in Replies /\ x.out = r.out /\ x.deferredCut = 0 /\ ~ x.deferredTimer
        /\ x.idleTimer = r.idleTimer /\ x.ended = r.ended /\ x.whole = r.whole
        /\ x.shown = r.shown
    BY <1>0, <2>4 DEF Replies, Text
  <2>. HIDE DEF x
  <2>8. Sent(x, q)
    BY <1>4, <2>4, <2>5, <2>6, <2>7, EmitSends
  <2>. HIDE DEF q
  <2>9. Good(q)
    BY <1>0, <2>7, <2>8, PlainGood DEF Sent, Alone, IdleOK, ShownOK
  <2>10. QED
    BY <2>1, <2>9
<1>8. CASE at = 0 /\ open # 0 /\ ~ (open > 1)
  <2>1. AtCap(r) = r
    BY <1>3, <1>8
  <2>2. QED
    BY <2>1
<1>9. QED
  BY <1>5, <1>6, <1>7, <1>8

\* Whatever of it applies.
LEMMA Cuts ==
  ASSUME NEW r, Settled(r), ~ r.ended
  PROVE  Good(Cut(r))
<1>. DEFINE x == [r EXCEPT !.idleTimer = TRUE]
<1>0. r \in Replies /\ CutOK(r) /\ AllWhole(r.out) /\ ShownOK(r)
  BY DEF Settled, Good
<1>1. CASE r.holding \/ r.whole
  BY <1>1 DEF Cut, Settled
<1>2. CASE ~ (r.holding \/ r.whole)
  <2>1. /\ x \in Replies /\ x.buffer = r.buffer /\ x.fenceOpen = r.fenceOpen
        /\ x.cutFloor = r.cutFloor /\ x.out = r.out /\ x.shown = r.shown /\ x.ended = r.ended
        /\ x.whole = r.whole /\ x.holding = r.holding /\ x.deferredCut = r.deferredCut
        /\ x.deferredTimer = r.deferredTimer
    BY <1>0 DEF Replies
  <2>. HIDE DEF x
  <2>2. CutOK(x)
    BY <1>0, <2>1, SameCut DEF CutOK
  <2>3. Good(x)
    BY <1>0, <1>2, <2>1, <2>2 DEF Good, IdleOK, ShownOK
  <2>4. Settled(x) /\ Boundaries(x) = Boundaries(r)
    BY <2>1, <2>3 DEF Settled, Boundaries
  <2>5. CASE Len(r.buffer) >= SentenceMin /\ Boundaries(r) # {}
    <3>1. Cut(r) = AtBoundary(x)
      BY <1>2, <2>5 DEF Cut, x
    <3>2. QED
      BY <1>2, <2>1, <2>4, <2>5, <3>1, CutsAtBoundary
  <2>6. CASE /\ ~ (Len(r.buffer) >= SentenceMin /\ Boundaries(r) # {})
             /\ Len(r.buffer) >= MaxChars
    <3>1. Cut(r) = AtCap(x)
      BY <1>2, <2>6 DEF Cut, x
    <3>2. Boundaries(x) = {}
      <4>1. Len(r.buffer) \in Nat /\ SentenceMin \in Nat /\ MaxChars \in Nat
            /\ SentenceMin <= MaxChars
        BY <1>0, LimitsAre DEF Replies
      <4>2. Len(r.buffer) >= SentenceMin
        BY <2>6, <4>1
      <4>3. QED
        BY <2>4, <2>6, <4>2
    <3>3. x.deferredCut = 0
      <4>1. SUFFICES ASSUME x.deferredCut # 0 PROVE FALSE
        OBVIOUS
      <4>2. Deferrable(x, x.deferredCut) /\ Blanks(After(x.buffer, x.deferredCut))
        BY <2>2, <2>4, <4>1 DEF CutOK, Settled
      <4>3. x.deferredCut \in Nat \ {0}
        BY <2>1, <4>1 DEF Replies
      <4>4. QED
        BY <2>1, <3>2, <4>2, <4>3, CutIsLast
    <3>4. QED
      BY <1>2, <2>1, <2>3, <3>1, <3>3, CutsAtCap
  <2>7. CASE /\ ~ (Len(r.buffer) >= SentenceMin /\ Boundaries(r) # {})
             /\ ~ (Len(r.buffer) >= MaxChars)
    <3>1. Cut(r) = x
      BY <1>2, <2>7 DEF Cut, x
    <3>2. QED
      BY <2>3, <3>1
  <2>8. QED
    BY <2>5, <2>6, <2>7
<1>3. QED
  BY <1>1, <1>2

-----------------------------------------------------------------------------
(* The methods of the buffer.                                              *)

\* push()
LEMMA Pushes ==
  ASSUME NEW r, Good(r), ~ r.ended, NEW t \in Text
  PROVE  Good(Push(r, t))
<1>. DEFINE p == [r EXCEPT !.buffer = r.buffer \o t]
<1>0. /\ r \in Replies /\ r.buffer \in Text /\ r.buffer \o t \in Text
      /\ CutOK(r) /\ AllWhole(r.out) /\ ShownOK(r) /\ IdleOK(r)
  <2>1. r \in Replies /\ r.buffer \in Text
    BY DEF Good, Replies, Text
  <2>2. QED
    BY <2>1, Joined DEF Good
<1>1. /\ p \in Replies /\ p.fenceOpen = r.fenceOpen /\ p.cutFloor = r.cutFloor
      /\ p.out = r.out /\ p.shown = r.shown /\ p.ended = r.ended
      /\ p.whole = r.whole /\ p.holding = r.holding /\ p.deferredCut = r.deferredCut
      /\ p.deferredTimer = r.deferredTimer /\ p.idleTimer = r.idleTimer
      /\ p.buffer = r.buffer \o t
  BY <1>0 DEF Replies, Text
<1>2. IdleOK(p) /\ ShownOK(p) /\ AllWhole(p.out)
  BY <1>0, <1>1 DEF IdleOK, ShownOK
<1>3. CASE r.deferredCut = 0
  <2>1. Push(r, t) = Cut(p)
    BY <1>3 DEF Push
  <2>. HIDE DEF p
  <2>2. Settled(p)
    BY <1>0, <1>1, <1>2, <1>3, PlainGood DEF Settled, CutOK
  <2>3. QED
    BY <1>1, <2>1, <2>2, Cuts
<1>4. CASE r.deferredCut # 0
  <2>1. /\ ~ p.holding /\ ~ p.whole /\ ~ p.ended /\ p.deferredTimer
        /\ Deferrable(r, r.deferredCut)
    BY <1>0, <1>1, <1>4 DEF CutOK
  <2>2. Placed(p, r.deferredCut) /\ (Blanks(t) => Deferrable(p, r.deferredCut))
    BY <1>0, <1>1, <2>1, DeferrableStays
  <2>3. CASE Blanks(t)
    <3>1. Push(r, t) = p
      BY <1>4, <2>3 DEF Push
    <3>. HIDE DEF p
    <3>2. Good(p)
      BY <1>1, <1>2, <1>4, <2>1, <2>2, <2>3 DEF Good, CutOK
    <3>3. QED
      BY <3>1, <3>2
  <2>4. CASE ~ Blanks(t)
    <3>1. Push(r, t) = Cut(Settle(p))
      BY <1>4, <2>4 DEF Push
    <3>. HIDE DEF p
    <3>2. Settled(Settle(p)) /\ ~ Settle(p).ended
      BY <1>1, <1>2, <2>1, <2>2, Settles
    <3>3. QED
      BY <3>1, <3>2, Cuts
  <2>5. QED
    BY <2>3, <2>4
<1>5. QED
  BY <1>3, <1>4

\* The rest of a text that may be sent.
LEMMA RestSends ==
  ASSUME NEW r \in Replies, NEW s \in Text, NEW open, HoldFrom(s, open) = 0,
         NEW why \in {"flush", "end"}
  PROVE  Sent(r, Emit(r, s, <<>>, why))
<1>1. <<>> \in Text /\ s \o <<>> = s /\ why \in Whys
  BY EmptySeq, ConcatEmptySeq DEF Text, Whys
<1>2. SentHeadings(s, <<>>) = {}
  BY <1>1, HeldFrom DEF SentHeadings
<1>3. IsWhole([head |-> s, next |-> <<>>, why |-> why])
  BY DEF IsWhole
<1>4. QED
  BY <1>1, <1>2, <1>3, EmitSends

\* flush(), after which nothing is held back.
LEMMA Flushes ==
  ASSUME NEW r, Good(r)
  PROVE  LET q == Flush(r) IN
         /\ Good(q) /\ q.deferredCut = 0 /\ q.shown = r.shown
         /\ q.ended = r.ended /\ q.whole = r.whole
<1>. DEFINE s == r.buffer at == HoldFrom(s, r.fenceOpen)
            f == [r EXCEPT !.deferredCut = 0, !.deferredTimer = FALSE, !.idleTimer = FALSE,
                           !.cutFloor = 0]
            e == [f EXCEPT !.buffer = <<>>]
<1>0. /\ r \in Replies /\ s \in Text /\ CutOK(r) /\ AllWhole(r.out) /\ ShownOK(r)
      /\ Len(s) \in 0 .. Len(s) /\ <<>> \in Text
  BY EmptySeq DEF Good, Replies, Text
<1>1. Flush(r) = CASE r.holding \/ s = <<>> -> r
                   [] ~ r.holding /\ s # <<>> /\ at # 0 -> StartHold(f, at)
                   [] OTHER -> Emit(e, s, <<>>, "flush")
  <2>1. [NotDeferred(r) EXCEPT !.idleTimer = FALSE, !.cutFloor = 0] = f
    BY <1>0 DEF NotDeferred, Replies
  <2>2. QED
    BY <2>1, Zenon DEF Flush, Hold
<1>2. /\ f \in Replies /\ f.buffer = s /\ f.fenceOpen = r.fenceOpen /\ f.out = r.out
      /\ f.shown = r.shown /\ f.ended = r.ended /\ f.whole = r.whole
      /\ f.deferredCut = 0 /\ f.deferredTimer = FALSE /\ f.idleTimer = FALSE
  BY <1>0 DEF Replies
<1>3. /\ e \in Replies /\ e.out = r.out
      /\ e.shown = r.shown /\ e.ended = r.ended /\ e.whole = r.whole
      /\ e.deferredCut = 0 /\ e.deferredTimer = FALSE /\ e.idleTimer = FALSE
  <2>1. <<>> \in Seq(Tokens)
    BY <1>0 DEF Text
  <2>. HIDE DEF f
  <2>2. QED
    BY <1>2, <2>1 DEF Replies
<1>4. SubSeq(s, 1, Len(s)) = s
  BY <1>0, SubSeqFull DEF Text
<1>5. CASE r.holding \/ s = <<>>
  <2>1. r.deferredCut = 0
    <3>1. SUFFICES ASSUME r.deferredCut # 0 PROVE FALSE
      OBVIOUS
    <3>2. ~ r.holding /\ r.deferredCut \in 1 .. Len(s)
      BY <1>0, <3>1 DEF CutOK, Deferrable
    <3>3. QED
      BY <1>5, <3>2
  <2>2. Flush(r) = r
    BY <1>1, <1>5
  <2>3. QED
    BY <2>1, <2>2
<1>6. CASE ~ r.holding /\ s # <<>> /\ at # 0
  <2>. DEFINE q == StartHold(f, at)
  <2>1. Flush(r) = q
    BY <1>1, <1>6
  <2>. HIDE DEF f
  <2>2. Goes(f, q) /\ q.shown = f.shown /\ ~ q.idleTimer
    <3>1. /\ f \in Replies /\ Len(f.buffer) \in 0 .. Len(f.buffer)
          /\ at = HoldFrom(SubSeq(f.buffer, 1, Len(f.buffer)), f.fenceOpen)
      BY <1>0, <1>2, <1>4
    <3>. HIDE DEF at
    <3>2. QED
      BY <1>6, <3>1, Holds
  <2>. HIDE DEF q
  <2>3. Good(q)
    BY <1>0, <1>2, <2>2, PlainGood DEF Goes, IdleOK, ShownOK
  <2>4. QED
    BY <1>2, <2>1, <2>2, <2>3 DEF Goes
<1>7. CASE ~ r.holding /\ s # <<>> /\ at = 0
  <2>. DEFINE q == Emit(e, s, <<>>, "flush")
  <2>1. Flush(r) = q
    BY <1>1, <1>7
  <2>. HIDE DEF e
  <2>2. Sent(e, q)
    BY <1>0, <1>3, <1>7, RestSends
  <2>. HIDE DEF q
  <2>3. Good(q)
    BY <1>0, <1>3, <2>2, PlainGood DEF Sent, Alone, IdleOK, ShownOK
  <2>4. QED
    BY <1>3, <2>1, <2>2, <2>3 DEF Sent, Alone
<1>8. QED
  BY <1>5, <1>6, <1>7

\* flushIdle()
LEMMA FlushesIdle ==
  ASSUME NEW r, Good(r), ~ r.ended, ~ r.whole
  PROVE  Good(FlushIdle(r))
<1>. DEFINE s == r.buffer open == OpenMarkerStart(s)
            at == HoldFrom(Before(s, open), r.fenceOpen)
<1>0. /\ r \in Replies /\ s \in Text /\ Len(s) \in Nat
      /\ CutOK(r) /\ AllWhole(r.out) /\ ShownOK(r) /\ IdleOK(r)
  BY DEF Good, Replies, Text
<1>1. open # 0 => open \in 1 .. Len(s) /\ s[open] = "o"
  BY <1>0, OpenMarkerIs
<1>2. FlushIdle(r) =
        CASE r.holding \/ r.deferredCut # 0 \/ open = 1 -> r
          [] ~ (r.holding \/ r.deferredCut # 0) /\ open = 0 -> Flush(r)
          [] ~ (r.holding \/ r.deferredCut # 0) /\ open > 1 /\ at # 0 -> StartHold(r, at)
          [] OTHER -> Defer(r, open - 1)
  BY DEF FlushIdle, Hold
<1>. HIDE DEF open
<1>3. CASE r.holding \/ r.deferredCut # 0 \/ open = 1
  BY <1>2, <1>3
<1>4. CASE ~ (r.holding \/ r.deferredCut # 0) /\ open = 0
  <2>1. FlushIdle(r) = Flush(r)
    BY <1>2, <1>4
  <2>2. QED
    BY <2>1, Flushes
<1>5. CASE ~ (r.holding \/ r.deferredCut # 0) /\ open # 0 /\ open # 1
  <2>. DEFINE d == open - 1
  <2>1. open \in Nat /\ open > 1 /\ d \in 1 .. Len(s) /\ d + 1 = open /\ s[d + 1] = "o"
        /\ d < Len(s) /\ d \in 0 .. Len(s)
    BY <1>0, <1>1, <1>5
  <2>2. Before(s, open) = SubSeq(s, 1, d)
    BY DEF Before
  <2>3. CASE at # 0
    <3>. DEFINE q == StartHold(r, at)
    <3>1. FlushIdle(r) = q
      BY <1>2, <1>5, <2>1, <2>3
    <3>2. at = HoldFrom(SubSeq(s, 1, d), r.fenceOpen)
      BY <2>2
    <3>. HIDE DEF at, d
    <3>3. Goes(r, q) /\ q.shown = r.shown /\ ~ q.idleTimer
      BY <1>0, <2>1, <2>3, <3>2, Holds
    <3>. HIDE DEF q
    <3>4. Good(q)
      BY <1>0, <1>5, <3>3, PlainGood DEF Goes, IdleOK, ShownOK, CutOK
    <3>5. QED
      BY <3>1, <3>4
  <2>4. CASE at = 0
    <3>1. FlushIdle(r) = Defer(r, d)
      BY <1>2, <1>5, <2>1, <2>4
    <3>2. HoldFrom(SubSeq(s, 1, d), r.fenceOpen) = 0
      BY <2>2, <2>4
    <3>. HIDE DEF d
    <3>3. Outside(s, d)
      BY <2>1 DEF Outside
    <3>4. Deferrable(r, d)
      BY <2>1, <3>2, <3>3 DEF Deferrable
    <3>5. QED
      BY <1>0, <1>5, <3>1, <3>4, DeferGood
  <2>5. QED
    BY <2>3, <2>4
<1>6. QED
  BY <1>3, <1>4, <1>5

\* end()
LEMMA Ends ==
  ASSUME NEW r, Good(r), ~ r.ended
  PROVE  LET q == EndBuffer(r) IN
         /\ q \in Replies /\ AllWhole(q.out) /\ q.deferredCut = 0 /\ ~ q.deferredTimer
         /\ ~ q.idleTimer /\ q.shown < SummaryHeadings
<1>. DEFINE s == r.buffer at == HoldFrom(s, r.fenceOpen)
            f == [r EXCEPT !.deferredCut = 0, !.deferredTimer = FALSE, !.idleTimer = FALSE]
            e == [f EXCEPT !.buffer = <<>>, !.cutFloor = 0]
<1>0. /\ r \in Replies /\ s \in Text /\ AllWhole(r.out) /\ ShownOK(r) /\ r.shown = 0
      /\ Len(s) \in 0 .. Len(s) /\ <<>> \in Text
  BY EmptySeq DEF Good, Replies, Text, ShownOK
<1>1. EndBuffer(r) = CASE r.holding -> Release(f)
                       [] ~ r.holding /\ at # 0 -> Release(StartHold(f, at))
                       [] OTHER -> Emit(e, s, <<>>, "end")
  <2>1. [NotDeferred(r) EXCEPT !.idleTimer = FALSE] = f
    BY <1>0 DEF NotDeferred, Replies
  <2>2. QED
    BY <2>1, Zenon DEF EndBuffer, Hold
<1>2. /\ f \in Replies /\ f.buffer = s /\ f.fenceOpen = r.fenceOpen /\ f.out = r.out
      /\ f.shown = 0 /\ f.deferredCut = 0 /\ f.deferredTimer = FALSE /\ f.idleTimer = FALSE
  BY <1>0 DEF Replies
<1>3. /\ e \in Replies /\ e.out = r.out
      /\ e.shown = 0 /\ e.deferredCut = 0 /\ e.deferredTimer = FALSE /\ e.idleTimer = FALSE
  <2>1. <<>> \in Seq(Tokens)
    BY <1>0 DEF Text
  <2>. HIDE DEF f
  <2>2. QED
    BY <1>2, <2>1 DEF Replies
<1>4. SubSeq(s, 1, Len(s)) = s
  BY <1>0, SubSeqFull DEF Text
<1>. HIDE DEF f, e
<1>5. CASE r.holding
  <2>. DEFINE q == Release(f)
  <2>1. EndBuffer(r) = q
    BY <1>1, <1>5
  <2>2. Goes(f, q) /\ q.shown < SummaryHeadings /\ q.idleTimer = f.idleTimer
    BY <1>2, Releases
  <2>. HIDE DEF q
  <2>3. QED
    BY <1>0, <1>2, <2>1, <2>2 DEF Goes
<1>6. CASE ~ r.holding /\ at # 0
  <2>. DEFINE h == StartHold(f, at) q == Release(h)
  <2>1. EndBuffer(r) = q
    BY <1>1, <1>6
  <2>2. Goes(f, h) /\ h.shown = f.shown /\ ~ h.idleTimer
    BY <1>0, <1>2, <1>4, <1>6, Holds
  <2>. HIDE DEF h
  <2>3. h \in Replies /\ h.shown = 0
    BY <1>2, <2>2 DEF Goes
  <2>4. Goes(h, q) /\ q.shown < SummaryHeadings /\ q.idleTimer = h.idleTimer
    BY <2>3, Releases
  <2>. HIDE DEF q
  <2>5. QED
    BY <1>0, <1>2, <2>1, <2>2, <2>4 DEF Goes
<1>7. CASE ~ r.holding /\ at = 0
  <2>. DEFINE q == Emit(e, s, <<>>, "end")
  <2>1. EndBuffer(r) = q
    BY <1>1, <1>7
  <2>2. Sent(e, q)
    BY <1>0, <1>3, <1>7, RestSends
  <2>. HIDE DEF q
  <2>3. SummaryHeadings \in Nat \ {0}
    BY LimitsAre
  <2>4. QED
    BY <1>0, <1>3, <2>1, <2>2, <2>3 DEF Sent, Alone
<1>8. QED
  BY <1>5, <1>6, <1>7

-----------------------------------------------------------------------------
(* The steps.                                                              *)

LEMMA FreshReply ==
  ASSUME NEW whole \in BOOLEAN
  PROVE  Good(Reply(whole)) /\ Reply(whole).out = <<>>
<1>1. <<>> \in Seq(Tokens) /\ <<>> \in Seq(Piece) /\ AllWhole(<<>>)
  BY EmptySeq DEF AllWhole
<1>2. SummaryHeadings \in Nat \ {0}
  BY LimitsAre
<1>. DEFINE q == Reply(whole)
<1>3. /\ q \in Replies /\ q.out = <<>> /\ q.deferredCut = 0 /\ ~ q.deferredTimer
      /\ ~ q.idleTimer /\ q.shown = 0
  BY <1>1, <1>2 DEF Reply, Replies
<1>. HIDE DEF q
<1>4. Good(q)
  BY <1>1, <1>2, <1>3, PlainGood DEF IdleOK, ShownOK
<1>5. QED
  BY <1>3, <1>4 DEF q

\* A step that leaves a good reply preserves the invariant, and its pieces are whole.
LEMMA BecomesGood ==
  ASSUME NEW r, Good(r), Becomes(r)
  PROVE  Inv' /\ AllWhole(out')
<1>. DEFINE q == [r EXCEPT !.out = <<>>]
<1>1. stream' = q /\ out' = r.out
  BY DEF Becomes
<1>2. r \in Replies /\ AllWhole(r.out) /\ CutOK(r) /\ IdleOK(r) /\ ShownOK(r)
  BY DEF Good
<1>3. <<>> \in Seq(Piece) /\ AllWhole(<<>>)
  BY EmptySeq DEF AllWhole
<1>4. /\ q \in Replies /\ q.buffer = r.buffer /\ q.fenceOpen = r.fenceOpen
      /\ q.cutFloor = r.cutFloor /\ q.out = <<>> /\ q.shown = r.shown /\ q.ended = r.ended
      /\ q.whole = r.whole /\ q.holding = r.holding /\ q.deferredCut = r.deferredCut
      /\ q.deferredTimer = r.deferredTimer /\ q.idleTimer = r.idleTimer
  BY <1>2, <1>3 DEF Replies
<1>. HIDE DEF q
<1>5. CutOK(q)
  BY <1>2, <1>4, SameCut DEF CutOK
<1>6. Good(q)
  BY <1>2, <1>3, <1>4, <1>5 DEF Good, IdleOK, ShownOK
<1>7. QED
  BY <1>1, <1>2, <1>4, <1>6 DEF Inv

LEMMA ChunkKeeps ==
  ASSUME Inv, NEW text \in Chunks, NEW new \in BOOLEAN, Chunk(text, new)
  PROVE  Inv' /\ AllWhole(out')
<1>. DEFINE x == Release(Flush(stream))
            ending == [x EXCEPT !.fenceOpen = FALSE, !.shown = 0, !.ends = "line"]
            r == IF new THEN ending ELSE stream
<1>1. ~ stream.ended /\ Becomes(Push(r, text))
  BY DEF Chunk
<1>2. text \in Text
  BY ReplyStreamAssumption DEF Text
<1>3. Good(ending) /\ ~ ending.ended
  <2>. DEFINE f == Flush(stream)
  <2>1. /\ Good(f) /\ f.deferredCut = 0 /\ f.shown = stream.shown
        /\ f.ended = stream.ended /\ f.whole = stream.whole
    BY Flushes DEF Inv
  <2>. HIDE DEF f
  <2>2. f \in Replies /\ AllWhole(f.out) /\ f.shown = 0 /\ ~ f.deferredTimer /\ IdleOK(f)
    BY <1>1, <2>1 DEF Inv, Good, CutOK, ShownOK
  <2>3. Goes(f, x) /\ x.idleTimer = f.idleTimer
    BY <2>2, Releases DEF f
  <2>. HIDE DEF x
  <2>4. 0 \in 0 .. SummaryHeadings /\ SummaryHeadings \in Nat \ {0}
    BY LimitsAre
  <2>5. /\ ending \in Replies /\ ending.out = x.out /\ ending.deferredCut = 0
        /\ ~ ending.deferredTimer /\ ending.idleTimer = f.idleTimer /\ ending.shown = 0
        /\ ending.ended = f.ended /\ ending.whole = f.whole
    BY <2>1, <2>2, <2>3, <2>4 DEF Goes, Replies
  <2>6. AllWhole(ending.out)
    BY <2>2, <2>3, <2>5 DEF Goes
  <2>. HIDE DEF ending
  <2>7. Good(ending)
    BY <2>2, <2>4, <2>5, <2>6, PlainGood DEF IdleOK, ShownOK
  <2>8. QED
    BY <1>1, <2>1, <2>5, <2>7
<1>. HIDE DEF ending
<1>4. Good(r) /\ ~ r.ended
  BY <1>1, <1>3 DEF Inv
<1>. HIDE DEF r
<1>5. QED
  BY <1>1, <1>2, <1>4, Pushes, BecomesGood

\* The answer is not of the text that is cut.
LEMMA AnswerSent ==
  ASSUME NEW r, Good(r)
  PROVE  Good(SendAnswer(r))
<1>. DEFINE q == SendAnswer(r)
<1>1. r \in Replies /\ AllWhole(r.out) /\ CutOK(r) /\ IdleOK(r) /\ ShownOK(r)
  BY DEF Good
<1>2. /\ q \in Replies /\ q.buffer = r.buffer /\ q.fenceOpen = r.fenceOpen
      /\ q.cutFloor = r.cutFloor /\ q.out = r.out /\ q.shown = r.shown /\ q.ended = r.ended
      /\ q.whole = r.whole /\ q.holding = r.holding /\ q.deferredCut = r.deferredCut
      /\ q.deferredTimer = r.deferredTimer /\ q.idleTimer = r.idleTimer
  BY <1>1, EmptySeq DEF Replies, SendAnswer
<1>. HIDE DEF q
<1>3. CutOK(q)
  BY <1>1, <1>2, SameCut DEF CutOK
<1>4. Good(q)
  BY <1>1, <1>2, <1>3 DEF Good, IdleOK, ShownOK
<1>5. QED
  BY <1>4 DEF q

LEMMA ToolKeeps ==
  ASSUME Inv, Tool
  PROVE  Inv' /\ AllWhole(out')
<1>1. Good(Flush(stream))
  BY Flushes DEF Inv
<1>2. Good(IF stream.whole THEN SendAnswer(Flush(stream)) ELSE Flush(stream))
  BY <1>1, AnswerSent
<1>3. QED
  BY <1>2, BecomesGood DEF Tool

LEMMA IdleKeeps ==
  ASSUME Inv, Idle
  PROVE  Inv' /\ AllWhole(out')
<1>. DEFINE q == [stream EXCEPT !.idleTimer = FALSE]
<1>1. /\ stream \in Replies /\ AllWhole(stream.out) /\ CutOK(stream) /\ IdleOK(stream)
      /\ ShownOK(stream) /\ stream.idleTimer
  BY DEF Inv, Good, Idle
<1>2. /\ q \in Replies /\ q.buffer = stream.buffer /\ q.fenceOpen = stream.fenceOpen
      /\ q.cutFloor = stream.cutFloor /\ q.out = stream.out /\ q.shown = stream.shown
      /\ q.ended = stream.ended /\ q.whole = stream.whole /\ q.holding = stream.holding
      /\ q.deferredCut = stream.deferredCut /\ q.deferredTimer = stream.deferredTimer
      /\ q.idleTimer = FALSE
  BY <1>1 DEF Replies
<1>3. Becomes(FlushIdle(q))
  BY DEF Idle
<1>. HIDE DEF q
<1>4. CutOK(q)
  BY <1>1, <1>2, SameCut DEF CutOK
<1>5. Good(q) /\ ~ q.ended /\ ~ q.whole
  BY <1>1, <1>2, <1>4 DEF Good, IdleOK, ShownOK
<1>6. QED
  BY <1>3, <1>5, FlushesIdle, BecomesGood

LEMMA CeilingKeeps ==
  ASSUME Inv, Ceiling
  PROVE  Inv' /\ AllWhole(out')
<1>. DEFINE free == NotDeferred(stream) d == stream.deferredCut
            r == EmitHead(free, d, "ceiling")
            on == r.idleTimer \/ (r.buffer # <<>> /\ ~ r.holding /\ ~ r.whole)
            q == [r EXCEPT !.idleTimer = on]
<1>1. /\ stream \in Replies /\ AllWhole(stream.out) /\ CutOK(stream) /\ IdleOK(stream)
      /\ ShownOK(stream) /\ stream.deferredTimer
  BY DEF Inv, Good, Ceiling
<1>2. ~ stream.whole /\ ~ stream.ended /\ Deferrable(stream, d)
  BY <1>1 DEF CutOK
<1>3. Becomes(q)
  BY DEF Ceiling
<1>4. /\ free \in Replies /\ free.buffer = stream.buffer /\ free.fenceOpen = stream.fenceOpen
      /\ free.out = stream.out /\ free.shown = stream.shown
      /\ free.ended = stream.ended /\ free.whole = stream.whole
      /\ free.deferredCut = 0 /\ free.deferredTimer = FALSE
  BY <1>1 DEF Replies, NotDeferred
<1>. HIDE DEF free, d
<1>5. /\ Outside(free.buffer, d) /\ d \in 1 .. Len(free.buffer)
      /\ HoldFrom(SubSeq(free.buffer, 1, d), free.fenceOpen) = 0
      /\ (d < Len(free.buffer) /\ free.buffer[d] = "s" => free.buffer[d + 1] # "c")
  BY <1>2, <1>4 DEF Deferrable
<1>6. Goes(free, r) /\ r.shown = free.shown
  BY <1>4, <1>5, HeadLeaves
<1>. HIDE DEF r
<1>7. r \in Replies /\ on \in BOOLEAN
  BY <1>6 DEF Goes, Replies
<1>. HIDE DEF on
<1>8. /\ q \in Replies /\ q.out = r.out /\ q.deferredCut = 0 /\ ~ q.deferredTimer
      /\ q.shown = stream.shown /\ q.ended = stream.ended /\ q.whole = stream.whole
  BY <1>4, <1>6, <1>7 DEF Goes, Replies
<1>9. AllWhole(q.out)
  BY <1>1, <1>4, <1>6, <1>8 DEF Goes
<1>. HIDE DEF q
<1>10. Good(q)
  BY <1>1, <1>2, <1>8, <1>9, PlainGood DEF IdleOK, ShownOK
<1>11. QED
  BY <1>3, <1>10, BecomesGood

LEMMA EndKeeps ==
  ASSUME Inv, End
  PROVE  Inv' /\ AllWhole(out')
<1>. DEFINE e == EndBuffer(stream)
            q == [SendAnswer(e) EXCEPT !.ended = TRUE]
<1>1. Becomes(q) /\ ~ stream.ended
  BY DEF End
<1>2. /\ e \in Replies /\ AllWhole(e.out) /\ e.deferredCut = 0 /\ ~ e.deferredTimer
      /\ ~ e.idleTimer /\ e.shown < SummaryHeadings
  BY <1>1, Ends DEF Inv
<1>. HIDE DEF e
<1>3. /\ q \in Replies /\ q.out = e.out /\ q.deferredCut = 0 /\ ~ q.deferredTimer
      /\ ~ q.idleTimer /\ q.shown = e.shown /\ q.ended
  BY <1>2, EmptySeq DEF Replies, SendAnswer
<1>. HIDE DEF q
<1>4. Good(q)
  BY <1>2, <1>3, PlainGood DEF IdleOK, ShownOK
<1>5. QED
  BY <1>1, <1>4, BecomesGood

LEMMA DiscardKeeps ==
  ASSUME Inv, Discard
  PROVE  Inv' /\ AllWhole(out')
<1>. DEFINE e == Reply(stream.whole)
            q == [e EXCEPT !.ended = TRUE, !.fenceOpen = stream.fenceOpen,
                           !.endedInMarkup = stream.endedInMarkup, !.shown = stream.shown]
<1>1. Becomes(q)
  BY DEF Discard
<1>2. stream \in Replies /\ ShownOK(stream)
  BY DEF Inv, Good
<1>3. /\ e \in Replies /\ AllWhole(e.out) /\ e.deferredCut = 0 /\ ~ e.deferredTimer
      /\ ~ e.idleTimer
  <2>1. Good(e) /\ stream.whole \in BOOLEAN
    BY <1>2, FreshReply DEF Replies
  <2>2. e.deferredCut = 0 /\ ~ e.deferredTimer /\ ~ e.idleTimer
    BY DEF Reply
  <2>3. QED
    BY <2>1, <2>2 DEF Good
<1>. HIDE DEF e
<1>4. /\ q \in Replies /\ q.out = e.out /\ q.deferredCut = 0 /\ ~ q.deferredTimer
      /\ ~ q.idleTimer /\ q.shown = stream.shown /\ q.ended
  BY <1>2, <1>3 DEF Replies
<1>. HIDE DEF q
<1>5. Good(q)
  BY <1>2, <1>3, <1>4, PlainGood DEF IdleOK, ShownOK
<1>6. QED
  BY <1>1, <1>5, BecomesGood

LEMMA OpenReplyKeeps ==
  ASSUME Inv, OpenReply
  PROVE  Inv' /\ AllWhole(out')
<1>1. PICK whole \in BOOLEAN : Becomes(Reply(whole))
  BY DEF OpenReply
<1>2. QED
  BY <1>1, FreshReply, BecomesGood

LEMMA StepKeeps ==
  ASSUME Inv, Next
  PROVE  Inv' /\ AllWhole(out')
<1>1. CASE \E text \in Chunks, new \in BOOLEAN : Chunk(text, new)
  BY <1>1, ChunkKeeps
<1>2. CASE Tool
  BY <1>2, ToolKeeps
<1>3. CASE Idle
  BY <1>3, IdleKeeps
<1>4. CASE Ceiling
  BY <1>4, CeilingKeeps
<1>5. CASE End
  BY <1>5, EndKeeps
<1>6. CASE Discard
  BY <1>6, DiscardKeeps
<1>7. CASE OpenReply
  BY <1>7, OpenReplyKeeps
<1>8. QED
  BY <1>1, <1>2, <1>3, <1>4, <1>5, <1>6, <1>7 DEF Next

LEMMA InitGood == Init => Inv
BY FreshReply DEF Init, Inv

LEMMA IdleStepGood == Inv /\ UNCHANGED vars => Inv'
BY DEF Inv, vars

-----------------------------------------------------------------------------
(* The results.                                                            *)

\* A cut that is held back lies outside the markers and at a sentence's end, and no
\* heading is out before its message ends, in every state.
THEOREM Invariant == Spec => []Inv
<1>1. Inv /\ [Next]_vars => Inv'
  BY StepKeeps, IdleStepGood
<1>2. QED
  BY InitGood, <1>1, PTL DEF Spec

\* The state has its types and ranges, whatever is written and whenever the timers fire.
THEOREM TypeCorrect == Spec => []TypeOK
<1>1. Inv => TypeOK
  BY DEF Inv, Good, Replies, TypeOK
<1>2. QED
  BY <1>1, Invariant, PTL

\* However the chunks come, a cut held back is one of the text in the buffer and inside no
\* marker, and its timer runs.
THEOREM CutsAreReal == Spec => []CutIsReal
<1>1. ASSUME Inv PROVE CutIsReal
  <2>1. stream.buffer \in Text /\ CutOK(stream)
    BY <1>1 DEF Inv, Good, Replies, Text
  <2>2. ASSUME stream.deferredCut # 0
        PROVE  /\ stream.deferredCut <= Len(stream.buffer)
               /\ ~ stream.holding /\ ~ stream.whole /\ ~ stream.ended
               /\ ~ CutsMarker(stream.buffer, stream.deferredCut)
    <3>1. /\ stream.deferredCut \in 1 .. Len(stream.buffer)
          /\ Outside(stream.buffer, stream.deferredCut)
          /\ ~ stream.holding /\ ~ stream.whole /\ ~ stream.ended
      BY <2>1, <2>2 DEF CutOK, Deferrable
    <3>2. Len(stream.buffer) \in Nat
      BY <2>1 DEF Text
    <3>3. QED
      BY <2>1, <3>1, <3>2, OutsideIsNotIn
  <2>3. QED
    BY <2>1, <2>2 DEF CutOK, CutIsReal
<1>2. QED
  BY <1>1, Invariant, PTL

\* However a summary is cut into chunks, and whatever flushes between them, fewer
\* headings leave in one piece than make it one.  A heading that a flush cuts in two
\* is not among them (HeadingsHold says what happens to it).
THEOREM NoSummaryIsSent == Spec => []SummaryNotSent
<1>1. Inv => SummaryNotSent
  BY DEF Inv, Good, ShownOK, SummaryNotSent
<1>2. QED
  BY <1>1, Invariant, PTL

\* No piece is cut inside a marker, and none leaves the mark that closes its sentence to
\* the next, in every step.
THEOREM PiecesAreCutWhole == Spec => PiecesAreWhole
<1>. DEFINE W ==
       \A i \in DOMAIN out' :
         LET p == out'[i] IN
         p.why \in {"settled", "ceiling", "cap", "hold"} =>
           /\ ~ CutsMarker(p.head \o p.next, Len(p.head))
           /\ p.why \in {"settled", "ceiling"} /\ Last(p.head) = "s" /\ p.next # <<>>
                => Head(p.next) # "c"
<1>1. AllWhole(out') => W
  BY DEF AllWhole, IsWhole
<1>2. Inv /\ [Next]_vars => [W]_vars
  BY <1>1, StepKeeps
<1>3. QED
  BY <1>2, Invariant, PTL DEF Spec, PiecesAreWhole
=============================================================================
