------------------------ MODULE WorkspaceChatProofs ------------------------
(***************************************************************************)
(* What holds of the writes into a space for any number of messages,       *)
(* answers, steps, attempts and faults: a turn ends its own placeholder    *)
(* only, and the space a person wrote from stays remembered until Google   *)
(* says something of a space.                                              *)
(***************************************************************************)
EXTENDS WorkspaceChat, TLAPS

Placeholder ==
  [phase : {"new", "fetching", "telling", "ready", "running", "over", "failed"},
   line : {"none", "writing", "answered", "step", "closed"},
   posted : {"no", "asked", "named", "unnamed"},
   edits : Seq({"ellipsis", "step"}), editing : BOOLEAN,
   shows : {"none", "writing", "ellipsis", "step"},
   missed : BOOLEAN, busy : BOOLEAN, chunks : Nat, steps : Nat, tried : BOOLEAN]

QueueOfSpace == [queue : Seq(Writes), stage : {"waits", "sends"}, held : BOOLEAN]

Has(q, w) == \E i \in DOMAIN q : q[i] = w
Once(q, w) == \A i, j \in DOMAIN q : q[i] = w /\ q[j] = w => i = j

\* The ellipsis is shown, on its way or owed only by a turn that was answered
\* or is over; an edit that is under way is there to be made.
Told(r) ==
  /\ r.line = "answered" => r.tried
  /\ r.line = "closed" => r.phase \in Over
  /\ Has(r.edits, "ellipsis") => r.tried \/ r.phase \in Over
  /\ r.shows = "ellipsis" => r.tried \/ r.phase \in Over
  /\ r.editing => r.edits # <<>>
  /\ r.phase = "new" => r.posted = "no"

AllTold == \A t \in Turns : Told(turn[t])

\* The turn still waits for the end of its write.
Awaited(w) ==
  \/ w[2] = "post" /\ turn[w[1]].posted = "asked"
  \/ w[2] = "edit" /\ turn[w[1]].editing
  \/ w[2] = "oversize" /\ turn[w[1]].phase = "telling"
  \/ w[2] = "chunk" /\ turn[w[1]].phase = "running" /\ turn[w[1]].busy

\* A write of a turn is in one place, and only while it is waited for.
Waits(w) == Has(space[Here].queue, w)
Alone(w) == Once(space[Here].queue, w)

Sole(w) ==
  /\ w \in out => w \notin renewing /\ ~ Waits(w)
  /\ w \in renewing => ~ Waits(w)
  /\ Alone(w)
  /\ w \in out \cup renewing \/ Waits(w) => Awaited(w)

Soles == \A w \in TurnWrites : Sole(w)

\* A space has its own writes only, and one to send when it sends.
Queues ==
  \A s \in Spaces :
    /\ \A w \in Writes : Has(space[s].queue, w) => SpaceOf(w) = s
    /\ space[s].stage = "sends" => space[s].queue # <<>>

Inv == TypeOK /\ AllTold /\ Soles /\ Queues /\ RemembersTheirSpace

-----------------------------------------------------------------------------
(* Writes and queues.                                                      *)

\* The write of a turn names the turn and what it is, and goes to Here.
LEMMA TurnWrite ==
  ASSUME NEW w \in TurnWrites
  PROVE  /\ w \in Writes /\ w[1] \in Turns /\ w[1] # NoTurn /\ SpaceOf(w) = Here
         /\ w[2] \in {"post", "oversize", "edit", "chunk"} /\ w = <<w[1], w[2]>>
BY WorkspaceChatAssumption DEF TurnWrites, Writes, SpaceOf, Turns, NoTurn

\* Any other write is a notice, and goes to the space it names.
LEMMA NoticeWrite ==
  ASSUME NEW w \in Writes, w \notin TurnWrites
  PROVE  w[1] = NoTurn /\ w[2] \in Spaces /\ SpaceOf(w) = w[2] /\ w = <<NoTurn, w[2]>>
BY DEF Writes, SpaceOf

\* A write goes to a space.
LEMMA ToASpace ==
  ASSUME NEW w \in Writes PROVE SpaceOf(w) \in Spaces
BY TurnWrite, NoticeWrite DEF Spaces

\* A sequence with one element more.
LEMMA AppendHas ==
  ASSUME NEW S, NEW q \in Seq(S), NEW w \in S, NEW v
  PROVE  /\ Append(q, w) \in Seq(S) /\ Append(q, w) # <<>>
         /\ Has(Append(q, w), v) <=> Has(q, v) \/ v = w
         /\ v # w => (Once(Append(q, w), v) <=> Once(q, v))
         /\ ~ Has(q, v) => Once(Append(q, w), v)
<1> DEFINE a == Append(q, w)
<1>1. /\ a \in Seq(S) /\ Len(a) = Len(q) + 1 /\ Len(q) \in Nat
      /\ DOMAIN q = 1 .. Len(q) /\ DOMAIN a = 1 .. Len(q) + 1
      /\ a[Len(q) + 1] = w /\ \A i \in 1 .. Len(q) : a[i] = q[i]
  OBVIOUS
<1> HIDE DEF a
<1>2. \A i \in DOMAIN a : i = Len(q) + 1 \/ i \in DOMAIN q
  BY <1>1
<1>3. Has(a, v) <=> Has(q, v) \/ v = w
  BY <1>1, <1>2 DEF Has
<1>4. v # w => (Once(a, v) <=> Once(q, v))
  BY <1>1, <1>2 DEF Once
<1>5. ~ Has(q, v) => Once(a, v)
  BY <1>1, <1>2 DEF Once, Has
<1> QED BY <1>1, <1>3, <1>4, <1>5 DEF a

\* It is one of the same elements, and not empty.
LEMMA AppendIn ==
  ASSUME NEW S, NEW q \in Seq(S), NEW w \in S
  PROVE  Append(q, w) \in Seq(S) /\ Append(q, w) # <<>>
BY AppendHas

\* An element more is what it has besides.
LEMMA AppendHasAlso ==
  ASSUME NEW S, NEW q \in Seq(S), NEW w \in S, NEW v
  PROVE  Has(Append(q, w), v) <=> Has(q, v) \/ v = w
BY AppendHas

\* What else it has once it still has once.
LEMMA AppendOnce ==
  ASSUME NEW S, NEW q \in Seq(S), NEW w \in S, NEW v, v # w
  PROVE  Once(Append(q, w), v) <=> Once(q, v)
BY AppendHas

\* A sequence without its head.
LEMMA TailHas ==
  ASSUME NEW S, NEW q \in Seq(S), q # <<>>, NEW v
  PROVE  /\ Tail(q) \in Seq(S) /\ Head(q) \in S /\ Has(q, Head(q))
         /\ Has(Tail(q), v) => Has(q, v)
         /\ v # Head(q) => (Has(q, v) => Has(Tail(q), v)) 
         /\ Once(q, v) => Once(Tail(q), v)
         /\ v = Head(q) /\ Once(q, v) => ~ Has(Tail(q), v)
<1> DEFINE b == Tail(q)
<1>1. /\ b \in Seq(S) /\ Head(q) \in S /\ Head(q) = q[1] /\ Len(q) \in Nat /\ Len(q) >= 1
      /\ DOMAIN q = 1 .. Len(q) /\ DOMAIN b = 1 .. Len(q) - 1
      /\ \A i \in 1 .. Len(q) - 1 : b[i] = q[i + 1]
  OBVIOUS
<1> HIDE DEF b
<1>2. \A i \in DOMAIN b : i + 1 \in DOMAIN q /\ i + 1 # 1 /\ b[i] = q[i + 1]
  BY <1>1
<1>3. \A i \in DOMAIN q : i = 1 \/ (i - 1 \in DOMAIN b /\ b[i - 1] = q[i])
  BY <1>1
<1>4. 1 \in DOMAIN q
  BY <1>1
<1>5. Has(b, v) => Has(q, v)
  BY <1>2 DEF Has
<1>6. v # Head(q) => (Has(q, v) => Has(b, v))
  BY <1>3, <1>1 DEF Has
<1>7. Once(q, v) => Once(b, v)
  <2> SUFFICES ASSUME Once(q, v), NEW i \in DOMAIN b, NEW j \in DOMAIN b, b[i] = v, b[j] = v
               PROVE  i = j
    BY DEF Once
  <2>1. i + 1 = j + 1
    BY <1>2 DEF Once
  <2> QED BY <2>1, <1>1
<1>8. v = Head(q) /\ Once(q, v) => ~ Has(b, v)
  BY <1>2, <1>4, <1>1 DEF Once, Has
<1>9. Has(q, Head(q))
  BY <1>1, <1>4 DEF Has
<1> QED BY <1>1, <1>5, <1>6, <1>7, <1>8, <1>9 DEF b

\* A queue that took an element, lost its head, or put it behind the others.
Follows(z, q, w) ==
  \/ z = Append(q, w)
  \/ q # <<>> /\ w = Head(q) /\ z = Tail(q)
  \/ q # <<>> /\ w = Head(q) /\ z = Append(Tail(q), w)

\* Such a queue holds what it held, but for that element.
LEMMA QueueThen ==
  ASSUME NEW S, NEW q \in Seq(S), NEW w \in S, NEW z, NEW v, Follows(z, q, w)
  PROVE  /\ Has(z, v) => Has(q, v) \/ v = w
         /\ v # w => (Has(z, v) <=> Has(q, v)) /\ (Once(q, v) => Once(z, v))
<1>1. CASE z = Append(q, w)
  <2>1. Has(z, v) <=> Has(q, v) \/ v = w
    BY <1>1, AppendHasAlso
  <2>2. v # w => (Once(z, v) <=> Once(q, v))
    BY <1>1, AppendOnce
  <2> QED BY <2>1, <2>2
<1>2. ASSUME q # <<>>, w = Head(q)
      PROVE  /\ Tail(q) \in Seq(S) /\ Has(q, w)
             /\ Has(Tail(q), v) => Has(q, v)
             /\ v # w => (Has(q, v) => Has(Tail(q), v))
             /\ Once(q, v) => Once(Tail(q), v)
  BY <1>2, TailHas
<1>3. CASE q # <<>> /\ w = Head(q) /\ z = Tail(q)
  BY <1>2, <1>3
<1>4. CASE q # <<>> /\ w = Head(q) /\ z = Append(Tail(q), w)
  <2>1. PICK b \in Seq(S) : b = Tail(q)
    BY <1>2, <1>4
  <2>2. Has(Append(b, w), v) <=> Has(b, v) \/ v = w
    BY <2>1, AppendHasAlso
  <2>3. v # w => (Once(Append(b, w), v) <=> Once(b, v))
    BY <2>1, AppendOnce
  <2> QED BY <1>2, <1>4, <2>1, <2>2, <2>3
<1> QED BY <1>1, <1>3, <1>4 DEF Follows

\* So does its head.
LEMMA HeadThen ==
  ASSUME NEW S, NEW q \in Seq(S), q # <<>>, NEW w, w = Head(q), Once(q, w)
  PROVE  /\ Has(q, w) /\ ~ Has(Tail(q), w)
         /\ Once(Tail(q), w) /\ Once(Append(Tail(q), w), w)
<1>1. /\ Has(q, w) /\ ~ Has(Tail(q), w) /\ Tail(q) \in Seq(S) /\ w \in S
      /\ Once(Tail(q), w)
  BY TailHas
<1>2. PICK b \in Seq(S) : b = Tail(q)
  BY <1>1
<1>3. Once(Append(b, w), w)
  BY <1>1, <1>2, AppendHas
<1> QED BY <1>1, <1>2, <1>3

-----------------------------------------------------------------------------
(* One turn's record changes.                                              *)

\* The new record of a turn is a placeholder that keeps its word.
LEMMA Turned ==
  ASSUME turn \in [Turns -> Placeholder], AllTold, NEW t \in Turns,
         NEW r \in Placeholder, Told(r), turn' \in [Turns -> Placeholder], turn'[t] = r,
         \A m \in Turns : m # t => turn'[m] = turn[m]
  PROVE  AllTold'
BY DEF AllTold, Told

\* The same, of a step that gives the turn its new record.
LEMMA TurnedTo ==
  ASSUME turn \in [Turns -> Placeholder], AllTold, NEW t \in Turns,
         NEW r \in Placeholder, Told(r), turn' = [turn EXCEPT ![t] = r]
  PROVE  turn' \in [Turns -> Placeholder] /\ AllTold' /\ turn'[t] = r
         /\ \A m \in Turns : m # t => turn'[m] = turn[m]
BY Turned

\* Nothing of the types is lost in what follows.
LEMMA Types ==
  ASSUME TypeOK
  PROVE  turn \in [Turns -> Placeholder] /\ space \in [Spaces -> QueueOfSpace]
BY DEF TypeOK, Placeholder, QueueOfSpace

\* Google did what a write of a turn asks.
LEMMA DoneTells ==
  ASSUME Inv, NEW w \in TurnWrites, Awaited(w)
  PROVE  \E s \in Placeholder :
           /\ Told(s) /\ Done(w) = [turn EXCEPT ![w[1]] = s]
           /\ s.phase = turn[w[1]].phase /\ s.line = turn[w[1]].line
           /\ s.posted = turn[w[1]].posted /\ s.edits = turn[w[1]].edits
           /\ s.editing = turn[w[1]].editing /\ s.busy = turn[w[1]].busy
           /\ s.tried = turn[w[1]].tried
<1>1. turn \in [Turns -> Placeholder] /\ w[1] \in Turns
  BY Types, TurnWrite DEF Inv
<1>2. PICK t \in Turns : t = w[1]
  BY <1>1
<1>3. PICK r \in Placeholder : r = turn[t]
  BY <1>1
<1>4. Told(r)
  BY <1>3 DEF Inv, AllTold
<1>5. CASE w[2] = "post"
  <2> DEFINE s == [r EXCEPT !.shows = "writing"]
  <2>1. Done(w) = [turn EXCEPT ![t] = s]
    BY <1>1, <1>2, <1>3, <1>5 DEF Done
  <2>2. s \in Placeholder /\ Told(s)
    BY <1>4 DEF Placeholder, Told
  <2>3. /\ s.phase = r.phase /\ s.line = r.line /\ s.posted = r.posted /\ s.edits = r.edits
        /\ s.editing = r.editing /\ s.busy = r.busy /\ s.tried = r.tried
    BY DEF Placeholder
  <2> HIDE DEF s
  <2> QED BY <2>1, <2>2, <2>3, <1>2, <1>3
<1>6. CASE w[2] = "edit"
  <2>1. r.edits \in Seq({"ellipsis", "step"}) /\ r.edits # <<>>
    BY <1>2, <1>3, <1>4, <1>6 DEF Awaited, Told, Placeholder
  <2>2. Head(r.edits) \in {"ellipsis", "step"} /\ Has(r.edits, Head(r.edits))
    BY <2>1, TailHas
  <2> DEFINE s == [r EXCEPT !.shows = Head(r.edits)]
  <2>3. Done(w) = [turn EXCEPT ![t] = s]
    BY <1>1, <1>2, <1>3, <1>6 DEF Done
  <2>4. s \in Placeholder /\ Told(s)
    <3>1. s \in Placeholder
      BY <2>2 DEF Placeholder
    <3>2. Told(s)
      BY <2>2, <1>4 DEF Placeholder, Told
    <3> QED BY <3>1, <3>2
  <2>5. /\ s.phase = r.phase /\ s.line = r.line /\ s.posted = r.posted /\ s.edits = r.edits
        /\ s.editing = r.editing /\ s.busy = r.busy /\ s.tried = r.tried
    BY DEF Placeholder
  <2> HIDE DEF s
  <2> QED BY <2>3, <2>4, <2>5, <1>2, <1>3
<1>7. CASE w[2] \notin {"post", "edit"}
  <2>1. Done(w) = turn
    BY <1>7 DEF Done
  <2> QED BY <2>1, <1>1, <1>2, <1>3, <1>4
<1> QED BY <1>5, <1>6, <1>7
\* Nothing else of a turn than what its write is waited for with is changed.
LEMMA OthersWait ==
  ASSUME NEW w \in TurnWrites, NEW t \in Turns, t = w[1],
         \A m \in Turns : m # t => turn'[m] = turn[m],
         w[2] # "post" => turn'[t].posted = turn[t].posted,
         w[2] # "edit" => turn'[t].editing = turn[t].editing,
         w[2] # "oversize" /\ turn[t].phase = "telling" => turn'[t].phase = "telling",
         w[2] # "chunk" /\ turn[t].phase = "running" /\ turn[t].busy
           => turn'[t].phase = "running" /\ turn'[t].busy
  PROVE  \A v \in TurnWrites : v # w /\ Awaited(v) => Awaited(v)'
<1> SUFFICES ASSUME NEW v \in TurnWrites, v # w, Awaited(v) PROVE Awaited(v)'
  OBVIOUS
<1>1. /\ v[1] \in Turns /\ v = <<v[1], v[2]>> /\ w = <<t, w[2]>>
      /\ v[2] \in {"post", "oversize", "edit", "chunk"}
  BY TurnWrite
<1>2. CASE v[1] # t
  <2>1. turn'[v[1]] = turn[v[1]]
    BY <1>1, <1>2
  <2> QED BY <2>1 DEF Awaited
<1>3. CASE v[1] = t
  <2>1. v[2] # w[2]
    BY <1>1, <1>3
  <2> QED BY <2>1, <1>1, <1>3 DEF Awaited
<1> QED BY <1>2, <1>3

\* The post of a placeholder has ended.
LEMMA PostEnds ==
  ASSUME NEW T \in [Turns -> Placeholder], NEW t \in Turns,
         NEW s \in Placeholder, s = T[t], Told(s), s.posted = "asked",
         NEW ok \in BOOLEAN, EndedOfTurn(t, "post", ok, T)
  PROVE  \E r \in Placeholder :
           /\ Told(r) /\ turn' = [T EXCEPT ![t] = r]
           /\ r.phase = s.phase /\ r.editing = s.editing /\ r.busy = s.busy
<1>00. PICK p \in {"named", "unnamed"} : p = IF ok THEN "named" ELSE "unnamed"
  OBVIOUS
<1>01. turn' = [T EXCEPT ![t].posted = p]
  BY <1>00 DEF EndedOfTurn
<1>0. turn' = [T EXCEPT ![t] = [s EXCEPT !.posted = p]]
  BY <1>01
<1> DEFINE r == [s EXCEPT !.posted = p]
<1>1. turn' = [T EXCEPT ![t] = r]
  BY <1>0, Zenon
<1>2. r \in Placeholder /\ r.phase = s.phase /\ r.editing = s.editing /\ r.busy = s.busy
  <2>1. r.phase = s.phase /\ r.editing = s.editing /\ r.busy = s.busy
    BY DEF Placeholder
  <2>2. r \in Placeholder
    BY ZenonT(60) DEF Placeholder
  <2> QED BY <2>1, <2>2
<1>3. Told(r)
  BY DEF Placeholder, Told
<1> HIDE DEF r
<1> QED BY <1>1, <1>2, <1>3

\* An edit has ended.
LEMMA EditEnds ==
  ASSUME NEW T \in [Turns -> Placeholder], NEW t \in Turns,
         NEW s \in Placeholder, s = T[t], Told(s), s.edits # <<>>, NEW ok \in BOOLEAN,
         EndedOfTurn(t, "edit", ok, T)
  PROVE  \E r \in Placeholder :
           /\ Told(r) /\ turn' = [T EXCEPT ![t] = r]
           /\ r.phase = s.phase /\ r.posted = s.posted /\ r.busy = s.busy
<1>0. PICK miss \in BOOLEAN : miss = ~ ok
  OBVIOUS
<1>01. turn' = [T EXCEPT ![t].editing = FALSE, ![t].edits = Tail(@), ![t].missed = miss]
  BY <1>0 DEF EndedOfTurn
<1>1. s.edits \in Seq({"ellipsis", "step"})
  BY DEF Placeholder
<1>2. PICK b \in Seq({"ellipsis", "step"}) :
        b = Tail(s.edits) /\ (Has(b, "ellipsis") => Has(s.edits, "ellipsis"))
  <2>1. /\ Tail(s.edits) \in Seq({"ellipsis", "step"})
        /\ Has(Tail(s.edits), "ellipsis") => Has(s.edits, "ellipsis")
    BY <1>1, TailHas
  <2> QED BY <2>1
<1>3. PICK x \in Placeholder :
        /\ x = [s EXCEPT !.editing = FALSE] /\ x.edits = s.edits /\ ~ x.editing
        /\ x.phase = s.phase /\ x.posted = s.posted /\ x.busy = s.busy /\ Told(x)
  <2> DEFINE x == [s EXCEPT !.editing = FALSE]
  <2>1. /\ x \in Placeholder /\ x.edits = s.edits /\ ~ x.editing
        /\ x.phase = s.phase /\ x.posted = s.posted /\ x.busy = s.busy
    BY DEF Placeholder
  <2>2. Told(x)
    BY DEF Placeholder, Told
  <2> HIDE DEF x
  <2> QED BY <2>1, <2>2 DEF x
<1>40. [T EXCEPT ![t] = x] \in [Turns -> Placeholder] /\ [T EXCEPT ![t] = x][t] = x
  OBVIOUS
<1>4. PICK U \in [Turns -> Placeholder] : U = [T EXCEPT ![t] = x] /\ U[t] = x
  BY <1>40
<1>5. PICK V : V = [T EXCEPT ![t].editing = FALSE]
  OBVIOUS
<1>6. V = U
  BY <1>3, <1>4, <1>5
<1>7. turn' = [V EXCEPT ![t].edits = Tail(@), ![t].missed = miss]
  BY <1>01, <1>5
<1>8. turn' = [U EXCEPT ![t].edits = Tail(@), ![t].missed = miss]
  BY <1>6, <1>7
<1>81. turn' = [U EXCEPT ![t] = [x EXCEPT !.edits = Tail(x.edits), !.missed = miss]]
  <2>1. ASSUME NEW c
        PROVE  [U EXCEPT ![t].edits = Tail(@), ![t].missed = c]
                 = [U EXCEPT ![t] = [x EXCEPT !.edits = Tail(x.edits), !.missed = c]]
    BY <1>4
  <2> QED BY <1>8, <2>1
<1> DEFINE r == [x EXCEPT !.edits = b, !.missed = miss]
<1>9. turn' = [U EXCEPT ![t] = r]
  <2>1. Tail(x.edits) = b
    BY <1>2, <1>3
  <2> QED BY <1>81, <2>1, Zenon
<1>10. r \in Placeholder /\ r.phase = s.phase /\ r.posted = s.posted /\ r.busy = s.busy
  <2>1. r.phase = x.phase /\ r.posted = x.posted /\ r.busy = x.busy
    BY DEF Placeholder
  <2>2. r \in Placeholder
    BY ZenonT(60) DEF Placeholder
  <2> QED BY <1>3, <2>1, <2>2
<1>11. Told(r)
  BY <1>2, <1>3 DEF Placeholder, Told
<1> HIDE DEF r
<1>12. turn' = [T EXCEPT ![t] = r]
  BY <1>4, <1>9
<1> QED BY <1>10, <1>11, <1>12

\* The notice of an upload that was too large has ended.
LEMMA OversizeEnds ==
  ASSUME NEW T \in [Turns -> Placeholder], NEW t \in Turns,
         NEW s \in Placeholder, s = T[t], Told(s), s.phase = "telling",
         NEW ok, EndedOfTurn(t, "oversize", ok, T)
  PROVE  \E r \in Placeholder :
           /\ Told(r) /\ turn' = [T EXCEPT ![t] = r]
           /\ r.phase = "ready" /\ r.posted = s.posted /\ r.editing = s.editing
<1>0. turn' = [T EXCEPT ![t] = [s EXCEPT !.phase = "ready", !.busy = FALSE]]
  <2>1. turn' = [T EXCEPT ![t].phase = "ready", ![t].busy = FALSE]
    BY DEF EndedOfTurn
  <2> QED BY <2>1
<1> DEFINE r == [s EXCEPT !.phase = "ready", !.busy = FALSE]
<1>1. turn' = [T EXCEPT ![t] = r]
  BY <1>0, Zenon
<1>2. /\ r \in Placeholder /\ r.phase = "ready" /\ r.posted = s.posted
      /\ r.editing = s.editing
  <2>1. r.phase = "ready" /\ r.posted = s.posted /\ r.editing = s.editing
    BY DEF Placeholder
  <2>2. r \in Placeholder
    BY ZenonT(60) DEF Placeholder
  <2> QED BY <2>1, <2>2
<1>3. Told(r)
  BY DEF Placeholder, Told, Over
<1> HIDE DEF r
<1> QED BY <1>1, <1>2, <1>3

\* A chunk of the answer has ended; it ends the placeholder.
LEMMA ChunkEnds ==
  ASSUME NEW T \in [Turns -> Placeholder], NEW t \in Turns,
         NEW s \in Placeholder, s = T[t], Told(s), NEW ok, EndedOfTurn(t, "chunk", ok, T)
  PROVE  \E r \in Placeholder :
           /\ Told(r) /\ turn' = [T EXCEPT ![t] = r]
           /\ r.phase = s.phase /\ r.posted = s.posted /\ r.editing = s.editing
<1>1. turn' = [m \in Turns |->
         LET r == IF m # t THEN T[m] ELSE [T[m] EXCEPT !.busy = FALSE, !.tried = TRUE] IN
         IF m \in {t} THEN EndBalloon(r) ELSE r]
  BY DEF EndedOfTurn, EndsFor
<1>2. PICK z \in Placeholder :
        /\ z = [s EXCEPT !.busy = FALSE, !.tried = TRUE]
        /\ z.tried /\ Told(z)
        /\ z.phase = s.phase /\ z.posted = s.posted /\ z.editing = s.editing
  <2> DEFINE x == [s EXCEPT !.busy = FALSE, !.tried = TRUE]
  <2>1. /\ x \in Placeholder /\ x.tried
        /\ x.phase = s.phase /\ x.posted = s.posted /\ x.editing = s.editing
    BY DEF Placeholder
  <2>2. Told(x)
    BY DEF Placeholder, Told
  <2> HIDE DEF x
  <2> QED BY <2>1, <2>2 DEF x
<1>3. PICK r : r = EndBalloon(z)
  OBVIOUS
<1>4. turn' = [T EXCEPT ![t] = r]
  <2>1. turn' = [m \in Turns |-> IF m = t THEN r ELSE T[m]]
    BY <1>1, <1>2, <1>3
  <2> QED BY <2>1
<1>5. CASE z.line # "writing"
  <2>1. r = z
    BY <1>3, <1>5 DEF EndBalloon
  <2> QED BY <1>2, <1>4, <2>1
<1>6. CASE z.line = "writing"
  <2>1. z.edits \in Seq({"ellipsis", "step"})
    BY DEF Placeholder
  <2>2. PICK b \in Seq({"ellipsis", "step"}) : b = Append(z.edits, "ellipsis") /\ b # <<>>
    BY <2>1, AppendIn
  <2>3. r = [z EXCEPT !.line = "answered", !.edits = b]
    BY <1>3, <1>6, <2>2 DEF EndBalloon
  <2>4. /\ r \in Placeholder /\ r.phase = z.phase /\ r.posted = z.posted
        /\ r.editing = z.editing
    <3>1. /\ [z EXCEPT !.line = "answered", !.edits = b].phase = z.phase
          /\ [z EXCEPT !.line = "answered", !.edits = b].posted = z.posted
          /\ [z EXCEPT !.line = "answered", !.edits = b].editing = z.editing
      BY DEF Placeholder
    <3>2. [z EXCEPT !.line = "answered", !.edits = b] \in Placeholder
      BY ZenonT(60) DEF Placeholder
    <3> QED BY <2>3, <3>1, <3>2, Zenon
  <2>5. Told(r)
    BY <1>2, <2>2, <2>3 DEF Placeholder, Told
  <2> QED BY <1>2, <1>4, <2>4, <2>5
<1> QED BY <1>5, <1>6

\* The record of a turn after its write ended; T is turn after what Google did.
LEMMA EndedRecord ==
  ASSUME NEW T \in [Turns -> Placeholder], NEW t \in Turns, NEW ok \in BOOLEAN,
         NEW s \in Placeholder, s = T[t], Told(s),
         NEW what \in {"post", "oversize", "edit", "chunk"}, EndedOfTurn(t, what, ok, T),
         what = "post" => s.posted = "asked",
         what = "edit" => s.edits # <<>>,
         what = "oversize" => s.phase = "telling"
  PROVE  \E r \in Placeholder :
           /\ Told(r) /\ turn' = [T EXCEPT ![t] = r]
           /\ r.phase # s.phase => r.phase = "ready"
           /\ what # "post" => r.posted = s.posted
           /\ what # "edit" => r.editing = s.editing
           /\ what # "oversize" => r.phase = s.phase
           /\ what \notin {"chunk", "oversize"} => r.busy = s.busy
<1>1. CASE what = "post"
  <2>3. \E r \in Placeholder :
           /\ Told(r) /\ turn' = [T EXCEPT ![t] = r]
           /\ r.phase = s.phase /\ r.editing = s.editing /\ r.busy = s.busy
    BY <1>1, PostEnds
  <2> QED BY <1>1, <2>3
<1>2. CASE what = "edit"
  <2>3. \E r \in Placeholder :
           /\ Told(r) /\ turn' = [T EXCEPT ![t] = r]
           /\ r.phase = s.phase /\ r.posted = s.posted /\ r.busy = s.busy
    BY <1>2, EditEnds
  <2> QED BY <1>2, <2>3
<1>3. CASE what = "oversize"
  <2>2. \E r \in Placeholder :
           /\ Told(r) /\ turn' = [T EXCEPT ![t] = r]
           /\ r.phase = "ready" /\ r.posted = s.posted /\ r.editing = s.editing
    BY <1>3, OversizeEnds
  <2> QED BY <1>3, <2>2
<1>4. CASE what = "chunk"
  <2>1. \E r \in Placeholder :
           /\ Told(r) /\ turn' = [T EXCEPT ![t] = r]
           /\ r.phase = s.phase /\ r.posted = s.posted /\ r.editing = s.editing
    BY <1>4, ChunkEnds
  <2> QED BY <1>4, <2>1
<1> QED BY <1>1, <1>2, <1>3, <1>4

\* How a write of a turn ends leaves every turn to its own write and its own line.
LEMMA EndedOfTurnKeeps ==
  ASSUME Inv, NEW w \in TurnWrites, Awaited(w), NEW ok \in BOOLEAN,
         \/ EndedOfTurn(w[1], w[2], ok, turn)
         \/ EndedOfTurn(w[1], w[2], ok, Done(w))
  PROVE  /\ turn' \in [Turns -> Placeholder] /\ AllTold'
         /\ known' = known /\ theirs' = theirs /\ notice' = notice
         /\ \A m \in Turns : turn'[m].phase # turn[m].phase => turn'[m].phase = "ready"
         /\ \A v \in TurnWrites : v # w /\ Awaited(v) => Awaited(v)'
<1>1. turn \in [Turns -> Placeholder] /\ w[1] \in Turns
  BY Types, TurnWrite DEF Inv
<1>2. PICK t \in Turns : t = w[1]
  BY <1>1
<1>3. PICK what \in {"post", "oversize", "edit", "chunk"} : what = w[2]
  BY TurnWrite
<1>4. PICK s \in Placeholder :
        /\ Told(s)
        /\ \E T \in [Turns -> Placeholder] :
             /\ T[t] = s /\ \A m \in Turns : m # t => T[m] = turn[m]
             /\ EndedOfTurn(t, what, ok, T)
        /\ s.phase = turn[t].phase /\ s.line = turn[t].line
        /\ s.posted = turn[t].posted /\ s.edits = turn[t].edits
        /\ s.editing = turn[t].editing /\ s.busy = turn[t].busy
        /\ s.tried = turn[t].tried
  <2>1. CASE EndedOfTurn(w[1], w[2], ok, turn)
    <3>1. turn[t] \in Placeholder /\ Told(turn[t])
      BY <1>1 DEF Inv, AllTold
    <3> QED BY <2>1, <3>1, <1>1, <1>2, <1>3
  <2>2. CASE EndedOfTurn(w[1], w[2], ok, Done(w))
    <3>1. PICK s \in Placeholder :
           /\ Told(s) /\ Done(w) = [turn EXCEPT ![w[1]] = s]
           /\ s.phase = turn[w[1]].phase /\ s.line = turn[w[1]].line
           /\ s.posted = turn[w[1]].posted /\ s.edits = turn[w[1]].edits
           /\ s.editing = turn[w[1]].editing /\ s.busy = turn[w[1]].busy
           /\ s.tried = turn[w[1]].tried
      BY DoneTells
    <3>2. PICK T \in [Turns -> Placeholder] : T = Done(w)
      BY <1>1, <3>1
    <3>3. T[t] = s /\ \A m \in Turns : m # t => T[m] = turn[m]
      BY <1>1, <1>2, <3>1, <3>2
    <3>4. EndedOfTurn(t, what, ok, T)
      BY <2>2, <1>2, <1>3, <3>2
    <3> QED BY <1>2, <3>1, <3>3, <3>4
  <2> QED BY <2>1, <2>2
<1>5. PICK T \in [Turns -> Placeholder] :
        /\ T[t] = s /\ \A m \in Turns : m # t => T[m] = turn[m]
        /\ EndedOfTurn(t, what, ok, T)
  BY <1>4
<1>6. known' = known /\ theirs' = theirs /\ notice' = notice
  BY <1>5 DEF EndedOfTurn
<1>7. /\ what = "post" => s.posted = "asked"
      /\ what = "edit" => s.edits # <<>>
      /\ what = "oversize" => s.phase = "telling"
  BY <1>2, <1>3, <1>4 DEF Awaited, Told
<1>8. PICK r \in Placeholder :
        /\ Told(r) /\ turn' = [T EXCEPT ![t] = r]
        /\ r.phase # s.phase => r.phase = "ready"
        /\ what # "post" => r.posted = s.posted
        /\ what # "edit" => r.editing = s.editing
        /\ what # "oversize" => r.phase = s.phase
        /\ what \notin {"chunk", "oversize"} => r.busy = s.busy
  BY <1>4, <1>5, <1>7, EndedRecord
<1>9. /\ turn' \in [Turns -> Placeholder] /\ turn'[t] = r
      /\ \A m \in Turns : m # t => turn'[m] = turn[m]
  BY <1>5, <1>8
<1>10. AllTold'
  BY <1>1, <1>8, <1>9, Turned DEF Inv
<1>11. \A m \in Turns : turn'[m].phase # turn[m].phase => turn'[m].phase = "ready"
  BY <1>4, <1>8, <1>9
<1>12. \A v \in TurnWrites : v # w /\ Awaited(v) => Awaited(v)'
  <2>1. /\ w[2] # "post" => turn'[t].posted = turn[t].posted
        /\ w[2] # "edit" => turn'[t].editing = turn[t].editing
        /\ w[2] # "oversize" /\ turn[t].phase = "telling" => turn'[t].phase = "telling"
        /\ w[2] # "chunk" /\ turn[t].phase = "running" /\ turn[t].busy
             => turn'[t].phase = "running" /\ turn'[t].busy
    BY <1>3, <1>4, <1>7, <1>8, <1>9
  <2> QED BY <2>1, <1>2, <1>9, OthersWait
<1> QED BY <1>6, <1>9, <1>10, <1>11, <1>12

\* The space a person wrote from stays the one remembered, when at most the other
\* is dropped; or Google said something of a space; or it is the one written from.
LEMMA StaysKnown ==
  ASSUME RemembersTheirSpace,
         \/ (theirs' => theirs) /\ (known' = known \/ known' = Forget(Gone))
         \/ ~ theirs'
         \/ known' = Here
  PROVE  RemembersTheirSpace'
BY WorkspaceChatAssumption DEF RemembersTheirSpace, Forget

\* How a write ends, for a turn or for a notice.
LEMMA EndedKeeps ==
  ASSUME Inv, NEW w \in Writes, w \in TurnWrites => Awaited(w), NEW how,
         Ended(w, how, turn) \/ (w \in TurnWrites /\ Ended(w, how, Done(w)))
  PROVE  /\ turn' \in [Turns -> Placeholder] /\ AllTold'
         /\ known' \in Spaces \cup {NoSpace} /\ theirs' \in BOOLEAN
         /\ notice' \in {"new", "stored", "listing", "found", "done"}
         /\ RemembersTheirSpace'
         /\ \A v \in TurnWrites : v # w /\ Awaited(v) => Awaited(v)'
<1>1. CASE w \in TurnWrites
  <2>1. PICK ok \in BOOLEAN : ok = (how = "ok")
    OBVIOUS
  <2>2. \/ EndedOfTurn(w[1], w[2], ok, turn)
        \/ EndedOfTurn(w[1], w[2], ok, Done(w))
    <3>1. w[1] # NoTurn
      BY <1>1, TurnWrite
    <3> QED BY <3>1, <2>1 DEF Ended
  <2>3. /\ turn' \in [Turns -> Placeholder] /\ AllTold'
        /\ known' = known /\ theirs' = theirs /\ notice' = notice
        /\ \A m \in Turns : turn'[m].phase # turn[m].phase => turn'[m].phase = "ready"
        /\ \A v \in TurnWrites : v # w /\ Awaited(v) => Awaited(v)'
    BY <1>1, <2>2, EndedOfTurnKeeps
  <2>4. RemembersTheirSpace'
    BY <2>3, StaysKnown DEF Inv
  <2> QED BY <2>3, <2>4 DEF Inv, TypeOK
<1>2. CASE w \notin TurnWrites
  <2>1. w[1] = NoTurn /\ w[2] \in Spaces
    BY <1>2, NoticeWrite
  <2>2. EndedOfNotice(w[2], how = "wrong")
    BY <1>2, <2>1 DEF Ended
  <2>3. turn' = turn
    BY <2>2 DEF EndedOfNotice
  <2>4. \/ (theirs' => theirs) /\ (known' = known \/ known' = Forget(Gone))
        \/ ~ theirs'
    BY <2>1, <2>2 DEF EndedOfNotice, Spaces
  <2>5. /\ known' \in Spaces \cup {NoSpace} /\ theirs' \in BOOLEAN
        /\ notice' \in {"new", "stored", "listing", "found", "done"}
    BY <2>2 DEF EndedOfNotice, Forget, Inv, TypeOK
  <2>6. turn' \in [Turns -> Placeholder] /\ AllTold'
    BY <2>3, Types DEF Inv, AllTold, Told
  <2>7. RemembersTheirSpace'
    BY <2>4, StaysKnown DEF Inv
  <2>8. \A v \in TurnWrites : v # w /\ Awaited(v) => Awaited(v)'
    BY <2>3 DEF Awaited
  <2> QED BY <2>5, <2>6, <2>7, <2>8
<1> QED BY <1>1, <1>2
-----------------------------------------------------------------------------
(* The queue of a space changes.                                           *)

\* What a step sees of the writes it is not about.
Aside(w) ==
  \A v \in TurnWrites : v # w =>
    /\ v \in out' <=> v \in out
    /\ v \in renewing' <=> v \in renewing
    /\ Waits(v)' <=> Waits(v)
    /\ Alone(v) => Alone(v)'
    /\ Awaited(v) => Awaited(v)'

\* Only the write a step is about needs to be followed.
LEMMA SolesFrom ==
  ASSUME Soles, NEW w, Aside(w), w \in TurnWrites => Sole(w)'
  PROVE  Soles'
<1> SUFFICES ASSUME NEW v \in TurnWrites, v # w PROVE Sole(v)'
  BY DEF Soles
<1> QED BY DEF Soles, Sole, Aside

\* The new state of a space, whose queue has its own writes.
LEMMA NewQueue ==
  ASSUME Inv, NEW s \in Spaces, NEW z \in QueueOfSpace, space' = [space EXCEPT ![s] = z],
         \A w \in Writes : Has(z.queue, w) => SpaceOf(w) = s,
         z.stage = "sends" => z.queue # <<>>
  PROVE  /\ space' \in [Spaces -> QueueOfSpace] /\ Queues'
         /\ \A v : /\ s # Here => (Waits(v)' <=> Waits(v)) /\ (Alone(v)' <=> Alone(v))
                   /\ s = Here => (Waits(v)' <=> Has(z.queue, v)) /\ (Alone(v)' <=> Once(z.queue, v))
<1>1. space \in [Spaces -> QueueOfSpace] /\ Here \in Spaces
  BY Types DEF Inv, Spaces
<1>2. space' \in [Spaces -> QueueOfSpace]
  BY <1>1
<1>3. Queues'
  <2> SUFFICES ASSUME NEW x \in Spaces
               PROVE  /\ \A w \in Writes : Has(space'[x].queue, w) => SpaceOf(w) = x
                      /\ space'[x].stage = "sends" => space'[x].queue # <<>>
    BY DEF Queues, Has
  <2>1. space'[x] = IF x = s THEN z ELSE space[x]
    BY <1>1
  <2> QED BY <2>1 DEF Inv, Queues
<1>4. ASSUME NEW v
      PROVE  /\ s # Here => (Waits(v)' <=> Waits(v)) /\ (Alone(v)' <=> Alone(v))
             /\ s = Here => (Waits(v)' <=> Has(z.queue, v)) /\ (Alone(v)' <=> Once(z.queue, v))
  <2>1. space'[Here] = IF s = Here THEN z ELSE space[Here]
    BY <1>1
  <2>2. CASE s = Here
    BY <2>1, <2>2 DEF Waits, Alone, Has, Once
  <2>3. CASE s # Here
    BY <2>1, <2>3 DEF Waits, Alone, Has, Once
  <2> QED BY <2>2, <2>3
<1> QED BY <1>2, <1>3, <1>4

\* A write takes its place, leaves it, or goes behind the others.
LEMMA QueueMoves ==
  ASSUME Inv, NEW w \in Writes, NEW s \in Spaces, s = SpaceOf(w), NEW q, q = space[s].queue,
         NEW z \in QueueOfSpace, space' = [space EXCEPT ![s] = z],
         z.stage = "sends" => z.queue # <<>>,
         \/ z.queue = Append(q, w)
         \/ q # <<>> /\ w = Head(q) /\ z.queue \in {Tail(q), Append(Tail(q), w)}
  PROVE  /\ space' \in [Spaces -> QueueOfSpace] /\ Queues'
         /\ \A v \in TurnWrites : v # w => (Waits(v)' <=> Waits(v)) /\ (Alone(v) => Alone(v)')
         /\ w \in TurnWrites =>
              /\ z.queue = Append(q, w) /\ ~ Waits(w) => Alone(w)'
              /\ q # <<>> /\ w = Head(q) /\ z.queue \in {Tail(q), Append(Tail(q), w)} /\ Alone(w)
                   => Waits(w) /\ Alone(w)'
              /\ q # <<>> /\ w = Head(q) /\ z.queue = Tail(q) /\ Alone(w) => ~ Waits(w)'
<1>1. space \in [Spaces -> QueueOfSpace] /\ Here \in Spaces /\ q \in Seq(Writes)
  BY Types DEF Inv, Spaces, QueueOfSpace
<1>2. \A v \in Writes : Has(q, v) => SpaceOf(v) = s
  BY DEF Inv, Queues
<1>3. ASSUME NEW v
      PROVE  /\ Has(z.queue, v) => Has(q, v) \/ v = w
             /\ v # w => (Has(z.queue, v) <=> Has(q, v)) /\ (Once(q, v) => Once(z.queue, v))
  <2>2. PICK y : y = z.queue
    OBVIOUS
  <2>1. Follows(y, q, w)
    BY <2>2 DEF Follows
  <2>3. /\ Has(y, v) => Has(q, v) \/ v = w
        /\ v # w => (Has(y, v) <=> Has(q, v)) /\ (Once(q, v) => Once(y, v))
    BY <1>1, <2>1, QueueThen
  <2> QED BY <2>2, <2>3
<1>4. \A v \in Writes : Has(z.queue, v) => SpaceOf(v) = s
  BY <1>2, <1>3
<1>5. /\ space' \in [Spaces -> QueueOfSpace] /\ Queues'
      /\ \A v : /\ s # Here => (Waits(v)' <=> Waits(v)) /\ (Alone(v)' <=> Alone(v))
                /\ s = Here => (Waits(v)' <=> Has(z.queue, v)) /\ (Alone(v)' <=> Once(z.queue, v))
  BY <1>4, NewQueue
<1>6. s = Here => \A v : (Waits(v) <=> Has(q, v)) /\ (Alone(v) <=> Once(q, v))
  BY DEF Waits, Alone
<1>7. \A v \in TurnWrites : v # w => (Waits(v)' <=> Waits(v)) /\ (Alone(v) => Alone(v)')
  BY <1>3, <1>5, <1>6
<1>8. ASSUME w \in TurnWrites
      PROVE  /\ z.queue = Append(q, w) /\ ~ Waits(w) => Alone(w)'
             /\ q # <<>> /\ w = Head(q) /\ z.queue \in {Tail(q), Append(Tail(q), w)} /\ Alone(w)
                   => Waits(w) /\ Alone(w)'
             /\ q # <<>> /\ w = Head(q) /\ z.queue = Tail(q) /\ Alone(w) => ~ Waits(w)'
  <2>1. s = Here
    BY <1>8, TurnWrite
  <2>2. z.queue = Append(q, w) /\ ~ Has(q, w) => Once(z.queue, w)
    BY <1>1, AppendHas
  <2>3. ASSUME q # <<>>, w = Head(q), Once(q, w)
        PROVE  /\ Has(q, w) /\ ~ Has(Tail(q), w)
               /\ Once(Tail(q), w) /\ Once(Append(Tail(q), w), w)
    BY <1>1, <2>3, HeadThen
  <2>5. ASSUME q # <<>>, w = Head(q), Once(q, w), z.queue \in {Tail(q), Append(Tail(q), w)}
        PROVE  Once(z.queue, w)
    BY <2>3, <2>5
  <2> QED BY <2>1, <1>5, <1>6, <2>2, <2>3, <2>5
<1> QED BY <1>5, <1>7, <1>8
-----------------------------------------------------------------------------
(* The parts of the invariant, put together.                               *)

Requested ==
  /\ out \cup renewing \cup second \subseteq Writes
  /\ tries \in [Writes -> 0 .. MaxAttempts] /\ faults \in 0 .. MaxFaults

Noted ==
  /\ known \in Spaces \cup {NoSpace} /\ theirs \in BOOLEAN
  /\ notice \in {"new", "stored", "listing", "found", "done"}

\* The invariant of the state after a step from its parts.
LEMMA Assembled ==
  ASSUME (turn \in [Turns -> Placeholder])', (space \in [Spaces -> QueueOfSpace])',
         Requested', Noted', AllTold', Soles', Queues', RemembersTheirSpace'
  PROVE  Inv'
BY DEF Inv, TypeOK, Placeholder, QueueOfSpace, Requested, Noted

\* A step that leaves the turns and the notice alone.
LEMMA TurnsAlone ==
  ASSUME Inv, UNCHANGED <<turn, known, theirs, notice>>
  PROVE  /\ turn' \in [Turns -> Placeholder] /\ AllTold' /\ Noted' /\ RemembersTheirSpace'
         /\ \A v \in TurnWrites : Awaited(v) <=> Awaited(v)'
<1>1. turn' \in [Turns -> Placeholder] /\ Noted'
  BY Types DEF Inv, TypeOK, Noted
<1>2. AllTold'
  BY DEF Inv, AllTold, Told, Has
<1>3. RemembersTheirSpace'
  BY DEF Inv, RemembersTheirSpace
<1> QED BY <1>1, <1>2, <1>3 DEF Awaited

\* A step that leaves the queues alone.
LEMMA QueuesAlone ==
  ASSUME Inv, UNCHANGED space
  PROVE  /\ space' \in [Spaces -> QueueOfSpace] /\ Queues'
         /\ \A v : (Waits(v)' <=> Waits(v)) /\ (Alone(v)' <=> Alone(v))
<1>1. space' \in [Spaces -> QueueOfSpace]
  BY Types DEF Inv
<1>2. Queues'
  BY DEF Inv, Queues, Has
<1> QED BY <1>1, <1>2 DEF Waits, Alone, Has, Once

\* A step that leaves the requests alone.
LEMMA RequestsAlone ==
  ASSUME Inv, UNCHANGED requests
  PROVE  Requested' /\ out' = out /\ renewing' = renewing
BY DEF Inv, TypeOK, Requested, requests

\* A space with its own writes has the first of them to send.
LEMMA FirstOf ==
  ASSUME Inv, NEW s \in Spaces, space[s].stage = "sends"
  PROVE  /\ space[s] \in QueueOfSpace /\ space[s].queue \in Seq(Writes) /\ space[s].queue # <<>>
         /\ First(s) \in Writes /\ First(s) = Head(space[s].queue) /\ SpaceOf(First(s)) = s
         /\ First(s) \in TurnWrites => Waits(First(s))
<1>1. space[s] \in QueueOfSpace /\ space[s].queue \in Seq(Writes) /\ space[s].queue # <<>>
  BY Types DEF Inv, Queues, QueueOfSpace
<1>2. Head(space[s].queue) \in Writes /\ Has(space[s].queue, Head(space[s].queue))
  BY <1>1, TailHas
<1>3. SpaceOf(Head(space[s].queue)) = s
  BY <1>2 DEF Inv, Queues
<1>4. Head(space[s].queue) \in TurnWrites => s = Here
  BY <1>3, TurnWrite
<1> QED BY <1>1, <1>2, <1>3, <1>4 DEF First, Waits

-----------------------------------------------------------------------------
(* The queues run.                                                         *)

\* The head's turn comes, or time passes.
LEMMA QueueRuns ==
  ASSUME Inv, NEW s \in Spaces, TurnComes(s) \/ PaceOver(s)
  PROVE  Inv'
<1>1. space[s] \in QueueOfSpace /\ space \in [Spaces -> QueueOfSpace]
  BY Types DEF Inv
<1>2. \E z \in QueueOfSpace :
        /\ space' = [space EXCEPT ![s] = z]
        /\ z.queue = space[s].queue /\ (z.stage = "sends" => z.queue # <<>>)
  <2>1. CASE TurnComes(s)
    <3> DEFINE z == [space[s] EXCEPT !.stage = "sends"]
    <3>1. space' = [space EXCEPT ![s] = z] /\ space[s].queue # <<>>
      BY <2>1, <1>1 DEF TurnComes
    <3>2. z \in QueueOfSpace /\ z.queue = space[s].queue
      BY <1>1 DEF QueueOfSpace
    <3> HIDE DEF z
    <3> QED BY <3>1, <3>2
  <2>2. CASE PaceOver(s)
    <3> DEFINE z == [space[s] EXCEPT !.held = FALSE]
    <3>1. space' = [space EXCEPT ![s] = z]
      BY <2>2, <1>1 DEF PaceOver
    <3>2. z \in QueueOfSpace /\ z.queue = space[s].queue /\ z.stage = space[s].stage
      BY <1>1 DEF QueueOfSpace
    <3>3. space[s].stage = "sends" => space[s].queue # <<>>
      BY DEF Inv, Queues
    <3> HIDE DEF z
    <3> QED BY <3>1, <3>2, <3>3
  <2> QED BY <2>1, <2>2
<1>3. PICK z \in QueueOfSpace :
        /\ space' = [space EXCEPT ![s] = z]
        /\ z.queue = space[s].queue /\ (z.stage = "sends" => z.queue # <<>>)
  BY <1>2
<1>4. \A w \in Writes : Has(z.queue, w) => SpaceOf(w) = s
  BY <1>3 DEF Inv, Queues
<1>5. /\ space' \in [Spaces -> QueueOfSpace] /\ Queues'
      /\ \A v : (Waits(v)' <=> Waits(v)) /\ (Alone(v)' <=> Alone(v))
  <2>1. /\ space' \in [Spaces -> QueueOfSpace] /\ Queues'
        /\ \A v : /\ s # Here => (Waits(v)' <=> Waits(v)) /\ (Alone(v)' <=> Alone(v))
                  /\ s = Here => (Waits(v)' <=> Has(z.queue, v)) /\ (Alone(v)' <=> Once(z.queue, v))
    BY <1>3, <1>4, NewQueue
  <2> QED BY <2>1, <1>3 DEF Waits, Alone
<1>6. UNCHANGED <<turn, known, theirs, notice>> /\ UNCHANGED requests
  BY DEF TurnComes, PaceOver
<1>7. /\ Requested' /\ out' = out /\ renewing' = renewing
      /\ turn' \in [Turns -> Placeholder] /\ AllTold' /\ Noted' /\ RemembersTheirSpace'
      /\ \A v \in TurnWrites : Awaited(v) <=> Awaited(v)'
  BY <1>6, TurnsAlone, RequestsAlone
<1>8. Soles'
  BY <1>5, <1>7 DEF Inv, Soles, Sole
<1> QED BY <1>5, <1>7, <1>8, Assembled

\* A request leaves, and the queue with it.
LEMMA LeavesKeeps ==
  ASSUME Inv, NEW s \in Spaces, Leaves(s)
  PROVE  Inv'
<1>1. PICK w \in Writes : w = First(s)
  BY FirstOf DEF Leaves
<1>2. /\ space[s] \in QueueOfSpace /\ space[s].queue \in Seq(Writes) /\ space[s].queue # <<>>
      /\ w = Head(space[s].queue) /\ SpaceOf(w) = s /\ (w \in TurnWrites => Waits(w))
  BY <1>1, FirstOf DEF Leaves
<1>3. PICK q : q = space[s].queue
  OBVIOUS
<1>4. PICK z \in QueueOfSpace : z = Released(space[s]) /\ z.queue = Tail(q) /\ z.stage = "waits"
  <2>1. Tail(q) \in Seq(Writes)
    BY <1>2, <1>3
  <2>2. Released(space[s]) = [queue |-> Tail(q), stage |-> "waits", held |-> TRUE]
    BY <1>3 DEF Released
  <2>3. PICK b \in Seq(Writes) : b = Tail(q)
    BY <2>1
  <2>4. PICK r : r = [queue |-> b, stage |-> "waits", held |-> TRUE]
    OBVIOUS
  <2>5. r \in QueueOfSpace /\ r.queue = b /\ r.stage = "waits"
    BY <2>4 DEF QueueOfSpace
  <2> QED BY <2>2, <2>3, <2>4, <2>5
<1>5. space' = [space EXCEPT ![s] = z] /\ out' = out \cup {w} /\ UNCHANGED <<turn, known, theirs, notice>>
      /\ UNCHANGED <<renewing, second, tries, faults>>
  BY <1>1, <1>4, Types DEF Leaves, Inv
<1>6. /\ space' \in [Spaces -> QueueOfSpace] /\ Queues'
      /\ \A v \in TurnWrites : v # w => (Waits(v)' <=> Waits(v)) /\ (Alone(v) => Alone(v)')
      /\ w \in TurnWrites =>
           /\ q # <<>> /\ w = Head(q) /\ z.queue \in {Tail(q), Append(Tail(q), w)} /\ Alone(w)
                => Waits(w) /\ Alone(w)'
           /\ q # <<>> /\ w = Head(q) /\ z.queue = Tail(q) /\ Alone(w) => ~ Waits(w)'
  BY <1>2, <1>3, <1>4, <1>5, QueueMoves
<1>7. /\ turn' \in [Turns -> Placeholder] /\ AllTold' /\ Noted' /\ RemembersTheirSpace'
      /\ \A v \in TurnWrites : Awaited(v) <=> Awaited(v)'
  BY <1>5, TurnsAlone
<1>8. Aside(w)
  BY <1>5, <1>6, <1>7 DEF Aside
<1>9. w \in TurnWrites => Sole(w)'
  <2> SUFFICES ASSUME w \in TurnWrites PROVE Sole(w)'
    OBVIOUS
  <2>1. Sole(w)
    BY DEF Inv, Soles
  <2> QED BY <2>1, <1>2, <1>3, <1>4, <1>5, <1>6, <1>7 DEF Sole
<1>10. Soles'
  BY <1>8, <1>9, SolesFrom DEF Inv
<1>11. Requested'
  BY <1>5 DEF Requested, Inv, TypeOK
<1> QED BY <1>6, <1>7, <1>10, <1>11, Assembled

\* A token is renewed, and the request sent again.
LEMMA RenewalKeeps ==
  ASSUME Inv, NEW w \in Writes, TokenRefused(w) \/ Renewed(w)
  PROVE  Inv'
<1>1. UNCHANGED <<turn, known, theirs, notice>> /\ UNCHANGED space
  BY DEF TokenRefused, Renewed
<1>2. /\ turn' \in [Turns -> Placeholder] /\ AllTold' /\ Noted' /\ RemembersTheirSpace'
      /\ \A v \in TurnWrites : Awaited(v) <=> Awaited(v)'
      /\ space' \in [Spaces -> QueueOfSpace] /\ Queues'
      /\ \A v : (Waits(v)' <=> Waits(v)) /\ (Alone(v)' <=> Alone(v))
  BY <1>1, TurnsAlone, QueuesAlone
<1>3. Requested'
  <2>1. MaxFaults \in Nat
    BY WorkspaceChatAssumption
  <2> QED BY <2>1 DEF TokenRefused, Renewed, Requested, Inv, TypeOK
<1>4. Aside(w)
  BY <1>2 DEF Aside, TokenRefused, Renewed
<1>5. w \in TurnWrites => Sole(w)'
  BY <1>2 DEF Inv, Soles, Sole, TokenRefused, Renewed
<1>6. Soles'
  BY <1>4, <1>5, SolesFrom DEF Inv
<1> QED BY <1>2, <1>3, <1>6, Assembled
-----------------------------------------------------------------------------
(* Requests end.                                                           *)

\* A write that is out, or renews its token, is given back to who asked for it,
\* or goes behind the others for another attempt.
LEMMA CallEnds ==
  ASSUME Inv, NEW w \in Writes, w \in out \cup renewing,
         out' \in {out, out \ {w}}, renewing' \in {renewing, renewing \ {w}},
         w \in TurnWrites => w \notin out' \cup renewing', second' \subseteq Writes,
         tries' \in [Writes -> 0 .. MaxAttempts], faults' \in 0 .. MaxFaults,
         turn' \in [Turns -> Placeholder], AllTold', Noted', RemembersTheirSpace',
         \A v \in TurnWrites : v # w /\ Awaited(v) => Awaited(v)',
         \/ UNCHANGED space
         \/ /\ \E z \in QueueOfSpace :
                 /\ space' = [space EXCEPT ![SpaceOf(w)] = z]
                 /\ z.queue = Append(space[SpaceOf(w)].queue, w)
            /\ UNCHANGED turn
  PROVE  Inv'
<1>1. Requested'
  BY DEF Inv, TypeOK, Requested
<1>2. w \in TurnWrites => Sole(w) /\ ~ Waits(w) /\ Alone(w) /\ Awaited(w)
  BY DEF Inv, Soles, Sole
<1>3. CASE UNCHANGED space
  <2>1. /\ space' \in [Spaces -> QueueOfSpace] /\ Queues'
        /\ \A v : (Waits(v)' <=> Waits(v)) /\ (Alone(v)' <=> Alone(v))
    BY <1>3, QueuesAlone
  <2>2. Aside(w)
    BY <2>1 DEF Aside
  <2>3. w \in TurnWrites => Sole(w)'
    BY <1>2, <2>1 DEF Sole
  <2> QED BY <1>1, <2>1, <2>2, <2>3, SolesFrom, Assembled DEF Inv
<1>4. ASSUME NEW z \in QueueOfSpace,
             space' = [space EXCEPT ![SpaceOf(w)] = z],
             z.queue = Append(space[SpaceOf(w)].queue, w), UNCHANGED turn
      PROVE  Inv'
  <2>1. PICK s \in Spaces : s = SpaceOf(w)
    BY ToASpace
  <2>2. PICK q \in Seq(Writes) : q = space[s].queue
    BY Types DEF Inv, QueueOfSpace
  <2>3. z.queue # <<>>
    BY <1>4, <2>1, <2>2, AppendHas
  <2>4. /\ space' \in [Spaces -> QueueOfSpace] /\ Queues'
        /\ \A v \in TurnWrites : v # w => (Waits(v)' <=> Waits(v)) /\ (Alone(v) => Alone(v)')
        /\ w \in TurnWrites =>
             /\ z.queue = Append(q, w) /\ ~ Waits(w) => Alone(w)'
    BY <1>4, <2>1, <2>2, <2>3, QueueMoves
  <2>5. Aside(w)
    BY <2>4 DEF Aside
  <2>6. w \in TurnWrites => Sole(w)'
    <3> SUFFICES ASSUME w \in TurnWrites PROVE Sole(w)'
      OBVIOUS
    <3>1. Alone(w)' /\ w \notin out' /\ w \notin renewing'
      BY <1>2, <1>4, <2>1, <2>2, <2>4
    <3>2. Awaited(w)'
      BY <1>2, <1>4 DEF Awaited
    <3> QED BY <3>1, <3>2 DEF Sole
  <2> QED BY <1>1, <2>4, <2>5, <2>6, SolesFrom, Assembled DEF Inv
<1> QED BY <1>3, <1>4

\* What is held back, then asked for again.
LEMMA AskedAgain ==
  ASSUME NEW spaces \in [Spaces -> QueueOfSpace], NEW w \in Writes, NEW s \in Spaces, s = SpaceOf(w)
  PROVE  \E z \in QueueOfSpace :
           /\ Asked([spaces EXCEPT ![s].held = TRUE], w) = [spaces EXCEPT ![s] = z]
           /\ z.queue = Append(spaces[s].queue, w) /\ z.stage = spaces[s].stage
<1>1. PICK y \in QueueOfSpace : y = spaces[s]
  OBVIOUS
<1>2. Append(y.queue, w) \in Seq(Writes)
  BY AppendHas DEF QueueOfSpace
<1>3. PICK x \in QueueOfSpace :
        x = [y EXCEPT !.held = TRUE] /\ x.queue = y.queue /\ x.stage = y.stage
  <2>1. /\ [y EXCEPT !.held = TRUE] \in QueueOfSpace
        /\ [y EXCEPT !.held = TRUE].queue = y.queue /\ [y EXCEPT !.held = TRUE].stage = y.stage
    BY DEF QueueOfSpace
  <2> QED BY <2>1
<1>4. PICK z \in QueueOfSpace :
        z = [x EXCEPT !.queue = Append(x.queue, w)] /\ z.queue = Append(y.queue, w) /\ z.stage = y.stage
  <2>1. [x EXCEPT !.queue = Append(x.queue, w)] \in QueueOfSpace
    BY <1>2, <1>3 DEF QueueOfSpace
  <2> QED BY <1>3, <2>1 DEF QueueOfSpace
<1>5. [spaces EXCEPT ![s].held = TRUE] = [spaces EXCEPT ![s] = x]
  BY <1>1, <1>3
<1>6. Asked([spaces EXCEPT ![s] = x], w) = [spaces EXCEPT ![s] = z]
  BY <1>4 DEF Asked
<1> QED BY <1>1, <1>4, <1>5, <1>6

\* How a failed call goes on, for who asked and for the queue.
LEMMA FailedKeeps ==
  ASSUME Inv, NEW w \in Writes, w \in TurnWrites => Awaited(w), NEW how \in {"refused", "rate", "wrong"},
         NEW spaces \in [Spaces -> QueueOfSpace],
         \/ FailedCall(w, how, spaces, turn)
         \/ w \in TurnWrites /\ how = "refused" /\ FailedCall(w, how, spaces, Done(w))
  PROVE  /\ turn' \in [Turns -> Placeholder] /\ AllTold' /\ Noted' /\ RemembersTheirSpace'
         /\ \A v \in TurnWrites : v # w /\ Awaited(v) => Awaited(v)'
         /\ tries' \in [Writes -> 0 .. MaxAttempts]
         /\ \/ space' = spaces
            \/ /\ space' = Asked([spaces EXCEPT ![SpaceOf(w)].held = TRUE], w)
               /\ UNCHANGED turn
<1>0. tries \in [Writes -> 0 .. MaxAttempts] /\ MaxAttempts \in Nat /\ tries[w] \in Nat
  BY WorkspaceChatAssumption DEF Inv, TypeOK
<1>1. CASE /\ how = "rate" /\ tries[w] + 1 < MaxAttempts
           /\ space' = Asked([spaces EXCEPT ![SpaceOf(w)].held = TRUE], w)
           /\ tries' = [tries EXCEPT ![w] = @ + 1]
           /\ UNCHANGED <<turn, known, theirs, notice>>
  <2>1. tries' \in [Writes -> 0 .. MaxAttempts]
    BY <1>0, <1>1
  <2>2. /\ turn' \in [Turns -> Placeholder] /\ AllTold' /\ Noted' /\ RemembersTheirSpace'
        /\ \A v \in TurnWrites : Awaited(v) <=> Awaited(v)'
    BY <1>1, TurnsAlone
  <2> QED BY <1>1, <2>1, <2>2
<1>2. CASE /\ space' = spaces /\ tries' = [tries EXCEPT ![w] = 0]
           /\ Ended(w, how, turn) \/ (w \in TurnWrites /\ Ended(w, how, Done(w)))
  <2>1. tries' \in [Writes -> 0 .. MaxAttempts]
    BY <1>0, <1>2
  <2>2. /\ turn' \in [Turns -> Placeholder] /\ AllTold'
        /\ known' \in Spaces \cup {NoSpace} /\ theirs' \in BOOLEAN
        /\ notice' \in {"new", "stored", "listing", "found", "done"}
        /\ RemembersTheirSpace'
        /\ \A v \in TurnWrites : v # w /\ Awaited(v) => Awaited(v)'
    BY <1>2, EndedKeeps
  <2> QED BY <1>2, <2>1, <2>2 DEF Noted
<1>3. QED
  BY <1>1, <1>2 DEF FailedCall

\* Google answers.
LEMMA AnswersKeeps ==
  ASSUME Inv, NEW w \in Writes, Answers(w)
  PROVE  Inv'
<1>1. /\ w \in out /\ out' = out \ {w} /\ second' = second \ {w} /\ renewing' = renewing
      /\ tries' = [tries EXCEPT ![w] = 0] /\ UNCHANGED space /\ faults' = faults
  BY DEF Answers
<1>2. w \in TurnWrites => Awaited(w) /\ w \notin renewing
  BY <1>1 DEF Inv, Soles, Sole
<1>3. /\ turn' \in [Turns -> Placeholder] /\ AllTold' /\ Noted' /\ RemembersTheirSpace'
      /\ \A v \in TurnWrites : v # w /\ Awaited(v) => Awaited(v)'
  <2>1. CASE SpaceOf(w) = Here
    <3>1. CASE w \in TurnWrites
      <4>1. Ended(w, "ok", Done(w))
        BY <2>1 DEF Answers
      <4> QED BY <1>2, <3>1, <4>1, EndedKeeps DEF Noted
    <3>2. CASE w \notin TurnWrites
      <4>1. Done(w) = turn
        BY <3>2 DEF Done
      <4>2. Ended(w, "ok", turn)
        BY <2>1, <4>1 DEF Answers
      <4> QED BY <3>2, <4>2, EndedKeeps DEF Noted
    <3> QED BY <3>1, <3>2
  <2>2. CASE SpaceOf(w) # Here
    <3>1. Ended(w, "wrong", turn)
      BY <2>2 DEF Answers
    <3> QED BY <1>2, <3>1, EndedKeeps DEF Noted
  <2> QED BY <2>1, <2>2
<1>4. faults' \in 0 .. MaxFaults /\ second' \subseteq Writes /\ tries' \in [Writes -> 0 .. MaxAttempts]
  <2>1. MaxAttempts \in Nat
    BY WorkspaceChatAssumption
  <2> QED BY <1>1, <2>1 DEF Inv, TypeOK
<1> QED BY <1>1, <1>2, <1>3, <1>4, CallEnds

\* Google refuses, or its answer is lost.
LEMMA FailsKeeps ==
  ASSUME Inv, NEW w \in Writes, Fails(w) \/ NotRenewed(w)
  PROVE  Inv'
<1>1. /\ \/ w \in out /\ out' = out \ {w} /\ renewing' = renewing
         \/ w \in renewing /\ renewing' = renewing \ {w} /\ out' = out
      /\ second' \in {second, second \ {w}}
      /\ faults' = faults \/ (faults < MaxFaults /\ faults' = faults + 1)
  BY DEF Fails, NotRenewed
<1>2. w \in TurnWrites => Awaited(w) /\ w \notin out' \cup renewing'
  BY <1>1 DEF Inv, Soles, Sole
<1>3. PICK spaces \in [Spaces -> QueueOfSpace] : spaces = space
  BY Types DEF Inv
<1>4. \E how \in {"refused", "rate", "wrong"} :
        \/ FailedCall(w, how, spaces, turn)
        \/ w \in TurnWrites /\ how = "refused" /\ FailedCall(w, how, spaces, Done(w))
  <2>1. w \notin TurnWrites => Done(w) = turn
    BY DEF Done
  <2> QED BY <1>3, <2>1 DEF Fails, NotRenewed
<1>5. /\ turn' \in [Turns -> Placeholder] /\ AllTold' /\ Noted' /\ RemembersTheirSpace'
      /\ \A v \in TurnWrites : v # w /\ Awaited(v) => Awaited(v)'
      /\ tries' \in [Writes -> 0 .. MaxAttempts]
      /\ \/ space' = spaces
         \/ /\ space' = Asked([spaces EXCEPT ![SpaceOf(w)].held = TRUE], w)
            /\ UNCHANGED turn
  BY <1>2, <1>4, FailedKeeps
<1>6. \/ UNCHANGED space
      \/ /\ \E z \in QueueOfSpace :
              /\ space' = [space EXCEPT ![SpaceOf(w)] = z]
              /\ z.queue = Append(space[SpaceOf(w)].queue, w)
         /\ UNCHANGED turn
  <2>1. CASE space' = spaces
    BY <1>3, <2>1
  <2>2. CASE space' = Asked([spaces EXCEPT ![SpaceOf(w)].held = TRUE], w) /\ UNCHANGED turn
    <3>1. PICK s \in Spaces : s = SpaceOf(w)
      BY ToASpace
    <3>2. PICK z \in QueueOfSpace :
            /\ Asked([spaces EXCEPT ![s].held = TRUE], w) = [spaces EXCEPT ![s] = z]
            /\ z.queue = Append(spaces[s].queue, w) /\ z.stage = spaces[s].stage
      <4>1. spaces \in [Spaces -> QueueOfSpace] /\ s \in Spaces /\ s = SpaceOf(w) /\ w \in Writes
        BY <1>3, <3>1
      <4>2. \E z \in QueueOfSpace :
              /\ Asked([spaces EXCEPT ![s].held = TRUE], w) = [spaces EXCEPT ![s] = z]
              /\ z.queue = Append(spaces[s].queue, w) /\ z.stage = spaces[s].stage
        BY <4>1, AskedAgain
      <4> QED BY <4>2
    <3> QED BY <1>3, <2>2, <3>1, <3>2
  <2> QED BY <1>5, <2>1, <2>2
<1>7. faults' \in 0 .. MaxFaults /\ second' \subseteq Writes
  <2>1. MaxFaults \in Nat
    BY WorkspaceChatAssumption
  <2> QED BY <1>1, <2>1 DEF Inv, TypeOK
<1> QED BY <1>1, <1>2, <1>5, <1>6, <1>7, CallEnds

\* No token: the head of the queue is given up, or goes behind the others.
LEMMA NoTokenKeeps ==
  ASSUME Inv, NEW s \in Spaces, NoToken(s)
  PROVE  Inv'
<1>1. PICK w \in Writes : w = First(s)
  BY FirstOf DEF NoToken
<1>2. /\ space[s] \in QueueOfSpace /\ space[s].queue \in Seq(Writes) /\ space[s].queue # <<>>
      /\ w = Head(space[s].queue) /\ SpaceOf(w) = s /\ (w \in TurnWrites => Waits(w))
  BY <1>1, FirstOf DEF NoToken
<1>3. PICK q \in Seq(Writes) : q = space[s].queue
  BY <1>2
<1>4. PICK y \in QueueOfSpace : y = Released(space[s]) /\ y.queue = Tail(q) /\ y.stage = "waits"
  <2>1. Tail(q) \in Seq(Writes)
    BY <1>2, <1>3
  <2>2. Released(space[s]) = [queue |-> Tail(q), stage |-> "waits", held |-> TRUE]
    BY <1>3 DEF Released
  <2>3. PICK b \in Seq(Writes) : b = Tail(q)
    BY <2>1
  <2>4. PICK r : r = [queue |-> b, stage |-> "waits", held |-> TRUE]
    OBVIOUS
  <2>5. r \in QueueOfSpace /\ r.queue = b /\ r.stage = "waits"
    BY <2>4 DEF QueueOfSpace
  <2> QED BY <2>2, <2>3, <2>4, <2>5
<1>5. PICK spaces \in [Spaces -> QueueOfSpace] : spaces = [space EXCEPT ![s] = y]
  BY Types DEF Inv
<1>6. /\ UNCHANGED <<out, renewing, second>> /\ faults < MaxFaults /\ faults' = faults + 1
      /\ \E how \in {"refused", "rate"} : FailedCall(w, how, spaces, turn)
  <2>1. [space EXCEPT ![s] = Released(@)] = spaces
    BY <1>4, <1>5
  <2> QED BY <1>1, <2>1 DEF NoToken
<1>7. w \in TurnWrites => Sole(w) /\ Awaited(w) /\ w \notin out \cup renewing
  BY <1>2 DEF Inv, Soles, Sole
<1>8. /\ turn' \in [Turns -> Placeholder] /\ AllTold' /\ Noted' /\ RemembersTheirSpace'
      /\ \A v \in TurnWrites : v # w /\ Awaited(v) => Awaited(v)'
      /\ tries' \in [Writes -> 0 .. MaxAttempts]
      /\ \/ space' = spaces
         \/ /\ space' = Asked([spaces EXCEPT ![SpaceOf(w)].held = TRUE], w)
            /\ UNCHANGED turn
  BY <1>6, <1>7, FailedKeeps
<1>9. \E z \in QueueOfSpace :
        /\ space' = [space EXCEPT ![s] = z] /\ z.stage = "waits"
        /\ z.queue = Tail(q) \/ (z.queue = Append(Tail(q), w) /\ UNCHANGED turn)
  <2>1. CASE space' = spaces
    BY <1>4, <1>5, <2>1
  <2>2. CASE space' = Asked([spaces EXCEPT ![SpaceOf(w)].held = TRUE], w) /\ UNCHANGED turn
    <3>1. PICK z \in QueueOfSpace :
            /\ Asked([spaces EXCEPT ![s].held = TRUE], w) = [spaces EXCEPT ![s] = z]
            /\ z.queue = Append(spaces[s].queue, w) /\ z.stage = spaces[s].stage
      BY <1>1, <1>2, <1>5, AskedAgain
    <3>2. spaces[s] = y /\ [spaces EXCEPT ![s] = z] = [space EXCEPT ![s] = z]
      BY <1>5, Types DEF Inv
    <3> QED BY <1>2, <1>4, <2>2, <3>1, <3>2
  <2> QED BY <1>8, <2>1, <2>2
<1>10. PICK z \in QueueOfSpace :
        /\ space' = [space EXCEPT ![s] = z] /\ z.stage = "waits"
        /\ z.queue = Tail(q) \/ (z.queue = Append(Tail(q), w) /\ UNCHANGED turn)
  BY <1>9
<1>11. q # <<>> /\ w = Head(q)
  BY <1>2, <1>3
<1>12. /\ space' \in [Spaces -> QueueOfSpace] /\ Queues'
       /\ \A v \in TurnWrites : v # w => (Waits(v)' <=> Waits(v)) /\ (Alone(v) => Alone(v)')
       /\ w \in TurnWrites =>
           /\ q # <<>> /\ w = Head(q) /\ z.queue \in {Tail(q), Append(Tail(q), w)} /\ Alone(w)
                => Waits(w) /\ Alone(w)'
           /\ q # <<>> /\ w = Head(q) /\ z.queue = Tail(q) /\ Alone(w) => ~ Waits(w)'
  <2>1. z.stage # "sends" /\ z.queue \in {Tail(q), Append(Tail(q), w)}
    BY <1>10
  <2> QED BY <1>2, <1>3, <1>10, <1>11, <2>1, QueueMoves
<1>13. Aside(w)
  BY <1>6, <1>8, <1>12 DEF Aside
<1>14. w \in TurnWrites => Sole(w)'
  <2> SUFFICES ASSUME w \in TurnWrites PROVE Sole(w)'
    OBVIOUS
  <2>1. Alone(w) /\ Alone(w)'
    BY <1>7, <1>10, <1>11, <1>12 DEF Sole
  <2>2. Waits(w)' => Awaited(w)'
    <3>1. CASE z.queue = Tail(q)
      BY <1>11, <1>12, <2>1, <3>1
    <3>2. CASE UNCHANGED turn
      BY <1>7, <3>2 DEF Awaited
    <3> QED BY <1>10, <3>1, <3>2
  <2> QED BY <1>6, <1>7, <2>1, <2>2 DEF Sole
<1>15. Soles'
  BY <1>13, <1>14, SolesFrom DEF Inv
<1>16. Requested'
  <2>1. MaxFaults \in Nat
    BY WorkspaceChatAssumption
  <2> QED BY <1>6, <1>8, <2>1 DEF Requested, Inv, TypeOK
<1> QED BY <1>8, <1>12, <1>15, <1>16, Assembled
-----------------------------------------------------------------------------
(* What the turns and the notice ask for.                                  *)

\* A write nobody waits for yet is asked for.
LEMMA AskedKeeps ==
  ASSUME Inv, NEW w \in Writes, space' = Asked(space, w), UNCHANGED requests,
         w \in TurnWrites => ~ Awaited(w) /\ Awaited(w)',
         \A v \in TurnWrites : v # w /\ Awaited(v) => Awaited(v)'
  PROVE  /\ space' \in [Spaces -> QueueOfSpace] /\ Queues' /\ Soles' /\ Requested'
<1>1. PICK s \in Spaces : s = SpaceOf(w)
  BY ToASpace
<1>2. PICK y \in QueueOfSpace : y = space[s]
  BY Types, <1>1 DEF Inv
<1>3. PICK q \in Seq(Writes) : q = y.queue
  BY <1>2 DEF QueueOfSpace
<1>4. PICK b \in Seq(Writes) : b = Append(q, w) /\ b # <<>>
  BY <1>3, AppendHas
<1>5. PICK z \in QueueOfSpace : z = [y EXCEPT !.queue = b] /\ z.queue = b
  <2>1. [y EXCEPT !.queue = b] \in QueueOfSpace /\ [y EXCEPT !.queue = b].queue = b
    BY <1>2, <1>4 DEF QueueOfSpace
  <2> QED BY <2>1
<1>6. space' = [space EXCEPT ![s] = z]
  BY <1>1, <1>2, <1>3, <1>4, <1>5 DEF Asked
<1>7. q = space[s].queue /\ z.queue = Append(q, w) /\ z.queue # <<>>
  BY <1>2, <1>3, <1>4, <1>5
<1>8. /\ space' \in [Spaces -> QueueOfSpace] /\ Queues'
      /\ \A v \in TurnWrites : v # w => (Waits(v)' <=> Waits(v)) /\ (Alone(v) => Alone(v)')
      /\ w \in TurnWrites => (z.queue = Append(q, w) /\ ~ Waits(w) => Alone(w)')
  <2>1. /\ z.stage = "sends" => z.queue # <<>>
        /\ \/ z.queue = Append(q, w)
           \/ q # <<>> /\ w = Head(q) /\ z.queue \in {Tail(q), Append(Tail(q), w)}
    BY <1>7
  <2>2. /\ space' \in [Spaces -> QueueOfSpace] /\ Queues'
        /\ \A v \in TurnWrites : v # w => (Waits(v)' <=> Waits(v)) /\ (Alone(v) => Alone(v)')
        /\ w \in TurnWrites =>
             /\ z.queue = Append(q, w) /\ ~ Waits(w) => Alone(w)'
             /\ q # <<>> /\ w = Head(q) /\ z.queue \in {Tail(q), Append(Tail(q), w)} /\ Alone(w)
                  => Waits(w) /\ Alone(w)'
             /\ q # <<>> /\ w = Head(q) /\ z.queue = Tail(q) /\ Alone(w) => ~ Waits(w)'
    BY <1>1, <1>6, <1>7, <2>1, QueueMoves, ZenonT(60)
  <2> QED BY <2>2
<1>9. Requested' /\ out' = out /\ renewing' = renewing
  BY RequestsAlone
<1>10. Aside(w)
  BY <1>8, <1>9 DEF Aside
<1>11. w \in TurnWrites => Sole(w)'
  BY <1>7, <1>8, <1>9 DEF Inv, Soles, Sole
<1> QED BY <1>8, <1>9, <1>10, <1>11, SolesFrom DEF Inv

\* A step of a turn that asks for nothing.
LEMMA NothingAsked ==
  ASSUME Inv, UNCHANGED space, UNCHANGED requests,
         \A v \in TurnWrites : Awaited(v) => Awaited(v)'
  PROVE  /\ space' \in [Spaces -> QueueOfSpace] /\ Queues' /\ Soles' /\ Requested'
<1>1. Requested' /\ out' = out /\ renewing' = renewing
  BY RequestsAlone
<1>2. /\ space' \in [Spaces -> QueueOfSpace] /\ Queues'
      /\ \A v : (Waits(v)' <=> Waits(v)) /\ (Alone(v)' <=> Alone(v))
  BY QueuesAlone
<1> QED BY <1>1, <1>2 DEF Inv, Soles, Sole

\* The writes of a turn are writes.
LEMMA WriteOf ==
  ASSUME NEW t \in Turns, NEW what \in {"post", "oversize", "edit", "chunk"}
  PROVE  \E w \in TurnWrites : w = <<t, what>> /\ w[1] = t /\ w[2] = what
<1>1. <<t, what>> \in TurnWrites
  BY DEF TurnWrites
<1> QED BY <1>1

\* The message is accepted, and its placeholder asked for.
LEMMA AcceptKeeps ==
  ASSUME Inv, NEW t \in Turns, Accept(t)
  PROVE  Inv'
<1>1. PICK s \in Placeholder : s = turn[t] /\ Told(s) /\ turn \in [Turns -> Placeholder]
  BY Types DEF Inv, AllTold
<1>2. PICK r \in Placeholder :
        /\ r = [s EXCEPT !.phase = "fetching", !.line = "writing", !.posted = "asked"]
        /\ r.phase = "fetching" /\ r.posted = "asked" /\ r.editing = s.editing /\ Told(r)
  <2> DEFINE x == [s EXCEPT !.phase = "fetching", !.line = "writing", !.posted = "asked"]
  <2>1. x \in Placeholder /\ x.phase = "fetching" /\ x.posted = "asked" /\ x.editing = s.editing
    BY DEF Placeholder
  <2>2. Told(x)
    BY <1>1 DEF Accept, Placeholder, Told
  <2> HIDE DEF x
  <2> QED BY <2>1, <2>2 DEF x
<1>3. turn' = [turn EXCEPT ![t] = r] /\ UNCHANGED <<known, theirs, notice>> /\ UNCHANGED requests
  BY <1>1, <1>2 DEF Accept
<1>4. PICK w \in TurnWrites : w = <<t, "post">> /\ w[1] = t /\ w[2] = "post"
  BY WriteOf
<1>5. space' = Asked(space, w)
  BY <1>4 DEF Accept
<1>6. /\ turn' \in [Turns -> Placeholder] /\ AllTold' /\ turn'[t] = r
      /\ \A m \in Turns : m # t => turn'[m] = turn[m]
  BY <1>1, <1>2, <1>3, TurnedTo DEF Inv
<1>7. s.phase = "new" /\ s.posted = "no"
  BY <1>1 DEF Accept, Told
<1>8. \A v \in TurnWrites : v # w /\ Awaited(v) => Awaited(v)'
  <2>1. /\ w[2] # "post" => turn'[t].posted = turn[t].posted
        /\ w[2] # "edit" => turn'[t].editing = turn[t].editing
        /\ w[2] # "oversize" /\ turn[t].phase = "telling" => turn'[t].phase = "telling"
        /\ w[2] # "chunk" /\ turn[t].phase = "running" /\ turn[t].busy
             => turn'[t].phase = "running" /\ turn'[t].busy
    BY <1>1, <1>2, <1>4, <1>6, <1>7
  <2> QED BY <1>4, <1>6, <2>1, OthersWait
<1>9. ~ Awaited(w) /\ Awaited(w)'
  BY <1>1, <1>2, <1>4, <1>6, <1>7 DEF Awaited
<1>10. /\ space' \in [Spaces -> QueueOfSpace] /\ Queues' /\ Soles' /\ Requested'
  BY <1>3, <1>4, <1>5, <1>8, <1>9, AskedKeeps, TurnWrite
<1>11. RemembersTheirSpace' /\ Noted'
  BY <1>2, <1>3, <1>6, StaysKnown DEF Inv, TypeOK, Noted
<1> QED BY <1>6, <1>10, <1>11, Assembled

\* The person is told of an upload that was too large.
LEMMA OversizeKeeps ==
  ASSUME Inv, NEW t \in Turns, OversizeNotice(t)
  PROVE  Inv'
<1>1. PICK s \in Placeholder : s = turn[t] /\ Told(s) /\ turn \in [Turns -> Placeholder]
  BY Types DEF Inv, AllTold
<1>2. PICK r \in Placeholder :
        /\ r = [s EXCEPT !.phase = "telling", !.busy = TRUE]
        /\ r.phase = "telling" /\ r.posted = s.posted /\ r.editing = s.editing /\ Told(r)
  <2> DEFINE x == [s EXCEPT !.phase = "telling", !.busy = TRUE]
  <2>1. x \in Placeholder /\ x.phase = "telling" /\ x.posted = s.posted /\ x.editing = s.editing
    BY DEF Placeholder
  <2>2. Told(x)
    BY <1>1 DEF OversizeNotice, Placeholder, Told, Over
  <2> HIDE DEF x
  <2> QED BY <2>1, <2>2 DEF x
<1>3. turn' = [turn EXCEPT ![t] = r] /\ UNCHANGED <<known, theirs, notice>> /\ UNCHANGED requests
  BY <1>1, <1>2 DEF OversizeNotice
<1>4. PICK w \in TurnWrites : w = <<t, "oversize">> /\ w[1] = t /\ w[2] = "oversize"
  BY WriteOf
<1>5. space' = Asked(space, w)
  BY <1>4 DEF OversizeNotice
<1>6. /\ turn' \in [Turns -> Placeholder] /\ AllTold' /\ turn'[t] = r
      /\ \A m \in Turns : m # t => turn'[m] = turn[m]
  BY <1>1, <1>2, <1>3, TurnedTo DEF Inv
<1>7. s.phase = "fetching"
  BY <1>1 DEF OversizeNotice
<1>8. \A v \in TurnWrites : v # w /\ Awaited(v) => Awaited(v)'
  <2>1. /\ w[2] # "post" => turn'[t].posted = turn[t].posted
        /\ w[2] # "edit" => turn'[t].editing = turn[t].editing
        /\ w[2] # "oversize" /\ turn[t].phase = "telling" => turn'[t].phase = "telling"
        /\ w[2] # "chunk" /\ turn[t].phase = "running" /\ turn[t].busy
             => turn'[t].phase = "running" /\ turn'[t].busy
    BY <1>1, <1>2, <1>4, <1>6, <1>7
  <2> QED BY <1>4, <1>6, <2>1, OthersWait
<1>9. ~ Awaited(w) /\ Awaited(w)'
  BY <1>1, <1>2, <1>4, <1>6, <1>7 DEF Awaited
<1>10. /\ space' \in [Spaces -> QueueOfSpace] /\ Queues' /\ Soles' /\ Requested'
  BY <1>3, <1>4, <1>5, <1>8, <1>9, AskedKeeps, TurnWrite
<1>11. RemembersTheirSpace' /\ Noted'
  BY <1>2, <1>3, <1>6, StaysKnown DEF Inv, TypeOK, Noted
<1> QED BY <1>6, <1>10, <1>11, Assembled

\* A chunk of the answer is sent.
LEMMA ChunkKeeps ==
  ASSUME Inv, NEW t \in Turns, SendChunk(t)
  PROVE  Inv'
<1>1. PICK s \in Placeholder : s = turn[t] /\ Told(s) /\ turn \in [Turns -> Placeholder]
  BY Types DEF Inv, AllTold
<1>2. PICK r \in Placeholder :
        /\ r = [s EXCEPT !.busy = TRUE, !.chunks = s.chunks + 1]
        /\ r.phase = s.phase /\ r.posted = s.posted /\ r.editing = s.editing /\ r.busy = TRUE /\ Told(r)
  <2>0. PICK n \in Nat : n = s.chunks + 1
    BY <1>1 DEF Placeholder
  <2> DEFINE x == [s EXCEPT !.busy = TRUE, !.chunks = n]
  <2>1. /\ x \in Placeholder /\ x.phase = s.phase /\ x.posted = s.posted
        /\ x.editing = s.editing /\ x.busy = TRUE
    BY DEF Placeholder
  <2>2. Told(x)
    BY <1>1 DEF Placeholder, Told
  <2> HIDE DEF x
  <2> QED BY <2>0, <2>1, <2>2 DEF x
<1>3. turn' = [turn EXCEPT ![t] = r] /\ UNCHANGED <<known, theirs, notice>> /\ UNCHANGED requests
  BY <1>1, <1>2 DEF SendChunk
<1>4. PICK w \in TurnWrites : w = <<t, "chunk">> /\ w[1] = t /\ w[2] = "chunk"
  BY WriteOf
<1>5. space' = Asked(space, w)
  BY <1>4 DEF SendChunk
<1>6. /\ turn' \in [Turns -> Placeholder] /\ AllTold' /\ turn'[t] = r
      /\ \A m \in Turns : m # t => turn'[m] = turn[m]
  BY <1>1, <1>2, <1>3, TurnedTo DEF Inv
<1>7. s.phase = "running" /\ ~ s.busy
  BY <1>1 DEF SendChunk
<1>8. \A v \in TurnWrites : v # w /\ Awaited(v) => Awaited(v)'
  <2>1. /\ w[2] # "post" => turn'[t].posted = turn[t].posted
        /\ w[2] # "edit" => turn'[t].editing = turn[t].editing
        /\ w[2] # "oversize" /\ turn[t].phase = "telling" => turn'[t].phase = "telling"
        /\ w[2] # "chunk" /\ turn[t].phase = "running" /\ turn[t].busy
             => turn'[t].phase = "running" /\ turn'[t].busy
    BY <1>1, <1>2, <1>4, <1>6, <1>7
  <2> QED BY <1>4, <1>6, <2>1, OthersWait
<1>9. ~ Awaited(w) /\ Awaited(w)'
  BY <1>1, <1>2, <1>4, <1>6, <1>7 DEF Awaited
<1>10. /\ space' \in [Spaces -> QueueOfSpace] /\ Queues' /\ Soles' /\ Requested'
  BY <1>3, <1>4, <1>5, <1>8, <1>9, AskedKeeps, TurnWrite
<1>11. RemembersTheirSpace' /\ Noted'
  BY <1>1, <1>2, <1>3, <1>6, StaysKnown DEF Inv, TypeOK, Noted
<1> QED BY <1>6, <1>10, <1>11, Assembled
\* A step of one turn that ends none of its waits.
LEMMA StillWaits ==
  ASSUME NEW t \in Turns, \A m \in Turns : m # t => turn'[m] = turn[m],
         turn'[t].posted = turn[t].posted, turn'[t].editing = turn[t].editing,
         turn[t].phase = "telling" => turn'[t].phase = "telling",
         turn[t].phase = "running" /\ turn[t].busy
           => turn'[t].phase = "running" /\ turn'[t].busy
  PROVE  \A v \in TurnWrites : Awaited(v) => Awaited(v)'
<1> SUFFICES ASSUME NEW v \in TurnWrites, Awaited(v) PROVE Awaited(v)'
  OBVIOUS
<1>1. v[1] \in Turns
  BY TurnWrite
<1>2. CASE v[1] = t
  BY <1>2 DEF Awaited
<1>3. CASE v[1] # t
  <2>1. turn'[v[1]] = turn[v[1]]
    BY <1>1, <1>3
  <2> QED BY <2>1 DEF Awaited
<1> QED BY <1>2, <1>3

\* The placeholder is edited, or the edit given up with the post.
LEMMA NextEditKeeps ==
  ASSUME Inv, NEW t \in Turns, NextEdit(t)
  PROVE  Inv'
<1>1. PICK s \in Placeholder : s = turn[t] /\ Told(s) /\ turn \in [Turns -> Placeholder]
  BY Types DEF Inv, AllTold
<1>2. ~ s.editing /\ s.edits \in Seq({"ellipsis", "step"}) /\ s.edits # <<>>
  BY <1>1 DEF NextEdit, Placeholder
<1>3. UNCHANGED <<known, theirs, notice>> /\ UNCHANGED requests
  BY DEF NextEdit
<1>4. CASE turn' = [turn EXCEPT ![t].editing = TRUE] /\ space' = Asked(space, <<t, "edit">>)
  <2>1. PICK r \in Placeholder :
          /\ r = [s EXCEPT !.editing = TRUE]
          /\ r.phase = s.phase /\ r.posted = s.posted /\ r.editing = TRUE /\ r.busy = s.busy
          /\ Told(r)
    <3> DEFINE x == [s EXCEPT !.editing = TRUE]
    <3>1. /\ x \in Placeholder /\ x.phase = s.phase /\ x.posted = s.posted
          /\ x.editing = TRUE /\ x.busy = s.busy
      BY DEF Placeholder
    <3>2. Told(x)
      BY <1>1, <1>2 DEF Placeholder, Told
    <3> HIDE DEF x
    <3> QED BY <3>1, <3>2 DEF x
  <2>2. turn' = [turn EXCEPT ![t] = r]
    BY <1>1, <1>4, <2>1
  <2>3. PICK w \in TurnWrites : w = <<t, "edit">> /\ w[1] = t /\ w[2] = "edit"
    BY WriteOf
  <2>4. space' = Asked(space, w)
    BY <1>4, <2>3
  <2>5. /\ turn' \in [Turns -> Placeholder] /\ AllTold' /\ turn'[t] = r
        /\ \A m \in Turns : m # t => turn'[m] = turn[m]
    BY <1>1, <2>1, <2>2, TurnedTo DEF Inv
  <2>6. \A v \in TurnWrites : v # w /\ Awaited(v) => Awaited(v)'
    <3>1. /\ w[2] # "post" => turn'[t].posted = turn[t].posted
          /\ w[2] # "edit" => turn'[t].editing = turn[t].editing
          /\ w[2] # "oversize" /\ turn[t].phase = "telling" => turn'[t].phase = "telling"
          /\ w[2] # "chunk" /\ turn[t].phase = "running" /\ turn[t].busy
               => turn'[t].phase = "running" /\ turn'[t].busy
      BY <1>1, <2>1, <2>3, <2>5
    <3> QED BY <2>3, <2>5, <3>1, OthersWait
  <2>7. ~ Awaited(w) /\ Awaited(w)'
    BY <1>1, <1>2, <2>1, <2>3, <2>5 DEF Awaited
  <2>8. /\ space' \in [Spaces -> QueueOfSpace] /\ Queues' /\ Soles' /\ Requested'
    BY <1>3, <2>3, <2>4, <2>6, <2>7, AskedKeeps, TurnWrite
  <2>9. RemembersTheirSpace' /\ Noted'
    <3>1. Noted' /\ known' = known /\ theirs' = theirs
      BY <1>3 DEF Inv, TypeOK, Noted
    <3> QED BY <3>1, StaysKnown DEF Inv
  <2> QED BY <2>5, <2>8, <2>9, Assembled
<1>5. CASE turn' = [turn EXCEPT ![t].edits = Tail(@)] /\ UNCHANGED space
  <2>0. PICK b \in Seq({"ellipsis", "step"}) :
          b = Tail(s.edits) /\ (Has(b, "ellipsis") => Has(s.edits, "ellipsis"))
    <3>1. /\ Tail(s.edits) \in Seq({"ellipsis", "step"})
          /\ Has(Tail(s.edits), "ellipsis") => Has(s.edits, "ellipsis")
      BY <1>2, TailHas
    <3> QED BY <3>1
  <2>1. PICK r \in Placeholder :
          /\ r = [s EXCEPT !.edits = b]
          /\ r.phase = s.phase /\ r.posted = s.posted /\ r.editing = s.editing /\ r.busy = s.busy
          /\ Told(r)
    <3> DEFINE x == [s EXCEPT !.edits = b]
    <3>1. /\ x \in Placeholder /\ x.phase = s.phase /\ x.posted = s.posted
          /\ x.editing = s.editing /\ x.busy = s.busy
      BY <2>0 DEF Placeholder
    <3>2. Told(x)
      BY <1>1, <1>2, <2>0 DEF Placeholder, Told
    <3> HIDE DEF x
    <3> QED BY <3>1, <3>2 DEF x
  <2>2. turn' = [turn EXCEPT ![t] = r]
    BY <1>1, <1>5, <2>0, <2>1
  <2>3. /\ turn' \in [Turns -> Placeholder] /\ AllTold' /\ turn'[t] = r
        /\ \A m \in Turns : m # t => turn'[m] = turn[m]
    BY <1>1, <2>1, <2>2, TurnedTo DEF Inv
  <2>4. \A v \in TurnWrites : Awaited(v) => Awaited(v)'
    BY <1>1, <2>1, <2>3, StillWaits
  <2>5. /\ space' \in [Spaces -> QueueOfSpace] /\ Queues' /\ Soles' /\ Requested'
    BY <1>3, <1>5, <2>4, NothingAsked
  <2>6. RemembersTheirSpace' /\ Noted'
    <3>1. Noted' /\ known' = known /\ theirs' = theirs
      BY <1>3 DEF Inv, TypeOK, Noted
    <3> QED BY <3>1, StaysKnown DEF Inv
  <2> QED BY <2>3, <2>5, <2>6, Assembled
<1> QED BY <1>4, <1>5 DEF NextEdit

\* The dispatcher takes a turn, a step is shown, or the turn is over.
LEMMA TurnGoesOn ==
  ASSUME Inv, NEW t \in Turns, HandOver(t) \/ ShowStep(t) \/ TurnEnds(t)
  PROVE  Inv'
<1>1. PICK s \in Placeholder : s = turn[t] /\ Told(s) /\ turn \in [Turns -> Placeholder]
  BY Types DEF Inv, AllTold
<1>2. notice' = notice /\ UNCHANGED space /\ UNCHANGED requests
  BY DEF HandOver, ShowStep, TurnEnds
<1>3. ASSUME NEW what \in {"step", "ellipsis"}
      PROVE  \E b \in Seq({"ellipsis", "step"}) :
               /\ b = Append(s.edits, what) /\ b # <<>>
               /\ Has(b, "ellipsis") <=> Has(s.edits, "ellipsis") \/ what = "ellipsis"
  <2>1. s.edits \in Seq({"ellipsis", "step"})
    BY DEF Placeholder
  <2>2. /\ Append(s.edits, what) \in Seq({"ellipsis", "step"}) /\ Append(s.edits, what) # <<>>
        /\ Has(Append(s.edits, what), "ellipsis") <=> Has(s.edits, "ellipsis") \/ "ellipsis" = what
    BY <2>1, AppendHas
  <2> QED BY <2>2
<1>4. \E r \in Placeholder :
        /\ turn' = [turn EXCEPT ![t] = r] /\ Told(r)
        /\ r.posted = s.posted /\ r.editing = s.editing /\ r.busy = s.busy
        /\ \/ r.phase = s.phase
           \/ s.phase \in {"fetching", "ready"}
           \/ s.phase = "running" /\ ~ s.busy
        /\ (known' = known /\ theirs' = theirs) \/ (known' = Here /\ theirs' = TRUE)
  <2>1. CASE HandOver(t)
    <3> DEFINE x == [s EXCEPT !.phase = "running"]
    <3>1. turn' = [turn EXCEPT ![t] = x] /\ s.phase \in {"fetching", "ready"}
          /\ known' = Here /\ theirs' = TRUE
      BY <1>1, <2>1 DEF HandOver
    <3>2. x \in Placeholder /\ x.posted = s.posted /\ x.editing = s.editing /\ x.busy = s.busy
      BY DEF Placeholder
    <3>3. Told(x)
      BY <1>1, <3>1 DEF Placeholder, Told, Over
    <3> HIDE DEF x
    <3> QED BY <3>1, <3>2, <3>3
  <2>2. CASE ShowStep(t)
    <3>1. PICK b \in Seq({"ellipsis", "step"}) :
            /\ b = Append(s.edits, "step") /\ b # <<>>
            /\ Has(b, "ellipsis") <=> Has(s.edits, "ellipsis") \/ "step" = "ellipsis"
      BY <1>3
    <3>2. PICK n \in Nat : n = s.steps + 1
      BY <1>1 DEF Placeholder
    <3> DEFINE x == [s EXCEPT !.line = "step", !.steps = n, !.edits = b]
    <3>3. turn' = [turn EXCEPT ![t] = x] /\ known' = known /\ theirs' = theirs
      BY <1>1, <2>2, <3>1, <3>2 DEF ShowStep
    <3>4. /\ x \in Placeholder /\ x.posted = s.posted /\ x.editing = s.editing /\ x.busy = s.busy
          /\ x.phase = s.phase
      BY <3>1, <3>2 DEF Placeholder
    <3>5. Told(x)
      BY <1>1, <3>1 DEF Placeholder, Told
    <3> HIDE DEF x
    <3> QED BY <3>3, <3>4, <3>5
  <2>3. CASE TurnEnds(t)
    <3>1. PICK b \in Seq({"ellipsis", "step"}) :
            /\ b = (IF s.line = "answered" THEN s.edits ELSE Append(s.edits, "ellipsis"))
            /\ s.edits # <<>> => b # <<>>
      <4>1. s.edits \in Seq({"ellipsis", "step"})
        BY DEF Placeholder
      <4>2. PICK b \in Seq({"ellipsis", "step"}) : b = Append(s.edits, "ellipsis") /\ b # <<>>
        BY <1>3
      <4> QED BY <4>1, <4>2
    <3> DEFINE x == [s EXCEPT !.phase = After(s), !.line = "closed", !.edits = b]
    <3>2. CloseLine(s) = x
      BY <3>1 DEF CloseLine
    <3>3. /\ turn' = [turn EXCEPT ![t] = x] /\ known' = known /\ theirs' = theirs
          /\ s.phase \in {"fetching", "ready", "running"} /\ ~ s.busy
      BY <1>1, <2>3, <3>2 DEF TurnEnds
    <3>4. /\ x \in Placeholder /\ x.posted = s.posted /\ x.editing = s.editing /\ x.busy = s.busy
          /\ x.phase \in Over
      BY <3>1 DEF Placeholder, After, Over
    <3>5. Told(x)
      BY <1>1, <3>1, <3>4 DEF Placeholder, Told, Over
    <3> HIDE DEF x
    <3> QED BY <3>3, <3>4, <3>5
  <2> QED BY <2>1, <2>2, <2>3
<1>5. PICK r \in Placeholder :
        /\ turn' = [turn EXCEPT ![t] = r] /\ Told(r)
        /\ r.posted = s.posted /\ r.editing = s.editing /\ r.busy = s.busy
        /\ \/ r.phase = s.phase
           \/ s.phase \in {"fetching", "ready"}
           \/ s.phase = "running" /\ ~ s.busy
        /\ (known' = known /\ theirs' = theirs) \/ (known' = Here /\ theirs' = TRUE)
  BY <1>4
<1>6. /\ turn' \in [Turns -> Placeholder] /\ AllTold' /\ turn'[t] = r
      /\ \A m \in Turns : m # t => turn'[m] = turn[m]
  BY <1>1, <1>5, TurnedTo DEF Inv
<1>7. \A v \in TurnWrites : Awaited(v) => Awaited(v)'
  <2>1. /\ turn'[t].posted = turn[t].posted /\ turn'[t].editing = turn[t].editing
        /\ turn[t].phase = "telling" => turn'[t].phase = "telling"
        /\ turn[t].phase = "running" /\ turn[t].busy
             => turn'[t].phase = "running" /\ turn'[t].busy
    BY <1>1, <1>5, <1>6
  <2> QED BY <1>6, <2>1, StillWaits
<1>8. /\ space' \in [Spaces -> QueueOfSpace] /\ Queues' /\ Soles' /\ Requested'
  BY <1>2, <1>7, NothingAsked
<1>9. RemembersTheirSpace' /\ Noted'
  <2>1. Noted'
    BY <1>2, <1>5 DEF Inv, TypeOK, Noted, Spaces
  <2> QED BY <1>5, <2>1, StaysKnown DEF Inv
<1> QED BY <1>6, <1>8, <1>9, Assembled

\* A notice is asked for, and the space it goes to looked up.
LEMMA NoticeKeeps ==
  ASSUME Inv, NoticeAsked \/ Listed \/ LookedUp
  PROVE  Inv'
<1>1. UNCHANGED turn /\ UNCHANGED requests
  BY DEF NoticeAsked, Listed, LookedUp
<1>2. /\ known' \in Spaces \cup {NoSpace}
      /\ (known' = known /\ theirs' = theirs) \/ theirs' = FALSE
      /\ notice' \in {"new", "stored", "listing", "found", "done"}
      /\ \/ UNCHANGED space
         \/ \E s \in Spaces : space' = Asked(space, <<NoTurn, s>>)
  <2>1. CASE NoticeAsked
    <3>1. /\ known' = known /\ theirs' = theirs /\ known \in Spaces \cup {NoSpace}
          /\ notice' \in {"found", "listing", "stored"}
      BY <2>1 DEF NoticeAsked, Inv, TypeOK
    <3>2. PICK s : /\ s = IF HasConversation THEN Here ELSE known
                   /\ space' = IF s = NoSpace THEN space ELSE Asked(space, <<NoTurn, s>>)
      BY <2>1 DEF NoticeAsked
    <3>3. s \in Spaces \cup {NoSpace}
      BY <3>2 DEF Inv, TypeOK, Spaces
    <3> QED BY <3>1, <3>2, <3>3
  <2>2. CASE Listed
    BY <2>2 DEF Listed
  <2>3. CASE LookedUp
    <3>1. Here \in Spaces /\ known \in Spaces \cup {NoSpace}
      BY DEF Spaces, Inv, TypeOK
    <3> QED BY <2>3, <3>1 DEF LookedUp
  <2> QED BY <2>1, <2>2, <2>3
<1>3. /\ turn' \in [Turns -> Placeholder] /\ AllTold'
      /\ \A v \in TurnWrites : Awaited(v) => Awaited(v)'
  BY <1>1, Types DEF Inv, AllTold, Told, Has, Awaited
<1>4. Noted' /\ RemembersTheirSpace'
  <2>1. Noted'
    BY <1>2 DEF Noted, Inv, TypeOK
  <2> QED BY <1>2, <2>1, StaysKnown DEF Inv
<1>5. space' \in [Spaces -> QueueOfSpace] /\ Queues' /\ Soles' /\ Requested'
  <2>1. CASE UNCHANGED space
    BY <1>1, <1>3, <2>1, NothingAsked
  <2>2. ASSUME NEW s \in Spaces, space' = Asked(space, <<NoTurn, s>>)
        PROVE  space' \in [Spaces -> QueueOfSpace] /\ Queues' /\ Soles' /\ Requested'
    <3>1. PICK w \in Writes : w = <<NoTurn, s>>
      BY DEF Writes
    <3>2. w \notin TurnWrites
      <4>1. w[1] = NoTurn
        BY <3>1
      <4> QED BY <4>1, TurnWrite
    <3> QED BY <1>1, <1>3, <2>2, <3>1, <3>2, AskedKeeps
  <2> QED BY <1>2, <2>1, <2>2
<1> QED BY <1>3, <1>4, <1>5, Assembled

-----------------------------------------------------------------------------
(* The theorems.                                                           *)

\* The invariant holds when the app starts.
LEMMA InvStarts == Init => Inv
<1> SUFFICES ASSUME Init PROVE Inv
  OBVIOUS
<1>1. PICK r : r = [phase |-> "new", line |-> "none", posted |-> "no", edits |-> <<>>,
                    editing |-> FALSE, shows |-> "none", missed |-> FALSE, busy |-> FALSE,
                    chunks |-> 0, steps |-> 0, tried |-> FALSE]
  OBVIOUS
<1>2. r \in Placeholder /\ Told(r) /\ r.posted = "no" /\ r.phase = "new" /\ ~ r.editing
  BY <1>1 DEF Placeholder, Told, Has
<1>3. turn = [t \in Turns |-> r]
  BY <1>1 DEF Init
<1>4. turn \in [Turns -> Placeholder] /\ AllTold /\ RemembersTheirSpace
      /\ \A t \in Turns : turn[t] = r
  BY <1>2, <1>3 DEF AllTold, RemembersTheirSpace, Init
<1>5. space = [s \in Spaces |-> [queue |-> <<>>, stage |-> "waits", held |-> FALSE]]
  BY DEF Init
<1>6. space \in [Spaces -> QueueOfSpace] /\ \A s \in Spaces : space[s].queue = <<>> /\ space[s].stage = "waits"
  BY <1>5 DEF QueueOfSpace
<1>7. Queues
  BY <1>6 DEF Queues, Has
<1>8. \A v : ~ Waits(v) /\ Alone(v)
  <2>1. space[Here].queue = <<>>
    BY <1>6 DEF Spaces
  <2> QED BY <2>1 DEF Waits, Alone, Has, Once
<1>9. Soles
  BY <1>8 DEF Soles, Sole, Init
<1>10. TypeOK
  <2>1. known \in Spaces \cup {NoSpace} /\ theirs \in BOOLEAN /\ notice = "new"
    BY DEF Init
  <2>2. out \cup renewing \cup second \subseteq Writes
    BY DEF Init
  <2>3. tries \in [Writes -> 0 .. MaxAttempts] /\ faults \in 0 .. MaxFaults
    BY WorkspaceChatAssumption DEF Init
  <2> QED BY <1>4, <1>6, <2>1, <2>2, <2>3 DEF TypeOK, Placeholder, QueueOfSpace
<1> QED BY <1>4, <1>7, <1>9, <1>10 DEF Inv

\* Every step keeps the invariant.
LEMMA InvKept == Inv /\ [Next]_vars => Inv'
<1> SUFFICES ASSUME Inv, [Next]_vars PROVE Inv'
  OBVIOUS
<1>1. ASSUME NEW s \in Spaces, TurnComes(s) \/ PaceOver(s) \/ Sending(s) PROVE Inv'
  BY <1>1, QueueRuns, LeavesKeeps, NoTokenKeeps DEF Sending
<1>2. ASSUME NEW w \in Writes, Called(w) PROVE Inv'
  BY <1>2, AnswersKeeps, FailsKeeps, RenewalKeeps DEF Called
<1>3. ASSUME NEW t \in Turns,
             \/ Accept(t) \/ OversizeNotice(t) \/ HandOver(t) \/ SendChunk(t)
             \/ ShowStep(t) \/ TurnEnds(t) \/ NextEdit(t)
      PROVE  Inv'
  BY <1>3, AcceptKeeps, OversizeKeeps, ChunkKeeps, NextEditKeeps, TurnGoesOn
<1>4. ASSUME NoticeAsked \/ Listed \/ LookedUp PROVE Inv'
  BY <1>4, NoticeKeeps
<1>5. CASE UNCHANGED vars
  <2>1. UNCHANGED <<turn, known, theirs, notice>> /\ UNCHANGED space /\ UNCHANGED requests
    BY <1>5 DEF vars, requests
  <2>2. /\ turn' \in [Turns -> Placeholder] /\ AllTold' /\ Noted' /\ RemembersTheirSpace'
        /\ \A v \in TurnWrites : Awaited(v) => Awaited(v)'
    BY <2>1, TurnsAlone
  <2>3. space' \in [Spaces -> QueueOfSpace] /\ Queues' /\ Soles' /\ Requested'
    BY <2>1, <2>2, NothingAsked
  <2> QED BY <2>2, <2>3, Assembled
<1> QED BY <1>1, <1>2, <1>3, <1>4, <1>5 DEF Next

\* The invariant, of every behaviour: TurnComes, Leaves and every other step.
THEOREM Invariant == Spec => []Inv
<1>1. Init => Inv
  BY InvStarts
<1>2. Inv /\ [Next]_vars => Inv'
  BY InvKept
<1> QED BY <1>1, <1>2, PTL DEF Spec

\* The state has its type, for any number of messages, attempts and faults.
THEOREM TypeCorrect == Spec => []TypeOK
<1>1. Inv => TypeOK
  BY DEF Inv
<1> QED BY <1>1, Invariant, PTL

\* A turn ends its own placeholder only (answered(), status.close()), however
\* often its writes are refused, sent again or overtaken.
THEOREM OwnLine == Spec => []OwnLineOnly
<1>1. Inv => OwnLineOnly
  BY DEF Inv, AllTold, Told, OwnLineOnly
<1> QED BY <1>1, Invariant, PTL

\* The space the person wrote from stays the one remembered (spaces.known()) when
\* the answer about the space stored before comes after, until Google says that
\* another is the app's only one, or that this one is wrong.
THEOREM TheirSpace == Spec => []RemembersTheirSpace
<1>1. Inv => RemembersTheirSpace
  BY DEF Inv
<1> QED BY <1>1, Invariant, PTL
=============================================================================
