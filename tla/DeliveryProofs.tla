--------------------------- MODULE DeliveryProofs ---------------------------
(***************************************************************************)
(* What holds of the delivery for any people, senders and chunks, and any  *)
(* number of retries, faults and adapters: everything written is in one    *)
(* place, nobody reads a text twice or out of order, and what is sent goes *)
(* behind what is kept.                                                    *)
(***************************************************************************)
EXTENDS Delivery, FiniteSetTheorems, SequenceTheorems, TLAPS

In(q, y) == \E i \in 1 .. Len(q) : q[i] = y
Distinct(q) == \A i, j \in 1 .. Len(q) : q[i] = q[j] => i = j

\* The reply the first delivery of a line has in hand.
Carrying(q) == IF q = <<>> THEN <<>> ELSE q[1].hand

\* Where a message can be.
Wheres == {"queue", "hand", "kept", "carried", "done", "dropped", "cut"}

InQueue(m) == In(queue[m.from], m)
InHand(m) == hand[m.from] = <<m>>
IsKept(m) == In(kept[Person[m.from]], m)
IsCarried(m) == Carrying(running[Person[m.from]]) = <<m>>

\* m is in place w and in no other.
IsIn(m, w) ==
  /\ InQueue(m) <=> w = "queue"
  /\ InHand(m) <=> w = "hand"
  /\ IsKept(m) <=> w = "kept"
  /\ IsCarried(m) <=> w = "carried"
  /\ m \in done <=> w = "done"
  /\ m \in dropped <=> w = "dropped"
  /\ m \in cut <=> w = "cut"

\* What was written is in one place, what was not is in none.
Placed(m) == IF m \in wrote THEN \E w \in Wheres : IsIn(m, w) ELSE IsIn(m, "unwritten")

OnePlace == \A m \in Messages : Placed(m)

\* No list holds a message twice, and each holds its own sender's or person's.
Lists ==
  /\ \A s \in Senders : Distinct(queue[s]) /\ \A m \in Messages : In(queue[s], m) => m.from = s
  /\ \A p \in People : Distinct(kept[p]) /\ \A m \in Messages : In(kept[p], m) => Person[m.from] = p

\* A sender has a chunk in hand while it is at work on it.
AtWork == {"begin", "behind", "sending", "ahead", "backoff"}

Hands ==
  \A s \in Senders : IF at[s] \in AtWork THEN \E m \in Messages : hand[s] = <<m>> /\ m.from = s
                     ELSE hand[s] = <<>>

\* Only the first delivery of a line has a reply in hand; a sender that awaits a
\* delivery awaits no other.
Line(q, p) ==
  /\ \A i \in 1 .. Len(q) :
       \/ q[i].hand = <<>>
       \/ i = 1 /\ \E m \in Messages : q[i].hand = <<m>> /\ Person[m.from] = p
  /\ \A i \in 1 .. Len(q) : q[i].waiter # None =>
       /\ Person[q[i].waiter] = p
       /\ \A j \in 1 .. Len(q) : q[j].waiter = q[i].waiter => j = i

Lines ==
  \A p \in People :
    /\ Line(running[p], p)
    /\ \A i \in 1 .. Len(running[p]) :
         running[p][i].waiter # None => at[running[p][i].waiter] \in {"behind", "after"}

\* The chunks of a sender, numbered as they were written.
Chunks(s) == {m \in wrote : m.from = s /\ m.kind # "marker"}

Numbered ==
  \A s \in Senders :
    /\ IsFiniteSet(Chunks(s))
    /\ \A m \in Chunks(s) : m.n <= Cardinality(Chunks(s))
    /\ \A m, o \in Chunks(s) : m.n = o.n => m = o

\* A failure marker is about a chunk that was lost, and only a queue that lost one
\* has it.
Marked ==
  /\ \A k \in wrote : k.kind = "marker" =>
       \E m \in dropped : m.from = k.from /\ m.n = k.n /\ m.kind # "marker"
  /\ \A s \in Senders :
       /\ lost[s] => s \notin Direct
       /\ \A m \in Messages : (In(queue[s], m) \/ hand[s] = <<m>>) /\ m.kind = "marker" => lost[s]

\* Of what a person reads, the channel took the message.
Taken == \A p \in People : \A i \in Texts(p) : received[p][i].of \in done

Inv == TypeOK /\ OnePlace /\ Lists /\ Hands /\ Lines /\ Numbered /\ Marked /\ Taken /\ NothingTwice

-----------------------------------------------------------------------------
(* Sequences.                                                              *)

\* What is behind the last of a sequence.
LEMMA Appended ==
  ASSUME NEW S, NEW q \in Seq(S), NEW m \in S
  PROVE  /\ Append(q, m) \in Seq(S) /\ Append(q, m) # <<>>
         /\ \A y : In(Append(q, m), y) <=> In(q, y) \/ y = m
         /\ Distinct(q) /\ ~ In(q, m) => Distinct(Append(q, m))
<1>1. /\ Append(q, m) \in Seq(S) /\ Len(Append(q, m)) = Len(q) + 1
      /\ Append(q, m)[Len(q) + 1] = m /\ Len(q) \in Nat
      /\ \A i \in 1 .. Len(q) : Append(q, m)[i] = q[i]
  OBVIOUS
<1> DEFINE r == Append(q, m)
<1> HIDE DEF r
<1>2. \A i \in 1 .. Len(r) : i = Len(q) + 1 \/ i \in 1 .. Len(q)
  BY <1>1 DEF r
<1>3. Len(q) + 1 \in 1 .. Len(r) /\ 1 .. Len(q) \subseteq 1 .. Len(r)
  BY <1>1 DEF r
<1>4. \A y : In(r, y) <=> In(q, y) \/ y = m
  <2>1. ASSUME NEW y, In(r, y) PROVE In(q, y) \/ y = m
    BY <1>1, <1>2, <2>1 DEF In, r
  <2>2. ASSUME NEW y, In(q, y) \/ y = m PROVE In(r, y)
    BY <1>1, <1>3, <2>2 DEF In, r
  <2> QED BY <2>1, <2>2
<1>5. ASSUME Distinct(q), ~ In(q, m) PROVE Distinct(r)
  BY <1>1, <1>2, <1>5 DEF In, Distinct, r
<1>6. r # <<>>
  BY <1>1 DEF r
<1> QED
  BY <1>1, <1>4, <1>5, <1>6 DEF r

\* What is in front of the first.
LEMMA Prepended ==
  ASSUME NEW S, NEW q \in Seq(S), NEW m \in S
  PROVE  /\ <<m>> \o q \in Seq(S)
         /\ \A y : In(<<m>> \o q, y) <=> In(q, y) \/ y = m
         /\ Distinct(q) /\ ~ In(q, m) => Distinct(<<m>> \o q)
<1>1. /\ <<m>> \o q \in Seq(S) /\ Len(<<m>> \o q) = Len(q) + 1 /\ Len(q) \in Nat
      /\ (<<m>> \o q)[1] = m
      /\ \A i \in 2 .. Len(q) + 1 : (<<m>> \o q)[i] = q[i - 1]
  OBVIOUS
<1> DEFINE r == <<m>> \o q
<1> HIDE DEF r
<1>2. \A i \in 1 .. Len(r) : i = 1 \/ (i \in 2 .. Len(r) /\ i - 1 \in 1 .. Len(q) /\ r[i] = q[i - 1])
  BY <1>1 DEF r
<1>3. 1 \in 1 .. Len(r) /\ r[1] = m
  BY <1>1 DEF r
<1>4. \A y : In(r, y) <=> In(q, y) \/ y = m
  <2>1. ASSUME NEW y, In(r, y) PROVE In(q, y) \/ y = m
    BY <1>2, <1>3, <2>1 DEF In
  <2>2. ASSUME NEW y, In(q, y) PROVE In(r, y)
    <3>1. PICK i \in 1 .. Len(q) : q[i] = y
      BY <2>2 DEF In
    <3>2. i + 1 \in 1 .. Len(r) /\ r[i + 1] = q[i]
      BY <1>1 DEF r
    <3> QED
      BY <3>1, <3>2 DEF In
  <2> QED BY <1>3, <2>1, <2>2 DEF In
<1>5. ASSUME Distinct(q), ~ In(q, m) PROVE Distinct(r)
  <2> SUFFICES ASSUME NEW i \in 1 .. Len(r), NEW j \in 1 .. Len(r), r[i] = r[j] PROVE i = j
    BY DEF Distinct
  <2>1. CASE i = 1 \/ j = 1
    BY <1>2, <1>3, <1>5, <2>1 DEF In
  <2>2. CASE i # 1 /\ j # 1
    <3>1. i - 1 = j - 1
      BY <1>2, <1>5, <2>2 DEF Distinct
    <3> QED
      BY <3>1
  <2> QED BY <2>1, <2>2
<1> QED
  BY <1>1, <1>4, <1>5 DEF r

\* What is left without the first.
LEMMA Tailed ==
  ASSUME NEW S, NEW q \in Seq(S), q # <<>>
  PROVE  /\ Head(q) \in S /\ Head(q) = q[1] /\ Tail(q) \in Seq(S) /\ In(q, Head(q))
         /\ Distinct(q) => Distinct(Tail(q)) /\ \A y : In(Tail(q), y) <=> In(q, y) /\ y # Head(q)
<1>1. /\ Head(q) \in S /\ Head(q) = q[1] /\ Tail(q) \in Seq(S) /\ Len(q) \in Nat /\ Len(q) # 0
      /\ Len(Tail(q)) = Len(q) - 1
      /\ \A i \in 1 .. Len(q) - 1 : Tail(q)[i] = q[i + 1]
  OBVIOUS
<1> DEFINE r == Tail(q)
<1> HIDE DEF r
<1>2. 1 \in 1 .. Len(q) /\ \A i \in 1 .. Len(q) : i = 1 \/ (i - 1 \in 1 .. Len(r) /\ r[i - 1] = q[i])
  <2>1. ASSUME NEW i \in 1 .. Len(q), i # 1 PROVE i - 1 \in 1 .. Len(r) /\ r[i - 1] = q[i]
    <3>1. i - 1 \in 1 .. Len(q) - 1 /\ (i - 1) + 1 = i
      BY <1>1, <2>1
    <3> QED
      BY <1>1, <3>1 DEF r
  <2>2. 1 \in 1 .. Len(q)
    BY <1>1
  <2> QED
    BY <2>1, <2>2
<1>3. \A i \in 1 .. Len(r) : i + 1 \in 1 .. Len(q) /\ i + 1 # 1 /\ r[i] = q[i + 1]
  BY <1>1 DEF r
<1>4. ASSUME Distinct(q) PROVE Distinct(r)
  <2> SUFFICES ASSUME NEW i \in 1 .. Len(r), NEW j \in 1 .. Len(r), r[i] = r[j] PROVE i = j
    BY DEF Distinct
  <2>1. i + 1 = j + 1
    BY <1>3, <1>4 DEF Distinct
  <2> QED BY <2>1
<1>5. ASSUME Distinct(q), NEW y PROVE In(r, y) <=> In(q, y) /\ y # q[1]
  <2>1. ASSUME In(r, y) PROVE In(q, y) /\ y # q[1]
    BY <1>2, <1>3, <1>5, <2>1 DEF In, Distinct
  <2>2. ASSUME In(q, y), y # q[1] PROVE In(r, y)
    BY <1>2, <2>2 DEF In
  <2> QED BY <2>1, <2>2
<1> QED
  BY <1>1, <1>2, <1>4, <1>5 DEF r, In

-----------------------------------------------------------------------------
(* The lines of deliveries.                                                *)

\* A delivery that has nothing in hand and is awaited by nobody in the line joins it.
LEMMA LineGrows ==
  ASSUME NEW p, NEW q \in Seq(Deliveries), Line(q, p), NEW d \in Deliveries, d.hand = <<>>,
         d.waiter # None => Person[d.waiter] = p /\ \A i \in 1 .. Len(q) : q[i].waiter # d.waiter
  PROVE  /\ Line(Append(q, d), p) /\ Carrying(Append(q, d)) = Carrying(q)
         /\ Append(q, d) \in Seq(Deliveries)
         /\ \A i \in 1 .. Len(Append(q, d)) :
              Append(q, d)[i] = d \/ \E j \in 1 .. Len(q) : Append(q, d)[i] = q[j]
<1>1. /\ Append(q, d) \in Seq(Deliveries) /\ Len(Append(q, d)) = Len(q) + 1
      /\ Append(q, d)[Len(q) + 1] = d /\ Len(q) \in Nat
      /\ \A i \in 1 .. Len(q) : Append(q, d)[i] = q[i]
  OBVIOUS
<1> DEFINE r == Append(q, d)
<1> HIDE DEF r
<1>2. \A i \in 1 .. Len(r) : i = Len(q) + 1 \/ i \in 1 .. Len(q)
  BY <1>1 DEF r
<1>3. \A i \in 1 .. Len(r) :
        \/ r[i].hand = <<>>
        \/ i = 1 /\ \E m \in Messages : r[i].hand = <<m>> /\ Person[m.from] = p
  BY <1>1, <1>2 DEF Line, r
<1>4. ASSUME NEW i \in 1 .. Len(r), r[i].waiter # None
      PROVE  /\ Person[r[i].waiter] = p
             /\ \A j \in 1 .. Len(r) : r[j].waiter = r[i].waiter => j = i
  BY <1>1, <1>2, <1>4 DEF Line, r
<1>5. Carrying(r) = Carrying(q)
  <2>1. CASE q = <<>>
    BY <1>1, <2>1 DEF Carrying, r
  <2>2. CASE q # <<>>
    BY <1>1, <2>2 DEF Carrying, r
  <2> QED BY <2>1, <2>2
<1> QED
  BY <1>1, <1>2, <1>3, <1>4, <1>5 DEF Line, r

\* The first of the line returns.
LEMMA LineShrinks ==
  ASSUME NEW p, NEW q \in Seq(Deliveries), Line(q, p), q # <<>>
  PROVE  /\ Tail(q) \in Seq(Deliveries) /\ Line(Tail(q), p) /\ Carrying(Tail(q)) = <<>>
         /\ \A i \in 1 .. Len(Tail(q)) : Tail(q)[i].hand = <<>>
         /\ \A i \in 1 .. Len(Tail(q)) : \E j \in 1 .. Len(q) : Tail(q)[i] = q[j]
         /\ Head(q).waiter # None => \A i \in 1 .. Len(Tail(q)) : Tail(q)[i].waiter # Head(q).waiter
<1>1. /\ Head(q) = q[1] /\ Tail(q) \in Seq(Deliveries) /\ Len(q) \in Nat /\ Len(q) # 0
      /\ Len(Tail(q)) = Len(q) - 1
      /\ \A i \in 1 .. Len(q) - 1 : Tail(q)[i] = q[i + 1]
  OBVIOUS
<1> DEFINE r == Tail(q)
<1> HIDE DEF r
<1>2. 1 \in 1 .. Len(q) /\ \A i \in 1 .. Len(r) : i + 1 \in 1 .. Len(q) /\ i + 1 # 1 /\ r[i] = q[i + 1]
  BY <1>1 DEF r
<1>3. \A i \in 1 .. Len(r) : r[i].hand = <<>>
  BY <1>2 DEF Line
<1>4. ASSUME NEW i \in 1 .. Len(r), r[i].waiter # None
      PROVE  /\ Person[r[i].waiter] = p
             /\ \A j \in 1 .. Len(r) : r[j].waiter = r[i].waiter => j = i
  <2>1. ASSUME NEW j \in 1 .. Len(r), r[j].waiter = r[i].waiter PROVE j = i
    <3>1. j + 1 = i + 1
      BY <1>2, <1>4, <2>1 DEF Line
    <3> QED BY <3>1
  <2> QED
    BY <1>2, <1>4, <2>1 DEF Line
<1>5. Carrying(r) = <<>>
  <2>1. CASE r = <<>>
    BY <2>1 DEF Carrying
  <2>2. CASE r # <<>>
    <3>1. 1 \in 1 .. Len(r)
      BY <1>1, <2>2 DEF r
    <3> QED
      BY <1>3, <2>2, <3>1 DEF Carrying
  <2> QED BY <2>1, <2>2
<1>6. q[1].waiter # None => \A i \in 1 .. Len(r) : r[i].waiter # q[1].waiter
  BY <1>2 DEF Line
<1> QED
  BY <1>1, <1>2, <1>3, <1>4, <1>5, <1>6 DEF Line, r

\* The first of the line goes on with another reply in hand, or none.
LEMMA LineGoesOn ==
  ASSUME NEW p, NEW q \in Seq(Deliveries), Line(q, p), q # <<>>, NEW d \in Deliveries,
         d.waiter = q[1].waiter,
         d.hand = <<>> \/ \E m \in Messages : d.hand = <<m>> /\ Person[m.from] = p
  PROVE  /\ [q EXCEPT ![1] = d] \in Seq(Deliveries) /\ Line([q EXCEPT ![1] = d], p)
         /\ Carrying([q EXCEPT ![1] = d]) = d.hand
         /\ Len([q EXCEPT ![1] = d]) = Len(q)
         /\ \A i \in 1 .. Len(q) : [q EXCEPT ![1] = d][i].waiter = q[i].waiter
<1> DEFINE r == [q EXCEPT ![1] = d]
<1>1. /\ r \in Seq(Deliveries) /\ Len(r) = Len(q) /\ 1 \in 1 .. Len(q) /\ r[1] = d
      /\ \A i \in 1 .. Len(q) : i # 1 => r[i] = q[i]
  OBVIOUS
<1> HIDE DEF r
<1>2. r # <<>>
  BY <1>1
<1> QED
  BY <1>1, <1>2 DEF Line, Carrying, r

\* A line of deliveries for each person.
GoodLines(run) == run \in [People -> Seq(Deliveries)] /\ \A p \in People : Line(run[p], p)

\* The deliveries of everything kept put one with no reply in hand, awaited by
\* nobody, behind the others.
LEMMA DeliversKept ==
  ASSUME NEW run, GoodLines(run), NEW kp, NEW mk, NEW ag, NEW up, adapter \in Adapters
  PROVE  /\ GoodLines(DeliverKeptFor(run, kp, mk, ag, up))
         /\ \A p \in People :
              /\ Carrying(DeliverKeptFor(run, kp, mk, ag, up)[p]) = Carrying(run[p])
              /\ \A i \in 1 .. Len(DeliverKeptFor(run, kp, mk, ag, up)[p]) :
                   \/ DeliverKeptFor(run, kp, mk, ag, up)[p][i].waiter = None
                   \/ \E j \in 1 .. Len(run[p]) :
                        DeliverKeptFor(run, kp, mk, ag, up)[p][i] = run[p][j]
<1> DEFINE r == DeliverKeptFor(run, kp, mk, ag, up)
           d == Delivery(adapter, None)
<1>1. r \in [People -> {r[p] : p \in People}] /\ \A p \in People :
        r[p] = run[p] \/ (adapter # None /\ r[p] = Append(run[p], d))
  BY DEF DeliverKeptFor
<1>2. DOMAIN r = People
  BY DEF DeliverKeptFor
<1> HIDE DEF r
<1>3. ASSUME NEW p \in People
      PROVE  /\ r[p] \in Seq(Deliveries) /\ Line(r[p], p) /\ Carrying(r[p]) = Carrying(run[p])
             /\ \A i \in 1 .. Len(r[p]) :
                  r[p][i].waiter = None \/ \E j \in 1 .. Len(run[p]) : r[p][i] = run[p][j]
  <2>1. run[p] \in Seq(Deliveries) /\ Line(run[p], p)
    BY DEF GoodLines
  <2>2. CASE r[p] = run[p]
    BY <2>1, <2>2
  <2>3. CASE adapter # None /\ r[p] = Append(run[p], d)
    <3>1. d \in Deliveries /\ d.hand = <<>> /\ d.waiter = None
      BY <2>3 DEF Delivery, Deliveries
    <3> HIDE DEF d
    <3> QED
      BY <2>1, <2>3, <3>1, LineGrows
  <2> QED
    BY <1>1, <2>2, <2>3
<1> QED
  BY <1>1, <1>3 DEF GoodLines, r

-----------------------------------------------------------------------------
(* Messages and what is received of them.                                  *)

\* A chunk within the bound is a message.
LEMMA Chunked ==
  ASSUME NEW s \in Senders, NEW n \in 1 .. MaxChunks[s], NEW k \in Kinds \cup {"marker"}
  PROVE  Message(s, n, k) \in Messages
BY DEF Message, Messages

\* What a message says of its sender and its person.
LEMMA AboutMessages ==
  ASSUME NEW m \in Messages
  PROVE  /\ m.from \in Senders /\ m.n \in Nat /\ Person[m.from] \in People
         /\ m.kind \in Kinds \cup {"marker"}
BY DeliveryAssumption DEF Messages

\* So is a failure marker.
LEMMA MarkerIsAMessage ==
  ASSUME NEW m \in Messages
  PROVE  /\ Marker(m) \in Messages /\ m.from \in Senders /\ m.n \in Nat
         /\ Marker(m).from = m.from /\ Marker(m).n = m.n /\ Marker(m).kind = "marker"
BY DeliveryAssumption DEF Marker, Message, Messages

Parts == {"text", "file", "told"}
Receipts == [of : Messages, part : Parts]

\* What a send leaves with a person: at most one text, and one only of a message
\* the channel took.
LEMMA PostsOfASend ==
  ASSUME NEW kind, NEW reaches, NEW carried, NEW o \in Sent(kind, reaches, carried)
  PROVE  /\ o.posts \in Seq(Parts)
         /\ \A i \in 1 .. Len(o.posts) : o.posts[i] = "text" => i = 1 /\ o.answer = "ok"
<1>1. PICK a \in Answers(kind, reaches) : \E g \in FilePosts(kind, a, reaches, carried) :
        o = [answer |-> a,
             posts |-> (IF kind \notin {"file", "withheld"} /\ a = "ok" THEN <<"text">> ELSE <<>>) \o g]
  BY DEF Sent
<1>2. PICK f \in FilePosts(kind, a, reaches, carried) :
        o = [answer |-> a,
             posts |-> (IF kind \notin {"file", "withheld"} /\ a = "ok" THEN <<"text">> ELSE <<>>) \o f]
  BY <1>1
<1>3. f = <<>> \/ f = <<"told">> \/ f = <<"file">>
  BY DEF FilePosts
<1> DEFINE t == IF kind \notin {"file", "withheld"} /\ a = "ok" THEN <<"text">> ELSE <<>>
<1>4. t = <<>> \/ (t = <<"text">> /\ a = "ok")
  OBVIOUS
<1>5. o.posts = t \o f /\ o.answer = a
  BY <1>2
<1> HIDE DEF t
<1>6. f \in Seq(Parts) /\ \A i \in 1 .. Len(f) : f[i] # "text"
  <2>1. /\ <<>> \in Seq(Parts) /\ Len(<<>>) = 0
        /\ \A x \in Parts : <<x>> \in Seq(Parts) /\ Len(<<x>>) = 1 /\ <<x>>[1] = x
    OBVIOUS
  <2>2. "text" \in Parts /\ "told" \in Parts /\ "file" \in Parts
    BY DEF Parts
  <2>3. CASE f = <<>>
    BY <2>1, <2>3
  <2>4. ASSUME NEW x \in {"told", "file"}, f = <<x>> PROVE f \in Seq(Parts) /\ \A i \in 1 .. Len(f) : f[i] # "text"
    <3>1. x \in Parts /\ x # "text"
      BY <2>2
    <3>2. f \in Seq(Parts) /\ Len(f) = 1 /\ f[1] = x
      BY <2>1, <2>4, <3>1
    <3> QED
      BY <3>1, <3>2
  <2> QED
    BY <1>3, <2>3, <2>4
<1>7. t \in Seq(Parts) /\ \A i \in 1 .. Len(t) : i = 1 /\ a = "ok"
  <2>1. /\ <<>> \in Seq(Parts) /\ Len(<<>>) = 0
        /\ \A x \in Parts : <<x>> \in Seq(Parts) /\ Len(<<x>>) = 1
    OBVIOUS
  <2>2. "text" \in Parts
    BY DEF Parts
  <2>3. CASE t = <<>>
    BY <2>1, <2>3
  <2>4. CASE t = <<"text">> /\ a = "ok"
    <3>1. t \in Seq(Parts) /\ Len(t) = 1
      BY <2>1, <2>2, <2>4
    <3> QED
      BY <2>4, <3>1
  <2> QED
    BY <1>4, <2>3, <2>4
<1>8. /\ t \o f \in Seq(Parts) /\ Len(t \o f) = Len(t) + Len(f) /\ Len(t) \in Nat /\ Len(f) \in Nat
      /\ \A i \in 1 .. Len(t) + Len(f) : (t \o f)[i] = IF i <= Len(t) THEN t[i] ELSE f[i - Len(t)]
  BY <1>6, <1>7, ConcatProperties
<1>9. ASSUME NEW i \in 1 .. Len(t \o f), (t \o f)[i] = "text" PROVE i = 1 /\ a = "ok"
  <2>1. CASE i \in 1 .. Len(t)
    BY <1>7, <2>1
  <2>2. CASE i \notin 1 .. Len(t)
    <3>1. i - Len(t) \in 1 .. Len(f) /\ (t \o f)[i] = f[i - Len(t)]
      BY <1>8, <2>2
    <3> QED
      BY <1>6, <1>9, <3>1
  <2> QED
    BY <2>1, <2>2
<1> QED
  BY <1>5, <1>8, <1>9

\* What a person has read after a send: what they had, and at most one text more, of
\* a message the channel took.
LEMMA ReadOfASend ==
  ASSUME TypeOK, NEW p \in People, NEW m, m \in Messages, NEW n, NEW answer, Outcome(m, n, p, answer)
  PROVE  /\ received' \in [People -> Seq(Receipts)]
         /\ \A x \in People : x # p => received'[x] = received[x] /\ Texts(x)' = Texts(x)
         /\ \A i \in Texts(p)' :
              \/ i \in Texts(p) /\ received'[p][i] = received[p][i]
              \/ i = Len(received[p]) + 1 /\ received'[p][i].of = m /\ answer = "ok"
         /\ \A i \in Texts(p) : i \in Nat /\ i <= Len(received[p])
         /\ Len(received[p]) \in Nat
<1>1. PICK o \in Sent(m.kind, p \in reachable, CanCarry(n)) :
        o.answer = answer /\ received' = [received EXCEPT ![p] = @ \o Posts(m, o.posts)]
  BY DEF Outcome
<1> DEFINE b == Posts(m, o.posts)
           q == received[p]
           r == q \o b
<1>2. /\ o.posts \in Seq(Parts) /\ Len(o.posts) \in Nat
      /\ \A i \in 1 .. Len(o.posts) : o.posts[i] = "text" => i = 1 /\ answer = "ok"
  BY <1>1, PostsOfASend
<1>3. /\ b \in Seq(Receipts) /\ Len(b) = Len(o.posts)
      /\ \A i \in 1 .. Len(b) : b[i].of = m /\ b[i].part = o.posts[i]
  <2>1. DOMAIN o.posts = 1 .. Len(o.posts) /\ \A i \in 1 .. Len(o.posts) : o.posts[i] \in Parts
    BY <1>2
  <2>2. b \in [1 .. Len(o.posts) -> Receipts]
    BY <2>1 DEF Posts, Receipts
  <2>3. b \in Seq(Receipts) /\ Len(b) = Len(o.posts)
    BY <1>2, <2>2, SeqDef, LenProperties
  <2> QED
    BY <2>1, <2>3 DEF Posts
<1>4. q \in Seq(Receipts) /\ Len(q) \in Nat
  <2>1. received \in [People -> Seq(Receipts)]
    BY DEF TypeOK, Receipts, Parts
  <2>2. q \in Seq(Receipts)
    BY <2>1
  <2> QED
    BY <2>2
<1> HIDE DEF b, q
<1>5. /\ r \in Seq(Receipts) /\ Len(r) = Len(q) + Len(b)
      /\ \A i \in 1 .. Len(q) + Len(b) : r[i] = IF i <= Len(q) THEN q[i] ELSE b[i - Len(q)]
  <2>1. b \in Seq(Receipts) /\ q \in Seq(Receipts)
    BY <1>3, <1>4
  <2> QED
    BY <2>1, ConcatProperties
<1> HIDE DEF r
<1>6. \A i \in 1 .. Len(r) :
        \/ i \in 1 .. Len(q) /\ r[i] = q[i]
        \/ i - Len(q) \in 1 .. Len(b) /\ r[i].of = m /\ r[i].part = o.posts[i - Len(q)]
  <2> SUFFICES ASSUME NEW i \in 1 .. Len(r)
               PROVE  \/ i \in 1 .. Len(q) /\ r[i] = q[i]
                      \/ i - Len(q) \in 1 .. Len(b) /\ r[i].of = m /\ r[i].part = o.posts[i - Len(q)]
    OBVIOUS
  <2>1. CASE i <= Len(q)
    BY <1>3, <1>4, <1>5, <2>1
  <2>2. CASE ~ i <= Len(q)
    <3>1. i - Len(q) \in 1 .. Len(b) /\ r[i] = b[i - Len(q)]
      BY <1>2, <1>3, <1>4, <1>5, <2>2
    <3> QED
      BY <1>3, <3>1
  <2> QED
    BY <2>1, <2>2
<1>7. received' = [received EXCEPT ![p] = r]
  BY <1>1 DEF q, r, b
<1>8. received' \in [People -> Seq(Receipts)]
  BY <1>5, <1>7 DEF TypeOK, Receipts, Parts
<1>9. \A i \in 1 .. Len(r) : r[i].part = "text" =>
        \/ i \in Texts(p) /\ r[i] = q[i]
        \/ i = Len(q) + 1 /\ r[i].of = m /\ answer = "ok"
  <2> SUFFICES ASSUME NEW i \in 1 .. Len(r), r[i].part = "text", i \notin 1 .. Len(q)
               PROVE  i = Len(q) + 1 /\ r[i].of = m /\ answer = "ok"
    BY <1>4, <1>6 DEF Texts, q
  <2>1. i - Len(q) \in 1 .. Len(b) /\ r[i].of = m /\ o.posts[i - Len(q)] = "text"
    BY <1>6
  <2>2. i - Len(q) = 1 /\ answer = "ok"
    BY <1>2, <1>3, <2>1
  <2> QED
    BY <1>4, <2>1, <2>2
<1>10. \A x \in People : x # p => received'[x] = received[x] /\ Texts(x)' = Texts(x)
  BY <1>7 DEF Texts
<1>11. received'[p] = r /\ \A i \in Texts(p)' : i \in 1 .. Len(r) /\ r[i].part = "text"
  BY <1>5, <1>7 DEF TypeOK, Texts
<1>12. \A i \in Texts(p)' :
         \/ i \in Texts(p) /\ received'[p][i] = received[p][i]
         \/ i = Len(received[p]) + 1 /\ received'[p][i].of = m /\ answer = "ok"
  BY <1>9, <1>11 DEF q
<1>13. \A i \in Texts(p) : i \in Nat /\ i <= Len(received[p])
  BY <1>4 DEF Texts, q
<1>14. Len(received[p]) \in Nat
  BY <1>4 DEF q
<1> QED
  BY <1>8, <1>10, <1>12, <1>13, <1>14

\* The answer to a send of a message the channel had not taken.
LEMMA Answered ==
  ASSUME TypeOK, Taken, NothingTwice, NEW p \in People, NEW m \in Messages, m \notin done,
         NEW n, NEW answer, Outcome(m, n, p, answer), done \subseteq done',
         answer = "ok" => m \in done'
  PROVE  /\ received' \in [People -> Seq(Receipts)] /\ faults' \in 0 .. MaxFaults
         /\ Taken' /\ NothingTwice'
<1>1. /\ received' \in [People -> Seq(Receipts)]
      /\ \A x \in People : x # p => received'[x] = received[x] /\ Texts(x)' = Texts(x)
      /\ \A i \in Texts(p)' :
           \/ i \in Texts(p) /\ received'[p][i] = received[p][i]
           \/ i = Len(received[p]) + 1 /\ received'[p][i].of = m /\ answer = "ok"
  BY ReadOfASend
<1>2. \A i \in Texts(p) : received[p][i].of \in done
  BY DEF Taken
<1>3. Taken'
  <2>1. \A x \in People : x # p => \A i \in Texts(x)' : received'[x][i].of \in done'
    BY <1>1 DEF Taken
  <2>2. \A i \in Texts(p)' : received'[p][i].of \in done'
    BY <1>1, <1>2
  <2> QED
    BY <2>1, <2>2 DEF Taken
<1>4. NothingTwice'
  <2>1. \A x \in People : x # p => \A i, j \in Texts(x)' :
          received'[x][i].of = received'[x][j].of => i = j
    BY <1>1 DEF NothingTwice
  <2>2. \A i, j \in Texts(p) : received[p][i].of = received[p][j].of => i = j
    BY DEF NothingTwice
  <2>3. \A i, j \in Texts(p)' : received'[p][i].of = received'[p][j].of => i = j
    BY <1>1, <1>2, <2>2
  <2> QED
    BY <2>1, <2>3 DEF NothingTwice
<1>5. faults' \in 0 .. MaxFaults
  BY DeliveryAssumption DEF Outcome, Faulty, TypeOK
<1> QED
  BY <1>1, <1>3, <1>4, <1>5

-----------------------------------------------------------------------------
(* The lines of all the people.                                            *)

\* Of two states of the lines, the later has good lines and nobody awaits a
\* delivery who did not.
Follows(run, new) ==
  /\ GoodLines(new)
  /\ \A p \in People : \A i \in 1 .. Len(new[p]) :
       new[p][i].waiter = None \/ \E j \in 1 .. Len(run[p]) : run[p][j].waiter = new[p][i].waiter

\* Everything kept is delivered.
LEMMA KeptFollow ==
  ASSUME NEW run, GoodLines(run), NEW kp, NEW mk, NEW ag, NEW up, adapter \in Adapters
  PROVE  /\ Follows(run, DeliverKeptFor(run, kp, mk, ag, up))
         /\ \A p \in People :
              Carrying(DeliverKeptFor(run, kp, mk, ag, up)[p]) = Carrying(run[p])
<1> DEFINE r == DeliverKeptFor(run, kp, mk, ag, up)
<1>1. /\ GoodLines(r)
      /\ \A p \in People :
           /\ Carrying(r[p]) = Carrying(run[p])
           /\ \A i \in 1 .. Len(r[p]) :
                r[p][i].waiter = None \/ \E j \in 1 .. Len(run[p]) : r[p][i] = run[p][j]
  BY DeliversKept
<1> HIDE DEF r
<1>2. Follows(run, r)
  BY <1>1 DEF Follows
<1> QED
  BY <1>1, <1>2 DEF r

\* The first delivery of a line goes on.
LEMMA GoesOn ==
  ASSUME NEW run, GoodLines(run), NEW p \in People, run[p] # <<>>, NEW d \in Deliveries,
         d.waiter = run[p][1].waiter,
         d.hand = <<>> \/ \E m \in Messages : d.hand = <<m>> /\ Person[m.from] = p
  PROVE  LET new == [run EXCEPT ![p] = [run[p] EXCEPT ![1] = d]] IN
           /\ Follows(run, new) /\ Carrying(new[p]) = d.hand
           /\ \A q \in People \ {p} : new[q] = run[q]
<1> DEFINE l == [run[p] EXCEPT ![1] = d]
           new == [run EXCEPT ![p] = l]
<1>1. run \in [People -> Seq(Deliveries)] /\ \A q \in People : Line(run[q], q)
  BY DEF GoodLines
<1>2. /\ l \in Seq(Deliveries) /\ Line(l, p) /\ Carrying(l) = d.hand /\ Len(l) = Len(run[p])
      /\ \A i \in 1 .. Len(run[p]) : l[i].waiter = run[p][i].waiter
  BY <1>1, LineGoesOn
<1> HIDE DEF l
<1>3. new \in [People -> Seq(Deliveries)] /\ new[p] = l /\ \A q \in People \ {p} : new[q] = run[q]
  BY <1>1, <1>2
<1> HIDE DEF new
<1>4. GoodLines(new)
  BY <1>1, <1>2, <1>3 DEF GoodLines
<1>5. Follows(run, new)
  BY <1>2, <1>3, <1>4 DEF Follows
<1> QED
  BY <1>2, <1>3, <1>5 DEF new, l

\* It returns.
LEMMA Returned ==
  ASSUME NEW run, GoodLines(run), NEW p \in People, run[p] # <<>>
  PROVE  LET new == [run EXCEPT ![p] = Tail(@)] IN
           /\ Follows(run, new) /\ Carrying(new[p]) = <<>>
           /\ \A i \in 1 .. Len(new[p]) : new[p][i].hand = <<>>
           /\ Head(run[p]).waiter # None =>
                \A i \in 1 .. Len(new[p]) : new[p][i].waiter # Head(run[p]).waiter
           /\ \A q \in People \ {p} : new[q] = run[q]
<1> DEFINE l == Tail(run[p])
           new == [run EXCEPT ![p] = l]
<1>1. run \in [People -> Seq(Deliveries)] /\ \A q \in People : Line(run[q], q)
  BY DEF GoodLines
<1>2. /\ l \in Seq(Deliveries) /\ Line(l, p) /\ Carrying(l) = <<>>
      /\ \A i \in 1 .. Len(l) : l[i].hand = <<>>
      /\ \A i \in 1 .. Len(l) : \E j \in 1 .. Len(run[p]) : l[i] = run[p][j]
      /\ Head(run[p]).waiter # None => \A i \in 1 .. Len(l) : l[i].waiter # Head(run[p]).waiter
  BY <1>1, LineShrinks
<1> HIDE DEF l
<1>3. new \in [People -> Seq(Deliveries)] /\ new[p] = l /\ \A q \in People \ {p} : new[q] = run[q]
  BY <1>1, <1>2
<1> HIDE DEF new
<1>4. GoodLines(new)
  BY <1>1, <1>2, <1>3 DEF GoodLines
<1>5. Follows(run, new)
  BY <1>2, <1>3, <1>4 DEF Follows
<1> QED
  BY <1>2, <1>3, <1>5 DEF new, l

\* A sender that awaits no delivery joins the line of its person.
LEMMA Awaited ==
  ASSUME TypeOK, GoodLines(running), NEW s \in Senders, adapter # None,
         \A i \in 1 .. Len(running[Person[s]]) : running[Person[s]][i].waiter # s
  PROVE  LET new == [running EXCEPT ![Person[s]] = Append(@, Delivery(adapter, s))] IN
           /\ GoodLines(new)
           /\ \A p \in People : Carrying(new[p]) = Carrying(running[p])
           /\ \A p \in People : \A i \in 1 .. Len(new[p]) :
                new[p][i].waiter = s \/ \E j \in 1 .. Len(running[p]) : running[p][j] = new[p][i]
<1> DEFINE d == Delivery(adapter, s)
           p == Person[s]
           l == Append(running[p], d)
           new == [running EXCEPT ![p] = l]
<1>1. running \in [People -> Seq(Deliveries)] /\ \A q \in People : Line(running[q], q)
  BY DEF GoodLines
<1>2. p \in People /\ s # None /\ adapter \in Adapters
  BY DeliveryAssumption DEF TypeOK
<1>3. d \in Deliveries /\ d.hand = <<>> /\ d.waiter = s
  BY <1>2 DEF Delivery, Deliveries
<1> HIDE DEF d, p
<1>4. running[p] \in Seq(Deliveries) /\ Line(running[p], p) /\ \A i \in 1 .. Len(running[p]) : running[p][i].waiter # s
  BY <1>1, <1>2 DEF p
<1>5. /\ l \in Seq(Deliveries) /\ Line(l, p) /\ Carrying(l) = Carrying(running[p])
      /\ \A i \in 1 .. Len(l) : l[i] = d \/ \E j \in 1 .. Len(running[p]) : l[i] = running[p][j]
  <2>1. d.waiter # None => Person[d.waiter] = p /\ \A i \in 1 .. Len(running[p]) : running[p][i].waiter # d.waiter
    BY <1>3, <1>4 DEF p
  <2>2. d \in Deliveries /\ d.hand = <<>>
    BY <1>3
  <2> QED
    BY <1>4, <2>1, <2>2, LineGrows
<1> HIDE DEF l
<1>6. new \in [People -> Seq(Deliveries)] /\ new[p] = l /\ \A q \in People \ {p} : new[q] = running[q]
  BY <1>1, <1>2, <1>5
<1> HIDE DEF new
<1>7. GoodLines(new) /\ \A q \in People : Carrying(new[q]) = Carrying(running[q])
  BY <1>1, <1>2, <1>5, <1>6 DEF GoodLines
<1>8. \A q \in People : \A i \in 1 .. Len(new[q]) :
        new[q][i].waiter = s \/ \E j \in 1 .. Len(running[q]) : running[q][j] = new[q][i]
  BY <1>2, <1>3, <1>5, <1>6
<1> QED
  BY <1>7, <1>8 DEF new, l, d, p

\* What the first delivery of a line is.
LEMMA FirstOfTheLine ==
  ASSUME TypeOK, Lines, NEW p \in People, running[p] # <<>>
  PROVE  /\ GoodLines(running)
         /\ Head(running[p]) = running[p][1] /\ Head(running[p]) \in Deliveries
         /\ Carrying(running[p]) = Head(running[p]).hand
         /\ \/ Head(running[p]).hand = <<>>
            \/ \E m \in Messages : Head(running[p]).hand = <<m>> /\ Person[m.from] = p
         /\ Head(running[p]).waiter # None =>
              /\ Head(running[p]).waiter \in Senders /\ Person[Head(running[p]).waiter] = p
              /\ at[Head(running[p]).waiter] \in {"behind", "after"}
<1>1. GoodLines(running)
  BY DEF TypeOK, Lines, GoodLines
<1>2. running[p] \in Seq(Deliveries) /\ Line(running[p], p)
  BY <1>1 DEF GoodLines
<1>3. /\ Head(running[p]) = running[p][1] /\ Head(running[p]) \in Deliveries
      /\ 1 \in 1 .. Len(running[p])
  BY <1>2
<1>4. Head(running[p]).waiter \in Senders \cup {None}
  BY <1>3 DEF Deliveries
<1>5. Carrying(running[p]) = Head(running[p]).hand
  BY <1>3 DEF Carrying
<1>6. running[p][1].waiter # None => at[running[p][1].waiter] \in {"behind", "after"}
  BY <1>3 DEF Lines
<1> QED
  BY <1>1, <1>2, <1>3, <1>4, <1>5, <1>6 DEF Line

\* The first delivery of a line has another reply in hand, or none.
LEMMA FirstChanges ==
  ASSUME TypeOK, Lines, NEW p \in People, running[p] # <<>>, NEW d \in Deliveries,
         d.waiter = running[p][1].waiter,
         d.hand = <<>> \/ \E m \in Messages : d.hand = <<m>> /\ Person[m.from] = p,
         running' = [running EXCEPT ![p] = [running[p] EXCEPT ![1] = d]]
  PROVE  /\ Follows(running, running') /\ Carrying(running'[p]) = d.hand
         /\ running' \in [People -> Seq(Deliveries)]
         /\ \A q \in People \ {p} : running'[q] = running[q]
<1> DEFINE new == [running EXCEPT ![p] = [running[p] EXCEPT ![1] = d]]
<1>1. GoodLines(running)
  BY FirstOfTheLine
<1>2. Follows(running, new) /\ Carrying(new[p]) = d.hand
  BY <1>1, GoesOn
<1>3. Follows(running, running') /\ Carrying(running'[p]) = d.hand
  BY <1>2
<1>4. \A q \in People \ {p} : running'[q] = running[q]
  BY <1>1 DEF GoodLines
<1> QED
  BY <1>3, <1>4 DEF Follows, GoodLines

\* What a sender at work has in hand.
LEMMA InTheHand ==
  ASSUME TypeOK, Hands, NEW s \in Senders, at[s] \in AtWork
  PROVE  /\ Head(hand[s]) \in Messages /\ Head(hand[s]).from = s
         /\ hand[s] = <<Head(hand[s])>>
BY DEF Hands

\* A chunk is kept behind what is kept for its person.
LEMMA KeptBehind ==
  ASSUME TypeOK, Hands, NEW s \in Senders, at[s] \in AtWork, NEW run, GoodLines(run), NEW mk, NEW ag,
         Keep(s, run, kept, mk, ag)
  PROVE  /\ kept' = [kept EXCEPT ![Person[s]] = Append(@, Head(hand[s]))]
         /\ hand' = [hand EXCEPT ![s] = <<>>] /\ at' = [at EXCEPT ![s] = "idle"]
         /\ Follows(run, running') /\ \A p \in People : Carrying(running'[p]) = Carrying(run[p])
<1>1. adapter \in Adapters
  BY DEF TypeOK
<1>2. /\ Follows(run, DeliverKeptFor(run, kept', mk, ag, ready))
      /\ \A p \in People : Carrying(DeliverKeptFor(run, kept', mk, ag, ready)[p]) = Carrying(run[p])
  BY <1>1, KeptFollow
<1>3. running' = DeliverKeptFor(run, kept', mk, ag, ready)
  BY DEF Keep
<1> QED
  BY <1>2, <1>3 DEF Keep

\* A line is as it was.
LEMMA FollowsItself ==
  ASSUME NEW run, GoodLines(run)
  PROVE  Follows(run, run)
BY DEF Follows

-----------------------------------------------------------------------------
(* The places.                                                             *)

\* A step leaves m where it is.
Same(m) ==
  /\ InQueue(m)' <=> InQueue(m)
  /\ InHand(m)' <=> InHand(m)
  /\ IsKept(m)' <=> IsKept(m)
  /\ IsCarried(m)' <=> IsCarried(m)
  /\ m \in done' <=> m \in done
  /\ m \in dropped' <=> m \in dropped
  /\ m \in cut' <=> m \in cut

\* What stays where it is is still in one place.
LEMMA StaysPlaced ==
  ASSUME NEW m, Placed(m), Same(m), m \in wrote' <=> m \in wrote
  PROVE  Placed(m)'
<1>1. ASSUME NEW w, IsIn(m, w) PROVE IsIn(m, w)'
  BY <1>1 DEF IsIn, Same
<1> QED
  BY <1>1 DEF Placed

\* What is somewhere was written, and is nowhere else.
LEMMA IsThere ==
  ASSUME OnePlace, NEW m \in Messages
  PROVE  /\ InQueue(m) => m \in wrote /\ IsIn(m, "queue")
         /\ InHand(m) => m \in wrote /\ IsIn(m, "hand")
         /\ IsKept(m) => m \in wrote /\ IsIn(m, "kept")
         /\ IsCarried(m) => m \in wrote /\ IsIn(m, "carried")
         /\ (m \in done \/ m \in dropped \/ m \in cut) => m \in wrote
<1>1. CASE m \in wrote
  <2>1. PICK w \in Wheres : IsIn(m, w)
    BY <1>1 DEF OnePlace, Placed
  <2> QED
    BY <1>1, <2>1 DEF IsIn
<1>2. CASE m \notin wrote
  <2>1. IsIn(m, "unwritten")
    BY <1>2 DEF OnePlace, Placed
  <2> QED
    BY <2>1 DEF IsIn
<1> QED
  BY <1>1, <1>2

\* A step that moves no message and writes none keeps what is said of them.
LEMMA NothingMoves ==
  ASSUME OnePlace, Lists, Numbered, Taken, NothingTwice,
         UNCHANGED <<wrote, queue, hand, kept, received, done, dropped, cut>>,
         \A p \in People : Carrying(running'[p]) = Carrying(running[p])
  PROVE  OnePlace' /\ Lists' /\ Numbered' /\ Taken' /\ NothingTwice'
<1>1. OnePlace'
  <2> SUFFICES ASSUME NEW m \in Messages PROVE Placed(m)'
    BY DEF OnePlace
  <2>1. Same(m)
    BY AboutMessages DEF Same, InQueue, InHand, IsKept, IsCarried
  <2> QED
    BY <2>1, StaysPlaced DEF OnePlace
<1>2. Lists'
  BY DEF Lists
<1>3. Numbered'
  BY DEF Numbered, Chunks
<1>4. Taken' /\ NothingTwice'
  BY DEF Taken, NothingTwice, Texts
<1> QED
  BY <1>1, <1>2, <1>3, <1>4

\* Nobody begins to await a delivery, and who does is still said to.
LEMMA StillAwaited ==
  ASSUME Lines, Follows(running, running'),
         \A p \in People : \A i \in 1 .. Len(running'[p]) :
           running'[p][i].waiter # None /\ at[running'[p][i].waiter] \in {"behind", "after"}
             => at'[running'[p][i].waiter] \in {"behind", "after"}
  PROVE  Lines'
<1>1. \A p \in People : Line(running'[p], p)
  BY DEF Follows, GoodLines
<1>2. ASSUME NEW p \in People, NEW i \in 1 .. Len(running'[p]), running'[p][i].waiter # None
      PROVE  at'[running'[p][i].waiter] \in {"behind", "after"}
  <2>1. PICK j \in 1 .. Len(running[p]) : running[p][j].waiter = running'[p][i].waiter
    BY <1>2 DEF Follows
  <2>2. at[running[p][j].waiter] \in {"behind", "after"}
    BY <1>2, <2>1 DEF Lines
  <2> QED
    BY <1>2, <2>1, <2>2
<1> QED
  BY <1>1, <1>2 DEF Lines

-----------------------------------------------------------------------------
(* The steps that move no message.                                         *)

\* A step that touches neither the messages nor who is at work on them.
LEMMA AnIdleStep ==
  ASSUME Inv, TypeOK', UNCHANGED <<wrote, queue, hand, at, kept, received, done, dropped, cut>>,
         Follows(running, running'), \A p \in People : Carrying(running'[p]) = Carrying(running[p]),
         lost' = lost \/ \E s \in Senders : queue[s] = <<>> /\ hand[s] = <<>> /\ lost' = [lost EXCEPT ![s] = FALSE]
  PROVE  Inv'
<1>1. OnePlace' /\ Lists' /\ Numbered' /\ Taken' /\ NothingTwice'
  BY NothingMoves DEF Inv
<1>2. Hands'
  BY DEF Inv, Hands
<1>3. Lines'
  BY StillAwaited DEF Inv
<1>4. Marked'
  <2>1. CASE lost' = lost
    BY <2>1 DEF Inv, Marked
  <2>2. ASSUME NEW s \in Senders, queue[s] = <<>>, hand[s] = <<>>, lost' = [lost EXCEPT ![s] = FALSE]
        PROVE  Marked'
    <3>1. \A m \in Messages : ~ In(queue[s], m) /\ hand[s] # <<m>>
      BY <2>2 DEF In
    <3>2. Marked /\ lost \in [Senders -> BOOLEAN]
      BY DEF Inv, TypeOK
    <3> QED
      BY <2>2, <3>1, <3>2 DEF Marked
  <2> QED
    BY <2>1, <2>2
<1> QED
  BY <1>1, <1>2, <1>3, <1>4 DEF Inv

\* The poll, a channel that is back, a person who joined a server: everything kept
\* is delivered.
LEMMA DeliversAll ==
  ASSUME Inv, NEW mk, NEW ag, NEW up, running' = DeliverKeptFor(running, kept, mk, ag, up)
  PROVE  /\ Follows(running, running') /\ running' \in [People -> Seq(Deliveries)]
         /\ \A p \in People : Carrying(running'[p]) = Carrying(running[p])
<1>1. GoodLines(running) /\ adapter \in Adapters
  BY DEF Inv, TypeOK, Lines, GoodLines
<1>2. /\ Follows(running, running')
      /\ \A p \in People : Carrying(running'[p]) = Carrying(running[p])
  BY <1>1, KeptFollow
<1> QED
  BY <1>2 DEF Follows, GoodLines

\* A step that leaves the lines alone.
LEMMA NobodyMoves ==
  ASSUME Inv, UNCHANGED running
  PROVE  /\ Follows(running, running') /\ running' \in [People -> Seq(Deliveries)]
         /\ \A p \in People : Carrying(running'[p]) = Carrying(running[p])
<1>1. GoodLines(running)
  BY DEF Inv, TypeOK, Lines, GoodLines
<1>2. Follows(running, running)
  BY <1>1, FollowsItself
<1> QED
  BY <1>1, <1>2 DEF GoodLines

\* A fault stays within the bound.
LEMMA AFault ==
  ASSUME TypeOK, Faulty
  PROVE  faults' \in 0 .. MaxFaults
BY DeliveryAssumption DEF TypeOK, Faulty

\* What the channel, a reload that replaces the adapter, the people and the clock do.
LEMMA IdleSteps ==
  ASSUME Inv, \/ Poll \/ Started \/ Goes \/ Replaced
              \/ \E p \in People : MarkAges(p) \/ LeavesServer(p) \/ JoinsServer(p)
              \/ \E s \in Senders : Opens(s)
              \/ UNCHANGED vars
  PROVE  Inv'
<1> USE DEF channel, marking, keeping, sending, history, vars
<1> DEFINE Calm == /\ Follows(running, running') /\ running' \in [People -> Seq(Deliveries)]
                   /\ \A p \in People : Carrying(running'[p]) = Carrying(running[p])
<1>1. ASSUME UNCHANGED running PROVE Calm
  BY <1>1, NobodyMoves
<1>2. ASSUME NEW mk, NEW ag, NEW up, running' = DeliverKeptFor(running, kept, mk, ag, up) PROVE Calm
  BY <1>2, DeliversAll
<1>3. ASSUME Calm, TypeOK', UNCHANGED <<wrote, queue, hand, at, kept, received, done, dropped, cut, lost>> PROVE Inv'
  BY <1>3, AnIdleStep
<1> HIDE DEF Calm
<1>4. Calm => running' \in [People -> Seq(Deliveries)]
  BY DEF Calm
<1>5. TypeOK
  BY DEF Inv
<1>6. CASE Poll
  <2>1. Calm
    BY <1>2, <1>6 DEF Poll
  <2>2. TypeOK'
    BY <1>4, <1>5, <1>6, <2>1 DEF Poll, TypeOK
  <2> QED
    BY <1>3, <1>6, <2>1, <2>2 DEF Poll
<1>7. CASE Started
  <2>1. Calm
    BY <1>1, <1>2, <1>7 DEF Started
  <2>2. TypeOK'
    BY <1>4, <1>5, <1>7, <2>1 DEF Started, TypeOK
  <2> QED
    BY <1>3, <1>7, <2>1, <2>2 DEF Started
<1>8. CASE Goes
  <2>1. Calm
    BY <1>1, <1>8 DEF Goes
  <2>2. TypeOK'
    BY <1>4, <1>5, <1>8, <2>1, AFault DEF Goes, TypeOK
  <2> QED
    BY <1>3, <1>8, <2>1, <2>2 DEF Goes
<1>9. CASE Replaced
  <2>1. Calm
    BY <1>1, <1>9 DEF Replaced
  <2>2. TypeOK'
    <3>1. made' \in Adapters /\ adapter' \in Adapters
      BY <1>5, <1>9, DeliveryAssumption DEF Replaced, TypeOK, Adapters
    <3> QED
      BY <1>4, <1>5, <1>9, <2>1, <3>1 DEF Replaced, TypeOK
  <2> QED
    BY <1>3, <1>9, <2>1, <2>2 DEF Replaced
<1>10. ASSUME NEW p \in People, MarkAges(p) PROVE Inv'
  <2>1. Calm
    BY <1>1, <1>10 DEF MarkAges
  <2>2. TypeOK'
    BY <1>4, <1>5, <1>10, <2>1 DEF MarkAges, TypeOK
  <2> QED
    BY <1>3, <1>10, <2>1, <2>2 DEF MarkAges
<1>11. ASSUME NEW p \in People, LeavesServer(p) PROVE Inv'
  <2>1. Calm
    BY <1>1, <1>11 DEF LeavesServer
  <2>2. TypeOK'
    BY <1>4, <1>5, <1>11, <2>1, AFault DEF LeavesServer, TypeOK
  <2> QED
    BY <1>3, <1>11, <2>1, <2>2 DEF LeavesServer
<1>12. ASSUME NEW p \in People, JoinsServer(p) PROVE Inv'
  <2>1. Calm
    BY <1>1, <1>2, <1>12 DEF JoinsServer
  <2>2. TypeOK'
    BY <1>4, <1>5, <1>12, <2>1 DEF JoinsServer, TypeOK
  <2> QED
    BY <1>3, <1>12, <2>1, <2>2 DEF JoinsServer
<1>13. ASSUME NEW s \in Senders, Opens(s) PROVE Inv'
  <2>1. Calm
    BY <1>1, <1>13 DEF Opens
  <2>2. TypeOK'
    BY <1>4, <1>5, <1>13, <2>1 DEF Opens, TypeOK
  <2> QED
    BY <1>13, <2>1, <2>2, AnIdleStep DEF Opens, Calm
<1>14. CASE UNCHANGED vars
  <2>1. Calm
    BY <1>1, <1>14
  <2>2. TypeOK'
    BY <1>4, <1>5, <1>14, <2>1 DEF TypeOK
  <2> QED
    BY <1>3, <1>14, <2>1, <2>2
<1> QED
  BY <1>6, <1>7, <1>8, <1>9, <1>10, <1>11, <1>12, <1>13, <1>14

-----------------------------------------------------------------------------
(* What is written, sent and cut.                                          *)

\* What a person reads of a step that sends nothing.
LEMMA NothingRead ==
  ASSUME Taken, NothingTwice, UNCHANGED received, done \subseteq done'
  PROVE  Taken' /\ NothingTwice'
BY DEF Taken, NothingTwice, Texts

\* What was written stays numbered.
LEMMA NothingWritten ==
  ASSUME Numbered, \A s \in Senders : Chunks(s)' = Chunks(s)
  PROVE  Numbered'
BY DEF Numbered

\* A chunk is written.
LEMMA EnqueueKeeps ==
  ASSUME Inv, NEW s \in Senders, NEW k \in Kinds, Enqueue(s, k)
  PROVE  Inv'
<1> DEFINE m == Message(s, Written(s) + 1, k)
           q == queue[s]
<1>1. /\ TypeOK /\ OnePlace /\ Lists /\ Hands /\ Lines /\ Numbered /\ Marked
      /\ Taken /\ NothingTwice
  BY DEF Inv
<1>2. IsFiniteSet(Chunks(s)) /\ Written(s) = Cardinality(Chunks(s)) /\ Cardinality(Chunks(s)) \in Nat
  <2>1. IsFiniteSet(Chunks(s))
    BY <1>1 DEF Numbered
  <2> QED
    BY <2>1, FS_CardinalityType DEF Written, Chunks
<1>3. m \in Messages /\ m.from = s /\ m.n = Cardinality(Chunks(s)) + 1 /\ m.kind # "marker"
  <2>1. Written(s) + 1 \in 1 .. MaxChunks[s] /\ k # "marker"
    BY <1>2, DeliveryAssumption DEF Enqueue
  <2> QED
    BY <1>2, <2>1, Chunked DEF Message
<1>4. m \notin wrote
  <2> SUFFICES ASSUME m \in wrote PROVE FALSE
    OBVIOUS
  <2>1. m \in Chunks(s)
    BY <1>3 DEF Chunks
  <2> HIDE DEF m
  <2>2. m.n <= Cardinality(Chunks(s))
    BY <1>1, <2>1 DEF Numbered
  <2> QED
    BY <1>2, <1>3, <2>2
<1>5. /\ queue' = [queue EXCEPT ![s] = Append(@, m)] /\ wrote' = wrote \cup {m}
      /\ UNCHANGED <<channel, marking, keeping, hand, at, through, tries, lost, history, faults>>
  BY DEF Enqueue
<1> HIDE DEF m
<1> USE DEF channel, marking, keeping, history
<1>6. IsIn(m, "unwritten")
  BY <1>1, <1>3, <1>4 DEF OnePlace, Placed
<1>7. q \in Seq(Messages) /\ ~ In(q, m)
  BY <1>1, <1>3, <1>6 DEF TypeOK, IsIn, InQueue
<1>8. /\ Append(q, m) \in Seq(Messages)
      /\ \A y : In(Append(q, m), y) <=> In(q, y) \/ y = m
      /\ Distinct(q) => Distinct(Append(q, m))
  BY <1>3, <1>7, Appended
<1>9. queue'[s] = Append(q, m) /\ \A x \in Senders \ {s} : queue'[x] = queue[x]
  BY <1>1, <1>5 DEF TypeOK
<1>10. TypeOK'
  <2>1. queue' \in [Senders -> Seq(Messages)] /\ wrote' \subseteq Messages
    BY <1>1, <1>3, <1>5, <1>8 DEF TypeOK
  <2> QED
    BY <1>1, <1>5, <2>1 DEF TypeOK
<1>11. OnePlace'
  <2> SUFFICES ASSUME NEW x \in Messages PROVE Placed(x)'
    BY DEF OnePlace
  <2>1. CASE x = m
    <3>1. InQueue(x)'
      BY <1>3, <1>8, <1>9, <2>1 DEF InQueue
    <3> QED
      BY <1>5, <1>6, <2>1, <3>1 DEF Placed, Wheres, IsIn, InQueue, InHand, IsKept, IsCarried
  <2>2. CASE x # m
    <3>1. InQueue(x)' <=> InQueue(x)
      BY <1>8, <1>9, <2>2, AboutMessages DEF InQueue
    <3>2. Same(x) /\ (x \in wrote' <=> x \in wrote)
      BY <1>5, <2>2, <3>1 DEF Same, InHand, IsKept, IsCarried
    <3> QED
      BY <1>1, <3>2, StaysPlaced DEF OnePlace
  <2> QED
    BY <2>1, <2>2
<1>12. Lists'
  <2>1. Distinct(queue'[s]) /\ \A y \in Messages : In(queue'[s], y) => y.from = s
    <3>1. Distinct(q) /\ \A y \in Messages : In(q, y) => y.from = s
      BY <1>1 DEF Lists
    <3> QED
      BY <1>3, <1>8, <1>9, <3>1
  <2>2. \A x \in Senders \ {s} : Distinct(queue'[x]) /\ \A y \in Messages : In(queue'[x], y) => y.from = x
    BY <1>1, <1>9 DEF Lists
  <2> QED
    BY <1>1, <1>5, <2>1, <2>2 DEF Lists
<1>13. Hands' /\ Lines'
  BY <1>1, <1>5 DEF Hands, Lines
<1>14. Numbered'
  <2> SUFFICES ASSUME NEW x \in Senders
               PROVE  /\ IsFiniteSet(Chunks(x)')
                      /\ \A y \in Chunks(x)' : y.n <= Cardinality(Chunks(x)')
                      /\ \A y, z \in Chunks(x)' : y.n = z.n => y = z
    BY DEF Numbered
  <2>1. CASE x # s
    <3>1. Chunks(x)' = Chunks(x)
      BY <1>3, <1>5, <2>1 DEF Chunks
    <3> QED
      BY <1>1, <3>1 DEF Numbered
  <2>2. CASE x = s
    <3>1. Chunks(s)' = Chunks(s) \cup {m} /\ m \notin Chunks(s)
      BY <1>3, <1>4, <1>5 DEF Chunks
    <3>2. IsFiniteSet(Chunks(s)') /\ Cardinality(Chunks(s)') = Cardinality(Chunks(s)) + 1
      BY <1>2, <3>1, FS_AddElement
    <3>3. \A y \in Chunks(s) : y.n \in Nat /\ y.n <= Cardinality(Chunks(s))
      BY <1>1, AboutMessages DEF Numbered, TypeOK, Chunks
    <3>4. \A y, z \in Chunks(s) : y.n = z.n => y = z
      BY <1>1 DEF Numbered
    <3>5. \A y \in Chunks(s)' : y.n <= Cardinality(Chunks(s)')
      BY <1>2, <1>3, <3>1, <3>2, <3>3
    <3>6. \A y, z \in Chunks(s)' : y.n = z.n => y = z
      BY <1>2, <1>3, <3>1, <3>3, <3>4
    <3> QED
      BY <2>2, <3>2, <3>5, <3>6
  <2> QED
    BY <2>1, <2>2
<1>15. Marked'
  <2>1. \A x \in Senders : \A y \in Messages : In(queue'[x], y) /\ y.kind = "marker" => In(queue[x], y)
    BY <1>3, <1>8, <1>9
  <2> QED
    BY <1>1, <1>3, <1>5, <2>1 DEF Marked
<1>16. Taken' /\ NothingTwice'
  BY <1>1, <1>5, NothingRead
<1> QED
  BY <1>10, <1>11, <1>12, <1>13, <1>14, <1>15, <1>16 DEF Inv

\* The queue takes its next chunk in hand.
LEMMA ShiftKeeps ==
  ASSUME Inv, NEW s \in Senders, Shift(s)
  PROVE  Inv'
<1> DEFINE m == Head(queue[s])
           q == queue[s]
<1>1. /\ TypeOK /\ OnePlace /\ Lists /\ Hands /\ Lines /\ Numbered /\ Marked
      /\ Taken /\ NothingTwice
  BY DEF Inv
<1>2. q \in Seq(Messages) /\ q # <<>> /\ Distinct(q)
  BY <1>1 DEF TypeOK, Shift, Lists
<1>3. /\ m \in Messages /\ Tail(q) \in Seq(Messages) /\ In(q, m) /\ Distinct(Tail(q))
      /\ \A y : In(Tail(q), y) <=> In(q, y) /\ y # m
  BY <1>2, Tailed
<1>4. /\ hand' = [hand EXCEPT ![s] = <<m>>] /\ queue' = [queue EXCEPT ![s] = Tail(q)]
      /\ at' = [at EXCEPT ![s] = "begin"] /\ tries' = [tries EXCEPT ![s] = 0]
      /\ at[s] = "idle" /\ hand[s] = <<>>
      /\ UNCHANGED <<channel, marking, keeping, through, lost, wrote, history, faults>>
  BY DEF Shift
<1> HIDE DEF m
<1> USE DEF channel, marking, keeping, history
<1>5. m.from = s
  BY <1>1, <1>3 DEF Lists
<1>6. /\ queue'[s] = Tail(q) /\ hand'[s] = <<m>> /\ at'[s] = "begin"
      /\ \A x \in Senders \ {s} : queue'[x] = queue[x] /\ hand'[x] = hand[x] /\ at'[x] = at[x]
  BY <1>1, <1>4 DEF TypeOK
<1>7. TypeOK'
  <2>1. /\ queue' \in [Senders -> Seq(Messages)] /\ hand' \in [Senders -> Seq(Messages)]
        /\ at' \in [Senders -> {"idle", "begin", "behind", "sending", "ahead", "after", "backoff"}]
        /\ tries' \in [Senders -> 0 .. Retries]
    BY <1>1, <1>3, <1>4, DeliveryAssumption DEF TypeOK
  <2> QED
    BY <1>1, <1>4, <2>1 DEF TypeOK
<1>8. OnePlace'
  <2> SUFFICES ASSUME NEW x \in Messages PROVE Placed(x)'
    BY DEF OnePlace
  <2>1. CASE x = m
    <3>1. m \in wrote /\ IsIn(m, "queue")
      BY <1>1, <1>3, <1>5, IsThere DEF InQueue
    <3>2. InHand(x)' /\ ~ InQueue(x)'
      BY <1>3, <1>5, <1>6, <2>1 DEF InHand, InQueue
    <3> QED
      BY <1>4, <2>1, <3>1, <3>2 DEF Placed, Wheres, IsIn, IsKept, IsCarried
  <2>2. CASE x # m
    <3>1. InQueue(x)' <=> InQueue(x)
      BY <1>3, <1>6, <2>2, AboutMessages DEF InQueue
    <3>2. InHand(x)' <=> InHand(x)
      BY <1>4, <1>6, <2>2, AboutMessages DEF InHand
    <3>3. Same(x) /\ (x \in wrote' <=> x \in wrote)
      BY <1>4, <3>1, <3>2 DEF Same, IsKept, IsCarried
    <3> QED
      BY <1>1, <3>3, StaysPlaced DEF OnePlace
  <2> QED
    BY <2>1, <2>2
<1>9. Lists'
  <2>1. \A x \in Senders : Distinct(queue'[x]) /\ \A y \in Messages : In(queue'[x], y) => y.from = x
    BY <1>1, <1>3, <1>6 DEF Lists
  <2> QED
    BY <1>1, <1>4, <2>1 DEF Lists
<1>10. Hands'
  BY <1>1, <1>3, <1>5, <1>6 DEF Hands, AtWork
<1>11. Lines'
  BY <1>1, <1>4, <1>6 DEF Lines
<1>12. Numbered'
  BY <1>1, <1>4, NothingWritten DEF Chunks
<1>13. Marked'
  <2>1. \A x \in Senders : \A y \in Messages :
          In(queue'[x], y) \/ hand'[x] = <<y>> => In(queue[x], y) \/ hand[x] = <<y>>
    BY <1>3, <1>6
  <2> QED
    BY <1>1, <1>4, <2>1 DEF Marked
<1>14. Taken' /\ NothingTwice'
  BY <1>1, <1>4, NothingRead
<1> QED
  BY <1>7, <1>8, <1>9, <1>10, <1>11, <1>12, <1>13, <1>14 DEF Inv

\* The backoff is over.
LEMMA RetryKeeps ==
  ASSUME Inv, NEW s \in Senders, Retry(s)
  PROVE  Inv'
<1>1. /\ TypeOK /\ OnePlace /\ Lists /\ Hands /\ Lines /\ Numbered /\ Marked
      /\ Taken /\ NothingTwice
  BY DEF Inv
<1>2. /\ at' = [at EXCEPT ![s] = "begin"] /\ at[s] = "backoff"
      /\ UNCHANGED <<channel, marking, keeping, queue, hand, through, tries, lost, wrote, history, faults>>
  BY DEF Retry
<1> USE DEF channel, marking, keeping, history
<1>3. at'[s] = "begin" /\ \A x \in Senders \ {s} : at'[x] = at[x]
  BY <1>1, <1>2 DEF TypeOK
<1>4. TypeOK'
  <2>1. at' \in [Senders -> {"idle", "begin", "behind", "sending", "ahead", "after", "backoff"}]
    BY <1>1, <1>2 DEF TypeOK
  <2> QED
    BY <1>1, <1>2, <2>1 DEF TypeOK
<1>5. OnePlace' /\ Lists' /\ Numbered' /\ Taken' /\ NothingTwice'
  BY <1>1, <1>2, NothingMoves
<1>6. Hands'
  BY <1>1, <1>2, <1>3 DEF Hands, AtWork
<1>7. Lines'
  BY <1>1, <1>2, <1>3 DEF Lines
<1>8. Marked'
  BY <1>1, <1>2 DEF Marked
<1> QED
  BY <1>4, <1>5, <1>6, <1>7, <1>8 DEF Inv

\* The kept messages are those kept for their person.
LEMMA AreKept ==
  ASSUME TypeOK, Lists, NEW m \in Messages
  PROVE  m \in KeptMessages <=> IsKept(m)
<1>1. \A p \in People : DOMAIN kept[p] = 1 .. Len(kept[p])
  BY DEF TypeOK
<1>2. m \in KeptMessages <=> \E p \in People : In(kept[p], m)
  BY <1>1 DEF KeptMessages, In
<1>3. \A p \in People : In(kept[p], m) => Person[m.from] = p
  BY DEF Lists
<1> QED
  BY <1>2, <1>3, AboutMessages DEF IsKept

\* A reload removes the agent.
LEMMA RemovedKeeps ==
  ASSUME Inv, Removed
  PROVE  Inv'
<1>1. /\ TypeOK /\ OnePlace /\ Lists /\ Hands /\ Lines /\ Numbered /\ Marked
      /\ Taken /\ NothingTwice
  BY DEF Inv
<1>2. /\ adapter' = None /\ ready' = FALSE /\ marks' = {} /\ aged' = {}
      /\ kept' = [p \in People |-> <<>>] /\ cut' = cut \cup KeptMessages
      /\ UNCHANGED <<made, reachable, running, sending, wrote, received, jumped, done, dropped, faults>>
  BY DEF Removed
<1> USE DEF sending
<1>3. TypeOK'
  <2>1. cut' \subseteq Messages
    BY <1>1, <1>2 DEF TypeOK, KeptMessages
  <2>2. adapter' \in Adapters /\ kept' \in [People -> Seq(Messages)]
    BY <1>2, DeliveryAssumption DEF Adapters, None
  <2> QED
    BY <1>1, <1>2, <2>1, <2>2 DEF TypeOK
<1>4. \A m \in Messages : ~ IsKept(m)'
  BY <1>2, AboutMessages DEF IsKept, In
<1>5. OnePlace'
  <2> SUFFICES ASSUME NEW m \in Messages PROVE Placed(m)'
    BY DEF OnePlace
  <2>1. m \in cut' <=> m \in cut \/ IsKept(m)
    BY <1>1, <1>2, AreKept
  <2>2. CASE IsKept(m)
    <3>1. m \in wrote /\ IsIn(m, "kept")
      BY <1>1, <2>2, IsThere
    <3> QED
      BY <1>2, <1>4, <2>1, <2>2, <3>1 DEF Placed, Wheres, IsIn, InQueue, InHand, IsCarried
  <2>3. CASE ~ IsKept(m)
    <3>1. Same(m) /\ (m \in wrote' <=> m \in wrote)
      BY <1>2, <1>4, <2>1, <2>3 DEF Same, InQueue, InHand, IsCarried
    <3> QED
      BY <1>1, <3>1, StaysPlaced DEF OnePlace
  <2> QED
    BY <2>2, <2>3
<1>6. Lists'
  BY <1>1, <1>2 DEF Lists, Distinct, In
<1>7. Hands' /\ Lines' /\ Marked'
  BY <1>1, <1>2 DEF Hands, Lines, Marked
<1>8. Numbered'
  BY <1>1, <1>2, NothingWritten DEF Chunks
<1>9. Taken' /\ NothingTwice'
  BY <1>1, <1>2, NothingRead
<1> QED
  BY <1>3, <1>5, <1>6, <1>7, <1>8, <1>9 DEF Inv

\* The bridge stops or dies.
LEMMA RestartKeeps ==
  ASSUME Inv, Restart
  PROVE  Inv'
<1>1. /\ TypeOK /\ OnePlace /\ Lists /\ Hands /\ Lines /\ Numbered /\ Marked
      /\ Taken /\ NothingTwice
  BY DEF Inv
<1>2. /\ ready' \in BOOLEAN /\ marks' = {} /\ aged' = {}
      /\ running' = [p \in People |-> <<>>]
      /\ queue' = [s \in Senders |-> <<>>] /\ hand' = [s \in Senders |-> <<>>]
      /\ at' = [s \in Senders |-> "idle"] /\ through' = [s \in Senders |-> None]
      /\ tries' = [s \in Senders |-> 0] /\ lost' = [s \in Senders |-> FALSE]
      /\ cut' = cut \cup (wrote \ (done \cup dropped \cup KeptMessages))
      /\ UNCHANGED <<adapter, made, reachable, kept, wrote, received, jumped, done, dropped>>
  BY DEF Restart
<1>3. TypeOK'
  <2>1. faults' \in 0 .. MaxFaults
    BY <1>1, AFault DEF Restart
  <2>2. /\ cut' \subseteq Messages /\ running' \in [People -> Seq(Deliveries)]
        /\ queue' \in [Senders -> Seq(Messages)] /\ hand' \in [Senders -> Seq(Messages)]
    BY <1>1, <1>2 DEF TypeOK
  <2>3. through' \in [Senders -> Adapters] /\ tries' \in [Senders -> 0 .. Retries]
    BY <1>2, DeliveryAssumption DEF Adapters, None
  <2>4. /\ at' \in [Senders -> {"idle", "begin", "behind", "sending", "ahead", "after", "backoff"}]
        /\ lost' \in [Senders -> BOOLEAN]
    BY <1>2
  <2> QED
    BY <1>1, <1>2, <2>1, <2>2, <2>3, <2>4 DEF TypeOK
<1>4. \A m \in Messages : ~ InQueue(m)' /\ ~ InHand(m)' /\ ~ IsCarried(m)'
  <2> SUFFICES ASSUME NEW m \in Messages PROVE ~ InQueue(m)' /\ ~ InHand(m)' /\ ~ IsCarried(m)'
    OBVIOUS
  <2>1. queue'[m.from] = <<>> /\ hand'[m.from] = <<>> /\ running'[Person[m.from]] = <<>>
    BY <1>2, AboutMessages
  <2> QED
    BY <2>1 DEF InQueue, InHand, IsCarried, In, Carrying
<1>5. OnePlace'
  <2> SUFFICES ASSUME NEW m \in Messages PROVE Placed(m)'
    BY DEF OnePlace
  <2>1. m \in cut' <=> m \in cut \/ (m \in wrote /\ m \notin done /\ m \notin dropped /\ ~ IsKept(m))
    BY <1>1, <1>2, AreKept
  <2>2. CASE m \in wrote
    <3>1. PICK w \in Wheres : IsIn(m, w)
      BY <1>1, <2>2 DEF OnePlace, Placed
    <3> QED
      BY <1>2, <1>4, <2>1, <2>2, <3>1 DEF Placed, Wheres, IsIn, IsKept
  <2>3. CASE m \notin wrote
    <3>1. IsIn(m, "unwritten")
      BY <1>1, <2>3 DEF OnePlace, Placed
    <3> QED
      BY <1>2, <1>4, <2>1, <2>3, <3>1 DEF Placed, IsIn, IsKept
  <2> QED
    BY <2>2, <2>3
<1>6. Lists'
  BY <1>1, <1>2 DEF Lists, Distinct, In
<1>7. Hands' /\ Lines'
  BY <1>2 DEF Hands, AtWork, Lines, Line
<1>8. Numbered'
  BY <1>1, <1>2, NothingWritten DEF Chunks
<1>9. Marked'
  BY <1>1, <1>2 DEF Marked, In
<1>10. Taken' /\ NothingTwice'
  BY <1>1, <1>2, NothingRead
<1> QED
  BY <1>3, <1>5, <1>6, <1>7, <1>8, <1>9, <1>10 DEF Inv

-----------------------------------------------------------------------------
(* What is kept, and delivered behind it.                                  *)

\* Who awaits a delivery is said to.
LEMMA NotAwaiting ==
  ASSUME Lines, NEW s \in Senders, at[s] \notin {"behind", "after"},
         NEW p \in People, NEW i \in 1 .. Len(running[p])
  PROVE  running[p][i].waiter # s
BY DeliveryAssumption DEF Lines

\* Who awaits a delivery is a sender.
LEMMA Waiters ==
  ASSUME NEW run, run \in [People -> Seq(Deliveries)]
  PROVE  \A p \in People : \A i \in 1 .. Len(run[p]) : run[p][i].waiter \in Senders \cup {None}
<1> SUFFICES ASSUME NEW p \in People, NEW i \in 1 .. Len(run[p])
             PROVE  run[p][i].waiter \in Senders \cup {None}
  OBVIOUS
<1>1. run[p] \in Seq(Deliveries)
  OBVIOUS
<1>2. run[p][i] \in Deliveries
  BY <1>1
<1> QED
  BY <1>2 DEF Deliveries

\* Lines that follow one another follow the first.
LEMMA FollowsOn ==
  ASSUME NEW a, NEW b, NEW c, Follows(a, b), Follows(b, c)
  PROVE  Follows(a, c)
<1> SUFFICES ASSUME NEW p \in People, NEW i \in 1 .. Len(c[p]), c[p][i].waiter # None
             PROVE  \E j \in 1 .. Len(a[p]) : a[p][j].waiter = c[p][i].waiter
  BY DEF Follows
<1>1. PICK k \in 1 .. Len(b[p]) : b[p][k].waiter = c[p][i].waiter
  BY DEF Follows
<1> QED
  BY <1>1 DEF Follows

\* The chunk in hand goes behind what is kept.
LEMMA KeepMoves ==
  ASSUME Inv, NEW s \in Senders, at[s] \in AtWork, NEW run, GoodLines(run), NEW mk, NEW ag,
         \A p \in People : Carrying(run[p]) = Carrying(running[p]),
         Keep(s, run, kept, mk, ag), UNCHANGED <<wrote, queue, lost, done, dropped, cut>>
  PROVE  /\ OnePlace' /\ Lists' /\ Hands' /\ Numbered' /\ Marked'
         /\ kept' \in [People -> Seq(Messages)] /\ hand' \in [Senders -> Seq(Messages)]
         /\ at' \in [Senders -> {"idle", "begin", "behind", "sending", "ahead", "after", "backoff"}]
         /\ running' \in [People -> Seq(Deliveries)] /\ Follows(run, running')
         /\ \A x \in Senders \ {s} : at'[x] = at[x]
<1>1. TypeOK /\ OnePlace /\ Lists /\ Hands /\ Numbered /\ Marked
  BY DEF Inv
<1>2. PICK m \in Messages : m = Head(hand[s]) /\ m.from = s /\ hand[s] = <<m>>
  BY <1>1, InTheHand
<1>3. /\ kept' = [kept EXCEPT ![Person[s]] = Append(@, m)]
      /\ hand' = [hand EXCEPT ![s] = <<>>] /\ at' = [at EXCEPT ![s] = "idle"]
      /\ Follows(run, running') /\ \A p \in People : Carrying(running'[p]) = Carrying(running[p])
  BY <1>1, <1>2, KeptBehind
<1>4. Person[s] \in People /\ kept[Person[s]] \in Seq(Messages)
  BY <1>1, DeliveryAssumption DEF TypeOK
<1>5. InHand(m) /\ m \in wrote /\ IsIn(m, "hand")
  BY <1>1, <1>2, IsThere DEF InHand
<1>6. ~ In(kept[Person[s]], m)
  BY <1>2, <1>5 DEF IsIn, IsKept
<1> DEFINE q == kept[Person[s]]
           new == Append(q, m)
<1>7. /\ new \in Seq(Messages)
      /\ \A y : In(new, y) <=> In(q, y) \/ y = m
      /\ Distinct(q) => Distinct(new)
  BY <1>4, <1>6, Appended
<1>8. kept' = [kept EXCEPT ![Person[s]] = new] /\ \A y : <<y>> # <<>>
  BY <1>3
<1> HIDE DEF new
<1>9. /\ kept'[Person[s]] = new /\ hand'[s] = <<>> /\ at'[s] = "idle"
      /\ \A p \in People \ {Person[s]} : kept'[p] = kept[p]
      /\ \A x \in Senders \ {s} : hand'[x] = hand[x] /\ at'[x] = at[x]
  BY <1>8, <1>1, <1>3, <1>4 DEF TypeOK
<1>10. /\ kept' \in [People -> Seq(Messages)] /\ hand' \in [Senders -> Seq(Messages)]
      /\ at' \in [Senders -> {"idle", "begin", "behind", "sending", "ahead", "after", "backoff"}]
  <2>1. kept' \in [People -> Seq(Messages)]
    BY <1>8, <1>1, <1>7 DEF TypeOK
  <2>2. hand' \in [Senders -> Seq(Messages)]
    BY <1>1, <1>3 DEF TypeOK
  <2>3. at' \in [Senders -> {"idle", "begin", "behind", "sending", "ahead", "after", "backoff"}]
    BY <1>1, <1>3 DEF TypeOK
  <2> QED
    BY <2>1, <2>2, <2>3
<1>11. OnePlace'
  <2> SUFFICES ASSUME NEW x \in Messages PROVE Placed(x)'
    BY DEF OnePlace
  <2>1. CASE x = m
    <3>1. IsKept(x)' /\ ~ InHand(x)'
      BY <1>8, <1>2, <1>7, <1>9, <2>1 DEF IsKept, InHand
    <3>2. IsCarried(x)' <=> IsCarried(x)
      BY <1>3, AboutMessages DEF IsCarried
    <3> QED
      BY <1>5, <2>1, <3>1, <3>2 DEF Placed, Wheres, IsIn, InQueue
  <2>2. CASE x # m
    <3>1. InHand(x)' <=> InHand(x)
      BY <1>8, <1>2, <1>9, <2>2, AboutMessages DEF InHand
    <3>2. IsKept(x)' <=> IsKept(x)
      BY <1>7, <1>9, <2>2, AboutMessages DEF IsKept
    <3>3. IsCarried(x)' <=> IsCarried(x)
      BY <1>3, AboutMessages DEF IsCarried
    <3>4. Same(x) /\ (x \in wrote' <=> x \in wrote)
      BY <3>1, <3>2, <3>3 DEF Same, InQueue
    <3> QED
      BY <1>1, <3>4, StaysPlaced DEF OnePlace
  <2> QED
    BY <2>1, <2>2
<1>12. Lists'
  <2>1. \A p \in People : Distinct(kept'[p]) /\ \A y \in Messages : In(kept'[p], y) => Person[y.from] = p
    BY <1>1, <1>2, <1>7, <1>9 DEF Lists
  <2> QED
    BY <1>1, <2>1 DEF Lists
<1>13. Hands'
  BY <1>1, <1>9 DEF Hands, AtWork
<1>14. Numbered'
  BY <1>1, NothingWritten DEF Chunks
<1>15. Marked'
  <2>1. \A x \in Senders : \A y \in Messages : hand'[x] = <<y>> => hand[x] = <<y>>
    BY <1>8, <1>9
  <2> QED
    BY <1>1, <2>1 DEF Marked
<1> QED
  BY <1>3, <1>9, <1>10, <1>11, <1>12, <1>13, <1>14, <1>15 DEF Follows, GoodLines

\* Once nothing is delivered ahead of it, a chunk is sent or kept.
LEMMA SendOrKeepKeeps ==
  ASSUME Inv, NEW s \in Senders, at[s] \in {"begin", "behind"}, NEW run,
         Follows(running, run), \A p \in People : Carrying(run[p]) = Carrying(running[p]),
         \A p \in People : \A i \in 1 .. Len(run[p]) : run[p][i].waiter # s,
         SendOrKeep(s, run),
         UNCHANGED <<channel, marking, queue, through, tries, lost, wrote, history, faults>>
  PROVE  Inv'
<1>1. /\ TypeOK /\ OnePlace /\ Lists /\ Hands /\ Lines /\ Numbered /\ Marked
      /\ Taken /\ NothingTwice
  BY DEF Inv
<1> USE DEF channel, marking, history
<1>2. at[s] \in AtWork /\ GoodLines(run)
  BY DEF AtWork, Follows
<1>3. Taken' /\ NothingTwice'
  BY <1>1, NothingRead
<1>4. CASE Keep(s, run, kept, marks, aged)
  <2>1. /\ OnePlace' /\ Lists' /\ Hands' /\ Numbered' /\ Marked'
        /\ kept' \in [People -> Seq(Messages)] /\ hand' \in [Senders -> Seq(Messages)]
        /\ at' \in [Senders -> {"idle", "begin", "behind", "sending", "ahead", "after", "backoff"}]
        /\ running' \in [People -> Seq(Deliveries)] /\ Follows(run, running')
        /\ \A x \in Senders \ {s} : at'[x] = at[x]
    BY <1>2, <1>4, KeepMoves
  <2>2. TypeOK'
    BY <1>1, <2>1 DEF TypeOK
  <2>3. Lines'
    <3>1. Follows(running, running')
      BY <2>1, FollowsOn
    <3>2. ASSUME NEW p \in People, NEW i \in 1 .. Len(running'[p]), running'[p][i].waiter # None
          PROVE  at'[running'[p][i].waiter] = at[running'[p][i].waiter]
      <4>1. running'[p][i].waiter \in Senders \cup {None}
        BY <2>1, Waiters
      <4>2. running'[p][i].waiter # s
        <5>1. PICK j \in 1 .. Len(run[p]) : run[p][j].waiter = running'[p][i].waiter
          BY <2>1, <3>2 DEF Follows
        <5> QED
          BY <5>1
      <4> QED
        BY <2>1, <3>2, <4>1, <4>2
    <3> QED
      BY <1>1, <3>1, <3>2, StillAwaited
  <2> QED
    BY <1>3, <2>1, <2>2, <2>3 DEF Inv
<1>5. CASE /\ at' = [at EXCEPT ![s] = "sending"] /\ running' = run
           /\ UNCHANGED <<kept, hand>>
  <2>1. /\ at'[s] = "sending" /\ \A x \in Senders \ {s} : at'[x] = at[x]
        /\ at' \in [Senders -> {"idle", "begin", "behind", "sending", "ahead", "after", "backoff"}]
    BY <1>1, <1>5 DEF TypeOK
  <2>2. running' \in [People -> Seq(Deliveries)]
    BY <1>2, <1>5 DEF GoodLines
  <2>3. TypeOK'
    BY <1>1, <1>5, <2>1, <2>2 DEF TypeOK
  <2>4. OnePlace' /\ Lists' /\ Numbered'
    BY <1>1, <1>5, NothingMoves
  <2>5. Hands'
    BY <1>1, <1>2, <1>5, <2>1 DEF Hands, AtWork
  <2>6. Lines'
    <3>1. \A p \in People : \A i \in 1 .. Len(running'[p]) : running'[p][i].waiter \in Senders \cup {None}
      BY <2>2, Waiters
    <3> QED
      BY <1>1, <1>5, <2>1, <3>1, StillAwaited
  <2>7. Marked'
    BY <1>1, <1>5 DEF Marked
  <2> QED
    BY <1>3, <2>3, <2>4, <2>5, <2>6, <2>7 DEF Inv
<1> QED
  BY <1>4, <1>5 DEF SendOrKeep

\* A delivery takes out the oldest reply.
LEMMA TakesKeeps ==
  ASSUME Inv, NEW p \in People, DeliveryTakes(p)
  PROVE  Inv'
<1>1. /\ TypeOK /\ OnePlace /\ Lists /\ Hands /\ Lines /\ Numbered /\ Marked
      /\ Taken /\ NothingTwice
  BY DEF Inv
<1> DEFINE q == kept[p]
<1>2. /\ running[p] # <<>> /\ Head(running[p]).hand = <<>> /\ q # <<>>
      /\ running' = [running EXCEPT ![p][1].hand = <<Head(q)>>]
      /\ kept' = [kept EXCEPT ![p] = Tail(q)]
      /\ UNCHANGED <<channel, marking, sending, wrote, history, faults>>
  BY DEF DeliveryTakes, LeftOnceTaken
<1> USE DEF channel, marking, sending, history
<1>3. q \in Seq(Messages) /\ Distinct(q)
  BY <1>1 DEF TypeOK, Lists
<1>4. /\ Head(q) \in Messages /\ Tail(q) \in Seq(Messages) /\ In(q, Head(q)) /\ Distinct(Tail(q))
      /\ \A y : In(Tail(q), y) <=> In(q, y) /\ y # Head(q)
  BY <1>2, <1>3, Tailed
<1>5. PICK m \in Messages : m = Head(q)
  BY <1>4
<1>6. Person[m.from] = p
  BY <1>1, <1>4, <1>5 DEF Lists
<1>7. /\ GoodLines(running) /\ Head(running[p]) = running[p][1] /\ Head(running[p]) \in Deliveries
      /\ Carrying(running[p]) = <<>>
  BY <1>1, <1>2, FirstOfTheLine
<1> DEFINE d == [running[p][1] EXCEPT !.hand = <<m>>]
<1>8. d \in Deliveries /\ d.waiter = running[p][1].waiter /\ d.hand = <<m>>
  <2>1. <<m>> \in Seq(Messages) /\ running[p][1] \in Deliveries
    BY <1>7
  <2> QED
    BY <2>1 DEF Deliveries
<1>9. running' = [running EXCEPT ![p] = [running[p] EXCEPT ![1] = d]]
  BY <1>2, <1>5
<1> HIDE DEF d
<1>10. /\ Follows(running, running') /\ Carrying(running'[p]) = <<m>>
       /\ \A r \in People \ {p} : running'[r] = running[r]
  <2>1. \E x \in Messages : d.hand = <<x>> /\ Person[x.from] = p
    BY <1>6, <1>8
  <2>2. running[p] # <<>>
    BY <1>2
  <2>3. TypeOK /\ Lines /\ d \in Deliveries /\ d.waiter = running[p][1].waiter
    BY <1>1, <1>8
  <2>4. /\ Follows(running, running') /\ Carrying(running'[p]) = d.hand
        /\ \A r \in People \ {p} : running'[r] = running[r]
    BY <1>9, <2>1, <2>2, <2>3, FirstChanges
  <2> QED
    BY <1>8, <2>4
<1>11. kept'[p] = Tail(q) /\ \A r \in People \ {p} : kept'[r] = kept[r]
  BY <1>1, <1>2 DEF TypeOK
<1>12. TypeOK'
  <2>1. kept' \in [People -> Seq(Messages)] /\ running' \in [People -> Seq(Deliveries)]
    BY <1>1, <1>2, <1>4, <1>10 DEF TypeOK, Follows, GoodLines
  <2> QED
    BY <1>1, <1>2, <2>1 DEF TypeOK
<1>13. OnePlace'
  <2> SUFFICES ASSUME NEW x \in Messages PROVE Placed(x)'
    BY DEF OnePlace
  <2>1. CASE x = m
    <3>1. m \in wrote /\ IsIn(m, "kept")
      BY <1>1, <1>4, <1>5, <1>6, IsThere DEF IsKept
    <3>2. IsCarried(x)' /\ ~ IsKept(x)'
      BY <1>4, <1>5, <1>6, <1>10, <1>11, <2>1 DEF IsCarried, IsKept
    <3> QED
      BY <1>2, <2>1, <3>1, <3>2 DEF Placed, Wheres, IsIn, InQueue, InHand
  <2>2. CASE x # m
    <3>1. IsKept(x)' <=> IsKept(x)
      BY <1>4, <1>5, <1>11, <2>2, AboutMessages DEF IsKept
    <3>2. IsCarried(x)' <=> IsCarried(x)
      BY <1>7, <1>10, <2>2, AboutMessages DEF IsCarried
    <3>3. Same(x) /\ (x \in wrote' <=> x \in wrote)
      BY <1>2, <3>1, <3>2 DEF Same, InQueue, InHand
    <3> QED
      BY <1>1, <3>3, StaysPlaced DEF OnePlace
  <2> QED
    BY <2>1, <2>2
<1>14. Lists'
  <2>1. \A r \in People : Distinct(kept'[r]) /\ \A y \in Messages : In(kept'[r], y) => Person[y.from] = r
    BY <1>1, <1>4, <1>11 DEF Lists
  <2> QED
    BY <1>1, <1>2, <2>1 DEF Lists
<1>15. Hands' /\ Marked'
  BY <1>1, <1>2 DEF Hands, Marked
<1>16. Lines'
  BY <1>1, <1>2, <1>10, StillAwaited
<1>17. Numbered'
  BY <1>1, <1>2, NothingWritten DEF Chunks
<1>18. Taken' /\ NothingTwice'
  BY <1>1, <1>2, NothingRead
<1> QED
  BY <1>12, <1>13, <1>14, <1>15, <1>16, <1>17, <1>18 DEF Inv

\* A delivery returns, and the sender that awaits it goes on.
LEMMA ReturnsKeeps ==
  ASSUME Inv, NEW p \in People, DeliveryReturns(p)
  PROVE  Inv'
<1>1. /\ TypeOK /\ OnePlace /\ Lists /\ Hands /\ Lines /\ Numbered /\ Marked
      /\ Taken /\ NothingTwice
  BY DEF Inv
<1> DEFINE rest == [running EXCEPT ![p] = Tail(@)]
           w == Head(running[p]).waiter
<1>2. /\ running[p] # <<>> /\ Head(running[p]).hand = <<>>
      /\ UNCHANGED <<channel, marking, queue, through, tries, lost, wrote, history, faults>>
  BY DEF DeliveryReturns
<1>3. \/ w = None /\ running' = rest /\ UNCHANGED <<kept, hand, at>>
      \/ w # None /\ at[w] = "behind" /\ SendOrKeep(w, rest)
      \/ w # None /\ at[w] # "behind" /\ running' = rest /\ at' = [at EXCEPT ![w] = "idle"]
           /\ UNCHANGED <<kept, hand>>
  BY DEF DeliveryReturns
<1>4. /\ GoodLines(running) /\ Carrying(running[p]) = <<>>
      /\ w # None => w \in Senders /\ Person[w] = p /\ at[w] \in {"behind", "after"}
  BY <1>1, <1>2, FirstOfTheLine
<1>5. /\ Follows(running, rest) /\ Carrying(rest[p]) = <<>>
      /\ w # None => \A i \in 1 .. Len(rest[p]) : rest[p][i].waiter # w
      /\ \A r \in People \ {p} : rest[r] = running[r]
  BY <1>2, <1>4, Returned
<1> HIDE DEF rest, w
<1>6. \A r \in People : Carrying(rest[r]) = Carrying(running[r])
  BY <1>4, <1>5
<1>7. rest \in [People -> Seq(Deliveries)]
  BY <1>5 DEF Follows, GoodLines
<1>8. w # None => \A r \in People : \A i \in 1 .. Len(rest[r]) : rest[r][i].waiter # w
  <2> SUFFICES ASSUME w # None, NEW r \in People \ {p}, NEW i \in 1 .. Len(running[r]),
                      running[r][i].waiter = w
               PROVE  FALSE
    BY <1>5
  <2>1. Person[w] = r
    BY <1>4 DEF GoodLines, Line
  <2> QED
    BY <1>4, <2>1
<1> USE DEF channel, marking, history
<1>9. CASE w = None /\ running' = rest /\ UNCHANGED <<kept, hand, at>>
  <2>1. TypeOK'
    BY <1>1, <1>2, <1>7, <1>9 DEF TypeOK
  <2> QED
    BY <1>2, <1>5, <1>6, <1>9, <2>1, AnIdleStep
<1>10. CASE w # None /\ at[w] = "behind" /\ SendOrKeep(w, rest)
  BY <1>2, <1>4, <1>5, <1>6, <1>8, <1>10, SendOrKeepKeeps
<1>11. CASE w # None /\ at[w] # "behind" /\ running' = rest /\ at' = [at EXCEPT ![w] = "idle"]
              /\ UNCHANGED <<kept, hand>>
  <2>1. PICK s \in Senders : s = w
    BY <1>4, <1>11
  <2>2. /\ at'[s] = "idle" /\ at[s] = "after" /\ \A x \in Senders \ {s} : at'[x] = at[x]
        /\ at' \in [Senders -> {"idle", "begin", "behind", "sending", "ahead", "after", "backoff"}]
    BY <1>1, <1>4, <1>11, <2>1 DEF TypeOK
  <2>3. TypeOK'
    BY <1>1, <1>2, <1>7, <1>11, <2>2 DEF TypeOK
  <2>4. OnePlace' /\ Lists' /\ Numbered' /\ Taken' /\ NothingTwice'
    BY <1>1, <1>2, <1>6, <1>11, NothingMoves
  <2>5. Hands'
    BY <1>1, <1>11, <2>2 DEF Hands, AtWork
  <2>6. Lines'
    <3>1. \A r \in People : \A i \in 1 .. Len(running'[r]) :
            running'[r][i].waiter \in Senders \cup {None} /\ running'[r][i].waiter # s
      BY <1>7, <1>8, <1>11, <2>1, Waiters
    <3> QED
      BY <1>1, <1>5, <1>11, <2>2, <3>1, StillAwaited
  <2>7. Marked'
    BY <1>1, <1>2, <1>11 DEF Marked
  <2> QED
    BY <2>3, <2>4, <2>5, <2>6, <2>7 DEF Inv
<1> QED
  BY <1>3, <1>9, <1>10, <1>11

\* A sender tries its chunk.
LEMMA AttemptKeeps ==
  ASSUME Inv, NEW s \in Senders, Attempt(s)
  PROVE  Inv'
<1>1. /\ TypeOK /\ OnePlace /\ Lists /\ Hands /\ Lines /\ Numbered /\ Marked
      /\ Taken /\ NothingTwice
  BY DEF Inv
<1> DEFINE new == [running EXCEPT ![Person[s]] = Append(@, Delivery(adapter, s))]
<1>2. /\ at[s] = "begin"
      /\ UNCHANGED <<channel, marking, queue, through, tries, lost, wrote, history, faults>>
  BY DEF Attempt
<1>3. \/ at' = [at EXCEPT ![s] = "ahead"] /\ UNCHANGED <<kept, running, hand>>
      \/ adapter # None /\ at' = [at EXCEPT ![s] = "behind"] /\ running' = new
           /\ UNCHANGED <<kept, hand>>
      \/ SendOrKeep(s, running)
  BY DEF Attempt
<1>4. GoodLines(running) /\ \A r \in People : \A i \in 1 .. Len(running[r]) : running[r][i].waiter # s
  BY <1>1, <1>2, NotAwaiting DEF TypeOK, Lines, GoodLines
<1>5. Person[s] \in People
  BY DeliveryAssumption
<1> HIDE DEF new
<1> USE DEF channel, marking, history
<1>6. ASSUME NEW v \in {"ahead", "behind"}, at' = [at EXCEPT ![s] = v], UNCHANGED <<kept, hand>>,
             running' \in [People -> Seq(Deliveries)], Lines',
             \A r \in People : Carrying(running'[r]) = Carrying(running[r])
      PROVE  Inv'
  <2>1. /\ at'[s] = v /\ \A x \in Senders \ {s} : at'[x] = at[x]
        /\ at' \in [Senders -> {"idle", "begin", "behind", "sending", "ahead", "after", "backoff"}]
    BY <1>1, <1>6 DEF TypeOK
  <2>2. TypeOK'
    BY <1>1, <1>2, <1>6, <2>1 DEF TypeOK
  <2>3. OnePlace' /\ Lists' /\ Numbered' /\ Taken' /\ NothingTwice'
    BY <1>1, <1>2, <1>6, NothingMoves
  <2>4. Hands'
    BY <1>1, <1>2, <1>6, <2>1 DEF Hands, AtWork
  <2>5. Marked'
    BY <1>1, <1>2, <1>6 DEF Marked
  <2> QED
    BY <1>6, <2>2, <2>3, <2>4, <2>5 DEF Inv
<1>7. CASE at' = [at EXCEPT ![s] = "ahead"] /\ UNCHANGED <<kept, running, hand>>
  <2>1. Follows(running, running') /\ running' \in [People -> Seq(Deliveries)]
    BY <1>4, <1>7, FollowsItself DEF GoodLines
  <2>2. \A x \in Senders \ {s} : at'[x] = at[x]
    BY <1>1, <1>7 DEF TypeOK
  <2>3. \A r \in People : \A i \in 1 .. Len(running'[r]) : running'[r][i].waiter \in Senders \cup {None}
    BY <2>1, Waiters
  <2>4. Lines'
    BY <1>1, <1>4, <1>7, <2>1, <2>2, <2>3, StillAwaited
  <2> QED
    BY <1>6, <1>7, <2>1, <2>4
<1>8. CASE adapter # None /\ at' = [at EXCEPT ![s] = "behind"] /\ running' = new
             /\ UNCHANGED <<kept, hand>>
  <2>1. /\ GoodLines(new) /\ \A r \in People : Carrying(new[r]) = Carrying(running[r])
        /\ \A r \in People : \A i \in 1 .. Len(new[r]) :
             new[r][i].waiter = s \/ \E j \in 1 .. Len(running[r]) : running[r][j] = new[r][i]
    BY <1>1, <1>4, <1>5, <1>8, Awaited DEF new
  <2>2. at'[s] = "behind" /\ \A x \in Senders \ {s} : at'[x] = at[x]
    BY <1>1, <1>8 DEF TypeOK
  <2>3. \A r \in People : \A i \in 1 .. Len(running[r]) : running[r][i].waiter \in Senders \cup {None}
    BY <1>4, Waiters DEF GoodLines
  <2>4. Lines'
    <3>1. ASSUME NEW r \in People, NEW i \in 1 .. Len(running'[r]), running'[r][i].waiter # None
          PROVE  at'[running'[r][i].waiter] \in {"behind", "after"}
      <4>1. CASE running'[r][i].waiter = s
        BY <2>2, <4>1
      <4>2. ASSUME NEW j \in 1 .. Len(running[r]), running[r][j] = running'[r][i]
            PROVE  at'[running'[r][i].waiter] \in {"behind", "after"}
        BY <1>1, <1>4, <2>2, <2>3, <3>1, <4>2 DEF Lines
      <4> QED
        BY <1>8, <2>1, <4>1, <4>2
    <3> QED
      BY <1>8, <2>1, <3>1 DEF Lines, GoodLines
  <2> QED
    BY <1>6, <1>8, <2>1, <2>4 DEF GoodLines
<1>9. CASE SendOrKeep(s, running)
  <2>1. Follows(running, running)
    BY <1>4, FollowsItself
  <2> QED
    BY <1>2, <1>4, <1>9, <2>1, SendOrKeepKeeps
<1> QED
  BY <1>3, <1>7, <1>8, <1>9

-----------------------------------------------------------------------------
(* What the channel answers.                                               *)

\* The reply a delivery has in hand.
LEMMA TheCarried ==
  ASSUME TypeOK, OnePlace, Lines, NEW p \in People, running[p] # <<>>, Head(running[p]).hand # <<>>
  PROVE  \E m \in Messages :
           /\ Head(Head(running[p]).hand) = m /\ Carrying(running[p]) = <<m>> /\ Person[m.from] = p
           /\ m \in wrote /\ IsIn(m, "carried") /\ m \notin done
<1>1. PICK m \in Messages : Head(running[p]).hand = <<m>> /\ Person[m.from] = p
  BY FirstOfTheLine
<1>2. Carrying(running[p]) = <<m>> /\ Head(Head(running[p]).hand) = m
  <2>1. Carrying(running[p]) = Head(running[p]).hand
    BY FirstOfTheLine
  <2>2. Head(<<m>>) = m
    OBVIOUS
  <2> QED
    BY <1>1, <2>1, <2>2
<1>3. IsCarried(m)
  BY <1>1, <1>2 DEF IsCarried
<1>4. m \in wrote /\ IsIn(m, "carried")
  BY <1>3, IsThere
<1>5. m \notin done
  BY <1>4 DEF IsIn
<1> QED
  BY <1>1, <1>2, <1>4, <1>5

\* The channel takes a kept reply.
LEMMA SentKeeps ==
  ASSUME Inv, NEW p \in People, DeliverySent(p)
  PROVE  Inv'
<1>1. /\ TypeOK /\ OnePlace /\ Lists /\ Hands /\ Lines /\ Numbered /\ Marked
      /\ Taken /\ NothingTwice
  BY DEF Inv
<1>2. /\ running[p] # <<>> /\ Head(running[p]).hand # <<>>
      /\ Outcome(Head(Head(running[p]).hand), Head(running[p]).through, p, "ok")
      /\ running' = [running EXCEPT ![p][1].hand = <<>>]
      /\ done' = done \cup {Head(Head(running[p]).hand)}
      /\ marks' = marks \ {p} /\ aged' = aged \ {p}
      /\ UNCHANGED <<channel, kept, sending, wrote, jumped, dropped, cut>>
  BY DEF DeliverySent
<1> USE DEF channel, sending
<1>3. PICK m \in Messages :
        /\ Head(Head(running[p]).hand) = m /\ Carrying(running[p]) = <<m>> /\ Person[m.from] = p
        /\ m \in wrote /\ IsIn(m, "carried") /\ m \notin done
  BY <1>1, <1>2, TheCarried
<1> DEFINE d == [running[p][1] EXCEPT !.hand = <<>>]
<1>4. d \in Deliveries /\ d.waiter = running[p][1].waiter /\ d.hand = <<>>
  <2>1. running[p][1] \in Deliveries /\ <<>> \in Seq(Messages)
    BY <1>1, <1>2, FirstOfTheLine
  <2> QED
    BY <2>1 DEF Deliveries
<1>5. running' = [running EXCEPT ![p] = [running[p] EXCEPT ![1] = d]]
  BY <1>2
<1> HIDE DEF d
<1>6. /\ Follows(running, running') /\ Carrying(running'[p]) = <<>>
      /\ running' \in [People -> Seq(Deliveries)]
      /\ \A q \in People \ {p} : running'[q] = running[q]
  <2>1. running[p] # <<>>
    BY <1>2
  <2> QED
    BY <1>1, <1>4, <1>5, <2>1, FirstChanges
<1>7. done' = done \cup {m}
  BY <1>2, <1>3
<1>8. /\ received' \in [People -> Seq(Receipts)] /\ faults' \in 0 .. MaxFaults
      /\ Taken' /\ NothingTwice'
  <2>1. Outcome(m, Head(running[p]).through, p, "ok")
    BY <1>2, <1>3
  <2> QED
    BY <1>1, <1>3, <1>7, <2>1, Answered
<1>9. TypeOK'
  <2>1. done' \subseteq Messages /\ received' \in [People -> Seq([of : Messages, part : {"text", "file", "told"}])]
    BY <1>1, <1>3, <1>7, <1>8 DEF TypeOK, Receipts, Parts
  <2> QED
    BY <1>1, <1>2, <1>6, <1>8, <2>1 DEF TypeOK
<1>10. OnePlace'
  <2> SUFFICES ASSUME NEW x \in Messages PROVE Placed(x)'
    BY DEF OnePlace
  <2>1. CASE x = m
    <3>1. ~ IsCarried(x)'
      <4>1. <<x>> # <<>>
        OBVIOUS
      <4> QED
        BY <1>3, <1>6, <2>1, <4>1 DEF IsCarried
    <3> QED
      BY <1>2, <1>3, <1>7, <2>1, <3>1 DEF Placed, Wheres, IsIn, InQueue, InHand, IsKept
  <2>2. CASE x # m
    <3>1. IsCarried(x)' <=> IsCarried(x)
      <4>1. <<x>> # <<>> /\ <<x>> # <<m>>
        BY <2>2
      <4> QED
        BY <1>3, <1>6, <2>2, <4>1, AboutMessages DEF IsCarried
    <3>2. Same(x) /\ (x \in wrote' <=> x \in wrote)
      BY <1>2, <1>7, <2>2, <3>1 DEF Same, InQueue, InHand, IsKept
    <3> QED
      BY <1>1, <3>2, StaysPlaced DEF OnePlace
  <2> QED
    BY <2>1, <2>2
<1>11. Lists' /\ Hands' /\ Marked'
  BY <1>1, <1>2 DEF Lists, Hands, Marked
<1>12. Lines'
  BY <1>1, <1>2, <1>6, StillAwaited
<1>13. Numbered'
  BY <1>1, <1>2, NothingWritten DEF Chunks
<1> QED
  BY <1>8, <1>9, <1>10, <1>11, <1>12, <1>13 DEF Inv

\* A kept reply is refused.
LEMMA KeptRefusedKeeps ==
  ASSUME Inv, NEW p \in People, DeliveryRefused(p)
  PROVE  Inv'
<1>1. /\ TypeOK /\ OnePlace /\ Lists /\ Hands /\ Lines /\ Numbered /\ Marked
      /\ Taken /\ NothingTwice
  BY DEF Inv
<1>2. running[p] # <<>> /\ Head(running[p]).hand # <<>>
  BY DEF DeliveryRefused
<1>3. PICK m \in Messages :
        /\ Head(Head(running[p]).hand) = m /\ Carrying(running[p]) = <<m>> /\ Person[m.from] = p
        /\ m \in wrote /\ IsIn(m, "carried") /\ m \notin done
  BY <1>1, <1>2, TheCarried
<1>4. PICK answer \in {"refused", "noServer"} :
        /\ Outcome(m, Head(running[p]).through, p, answer)
        /\ marks' = IF answer = "noServer" THEN marks \cup {p} ELSE marks
        /\ aged' = IF answer = "noServer" THEN aged \ {p} ELSE aged
        /\ LET back == answer = "noServer" \/ ~ CanCarry(Head(running[p]).through) IN
           /\ running' = [running EXCEPT ![p][1] = [Head(running[p]) EXCEPT
                            !.hand = <<>>, !.noServer = (answer = "noServer"), !.over = back]]
           /\ kept' = IF back THEN [kept EXCEPT ![p] = BackFirst(p, m)] ELSE kept
           /\ dropped' = IF back THEN dropped ELSE dropped \cup {m}
  BY <1>3 DEF DeliveryRefused
<1>5. UNCHANGED <<channel, sending, wrote, jumped, done, cut>>
  BY DEF DeliveryRefused
<1> USE DEF channel, sending
<1> DEFINE back == answer = "noServer" \/ ~ CanCarry(Head(running[p]).through)
           d == [Head(running[p]) EXCEPT !.hand = <<>>, !.noServer = (answer = "noServer"), !.over = back]
           q == kept[p]
           new == <<m>> \o q
<1>6. d \in Deliveries /\ d.waiter = running[p][1].waiter /\ d.hand = <<>>
  <2>1. Head(running[p]) \in Deliveries /\ Head(running[p]) = running[p][1] /\ <<>> \in Seq(Messages)
    BY <1>1, <1>2, FirstOfTheLine
  <2>2. back \in BOOLEAN /\ (answer = "noServer") \in BOOLEAN
    OBVIOUS
  <2> HIDE DEF back
  <2> QED
    BY <2>1, <2>2 DEF Deliveries
<1>7. running' = [running EXCEPT ![p] = [running[p] EXCEPT ![1] = d]]
  BY <1>4
<1> HIDE DEF d
<1>8. /\ Follows(running, running') /\ Carrying(running'[p]) = <<>>
      /\ running' \in [People -> Seq(Deliveries)]
      /\ \A r \in People \ {p} : running'[r] = running[r]
  BY <1>1, <1>2, <1>6, <1>7, FirstChanges
<1>9. q \in Seq(Messages) /\ ~ In(q, m)
  BY <1>1, <1>3 DEF TypeOK, IsIn, IsKept
<1>10. /\ new \in Seq(Messages)
       /\ \A y : In(new, y) <=> In(q, y) \/ y = m
       /\ Distinct(q) => Distinct(new)
  BY <1>9, Prepended
<1>11. /\ kept' = IF back THEN [kept EXCEPT ![p] = new] ELSE kept
       /\ dropped' = IF back THEN dropped ELSE dropped \cup {m}
  BY <1>4 DEF BackFirst
<1> HIDE DEF back, new
<1>12. /\ kept'[p] = IF back THEN new ELSE q
       /\ \A r \in People \ {p} : kept'[r] = kept[r]
       /\ kept' \in [People -> Seq(Messages)]
  BY <1>1, <1>10, <1>11 DEF TypeOK
<1>13. /\ received' \in [People -> Seq(Receipts)] /\ faults' \in 0 .. MaxFaults
       /\ Taken' /\ NothingTwice'
  BY <1>1, <1>3, <1>4, <1>5, Answered
<1>14. TypeOK'
  <2>1. dropped' \subseteq Messages /\ received' \in [People -> Seq([of : Messages, part : {"text", "file", "told"}])]
    BY <1>1, <1>3, <1>11, <1>13 DEF TypeOK, Receipts, Parts
  <2>2. marks' \subseteq People /\ aged' \subseteq marks'
    BY <1>1, <1>4 DEF TypeOK
  <2> QED
    BY <1>1, <1>5, <1>8, <1>12, <1>13, <2>1, <2>2 DEF TypeOK
<1>15. OnePlace'
  <2> SUFFICES ASSUME NEW x \in Messages PROVE Placed(x)'
    BY DEF OnePlace
  <2>1. CASE x = m
    <3>1. ~ IsCarried(x)'
      <4>1. <<x>> # <<>>
        OBVIOUS
      <4> QED
        BY <1>3, <1>8, <2>1, <4>1 DEF IsCarried
    <3>2. IsKept(x)' <=> back
      BY <1>3, <1>9, <1>10, <1>12, <2>1 DEF IsKept
    <3>3. x \in dropped' <=> ~ back
      BY <1>3, <1>11, <2>1 DEF IsIn
    <3> QED
      BY <1>3, <1>5, <2>1, <3>1, <3>2, <3>3 DEF Placed, Wheres, IsIn, InQueue, InHand
  <2>2. CASE x # m
    <3>1. IsCarried(x)' <=> IsCarried(x)
      <4>1. <<x>> # <<>> /\ <<x>> # <<m>>
        BY <2>2
      <4> QED
        BY <1>3, <1>8, <2>2, <4>1, AboutMessages DEF IsCarried
    <3>2. IsKept(x)' <=> IsKept(x)
      BY <1>10, <1>12, <2>2, AboutMessages DEF IsKept
    <3>3. Same(x) /\ (x \in wrote' <=> x \in wrote)
      BY <1>5, <1>11, <2>2, <3>1, <3>2 DEF Same, InQueue, InHand
    <3> QED
      BY <1>1, <3>3, StaysPlaced DEF OnePlace
  <2> QED
    BY <2>1, <2>2
<1>16. Lists'
  <2>1. \A r \in People : Distinct(kept'[r]) /\ \A y \in Messages : In(kept'[r], y) => Person[y.from] = r
    BY <1>1, <1>3, <1>10, <1>12 DEF Lists
  <2> QED
    BY <1>1, <1>5, <2>1 DEF Lists
<1>17. Hands'
  BY <1>1, <1>5 DEF Hands
<1>18. Marked'
  <2>1. dropped \subseteq dropped'
    BY <1>11
  <2> QED
    BY <1>1, <1>5, <2>1 DEF Marked
<1>19. Lines'
  BY <1>1, <1>5, <1>8, StillAwaited
<1>20. Numbered'
  BY <1>1, <1>5, NothingWritten DEF Chunks
<1> QED
  BY <1>13, <1>14, <1>15, <1>16, <1>17, <1>18, <1>19, <1>20 DEF Inv

\* The chunk a sender has in hand.
LEMMA TheChunk ==
  ASSUME TypeOK, OnePlace, Hands, NEW s \in Senders, at[s] \in AtWork
  PROVE  \E m \in Messages :
           /\ Head(hand[s]) = m /\ hand[s] = <<m>> /\ m.from = s
           /\ m \in wrote /\ IsIn(m, "hand") /\ m \notin done
<1>1. PICK m \in Messages : Head(hand[s]) = m /\ hand[s] = <<m>> /\ m.from = s
  BY InTheHand
<1>2. m \in wrote /\ IsIn(m, "hand")
  BY <1>1, IsThere DEF InHand
<1>3. m \notin done
  BY <1>2 DEF IsIn
<1> QED
  BY <1>1, <1>2, <1>3

\* The channel takes a chunk.
LEMMA DeliveredKeeps ==
  ASSUME Inv, NEW s \in Senders, Delivered(s)
  PROVE  Inv'
<1>1. /\ TypeOK /\ OnePlace /\ Lists /\ Hands /\ Lines /\ Numbered /\ Marked
      /\ Taken /\ NothingTwice
  BY DEF Inv
<1> DEFINE p == Person[s]
           new == [running EXCEPT ![p] = Append(@, Delivery(adapter, s))]
<1>2. /\ at[s] \in {"sending", "ahead"}
      /\ Outcome(Head(hand[s]), through[s], p, "ok")
      /\ marks' = marks \ {p} /\ aged' = aged \ {p}
      /\ done' = done \cup {Head(hand[s])}
      /\ hand' = [hand EXCEPT ![s] = <<>>]
      /\ \/ adapter # None /\ at' = [at EXCEPT ![s] = "after"] /\ running' = new
         \/ at' = [at EXCEPT ![s] = "idle"] /\ UNCHANGED running
      /\ jumped' \in {jumped, jumped \cup {Head(hand[s])}}
      /\ UNCHANGED <<channel, kept, queue, through, tries, lost, wrote, dropped, cut>>
  BY DEF Delivered
<1> USE DEF channel
<1>3. at[s] \in AtWork /\ p \in People
  BY <1>2, DeliveryAssumption DEF AtWork
<1>4. PICK m \in Messages : /\ Head(hand[s]) = m /\ hand[s] = <<m>> /\ m.from = s
                            /\ m \in wrote /\ IsIn(m, "hand") /\ m \notin done
  BY <1>1, <1>3, TheChunk
<1>5. /\ GoodLines(running)
      /\ \A r \in People : \A i \in 1 .. Len(running[r]) : running[r][i].waiter # s
  BY <1>1, <1>2, NotAwaiting DEF TypeOK, Lines, GoodLines
<1>6. /\ GoodLines(running') /\ \A r \in People : Carrying(running'[r]) = Carrying(running[r])
      /\ \A r \in People : \A i \in 1 .. Len(running'[r]) :
           \/ running'[r][i].waiter = s /\ at'[s] = "after"
           \/ \E j \in 1 .. Len(running[r]) : running[r][j] = running'[r][i]
  <2>1. CASE adapter # None /\ at' = [at EXCEPT ![s] = "after"] /\ running' = new
    <3>1. /\ GoodLines(new) /\ \A r \in People : Carrying(new[r]) = Carrying(running[r])
          /\ \A r \in People : \A i \in 1 .. Len(new[r]) :
               new[r][i].waiter = s \/ \E j \in 1 .. Len(running[r]) : running[r][j] = new[r][i]
      BY <1>1, <1>3, <1>5, <2>1, Awaited
    <3>2. at'[s] = "after"
      BY <1>1, <2>1 DEF TypeOK
    <3> HIDE DEF new
    <3> QED
      BY <2>1, <3>1, <3>2
  <2>2. CASE UNCHANGED running
    BY <1>5, <2>2
  <2> QED
    BY <1>2, <2>1, <2>2
<1> HIDE DEF new
<1>7. /\ at'[s] \in {"after", "idle"} /\ \A x \in Senders \ {s} : at'[x] = at[x]
      /\ at' \in [Senders -> {"idle", "begin", "behind", "sending", "ahead", "after", "backoff"}]
  BY <1>1, <1>2 DEF TypeOK
<1>8. /\ hand'[s] = <<>> /\ \A x \in Senders \ {s} : hand'[x] = hand[x]
      /\ hand' \in [Senders -> Seq(Messages)] /\ \A y : <<y>> # <<>>
  BY <1>1, <1>2 DEF TypeOK
<1>9. done' = done \cup {m}
  BY <1>2, <1>4
<1>10. /\ received' \in [People -> Seq(Receipts)] /\ faults' \in 0 .. MaxFaults
       /\ Taken' /\ NothingTwice'
  <2>1. Outcome(m, through[s], p, "ok")
    BY <1>2, <1>4
  <2> QED
    BY <1>1, <1>3, <1>4, <1>9, <2>1, Answered
<1>11. TypeOK'
  <2>1. done' \subseteq Messages /\ received' \in [People -> Seq([of : Messages, part : {"text", "file", "told"}])]
    BY <1>1, <1>4, <1>9, <1>10 DEF TypeOK, Receipts, Parts
  <2>2. marks' \subseteq People /\ aged' \subseteq marks' /\ jumped' \subseteq Messages
    BY <1>1, <1>2, <1>4 DEF TypeOK
  <2>3. running' \in [People -> Seq(Deliveries)]
    BY <1>6 DEF GoodLines
  <2> QED
    BY <1>1, <1>2, <1>7, <1>8, <1>10, <2>1, <2>2, <2>3 DEF TypeOK
<1>12. OnePlace'
  <2> SUFFICES ASSUME NEW x \in Messages PROVE Placed(x)'
    BY DEF OnePlace
  <2>1. IsCarried(x)' <=> IsCarried(x)
    BY <1>6, AboutMessages DEF IsCarried
  <2>2. CASE x = m
    <3>1. ~ InHand(x)'
      BY <1>4, <1>8, <2>2 DEF InHand
    <3> QED
      BY <1>2, <1>4, <1>9, <2>1, <2>2, <3>1 DEF Placed, Wheres, IsIn, InQueue, IsKept
  <2>3. CASE x # m
    <3>1. InHand(x)' <=> InHand(x)
      BY <1>4, <1>8, <2>3, AboutMessages DEF InHand
    <3>2. Same(x) /\ (x \in wrote' <=> x \in wrote)
      BY <1>2, <1>9, <2>1, <2>3, <3>1 DEF Same, InQueue, IsKept
    <3> QED
      BY <1>1, <3>2, StaysPlaced DEF OnePlace
  <2> QED
    BY <2>2, <2>3
<1>13. Lists'
  BY <1>1, <1>2 DEF Lists
<1>14. Hands'
  BY <1>1, <1>7, <1>8 DEF Hands, AtWork
<1>15. Lines'
  <2>1. \A r \in People : \A i \in 1 .. Len(running[r]) : running[r][i].waiter \in Senders \cup {None}
    BY <1>5, Waiters DEF GoodLines
  <2>2. ASSUME NEW r \in People, NEW i \in 1 .. Len(running'[r]), running'[r][i].waiter # None
        PROVE  at'[running'[r][i].waiter] \in {"behind", "after"}
    <3>1. ASSUME NEW j \in 1 .. Len(running[r]), running[r][j] = running'[r][i]
          PROVE  at'[running'[r][i].waiter] \in {"behind", "after"}
      BY <1>1, <1>5, <1>7, <2>1, <2>2, <3>1 DEF Lines
    <3> QED
      BY <1>6, <3>1
  <2> QED
    BY <1>6, <2>2 DEF Lines, GoodLines
<1>16. Numbered'
  BY <1>1, <1>2, NothingWritten DEF Chunks
<1>17. Marked'
  <2>1. \A x \in Senders : \A y \in Messages : hand'[x] = <<y>> => hand[x] = <<y>>
    BY <1>8
  <2> QED
    BY <1>1, <1>2, <2>1 DEF Marked
<1> QED
  BY <1>10, <1>11, <1>12, <1>13, <1>14, <1>15, <1>16, <1>17 DEF Inv

\* A chunk is refused by a channel that cannot carry it.
LEMMA NotCarriedKeeps ==
  ASSUME Inv, NEW s \in Senders, NotCarried(s)
  PROVE  Inv'
<1>1. /\ TypeOK /\ OnePlace /\ Lists /\ Hands /\ Lines /\ Numbered /\ Marked
      /\ Taken /\ NothingTwice
  BY DEF Inv
<1> DEFINE p == Person[s]
<1>2. /\ at[s] \in {"sending", "ahead"} /\ Keep(s, running, kept, marks', aged')
      /\ UNCHANGED <<channel, queue, through, tries, lost, wrote, jumped, done, dropped, cut>>
  BY DEF NotCarried
<1>3. PICK answer \in {"refused", "noServer"} :
        /\ Outcome(Head(hand[s]), through[s], p, answer)
        /\ marks' = IF answer = "noServer" THEN marks \cup {p} ELSE marks
        /\ aged' = IF answer = "noServer" THEN aged \ {p} ELSE aged
  BY DEF NotCarried
<1> USE DEF channel
<1>4. at[s] \in AtWork /\ p \in People
  BY <1>2, DeliveryAssumption DEF AtWork
<1>5. PICK m \in Messages : Head(hand[s]) = m /\ m \notin done
  BY <1>1, <1>4, TheChunk
<1>6. /\ GoodLines(running)
      /\ \A r \in People : \A i \in 1 .. Len(running[r]) : running[r][i].waiter # s
  BY <1>1, <1>2, NotAwaiting DEF TypeOK, Lines, GoodLines
<1>7. /\ received' \in [People -> Seq(Receipts)] /\ faults' \in 0 .. MaxFaults
      /\ Taken' /\ NothingTwice'
  <2>1. Outcome(m, through[s], p, answer)
    BY <1>3, <1>5
  <2> QED
    BY <1>1, <1>2, <1>4, <1>5, <2>1, Answered
<1>8. /\ OnePlace' /\ Lists' /\ Hands' /\ Numbered' /\ Marked'
      /\ kept' \in [People -> Seq(Messages)] /\ hand' \in [Senders -> Seq(Messages)]
      /\ at' \in [Senders -> {"idle", "begin", "behind", "sending", "ahead", "after", "backoff"}]
      /\ running' \in [People -> Seq(Deliveries)] /\ Follows(running, running')
      /\ \A x \in Senders \ {s} : at'[x] = at[x]
  BY <1>2, <1>4, <1>6, KeepMoves
<1>9. TypeOK'
  <2>1. received' \in [People -> Seq([of : Messages, part : {"text", "file", "told"}])]
    BY <1>7 DEF Receipts, Parts
  <2>2. marks' \subseteq People /\ aged' \subseteq marks'
    BY <1>1, <1>3, <1>4 DEF TypeOK
  <2> QED
    BY <1>1, <1>2, <1>7, <1>8, <2>1, <2>2 DEF TypeOK
<1>10. Lines'
  <2>1. ASSUME NEW r \in People, NEW i \in 1 .. Len(running'[r]), running'[r][i].waiter # None
        PROVE  at'[running'[r][i].waiter] = at[running'[r][i].waiter]
    <3>1. running'[r][i].waiter \in Senders \cup {None}
      BY <1>8, Waiters
    <3>2. running'[r][i].waiter # s
      BY <1>6, <1>8, <2>1 DEF Follows
    <3> QED
      BY <1>8, <2>1, <3>1, <3>2
  <2> QED
    BY <1>1, <1>8, <2>1, StillAwaited
<1> QED
  BY <1>7, <1>8, <1>9, <1>10 DEF Inv

\* A chunk is refused by a channel that can carry it.
LEMMA RefusedKeeps ==
  ASSUME Inv, NEW s \in Senders, Refused(s)
  PROVE  Inv'
<1>1. /\ TypeOK /\ OnePlace /\ Lists /\ Hands /\ Lines /\ Numbered /\ Marked
      /\ Taken /\ NothingTwice
  BY DEF Inv
<1> DEFINE first == s \notin Direct /\ ~ lost[s]
           k == Marker(Head(hand[s]))
<1>2. /\ at[s] \in {"sending", "ahead"}
      /\ Outcome(Head(hand[s]), through[s], Person[s], "refused")
      /\ UNCHANGED <<channel, marking, keeping, through, jumped, done, cut>>
  BY DEF Refused
<1>3. \/ /\ ~ LastTry(s)
         /\ at' = [at EXCEPT ![s] = "backoff"] /\ tries' = [tries EXCEPT ![s] = @ + 1]
         /\ UNCHANGED <<hand, queue, lost, dropped, wrote>>
      \/ /\ at' = [at EXCEPT ![s] = "idle"] /\ hand' = [hand EXCEPT ![s] = <<>>]
         /\ dropped' = dropped \cup {Head(hand[s])}
         /\ lost' = [lost EXCEPT ![s] = s \notin Direct]
         /\ \/ first /\ queue' = [queue EXCEPT ![s] = <<k>> \o @] /\ wrote' = wrote \cup {k}
            \/ ~ first /\ queue' = queue /\ wrote' = wrote
         /\ UNCHANGED tries
  BY DEF Refused
<1> USE DEF channel, marking, keeping
<1>4. at[s] \in AtWork /\ Person[s] \in People
  BY <1>2, DeliveryAssumption DEF AtWork
<1>5. PICK m \in Messages : /\ Head(hand[s]) = m /\ hand[s] = <<m>> /\ m.from = s
                            /\ m \in wrote /\ IsIn(m, "hand") /\ m \notin done
  BY <1>1, <1>4, TheChunk
<1>6. /\ received' \in [People -> Seq(Receipts)] /\ faults' \in 0 .. MaxFaults
      /\ Taken' /\ NothingTwice'
  <2>1. Outcome(m, through[s], Person[s], "refused")
    BY <1>2, <1>5
  <2> QED
    BY <1>1, <1>2, <1>4, <1>5, <2>1, Answered
<1>7. received' \in [People -> Seq([of : Messages, part : {"text", "file", "told"}])]
  BY <1>6 DEF Receipts, Parts
<1>8. \A r \in People : \A i \in 1 .. Len(running[r]) : running[r][i].waiter # s
  BY <1>1, <1>2, NotAwaiting
<1>9. ASSUME NEW v \in {"backoff", "idle"}, at' = [at EXCEPT ![s] = v]
      PROVE  /\ at' \in [Senders -> {"idle", "begin", "behind", "sending", "ahead", "after", "backoff"}]
             /\ at'[s] = v /\ \A x \in Senders \ {s} : at'[x] = at[x]
             /\ Lines'
  <2>1. /\ at' \in [Senders -> {"idle", "begin", "behind", "sending", "ahead", "after", "backoff"}]
        /\ at'[s] = v /\ \A x \in Senders \ {s} : at'[x] = at[x]
    BY <1>1, <1>9 DEF TypeOK
  <2>2. \A r \in People : \A i \in 1 .. Len(running[r]) : running[r][i].waiter \in Senders \cup {None}
    BY <1>1, Waiters DEF TypeOK
  <2>3. Lines'
    BY <1>1, <1>2, <1>8, <2>1, <2>2 DEF Lines
  <2> QED
    BY <2>1, <2>3
<1>10. CASE /\ ~ LastTry(s)
            /\ at' = [at EXCEPT ![s] = "backoff"] /\ tries' = [tries EXCEPT ![s] = @ + 1]
            /\ UNCHANGED <<hand, queue, lost, dropped, wrote>>
  <2>1. tries' \in [Senders -> 0 .. Retries]
    <3>1. tries \in [Senders -> 0 .. Retries] /\ tries[s] # Retries /\ Retries \in Nat
      BY <1>1, <1>10, DeliveryAssumption DEF TypeOK, LastTry
    <3>2. tries[s] + 1 \in 0 .. Retries
      BY <3>1
    <3> QED
      BY <1>10, <3>1, <3>2
  <2>2. TypeOK'
    BY <1>1, <1>2, <1>6, <1>7, <1>9, <1>10, <2>1 DEF TypeOK
  <2>3. OnePlace'
    <3> SUFFICES ASSUME NEW x \in Messages PROVE Placed(x)'
      BY DEF OnePlace
    <3>1. Same(x) /\ (x \in wrote' <=> x \in wrote)
      BY <1>2, <1>10 DEF Same, InQueue, InHand, IsKept, IsCarried
    <3> QED
      BY <1>1, <3>1, StaysPlaced DEF OnePlace
  <2>4. Lists' /\ Marked'
    BY <1>1, <1>2, <1>10 DEF Lists, Marked
  <2>5. Hands'
    BY <1>1, <1>4, <1>9, <1>10 DEF Hands, AtWork
  <2>6. Numbered'
    BY <1>1, <1>10, NothingWritten DEF Chunks
  <2> QED
    BY <1>6, <1>9, <1>10, <2>2, <2>3, <2>4, <2>5, <2>6 DEF Inv
<1>11. CASE /\ at' = [at EXCEPT ![s] = "idle"] /\ hand' = [hand EXCEPT ![s] = <<>>]
            /\ dropped' = dropped \cup {Head(hand[s])}
            /\ lost' = [lost EXCEPT ![s] = s \notin Direct]
            /\ \/ first /\ queue' = [queue EXCEPT ![s] = <<k>> \o @] /\ wrote' = wrote \cup {k}
               \/ ~ first /\ queue' = queue /\ wrote' = wrote
            /\ UNCHANGED tries
  <2>1. PICK c \in Messages : c = Marker(m) /\ c = k
    BY <1>5, MarkerIsAMessage
  <2>2. c.from = s /\ c.n = m.n /\ c.kind = "marker"
    BY <1>5, <2>1, MarkerIsAMessage
  <2> DEFINE q == queue[s]
             new == <<c>> \o q
  <2>3. first => m.kind # "marker" /\ c \notin wrote
    <3> SUFFICES ASSUME first PROVE m.kind # "marker" /\ c \notin wrote
      OBVIOUS
    <3>1. m.kind # "marker"
      BY <1>1, <1>5 DEF Marked
    <3>2. ASSUME c \in wrote PROVE FALSE
      <4>1. PICK y \in dropped : y.from = s /\ y.n = m.n /\ y.kind # "marker"
        BY <1>1, <2>2, <3>2 DEF Marked
      <4>2. y \in Messages /\ y \in wrote
        BY <1>1, <4>1, IsThere DEF TypeOK
      <4>3. y = m
        BY <1>1, <1>5, <3>1, <4>1, <4>2 DEF Numbered, Chunks
      <4> QED
        BY <1>5, <4>1, <4>3 DEF IsIn
    <3> QED
      BY <3>1, <3>2
  <2>4. q \in Seq(Messages)
    BY <1>1 DEF TypeOK
  <2>5. /\ new \in Seq(Messages)
        /\ \A y : In(new, y) <=> In(q, y) \/ y = c
        /\ Distinct(q) /\ ~ In(q, c) => Distinct(new)
    BY <2>4, Prepended
  <2>6. /\ queue' = IF first THEN [queue EXCEPT ![s] = new] ELSE queue
        /\ wrote' = IF first THEN wrote \cup {c} ELSE wrote
    BY <1>11, <2>1
  <2>7. /\ dropped' = dropped \cup {m} /\ hand' = [hand EXCEPT ![s] = <<>>] /\ UNCHANGED tries
        /\ lost' = [lost EXCEPT ![s] = s \notin Direct] /\ at' = [at EXCEPT ![s] = "idle"]
    BY <1>5, <1>11
  <2> HIDE DEF first, new, k
  <2>8. /\ queue'[s] = IF first THEN new ELSE q
        /\ \A x \in Senders \ {s} : queue'[x] = queue[x]
        /\ queue' \in [Senders -> Seq(Messages)]
    BY <1>1, <2>5, <2>6 DEF TypeOK
  <2>9. /\ hand'[s] = <<>> /\ \A x \in Senders \ {s} : hand'[x] = hand[x]
        /\ hand' \in [Senders -> Seq(Messages)] /\ \A y : <<y>> # <<>>
    BY <1>1, <2>7 DEF TypeOK
  <2>10. /\ lost' \in [Senders -> BOOLEAN]
         /\ lost'[s] = (s \notin Direct) /\ \A x \in Senders \ {s} : lost'[x] = lost[x]
    BY <1>1, <2>7 DEF TypeOK
  <2>11. TypeOK'
    <3>1. wrote' \subseteq Messages /\ dropped' \subseteq Messages
      BY <1>1, <2>1, <2>6, <2>7 DEF TypeOK
    <3> QED
      BY <1>1, <1>2, <1>6, <1>7, <1>9, <2>7, <2>8, <2>9, <2>10, <3>1 DEF TypeOK
  <2>12. OnePlace'
    <3> SUFFICES ASSUME NEW x \in Messages PROVE Placed(x)'
      BY DEF OnePlace
    <3>1. (IsKept(x)' <=> IsKept(x)) /\ (IsCarried(x)' <=> IsCarried(x))
      BY <1>2 DEF IsKept, IsCarried
    <3>2. x \in wrote' <=> x \in wrote \/ (first /\ x = c)
      BY <2>6
    <3>3. InQueue(x)' <=> InQueue(x) \/ (first /\ x = c)
      BY <2>2, <2>5, <2>8, AboutMessages DEF InQueue
    <3>4. InHand(x)' <=> InHand(x) /\ x # m
      <4>1. CASE x.from = s
        BY <1>5, <2>9, <4>1 DEF InHand
      <4>2. CASE x.from # s
        BY <1>5, <2>9, <4>2, AboutMessages DEF InHand
      <4> QED
        BY <4>1, <4>2
    <3>5. CASE x = m
      <4>1. ~ (first /\ x = c)
        BY <1>5, <2>3, <3>5
      <4> QED
        BY <1>2, <1>5, <2>7, <3>1, <3>2, <3>3, <3>4, <3>5, <4>1 DEF Placed, Wheres, IsIn
    <3>6. CASE first /\ x = c
      <4>1. IsIn(x, "unwritten") /\ x # m
        BY <1>1, <1>5, <2>3, <3>6 DEF OnePlace, Placed
      <4> QED
        BY <1>2, <2>7, <3>1, <3>2, <3>3, <3>4, <3>6, <4>1 DEF Placed, Wheres, IsIn
    <3>7. CASE x # m /\ ~ (first /\ x = c)
      <4>1. Same(x) /\ (x \in wrote' <=> x \in wrote)
        BY <1>2, <2>7, <3>1, <3>2, <3>3, <3>4, <3>7 DEF Same
      <4> QED
        BY <1>1, <4>1, StaysPlaced DEF OnePlace
    <3> QED
      BY <3>5, <3>6, <3>7
  <2>13. Lists'
    <3>1. first => ~ In(q, c)
      BY <1>1, <2>2, <2>3, IsThere DEF InQueue
    <3>2. \A x \in Senders : Distinct(queue'[x]) /\ \A y \in Messages : In(queue'[x], y) => y.from = x
      BY <1>1, <2>2, <2>5, <2>8, <3>1 DEF Lists
    <3> QED
      BY <1>1, <1>2, <3>2 DEF Lists
  <2>14. Hands'
    BY <1>1, <1>9, <2>7, <2>9 DEF Hands, AtWork
  <2>15. Numbered'
    <3>1. \A x \in Senders : Chunks(x)' = Chunks(x)
      BY <2>2, <2>6 DEF Chunks
    <3> QED
      BY <1>1, <3>1, NothingWritten
  <2>16. Marked'
    <3>1. \A y \in wrote' : y.kind = "marker" =>
            \E z \in dropped' : z.from = y.from /\ z.n = y.n /\ z.kind # "marker"
      <4> SUFFICES ASSUME NEW y \in wrote', y.kind = "marker"
                   PROVE  \E z \in dropped' : z.from = y.from /\ z.n = y.n /\ z.kind # "marker"
        OBVIOUS
      <4>1. CASE y \in wrote
        BY <1>1, <2>7, <4>1 DEF Marked
      <4>2. CASE first /\ y = c
        BY <1>5, <2>2, <2>3, <2>7, <4>2
      <4> QED
        BY <2>6, <4>1, <4>2
    <3>2. \A x \in Senders : lost'[x] => x \notin Direct
      BY <1>1, <2>10 DEF Marked
    <3>3. ASSUME NEW x \in Senders, NEW y \in Messages, In(queue'[x], y) \/ hand'[x] = <<y>>,
                 y.kind = "marker"
          PROVE  lost'[x]
      <4>1. CASE x # s
        <5>1. In(queue[x], y) \/ hand[x] = <<y>>
          BY <2>8, <2>9, <3>3, <4>1
        <5>2. lost[x]
          BY <1>1, <3>3, <5>1 DEF Marked
        <5> QED
          BY <2>10, <4>1, <5>2
      <4>2. CASE x = s /\ In(q, y)
        BY <1>1, <2>10, <3>3, <4>2 DEF Marked
      <4>3. CASE x = s /\ first /\ y = c
        BY <2>10, <4>3 DEF first
      <4> QED
        BY <2>5, <2>8, <2>9, <3>3, <4>1, <4>2, <4>3
    <3> QED
      BY <3>1, <3>2, <3>3 DEF Marked
  <2> QED
    BY <1>6, <1>9, <2>7, <2>11, <2>12, <2>13, <2>14, <2>15, <2>16 DEF Inv
<1> QED
  BY <1>3, <1>10, <1>11

-----------------------------------------------------------------------------
(* The invariant.                                                          *)

\* The first state.
LEMMA Initially ==
  ASSUME Init
  PROVE  Inv
<1>1. /\ adapter = 1 /\ made = 1 /\ ready \in BOOLEAN /\ reachable = People
      /\ marks = {} /\ aged = {}
      /\ kept = [p \in People |-> <<>>] /\ running = [p \in People |-> <<>>]
      /\ queue = [s \in Senders |-> <<>>] /\ hand = [s \in Senders |-> <<>>]
      /\ at = [s \in Senders |-> "idle"] /\ through = [s \in Senders |-> None]
      /\ tries = [s \in Senders |-> 0] /\ lost = [s \in Senders |-> FALSE]
      /\ wrote = {} /\ received = [p \in People |-> <<>>]
      /\ jumped = {} /\ done = {} /\ dropped = {} /\ cut = {} /\ faults = 0
  BY DEF Init
<1>2. TypeOK
  <2>1. 1 \in Adapters /\ None \in Adapters /\ 0 \in 0 .. Retries /\ 0 \in 0 .. MaxFaults
    BY DeliveryAssumption DEF Adapters, None
  <2> QED
    BY <1>1, <2>1 DEF TypeOK
<1>3. OnePlace
  <2> SUFFICES ASSUME NEW m \in Messages PROVE Placed(m)
    BY DEF OnePlace
  <2>1. queue[m.from] = <<>> /\ hand[m.from] = <<>> /\ kept[Person[m.from]] = <<>> /\ running[Person[m.from]] = <<>>
    BY <1>1, AboutMessages
  <2>2. ~ InQueue(m) /\ ~ InHand(m) /\ ~ IsKept(m) /\ ~ IsCarried(m)
    BY <2>1 DEF InQueue, InHand, IsKept, IsCarried, In, Carrying
  <2> QED
    BY <1>1, <2>2 DEF Placed, IsIn
<1>4. Lists /\ Marked
  BY <1>1 DEF Lists, Marked, Distinct, In
<1>5. Hands /\ Lines
  BY <1>1 DEF Hands, AtWork, Lines, Line
<1>6. Numbered
  <2>1. \A s \in Senders : Chunks(s) = {}
    BY <1>1 DEF Chunks
  <2> QED
    BY <2>1, FS_EmptySet DEF Numbered
<1>7. Taken /\ NothingTwice
  <2>1. \A p \in People : Texts(p) = {}
    BY <1>1 DEF Texts
  <2> QED
    BY <2>1 DEF Taken, NothingTwice
<1> QED
  BY <1>2, <1>3, <1>4, <1>5, <1>6, <1>7 DEF Inv

\* Every step.
LEMMA Preserved ==
  ASSUME Inv, [Next]_vars
  PROVE  Inv'
<1>1. CASE \E p \in People : DeliveryStep(p)
  BY <1>1, TakesKeeps, ReturnsKeeps, SentKeeps, KeptRefusedKeeps DEF DeliveryStep
<1>2. CASE \E s \in Senders : SenderStep(s)
  BY <1>2, ShiftKeeps, AttemptKeeps, DeliveredKeeps, NotCarriedKeeps, RefusedKeeps, RetryKeeps
     DEF SenderStep
<1>3. CASE \E s \in Senders, k \in Kinds : Enqueue(s, k)
  BY <1>3, EnqueueKeeps
<1>4. CASE Removed \/ Restart
  BY <1>4, RemovedKeeps, RestartKeeps
<1>5. CASE \/ Poll \/ Started \/ Goes \/ Replaced
           \/ \E p \in People : MarkAges(p) \/ LeavesServer(p) \/ JoinsServer(p)
           \/ \E s \in Senders : Opens(s)
           \/ UNCHANGED vars
  BY <1>5, IdleSteps
<1> QED
  BY <1>1, <1>2, <1>3, <1>4, <1>5 DEF Next

\* The invariant the others are read from.
THEOREM Invariance == Spec => []Inv
<1>1. Init => Inv
  BY Initially
<1>2. Inv /\ [Next]_vars => Inv'
  BY Preserved
<1> QED
  BY <1>1, <1>2, PTL DEF Spec

\* Types and ranges of the whole state, whatever the channel does and whenever the
\* bridge restarts.
THEOREM TypeCorrect == Spec => []TypeOK
<1>1. Inv => TypeOK
  BY DEF Inv
<1> QED
  BY <1>1, Invariance, PTL

\* Nobody reads the same text twice, for any number of retries, outages,
\* overlapping deliveries and restarts.
THEOREM ReadOnce == Spec => []NothingTwice
<1>1. Inv => NothingTwice
  BY DEF Inv
<1> QED
  BY <1>1, Invariance, PTL

-----------------------------------------------------------------------------
(* Everything written is in one place.                                     *)

\* The indices of what a list holds once, and of what it does not hold.
LEMMA OnceListed ==
  ASSUME NEW S, NEW q \in Seq(S), NEW m
  PROVE  /\ ~ In(q, m) => Indices(q, m) = {}
         /\ In(q, m) /\ Distinct(q) => \E i \in 1 .. Len(q) : Indices(q, m) = {i}
<1>1. Indices(q, m) = {i \in 1 .. Len(q) : q[i] = m}
  BY DEF Indices
<1>2. ASSUME In(q, m), Distinct(q) PROVE \E i \in 1 .. Len(q) : Indices(q, m) = {i}
  <2>1. PICK i \in 1 .. Len(q) : q[i] = m
    BY <1>2 DEF In
  <2>2. Indices(q, m) = {i}
    BY <1>1, <1>2, <2>1 DEF Distinct
  <2> QED
    BY <2>2
<1> QED
  BY <1>1, <1>2 DEF In

\* The deliveries that have m in hand.
Carriers(m) == {i \in Carried(Person[m.from]) : running[Person[m.from]][i].hand = <<m>>}

\* Where m is when it is over.
Ends(m) == {<<"over", x>> : x \in {y \in 1 .. 3 : m \in <<done, dropped, cut>>[y]}}

\* What is in hand, of a sender or of a delivery, is there once.
LEMMA ThePlaces ==
  Inv => \A m \in Messages :
    /\ ~ InHand(m) => Indices(hand[m.from], m) = {}
    /\ InHand(m) => Indices(hand[m.from], m) = {1}
    /\ ~ IsCarried(m) => Carriers(m) = {}
    /\ IsCarried(m) => Carriers(m) = {1}
<1> SUFFICES ASSUME Inv, NEW m \in Messages
             PROVE  /\ ~ InHand(m) => Indices(hand[m.from], m) = {}
                    /\ InHand(m) => Indices(hand[m.from], m) = {1}
                    /\ ~ IsCarried(m) => Carriers(m) = {}
                    /\ IsCarried(m) => Carriers(m) = {1}
  OBVIOUS
<1>1. TypeOK /\ Hands /\ Lines /\ m.from \in Senders /\ Person[m.from] \in People
  BY AboutMessages DEF Inv
<1>2. hand[m.from] = <<>> \/ \E x \in Messages : hand[m.from] = <<x>>
  BY <1>1 DEF Hands
<1>3. ~ InHand(m) => Indices(hand[m.from], m) = {}
  BY <1>2 DEF InHand, Indices
<1>4. InHand(m) => Indices(hand[m.from], m) = {1}
  BY DEF InHand, Indices
<1> DEFINE q == running[Person[m.from]]
<1>5. q \in Seq(Deliveries) /\ Line(q, Person[m.from])
  BY <1>1 DEF TypeOK, Lines
<1>6. \A i \in 1 .. Len(q) : q[i].hand = <<m>> => i = 1
  <2>1. <<m>> # <<>>
    OBVIOUS
  <2> QED
    BY <1>5, <2>1 DEF Line
<1>7. Carriers(m) = {i \in 1 .. Len(q) : q[i].hand = <<m>>}
  <2>1. <<m>> # <<>> /\ DOMAIN q = 1 .. Len(q)
    BY <1>5
  <2> QED
    BY <2>1 DEF Carriers, Carried
<1>8. q # <<>> <=> 1 \in 1 .. Len(q)
  BY <1>5
<1>9. IsCarried(m) <=> q # <<>> /\ q[1].hand = <<m>>
  <2>1. <<m>> # <<>>
    OBVIOUS
  <2> QED
    BY <2>1 DEF IsCarried, Carrying
<1> HIDE DEF q
<1> QED
  BY <1>3, <1>4, <1>6, <1>7, <1>8, <1>9

\* Every chunk and failure marker written is in one place and only one: none is
\* lost and none is sent from two places, whatever the people, senders, chunks,
\* refusals, outages, reloads and restarts.
THEOREM NothingLost == Spec => []EachHasOnePlace
<1>1. ASSUME Inv, NEW m \in wrote PROVE Cardinality(Places(m)) = 1
  <2>1. /\ TypeOK /\ Lists /\ m \in Messages
    BY <1>1 DEF Inv, TypeOK
  <2>2. m.from \in Senders /\ Person[m.from] \in People
    BY <2>1, AboutMessages
  <2>3. PICK w \in Wheres : IsIn(m, w)
    BY <1>1, <2>1 DEF Inv, OnePlace, Placed
  <2> DEFINE A == Indices(queue[m.from], m)
             B == Indices(hand[m.from], m)
             C == Indices(kept[Person[m.from]], m)
             D == Carriers(m)
             E == Ends(m)
             P == ({"queue"} \X A) \cup ({"hand"} \X B) \cup ({"kept"} \X C) \cup ({"carried"} \X D) \cup E
  <2>4. Places(m) = P
    BY DEF Places, Carriers, Ends
  <2>5. /\ w # "queue" => A = {}
        /\ w = "queue" => \E i \in 1 .. Len(queue[m.from]) : A = {i}
    BY <2>1, <2>2, <2>3, OnceListed DEF TypeOK, Lists, IsIn, InQueue
  <2>6. /\ w # "kept" => C = {}
        /\ w = "kept" => \E i \in 1 .. Len(kept[Person[m.from]]) : C = {i}
    BY <2>1, <2>2, <2>3, OnceListed DEF TypeOK, Lists, IsIn, IsKept
  <2>7. /\ w # "hand" => B = {}
        /\ w = "hand" => B = {1}
        /\ w # "carried" => D = {}
        /\ w = "carried" => D = {1}
    BY <1>1, <2>1, <2>3, ThePlaces DEF IsIn
  <2>8. /\ w \notin {"done", "dropped", "cut"} => E = {}
        /\ w = "done" => E = {<<"over", 1>>}
        /\ w = "dropped" => E = {<<"over", 2>>}
        /\ w = "cut" => E = {<<"over", 3>>}
    <3>1. /\ <<done, dropped, cut>>[1] = done /\ <<done, dropped, cut>>[2] = dropped
          /\ <<done, dropped, cut>>[3] = cut
      OBVIOUS
    <3> DEFINE I == {y \in 1 .. 3 : m \in <<done, dropped, cut>>[y]}
    <3>2. I = {y \in {1, 2, 3} : \/ y = 1 /\ m \in done
                                 \/ y = 2 /\ m \in dropped
                                 \/ y = 3 /\ m \in cut}
      BY <3>1
    <3>3. /\ w \notin {"done", "dropped", "cut"} => I = {}
          /\ w = "done" => I = {1}
          /\ w = "dropped" => I = {2}
          /\ w = "cut" => I = {3}
      BY <2>3, <3>2 DEF IsIn
    <3>4. E = {<<"over", x>> : x \in I}
      BY DEF Ends
    <3> HIDE DEF I, E
    <3> QED
      BY <3>3, <3>4
  <2> HIDE DEF A, B, C, D, E
  <2>9. \E x : P = {x}
    <3>1. CASE w = "queue"
      <4>1. PICK i \in 1 .. Len(queue[m.from]) : A = {i}
        BY <2>5, <3>1
      <4>2. P = {<<"queue", i>>}
        BY <2>6, <2>7, <2>8, <3>1, <4>1
      <4> QED
        BY <4>2
    <3>2. CASE w = "kept"
      <4>1. PICK i \in 1 .. Len(kept[Person[m.from]]) : C = {i}
        BY <2>6, <3>2
      <4>2. P = {<<"kept", i>>}
        BY <2>5, <2>7, <2>8, <3>2, <4>1
      <4> QED
        BY <4>2
    <3>3. CASE w = "hand"
      <4>1. P = {<<"hand", 1>>}
        BY <2>5, <2>6, <2>7, <2>8, <3>3
      <4> QED
        BY <4>1
    <3>4. CASE w = "carried"
      <4>1. P = {<<"carried", 1>>}
        BY <2>5, <2>6, <2>7, <2>8, <3>4
      <4> QED
        BY <4>1
    <3>5. CASE w \in {"done", "dropped", "cut"}
      <4>1. P = E
        BY <2>5, <2>6, <2>7, <3>5
      <4> QED
        BY <2>8, <3>5, <4>1
    <3> QED
      BY <3>1, <3>2, <3>3, <3>4, <3>5 DEF Wheres
  <2> QED
    BY <2>4, <2>9, FS_Singleton
<1>2. Inv => EachHasOnePlace
  BY <1>1 DEF EachHasOnePlace
<1> QED
  BY <1>2, Invariance, PTL

-----------------------------------------------------------------------------
(* What is sent goes behind what is kept.                                  *)

\* Only an attempt, or the return of the delivery it awaits, lets a sender send.
LEMMA WhoSends ==
  ASSUME TypeOK, [Next]_vars, NEW s \in Senders, at[s] # "sending", at'[s] = "sending"
  PROVE  (\E p \in People : DeliveryReturns(p)) \/ \E t \in Senders : Attempt(t)
<1> USE DEF channel, marking, keeping, sending, history
<1>1. ASSUME at' = at PROVE FALSE
  BY <1>1
<1>2. ASSUME NEW t \in Senders, NEW v, at' = [at EXCEPT ![t] = v], v # "sending" PROVE FALSE
  BY <1>2 DEF TypeOK
<1>3. CASE \E p \in People : DeliveryTakes(p) \/ DeliverySent(p) \/ DeliveryRefused(p)
                               \/ MarkAges(p) \/ LeavesServer(p) \/ JoinsServer(p)
  BY <1>1, <1>3 DEF DeliveryTakes, DeliverySent, DeliveryRefused, MarkAges, LeavesServer, JoinsServer
<1>4. CASE \E t \in Senders : Opens(t) \/ \E k \in Kinds : Enqueue(t, k)
  BY <1>1, <1>4 DEF Opens, Enqueue
<1>5. ASSUME NEW t \in Senders, Shift(t) \/ Retry(t) PROVE FALSE
  BY <1>2, <1>5 DEF Shift, Retry
<1>6. ASSUME NEW t \in Senders, Delivered(t) PROVE FALSE
  <2>1. at' = [at EXCEPT ![t] = "after"] \/ at' = [at EXCEPT ![t] = "idle"]
    BY <1>6 DEF Delivered
  <2> QED
    BY <1>2, <2>1
<1>7. ASSUME NEW t \in Senders, NotCarried(t) PROVE FALSE
  BY <1>2, <1>7 DEF NotCarried, Keep
<1>8. ASSUME NEW t \in Senders, Refused(t) PROVE FALSE
  <2>1. at' = [at EXCEPT ![t] = "backoff"] \/ at' = [at EXCEPT ![t] = "idle"]
    BY <1>8 DEF Refused
  <2> QED
    BY <1>2, <2>1
<1>9. CASE Poll \/ Started \/ Goes \/ Replaced \/ Removed \/ UNCHANGED vars
  BY <1>1, <1>9 DEF Poll, Started, Goes, Replaced, Removed, vars
<1>10. CASE Restart
  BY <1>10 DEF Restart
<1> QED
  BY <1>3, <1>4, <1>5, <1>6, <1>7, <1>8, <1>9, <1>10 DEF Next, DeliveryStep, SenderStep

\* A sender lets nothing but its own chunk go, with nothing kept for its person.
LEMMA SendsOnlyThen ==
  ASSUME TypeOK, NEW s \in Senders, NEW t \in Senders, NEW run, SendOrKeep(t, run),
         at[s] # "sending", at'[s] = "sending"
  PROVE  t = s /\ running' = run /\ kept'[Person[s]] = <<>> /\ CanCarry(through[s])
<1>1. at' # [at EXCEPT ![t] = "idle"]
  BY DEF TypeOK
<1>2. ~ Keep(t, run, kept, marks, aged)
  BY <1>1 DEF Keep
<1>3. /\ kept[Person[t]] = <<>> /\ CanCarry(through[t])
      /\ at' = [at EXCEPT ![t] = "sending"] /\ running' = run /\ UNCHANGED kept
  BY <1>2 DEF SendOrKeep
<1> QED
  BY <1>3 DEF TypeOK

\* A sender that begins to send finds nothing kept and no reply in hand.
LEMMA FreeToSend ==
  ASSUME Inv, [Next]_vars, NEW s \in Senders, at[s] # "sending", at'[s] = "sending"
  PROVE  /\ kept'[Person[s]] = <<>>
         /\ \A i \in DOMAIN running'[Person[s]] : running'[Person[s]][i].hand = <<>>
<1>1. TypeOK /\ Hands /\ Lines
  BY DEF Inv
<1>2. ASSUME NEW p \in People, DeliveryReturns(p)
      PROVE  /\ kept'[Person[s]] = <<>>
             /\ \A i \in DOMAIN running'[Person[s]] : running'[Person[s]][i].hand = <<>>
  <2> DEFINE rest == [running EXCEPT ![p] = Tail(@)]
             w == Head(running[p]).waiter
  <2>1. running[p] # <<>>
    BY <1>2 DEF DeliveryReturns
  <2>2. /\ GoodLines(running)
        /\ w # None => w \in Senders /\ Person[w] = p
    BY <1>1, <2>1, FirstOfTheLine
  <2>3. /\ \A i \in 1 .. Len(rest[p]) : rest[p][i].hand = <<>>
        /\ rest[p] \in Seq(Deliveries)
    <3>1. Follows(running, rest) /\ \A i \in 1 .. Len(rest[p]) : rest[p][i].hand = <<>>
      BY <2>1, <2>2, Returned
    <3> HIDE DEF rest
    <3> QED
      BY <3>1 DEF Follows, GoodLines
  <2>4. w \in Senders /\ SendOrKeep(w, rest)
    <3>1. \/ at' = at
          \/ w # None /\ SendOrKeep(w, rest)
          \/ w # None /\ at' = [at EXCEPT ![w] = "idle"]
      BY <1>2 DEF DeliveryReturns
    <3>2. at' # at
      OBVIOUS
    <3>3. w \in Senders => at' # [at EXCEPT ![w] = "idle"]
      BY <1>1 DEF TypeOK
    <3> QED
      BY <2>2, <3>1, <3>2, <3>3
  <2> HIDE DEF rest, w
  <2>5. w = s /\ running' = rest /\ kept'[Person[s]] = <<>>
    BY <1>1, <2>4, SendsOnlyThen
  <2>6. Person[s] = p /\ DOMAIN rest[p] = 1 .. Len(rest[p])
    BY <2>2, <2>3, <2>4, <2>5, DeliveryAssumption
  <2> QED
    BY <2>3, <2>5, <2>6
<1>3. ASSUME NEW t \in Senders, Attempt(t)
      PROVE  /\ kept'[Person[s]] = <<>>
             /\ \A i \in DOMAIN running'[Person[s]] : running'[Person[s]][i].hand = <<>>
  <2>1. \/ at' = [at EXCEPT ![t] = "ahead"]
        \/ at' = [at EXCEPT ![t] = "behind"]
        \/ SendOrKeep(t, running) /\ (~ Pending(Person[t]) \/ adapter = None)
    BY <1>3 DEF Attempt
  <2>2. at' # [at EXCEPT ![t] = "ahead"] /\ at' # [at EXCEPT ![t] = "behind"]
    BY <1>1 DEF TypeOK
  <2>3. t = s /\ running' = running /\ kept'[Person[s]] = <<>> /\ CanCarry(through[s])
    BY <1>1, <2>1, <2>2, SendsOnlyThen
  <2>4. running[Person[s]] = <<>>
    BY <2>1, <2>2, <2>3 DEF CanCarry, Pending
  <2> QED
    BY <2>3, <2>4
<1> QED
  BY <1>1, <1>2, <1>3, WhoSends

\* A chunk for a person not marked is sent only when nothing is kept for that person
\* and no delivery to them has a reply in hand, however deliveries overlap.
THEOREM BehindTheKept == Spec => SentBehindTheKept
<1>1. Inv /\ [Next]_vars =>
        [\A s \in Senders :
           (at[s] # "sending" /\ at'[s] = "sending")
             => kept'[Person[s]] = <<>> /\ \A i \in DOMAIN running'[Person[s]] :
                                             running'[Person[s]][i].hand = <<>>]_vars
  BY FreeToSend
<1> QED
  BY <1>1, Invariance, PTL DEF Spec, SentBehindTheKept

-----------------------------------------------------------------------------
(* What a person reads is in order.                                        *)

\* o is ahead of m wherever both are in a list.
AheadIn(q, o, m) == \A i, j \in 1 .. Len(q) : q[i] = o /\ q[j] = m => i < j

QueueAhead(o, m) == AheadIn(queue[m.from], o, m)
KeptAhead(o, m) == AheadIn(kept[Person[m.from]], o, m)

\* m left the list of the kept for good, with no leave to go ahead.
Passed(m) == (m \in done /\ m \notin jumped) \/ IsCarried(m)

\* What was written before m is not behind it on the way from the queue through the
\* hand of its sender and the kept replies to the person.
InTurn(o, m) ==
  /\ Passed(m) => ~ InQueue(o) /\ ~ InHand(o) /\ ~ IsKept(o) /\ ~ IsCarried(o)
  /\ IsKept(m) => ~ InQueue(o) /\ ~ InHand(o) /\ KeptAhead(o, m)
  /\ InHand(m) => ~ InQueue(o)
  /\ InQueue(m) => QueueAhead(o, m)

Order == \A o, m \in Messages : Before(o, m) => InTurn(o, m)

\* While a sender sends to a person not marked, nothing of its own is kept or carried.
SendsAlone ==
  \A s \in Senders : at[s] = "sending" =>
    \A m \in Messages : m.from = s => ~ IsKept(m) /\ ~ IsCarried(m)

OrderInv == Order /\ SendsAlone /\ InOrder

\* Of two states of a list, the later holds what the earlier did, in the order it did,
\* or less, but for x.
InLineBut(q, r, x) ==
  /\ \A o : o # x /\ In(r, o) => In(q, o)
  /\ \A o, m : o # x /\ m # x /\ AheadIn(q, o, m) => AheadIn(r, o, m)

\* A list is as it was.
LEMMA SameLine ==
  ASSUME NEW q, NEW x
  PROVE  InLineBut(q, q, x)
BY DEF InLineBut

\* A list is empty.
LEMMA EmptyLine ==
  ASSUME NEW q, NEW x
  PROVE  InLineBut(q, <<>>, x)
<1>1. 1 .. Len(<<>>) = {}
  OBVIOUS
<1> QED
  BY <1>1 DEF InLineBut, In, AheadIn

\* x joins a list at its end.
LEMMA LineJoined ==
  ASSUME NEW S, NEW q \in Seq(S), NEW x \in S, ~ In(q, x)
  PROVE  /\ InLineBut(q, Append(q, x), x)
         /\ \A o : o # x => AheadIn(Append(q, x), o, x)
<1>1. /\ Len(Append(q, x)) = Len(q) + 1 /\ Append(q, x)[Len(q) + 1] = x /\ Len(q) \in Nat
      /\ \A i \in 1 .. Len(q) : Append(q, x)[i] = q[i]
  OBVIOUS
<1> DEFINE r == Append(q, x)
<1> HIDE DEF r
<1>2. \A i \in 1 .. Len(r) : (i = Len(q) + 1 /\ r[i] = x) \/ (i \in 1 .. Len(q) /\ r[i] = q[i])
  <2> SUFFICES ASSUME NEW i \in 1 .. Len(r), i # Len(q) + 1 PROVE i \in 1 .. Len(q)
    BY <1>1 DEF r
  <2> QED
    BY <1>1 DEF r
<1>3. ASSUME NEW o, o # x, In(r, o) PROVE In(q, o)
  BY <1>2, <1>3 DEF In
<1>4. ASSUME NEW o, NEW m, o # x, m # x, AheadIn(q, o, m) PROVE AheadIn(r, o, m)
  BY <1>2, <1>4 DEF AheadIn
<1>5. ASSUME NEW o, o # x PROVE AheadIn(r, o, x)
  <2> SUFFICES ASSUME NEW i \in 1 .. Len(r), NEW j \in 1 .. Len(r), r[i] = o, r[j] = x PROVE i < j
    BY DEF AheadIn
  <2>1. i \in 1 .. Len(q)
    BY <1>2, <1>5
  <2>2. j = Len(q) + 1
    BY <1>2 DEF In
  <2> QED
    BY <1>1, <2>1, <2>2
<1> QED
  BY <1>3, <1>4, <1>5 DEF InLineBut, r

\* x goes to the front of a list.
LEMMA LineHeaded ==
  ASSUME NEW S, NEW q \in Seq(S), NEW x \in S, ~ In(q, x)
  PROVE  /\ InLineBut(q, <<x>> \o q, x)
         /\ \A m : m # x => AheadIn(<<x>> \o q, x, m)
         /\ \A o : o # x /\ ~ In(q, o) => AheadIn(<<x>> \o q, o, x)
<1>1. /\ Len(<<x>> \o q) = Len(q) + 1 /\ Len(q) \in Nat /\ (<<x>> \o q)[1] = x
      /\ \A i \in 2 .. Len(q) + 1 : (<<x>> \o q)[i] = q[i - 1]
  OBVIOUS
<1> DEFINE r == <<x>> \o q
<1> HIDE DEF r
<1>2. \A i \in 1 .. Len(r) :
        (i = 1 /\ r[i] = x) \/ (i > 1 /\ i - 1 \in 1 .. Len(q) /\ r[i] = q[i - 1])
  <2> SUFFICES ASSUME NEW i \in 1 .. Len(r), i # 1
               PROVE  i > 1 /\ i - 1 \in 1 .. Len(q) /\ r[i] = q[i - 1]
    BY <1>1 DEF r
  <2>1. i \in 2 .. Len(q) + 1
    BY <1>1 DEF r
  <2> QED
    BY <1>1, <2>1 DEF r
<1>3. ASSUME NEW o, o # x, In(r, o) PROVE In(q, o)
  BY <1>2, <1>3 DEF In
<1>4. ASSUME NEW o, NEW m, o # x, m # x, AheadIn(q, o, m) PROVE AheadIn(r, o, m)
  <2> SUFFICES ASSUME NEW i \in 1 .. Len(r), NEW j \in 1 .. Len(r), r[i] = o, r[j] = m PROVE i < j
    BY DEF AheadIn
  <2>1. i - 1 < j - 1
    BY <1>2, <1>4 DEF AheadIn
  <2> QED
    BY <2>1
<1>5. ASSUME NEW m, m # x PROVE AheadIn(r, x, m)
  BY <1>2, <1>5 DEF AheadIn, In
<1>6. ASSUME NEW o, o # x, ~ In(q, o) PROVE AheadIn(r, o, x)
  BY <1>2, <1>6 DEF AheadIn, In
<1> QED
  BY <1>3, <1>4, <1>5, <1>6 DEF InLineBut, r

\* The first leaves a list.
LEMMA LineLeft ==
  ASSUME NEW S, NEW q \in Seq(S), q # <<>>, Distinct(q), NEW x, x = Head(q)
  PROVE  /\ InLineBut(q, Tail(q), x) /\ ~ In(Tail(q), x)
         /\ \A o : o # x /\ AheadIn(q, o, x) => ~ In(q, o) /\ ~ In(Tail(q), o)
<1>1. /\ x = q[1] /\ Len(q) \in Nat /\ Len(q) # 0 /\ Len(Tail(q)) = Len(q) - 1
      /\ \A i \in 1 .. Len(q) - 1 : Tail(q)[i] = q[i + 1]
  OBVIOUS
<1> DEFINE r == Tail(q)
<1> HIDE DEF r
<1>2. 1 \in 1 .. Len(q) /\ \A i \in 1 .. Len(r) : i + 1 \in 1 .. Len(q) /\ i + 1 # 1 /\ r[i] = q[i + 1]
  BY <1>1 DEF r
<1>3. \A o : In(r, o) => In(q, o)
  BY <1>2 DEF In
<1>4. ASSUME NEW o, NEW m, AheadIn(q, o, m) PROVE AheadIn(r, o, m)
  <2> SUFFICES ASSUME NEW i \in 1 .. Len(r), NEW j \in 1 .. Len(r), r[i] = o, r[j] = m PROVE i < j
    BY DEF AheadIn
  <2>1. i + 1 < j + 1
    BY <1>2, <1>4 DEF AheadIn
  <2> QED
    BY <2>1
<1>5. ~ In(r, x)
  BY <1>1, <1>2 DEF In, Distinct
<1>6. ASSUME NEW o, AheadIn(q, o, x) PROVE ~ In(q, o)
  <2> SUFFICES ASSUME NEW i \in 1 .. Len(q), q[i] = o PROVE FALSE
    BY DEF In
  <2>1. i < 1
    BY <1>1, <1>2, <1>6 DEF AheadIn
  <2> QED
    BY <2>1
<1> QED
  BY <1>3, <1>4, <1>5, <1>6 DEF InLineBut, r

-----------------------------------------------------------------------------
(* A step that moves one message.                                          *)

\* A step moves nothing but x, though it may take other messages away.
OnlyMoves(x) ==
  /\ \A s \in Senders : InLineBut(queue[s], queue'[s], x)
  /\ \A s \in Senders : \A y : y # x /\ hand'[s] = <<y>> => hand[s] = <<y>>
  /\ \A p \in People : InLineBut(kept[p], kept'[p], x)
  /\ \A p \in People : \A y :
       y # x /\ Carrying(running'[p]) = <<y>> => Carrying(running[p]) = <<y>>
  /\ \A y : y # x /\ y \in done' \ jumped' => y \in done \ jumped

\* The step keeps x, or gives it to a delivery, only when its sender goes on.
SenderGoesOn(x) ==
  IsKept(x)' \/ IsCarried(x)' => IsKept(x) \/ IsCarried(x) \/ at'[x.from] # "sending"

\* x is where its turn is, of the messages before it and after it.
TakesItsTurn(x) ==
  \A y \in Messages : y # x =>
    /\ Before(y, x) => InTurn(y, x)'
    /\ Before(x, y) => InTurn(x, y)'

\* Two messages a step does not move stay in turn.
LEMMA OthersInTurn ==
  ASSUME NEW x, OnlyMoves(x), NEW o \in Messages, NEW m \in Messages, o # x, m # x, InTurn(o, m)
  PROVE  InTurn(o, m)'
<1>1. /\ o.from \in Senders /\ Person[o.from] \in People
      /\ m.from \in Senders /\ Person[m.from] \in People
  BY AboutMessages
<1>2. /\ InLineBut(queue[o.from], queue'[o.from], x)
      /\ InLineBut(queue[m.from], queue'[m.from], x)
      /\ InLineBut(kept[Person[o.from]], kept'[Person[o.from]], x)
      /\ InLineBut(kept[Person[m.from]], kept'[Person[m.from]], x)
  BY <1>1 DEF OnlyMoves
<1>3. /\ InQueue(o)' => InQueue(o)
      /\ InQueue(m)' => InQueue(m)
      /\ IsKept(o)' => IsKept(o)
      /\ IsKept(m)' => IsKept(m)
      /\ QueueAhead(o, m) => QueueAhead(o, m)'
      /\ KeptAhead(o, m) => KeptAhead(o, m)'
  BY <1>2 DEF InLineBut, InQueue, IsKept, QueueAhead, KeptAhead
<1>4. /\ InHand(o)' => InHand(o)
      /\ InHand(m)' => InHand(m)
      /\ IsCarried(o)' => IsCarried(o)
      /\ Passed(m)' => Passed(m)
  BY <1>1 DEF OnlyMoves, InHand, IsCarried, Passed
<1> QED
  BY <1>3, <1>4 DEF InTurn

\* Nothing is before itself.
LEMMA NotBeforeItself ==
  ASSUME NEW m \in Messages
  PROVE  ~ Before(m, m)
BY AboutMessages DEF Before

\* A step that moves one message at most, to where its turn is, keeps all in turn.
LEMMA MovesOne ==
  ASSUME Inv, OrderInv, [Next]_vars, NEW x, OnlyMoves(x),
         x \in Messages => SenderGoesOn(x) /\ TakesItsTurn(x)
  PROVE  Order' /\ SendsAlone'
<1>1. Order'
  <2> SUFFICES ASSUME NEW o \in Messages, NEW m \in Messages, Before(o, m) PROVE InTurn(o, m)'
    BY DEF Order, Before
  <2>1. o # m
    BY NotBeforeItself
  <2>2. CASE o # x /\ m # x
    BY <2>2, OthersInTurn DEF OrderInv, Order
  <2>3. CASE o = x \/ m = x
    BY <2>1, <2>3 DEF TakesItsTurn
  <2> QED
    BY <2>2, <2>3
<1>2. SendsAlone'
  <2> SUFFICES ASSUME NEW s \in Senders, at'[s] = "sending", NEW m \in Messages, m.from = s
               PROVE  ~ IsKept(m)' /\ ~ IsCarried(m)'
    BY DEF SendsAlone
  <2>1. CASE at[s] # "sending"
    <3>1. /\ kept'[Person[s]] = <<>>
          /\ \A i \in DOMAIN running'[Person[s]] : running'[Person[s]][i].hand = <<>>
      BY <2>1, FreeToSend
    <3>2. running'[Person[s]] \in Seq(Deliveries)
      BY Preserved, DeliveryAssumption DEF Inv, TypeOK
    <3>3. Carrying(running'[Person[s]]) = <<>>
      BY <3>1, <3>2 DEF Carrying
    <3>4. <<m>> # <<>> /\ 1 .. Len(<<>>) = {}
      OBVIOUS
    <3> QED
      BY <3>1, <3>3, <3>4 DEF IsKept, IsCarried, In
  <2>2. CASE at[s] = "sending"
    <3>1. ~ IsKept(m) /\ ~ IsCarried(m)
      BY <2>2 DEF OrderInv, SendsAlone
    <3>2. CASE m = x
      BY <3>1, <3>2 DEF SenderGoesOn
    <3>3. CASE m # x
      <4>1. InLineBut(kept[Person[s]], kept'[Person[s]], x)
        BY AboutMessages DEF OnlyMoves
      <4>2. IsKept(m)' => IsKept(m)
        BY <3>3, <4>1 DEF InLineBut, IsKept
      <4>3. IsCarried(m)' => IsCarried(m)
        BY <3>3, AboutMessages DEF OnlyMoves, IsCarried
      <4> QED
        BY <3>1, <4>2, <4>3
    <3> QED
      BY <3>2, <3>3
  <2> QED
    BY <2>1, <2>2
<1> QED
  BY <1>1, <1>2

\* A step that moves nothing keeps all in turn.
LEMMA MovesNone ==
  ASSUME Inv, OrderInv, [Next]_vars, \A x : OnlyMoves(x)
  PROVE  Order' /\ SendsAlone'
<1>1. PICK x : x \notin Messages
  BY NoSetContainsEverything
<1>2. OnlyMoves(x)
  OBVIOUS
<1> QED
  BY <1>1, <1>2, MovesOne

\* What a person reads of a message in hand is behind what was before it.
LEMMA ReadInOrder ==
  ASSUME Inv, OrderInv, NEW m \in Messages, InHand(m) \/ IsCarried(m),
         NEW n, NEW answer, Outcome(m, n, Person[m.from], answer), jumped \subseteq jumped'
  PROVE  InOrder'
<1> DEFINE p == Person[m.from]
<1>1. p \in People /\ TypeOK /\ Taken /\ InOrder /\ Order
  BY AboutMessages DEF Inv, OrderInv
<1>2. /\ received' \in [People -> Seq(Receipts)]
      /\ \A x \in People : x # p => received'[x] = received[x] /\ Texts(x)' = Texts(x)
      /\ \A i \in Texts(p)' :
           \/ i \in Texts(p) /\ received'[p][i] = received[p][i]
           \/ i = Len(received[p]) + 1 /\ received'[p][i].of = m
      /\ \A i \in Texts(p) : i \in Nat /\ i <= Len(received[p])
      /\ Len(received[p]) \in Nat
  BY <1>1, ReadOfASend
<1> HIDE DEF p
<1> SUFFICES ASSUME NEW q \in People, NEW i \in Texts(q)', NEW j \in Texts(q)',
                    i < j, received'[q][i].of \notin jumped'
             PROVE  ~ Before(received'[q][j].of, received'[q][i].of)
  BY DEF InOrder, Before
<1>3. CASE q # p
  BY <1>1, <1>2, <1>3 DEF InOrder
<1>4. CASE q = p
  <2>1. i \in Texts(p) /\ received'[p][i] = received[p][i]
    BY <1>2, <1>4
  <2>2. CASE j \in Texts(p) /\ received'[p][j] = received[p][j]
    BY <1>1, <1>4, <2>1, <2>2 DEF InOrder
  <2>3. CASE received'[p][j].of = m
    <3>1. PICK o \in Messages : received[p][i].of = o
      <4>1. received[p] \in Seq(Receipts) /\ i \in DOMAIN received[p]
        BY <1>1, <2>1 DEF TypeOK, Texts, Receipts, Parts
      <4>2. received[p][i] \in Receipts
        BY <4>1
      <4> QED
        BY <4>2 DEF Receipts
    <3>2. o \in done /\ o \notin jumped
      BY <1>1, <1>4, <2>1, <3>1 DEF Taken
    <3>3. ~ InTurn(m, o)
      BY <3>2 DEF InTurn, Passed
    <3> QED
      BY <1>1, <1>4, <2>1, <2>3, <3>1, <3>3 DEF Order
  <2> QED
    BY <1>2, <1>4, <2>2, <2>3
<1> QED
  BY <1>3, <1>4

\* Nothing is read in a step that sends nothing.
LEMMA NothingNewRead ==
  ASSUME OrderInv, UNCHANGED <<received, jumped>>
  PROVE  InOrder'
BY DEF OrderInv, InOrder, Texts, Before

-----------------------------------------------------------------------------
(* Every step keeps the order.                                             *)

\* A step that leaves the messages where they are keeps all in turn.
LEMMA AtRest ==
  ASSUME Inv, OrderInv, [Next]_vars, UNCHANGED <<queue, hand, kept, received, jumped, done>>,
         \A p \in People : Carrying(running'[p]) = Carrying(running[p])
  PROVE  OrderInv'
<1>1. \A x : OnlyMoves(x)
  BY SameLine DEF OnlyMoves
<1>2. Order' /\ SendsAlone'
  BY <1>1, MovesNone
<1>3. InOrder'
  BY NothingNewRead
<1> QED
  BY <1>2, <1>3 DEF OrderInv

\* What the channel, a reload that replaces the adapter, the people and the clock do,
\* a new target and the end of a backoff.
LEMMA IdleInTurn ==
  ASSUME Inv, OrderInv, [Next]_vars,
         \/ Poll \/ Started \/ Goes \/ Replaced
         \/ \E p \in People : MarkAges(p) \/ LeavesServer(p) \/ JoinsServer(p)
         \/ \E s \in Senders : Opens(s) \/ Retry(s)
         \/ UNCHANGED vars
  PROVE  OrderInv'
<1> USE DEF channel, marking, keeping, sending, history, vars
<1> DEFINE Calm == \A p \in People : Carrying(running'[p]) = Carrying(running[p])
<1>1. ASSUME UNCHANGED running PROVE Calm
  BY <1>1
<1>2. ASSUME NEW mk, NEW ag, NEW up, running' = DeliverKeptFor(running, kept, mk, ag, up) PROVE Calm
  BY <1>2, DeliversAll
<1>3. ASSUME Calm, UNCHANGED <<queue, hand, kept, received, jumped, done>> PROVE OrderInv'
  BY <1>3, AtRest
<1> HIDE DEF Calm
<1>4. CASE Poll
  BY <1>2, <1>3, <1>4 DEF Poll
<1>5. CASE Started
  BY <1>1, <1>2, <1>3, <1>5 DEF Started
<1>6. CASE Goes
  BY <1>1, <1>3, <1>6 DEF Goes
<1>7. CASE Replaced
  BY <1>1, <1>3, <1>7 DEF Replaced
<1>8. CASE \E p \in People : MarkAges(p)
  BY <1>1, <1>3, <1>8 DEF MarkAges
<1>9. CASE \E p \in People : LeavesServer(p)
  BY <1>1, <1>3, <1>9 DEF LeavesServer
<1>10. CASE \E p \in People : JoinsServer(p)
  BY <1>1, <1>2, <1>3, <1>10 DEF JoinsServer
<1>11. CASE \E s \in Senders : Opens(s)
  BY <1>1, <1>3, <1>11 DEF Opens
<1>12. CASE \E s \in Senders : Retry(s)
  BY <1>1, <1>3, <1>12 DEF Retry
<1>13. CASE UNCHANGED vars
  BY <1>1, <1>3, <1>13
<1> QED
  BY <1>4, <1>5, <1>6, <1>7, <1>8, <1>9, <1>10, <1>11, <1>12, <1>13

\* A message is in one place.
Apart(m) ==
  /\ InQueue(m) => ~ InHand(m) /\ ~ IsKept(m) /\ ~ Passed(m)
  /\ InHand(m) => ~ InQueue(m) /\ ~ IsKept(m) /\ ~ Passed(m)
  /\ IsKept(m) => ~ InQueue(m) /\ ~ InHand(m) /\ ~ Passed(m)
  /\ Passed(m) => ~ InQueue(m) /\ ~ InHand(m) /\ ~ IsKept(m)
  /\ m \in done \/ m \in dropped \/ m \in cut =>
       ~ InQueue(m) /\ ~ InHand(m) /\ ~ IsKept(m) /\ ~ IsCarried(m)
  /\ InQueue(m) \/ InHand(m) \/ IsKept(m) \/ Passed(m) => m \in wrote

\* Every message is.
LEMMA AllApart == Inv => \A m \in Messages : Apart(m)
<1> SUFFICES ASSUME Inv, NEW m \in Messages PROVE Apart(m)
  OBVIOUS
<1>1. CASE m \in wrote
  <2>1. PICK w \in Wheres : IsIn(m, w)
    BY <1>1 DEF Inv, OnePlace, Placed
  <2> QED
    BY <1>1, <2>1 DEF IsIn, Apart, Passed
<1>2. CASE m \notin wrote
  <2>1. IsIn(m, "unwritten")
    BY <1>2 DEF Inv, OnePlace, Placed
  <2> QED
    BY <2>1 DEF IsIn, Apart, Passed
<1> QED
  BY <1>1, <1>2

\* Before a step and after it.
LEMMA StillApart ==
  ASSUME Inv, [Next]_vars
  PROVE  \A m \in Messages : Apart(m) /\ Apart(m)'
<1>1. Inv'
  BY Preserved
<1>2. (Inv => \A m \in Messages : Apart(m))'
  BY AllApart, PTL
<1> QED
  BY <1>1, <1>2, AllApart

\* What a step that moves x leaves of the turn of the others.
LEMMA Neighbours ==
  ASSUME Order, NEW x \in Messages, OnlyMoves(x), NEW y \in Messages, y # x
  PROVE  /\ Before(x, y) =>
              /\ InQueue(x) \/ InHand(x) \/ IsKept(x) \/ IsCarried(x) => ~ Passed(y)'
              /\ InQueue(x) \/ InHand(x) => ~ IsKept(y)'
              /\ InQueue(x) => ~ InHand(y)'
         /\ Before(y, x) =>
              /\ Passed(x) => ~ InQueue(y)' /\ ~ InHand(y)' /\ ~ IsKept(y)' /\ ~ IsCarried(y)'
              /\ IsKept(x) => ~ InQueue(y)' /\ ~ InHand(y)'
              /\ InHand(x) => ~ InQueue(y)'
<1>1. y.from \in Senders /\ Person[y.from] \in People
  BY AboutMessages
<1>2. /\ InLineBut(queue[y.from], queue'[y.from], x)
      /\ InLineBut(kept[Person[y.from]], kept'[Person[y.from]], x)
  BY <1>1 DEF OnlyMoves
<1>3. (InQueue(y)' => InQueue(y)) /\ (IsKept(y)' => IsKept(y))
  BY <1>2 DEF InLineBut, InQueue, IsKept
<1>4. /\ InHand(y)' => InHand(y)
      /\ IsCarried(y)' => IsCarried(y)
      /\ Passed(y)' => Passed(y)
  BY <1>1 DEF OnlyMoves, InHand, IsCarried, Passed
<1> QED
  BY <1>3, <1>4 DEF Order, InTurn

\* What is not in a list is ahead in it.
LEMMA AbsentAhead ==
  ASSUME NEW q, NEW o, NEW m, ~ In(q, o) \/ ~ In(q, m)
  PROVE  AheadIn(q, o, m)
BY DEF In, AheadIn

\* A chunk is taken in hand out of the queue.
LEMMA ShiftInTurn ==
  ASSUME Inv, OrderInv, [Next]_vars, NEW s \in Senders, Shift(s)
  PROVE  OrderInv'
<1>1. /\ hand' = [hand EXCEPT ![s] = <<Head(queue[s])>>] /\ queue' = [queue EXCEPT ![s] = Tail(@)]
      /\ queue[s] # <<>> /\ hand[s] = <<>>
      /\ UNCHANGED <<keeping, history>>
  BY DEF Shift
<1> USE DEF keeping, history
<1>2. TypeOK /\ Lists /\ Order
  BY DEF Inv, OrderInv
<1>3. queue[s] \in Seq(Messages) /\ Distinct(queue[s])
  BY <1>2 DEF TypeOK, Lists
<1>4. PICK x \in Messages : x = Head(queue[s]) /\ In(queue[s], x) /\ x.from = s
  BY <1>1, <1>2, <1>3, Tailed DEF Lists
<1>5. /\ InLineBut(queue[s], Tail(queue[s]), x) /\ ~ In(Tail(queue[s]), x)
      /\ \A o : o # x /\ AheadIn(queue[s], o, x) => ~ In(queue[s], o) /\ ~ In(Tail(queue[s]), o)
  BY <1>1, <1>3, <1>4, LineLeft
<1>6. /\ queue'[s] = Tail(queue[s]) /\ hand'[s] = <<x>>
      /\ \A t \in Senders \ {s} : queue'[t] = queue[t] /\ hand'[t] = hand[t]
  BY <1>1, <1>2, <1>4 DEF TypeOK
<1>7. OnlyMoves(x)
  <2>1. \A t \in Senders : InLineBut(queue[t], queue'[t], x)
    BY <1>5, <1>6, SameLine
  <2>2. \A t \in Senders : \A y : y # x /\ hand'[t] = <<y>> => hand[t] = <<y>>
    BY <1>6
  <2> QED
    BY <1>1, <2>1, <2>2, SameLine DEF OnlyMoves
<1>8. InQueue(x) /\ InHand(x)' /\ ~ InQueue(x)'
  BY <1>4, <1>5, <1>6 DEF InQueue, InHand
<1>9. Apart(x) /\ Apart(x)'
  BY StillApart
<1>10. SenderGoesOn(x)
  BY <1>8, <1>9 DEF Apart, SenderGoesOn, Passed
<1>11. TakesItsTurn(x)
  <2> SUFFICES ASSUME NEW y \in Messages, y # x
               PROVE  (Before(y, x) => InTurn(y, x)') /\ (Before(x, y) => InTurn(x, y)')
    BY DEF TakesItsTurn
  <2>1. ASSUME Before(y, x) PROVE InTurn(y, x)'
    <3>1. AheadIn(queue[s], y, x)
      BY <1>2, <1>4, <1>8, <2>1 DEF Order, InTurn, QueueAhead
    <3>2. ~ InQueue(y)'
      BY <1>4, <1>5, <1>6, <2>1, <3>1 DEF InQueue, Before
    <3> QED
      BY <1>8, <1>9, <3>2 DEF InTurn, Apart
  <2>2. ASSUME Before(x, y) PROVE InTurn(x, y)'
    <3>1. ~ Passed(y)' /\ ~ IsKept(y)' /\ ~ InHand(y)'
      BY <1>2, <1>7, <1>8, <2>2, Neighbours
    <3>2. QueueAhead(x, y)'
      BY <1>8, <2>2, AbsentAhead DEF QueueAhead, InQueue, Before
    <3> QED
      BY <3>1, <3>2 DEF InTurn
  <2> QED
    BY <2>1, <2>2
<1>12. Order' /\ SendsAlone'
  BY <1>7, <1>10, <1>11, MovesOne
<1>13. InOrder'
  BY <1>1, NothingNewRead
<1> QED
  BY <1>12, <1>13 DEF OrderInv

\* A chunk joins the queue.
LEMMA EnqueueInTurn ==
  ASSUME Inv, OrderInv, [Next]_vars, NEW s \in Senders, NEW k \in Kinds, Enqueue(s, k)
  PROVE  OrderInv'
<1> DEFINE c == Message(s, Written(s) + 1, k)
<1>1. /\ TypeOK /\ Numbered /\ Marked /\ Order /\ OnePlace
  BY DEF Inv, OrderInv
<1>2. /\ IsFiniteSet(Chunks(s)) /\ Written(s) = Cardinality(Chunks(s)) /\ Cardinality(Chunks(s)) \in Nat
  <2>1. IsFiniteSet(Chunks(s))
    BY <1>1 DEF Numbered
  <2> QED
    BY <2>1, FS_CardinalityType DEF Written, Chunks
<1>3. c \in Messages /\ c.from = s /\ c.n = Cardinality(Chunks(s)) + 1 /\ c.kind # "marker"
  <2>1. Written(s) + 1 \in 1 .. MaxChunks[s] /\ k # "marker"
    BY <1>2, DeliveryAssumption DEF Enqueue
  <2> QED
    BY <1>2, <2>1, Chunked DEF Message
<1>4. /\ queue' = [queue EXCEPT ![s] = Append(@, c)]
      /\ UNCHANGED <<keeping, hand, history>>
  BY DEF Enqueue
<1> HIDE DEF c
<1> USE DEF keeping, history
<1>5. PICK x \in Messages : x = c
  BY <1>3
<1>6. \A m \in wrote : m.from = s => m.n < x.n
  <2> SUFFICES ASSUME NEW m \in wrote, m.from = s PROVE m.n < x.n
    OBVIOUS
  <2>1. m \in Messages /\ m.n \in Nat
    BY <1>1, AboutMessages DEF TypeOK
  <2>2. PICK y \in wrote : y.from = s /\ y.n = m.n /\ y.kind # "marker"
    <3>1. CASE m.kind # "marker"
      BY <3>1
    <3>2. CASE m.kind = "marker"
      <4>1. PICK y \in dropped : y.from = s /\ y.n = m.n /\ y.kind # "marker"
        BY <1>1, <3>2 DEF Marked
      <4>2. y \in wrote
        BY <1>1, <4>1, IsThere DEF TypeOK
      <4> QED
        BY <4>1, <4>2
    <3> QED
      BY <3>1, <3>2
  <2>3. m.n <= Cardinality(Chunks(s))
    <3>1. y \in Chunks(s)
      BY <2>2 DEF Chunks
    <3>2. y.n <= Cardinality(Chunks(s))
      BY <1>1, <3>1 DEF Numbered
    <3> QED
      BY <2>2, <3>2
  <2> QED
    BY <1>2, <1>3, <1>5, <2>1, <2>3
<1>7. x \notin wrote
  BY <1>3, <1>5, <1>6, NotBeforeItself DEF Before
<1>8. Apart(x) /\ Apart(x)'
  BY StillApart
<1>9. queue[s] \in Seq(Messages) /\ ~ In(queue[s], x)
  BY <1>1, <1>3, <1>5, <1>7, <1>8 DEF TypeOK, Apart, InQueue
<1>10. /\ InLineBut(queue[s], Append(queue[s], x), x) /\ In(Append(queue[s], x), x)
       /\ \A o : o # x => AheadIn(Append(queue[s], x), o, x)
  BY <1>9, LineJoined, Appended
<1>11. /\ queue'[s] = Append(queue[s], x) /\ \A t \in Senders \ {s} : queue'[t] = queue[t]
  BY <1>1, <1>4, <1>5 DEF TypeOK
<1>12. OnlyMoves(x)
  <2>1. \A t \in Senders : InLineBut(queue[t], queue'[t], x)
    BY <1>10, <1>11, SameLine
  <2> QED
    BY <1>4, <2>1, SameLine DEF OnlyMoves
<1>13. InQueue(x)'
  BY <1>3, <1>5, <1>10, <1>11 DEF InQueue
<1>14. SenderGoesOn(x)
  BY <1>8, <1>13 DEF Apart, SenderGoesOn, Passed
<1>15. TakesItsTurn(x)
  <2> SUFFICES ASSUME NEW y \in Messages, y # x
               PROVE  (Before(y, x) => InTurn(y, x)') /\ (Before(x, y) => InTurn(x, y)')
    BY DEF TakesItsTurn
  <2>1. ASSUME Before(y, x) PROVE InTurn(y, x)'
    <3>1. QueueAhead(y, x)'
      BY <1>3, <1>5, <1>10, <1>11 DEF QueueAhead
    <3> QED
      BY <1>8, <1>13, <3>1 DEF InTurn, Apart
  <2>2. ASSUME Before(x, y) PROVE InTurn(x, y)'
    <3>1. y \notin wrote
      <4> SUFFICES ASSUME y \in wrote PROVE FALSE
        OBVIOUS
      <4>1. y.from = s /\ x.n <= y.n
        BY <1>3, <1>5, <2>2, AboutMessages DEF Before
      <4>2. y.n < x.n
        BY <1>6, <4>1
      <4> QED
        BY <4>1, <4>2, AboutMessages
    <3>2. ~ Passed(y) /\ ~ IsKept(y) /\ ~ InHand(y) /\ ~ InQueue(y)
      BY <3>1, StillApart DEF Apart
    <3>3. ~ InQueue(y)'
      <4>1. InLineBut(queue[y.from], queue'[y.from], x)
        BY <1>12, AboutMessages DEF OnlyMoves
      <4> QED
        BY <2>2, <3>2, <4>1, NotBeforeItself DEF InLineBut, InQueue
    <3> QED
      BY <1>4, <3>2, <3>3 DEF InTurn, Passed, IsKept, InHand, IsCarried
  <2> QED
    BY <2>1, <2>2
<1>16. Order' /\ SendsAlone'
  BY <1>12, <1>14, <1>15, MovesOne
<1>17. InOrder'
  BY <1>4, NothingNewRead
<1> QED
  BY <1>16, <1>17 DEF OrderInv

\* The chunk in hand goes behind what is kept.
LEMMA KeptInTurn ==
  ASSUME Inv, OrderInv, [Next]_vars, NEW s \in Senders, at[s] \in AtWork,
         NEW run, GoodLines(run), \A p \in People : Carrying(run[p]) = Carrying(running[p]),
         NEW mk, NEW ag, Keep(s, run, kept, mk, ag), UNCHANGED <<queue, jumped, done>>
  PROVE  Order' /\ SendsAlone'
<1>1. /\ TypeOK /\ OnePlace /\ Hands /\ Order
  BY DEF Inv, OrderInv
<1>2. PICK x \in Messages : Head(hand[s]) = x /\ hand[s] = <<x>> /\ x.from = s
  BY <1>1, TheChunk
<1>3. /\ kept' = [kept EXCEPT ![Person[s]] = Append(@, x)]
      /\ hand' = [hand EXCEPT ![s] = <<>>] /\ at' = [at EXCEPT ![s] = "idle"]
      /\ \A p \in People : Carrying(running'[p]) = Carrying(running[p])
  BY <1>1, <1>2, KeptBehind
<1>4. Person[s] \in People /\ kept[Person[s]] \in Seq(Messages)
  BY <1>1, DeliveryAssumption DEF TypeOK
<1>5. InHand(x) /\ Apart(x) /\ Apart(x)'
  BY <1>2, StillApart DEF InHand
<1>6. ~ In(kept[Person[s]], x)
  BY <1>2, <1>5 DEF Apart, IsKept
<1>7. /\ InLineBut(kept[Person[s]], Append(kept[Person[s]], x), x)
      /\ In(Append(kept[Person[s]], x), x)
      /\ \A o : o # x => AheadIn(Append(kept[Person[s]], x), o, x)
  BY <1>4, <1>6, LineJoined, Appended
<1>8. /\ kept'[Person[s]] = Append(kept[Person[s]], x) /\ hand'[s] = <<>> /\ at'[s] = "idle"
      /\ \A p \in People \ {Person[s]} : kept'[p] = kept[p]
      /\ \A t \in Senders \ {s} : hand'[t] = hand[t]
      /\ \A y : <<y>> # <<>>
  BY <1>1, <1>3, <1>4 DEF TypeOK
<1>9. OnlyMoves(x)
  <2>1. \A p \in People : InLineBut(kept[p], kept'[p], x)
    BY <1>7, <1>8, SameLine
  <2>2. \A t \in Senders : \A y : y # x /\ hand'[t] = <<y>> => hand[t] = <<y>>
    BY <1>8
  <2> QED
    BY <1>3, <2>1, <2>2, SameLine DEF OnlyMoves
<1>10. IsKept(x)'
  BY <1>2, <1>7, <1>8 DEF IsKept
<1>11. SenderGoesOn(x)
  BY <1>2, <1>8 DEF SenderGoesOn
<1>12. TakesItsTurn(x)
  <2> SUFFICES ASSUME NEW y \in Messages, y # x
               PROVE  (Before(y, x) => InTurn(y, x)') /\ (Before(x, y) => InTurn(x, y)')
    BY DEF TakesItsTurn
  <2>1. ASSUME Before(y, x) PROVE InTurn(y, x)'
    <3>1. KeptAhead(y, x)' /\ ~ InHand(y)'
      BY <1>2, <1>7, <1>8, <2>1 DEF KeptAhead, InHand, Before
    <3>2. ~ InQueue(y)'
      BY <1>1, <1>5, <1>9, <2>1, Neighbours
    <3> QED
      BY <1>5, <1>10, <3>1, <3>2 DEF InTurn, Apart
  <2>2. ASSUME Before(x, y) PROVE InTurn(x, y)'
    <3>1. ~ Passed(y)' /\ ~ IsKept(y)'
      BY <1>1, <1>5, <1>9, <2>2, Neighbours
    <3>2. ~ InQueue(x)'
      BY <1>5, <1>10 DEF Apart
    <3>3. QueueAhead(x, y)'
      BY <2>2, <3>2, AbsentAhead DEF QueueAhead, InQueue, Before
    <3> QED
      BY <3>1, <3>2, <3>3 DEF InTurn
  <2> QED
    BY <2>1, <2>2
<1> QED
  BY <1>9, <1>11, <1>12, MovesOne

\* Once nothing is delivered ahead of it, a chunk is sent or kept.
LEMMA SendOrKeepInTurn ==
  ASSUME Inv, OrderInv, [Next]_vars, NEW s \in Senders, at[s] \in {"begin", "behind"},
         NEW run, GoodLines(run), \A p \in People : Carrying(run[p]) = Carrying(running[p]),
         SendOrKeep(s, run), UNCHANGED <<queue, history>>
  PROVE  OrderInv'
<1> USE DEF history
<1>1. CASE Keep(s, run, kept, marks, aged)
  <2>1. Order' /\ SendsAlone'
    BY <1>1, KeptInTurn DEF AtWork
  <2>2. InOrder'
    BY NothingNewRead
  <2> QED
    BY <2>1, <2>2 DEF OrderInv
<1>2. CASE running' = run /\ UNCHANGED <<kept, hand>>
  BY <1>2, AtRest
<1> QED
  BY <1>1, <1>2 DEF SendOrKeep

\* A sender tries its chunk.
LEMMA AttemptInTurn ==
  ASSUME Inv, OrderInv, [Next]_vars, NEW s \in Senders, Attempt(s)
  PROVE  OrderInv'
<1> DEFINE new == [running EXCEPT ![Person[s]] = Append(@, Delivery(adapter, s))]
<1>1. TypeOK /\ Lines /\ GoodLines(running)
  BY DEF Inv, TypeOK, Lines, GoodLines
<1>2. at[s] = "begin" /\ UNCHANGED <<queue, history>>
  BY DEF Attempt
<1>3. \/ UNCHANGED <<kept, running, hand>>
      \/ adapter # None /\ running' = new /\ UNCHANGED <<kept, hand>>
      \/ SendOrKeep(s, running)
  BY DEF Attempt
<1>4. CASE UNCHANGED <<kept, running, hand>>
  BY <1>2, <1>4, AtRest DEF history
<1>5. CASE adapter # None /\ running' = new /\ UNCHANGED <<kept, hand>>
  <2>1. \A r \in People : Carrying(new[r]) = Carrying(running[r])
    <3>1. \A i \in 1 .. Len(running[Person[s]]) : running[Person[s]][i].waiter # s
      BY <1>1, <1>2, NotAwaiting, DeliveryAssumption
    <3> QED
      BY <1>1, <1>5, <3>1, Awaited
  <2> HIDE DEF new
  <2> QED
    BY <1>2, <1>5, <2>1, AtRest DEF history
<1>6. CASE SendOrKeep(s, running)
  BY <1>1, <1>2, <1>6, SendOrKeepInTurn
<1> QED
  BY <1>3, <1>4, <1>5, <1>6

\* A delivery returns, and the sender that awaits it goes on.
LEMMA ReturnsInTurn ==
  ASSUME Inv, OrderInv, [Next]_vars, NEW p \in People, DeliveryReturns(p)
  PROVE  OrderInv'
<1> DEFINE rest == [running EXCEPT ![p] = Tail(@)]
           w == Head(running[p]).waiter
<1>1. TypeOK /\ Lines
  BY DEF Inv
<1>2. running[p] # <<>> /\ Head(running[p]).hand = <<>> /\ UNCHANGED <<queue, history>>
  BY DEF DeliveryReturns
<1>3. \/ running' = rest /\ UNCHANGED <<kept, hand>>
      \/ w # None /\ at[w] = "behind" /\ SendOrKeep(w, rest)
  BY DEF DeliveryReturns
<1>4. /\ GoodLines(running) /\ Carrying(running[p]) = <<>>
      /\ w # None => w \in Senders
  BY <1>1, <1>2, FirstOfTheLine
<1>5. /\ Follows(running, rest) /\ Carrying(rest[p]) = <<>>
      /\ \A r \in People \ {p} : rest[r] = running[r]
  BY <1>2, <1>4, Returned
<1> HIDE DEF rest, w
<1>6. GoodLines(rest) /\ \A r \in People : Carrying(rest[r]) = Carrying(running[r])
  BY <1>4, <1>5 DEF Follows
<1>7. CASE running' = rest /\ UNCHANGED <<kept, hand>>
  BY <1>2, <1>6, <1>7, AtRest DEF history
<1>8. CASE w # None /\ at[w] = "behind" /\ SendOrKeep(w, rest)
  BY <1>2, <1>4, <1>6, <1>8, SendOrKeepInTurn
<1> QED
  BY <1>3, <1>7, <1>8

\* A delivery takes the oldest reply in hand.
LEMMA TakesInTurn ==
  ASSUME Inv, OrderInv, [Next]_vars, NEW p \in People, DeliveryTakes(p)
  PROVE  OrderInv'
<1>1. TypeOK /\ Lists /\ Lines /\ Order /\ SendsAlone
  BY DEF Inv, OrderInv
<1>2. /\ running[p] # <<>> /\ Head(running[p]).hand = <<>> /\ kept[p] # <<>>
      /\ running' = [running EXCEPT ![p][1].hand = <<Head(kept[p])>>]
      /\ kept' = [kept EXCEPT ![p] = Tail(kept[p])]
      /\ UNCHANGED <<sending, history>>
  BY DEF DeliveryTakes, LeftOnceTaken
<1> USE DEF sending, history
<1>3. kept[p] \in Seq(Messages) /\ Distinct(kept[p])
  BY <1>1 DEF TypeOK, Lists
<1>4. PICK x \in Messages : x = Head(kept[p]) /\ In(kept[p], x) /\ Person[x.from] = p
  BY <1>1, <1>2, <1>3, Tailed DEF Lists
<1>5. /\ InLineBut(kept[p], Tail(kept[p]), x) /\ ~ In(Tail(kept[p]), x)
      /\ \A o : o # x /\ AheadIn(kept[p], o, x) => ~ In(kept[p], o) /\ ~ In(Tail(kept[p]), o)
  BY <1>2, <1>3, <1>4, LineLeft
<1>6. /\ kept'[p] = Tail(kept[p]) /\ \A q \in People \ {p} : kept'[q] = kept[q]
  BY <1>1, <1>2 DEF TypeOK
<1>7. /\ Head(running[p]) = running[p][1] /\ running[p][1] \in Deliveries
      /\ Carrying(running[p]) = <<>>
  BY <1>1, <1>2, FirstOfTheLine
<1> DEFINE d == [running[p][1] EXCEPT !.hand = <<x>>]
<1>8. d \in Deliveries /\ d.waiter = running[p][1].waiter /\ d.hand = <<x>>
  <2>1. <<x>> \in Seq(Messages) /\ running[p][1] \in Deliveries
    BY <1>7
  <2> QED
    BY <2>1 DEF Deliveries
<1>9. running' = [running EXCEPT ![p] = [running[p] EXCEPT ![1] = d]]
  BY <1>2, <1>4
<1> HIDE DEF d
<1>10. Carrying(running'[p]) = <<x>> /\ \A q \in People \ {p} : running'[q] = running[q]
  <2>1. \E y \in Messages : d.hand = <<y>> /\ Person[y.from] = p
    BY <1>4, <1>8
  <2>2. running[p] # <<>>
    BY <1>2
  <2>3. TypeOK /\ Lines /\ d \in Deliveries /\ d.waiter = running[p][1].waiter
    BY <1>1, <1>8
  <2>4. Carrying(running'[p]) = d.hand /\ \A q \in People \ {p} : running'[q] = running[q]
    BY <1>9, <2>1, <2>2, <2>3, FirstChanges
  <2> QED
    BY <1>8, <2>4
<1>11. OnlyMoves(x)
  <2>1. \A q \in People : InLineBut(kept[q], kept'[q], x)
    BY <1>5, <1>6, SameLine
  <2>2. \A q \in People : \A y : y # x /\ Carrying(running'[q]) = <<y>> => Carrying(running[q]) = <<y>>
    BY <1>10
  <2> QED
    BY <1>2, <2>1, <2>2, SameLine DEF OnlyMoves
<1>12. IsKept(x) /\ IsCarried(x)' /\ ~ IsKept(x)'
  BY <1>4, <1>5, <1>6, <1>10 DEF IsKept, IsCarried
<1>13. Apart(x) /\ Apart(x)'
  BY StillApart
<1>14. SenderGoesOn(x)
  BY <1>12 DEF SenderGoesOn
<1>15. TakesItsTurn(x)
  <2> SUFFICES ASSUME NEW y \in Messages, y # x
               PROVE  (Before(y, x) => InTurn(y, x)') /\ (Before(x, y) => InTurn(x, y)')
    BY DEF TakesItsTurn
  <2>1. ASSUME Before(y, x) PROVE InTurn(y, x)'
    <3>1. AheadIn(kept[p], y, x) /\ Person[y.from] = p
      BY <1>1, <1>4, <1>12, <2>1 DEF Order, InTurn, KeptAhead, Before
    <3>2. ~ IsKept(y)' /\ ~ IsCarried(y)'
      BY <1>5, <1>6, <1>10, <3>1 DEF IsKept, IsCarried
    <3>3. ~ InQueue(y)' /\ ~ InHand(y)'
      BY <1>1, <1>11, <1>12, <2>1, Neighbours
    <3> QED
      BY <1>12, <1>13, <3>2, <3>3 DEF InTurn, Apart, Passed
  <2>2. ASSUME Before(x, y) PROVE InTurn(x, y)'
    <3>1. ~ Passed(y)'
      BY <1>1, <1>11, <1>12, <2>2, Neighbours
    <3>2. ~ InQueue(x)' /\ ~ InHand(x)'
      BY <1>12, <1>13 DEF Apart, Passed
    <3>3. QueueAhead(x, y)' /\ KeptAhead(x, y)'
      BY <1>12, <2>2, <3>2, AbsentAhead DEF QueueAhead, KeptAhead, InQueue, IsKept, Before
    <3> QED
      BY <3>1, <3>2, <3>3 DEF InTurn
  <2> QED
    BY <2>1, <2>2
<1>16. Order' /\ SendsAlone'
  BY <1>11, <1>14, <1>15, MovesOne
<1>17. InOrder'
  BY <1>2, NothingNewRead
<1> QED
  BY <1>16, <1>17 DEF OrderInv

\* What is nowhere on the way has its turn if what was before it is nowhere either.
LEMMA OverInTurn ==
  ASSUME NEW x \in Messages, ~ InQueue(x)', ~ InHand(x)', ~ IsKept(x)', ~ IsCarried(x)',
         \A y \in Messages : y # x /\ Before(y, x) /\ x \notin jumped' =>
           ~ InQueue(y)' /\ ~ InHand(y)' /\ ~ IsKept(y)' /\ ~ IsCarried(y)'
  PROVE  SenderGoesOn(x) /\ TakesItsTurn(x)
<1>1. SenderGoesOn(x)
  BY DEF SenderGoesOn
<1> SUFFICES ASSUME NEW y \in Messages, y # x
             PROVE  (Before(y, x) => InTurn(y, x)') /\ (Before(x, y) => InTurn(x, y)')
  BY <1>1 DEF TakesItsTurn
<1>2. ASSUME Before(y, x) PROVE InTurn(y, x)'
  BY <1>2 DEF InTurn, Passed
<1>3. ASSUME Before(x, y) PROVE InTurn(x, y)'
  <2>1. QueueAhead(x, y)' /\ KeptAhead(x, y)'
    BY <1>3, AbsentAhead DEF QueueAhead, KeptAhead, InQueue, IsKept, Before
  <2> QED
    BY <2>1 DEF InTurn
<1> QED
  BY <1>2, <1>3

\* The reply a delivery has in hand goes, and nothing else does.
LEMMA CarriedGoes ==
  ASSUME Inv, NEW p \in People, running[p] # <<>>, NEW x \in Messages, Carrying(running[p]) = <<x>>,
         NEW d \in Deliveries, d.waiter = running[p][1].waiter, d.hand = <<>>,
         running' = [running EXCEPT ![p] = [running[p] EXCEPT ![1] = d]]
  PROVE  /\ Carrying(running'[p]) = <<>> /\ \A q \in People \ {p} : running'[q] = running[q]
         /\ \A q \in People : \A y : Carrying(running'[q]) = <<y>> => Carrying(running[q]) = <<y>>
<1>1. TypeOK /\ Lines
  BY DEF Inv
<1>2. Carrying(running'[p]) = d.hand /\ \A q \in People \ {p} : running'[q] = running[q]
  BY <1>1, FirstChanges
<1>3. \A y : <<y>> # <<>>
  OBVIOUS
<1> QED
  BY <1>2, <1>3

\* The channel takes a kept reply.
LEMMA SentInTurn ==
  ASSUME Inv, OrderInv, [Next]_vars, NEW p \in People, DeliverySent(p)
  PROVE  OrderInv'
<1>1. TypeOK /\ OnePlace /\ Lines /\ Order
  BY DEF Inv, OrderInv
<1>2. /\ running[p] # <<>> /\ Head(running[p]).hand # <<>>
      /\ Outcome(Head(Head(running[p]).hand), Head(running[p]).through, p, "ok")
      /\ running' = [running EXCEPT ![p][1].hand = <<>>]
      /\ done' = done \cup {Head(Head(running[p]).hand)}
      /\ UNCHANGED <<kept, sending, jumped>>
  BY DEF DeliverySent
<1> USE DEF sending
<1>3. PICK x \in Messages :
        Head(Head(running[p]).hand) = x /\ Carrying(running[p]) = <<x>> /\ Person[x.from] = p
  BY <1>1, <1>2, TheCarried
<1> DEFINE d == [running[p][1] EXCEPT !.hand = <<>>]
<1>4. d \in Deliveries /\ d.waiter = running[p][1].waiter /\ d.hand = <<>>
  <2>1. running[p][1] \in Deliveries /\ <<>> \in Seq(Messages)
    BY <1>1, <1>2, FirstOfTheLine
  <2> QED
    BY <2>1 DEF Deliveries
<1>5. running' = [running EXCEPT ![p] = [running[p] EXCEPT ![1] = d]]
  BY <1>2
<1> HIDE DEF d
<1>6. /\ Carrying(running'[p]) = <<>>
      /\ \A q \in People : \A y : Carrying(running'[q]) = <<y>> => Carrying(running[q]) = <<y>>
  BY <1>2, <1>3, <1>4, <1>5, CarriedGoes
<1>7. done' = done \cup {x} /\ Outcome(x, Head(running[p]).through, Person[x.from], "ok")
  BY <1>2, <1>3
<1>8. OnlyMoves(x)
  BY <1>2, <1>6, <1>7, SameLine DEF OnlyMoves
<1>9. IsCarried(x) /\ Apart(x)'
  BY <1>3, StillApart DEF IsCarried
<1>10. SenderGoesOn(x) /\ TakesItsTurn(x)
  <2>1. ~ InQueue(x)' /\ ~ InHand(x)' /\ ~ IsKept(x)' /\ ~ IsCarried(x)'
    BY <1>7, <1>9 DEF Apart
  <2>2. \A y \in Messages : y # x /\ Before(y, x) =>
          ~ InQueue(y)' /\ ~ InHand(y)' /\ ~ IsKept(y)' /\ ~ IsCarried(y)'
    BY <1>1, <1>8, <1>9, Neighbours DEF Passed
  <2> QED
    BY <2>1, <2>2, OverInTurn
<1>11. Order' /\ SendsAlone'
  BY <1>8, <1>10, MovesOne
<1>12. InOrder'
  BY <1>2, <1>7, <1>9, ReadInOrder
<1> QED
  BY <1>11, <1>12 DEF OrderInv

\* A kept reply is refused: it goes back first in line, or is dropped.
LEMMA KeptRefusedInTurn ==
  ASSUME Inv, OrderInv, [Next]_vars, NEW p \in People, DeliveryRefused(p)
  PROVE  OrderInv'
<1>1. TypeOK /\ OnePlace /\ Lines /\ Order
  BY DEF Inv, OrderInv
<1>2. running[p] # <<>> /\ Head(running[p]).hand # <<>> /\ UNCHANGED <<sending, jumped, done>>
  BY DEF DeliveryRefused
<1>3. PICK x \in Messages :
        Head(Head(running[p]).hand) = x /\ Carrying(running[p]) = <<x>> /\ Person[x.from] = p
  BY <1>1, <1>2, TheCarried
<1>4. PICK answer \in {"refused", "noServer"} :
        /\ Outcome(x, Head(running[p]).through, p, answer)
        /\ LET back == answer = "noServer" \/ ~ CanCarry(Head(running[p]).through) IN
           /\ running' = [running EXCEPT ![p][1] = [Head(running[p]) EXCEPT
                            !.hand = <<>>, !.noServer = (answer = "noServer"), !.over = back]]
           /\ kept' = IF back THEN [kept EXCEPT ![p] = BackFirst(p, x)] ELSE kept
  BY <1>3 DEF DeliveryRefused
<1> USE DEF sending
<1> DEFINE back == answer = "noServer" \/ ~ CanCarry(Head(running[p]).through)
           d == [Head(running[p]) EXCEPT !.hand = <<>>, !.noServer = (answer = "noServer"), !.over = back]
<1>5. d \in Deliveries /\ d.waiter = running[p][1].waiter /\ d.hand = <<>>
  <2>1. Head(running[p]) \in Deliveries /\ Head(running[p]) = running[p][1] /\ <<>> \in Seq(Messages)
    BY <1>1, <1>2, FirstOfTheLine
  <2>2. back \in BOOLEAN /\ (answer = "noServer") \in BOOLEAN
    OBVIOUS
  <2> HIDE DEF back
  <2> QED
    BY <2>1, <2>2 DEF Deliveries
<1>6. running' = [running EXCEPT ![p] = [running[p] EXCEPT ![1] = d]]
  BY <1>4
<1>7. kept' = IF back THEN [kept EXCEPT ![p] = <<x>> \o kept[p]] ELSE kept
  BY <1>4 DEF BackFirst
<1> HIDE DEF d, back
<1>8. /\ Carrying(running'[p]) = <<>>
      /\ \A q \in People : \A y : Carrying(running'[q]) = <<y>> => Carrying(running[q]) = <<y>>
  BY <1>2, <1>3, <1>5, <1>6, CarriedGoes
<1>9. IsCarried(x) /\ Apart(x) /\ Apart(x)' /\ ~ IsCarried(x)'
  <2>1. <<x>> # <<>>
    OBVIOUS
  <2> QED
    BY <1>3, <1>8, <2>1, StillApart DEF IsCarried
<1>10. kept[p] \in Seq(Messages) /\ ~ In(kept[p], x)
  BY <1>1, <1>3, <1>9 DEF TypeOK, Apart, Passed, IsKept
<1>11. /\ InLineBut(kept[p], <<x>> \o kept[p], x)
       /\ \A m : m # x => AheadIn(<<x>> \o kept[p], x, m)
       /\ \A o : o # x /\ ~ In(kept[p], o) => AheadIn(<<x>> \o kept[p], o, x)
       /\ In(<<x>> \o kept[p], x)
  BY <1>10, LineHeaded, Prepended
<1>12. /\ kept'[p] = IF back THEN <<x>> \o kept[p] ELSE kept[p]
       /\ \A q \in People \ {p} : kept'[q] = kept[q]
  BY <1>1, <1>7 DEF TypeOK
<1>13. OnlyMoves(x)
  <2>1. \A q \in People : InLineBut(kept[q], kept'[q], x)
    BY <1>11, <1>12, SameLine
  <2> QED
    BY <1>2, <1>8, <2>1, SameLine DEF OnlyMoves
<1>14. ~ InQueue(x)' /\ ~ InHand(x)' /\ x \notin done'
  BY <1>2, <1>9 DEF Apart, Passed, InQueue, InHand
<1>15. SenderGoesOn(x)
  BY <1>9 DEF SenderGoesOn
<1>16. TakesItsTurn(x)
  <2> SUFFICES ASSUME NEW y \in Messages, y # x
               PROVE  (Before(y, x) => InTurn(y, x)') /\ (Before(x, y) => InTurn(x, y)')
    BY DEF TakesItsTurn
  <2>1. ASSUME Before(y, x) PROVE InTurn(y, x)'
    <3>1. ~ InQueue(y)' /\ ~ InHand(y)' /\ ~ IsKept(y)'
      BY <1>1, <1>9, <1>13, <2>1, Neighbours DEF Passed
    <3>2. KeptAhead(y, x)'
      BY <2>1, <3>1, AbsentAhead DEF KeptAhead, IsKept, Before
    <3> QED
      BY <1>9, <1>14, <3>1, <3>2 DEF InTurn, Passed
  <2>2. ASSUME Before(x, y) PROVE InTurn(x, y)'
    <3>1. ~ Passed(y)'
      BY <1>1, <1>9, <1>13, <2>2, Neighbours
    <3>2. QueueAhead(x, y)'
      BY <1>14, <2>2, AbsentAhead DEF QueueAhead, InQueue, Before
    <3>3. KeptAhead(x, y)'
      <4>1. CASE back
        BY <1>3, <1>11, <1>12, <2>2, <4>1 DEF KeptAhead, Before
      <4>2. CASE ~ back
        BY <1>3, <1>10, <1>12, <2>2, <4>2, AbsentAhead DEF KeptAhead, Before
      <4> QED
        BY <4>1, <4>2
    <3> QED
      BY <1>14, <3>1, <3>2, <3>3 DEF InTurn
  <2> QED
    BY <2>1, <2>2
<1>17. Order' /\ SendsAlone'
  BY <1>13, <1>15, <1>16, MovesOne
<1>18. InOrder'
  BY <1>2, <1>3, <1>4, <1>9, ReadInOrder
<1> QED
  BY <1>17, <1>18 DEF OrderInv

\* The channel takes a chunk.
LEMMA DeliveredInTurn ==
  ASSUME Inv, OrderInv, [Next]_vars, NEW s \in Senders, Delivered(s)
  PROVE  OrderInv'
<1> DEFINE new == [running EXCEPT ![Person[s]] = Append(@, Delivery(adapter, s))]
<1>1. TypeOK /\ OnePlace /\ Hands /\ Lines /\ GoodLines(running) /\ Order /\ SendsAlone
  BY DEF Inv, OrderInv, TypeOK, Lines, GoodLines
<1>2. /\ at[s] \in {"sending", "ahead"}
      /\ Outcome(Head(hand[s]), through[s], Person[s], "ok")
      /\ done' = done \cup {Head(hand[s])} /\ hand' = [hand EXCEPT ![s] = <<>>]
      /\ (adapter # None /\ running' = new) \/ UNCHANGED running
      /\ jumped' = IF at[s] = "ahead" THEN jumped \cup {Head(hand[s])} ELSE jumped
      /\ UNCHANGED <<kept, queue>>
  BY DEF Delivered
<1>3. at[s] \in AtWork
  BY <1>2 DEF AtWork
<1>4. PICK x \in Messages : Head(hand[s]) = x /\ hand[s] = <<x>> /\ x.from = s
  BY <1>1, <1>3, TheChunk
<1>5. \A r \in People : Carrying(running'[r]) = Carrying(running[r])
  <2>1. CASE adapter # None /\ running' = new
    <3>1. \A i \in 1 .. Len(running[Person[s]]) : running[Person[s]][i].waiter # s
      BY <1>1, <1>2, NotAwaiting, DeliveryAssumption
    <3>2. \A r \in People : Carrying(new[r]) = Carrying(running[r])
      BY <1>1, <2>1, <3>1, Awaited
    <3> HIDE DEF new
    <3> QED
      BY <2>1, <3>2
  <2> QED
    BY <1>2, <2>1
<1> HIDE DEF new
<1>6. /\ hand'[s] = <<>> /\ \A t \in Senders \ {s} : hand'[t] = hand[t]
      /\ \A y : <<y>> # <<>>
  BY <1>1, <1>2 DEF TypeOK
<1>7. /\ done' = done \cup {x} /\ Outcome(x, through[s], Person[x.from], "ok")
      /\ jumped' = IF at[s] = "ahead" THEN jumped \cup {x} ELSE jumped
  BY <1>2, <1>4
<1>8. OnlyMoves(x)
  <2>1. \A t \in Senders : \A y : y # x /\ hand'[t] = <<y>> => hand[t] = <<y>>
    BY <1>6
  <2> QED
    BY <1>2, <1>5, <1>7, <2>1, SameLine DEF OnlyMoves
<1>9. InHand(x) /\ Apart(x)'
  BY <1>4, StillApart DEF InHand
<1>10. SenderGoesOn(x) /\ TakesItsTurn(x)
  <2>1. ~ InQueue(x)' /\ ~ InHand(x)' /\ ~ IsKept(x)' /\ ~ IsCarried(x)'
    BY <1>7, <1>9 DEF Apart
  <2>2. ASSUME NEW y \in Messages, y # x, Before(y, x), x \notin jumped'
        PROVE  ~ InQueue(y)' /\ ~ InHand(y)' /\ ~ IsKept(y)' /\ ~ IsCarried(y)'
    <3>1. at[s] = "sending" /\ y.from = s
      BY <1>2, <1>4, <1>7, <2>2 DEF Before
    <3>2. ~ IsKept(y)' /\ ~ IsCarried(y)'
      BY <1>1, <1>2, <1>5, <3>1, AboutMessages DEF SendsAlone, IsKept, IsCarried
    <3>3. ~ InQueue(y)'
      BY <1>1, <1>8, <1>9, <2>2, Neighbours
    <3>4. ~ InHand(y)'
      BY <1>6, <3>1 DEF InHand
    <3> QED
      BY <3>2, <3>3, <3>4
  <2> QED
    BY <2>1, <2>2, OverInTurn
<1>11. Order' /\ SendsAlone'
  BY <1>8, <1>10, MovesOne
<1>12. InOrder'
  BY <1>7, <1>9, ReadInOrder
<1> QED
  BY <1>11, <1>12 DEF OrderInv

\* A chunk is refused by a channel that cannot carry it.
LEMMA NotCarriedInTurn ==
  ASSUME Inv, OrderInv, [Next]_vars, NEW s \in Senders, NotCarried(s)
  PROVE  OrderInv'
<1>1. TypeOK /\ OnePlace /\ Hands /\ GoodLines(running)
  BY DEF Inv, TypeOK, Lines, GoodLines
<1>2. /\ at[s] \in {"sending", "ahead"} /\ Keep(s, running, kept, marks', aged')
      /\ UNCHANGED <<queue, jumped, done>>
  BY DEF NotCarried
<1>3. at[s] \in AtWork
  BY <1>2 DEF AtWork
<1>4. PICK answer : Outcome(Head(hand[s]), through[s], Person[s], answer)
  BY DEF NotCarried
<1>5. PICK x \in Messages : Head(hand[s]) = x /\ InHand(x) /\ x.from = s
  BY <1>1, <1>3, TheChunk DEF InHand
<1>6. Order' /\ SendsAlone'
  BY <1>1, <1>2, <1>3, KeptInTurn
<1>7. InOrder'
  BY <1>2, <1>4, <1>5, ReadInOrder
<1> QED
  BY <1>6, <1>7 DEF OrderInv

\* A chunk is refused by a channel that can carry it: it is tried again, or lost, and
\* its failure marker takes its place.
LEMMA RefusedInTurn ==
  ASSUME Inv, OrderInv, [Next]_vars, NEW s \in Senders, Refused(s)
  PROVE  OrderInv'
<1> DEFINE first == s \notin Direct /\ ~ lost[s]
<1>1. TypeOK /\ OnePlace /\ Hands /\ Numbered /\ Marked /\ Order
  BY DEF Inv, OrderInv
<1>2. /\ at[s] \in {"sending", "ahead"}
      /\ Outcome(Head(hand[s]), through[s], Person[s], "refused")
      /\ UNCHANGED <<kept, running, jumped, done>>
  BY DEF Refused, keeping
<1>3. at[s] \in AtWork
  BY <1>2 DEF AtWork
<1>4. PICK m \in Messages : Head(hand[s]) = m /\ hand[s] = <<m>> /\ m.from = s /\ m \in wrote
  BY <1>1, <1>3, TheChunk
<1>5. \/ UNCHANGED <<hand, queue>>
      \/ hand' = [hand EXCEPT ![s] = <<>>] /\ UNCHANGED queue
      \/ /\ first /\ hand' = [hand EXCEPT ![s] = <<>>]
         /\ queue' = [queue EXCEPT ![s] = <<Marker(m)>> \o @]
  BY <1>4 DEF Refused
<1>6. InHand(m) /\ Apart(m)
  BY <1>4, StillApart DEF InHand
<1>7. InOrder'
  BY <1>2, <1>4, <1>6, ReadInOrder
<1>8. CASE UNCHANGED <<hand, queue>>
  <2>1. \A x : OnlyMoves(x)
    BY <1>2, <1>8, SameLine DEF OnlyMoves
  <2> QED
    BY <1>7, <2>1, MovesNone DEF OrderInv
<1>9. ASSUME hand' = [hand EXCEPT ![s] = <<>>]
      PROVE  /\ hand'[s] = <<>> /\ \A t \in Senders \ {s} : hand'[t] = hand[t]
             /\ \A t \in Senders : \A y : hand'[t] = <<y>> => hand[t] = <<y>>
  <2>1. \A y : <<y>> # <<>>
    OBVIOUS
  <2> QED
    BY <1>1, <1>9, <2>1 DEF TypeOK
<1>10. CASE hand' = [hand EXCEPT ![s] = <<>>] /\ UNCHANGED queue
  <2>1. \A x : OnlyMoves(x)
    BY <1>2, <1>9, <1>10, SameLine DEF OnlyMoves
  <2> QED
    BY <1>7, <2>1, MovesNone DEF OrderInv
<1>11. CASE /\ first /\ hand' = [hand EXCEPT ![s] = <<>>]
            /\ queue' = [queue EXCEPT ![s] = <<Marker(m)>> \o @]
  <2>1. PICK x \in Messages : x = Marker(m)
    BY MarkerIsAMessage
  <2>2. x.from = s /\ x.n = m.n /\ x.kind = "marker"
    BY <1>4, <2>1, MarkerIsAMessage
  <2>3. m.kind # "marker" /\ x # m
    BY <1>1, <1>4, <1>11, <2>2 DEF Marked
  <2>4. x \notin wrote
    <3> SUFFICES ASSUME x \in wrote PROVE FALSE
      OBVIOUS
    <3>1. PICK y \in dropped : y.from = s /\ y.n = m.n /\ y.kind # "marker"
      BY <1>1, <2>2 DEF Marked
    <3>2. y \in Messages /\ y \in wrote
      BY <1>1, <3>1, IsThere DEF TypeOK
    <3>3. y = m
      BY <1>1, <1>4, <2>3, <3>1, <3>2 DEF Numbered, Chunks
    <3> QED
      BY <1>6, <3>1, <3>3 DEF Apart
  <2>5. Apart(x) /\ Apart(x)'
    BY StillApart
  <2>6. queue[s] \in Seq(Messages) /\ ~ In(queue[s], x)
    BY <1>1, <2>2, <2>4, <2>5 DEF TypeOK, Apart, InQueue
  <2>7. /\ InLineBut(queue[s], <<x>> \o queue[s], x)
        /\ \A y : y # x => AheadIn(<<x>> \o queue[s], x, y)
        /\ \A y : y # x /\ ~ In(queue[s], y) => AheadIn(<<x>> \o queue[s], y, x)
        /\ In(<<x>> \o queue[s], x)
    BY <2>6, LineHeaded, Prepended
  <2>8. /\ queue'[s] = <<x>> \o queue[s] /\ \A t \in Senders \ {s} : queue'[t] = queue[t]
    BY <1>1, <1>11, <2>1 DEF TypeOK
  <2>9. OnlyMoves(x)
    <3>1. \A t \in Senders : InLineBut(queue[t], queue'[t], x)
      BY <2>7, <2>8, SameLine
    <3> QED
      BY <1>2, <1>9, <1>11, <3>1, SameLine DEF OnlyMoves
  <2>10. InQueue(x)'
    BY <2>2, <2>7, <2>8 DEF InQueue
  <2>11. SenderGoesOn(x)
    BY <2>5, <2>10 DEF Apart, SenderGoesOn, Passed
  <2>12. TakesItsTurn(x)
    <3> SUFFICES ASSUME NEW y \in Messages, y # x
                 PROVE  (Before(y, x) => InTurn(y, x)') /\ (Before(x, y) => InTurn(x, y)')
      BY DEF TakesItsTurn
    <3>1. ASSUME Before(y, x) PROVE InTurn(y, x)'
      <4>1. ~ InQueue(y)
        <5>1. CASE Before(y, m)
          BY <1>1, <1>6, <5>1 DEF Order, InTurn
        <5>2. CASE ~ Before(y, m)
          <6>1. y.from = s /\ y.n = m.n /\ y.kind # "marker"
            BY <1>4, <2>2, <3>1, <5>2 DEF Before
          <6>2. InQueue(y) => y = m
            BY <1>1, <1>4, <2>3, <6>1, StillApart DEF Numbered, Chunks, Apart
          <6> QED
            BY <1>6, <6>2 DEF Apart
        <5> QED
          BY <5>1, <5>2
      <4>2. QueueAhead(y, x)'
        BY <2>2, <2>7, <2>8, <3>1, <4>1 DEF QueueAhead, InQueue, Before
      <4> QED
        BY <2>5, <2>10, <4>2 DEF InTurn, Apart
    <3>2. ASSUME Before(x, y) PROVE InTurn(x, y)'
      <4>1. Before(m, y)
        BY <1>4, <2>2, <3>2 DEF Before
      <4>2. InTurn(m, y) /\ y.from = s /\ y # m
        BY <1>1, <1>4, <4>1, NotBeforeItself DEF Order, Before
      <4>3. ~ Passed(y) /\ ~ IsKept(y)
        BY <1>6, <4>2 DEF InTurn
      <4>4. ~ Passed(y)' /\ ~ IsKept(y)'
        BY <1>2, <4>3 DEF Passed, IsKept, IsCarried
      <4>5. ~ InHand(y)'
        BY <1>9, <1>11, <4>2 DEF InHand
      <4>6. QueueAhead(x, y)'
        BY <2>7, <2>8, <4>2 DEF QueueAhead
      <4> QED
        BY <4>4, <4>5, <4>6 DEF InTurn
    <3> QED
      BY <3>1, <3>2
  <2>13. Order' /\ SendsAlone'
    BY <2>9, <2>11, <2>12, MovesOne
  <2> QED
    BY <1>7, <2>13 DEF OrderInv
<1> QED
  BY <1>5, <1>8, <1>10, <1>11

\* A reload removes the agent, or the bridge stops or dies: what is cut has no turn.
LEMMA CutsInTurn ==
  ASSUME Inv, OrderInv, [Next]_vars, Removed \/ Restart
  PROVE  OrderInv'
<1>1. \A y : <<y>> # <<>>
  OBVIOUS
<1>2. CASE Removed
  <2>1. /\ kept' = [p \in People |-> <<>>]
        /\ UNCHANGED <<queue, hand, running, received, jumped, done>>
    BY <1>2 DEF Removed, sending
  <2>2. \A x : OnlyMoves(x)
    BY <2>1, SameLine, EmptyLine DEF OnlyMoves
  <2> QED
    BY <2>1, <2>2, MovesNone, NothingNewRead DEF OrderInv
<1>3. CASE Restart
  <2>1. /\ queue' = [s \in Senders |-> <<>>] /\ hand' = [s \in Senders |-> <<>>]
        /\ running' = [p \in People |-> <<>>]
        /\ UNCHANGED <<kept, received, jumped, done>>
    BY <1>3 DEF Restart
  <2>2. \A x : OnlyMoves(x)
    BY <1>1, <2>1, SameLine, EmptyLine DEF OnlyMoves, Carrying
  <2> QED
    BY <2>1, <2>2, MovesNone, NothingNewRead DEF OrderInv
<1> QED
  BY <1>2, <1>3

\* Nothing is written yet.
LEMMA InitiallyInTurn ==
  ASSUME Init
  PROVE  OrderInv
<1>1. Inv
  BY Initially
<1>2. wrote = {} /\ at = [s \in Senders |-> "idle"] /\ received = [p \in People |-> <<>>]
  BY DEF Init
<1>3. Order
  <2> SUFFICES ASSUME NEW o \in Messages, NEW m \in Messages PROVE InTurn(o, m)
    BY DEF Order
  <2>1. Apart(m)
    BY <1>1, AllApart
  <2> QED
    BY <1>2, <2>1 DEF Apart, InTurn
<1>4. SendsAlone
  BY <1>2 DEF SendsAlone
<1>5. InOrder
  <2>1. \A p \in People : Texts(p) = {}
    BY <1>2 DEF Texts
  <2> QED
    BY <2>1 DEF InOrder
<1> QED
  BY <1>3, <1>4, <1>5 DEF OrderInv

\* A person reads what one sender wrote in the order it was written, the note of a lost
\* part in its place, unless a text was sent ahead because they were marked; for any
\* senders, chunks, retries, refusals, outages, overlapping deliveries and restarts.
THEOREM ReadAsWritten == Spec => []InOrder
<1>1. Init => Inv /\ OrderInv
  BY Initially, InitiallyInTurn
<1>2. ASSUME Inv, OrderInv, [Next]_vars PROVE OrderInv'
  <2>1. CASE \E p \in People : DeliveryStep(p)
    BY <1>2, <2>1, TakesInTurn, ReturnsInTurn, SentInTurn, KeptRefusedInTurn DEF DeliveryStep
  <2>2. CASE \E s \in Senders : SenderStep(s)
    BY <1>2, <2>2, ShiftInTurn, AttemptInTurn, DeliveredInTurn, NotCarriedInTurn, RefusedInTurn,
       IdleInTurn DEF SenderStep
  <2>3. CASE \E s \in Senders, k \in Kinds : Enqueue(s, k)
    BY <1>2, <2>3, EnqueueInTurn
  <2>4. CASE Removed \/ Restart
    BY <1>2, <2>4, CutsInTurn
  <2>5. CASE \/ Poll \/ Started \/ Goes \/ Replaced
             \/ \E p \in People : MarkAges(p) \/ LeavesServer(p) \/ JoinsServer(p)
             \/ \E s \in Senders : Opens(s)
             \/ UNCHANGED vars
    BY <1>2, <2>5, IdleInTurn
  <2> QED
    BY <1>2, <2>1, <2>2, <2>3, <2>4, <2>5 DEF Next
<1>3. OrderInv => InOrder
  BY DEF OrderInv
<1>4. Inv /\ OrderInv /\ [Next]_vars => Inv' /\ OrderInv'
  BY <1>2, Preserved
<1> QED
  BY <1>1, <1>3, <1>4, PTL DEF Spec
=============================================================================
