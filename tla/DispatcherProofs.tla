-------------------------- MODULE DispatcherProofs --------------------------
(***************************************************************************)
(* What holds of the dispatcher for any messages of any kinds and any      *)
(* bounds: the turns of a conversation run one at a time, the file of kept *)
(* messages is in the order the bridges received them, and the assistant   *)
(* is given a message until it answered it and not again.                  *)
(***************************************************************************)
EXTENDS Dispatcher, FiniteSetTheorems, TLAPS

\* The types of what the proofs speak of.
Typed ==
  /\ turn \in [Messages -> Turn]
  /\ inOrder \in Messages \cup {None} /\ places \subseteq Messages
  /\ holds \in Messages \cup {None} /\ waiting \in Messages \cup {None}
  /\ received \in [Messages -> Nat] /\ clock \in Nat
  /\ file \in Seq(Messages)

HasPlace(m) == turn[m].at \in Placed \cup {"placed"}

\* The turns that have a place stand in a line: each but the first waits for the one
\* before it, and the next to come will wait for the last.
Line(q) ==
  /\ q \in Seq(Messages)
  /\ \A i, j \in 1 .. Len(q) : q[i] = q[j] => i = j
  /\ places = {q[i] : i \in 1 .. Len(q)}
  /\ inOrder = IF Len(q) = 0 THEN None ELSE q[Len(q)]
  /\ \A i \in 2 .. Len(q) : turn[q[i]].at = "placed" /\ turn[q[i]].behind = {q[i - 1]}

InLine ==
  /\ \A m \in Messages : m \in places <=> HasPlace(m)
  /\ \E q \in Seq(Messages) : Line(q)

\* The messages in the file are kept ones, in the order they were received.
FileIsKept ==
  \A i \in 1 .. Len(file) : turn[file[i]].at = "kept"

\* No two messages were received at one time.
Stamped ==
  /\ \A m \in Messages : received[m] <= clock
  /\ \A m \in Messages : turn[m].at \in Running \cup {"kept"} => received[m] > 0
  /\ \A m, n \in Messages : received[m] > 0 /\ received[m] = received[n] => m = n

Inv == Typed /\ InLine /\ FileIsKept /\ FileInOrder /\ Stamped

\* A turn that goes to another place keeps its type.
LEMMA TurnMoves ==
  ASSUME NEW t \in Turn, NEW at \in Stages, NEW behind \in SUBSET Messages
  PROVE  [t EXCEPT !.at = at, !.behind = behind] \in Turn
BY DEF Turn

-----------------------------------------------------------------------------
(* The line of turns.                                                      *)

\* Only the first of the line can leave it, and the rest stay in line.
LEMMA FirstLeaves ==
  ASSUME Typed, InLine, NEW m \in Messages,
         turn[m].at \in Placed \/ MyTurn(m), Leaves(m), turn' \in [Messages -> Turn],
         \A n \in Messages : n # m => turn'[n] = turn[n],
         turn'[m].at \in Results \cup {"delayed"}
  PROVE  InLine'
<1>1. PICK q \in Seq(Messages) : Line(q)
  BY DEF InLine
<1>2. m \in places
  BY DEF InLine, HasPlace, MyTurn, Is
<1>3. PICK i \in 1 .. Len(q) : q[i] = m
  BY <1>1, <1>2 DEF Line
<1>4. i = 1
  <2> SUFFICES ASSUME i # 1 PROVE FALSE
    OBVIOUS
  <2>1. turn[m].at = "placed" /\ turn[m].behind = {q[i - 1]} /\ q[i - 1] \in places
    <3>1. i \in 2 .. Len(q) /\ i - 1 \in 1 .. Len(q)
      BY <1>3
    <3> QED
      BY <1>1, <1>3, <3>1 DEF Line
  <2> QED
    BY <2>1 DEF MyTurn, Placed, Is
<1>5. Len(q) > 0 /\ q # <<>>
  BY <1>1, <1>3
<1>6. PICK r \in Seq(Messages) : Len(r) = Len(q) - 1 /\ \A j \in 1 .. Len(r) : r[j] = q[j + 1]
  <2>1. Tail(q) \in Seq(Messages) /\ Len(Tail(q)) = Len(q) - 1
        /\ \A j \in 1 .. Len(Tail(q)) : Tail(q)[j] = q[j + 1]
    BY <1>5
  <2> QED
    BY <2>1
<1>7. \A j \in 1 .. Len(r) : r[j] # m
  BY <1>1, <1>3, <1>4, <1>6 DEF Line
<1>8. places' = {r[j] : j \in 1 .. Len(r)}
  <2>1. ASSUME NEW n \in places' PROVE \E j \in 1 .. Len(r) : n = r[j]
    <3>1. PICK k \in 1 .. Len(q) : n = q[k] /\ k # 1
      BY <1>1, <1>3, <1>4, <2>1 DEF Leaves, Line
    <3>2. k - 1 \in 1 .. Len(r)
      BY <1>6, <3>1
    <3>3. r[k - 1] = q[(k - 1) + 1]
      BY <1>6, <3>2
    <3> QED
      BY <3>1, <3>2, <3>3
  <2>2. ASSUME NEW j \in 1 .. Len(r) PROVE r[j] \in places'
    BY <1>1, <1>6, <1>7 DEF Leaves, Line
  <2> QED
    BY <2>1, <2>2
<1>9. inOrder' = IF Len(r) = 0 THEN None ELSE r[Len(r)]
  <2>1. CASE Len(q) = 1
    BY <1>1, <1>3, <1>4, <1>6, <2>1 DEF Leaves, Line
  <2>2. CASE Len(q) # 1
    BY <1>1, <1>3, <1>4, <1>5, <1>6, <2>2 DEF Leaves, Line
  <2> QED BY <2>1, <2>2
<1>10. \A j \in 2 .. Len(r) : turn'[r[j]].at = "placed" /\ turn'[r[j]].behind = {r[j - 1]}
  <2> TAKE j \in 2 .. Len(r)
  <2>1. r[j] \in Messages /\ turn'[r[j]] = turn[r[j]]
    BY <1>6, <1>7
  <2>2. j + 1 \in 2 .. Len(q) /\ j \in 1 .. Len(r) /\ j - 1 \in 1 .. Len(r)
    BY <1>6
  <2>3. r[j] = q[j + 1] /\ r[j - 1] = q[j]
    BY <1>6, <2>2
  <2>4. turn[q[j + 1]].at = "placed" /\ turn[q[j + 1]].behind = {q[(j + 1) - 1]}
    BY <1>1, <2>2 DEF Line
  <2> QED
    BY <2>1, <2>3, <2>4
<1>11. Line(r)'
  <2>1. \A j, k \in 1 .. Len(r) : r[j] = r[k] => j = k
    <3> SUFFICES ASSUME NEW j \in 1 .. Len(r), NEW k \in 1 .. Len(r), r[j] = r[k]
                 PROVE  j = k
      OBVIOUS
    <3>1. j + 1 \in 1 .. Len(q) /\ k + 1 \in 1 .. Len(q) /\ q[j + 1] = q[k + 1]
      BY <1>6
    <3>2. j + 1 = k + 1
      BY <1>1, <3>1 DEF Line
    <3> QED
      BY <3>2
  <2> QED
    BY <2>1, <1>6, <1>8, <1>9, <1>10 DEF Line
<1>12. \A n \in Messages : n \in places' <=> HasPlace(n)'
  BY DEF InLine, HasPlace, Leaves, Placed, Results
<1> QED
  BY <1>6, <1>11, <1>12 DEF InLine

\* A turn that takes its place goes behind the last.
LEMMA LastJoins ==
  ASSUME Typed, InLine, NEW m \in Messages, ~ HasPlace(m), TakesPlace(m)
  PROVE  InLine' /\ turn' \in [Messages -> Turn]
<1> USE DispatcherAssumption
<1>1. PICK q \in Seq(Messages) : Line(q)
  BY DEF InLine
<1>2. m \notin places
  BY DEF InLine
<1>3. PICK r \in Seq(Messages) :
        Len(r) = Len(q) + 1 /\ r[Len(r)] = m /\ \A i \in 1 .. Len(q) : r[i] = q[i]
  <2>1. /\ Append(q, m) \in Seq(Messages) /\ Len(Append(q, m)) = Len(q) + 1
        /\ Append(q, m)[Len(q) + 1] = m
        /\ \A i \in 1 .. Len(q) : Append(q, m)[i] = q[i]
    OBVIOUS
  <2> QED
    BY <2>1
<1>4. \A i \in 1 .. Len(q) : q[i] # m
  BY <1>1, <1>2 DEF Line
<1>5. /\ turn' \in [Messages -> Turn]
      /\ turn'[m].at = "placed" /\ turn'[m].behind = {inOrder} \ {None}
      /\ \A n \in Messages : n # m => turn'[n] = turn[n]
  <2>1. {inOrder} \ {None} \in SUBSET Messages
    BY DEF Typed
  <2>2. [turn[m] EXCEPT !.at = "placed", !.behind = {inOrder} \ {None}] \in Turn
    <3>1. "placed" \in Stages
      BY DEF Stages, Running
    <3> QED
      BY <2>1, <3>1, TurnMoves DEF Typed
  <2> QED
    BY <2>2 DEF TakesPlace, Typed, Turn
<1>6. \A i, j \in 1 .. Len(r) : r[i] = r[j] => i = j
  BY <1>1, <1>3, <1>4 DEF Line
<1>7. places' = {r[i] : i \in 1 .. Len(r)}
  <2>1. ASSUME NEW n \in places' PROVE \E i \in 1 .. Len(r) : n = r[i]
    BY <1>1, <1>3, <2>1 DEF TakesPlace, Line
  <2>2. ASSUME NEW i \in 1 .. Len(r) PROVE r[i] \in places'
    BY <1>1, <1>3 DEF TakesPlace, Line
  <2> QED
    BY <2>1, <2>2
<1>8. inOrder' = IF Len(r) = 0 THEN None ELSE r[Len(r)]
  BY <1>1, <1>3 DEF TakesPlace
<1>9. \A i \in 2 .. Len(r) : turn'[r[i]].at = "placed" /\ turn'[r[i]].behind = {r[i - 1]}
  <2> TAKE i \in 2 .. Len(r)
  <2>1. CASE i = Len(r)
    <3>1. Len(q) # 0 /\ inOrder = q[Len(q)] /\ inOrder \in Messages /\ r[i - 1] = q[Len(q)]
      BY <1>1, <1>3, <2>1 DEF Line
    <3> QED
      BY <1>3, <1>5, <2>1, <3>1
  <2>2. CASE i # Len(r)
    <3>1. i \in 2 .. Len(q) /\ i - 1 \in 1 .. Len(q)
      BY <1>3, <2>2
    <3>2. r[i] = q[i] /\ r[i - 1] = q[i - 1] /\ q[i] # m /\ q[i] \in Messages
      BY <1>3, <1>4, <3>1
    <3>3. turn[q[i]].at = "placed" /\ turn[q[i]].behind = {q[i - 1]}
      BY <1>1, <3>1 DEF Line
    <3> QED
      BY <1>5, <3>2, <3>3
  <2> QED BY <2>1, <2>2
<1>10. Line(r)'
  BY <1>3, <1>6, <1>7, <1>8, <1>9 DEF Line
<1>11. \A n \in Messages : n \in places' <=> HasPlace(n)'
  BY <1>5 DEF InLine, HasPlace, TakesPlace
<1> QED
  BY <1>3, <1>5, <1>10, <1>11 DEF InLine

\* The steps that leave the line as it is: what they change of a turn that has a
\* place, they change of the first.
LEMMA LineStays ==
  ASSUME Typed, InLine, UNCHANGED <<inOrder, places>>,
         \A n \in Messages : HasPlace(n)' <=> HasPlace(n),
         \A n \in Messages :
           \/ turn[n].at = "placed" => turn'[n].at = "placed" /\ turn'[n].behind = turn[n].behind
           \/ MyTurn(n)
  PROVE  InLine'
<1>1. PICK q \in Seq(Messages) : Line(q)
  BY DEF InLine
<1>2. \A i \in 2 .. Len(q) : turn'[q[i]].at = "placed" /\ turn'[q[i]].behind = {q[i - 1]}
  <2> TAKE i \in 2 .. Len(q)
  <2>1. /\ q[i] \in Messages /\ turn[q[i]].at = "placed"
        /\ turn[q[i]].behind = {q[i - 1]} /\ q[i - 1] \in places
    <3>1. i \in 1 .. Len(q) /\ i - 1 \in 1 .. Len(q)
      OBVIOUS
    <3> QED
      BY <1>1, <3>1 DEF Line
  <2>2. ~ MyTurn(q[i])
    BY <2>1 DEF MyTurn
  <2> QED
    BY <2>1, <2>2
<1>3. Line(q)'
  BY <1>1, <1>2 DEF Line
<1> QED
  BY <1>3 DEF InLine

\* Of two turns of the line, one waits.
LEMMA LineIsOneAtATime ==
  ASSUME Typed, InLine
  PROVE  OneTurnAtATime
<1> SUFFICES ASSUME NEW m \in Messages, NEW n \in Messages,
                    turn[m].at \in Placed, turn[n].at \in Placed
             PROVE  m = n
  BY DEF OneTurnAtATime
<1>1. PICK q \in Seq(Messages) : Line(q)
  BY DEF InLine
<1>2. \A k \in Messages : turn[k].at \in Placed => Len(q) > 0 /\ k = q[1]
  <2> TAKE k \in Messages
  <2> HAVE turn[k].at \in Placed
  <2>1. PICK i \in 1 .. Len(q) : q[i] = k
    BY ZenonT(60), <1>1 DEF InLine, HasPlace, Line
  <2>2. i = 1
    BY <1>1, <2>1 DEF Line, Placed
  <2> QED
    BY <2>1, <2>2
<1> QED
  BY <1>2

-----------------------------------------------------------------------------
(* The file.                                                               *)

\* How many numbers there are up to one.
LEMMA UpTo ==
  ASSUME NEW k \in Nat
  PROVE  IsFiniteSet(1 .. k) /\ Cardinality(1 .. k) = k
<1>1. 1 \in Int /\ k \in Int /\ (1 > k => k = 0) /\ (~ 1 > k => k - 1 + 1 = k)
  OBVIOUS
<1>2. IsFiniteSet(1 .. k) /\ Cardinality(1 .. k) = IF 1 > k THEN 0 ELSE k - 1 + 1
  BY <1>1, FS_Interval
<1> QED
  BY <1>1, <1>2

\* What stands where in two sequences put together.
LEMMA Concatenated ==
  ASSUME NEW S, NEW a \in Seq(S), NEW b \in Seq(S)
  PROVE  /\ a \o b \in Seq(S) /\ Len(a \o b) = Len(a) + Len(b)
         /\ \A i \in 1 .. Len(a \o b) : (a \o b)[i] = IF i <= Len(a) THEN a[i] ELSE b[i - Len(a)]
OBVIOUS

\* How many messages a message of that time goes behind.
Behind(list, at) ==
  Cardinality({i \in 1 .. Len(list) : \E j \in i .. Len(list) : received[list[j]] <= at})

\* Where KeptIn puts a message: behind those received before it.
LEMMA PlaceInFile ==
  ASSUME NEW list \in Seq(Messages), NEW at \in Nat, received \in [Messages -> Nat],
         \A i, j \in 1 .. Len(list) : i < j => received[list[i]] < received[list[j]],
         NEW n, n = Behind(list, at)
  PROVE  /\ n \in 0 .. Len(list)
         /\ \A i \in 1 .. Len(list) : i <= n <=> received[list[i]] <= at
<1> DEFINE L == Len(list)
           S == {i \in 1 .. L : \E j \in i .. L : received[list[j]] <= at}
<1>1. L \in Nat /\ \A i \in 1 .. L : received[list[i]] \in Nat
  OBVIOUS
<1>2. \A i \in 1 .. L : i \in S <=> received[list[i]] <= at
  <2> TAKE i \in 1 .. L
  <2>1. ASSUME NEW j \in i .. L, received[list[j]] <= at PROVE received[list[i]] <= at
    <3>1. j \in 1 .. L /\ (i = j \/ received[list[i]] < received[list[j]])
      BY <1>1
    <3> QED
      BY <1>1, <2>1, <3>1
  <2> QED
    BY <1>1, <2>1
<1>3. /\ IsFiniteSet(1 .. L) /\ Cardinality(1 .. L) = L
      /\ S \subseteq 1 .. L /\ IsFiniteSet(S) /\ n \in Nat /\ n <= L
  <2>1. IsFiniteSet(1 .. L) /\ Cardinality(1 .. L) = L
    BY <1>1, UpTo
  <2>2. S \subseteq 1 .. L
    OBVIOUS
  <2> HIDE DEF L, S
  <2>3. IsFiniteSet(S) /\ Cardinality(S) <= Cardinality(1 .. L)
    BY <2>1, <2>2, FS_Subset
  <2>4. n = Cardinality(S)
    BY DEF L, S, Behind
  <2> QED
    BY <2>1, <2>2, <2>3, <2>4, FS_CardinalityType
<1>4. ASSUME NEW i \in 1 .. L, i \in S PROVE i <= n
  <2>1. 1 .. i \subseteq S
    <3> SUFFICES ASSUME NEW k \in 1 .. i PROVE k \in S
      OBVIOUS
    <3>1. k \in 1 .. L /\ (k = i \/ received[list[k]] < received[list[i]])
      BY <1>1
    <3>2. received[list[k]] <= at
      BY <1>1, <1>2, <1>4, <3>1
    <3> QED
      BY <1>2, <3>1, <3>2
  <2>2. IsFiniteSet(1 .. i) /\ Cardinality(1 .. i) = i
    BY <1>1, UpTo
  <2>3. n = Cardinality(S)
    BY DEF Behind
  <2> HIDE DEF S
  <2> QED
    BY <1>3, <2>1, <2>2, <2>3, FS_Subset
<1>5. ASSUME NEW i \in 1 .. L, i \notin S PROVE ~ i <= n
  <2>1. S \subseteq 1 .. (i - 1)
    <3> SUFFICES ASSUME NEW k \in S PROVE k < i
      BY <1>3
    <3>1. k \in 1 .. L /\ received[list[k]] <= at /\ k # i
      BY <1>2, <1>5
    <3>2. ~ received[list[i]] <= at
      BY <1>2, <1>5
    <3>3. ~ i < k
      BY <1>1, <3>1, <3>2
    <3> QED
      BY <1>1, <3>1, <3>3
  <2>2. IsFiniteSet(1 .. (i - 1)) /\ Cardinality(1 .. (i - 1)) = i - 1
    <3>1. i - 1 \in Nat
      BY <1>1
    <3> QED
      BY <3>1, UpTo
  <2>3. n = Cardinality(S)
    BY DEF Behind
  <2>4. PICK I : I = 1 .. (i - 1)
    OBVIOUS
  <2> HIDE DEF S
  <2>5. S \in SUBSET I /\ IsFiniteSet(I) /\ Cardinality(I) = i - 1
    BY <2>1, <2>2, <2>4
  <2>6. n <= i - 1
    BY <2>3, <2>5, FS_Subset
  <2> QED
    BY <1>1, <1>3, <2>6
<1>6. n \in 0 .. L /\ \A i \in 1 .. L : i <= n <=> received[list[i]] <= at
  <2> HIDE DEF L, S
  <2> QED
    BY <1>1, <1>2, <1>3, <1>4, <1>5
<1> QED
  BY <1>6

\* A message kept goes to its place, by when it was received.
LEMMA KeptInOrder ==
  ASSUME NEW list \in Seq(Messages), NEW m \in Messages, NEW at \in Nat,
         received \in [Messages -> Nat],
         \A i, j \in 1 .. Len(list) : i < j => received[list[i]] < received[list[j]],
         \A i \in 1 .. Len(list) : list[i] # m /\ received[list[i]] # at,
         NEW R \in [Messages -> Nat], R = [received EXCEPT ![m] = at]
  PROVE  LET k == KeptIn(list, m, at)
         IN /\ k \in Seq(Messages)
            /\ \A i \in 1 .. Len(k) : k[i] = m \/ \E j \in 1 .. Len(list) : k[i] = list[j]
            /\ \A i, j \in 1 .. Len(k) : i < j => R[k[i]] < R[k[j]]
<1>1. PICK n : n = Behind(list, at)
  OBVIOUS
<1>2. /\ n \in 0 .. Len(list)
      /\ \A i \in 1 .. Len(list) : i <= n <=> received[list[i]] <= at
  BY <1>1, PlaceInFile
<1>3. PICK k : k = KeptIn(list, m, at)
  OBVIOUS
<1>4. k = SubSeq(list, 1, n) \o <<m>> \o SubSeq(list, n + 1, Len(list))
  BY <1>1, <1>3 DEF KeptIn, Behind
<1>5. /\ k \in Seq(Messages) /\ Len(k) = Len(list) + 1
      /\ \A i \in 1 .. Len(k) :
           k[i] = IF i <= n THEN list[i] ELSE IF i = n + 1 THEN m ELSE list[i - 1]
  <2> DEFINE a == SubSeq(list, 1, n)
             b == SubSeq(list, n + 1, Len(list))
  <2>1. a \in Seq(Messages) /\ Len(a) = n /\ \A i \in 1 .. n : a[i] = list[i]
    BY <1>2
  <2>2. b \in Seq(Messages) /\ Len(b) = Len(list) - n
        /\ \A i \in 1 .. (Len(list) - n) : b[i] = list[n + i]
    BY SMTT(30), <1>2
  <2> HIDE DEF a, b
  <2>3. k = a \o <<m>> \o b
    BY <1>4 DEF a, b
  <2>4. PICK c : /\ k = c \o b /\ c \in Seq(Messages) /\ Len(c) = n + 1
                 /\ \A i \in 1 .. n + 1 : c[i] = IF i <= n THEN list[i] ELSE m
    <3>1. PICK d \in Seq(Messages) : d = <<m>> /\ Len(d) = 1 /\ d[1] = m
      <4>1. <<m>> \in Seq(Messages) /\ Len(<<m>>) = 1 /\ <<m>>[1] = m
        OBVIOUS
      <4> QED
        BY <4>1
    <3>2. PICK c : c = a \o d
      OBVIOUS
    <3>3. /\ c \in Seq(Messages) /\ Len(c) = Len(a) + Len(d)
          /\ \A i \in 1 .. Len(c) : c[i] = IF i <= Len(a) THEN a[i] ELSE d[i - Len(a)]
      BY <2>1, <3>1, <3>2, Concatenated
    <3>4. \A i \in 1 .. n + 1 : ~ i <= n => i - n = 1
      BY <1>2
    <3>5. \A i \in 1 .. n + 1 : c[i] = IF i <= n THEN list[i] ELSE m
      BY <1>2, <2>1, <3>1, <3>3, <3>4
    <3> QED
      BY <2>1, <2>3, <3>1, <3>2, <3>3, <3>5
  <2>5. k \in Seq(Messages) /\ Len(k) = n + 1 + (Len(list) - n)
        /\ \A i \in 1 .. Len(k) : k[i] = IF i <= n + 1 THEN c[i] ELSE b[i - (n + 1)]
    <3>1. /\ k \in Seq(Messages) /\ Len(k) = Len(c) + Len(b)
          /\ \A i \in 1 .. Len(k) : k[i] = IF i <= Len(c) THEN c[i] ELSE b[i - Len(c)]
      <4>1. b \in Seq(Messages) /\ c \in Seq(Messages) /\ k = c \o b
        BY <2>2, <2>4
      <4> QED
        BY <4>1, Concatenated
    <3> QED
      BY <2>2, <2>4, <3>1
  <2>6. Len(k) = Len(list) + 1
    BY <1>2, <2>5
  <2>7. ASSUME NEW i \in 1 .. Len(k)
        PROVE  k[i] = IF i <= n THEN list[i] ELSE IF i = n + 1 THEN m ELSE list[i - 1]
    <3>1. CASE i <= n + 1
      BY SMTT(60), <1>2, <2>4, <2>5, <3>1
    <3>2. CASE ~ i <= n + 1
      <4>1. i - (n + 1) \in 1 .. (Len(list) - n) /\ n + (i - (n + 1)) = i - 1
        BY <1>2, <2>6, <3>2
      <4>2. b[i - (n + 1)] = list[i - 1]
        BY <2>2, <4>1
      <4>3. ~ i <= n /\ i # n + 1
        BY <1>2, <3>2
      <4> QED
        BY <2>5, <3>2, <4>2, <4>3
    <3> QED BY <3>1, <3>2
  <2> QED
    BY <2>5, <2>6, <2>7
<1>6. \A i \in 1 .. Len(k) :
        \/ i <= n /\ i \in 1 .. Len(list) /\ k[i] = list[i]
        \/ i = n + 1 /\ k[i] = m
        \/ i > n + 1 /\ i - 1 \in 1 .. Len(list) /\ k[i] = list[i - 1]
  <2> TAKE i \in 1 .. Len(k)
  <2>1. (i <= n => i \in 1 .. Len(list)) /\ (i > n + 1 => i - 1 \in 1 .. Len(list) /\ ~ i <= n)
    BY <1>2, <1>5
  <2>2. k[i] = IF i <= n THEN list[i] ELSE IF i = n + 1 THEN m ELSE list[i - 1]
    BY <1>5
  <2> QED
    BY <1>2, <2>1, <2>2
<1>7. /\ R[m] = at
      /\ \A i \in 1 .. Len(list) : R[list[i]] = received[list[i]] /\ R[list[i]] \in Nat
      /\ \A i \in 1 .. Len(list) : i <= n => R[list[i]] < at
      /\ \A i \in 1 .. Len(list) : i > n => at < R[list[i]]
  BY <1>2
<1>8. ASSUME NEW i \in 1 .. Len(k), NEW j \in 1 .. Len(k), i < j
      PROVE  R[k[i]] < R[k[j]]
  <2>1. CASE i <= n
    <3>1. k[i] = list[i] /\ i \in 1 .. Len(list) /\ R[list[i]] < at
      BY <1>6, <1>7, <2>1, <1>2
    <3>2. CASE j <= n
      <4>1. k[j] = list[j] /\ j \in 1 .. Len(list)
        <5>1. ~ j = n + 1 /\ ~ j > n + 1
          BY <1>2, <3>2
        <5> QED
          BY <1>6, <5>1
      <4>2. received[list[i]] < received[list[j]]
        BY <1>8, <3>1, <4>1
      <4> QED
        BY <1>7, <3>1, <4>1, <4>2
    <3>3. CASE j = n + 1
      BY <1>6, <1>7, <3>1, <3>3, <1>2
    <3>4. CASE j > n + 1
      <4>1. k[j] = list[j - 1] /\ j - 1 \in 1 .. Len(list) /\ j - 1 > n
        BY SMTT(30), <1>6, <1>2, <3>4
      <4> QED
        BY SMTT(30), <1>7, <3>1, <4>1
    <3> QED BY <1>2, <3>2, <3>3, <3>4
  <2>2. CASE i = n + 1
    <3>1. k[j] = list[j - 1] /\ j - 1 \in 1 .. Len(list) /\ j - 1 > n /\ k[i] = m
      BY <1>6, <1>2, <1>8, <2>2
    <3> QED
      BY <1>7, <3>1
  <2>3. CASE i > n + 1
    <3>1. /\ k[j] = list[j - 1] /\ j - 1 \in 1 .. Len(list)
          /\ k[i] = list[i - 1] /\ i - 1 \in 1 .. Len(list) /\ i - 1 < j - 1
      BY <1>6, <1>2, <1>8, <2>3
    <3>2. received[list[i - 1]] < received[list[j - 1]]
      BY <3>1
    <3>3. R[list[i - 1]] = received[list[i - 1]] /\ R[list[j - 1]] = received[list[j - 1]]
      BY <1>7, <3>1
    <3> QED
      BY <3>1, <3>2, <3>3
  <2> QED BY <1>2, <2>1, <2>2, <2>3
<1>9. \A i \in 1 .. Len(k) : k[i] = m \/ \E j \in 1 .. Len(list) : k[i] = list[j]
  BY <1>6
<1> QED
  BY <1>3, <1>5, <1>8, <1>9

\* A message taken out leaves the others in order.
LEMMA OthersStay ==
  ASSUME file \in Seq(Messages), received \in [Messages -> Nat], FileInOrder,
         NEW m \in Messages, InFile(m)
  PROVE  LET w == Without(file, m)
         IN /\ w \in Seq(Messages)
            /\ \A i \in 1 .. Len(w) : w[i] # m /\ \E j \in 1 .. Len(file) : w[i] = file[j]
            /\ \A i, j \in 1 .. Len(w) : i < j => received[w[i]] < received[w[j]]
<1>1. PICK p : p = CHOOSE k \in 1 .. Len(file) : file[k] = m
  OBVIOUS
<1>2. p \in 1 .. Len(file) /\ file[p] = m
  BY <1>1 DEF InFile
<1>3. PICK w : w = Without(file, m)
  OBVIOUS
<1>4. w = SubSeq(file, 1, p - 1) \o SubSeq(file, p + 1, Len(file))
  BY <1>1, <1>3 DEF Without
<1>5. /\ w \in Seq(Messages) /\ Len(w) = Len(file) - 1
      /\ \A i \in 1 .. Len(w) : w[i] = IF i < p THEN file[i] ELSE file[i + 1]
  <2> DEFINE a == SubSeq(file, 1, p - 1)
             b == SubSeq(file, p + 1, Len(file))
  <2>1. a \in Seq(Messages) /\ Len(a) = p - 1 /\ \A i \in 1 .. p - 1 : a[i] = file[i]
    BY <1>2
  <2>2. b \in Seq(Messages) /\ Len(b) = Len(file) - p
        /\ \A i \in 1 .. (Len(file) - p) : b[i] = file[p + i]
    BY <1>2
  <2> HIDE DEF a, b
  <2>3. w = a \o b
    BY <1>4 DEF a, b
  <2>4. w \in Seq(Messages) /\ Len(w) = p - 1 + (Len(file) - p)
        /\ \A i \in 1 .. Len(w) : w[i] = IF i <= p - 1 THEN a[i] ELSE b[i - (p - 1)]
    <3>1. /\ w \in Seq(Messages) /\ Len(w) = Len(a) + Len(b)
          /\ \A i \in 1 .. Len(w) : w[i] = IF i <= Len(a) THEN a[i] ELSE b[i - Len(a)]
      BY <2>1, <2>2, <2>3, Concatenated
    <3> QED
      BY <2>1, <2>2, <3>1
  <2>5. Len(w) = Len(file) - 1
    BY <1>2, <2>4
  <2>6. ASSUME NEW i \in 1 .. Len(w) PROVE w[i] = IF i < p THEN file[i] ELSE file[i + 1]
    <3>1. CASE i < p
      BY <1>2, <2>1, <2>4, <3>1
    <3>2. CASE ~ i < p
      <4>1. i - (p - 1) \in 1 .. (Len(file) - p) /\ p + (i - (p - 1)) = i + 1 /\ ~ i <= p - 1
        BY <1>2, <2>5, <3>2
      <4> QED
        BY <1>2, <2>2, <2>4, <3>2, <4>1
    <3> QED BY <3>1, <3>2
  <2> QED
    BY <2>4, <2>5, <2>6
<1>6. \A i \in 1 .. Len(w) :
        \/ i < p /\ i \in 1 .. Len(file) /\ w[i] = file[i]
        \/ i >= p /\ i + 1 \in 1 .. Len(file) /\ w[i] = file[i + 1]
  BY SMTT(30), <1>2, <1>5
<1>7. \A i \in 1 .. Len(file) : received[file[i]] \in Nat /\ (i # p => file[i] # m)
  BY <1>2 DEF FileInOrder
<1>8. ASSUME NEW i \in 1 .. Len(w), NEW j \in 1 .. Len(w), i < j
      PROVE  received[w[i]] < received[w[j]]
  <2>1. PICK x \in 1 .. Len(file) : w[i] = file[x] /\ x = IF i < p THEN i ELSE i + 1
    <3>1. CASE i < p
      BY <1>2, <1>6, <3>1
    <3>2. CASE ~ i < p
      BY <1>2, <1>6, <3>2
    <3> QED BY <3>1, <3>2
  <2>2. PICK y \in 1 .. Len(file) : w[j] = file[y] /\ y = IF j < p THEN j ELSE j + 1
    <3>1. CASE j < p
      BY <1>2, <1>6, <3>1
    <3>2. CASE ~ j < p
      BY <1>2, <1>6, <3>2
    <3> QED BY <3>1, <3>2
  <2>3. x < y
    BY SMTT(30), <1>2, <1>8, <2>1, <2>2
  <2> QED
    BY <2>1, <2>2, <2>3 DEF FileInOrder
<1>9. \A i \in 1 .. Len(w) : w[i] # m /\ \E j \in 1 .. Len(file) : w[i] = file[j]
  <2> TAKE i \in 1 .. Len(w)
  <2>1. PICK x \in 1 .. Len(file) : w[i] = file[x] /\ x # p
    BY <1>2, <1>6
  <2> QED
    BY <1>7, <2>1
<1> QED
  BY <1>3, <1>5, <1>8, <1>9

\* A message is kept for the next bridge, or its person is told it was not.
OwnTime(m, list, at) ==
  /\ list \in Seq(Messages) /\ at \in Nat \ {0}
  /\ \A n \in Messages : n # m => received[n] # at
  /\ \A i \in 1 .. Len(list) : list[i] # m /\ turn[list[i]].at = "kept"
  /\ \A i, j \in 1 .. Len(list) : i < j => received[list[i]] < received[list[j]]

\* A turn that returns moves no other turn.
LEMMA TurnEnds ==
  ASSUME Typed, NEW m \in Messages, NEW result \in Results \cup {"delayed"}, Returns(m, result)
  PROVE  /\ turn' \in [Messages -> Turn] /\ turn'[m].at = result
         /\ \A n \in Messages : n # m => turn'[n] = turn[n]
<1>1. NoTurn \in Turn
  BY DEF NoTurn, Turn, Stages
<1>2. [NoTurn EXCEPT !.at = result] \in Turn /\ [NoTurn EXCEPT !.at = result].at = result
  BY <1>1 DEF Turn, Stages
<1> QED
  BY <1>2 DEF Returns, Typed

\* A message that is kept takes its place in the file, or is lost to a write that fails.
LEMMA Keeps ==
  ASSUME Typed, Stamped, NEW m \in Messages, NEW list, NEW at, OwnTime(m, list, at),
         Keep(m, list, at), received' = [received EXCEPT ![m] = at],
         clock' \in Nat, clock <= clock', at <= clock'
  PROVE  /\ turn' \in [Messages -> Turn] /\ turn'[m].at \in {"kept", "failed"}
         /\ \A n \in Messages : n # m => turn'[n] = turn[n]
         /\ file' \in Seq(Messages) /\ received' \in [Messages -> Nat]
         /\ FileIsKept' /\ FileInOrder' /\ Stamped'
<1>1. list \in Seq(Messages) /\ at \in Nat /\ at > 0
  BY DEF OwnTime
<1>2. received' \in [Messages -> Nat]
  BY <1>1 DEF Typed
<1>3. /\ received'[m] = at
      /\ \A n \in Messages : n # m => received'[n] = received[n]
  BY <1>1 DEF Typed
<1>4. Stamped' <=>
        \A n \in Messages : n # m /\ turn'[n].at \in Running \cup {"kept"} => received[n] > 0
  <2>1. \A n \in Messages : received'[n] <= clock'
    BY <1>1, <1>3 DEF Stamped, Typed
  <2>2. \A n, k \in Messages : received'[n] > 0 /\ received'[n] = received'[k] => n = k
    BY <1>3 DEF Stamped, OwnTime
  <2> QED
    BY <1>1, <1>3, <2>1, <2>2 DEF Stamped
<1>5. CASE file' = KeptIn(list, m, at) /\ Returns(m, "kept")
  <2>1. /\ turn' \in [Messages -> Turn] /\ turn'[m].at = "kept"
        /\ \A n \in Messages : n # m => turn'[n] = turn[n]
    BY <1>5, TurnEnds DEF Results
  <2>2. PICK k : k = KeptIn(list, m, at)
    OBVIOUS
  <2>3. /\ k \in Seq(Messages)
        /\ \A i \in 1 .. Len(k) : k[i] = m \/ \E j \in 1 .. Len(list) : k[i] = list[j]
        /\ \A i, j \in 1 .. Len(k) : i < j => received'[k[i]] < received'[k[j]]
    <3>1. /\ received \in [Messages -> Nat]
          /\ \A i \in 1 .. Len(list) : list[i] # m /\ received[list[i]] # at
          /\ \A i, j \in 1 .. Len(list) : i < j => received[list[i]] < received[list[j]]
      BY <1>1 DEF Typed, OwnTime
    <3>2. PICK R \in [Messages -> Nat] : R = [received EXCEPT ![m] = at] /\ R = received'
      BY <1>2
    <3>3. /\ KeptIn(list, m, at) \in Seq(Messages)
          /\ \A i \in 1 .. Len(KeptIn(list, m, at)) :
               KeptIn(list, m, at)[i] = m \/ \E j \in 1 .. Len(list) : KeptIn(list, m, at)[i] = list[j]
          /\ \A i, j \in 1 .. Len(KeptIn(list, m, at)) :
               i < j => R[KeptIn(list, m, at)[i]] < R[KeptIn(list, m, at)[j]]
      BY <1>1, <3>1, <3>2, KeptInOrder
    <3> QED
      BY <2>2, <3>2, <3>3
  <2>4. file' = k
    BY <1>5, <2>2
  <2>5. \A i \in 1 .. Len(k) : turn'[k[i]].at = "kept"
    <3> TAKE i \in 1 .. Len(k)
    <3>1. CASE k[i] = m
      BY <2>1, <3>1
    <3>2. CASE k[i] # m
      <4>1. PICK j \in 1 .. Len(list) : k[i] = list[j]
        BY <2>3, <3>2
      <4> QED
        BY <1>1, <2>1, <4>1 DEF OwnTime
    <3> QED BY <3>1, <3>2
  <2>6. Stamped'
    BY <1>4, <2>1 DEF Stamped
  <2> QED
    BY <1>2, <2>1, <2>3, <2>4, <2>5, <2>6 DEF FileIsKept, FileInOrder
<1>6. CASE file' = list /\ Returns(m, "failed")
  <2>1. /\ turn' \in [Messages -> Turn] /\ turn'[m].at = "failed"
        /\ \A n \in Messages : n # m => turn'[n] = turn[n]
    BY <1>6, TurnEnds DEF Results
  <2>2. Stamped'
    BY <1>4, <2>1 DEF Stamped
  <2>3. \A i \in 1 .. Len(list) : list[i] \in Messages /\ list[i] # m
    BY <1>1 DEF OwnTime
  <2>4. FileIsKept' /\ FileInOrder'
    BY <1>1, <1>3, <1>6, <2>1, <2>3 DEF OwnTime, FileIsKept, FileInOrder
  <2> QED
    BY <1>1, <1>2, <1>6, <2>1, <2>2, <2>4
<1> QED
  BY <1>5, <1>6 DEF Keep

\* A message is handled: its turn begins, or a bridge that is stopping keeps it.
LEMMA Handles ==
  ASSUME Typed, Stamped, NEW m \in Messages, NEW list, NEW at, OwnTime(m, list, at),
         NEW person \in BOOLEAN, NEW first \in BOOLEAN, Handle(m, list, at, person, first),
         clock' \in Nat, clock <= clock', at <= clock'
  PROVE  /\ turn' \in [Messages -> Turn] /\ turn'[m].at \in {"checking", "kept", "failed"}
         /\ \A n \in Messages : n # m => turn'[n] = turn[n]
         /\ file' \in Seq(Messages) /\ received' \in [Messages -> Nat]
         /\ FileIsKept' /\ FileInOrder' /\ Stamped'
<1>1. received' = [received EXCEPT ![m] = at]
  BY DEF Handle
<1>2. CASE stopping
  <2>1. Keep(m, list, at)
    BY <1>2 DEF Handle
  <2> QED
    BY <1>1, <2>1, Keeps
<1>3. CASE ~ stopping
  <2>1. /\ file' = list
        /\ turn' = [turn EXCEPT ![m] =
                      [NoTurn EXCEPT !.at = "checking", !.person = person, !.first = first]]
    BY <1>3 DEF Handle
  <2>2. PICK t : t = [NoTurn EXCEPT !.at = "checking", !.person = person, !.first = first]
    OBVIOUS
  <2>3. t \in Turn /\ t.at = "checking"
    BY <2>2 DEF Turn, NoTurn, Stages, Running
  <2>4. /\ turn' \in [Messages -> Turn] /\ turn'[m].at = "checking"
        /\ \A n \in Messages : n # m => turn'[n] = turn[n]
    BY <2>1, <2>2, <2>3 DEF Typed
  <2>5. list \in Seq(Messages) /\ at \in Nat /\ at > 0
    BY DEF OwnTime
  <2>6. /\ received' \in [Messages -> Nat] /\ received'[m] = at
        /\ \A n \in Messages : n # m => received'[n] = received[n]
    BY <1>1, <2>5 DEF Typed
  <2>7. \A i \in 1 .. Len(list) : list[i] \in Messages /\ list[i] # m
    BY <2>5 DEF OwnTime
  <2>8. FileIsKept' /\ FileInOrder'
    <3>1. \A i \in 1 .. Len(list) : turn'[list[i]].at = "kept"
      BY <2>4, <2>7 DEF OwnTime
    <3>2. \A i \in 1 .. Len(list) : received'[list[i]] = received[list[i]]
      BY <2>6, <2>7
    <3>3. \A i, j \in 1 .. Len(list) : i < j => received'[list[i]] < received'[list[j]]
      BY <3>2 DEF OwnTime
    <3> QED
      BY <2>1, <3>1, <3>3 DEF FileIsKept, FileInOrder
  <2>9. Stamped'
    <3>1. \A n \in Messages : received'[n] <= clock'
      <4> TAKE n \in Messages
      <4>1. received[n] \in Nat /\ received[n] <= clock /\ clock \in Nat
        BY DEF Stamped, Typed
      <4> QED
        BY <2>5, <2>6, <4>1
    <3>2. \A n, k \in Messages : received'[n] > 0 /\ received'[n] = received'[k] => n = k
      BY <2>6 DEF Stamped, OwnTime
    <3> QED
      BY <2>4, <2>5, <2>6, <3>1, <3>2 DEF Stamped
  <2> QED
    BY <2>1, <2>4, <2>5, <2>6, <2>8, <2>9
<1> QED BY <1>2, <1>3

-----------------------------------------------------------------------------
(* The steps.                                                              *)

\* The steps of a turn that leave its place and the file alone.
LEMMA TurnGoesOn ==
  ASSUME Inv, NEW m \in Messages,
         turn' \in [Messages -> Turn], \A n \in Messages : n # m => turn'[n] = turn[n],
         turn[m].at \in Running, turn'[m].at \in Running, HasPlace(m) <=> HasPlace(m)',
         turn[m].at = "placed" => MyTurn(m),
         holds' \in Messages \cup {None},
         UNCHANGED <<inOrder, places, waiting, received, clock, file>>
  PROVE  Inv'
<1>1. Typed'
  BY DEF Inv, Typed
<1>2. InLine'
  BY LineStays DEF Inv, HasPlace
<1>3. FileIsKept'
  <2> SUFFICES ASSUME NEW i \in 1 .. Len(file) PROVE turn'[file[i]].at = "kept"
    BY DEF FileIsKept
  <2>1. file[i] \in Messages /\ turn[file[i]].at = "kept"
    BY DEF Inv, Typed, FileIsKept
  <2> QED
    BY <2>1 DEF Running, Placed
<1>4. FileInOrder'
  BY DEF Inv, FileInOrder
<1>5. Stamped'
  BY DEF Inv, Stamped
<1> QED
  BY <1>1, <1>2, <1>3, <1>4, <1>5 DEF Inv

\* Taking a place keeps the invariant.
LEMMA TurnJoinsLine ==
  ASSUME Inv, NEW m \in Messages, turn[m].at \in Running, ~ HasPlace(m),
         TakesPlace(m), UNCHANGED <<waiting, received, clock, file>>
  PROVE  Inv'
<1>1. InLine' /\ turn' \in [Messages -> Turn]
  BY LastJoins DEF Inv
<1>2. turn'[m].at = "placed" /\ \A n \in Messages : n # m => turn'[n] = turn[n]
  BY DEF TakesPlace, Inv, Typed, Turn
<1>3. Typed'
  BY <1>1 DEF TakesPlace, Inv, Typed
<1>4. FileIsKept'
  <2> SUFFICES ASSUME NEW i \in 1 .. Len(file) PROVE turn'[file[i]].at = "kept"
    BY DEF FileIsKept
  <2>1. file[i] \in Messages /\ turn[file[i]].at = "kept"
    BY DEF Inv, Typed, FileIsKept
  <2> QED
    BY <1>2, <2>1 DEF Running, Placed
<1>5. FileInOrder'
  BY DEF Inv, FileInOrder
<1>6. Stamped'
  BY <1>2 DEF Inv, Stamped
<1> QED
  BY <1>1, <1>3, <1>4, <1>5, <1>6 DEF Inv

\* Leaving the line keeps the invariant.
LEMMA TurnLeavesLine ==
  ASSUME Inv, NEW m \in Messages, NEW result \in Results \cup {"delayed"}, result # "kept",
         turn[m].at \in Placed, Returns(m, result), Leaves(m),
         UNCHANGED <<waiting, received, clock, file>>
  PROVE  Inv'
<1>1. /\ turn' \in [Messages -> Turn] /\ turn'[m].at = result
      /\ \A n \in Messages : n # m => turn'[n] = turn[n]
  BY TurnEnds DEF Inv
<1>2. InLine'
  BY <1>1, FirstLeaves DEF Inv
<1>3. Typed'
  BY <1>1 DEF Leaves, Inv, Typed
<1>4. FileIsKept'
  <2> SUFFICES ASSUME NEW i \in 1 .. Len(file) PROVE turn'[file[i]].at = "kept"
    BY DEF FileIsKept
  <2>1. file[i] \in Messages /\ turn[file[i]].at = "kept"
    BY DEF Inv, Typed, FileIsKept
  <2> QED
    BY <1>1, <2>1 DEF Placed
<1>5. FileInOrder'
  BY DEF Inv, FileInOrder
<1>6. Stamped'
  <2>1. result \notin Running \cup {"kept"}
    BY DEF Results, Running, Placed
  <2> QED
    BY <1>1, <2>1 DEF Inv, Stamped
<1> QED
  BY <1>2, <1>3, <1>4, <1>5, <1>6 DEF Inv

\* A turn that has a place keeps its message as it leaves.
LEMMA KeptLeavesLine ==
  ASSUME Inv, NEW m \in Messages, turn[m].at \in Placed \/ MyTurn(m),
         Keep(m, file, received[m]), Leaves(m), UNCHANGED <<waiting, received, clock>>
  PROVE  Inv'
<1>1. turn[m].at \in Running
  BY DEF MyTurn, Is, Running
<1>2. OwnTime(m, file, received[m])
  <2>1. received[m] \in Nat /\ received[m] > 0
    BY <1>1 DEF Inv, Typed, Stamped
  <2>2. \A n \in Messages : n # m => received[n] # received[m]
    BY <2>1 DEF Inv, Stamped
  <2>3. turn[m].at # "kept"
    BY <1>1 DEF Running, Placed
  <2> QED
    BY <2>1, <2>2, <2>3 DEF OwnTime, Inv, Typed, FileIsKept, FileInOrder
<1>3. /\ received' = [received EXCEPT ![m] = received[m]]
      /\ clock' \in Nat /\ clock <= clock' /\ received[m] <= clock'
  BY DEF Inv, Typed, Stamped
<1>4. /\ turn' \in [Messages -> Turn] /\ turn'[m].at \in {"kept", "failed"}
      /\ \A n \in Messages : n # m => turn'[n] = turn[n]
      /\ file' \in Seq(Messages) /\ received' \in [Messages -> Nat]
      /\ FileIsKept' /\ FileInOrder' /\ Stamped'
  BY <1>2, <1>3, Keeps DEF Inv
<1>5. InLine'
  BY <1>4, FirstLeaves DEF Inv, Results
<1>6. Typed'
  BY <1>3, <1>4 DEF Leaves, Inv, Typed
<1> QED
  BY <1>4, <1>5, <1>6 DEF Inv

\* Of a message without a place, nothing the line speaks of.
LEMMA LineElsewhere ==
  ASSUME Inv, NEW m \in Messages, ~ HasPlace(m), ~ HasPlace(m)',
         \A n \in Messages : n # m => turn'[n] = turn[n],
         UNCHANGED <<inOrder, places>>
  PROVE  InLine'
BY LineStays DEF Inv, HasPlace

\* A message is handled as one that comes now.
LEMMA HandledNow ==
  ASSUME Inv, NEW m \in Messages, turn[m].at \in {"none", "batched", "delayed"},
         NEW person \in BOOLEAN, NEW first \in BOOLEAN,
         clock' = clock + 1, Handle(m, file, clock', person, first),
         waiting' \in Messages \cup {None}, UNCHANGED <<inOrder, places, holds>>
  PROVE  Inv'
<1>1. clock \in Nat /\ clock' \in Nat /\ clock <= clock' /\ clock' > 0
  BY DEF Inv, Typed
<1>2. OwnTime(m, file, clock')
  <2>1. \A n \in Messages : received[n] # clock'
    BY <1>1 DEF Inv, Stamped, Typed
  <2> QED
    BY <1>1, <2>1 DEF OwnTime, Inv, Typed, FileIsKept, FileInOrder
<1>3. /\ turn' \in [Messages -> Turn] /\ turn'[m].at \in {"checking", "kept", "failed"}
      /\ \A n \in Messages : n # m => turn'[n] = turn[n]
      /\ file' \in Seq(Messages) /\ received' \in [Messages -> Nat]
      /\ FileIsKept' /\ FileInOrder' /\ Stamped'
  <2>1. PICK at : at = clock'
    OBVIOUS
  <2>2. Handle(m, file, at, person, first) /\ OwnTime(m, file, at) /\ at <= clock'
    BY <1>1, <1>2, <2>1
  <2> QED
    BY <1>1, <2>2, Handles DEF Inv
<1>4. InLine'
  BY <1>3, LineElsewhere DEF HasPlace, Placed
<1>5. Typed'
  BY <1>1, <1>3 DEF Inv, Typed
<1> QED
  BY <1>3, <1>4, <1>5 DEF Inv

\* A message without a place returns, or waits.
LEMMA EndsElsewhere ==
  ASSUME Inv, NEW m \in Messages, ~ HasPlace(m), turn[m].at # "kept",
         turn' \in [Messages -> Turn], turn'[m].at \notin Running \cup {"kept"},
         \A n \in Messages : n # m => turn'[n] = turn[n],
         waiting' \in Messages \cup {None}, clock' \in Nat, clock <= clock',
         UNCHANGED <<inOrder, places, holds, received, file>>
  PROVE  Inv'
<1>1. Typed'
  BY DEF Inv, Typed
<1>2. InLine'
  BY LineElsewhere DEF HasPlace, Running
<1>3. FileIsKept'
  <2> SUFFICES ASSUME NEW i \in 1 .. Len(file) PROVE turn'[file[i]].at = "kept"
    BY DEF FileIsKept
  <2>1. file[i] \in Messages /\ turn[file[i]].at = "kept"
    BY DEF Inv, Typed, FileIsKept
  <2> QED
    BY <2>1
<1>4. FileInOrder'
  BY DEF Inv, FileInOrder
<1>5. Stamped'
  <2>1. \A n \in Messages : received[n] <= clock'
    <3> TAKE n \in Messages
    <3>1. received[n] \in Nat /\ received[n] <= clock /\ clock \in Nat
      BY DEF Inv, Stamped, Typed
    <3> QED
      BY <3>1
  <2> QED
    BY <2>1 DEF Inv, Stamped
<1> QED
  BY <1>1, <1>2, <1>3, <1>4, <1>5 DEF Inv

\* At first the line and the file are empty.
LEMMA InitKeepsInv ==
  Init => Inv
<1> SUFFICES ASSUME Init PROVE Inv
  OBVIOUS
<1>1. NoTurn \in Turn /\ NoTurn.at = "none"
  BY DEF NoTurn, Turn, Stages
<1>2. \A m \in Messages : turn[m] \in Turn /\ turn[m].at = "none"
  BY <1>1 DEF Init
<1>3. Typed
  BY <1>2 DEF Init, Typed
<1>4. InLine
  <2>1. \A m \in Messages : ~ HasPlace(m)
    BY <1>2 DEF HasPlace, Placed
  <2>2. <<>> \in Seq(Messages) /\ Line(<<>>)
    BY DEF Init, Line
  <2> QED
    BY <2>1, <2>2 DEF Init, InLine
<1>5. Stamped
  BY <1>2 DEF Init, Stamped, Running, Placed
<1> QED
  BY <1>3, <1>4, <1>5 DEF Init, Inv, FileIsKept, FileInOrder

\* The next bridge starts with no turns.
LEMMA NextBridgeKeepsInv ==
  ASSUME Inv, NextBridge
  PROVE  Inv'
<1>1. [NoTurn EXCEPT !.at = "lost"] \in Turn /\ [NoTurn EXCEPT !.at = "lost"].at = "lost"
  BY DEF NoTurn, Turn, Stages, Results
<1>2. /\ turn' \in [Messages -> Turn]
      /\ \A m \in Messages : turn'[m] = turn[m] \/ turn'[m].at = "lost"
      /\ \A m \in Messages : turn[m].at \in Running => turn'[m].at = "lost"
      /\ \A m \in Messages : turn[m].at = "kept" => turn'[m] = turn[m]
  BY <1>1 DEF NextBridge, Inv, Typed, Running, Placed
<1>3. Typed'
  BY <1>2 DEF NextBridge, kept, Inv, Typed
<1>4. InLine'
  <2>1. \A m \in Messages : ~ HasPlace(m)'
    BY <1>2 DEF HasPlace, Running, Placed
  <2>2. <<>> \in Seq(Messages) /\ Line(<<>>)'
    BY DEF NextBridge, Line
  <2> QED
    BY <2>1, <2>2 DEF NextBridge, InLine
<1>5. FileIsKept'
  <2>1. file' = file
    BY DEF NextBridge, kept
  <2>2. \A i \in 1 .. Len(file) : file[i] \in Messages /\ turn[file[i]].at = "kept"
    BY DEF Inv, Typed, FileIsKept
  <2> QED
    BY <1>2, <2>1, <2>2 DEF FileIsKept
<1>6. FileInOrder'
  BY DEF NextBridge, kept, Inv, FileInOrder
<1>7. Stamped'
  <2>1. \A m \in Messages : turn'[m].at \in Running \cup {"kept"} => turn[m].at \in Running \cup {"kept"}
    BY <1>2 DEF Running, Placed
  <2> QED
    BY <2>1 DEF NextBridge, kept, Inv, Stamped
<1> QED
  BY <1>3, <1>4, <1>5, <1>6, <1>7 DEF Inv

\* The steps that leave the turns and the file alone.
LEMMA OthersKeepInv ==
  ASSUME Inv, UNCHANGED <<turn, inOrder, places, holds, waiting, received, clock, file>>
  PROVE  Inv'
<1>1. Typed' /\ FileIsKept' /\ FileInOrder' /\ Stamped'
  BY DEF Inv, Typed, FileIsKept, FileInOrder, Stamped
<1>2. InLine'
  BY LineStays DEF Inv, HasPlace
<1> QED
  BY <1>1, <1>2 DEF Inv

\* What a replay takes out of the file it handles as received when it was.
LEMMA ReplayExpiresKeepsInv ==
  ASSUME Inv, NEW m, InFile(m), file' = Without(file, m), Returns(m, "expired"),
         UNCHANGED <<order, batch, received, clock>>
  PROVE  Inv'
<1>1. m \in Messages /\ turn[m].at = "kept"
  BY DEF InFile, Inv, Typed, FileIsKept
<1>2. PICK w : w = Without(file, m)
  OBVIOUS
<1>3. /\ w \in Seq(Messages)
      /\ \A i \in 1 .. Len(w) : w[i] # m /\ \E j \in 1 .. Len(file) : w[i] = file[j]
      /\ \A i, j \in 1 .. Len(w) : i < j => received[w[i]] < received[w[j]]
  <2>1. file \in Seq(Messages) /\ received \in [Messages -> Nat] /\ FileInOrder
    BY DEF Inv, Typed
  <2>2. LET v == Without(file, m)
        IN /\ v \in Seq(Messages)
           /\ \A i \in 1 .. Len(v) : v[i] # m /\ \E j \in 1 .. Len(file) : v[i] = file[j]
           /\ \A i, j \in 1 .. Len(v) : i < j => received[v[i]] < received[v[j]]
    BY <1>1, <2>1, OthersStay
  <2> QED
    BY <1>2, <2>2
<1>4. /\ turn' \in [Messages -> Turn] /\ turn'[m].at = "expired"
      /\ \A n \in Messages : n # m => turn'[n] = turn[n]
  BY <1>1, TurnEnds DEF Inv, Results
<1>5. Typed'
  BY <1>2, <1>3, <1>4 DEF order, batch, Inv, Typed
<1>6. InLine'
  BY <1>1, <1>4, LineElsewhere DEF order, HasPlace, Placed
<1>7. FileIsKept'
  <2>1. \A i \in 1 .. Len(w) : w[i] \in Messages /\ w[i] # m /\ turn[w[i]].at = "kept"
    BY <1>3 DEF Inv, FileIsKept
  <2> QED
    BY <1>2, <1>4, <2>1 DEF FileIsKept
<1>8. FileInOrder'
  BY <1>2, <1>3 DEF FileInOrder
<1>9. Stamped'
  BY <1>1, <1>4 DEF Inv, Stamped, Running, Placed
<1> QED
  BY <1>5, <1>6, <1>7, <1>8, <1>9 DEF Inv

\* A replay takes a message out of the file and handles it.
LEMMA ReplayTakesKeepsInv ==
  ASSUME Inv, NEW m, InFile(m), Handle(m, Without(file, m), received[m], FALSE, FALSE),
         UNCHANGED <<order, batch, clock>>
  PROVE  Inv'
<1>1. m \in Messages /\ turn[m].at = "kept"
  BY DEF InFile, Inv, Typed, FileIsKept
<1>2. PICK w : w = Without(file, m)
  OBVIOUS
<1>3. /\ w \in Seq(Messages)
      /\ \A i \in 1 .. Len(w) : w[i] # m /\ \E j \in 1 .. Len(file) : w[i] = file[j]
      /\ \A i, j \in 1 .. Len(w) : i < j => received[w[i]] < received[w[j]]
  <2>1. file \in Seq(Messages) /\ received \in [Messages -> Nat] /\ FileInOrder
    BY DEF Inv, Typed
  <2>2. LET v == Without(file, m)
        IN /\ v \in Seq(Messages)
           /\ \A i \in 1 .. Len(v) : v[i] # m /\ \E j \in 1 .. Len(file) : v[i] = file[j]
           /\ \A i, j \in 1 .. Len(v) : i < j => received[v[i]] < received[v[j]]
    BY <1>1, <2>1, OthersStay
  <2> QED
    BY <1>2, <2>2
<1>4. OwnTime(m, w, received[m])
  <2>1. received[m] \in Nat /\ received[m] > 0
    BY <1>1 DEF Inv, Typed, Stamped
  <2>2. \A n \in Messages : n # m => received[n] # received[m]
    BY <1>1, <2>1 DEF Inv, Stamped
  <2>3. \A i \in 1 .. Len(w) : w[i] # m /\ turn[w[i]].at = "kept"
    BY <1>3 DEF Inv, FileIsKept
  <2> QED
    BY <1>3, <2>1, <2>2, <2>3 DEF OwnTime
<1>5. /\ turn' \in [Messages -> Turn] /\ turn'[m].at \in {"checking", "kept", "failed"}
      /\ \A n \in Messages : n # m => turn'[n] = turn[n]
      /\ file' \in Seq(Messages) /\ received' \in [Messages -> Nat]
      /\ FileIsKept' /\ FileInOrder' /\ Stamped'
  <2>1. PICK at : at = received[m]
    OBVIOUS
  <2>2. Handle(m, w, at, FALSE, FALSE) /\ OwnTime(m, w, at)
    BY <1>2, <1>4, <2>1
  <2>3. clock' \in Nat /\ clock <= clock' /\ at <= clock'
    BY <1>1, <2>1 DEF Inv, Typed, Stamped
  <2> QED
    BY <1>1, <2>2, <2>3, Handles DEF Inv
<1>6. Typed'
  BY <1>5 DEF order, batch, Inv, Typed
<1>7. InLine'
  BY <1>1, <1>5, LineElsewhere DEF order, HasPlace, Placed
<1> QED
  BY <1>5, <1>6, <1>7 DEF Inv

\* What the steps change in a turn leaves it a turn.
LEMMA TurnChanges ==
  ASSUME NEW t \in Turn, NEW at \in Stages, NEW behind \in SUBSET Messages,
         NEW tries \in Nat, NEW why \in {"answered", "failed", "kept", "unsent"}
  PROVE  /\ [t EXCEPT !.at = at, !.why = why] \in Turn
         /\ [t EXCEPT !.at = at, !.tries = tries] \in Turn
         /\ [t EXCEPT !.at = at, !.tries = tries, !.behind = behind] \in Turn
         /\ [t EXCEPT !.at = at, !.over = TRUE] \in Turn
         /\ [t EXCEPT !.at = at, !.held = TRUE, !.behind = behind] \in Turn
         /\ [t EXCEPT !.at = at, !.why = why, !.held = FALSE, !.tries = 0] \in Turn
BY DEF Turn

\* A turn changed is the one that has its new stage.
LEMMA TurnChanged ==
  ASSUME NEW m \in Messages, turn \in [Messages -> Turn], NEW t \in Turn,
         turn' = [turn EXCEPT ![m] = t]
  PROVE  /\ turn' \in [Messages -> Turn] /\ turn'[m] = t
         /\ \A n \in Messages : n # m => turn'[n] = turn[n]
OBVIOUS

\* The steps of a turn keep the invariant.
LEMMA MessageStepKeepsInv ==
  ASSUME Inv, NEW m \in Messages, MessageStep(m)
  PROVE  Inv'
<1> turn \in [Messages -> Turn] /\ turn[m] \in Turn /\ holds \in Messages \cup {None}
  BY DEF Inv, Typed
<1> DEFINE Only(at) == /\ turn' \in [Messages -> Turn] /\ turn'[m].at = at
                       /\ \A n \in Messages : n # m => turn'[n] = turn[n]
<1>1. ASSUME NEW at \in Stages, Goes(m, at) PROVE Only(at)
  BY <1>1 DEF Goes, Turn
<1>2. CASE BatchRuns(m)
  BY <1>2, HandledNow DEF BatchRuns, Is, Closes, order, Inv, Typed
<1>3. CASE NoCredit(m)
  <2>1. Only("answered")
    BY <1>3, TurnEnds DEF NoCredit, Inv, Results
  <2>2. clock' \in Nat /\ clock <= clock'
    BY <1>3 DEF NoCredit, kept, Inv, Typed
  <2> QED
    BY <1>3, <2>1, <2>2, EndsElsewhere
       DEF NoCredit, Is, HasPlace, Running, Placed, order, batch, kept, Inv, Typed
<1>4. CASE TriesToJoin(m)
  <2>1. Only("preparing")
    BY <1>1, <1>4 DEF TriesToJoin, Stages, Running
  <2> QED
    BY <1>4, <2>1, TurnGoesOn DEF TriesToJoin, Is, HasPlace, Running, Placed, order, batch, kept
<1>5. CASE GetsInLine(m)
  BY <1>5, TurnJoinsLine DEF GetsInLine, HasPlace, Running, Placed, batch, kept
<1>6. CASE Joins(m)
  <2>1. Only("alongside")
    BY <1>1, <1>6 DEF Joins, Stages, Running
  <2> QED
    BY <1>6, <2>1, TurnGoesOn DEF Joins, Is, HasPlace, Running, Placed, order, batch, kept
<1>7. CASE AlongsideOver(m)
  <2>1. CASE Returns(m, "answered") /\ UNCHANGED order
    <3>1. Only("answered")
      BY <2>1, TurnEnds DEF Inv, Results
    <3>2. clock' \in Nat /\ clock <= clock'
      BY <1>7 DEF AlongsideOver, kept, Inv, Typed
    <3> QED
      BY <1>7, <2>1, <3>1, <3>2, EndsElsewhere
         DEF AlongsideOver, Is, HasPlace, Running, Placed, order, batch, kept, Inv, Typed
  <2>2. CASE TakesPlace(m)
    BY <1>7, <2>2, TurnJoinsLine DEF AlongsideOver, Is, HasPlace, Running, Placed, batch, kept
  <2> QED
    BY <1>7, <2>1, <2>2 DEF AlongsideOver
<1>8. CASE IsKept(m)
  BY <1>8, KeptLeavesLine DEF IsKept, batch
<1>9. CASE Starts(m)
  <2>1. Only("answering")
    BY <1>1, <1>9 DEF Starts, Stages, Running, Placed
  <2> QED
    BY <1>9, <2>1, TurnGoesOn DEF Starts, MyTurn, Is, HasPlace, Running, Placed, batch, kept
<1>10. CASE Prompts(m)
  <2>1. Only("prompting")
    BY <1>1, <1>10 DEF Prompts, Stages, Running, Placed
  <2> QED
    BY <1>10, <2>1, TurnGoesOn DEF Prompts, Is, HasPlace, Running, Placed, order, batch, kept
<1>11. ASSUME NEW at \in Placed, NEW why \in {"answered", "failed", "kept", "unsent"},
              GoesOn(m, at, why)
       PROVE  Only(at) /\ holds' \in Messages \cup {None} /\ UNCHANGED <<inOrder, places>>
  <2>1. at \in Stages
    BY DEF Stages, Running
  <2>2. PICK t \in Turn : t = [turn[m] EXCEPT !.at = at, !.why = why, !.held = FALSE, !.tries = 0]
    BY <2>1, TurnChanges
  <2>3. turn' = [turn EXCEPT ![m] = t] /\ t.at = at
    BY <1>11, <2>2 DEF GoesOn, Turn
  <2> QED
    BY <1>11, <2>3, TurnChanged DEF GoesOn, Unheld
<1>12. ASSUME Held(m)
       PROVE  Only("held") /\ holds' \in Messages \cup {None} /\ UNCHANGED <<inOrder, places>>
  <2>1. "held" \in Stages /\ {holds} \ {None} \in SUBSET Messages
    BY DEF Stages, Running, Placed
  <2>2. CASE turn[m].held
    BY <1>1, <1>12, <2>1, <2>2 DEF Held, order
  <2>3. CASE ~ turn[m].held
    <3>1. PICK t \in Turn : t = [turn[m] EXCEPT !.at = "held", !.held = TRUE, !.behind = {holds} \ {None}]
      BY <2>1, TurnChanges
    <3>2. turn' = [turn EXCEPT ![m] = t] /\ t.at = "held"
      BY <1>12, <2>3, <3>1 DEF Held, Turn
    <3> QED
      BY <1>12, <2>3, <3>2, TurnChanged DEF Held
  <2> QED BY <2>2, <2>3
<1>13. CASE PromptOver(m)
  <2>1. \E at \in {"closing", "startingOver", "held"} :
          Only(at) /\ holds' \in Messages \cup {None} /\ UNCHANGED <<inOrder, places>>
    <3>1. \/ GoesOn(m, "closing", "answered") \/ GoesOn(m, "closing", "kept")
          \/ Held(m) \/ GoesOn(m, "startingOver", "answered") \/ GoesOn(m, "closing", "failed")
      BY <1>13 DEF PromptOver
    <3>2. "closing" \in Placed /\ "startingOver" \in Placed
      BY DEF Placed
    <3> HIDE DEF Only
    <3> QED
      BY <1>11, <1>12, <3>1, <3>2
  <2> QED
    BY <1>13, <2>1, TurnGoesOn DEF PromptOver, Is, HasPlace, Running, Placed, batch, kept
<1>14. CASE TriesAgain(m)
  <2>1. "prompting" \in Stages /\ turn[m].tries + 1 \in Nat /\ {} \in SUBSET Messages
    BY DEF Stages, Running, Placed, Turn
  <2>2. PICK t \in Turn : t = [turn[m] EXCEPT !.at = "prompting", !.tries = turn[m].tries + 1, !.behind = {}]
    BY <2>1, TurnChanges
  <2>3. turn' = [turn EXCEPT ![m] = t] /\ t.at = "prompting"
    BY <1>14, <2>2 DEF TriesAgain, Turn
  <2>4. Only("prompting")
    BY <2>3, TurnChanged
  <2> QED
    BY <1>14, <2>4, TurnGoesOn
       DEF TriesAgain, NextHeld, Is, HasPlace, Running, Placed, order, batch, kept
<1>15. CASE GivesUp(m)
  <2>1. Only("closing") /\ holds' \in Messages \cup {None} /\ UNCHANGED <<inOrder, places>>
    BY <1>11, <1>15 DEF GivesUp, Placed
  <2> QED
    BY <1>15, <2>1, TurnGoesOn DEF GivesUp, NextHeld, Is, HasPlace, Running, Placed, batch, kept
<1>16. CASE StartsOver(m)
  <2>1. "prompting" \in Stages
    BY DEF Stages, Running, Placed
  <2>2. PICK t \in Turn : t = [turn[m] EXCEPT !.at = "prompting", !.over = TRUE]
    BY <2>1, TurnChanges
  <2>3. turn' = [turn EXCEPT ![m] = t] /\ t.at = "prompting"
    BY <1>16, <2>2 DEF StartsOver, Turn
  <2>4. Only("prompting")
    BY <2>3, TurnChanged
  <2> QED
    BY <1>16, <2>4, TurnGoesOn DEF StartsOver, Is, HasPlace, Running, Placed, order, batch, kept
<1>17. CASE ClosesKept(m)
  BY <1>17, KeptLeavesLine DEF ClosesKept, Is, Placed, batch
<1>18. CASE FollowsUp(m)
  <2>1. PICK next \in turn[m].tries + 1 .. Correction :
          turn' = [turn EXCEPT ![m].at = "following", ![m].tries = next]
    BY <1>18 DEF FollowsUp
  <2>2. "following" \in Stages /\ next \in Nat
    BY <2>1, DispatcherAssumption DEF Stages, Running, Placed, Turn, Correction
  <2>3. PICK t \in Turn : t = [turn[m] EXCEPT !.at = "following", !.tries = next]
    BY <2>2, TurnChanges
  <2>4. turn' = [turn EXCEPT ![m] = t] /\ t.at = "following"
    BY <2>1, <2>3 DEF Turn
  <2>5. Only("following")
    BY <2>4, TurnChanged
  <2> QED
    BY <1>18, <2>5, TurnGoesOn DEF FollowsUp, Is, HasPlace, Running, Placed, order, batch, kept
<1>19. CASE FollowUpOver(m)
  <2>1. PICK why \in {"answered", "failed", "kept", "unsent"} :
          turn' = [turn EXCEPT ![m].at = "closing", ![m].why = why]
    <3> DEFINE over == CASE turn[m].tries = Correction -> "failed"
                         [] call[m] = "answered" -> "answered"
                         [] turn[m].tries = Markup -> "unsent"
                         [] OTHER -> "failed"
    <3>1. turn' = [turn EXCEPT ![m].at = "closing", ![m].why = over]
      BY <1>19 DEF FollowUpOver
    <3>2. over \in {"answered", "failed", "kept", "unsent"}
      OBVIOUS
    <3> HIDE DEF over
    <3> QED
      BY <3>1, <3>2
  <2>2. "closing" \in Stages
    BY DEF Stages, Running, Placed
  <2>3. PICK t \in Turn : t = [turn[m] EXCEPT !.at = "closing", !.why = why]
    BY <2>2, TurnChanges
  <2>4. turn' = [turn EXCEPT ![m] = t] /\ t.at = "closing"
    BY <2>1, <2>3 DEF Turn
  <2>5. Only("closing")
    BY <2>4, TurnChanged
  <2> QED
    BY <1>19, <2>5, TurnGoesOn DEF FollowUpOver, Is, HasPlace, Running, Placed, order, batch, kept
<1>20. CASE Finishes(m)
  <2>1. PICK result \in {"answered", "failed"} : Returns(m, result)
    BY <1>20 DEF Finishes
  <2> QED
    BY <1>20, <2>1, TurnLeavesLine DEF Finishes, Is, Placed, Results, batch, kept
<1>21. CASE Delays(m)
  BY <1>21, TurnLeavesLine DEF Delays, Is, Placed, batch, kept
<1>22. CASE Retries(m)
  BY <1>22, HandledNow DEF Retries, Is, order, batch, Inv, Typed
<1> QED
  BY <1>2, <1>3, <1>4, <1>5, <1>6, <1>7, <1>8, <1>9, <1>10, <1>13, <1>14, <1>15, <1>16, <1>17,
     <1>18, <1>19, <1>20, <1>21, <1>22 DEF MessageStep

\* A message that comes in keeps the invariant.
LEMMA ArrivalKeepsInv ==
  ASSUME Inv, NEW m \in Messages, Receive(m) \/ Injected(m) \/ NoteWaits(m)
  PROVE  Inv'
<1> turn \in [Messages -> Turn] /\ turn[m] \in Turn /\ clock \in Nat
  BY DEF Inv, Typed
<1>1. CASE Receive(m)
  <2>1. PICK person \in BOOLEAN : Handle(m, file, clock', person, FALSE)
    BY <1>1 DEF Receive
  <2> QED
    BY <1>1, <2>1, HandledNow DEF Receive, Arrives, Is, order, batch, Inv, Typed
<1>2. CASE Injected(m)
  BY <1>2, HandledNow DEF Injected, Arrives, Is, order, batch, Inv, Typed
<1>3. CASE NoteWaits(m)
  <2>1. PICK at \in {"joined", "batched"}, behind \in SUBSET Messages :
          /\ turn' = [turn EXCEPT ![m].at = at, ![m].behind = behind]
          /\ waiting' \in Messages \cup {None}
    <3>1. CASE waiting # None
      <4>1. turn' = [turn EXCEPT ![m].at = "joined", ![m].behind = {waiting}] /\ waiting' = waiting
        BY <1>3, <3>1 DEF NoteWaits
      <4>2. {waiting} \in SUBSET Messages
        BY <3>1 DEF Inv, Typed
      <4>3. waiting' \in Messages \cup {None}
        BY <4>1 DEF Inv, Typed
      <4> QED
        BY <4>1, <4>2, <4>3
    <3>2. CASE waiting = None
      BY <1>3, <3>2 DEF NoteWaits, RunningNow
    <3> QED BY <3>1, <3>2
  <2>2. at \in Stages /\ at \notin Running \cup {"kept"}
    BY DEF Stages, Running, Placed
  <2>3. PICK t \in Turn : t = [turn[m] EXCEPT !.at = at, !.behind = behind]
    BY <2>2, TurnMoves
  <2>4. turn' = [turn EXCEPT ![m] = t] /\ t.at = at
    BY <2>1, <2>3 DEF Turn
  <2>5. /\ turn' \in [Messages -> Turn] /\ turn'[m].at = at
        /\ \A n \in Messages : n # m => turn'[n] = turn[n]
    BY <2>4, TurnChanged
  <2>6. clock' \in Nat /\ clock <= clock'
    BY <1>3 DEF NoteWaits, Arrives
  <2> QED
    BY <1>3, <2>1, <2>2, <2>5, <2>6, EndsElsewhere
       DEF NoteWaits, Arrives, Is, HasPlace, Placed, order
<1> QED BY <1>1, <1>2, <1>3

\* Every step keeps the invariant.
LEMMA NextKeepsInv ==
  Inv /\ [Next]_vars => Inv'
<1> SUFFICES ASSUME Inv, [Next]_vars PROVE Inv'
  OBVIOUS
<1>1. CASE UNCHANGED vars
  BY <1>1, OthersKeepInv DEF vars, order, batch, kept
<1>2. ASSUME NEW m \in Messages, Receive(m) \/ Injected(m) \/ NoteWaits(m) PROVE Inv'
  BY <1>2, ArrivalKeepsInv
<1>3. ASSUME NEW m \in Messages, MessageStep(m) PROVE Inv'
  BY <1>3, MessageStepKeepsInv
<1>4. ASSUME NEW m \in Messages, CallStep(m) PROVE Inv'
  BY <1>4, OthersKeepInv DEF CallStep, order, batch, kept
<1>5. ASSUME NEW r \in 1 .. MaxReplays, ReplayStep(r) PROVE Inv'
  <2>1. CASE ReplayStarts(r) \/ ReplayTells(r) \/ ReplayGoesOn(r) \/ ReplayEnds(r)
    BY <2>1, OthersKeepInv
       DEF ReplayStarts, ReplayTells, ReplayGoesOn, ReplayEnds, order, batch, kept
  <2>2. CASE ReplayExpires(r)
    <3>1. CASE UNCHANGED <<file, turn>>
      BY <2>2, <3>1, OthersKeepInv DEF ReplayExpires, order, batch
    <3>2. CASE InFile(Front(r)) /\ file' = Without(file, Front(r)) /\ Returns(Front(r), "expired")
      BY <2>2, <3>2, ReplayExpiresKeepsInv DEF ReplayExpires
    <3> QED
      BY <2>2, <3>1, <3>2 DEF ReplayExpires, Takes
  <2>3. CASE ReplayTakes(r)
    <3>1. CASE UNCHANGED <<file, turn, received>>
      BY <2>3, <3>1, OthersKeepInv DEF ReplayTakes, order, batch
    <3>2. CASE InFile(Front(r)) /\ Handle(Front(r), Without(file, Front(r)), received[Front(r)], FALSE, FALSE)
      BY <2>3, <3>2, ReplayTakesKeepsInv DEF ReplayTakes
    <3> QED
      BY <2>3, <3>1, <3>2 DEF ReplayTakes, Takes
  <2> QED
    BY <1>5, <2>1, <2>2, <2>3 DEF ReplayStep
<1>6. CASE StopBegins \/ Interrupts \/ StopEnds
  BY <1>6, OthersKeepInv DEF StopBegins, Interrupts, StopEnds, order, batch, kept
<1>7. CASE NextBridge
  BY <1>7, NextBridgeKeepsInv
<1> QED
  BY <1>1, <1>2, <1>3, <1>4, <1>5, <1>6, <1>7 DEF Next

\* Every state the dispatcher can be in.
THEOREM Invariance ==
  Spec => []Inv
<1> QED
  BY InitKeepsInv, NextKeepsInv, PTL DEF Spec

\* One turn of a conversation at a time, whatever holds, restarts, stops, crashes and
\* joined work there are: runTurn()'s places.
THEOREM OneAtATime ==
  Spec => []OneTurnAtATime
<1>1. Inv => OneTurnAtATime
  BY LineIsOneAtATime DEF Inv
<1> QED
  BY <1>1, Invariance, PTL

\* The file is in the order the messages were received, each in it once: keep() and
\* take() of pending-messages.ts, whichever bridge or replay calls them.
THEOREM FileOrdered ==
  Spec => []FileInOrder
<1>1. Inv => FileInOrder
  BY DEF Inv
<1> QED
  BY <1>1, Invariance, PTL

-----------------------------------------------------------------------------
(* What is given to the assistant: a message that was answered is not      *)
(* given again, and a note that is reported with its batch was given with  *)
(* it.                                                                     *)

\* A turn whose message was not answered yet, as far as it goes.
Unanswered(m) ==
  \/ turn[m].at \in {"none", "batched", "checking", "preparing", "placed", "answering",
                     "held", "startingOver", "delayed", "kept"}
  \/ turn[m].at \in {"prompting", "alongside"} /\ call[m] # "answered"
  \/ turn[m].at = "closing" /\ turn[m].why = "kept"
  \/ turn[m].at = "closing" /\ turn[m].why = "failed" /\ turn[m].tries <= FollowUps
  \/ turn[m].at = "following" /\ turn[m].tries <= FollowUps

Fresh == \A m \in Messages : Unanswered(m) => notes[m] \cap answered = {}

InBatch(n, m) == Is(n, "joined") /\ turn[n].behind = {m}

\* The notes of a turn are its own message and those that joined its batch.
Shared ==
  /\ \A m \in Messages : m \in notes[m]
  /\ \A m \in Messages : ~ Is(m, "joined") =>
       \A n \in notes[m] : n = m \/ InBatch(n, m)

\* A batch that waits takes in every note that joined it, none of which was answered.
Batched ==
  /\ waiting # None => Is(waiting, "batched")
  /\ \A n, m \in Messages : InBatch(n, m) /\ ~ turn[m].at \in {"batched", "lost"} => n \in notes[m]
  /\ \A n, m \in Messages : InBatch(n, m) /\ Is(m, "batched") => n \notin answered

\* What the assistant was given of a turn, it was given with its notes.
Together ==
  /\ \A m \in Messages : turn[m].at \in {"none", "batched"} => m \notin seen
  /\ \A m \in Messages : ~ Is(m, "joined") /\ m \in seen => notes[m] \subseteq seen

\* The types of what these proofs speak of, beside those of the turns.
GivenTyped ==
  /\ call \in [Messages -> Calls!Over \cup Calls!Calling]
  /\ notes \in [Messages -> SUBSET Messages]
  /\ seen \subseteq Messages /\ answered \subseteq Messages

GivenInv == GivenTyped /\ Fresh /\ Shared /\ Batched /\ Together

NotYet == {"none", "batched", "joined"}

-----------------------------------------------------------------------------
\* Two turns share no note.
LEMMA NotesApart ==
  ASSUME Shared, NEW m \in Messages, NEW n \in Messages, m # n,
         ~ Is(m, "joined"), ~ Is(n, "joined")
  PROVE  notes[m] \cap notes[n] = {}
BY DEF Shared, InBatch, Is

\* The calls keep their types.
LEMMA CallTyped ==
  ASSUME call \in [Messages -> Calls!Over \cup Calls!Calling], NEW m \in Messages,
         NEW at \in Calls!Over \cup Calls!Calling, call' = [call EXCEPT ![m] = at]
  PROVE  /\ call' \in [Messages -> Calls!Over \cup Calls!Calling] /\ call'[m] = at
         /\ \A n \in Messages : n # m => call'[n] = call[n]
OBVIOUS

\* The step of one turn: it goes on, and what it is answered is its own.
LEMMA TurnKeepsGiven ==
  ASSUME Typed, GivenInv, GivenTyped', NEW m \in Messages,
         \A n \in Messages : n # m => turn'[n] = turn[n] /\ call'[n] = call[n],
         UNCHANGED <<waiting, notes>>,
         \/ turn'[m] = turn[m]
         \/ turn[m].at \notin {"batched", "joined", "lost"} /\ turn'[m].at \notin NotYet,
         \/ answered' \subseteq answered
         \/ answered' \subseteq answered \cup notes[m] /\ turn[m].at \notin NotYet,
         \/ seen' = seen
         \/ seen' = seen \cup notes[m] /\ turn[m].at \notin NotYet,
         Unanswered(m)' => notes[m] \cap answered' = {}
  PROVE  GivenInv'
<1>1. \A n \in Messages : Is(n, "joined")' <=> Is(n, "joined")
  BY DEF Is, NotYet
<1>2. \A n, k \in Messages : InBatch(n, k)' <=> InBatch(n, k)
  <2> TAKE n, k \in Messages
  <2>1. CASE n # m
    BY <2>1 DEF InBatch, Is
  <2>2. CASE n = m
    BY <2>2 DEF InBatch, Is, NotYet
  <2> QED BY <2>1, <2>2
<1>3. Fresh'
  <2> SUFFICES ASSUME NEW n \in Messages, Unanswered(n)' PROVE notes[n] \cap answered' = {}
    BY DEF Fresh
  <2>1. CASE n = m
    BY <2>1
  <2>2. CASE n # m
    <3>1. Unanswered(n) /\ notes[n] \cap answered = {}
      BY <2>2 DEF Unanswered, GivenInv, Fresh
    <3>2. ~ Is(n, "joined")
      BY <3>1 DEF Unanswered, Is
    <3>3. turn[m].at \notin NotYet => notes[n] \cap notes[m] = {}
      BY <2>2, <3>2, NotesApart DEF GivenInv, Is, NotYet
    <3> QED
      BY <3>1, <3>3
  <2> QED BY <2>1, <2>2
<1>4. Shared'
  <2> SUFFICES ASSUME NEW n \in Messages
               PROVE  n \in notes[n] /\ (~ Is(n, "joined")' => \A k \in notes[n] : k = n \/ InBatch(k, n)')
    BY DEF Shared
  <2>1. n \in notes[n] /\ (~ Is(n, "joined") => \A k \in notes[n] : k = n \/ InBatch(k, n))
    BY DEF GivenInv, Shared
  <2>2. notes[n] \subseteq Messages
    BY DEF GivenInv, GivenTyped
  <2> QED
    BY <1>1, <1>2, <2>1, <2>2
<1>5. Batched'
  <2>1. waiting' # None => Is(waiting, "batched")'
    <3> SUFFICES ASSUME waiting # None PROVE turn'[waiting].at = "batched"
      BY DEF Is
    <3>1. turn[waiting].at = "batched" /\ waiting \in Messages
      BY DEF GivenInv, Batched, Is, Typed
    <3>2. waiting # m => turn'[waiting] = turn[waiting]
      BY <3>1
    <3>3. turn[m].at = "batched" => turn'[m] = turn[m]
      OBVIOUS
    <3> QED BY <3>1, <3>2, <3>3
  <2>2. ASSUME NEW n \in Messages, NEW k \in Messages, InBatch(n, k)',
               ~ turn'[k].at \in {"batched", "lost"}
        PROVE  n \in notes'[k]
    <3>1. ~ turn[k].at \in {"batched", "lost"}
      BY <2>2
    <3> QED
      BY <1>2, <2>2, <3>1 DEF GivenInv, Batched
  <2>3. ASSUME NEW n \in Messages, NEW k \in Messages, InBatch(n, k)', Is(k, "batched")'
        PROVE  n \notin answered'
    <3>1. InBatch(n, k) /\ turn[k].at = "batched" /\ turn[n].at = "joined"
      BY <1>2, <2>3 DEF InBatch, Is, NotYet
    <3>2. n \notin answered
      BY <3>1 DEF GivenInv, Batched, Is
    <3>3. ASSUME turn[m].at \notin NotYet PROVE n \notin notes[m]
      <4>1. n # m /\ k # m /\ ~ Is(m, "joined")
        BY <3>1, <3>3 DEF NotYet, Is
      <4>2. ~ InBatch(n, m)
        BY <3>1, <4>1 DEF InBatch
      <4> QED
        BY <4>1, <4>2 DEF GivenInv, Shared
    <3> QED
      BY <3>2, <3>3
  <2> QED
    BY <2>1, <2>2, <2>3 DEF Batched
<1>6. Together'
  <2>1. ASSUME NEW n \in Messages, turn'[n].at \in {"none", "batched"} PROVE n \notin seen'
    <3>1. turn[n].at \in {"none", "batched"} /\ n \notin seen /\ ~ Is(n, "joined")
      BY <2>1 DEF GivenInv, Together, NotYet, Is
    <3>2. turn[m].at \notin NotYet => n # m /\ ~ Is(m, "joined")
      BY <3>1 DEF NotYet, Is
    <3>3. turn[m].at \notin NotYet => n \notin notes[m]
      BY <3>1, <3>2 DEF GivenInv, Shared, InBatch
    <3> QED
      BY <3>1, <3>3
  <2>2. ASSUME NEW n \in Messages, ~ Is(n, "joined")', n \in seen'
        PROVE  notes[n] \subseteq seen'
    <3>1. ~ Is(n, "joined")
      BY <1>1, <2>2
    <3>2. CASE n \in seen
      BY <3>1, <3>2 DEF GivenInv, Together
    <3>3. CASE n \notin seen
      <4>1. n \in notes[m] /\ seen' = seen \cup notes[m] /\ ~ Is(m, "joined")
        BY <2>2, <3>3 DEF NotYet, Is
      <4>2. n = m
        BY <3>1, <4>1 DEF GivenInv, Shared, InBatch
      <4> QED
        BY <4>1, <4>2
    <3> QED BY <3>2, <3>3
  <2> QED
    BY <2>1, <2>2 DEF Together
<1> QED
  BY <1>3, <1>4, <1>5, <1>6 DEF GivenInv

\* The steps that only move a turn, with nothing that was answered before.
LEMMA MovesKeepGiven ==
  ASSUME Typed, GivenInv, NEW m \in Messages,
         \A n \in Messages : n # m => turn'[n] = turn[n],
         turn[m].at \notin {"batched", "joined", "lost"}, turn'[m].at \notin NotYet,
         UNCHANGED <<call, waiting, notes, seen, answered>>,
         Unanswered(m)' => Unanswered(m)
  PROVE  GivenInv'
<1>1. GivenTyped'
  BY DEF GivenInv, GivenTyped
<1>2. Unanswered(m)' => notes[m] \cap answered' = {}
  BY DEF GivenInv, Fresh
<1> QED
  BY <1>1, <1>2, TurnKeepsGiven

\* The steps that move the turn and call prompt() or are refused by it.
LEMMA CallsKeepGiven ==
  ASSUME Typed, GivenInv, NEW m \in Messages,
         \A n \in Messages : n # m => turn'[n] = turn[n],
         turn[m].at \notin {"batched", "joined", "lost"}, turn'[m].at \notin NotYet,
         NEW opens, Calling(m, opens), answered' \subseteq answered,
         UNCHANGED <<waiting, notes, seen>>,
         Unanswered(m)' => notes[m] \cap answered' = {}
  PROVE  GivenInv'
<1>1. PICK at \in Calls!Over \cup Calls!Calling : call' = [call EXCEPT ![m] = at]
  BY DEF Calling, Calls!Begin, Calls!RefusedAtOnce, Calls!Becomes, Calls!Over, Calls!Calling,
         Calls!Unsent, Calls!Refusals
<1>2. /\ call' \in [Messages -> Calls!Over \cup Calls!Calling]
      /\ \A n \in Messages : n # m => call'[n] = call[n]
  BY <1>1, CallTyped DEF GivenInv, GivenTyped
<1>3. GivenTyped'
  BY <1>2 DEF GivenInv, GivenTyped
<1> QED
  BY <1>2, <1>3, TurnKeepsGiven

\* handleMessage, of one message.
LEMMA HandledTurn ==
  ASSUME Typed, NEW m \in Messages, NEW list, NEW at, NEW person \in BOOLEAN,
         NEW first \in BOOLEAN, Handle(m, list, at, person, first)
  PROVE  /\ turn'[m].at \in {"checking", "kept", "failed"}
         /\ \A n \in Messages : n # m => turn'[n] = turn[n]
<1>1. CASE stopping
  <2>1. Returns(m, "kept") \/ Returns(m, "failed")
    BY <1>1 DEF Handle, Keep
  <2> QED
    BY <2>1, TurnEnds DEF Results
<1>2. CASE ~ stopping
  <2>1. turn' = [turn EXCEPT ![m] =
                   [NoTurn EXCEPT !.at = "checking", !.person = person, !.first = first]]
    BY <1>2 DEF Handle
  <2> QED
    BY <2>1 DEF Typed, NoTurn
<1> QED BY <1>1, <1>2

\* A message that is handled is checked, kept or fails, and was not answered before.
LEMMA HandledKeepsGiven ==
  ASSUME Typed, GivenInv, NEW m \in Messages, turn[m].at \in {"none", "kept", "delayed"},
         NEW list, NEW at, NEW person \in BOOLEAN,
         NEW first \in BOOLEAN, Handle(m, list, at, person, first),
         UNCHANGED <<call, waiting, notes, seen, answered>>
  PROVE  GivenInv'
<1>1. /\ turn'[m].at \in {"checking", "kept", "failed"}
      /\ \A n \in Messages : n # m => turn'[n] = turn[n]
  BY HandledTurn
<1>2. Unanswered(m)
  BY DEF Unanswered
<1>3. turn'[m].at \notin NotYet
  BY <1>1 DEF NotYet
<1> QED
  BY <1>1, <1>2, <1>3, MovesKeepGiven

\* A turn that returns: only what was not answered is kept or delayed.
LEMMA ReturnsKeepsGiven ==
  ASSUME Typed, GivenInv, NEW m \in Messages, NEW result \in Results \cup {"delayed"},
         Returns(m, result), turn[m].at \notin {"batched", "joined", "lost"},
         result \in {"kept", "delayed"} => Unanswered(m),
         UNCHANGED <<call, waiting, notes, seen, answered>>
  PROVE  GivenInv'
<1>1. turn'[m].at = result /\ \A n \in Messages : n # m => turn'[n] = turn[n]
  BY TurnEnds
<1>2. turn'[m].at \notin NotYet
  BY <1>1 DEF NotYet, Results
<1>3. Unanswered(m)' => Unanswered(m)
  BY <1>1 DEF Unanswered, Results
<1> QED
  BY <1>1, <1>2, <1>3, MovesKeepGiven

\* The batch runs: its notes are the message of the batch and those that joined it.
LEMMA BatchKeepsGiven ==
  ASSUME Typed, GivenInv, NEW m \in Messages, BatchRuns(m)
  PROVE  GivenInv'
<1>1. /\ turn[m].at = "batched" /\ turn'[m].at \in {"checking", "kept", "failed"}
      /\ \A n \in Messages : n # m => turn'[n] = turn[n]
  BY HandledTurn DEF BatchRuns, Is
<1>2. notes' = [notes EXCEPT ![m] = {m} \cup {n \in Messages : InBatch(n, m)}]
  BY DEF BatchRuns, InBatch
<1>3. /\ notes'[m] = {m} \cup {n \in Messages : InBatch(n, m)}
      /\ \A n \in Messages : n # m => notes'[n] = notes[n]
  BY <1>2 DEF GivenInv, GivenTyped
<1>4. waiting' = (IF waiting = m THEN None ELSE waiting) /\ UNCHANGED <<call, seen, answered>>
  BY DEF BatchRuns, Closes, given
<1>5. \A n, k \in Messages : InBatch(n, k)' <=> InBatch(n, k)
  BY <1>1 DEF InBatch, Is
<1>6. GivenTyped'
  BY <1>2, <1>4 DEF GivenInv, GivenTyped
<1>7. Fresh'
  <2> SUFFICES ASSUME NEW n \in Messages, Unanswered(n)' PROVE notes'[n] \cap answered = {}
    BY <1>4 DEF Fresh
  <2>1. CASE n = m
    <3>1. m \notin answered
      <4>1. Unanswered(m)
        BY <1>1 DEF Unanswered
      <4> QED
        BY <4>1 DEF GivenInv, Fresh, Shared
    <3>2. \A k \in Messages : InBatch(k, m) => k \notin answered
      BY <1>1 DEF GivenInv, Batched, Is
    <3> QED
      BY <1>3, <2>1, <3>1, <3>2
  <2>2. CASE n # m
    <3>1. Unanswered(n)
      BY <1>1, <1>4, <2>2 DEF Unanswered
    <3> QED
      BY <1>3, <2>2, <3>1 DEF GivenInv, Fresh
  <2> QED BY <2>1, <2>2
<1>8. Shared'
  <2> SUFFICES ASSUME NEW n \in Messages
               PROVE  n \in notes'[n] /\ (~ Is(n, "joined")' => \A k \in notes'[n] : k = n \/ InBatch(k, n)')
    BY DEF Shared
  <2>1. CASE n = m
    BY <1>3, <1>5, <2>1
  <2>2. CASE n # m
    <3>1. n \in notes[n] /\ (~ Is(n, "joined") => \A k \in notes[n] : k = n \/ InBatch(k, n))
      BY DEF GivenInv, Shared
    <3>2. notes[n] \subseteq Messages /\ turn'[n] = turn[n] /\ notes'[n] = notes[n]
      BY <1>1, <1>3, <2>2 DEF GivenInv, GivenTyped
    <3> QED
      BY <1>5, <3>1, <3>2 DEF Is
  <2> QED BY <2>1, <2>2
<1>9. Batched'
  <2>1. waiting' # None => Is(waiting, "batched")'
    <3> SUFFICES ASSUME waiting' # None PROVE turn'[waiting'].at = "batched"
      BY DEF Is
    <3>1. waiting' = waiting /\ waiting # m /\ waiting # None
      BY <1>4
    <3> QED
      BY <1>1, <3>1 DEF GivenInv, Batched, Is, Typed
  <2>2. ASSUME NEW n \in Messages, NEW k \in Messages, InBatch(n, k)',
               ~ turn'[k].at \in {"batched", "lost"}
        PROVE  n \in notes'[k]
    <3>1. InBatch(n, k)
      BY <1>5, <2>2
    <3>2. CASE k = m
      BY <1>3, <3>1, <3>2
    <3>3. CASE k # m
      <4>1. turn'[k] = turn[k] /\ notes'[k] = notes[k]
        BY <1>1, <1>3, <3>3
      <4> QED
        BY <2>2, <3>1, <4>1 DEF GivenInv, Batched
    <3> QED BY <3>2, <3>3
  <2>3. ASSUME NEW n \in Messages, NEW k \in Messages, InBatch(n, k)', Is(k, "batched")'
        PROVE  n \notin answered'
    BY <1>1, <1>4, <1>5, <2>3 DEF GivenInv, Batched, Is
  <2> QED
    BY <2>1, <2>2, <2>3 DEF Batched
<1>10. Together'
  <2>1. ASSUME NEW n \in Messages, turn'[n].at \in {"none", "batched"} PROVE n \notin seen'
    BY <1>1, <1>4, <2>1 DEF GivenInv, Together
  <2>2. ASSUME NEW n \in Messages, ~ Is(n, "joined")', n \in seen'
        PROVE  notes'[n] \subseteq seen'
    <3>1. n # m
      BY <1>1, <1>4, <2>2 DEF GivenInv, Together
    <3> QED
      BY <1>1, <1>3, <1>4, <2>2, <3>1 DEF GivenInv, Together, Is
  <2> QED
    BY <2>1, <2>2 DEF Together
<1> QED
  BY <1>6, <1>7, <1>8, <1>9, <1>10 DEF GivenInv

\* A note that arrives while a batch waits, or opens one.
LEMMA NoteKeepsGiven ==
  ASSUME Typed, GivenInv, NEW m \in Messages, NoteWaits(m)
  PROVE  GivenInv'
<1>1. turn[m].at = "none" /\ m \notin answered /\ m \notin seen
  <2>1. turn[m].at = "none"
    BY DEF NoteWaits, Arrives, Is
  <2> QED
    BY <2>1 DEF GivenInv, Fresh, Unanswered, Shared, Together
<1>2. UNCHANGED <<call, notes, seen, answered>>
  BY DEF NoteWaits, given
<1>3. /\ turn'[m].at = IF waiting # None THEN "joined" ELSE "batched"
      /\ waiting # None => turn'[m].behind = {waiting}
      /\ \A n \in Messages : n # m => turn'[n] = turn[n]
      /\ waiting' = IF waiting # None THEN waiting ELSE m
  BY DEF NoteWaits, Typed, Turn
<1>4. waiting # None => waiting \in Messages /\ waiting # m /\ turn[waiting].at = "batched"
  BY <1>1 DEF Typed, GivenInv, Batched, Is
<1>5. \A n, k \in Messages : n # m => (InBatch(n, k)' <=> InBatch(n, k))
  BY <1>3 DEF InBatch, Is
<1>6. GivenTyped'
  BY <1>2 DEF GivenInv, GivenTyped
<1>7. \A n, k \in Messages : InBatch(n, k) => InBatch(n, k)'
  BY <1>1, <1>3 DEF InBatch, Is
<1>8. Fresh'
  <2> SUFFICES ASSUME NEW n \in Messages, Unanswered(n)' PROVE notes[n] \cap answered = {}
    BY <1>2 DEF Fresh
  <2>1. Unanswered(n)
    BY <1>1, <1>2, <1>3 DEF Unanswered
  <2> QED
    BY <2>1 DEF GivenInv, Fresh
<1>9. Shared'
  <2> SUFFICES ASSUME NEW n \in Messages
               PROVE  n \in notes[n] /\ (~ Is(n, "joined")' => \A k \in notes[n] : k = n \/ InBatch(k, n)')
    BY <1>2 DEF Shared
  <2>1. n \in notes[n] /\ (~ Is(n, "joined") => \A k \in notes[n] : k = n \/ InBatch(k, n))
    BY DEF GivenInv, Shared
  <2>2. notes[n] \subseteq Messages
    BY DEF GivenInv, GivenTyped
  <2>3. ~ Is(n, "joined")' => ~ Is(n, "joined")
    BY <1>1, <1>3 DEF Is
  <2> QED
    BY <1>7, <2>1, <2>2, <2>3
<1>10. Batched'
  <2>1. waiting' # None => Is(waiting, "batched")'
    BY <1>3, <1>4 DEF Is
  <2>2. ASSUME NEW n \in Messages, NEW k \in Messages, InBatch(n, k)',
               ~ turn'[k].at \in {"batched", "lost"}
        PROVE  n \in notes'[k]
    <3>1. CASE n = m
      BY <1>3, <1>4, <2>2, <3>1 DEF InBatch, Is
    <3>2. CASE n # m
      <4>1. InBatch(n, k) /\ ~ turn[k].at \in {"batched", "lost"}
        BY <1>1, <1>3, <1>5, <2>2, <3>2
      <4> QED
        BY <1>2, <4>1 DEF GivenInv, Batched
    <3> QED BY <3>1, <3>2
  <2>3. ASSUME NEW n \in Messages, NEW k \in Messages, InBatch(n, k)', Is(k, "batched")'
        PROVE  n \notin answered'
    <3>1. CASE n = m
      BY <1>1, <1>2, <3>1
    <3>2. CASE n # m /\ k = m
      <4>1. InBatch(n, m) /\ ~ turn[m].at \in {"batched", "lost"}
        BY <1>1, <1>5, <2>3, <3>2
      <4>2. n \in notes[m]
        BY <4>1 DEF GivenInv, Batched
      <4>3. notes[m] \cap answered = {}
        BY <1>1 DEF GivenInv, Fresh, Unanswered
      <4> QED
        BY <1>2, <4>2, <4>3
    <3>3. CASE n # m /\ k # m
      BY <1>2, <1>3, <1>5, <2>3, <3>3 DEF GivenInv, Batched, Is
    <3> QED BY <3>1, <3>2, <3>3
  <2> QED
    BY <2>1, <2>2, <2>3 DEF Batched
<1>11. Together'
  <2>1. ASSUME NEW n \in Messages, turn'[n].at \in {"none", "batched"} PROVE n \notin seen'
    BY <1>1, <1>2, <1>3, <2>1 DEF GivenInv, Together
  <2>2. ASSUME NEW n \in Messages, ~ Is(n, "joined")', n \in seen'
        PROVE  notes'[n] \subseteq seen'
    BY <1>1, <1>2, <1>3, <2>2 DEF GivenInv, Together, Is
  <2> QED
    BY <2>1, <2>2 DEF Together
<1> QED
  BY <1>6, <1>8, <1>9, <1>10, <1>11 DEF GivenInv

\* A crash or a stop: the turns of the bridge are lost.
LEMMA NextBridgeKeepsGiven ==
  ASSUME Typed, GivenInv, NextBridge
  PROVE  GivenInv'
<1>1. /\ call' = [m \in Messages |-> IF call[m] \in Calls!Calling THEN "lost" ELSE call[m]]
      /\ waiting' = None /\ UNCHANGED <<notes, seen, answered>>
  BY DEF NextBridge, Calls!BridgeGone, given
<1>2. \A m \in Messages :
        \/ turn'[m] = turn[m] /\ turn[m].at \notin Running \cup {"batched", "delayed"}
        \/ turn'[m].at = "lost" /\ turn[m].at \in Running \cup {"batched", "delayed"}
  BY DEF NextBridge, NoTurn
<1>3. GivenTyped'
  <2>1. \A m \in Messages : call'[m] \in Calls!Over \cup Calls!Calling
    BY <1>1 DEF GivenInv, GivenTyped, Calls!Over
  <2> QED
    BY <1>1, <2>1 DEF GivenInv, GivenTyped
<1>4. \A m, n \in Messages : InBatch(n, m)' <=> InBatch(n, m)
  <2>1. "joined" \notin Running \cup {"batched", "delayed"}
    BY DEF Running, Placed
  <2> QED
    BY <1>2, <2>1 DEF InBatch, Is
<1>5. \A m \in Messages : Is(m, "joined")' <=> Is(m, "joined")
  <2>1. "joined" \notin Running \cup {"batched", "delayed"}
    BY DEF Running, Placed
  <2> QED
    BY <1>2, <2>1 DEF Is
<1>6. Fresh'
  <2> SUFFICES ASSUME NEW n \in Messages, Unanswered(n)' PROVE notes[n] \cap answered = {}
    BY <1>1 DEF Fresh
  <2>1. turn'[n] = turn[n] /\ turn[n].at \notin Running
    BY <1>2 DEF Unanswered
  <2>2. turn[n].at \in {"none", "kept"} \/ turn[n].at \in {"batched", "delayed"}
    BY <2>1 DEF Unanswered, Running, Placed
  <2>3. Unanswered(n)
    BY <2>2 DEF Unanswered
  <2> QED
    BY <2>3 DEF GivenInv, Fresh
<1>7. Shared'
  BY <1>1, <1>4, <1>5 DEF GivenInv, GivenTyped, Shared
<1>8. Batched'
  <2>1. ASSUME NEW n \in Messages, NEW k \in Messages, InBatch(n, k)',
               ~ turn'[k].at \in {"batched", "lost"}
        PROVE  n \in notes'[k]
    BY <1>1, <1>2, <1>4, <2>1 DEF GivenInv, Batched
  <2>2. ASSUME NEW n \in Messages, NEW k \in Messages, InBatch(n, k)', Is(k, "batched")'
        PROVE  n \notin answered'
    BY <1>1, <1>2, <1>4, <2>2 DEF GivenInv, Batched, Is
  <2> QED
    BY <1>1, <2>1, <2>2 DEF Batched
<1>9. Together'
  <2>1. ASSUME NEW n \in Messages, turn'[n].at \in {"none", "batched"} PROVE n \notin seen'
    BY <1>1, <1>2, <2>1 DEF GivenInv, Together
  <2>2. ASSUME NEW n \in Messages, ~ Is(n, "joined")', n \in seen'
        PROVE  notes'[n] \subseteq seen'
    BY <1>1, <1>5, <2>2 DEF GivenInv, Together
  <2> QED
    BY <2>1, <2>2 DEF Together
<1> QED
  BY <1>3, <1>6, <1>7, <1>8, <1>9 DEF GivenInv

\* The session manager's own steps.
LEMMA CallStepKeepsGiven ==
  ASSUME Typed, GivenInv, NEW m \in Messages, CallStep(m)
  PROVE  GivenInv'
<1> UNCHANGED <<turn, waiting, notes>>
  BY DEF CallStep, batch
<1> Carries(m) => turn[m].at \notin NotYet
  BY DEF Carries, NotYet
<1>1. ASSUME NEW at \in Calls!Over \cup Calls!Calling, call' = [call EXCEPT ![m] = at],
             call[m] # "answered",
             answered' = IF Carries(m) /\ at = "answered" THEN answered \cup notes[m] ELSE answered,
             seen' = seen \/ seen' = IF Carries(m) THEN seen \cup notes[m] ELSE seen
      PROVE  GivenInv'
  <2>1. /\ call' \in [Messages -> Calls!Over \cup Calls!Calling] /\ call'[m] = at
        /\ \A n \in Messages : n # m => call'[n] = call[n]
    BY <1>1, CallTyped DEF GivenInv, GivenTyped
  <2>2. GivenTyped'
    BY <1>1, <2>1 DEF GivenInv, GivenTyped
  <2>3. Unanswered(m)' => notes[m] \cap answered' = {}
    <3> SUFFICES ASSUME Unanswered(m)' PROVE notes[m] \cap answered' = {}
      OBVIOUS
    <3>1. Unanswered(m) /\ ~ (Carries(m) /\ at = "answered")
      BY <1>1, <2>1 DEF Unanswered, Carries
    <3> QED
      BY <1>1, <3>1 DEF GivenInv, Fresh
  <2>4. \/ answered' \subseteq answered
        \/ answered' \subseteq answered \cup notes[m] /\ turn[m].at \notin NotYet
    BY <1>1
  <2>5. seen' = seen \/ (seen' = seen \cup notes[m] /\ turn[m].at \notin NotYet)
    BY <1>1
  <2> QED
    BY <2>1, <2>2, <2>3, <2>4, <2>5, TurnKeepsGiven
<1>2. CASE /\ Calls!Send(m)
           /\ seen' = IF Carries(m) THEN seen \cup notes[m] ELSE seen
           /\ UNCHANGED answered
  <2>1. call' = [call EXCEPT ![m] = "sent"] /\ call[m] # "answered"
    BY <1>2 DEF Calls!Send, Calls!Becomes, Calls!Unsent
  <2> QED
    BY <1>1, <1>2, <2>1 DEF Calls!Calling
<1>3. CASE (\E error \in Calls!Refusals : Calls!Refused({m}, error)) /\ UNCHANGED given
  <2>1. PICK error \in Calls!Refusals : Calls!Refused({m}, error)
    BY <1>3
  <2>2. /\ error \in Calls!Over /\ error # "answered" /\ call[m] # "answered"
        /\ answered' = answered /\ seen' = seen
    BY <1>3, <2>1 DEF Calls!Refused, Calls!Unsent, Calls!Refusals, Calls!Over, given
  <2>3. call' = [call EXCEPT ![m] = error]
    BY <2>1 DEF Calls!Refused, GivenInv, GivenTyped
  <2> QED
    BY <1>1, <2>2, <2>3
<1>4. CASE /\ \E ending \in Calls!Endings : Calls!Ends(m, ending)
           /\ answered' = IF Carries(m) /\ call'[m] = "answered" THEN answered \cup notes[m] ELSE answered
           /\ UNCHANGED seen
  <2>1. PICK ending \in Calls!Endings : Calls!Ends(m, ending)
    BY <1>4
  <2>2. /\ ending \in Calls!Over /\ call[m] # "answered"
        /\ call' = [call EXCEPT ![m] = ending]
    BY <2>1 DEF Calls!Ends, Calls!Becomes, Calls!Over
  <2>3. call'[m] = ending
    BY <2>2 DEF GivenInv, GivenTyped
  <2> QED
    BY <1>1, <1>4, <2>2, <2>3
<1> QED
  BY <1>2, <1>3, <1>4 DEF CallStep

\* Joining the work in progress.
LEMMA JoinKeepsGiven ==
  ASSUME Typed, GivenInv, NEW m \in Messages, Joins(m)
  PROVE  GivenInv'
<1>1. /\ turn[m].at = "preparing" /\ turn'[m].at = "alongside"
      /\ \A n \in Messages : n # m => turn'[n] = turn[n]
  BY DEF Joins, Is, Goes, Typed, Turn
<1>2. call' = [call EXCEPT ![m] = "alongside"]
  BY DEF Joins, Calls!Join, Calls!Becomes
<1>3. /\ call' \in [Messages -> Calls!Over \cup Calls!Calling]
      /\ \A n \in Messages : n # m => call'[n] = call[n]
  BY <1>2, CallTyped DEF GivenInv, GivenTyped, Calls!Calling
<1>4. seen' = seen \cup notes[m] /\ UNCHANGED <<waiting, notes, answered>>
  BY DEF Joins, batch
<1>5. GivenTyped'
  BY <1>3, <1>4 DEF GivenInv, GivenTyped
<1>6. notes[m] \cap answered = {}
  BY <1>1 DEF GivenInv, Fresh, Unanswered
<1>7. /\ turn[m].at \notin {"batched", "joined", "lost"}
      /\ turn[m].at \notin NotYet /\ turn'[m].at \notin NotYet
  BY <1>1 DEF NotYet
<1>8. answered' \subseteq answered /\ (Unanswered(m)' => notes[m] \cap answered' = {})
  BY <1>4, <1>6
<1> QED
  BY <1>1, <1>3, <1>4, <1>5, <1>7, <1>8, TurnKeepsGiven

\* A turn that ended with another call.
LEMMA FollowKeepsGiven ==
  ASSUME Typed, GivenInv, NEW m \in Messages, FollowsUp(m)
  PROVE  GivenInv'
<1>1. PICK next \in turn[m].tries + 1 .. Correction :
        /\ turn' = [turn EXCEPT ![m].at = "following", ![m].tries = next]
        /\ answered' = IF next \in 1 .. FollowUps THEN answered \ notes[m] ELSE answered
  BY DEF FollowsUp
<1>2. /\ turn[m].at = "closing" /\ turn'[m].at = "following" /\ turn'[m].tries = next
      /\ \A n \in Messages : n # m => turn'[n] = turn[n]
  BY <1>1 DEF FollowsUp, Is, Typed, Turn
<1>3. next \in Nat /\ next >= 1
  <2>1. turn[m].tries \in Nat /\ Correction \in Nat
    BY DispatcherAssumption DEF Typed, Turn, Correction
  <2> QED
    BY <1>1, <2>1
<1>4. Unanswered(m)' => notes[m] \cap answered' = {}
  <2> SUFFICES ASSUME Unanswered(m)' PROVE next \in 1 .. FollowUps
    BY <1>1
  <2> QED
    BY <1>2, <1>3, DispatcherAssumption DEF Unanswered
<1>5. turn[m].at \notin {"batched", "joined", "lost"} /\ turn'[m].at \notin NotYet
  BY <1>2 DEF NotYet
<1>6. answered' \subseteq answered /\ Calling(m, FALSE) /\ UNCHANGED <<waiting, notes, seen>>
  BY <1>1 DEF FollowsUp, batch
<1> QED
  BY <1>2, <1>4, <1>5, <1>6, CallsKeepGiven

\* The follow-up of a turn ends, and the turn with it or its next follow-up begins.
LEMMA FollowOverKeepsGiven ==
  ASSUME Typed, GivenInv, NEW m \in Messages, FollowUpOver(m)
  PROVE  GivenInv'
<1> DEFINE over == CASE turn[m].tries = Correction -> "failed"
                     [] call[m] = "answered" -> "answered"
                     [] turn[m].tries = Markup -> "unsent"
                     [] OTHER -> "failed"
<1>1. /\ turn[m].at = "following" /\ turn'[m].at = "closing" /\ turn'[m].tries = turn[m].tries
      /\ turn'[m].why = over
      /\ \A n \in Messages : n # m => turn'[n] = turn[n]
  BY DEF FollowUpOver, Is, Typed, Turn
<1>2. /\ UNCHANGED <<call, waiting, notes, seen>>
      /\ answered' = IF call[m] = "answered" THEN answered \cup notes[m] ELSE answered
  BY DEF FollowUpOver, batch
<1>3. GivenTyped'
  BY <1>2 DEF GivenInv, GivenTyped
<1>4. Unanswered(m)' => notes[m] \cap answered' = {}
  <2> SUFFICES ASSUME Unanswered(m)' PROVE notes[m] \cap answered' = {}
    OBVIOUS
  <2>1. over = "failed" /\ turn[m].tries <= FollowUps
    <3>1. over # "kept"
      OBVIOUS
    <3> HIDE DEF over
    <3> QED
      BY <1>1, <3>1 DEF Unanswered
  <2>2. turn[m].tries # Correction /\ call[m] # "answered"
    <3>1. turn[m].tries # Correction
      BY <2>1, DispatcherAssumption DEF Correction
    <3> QED
      BY <2>1, <3>1
  <2> QED
    BY <1>1, <1>2, <2>1, <2>2 DEF GivenInv, Fresh, Unanswered
<1>5. turn[m].at \notin {"batched", "joined", "lost"} \cup NotYet /\ turn'[m].at \notin NotYet
  BY <1>1 DEF NotYet
<1>6. \/ answered' \subseteq answered
      \/ answered' \subseteq answered \cup notes[m] /\ turn[m].at \notin NotYet
  BY <1>2, <1>5
<1> HIDE DEF over
<1> QED
  BY <1>1, <1>2, <1>3, <1>4, <1>5, <1>6, TurnKeepsGiven

\* A prompt that is over: only one that was not answered is held, kept or started over.
LEMMA PromptOverKeepsGiven ==
  ASSUME Typed, GivenInv, NEW m \in Messages, PromptOver(m)
  PROVE  GivenInv'
<1>1. turn[m].at = "prompting" /\ UNCHANGED <<call, waiting, notes, seen, answered>>
  BY DEF PromptOver, Is, batch, given
<1>2. ASSUME NEW at \in {"closing", "startingOver"}, NEW why \in {"answered", "kept", "failed"},
             GoesOn(m, at, why)
      PROVE  /\ turn'[m].at = at /\ turn'[m].why = why
             /\ \A n \in Messages : n # m => turn'[n] = turn[n]
  BY <1>2 DEF GoesOn, Typed, Turn
<1>3. ASSUME Held(m)
      PROVE  turn'[m].at = "held" /\ \A n \in Messages : n # m => turn'[n] = turn[n]
  BY <1>3 DEF Held, Goes, Typed, Turn
<1>4. CASE call[m] = "answered"
  <2>1. GoesOn(m, "closing", "answered")
    BY <1>4 DEF PromptOver
  <2>2. turn'[m].at = "closing" /\ turn'[m].why = "answered"
        /\ \A n \in Messages : n # m => turn'[n] = turn[n]
    BY <1>2, <2>1
  <2>3. ~ Unanswered(m)' /\ turn'[m].at \notin NotYet
    BY <2>2 DEF Unanswered, NotYet
  <2> QED
    BY <1>1, <2>2, <2>3, MovesKeepGiven
<1>5. CASE call[m] # "answered"
  <2>1. Unanswered(m)
    BY <1>1, <1>5 DEF Unanswered
  <2>2. \/ GoesOn(m, "closing", "kept") \/ Held(m) \/ GoesOn(m, "startingOver", "answered")
        \/ GoesOn(m, "closing", "failed")
    BY <1>5 DEF PromptOver
  <2>3. /\ turn'[m].at \in {"closing", "startingOver", "held"}
        /\ \A n \in Messages : n # m => turn'[n] = turn[n]
    BY <1>2, <1>3, <2>2
  <2>4. turn'[m].at \notin NotYet
    BY <2>3 DEF NotYet
  <2> QED
    BY <1>1, <2>1, <2>3, <2>4, MovesKeepGiven
<1> QED BY <1>4, <1>5

\* The steps of a turn keep what was given and answered.
LEMMA MessageStepKeepsGiven ==
  ASSUME Typed, GivenInv, NEW m \in Messages, MessageStep(m)
  PROVE  GivenInv'
<1> DEFINE Only == \A n \in Messages : n # m => turn'[n] = turn[n]
           Still == UNCHANGED <<call, waiting, notes, seen, answered>>
<1>1. ASSUME Unanswered(m), turn[m].at \notin NotYet \cup {"lost"}, NEW at,
             turn'[m].at = at, at \notin NotYet, Only, Still
      PROVE  GivenInv'
  BY <1>1, MovesKeepGiven DEF NotYet
<1>2. CASE BatchRuns(m)
  BY <1>2, BatchKeepsGiven
<1>3. CASE NoCredit(m)
  BY <1>3, ReturnsKeepsGiven DEF NoCredit, Is, Results, batch, given
<1>4. CASE TriesToJoin(m)
  <2>1. turn[m].at = "checking" /\ turn'[m].at = "preparing" /\ Only /\ Still
    BY <1>4 DEF TriesToJoin, Is, Goes, Typed, Turn, batch, given
  <2> QED
    BY <1>1, <2>1 DEF Unanswered, NotYet
<1>5. ASSUME TakesPlace(m) PROVE turn'[m].at = "placed" /\ Only
  BY <1>5 DEF TakesPlace, Typed, Turn
<1>6. CASE GetsInLine(m)
  <2>1. turn[m].at \in {"checking", "preparing"} /\ turn'[m].at = "placed" /\ Only /\ Still
    BY <1>5, <1>6 DEF GetsInLine, batch, given
  <2> QED
    BY <1>1, <2>1 DEF Unanswered, NotYet
<1>7. CASE Joins(m)
  BY <1>7, JoinKeepsGiven
<1>8. CASE AlongsideOver(m)
  <2>1. turn[m].at = "alongside" /\ Still
    BY <1>8 DEF AlongsideOver, Is, batch, given
  <2>2. CASE call[m] = "answered"
    BY <1>8, <2>1, <2>2, ReturnsKeepsGiven DEF AlongsideOver, Results
  <2>3. CASE call[m] # "answered"
    <3>1. turn'[m].at = "placed" /\ Only
      BY <1>5, <1>8, <2>3 DEF AlongsideOver
    <3> QED
      BY <1>1, <2>1, <2>3, <3>1 DEF Unanswered, NotYet
  <2> QED BY <2>2, <2>3
<1>9. ASSUME NEW list, NEW at, Keep(m, list, at), Unanswered(m),
             turn[m].at \in {"placed", "closing"}, Still
      PROVE  GivenInv'
  <2>1. Returns(m, "kept") \/ Returns(m, "failed")
    BY <1>9 DEF Keep
  <2> QED
    BY <1>9, <2>1, ReturnsKeepsGiven DEF Results
<1>10. CASE IsKept(m)
  <2>1. turn[m].at = "placed" /\ Still /\ Keep(m, file, received[m])
    BY <1>10 DEF IsKept, MyTurn, Is, batch, given
  <2> QED
    BY <1>9, <2>1 DEF Unanswered
<1>11. CASE Starts(m)
  <2>1. turn[m].at = "placed" /\ turn'[m].at = "answering" /\ Only /\ Still
    BY <1>11 DEF Starts, MyTurn, Is, Goes, Typed, Turn, batch, given
  <2> QED
    BY <1>1, <2>1 DEF Unanswered, NotYet
<1>12. ASSUME turn[m].at \in {"answering", "held", "startingOver"}, turn'[m].at = "prompting",
              Only, NEW opens, Calling(m, opens), UNCHANGED <<waiting, notes, seen, answered>>
       PROVE  GivenInv'
  <2>1. notes[m] \cap answered = {}
    BY <1>12 DEF GivenInv, Fresh, Unanswered
  <2> QED
    BY <1>12, <2>1, CallsKeepGiven DEF NotYet
<1>13. CASE Prompts(m)
  <2>1. /\ turn[m].at = "answering" /\ Goes(m, "prompting")
        /\ Calling(m, TRUE) /\ UNCHANGED <<waiting, notes, seen, answered>>
    BY <1>13 DEF Prompts, Is, batch, given
  <2>2. turn'[m].at = "prompting" /\ Only
    BY <2>1 DEF Goes, Typed, Turn
  <2> QED
    BY <1>12, <2>1, <2>2
<1>14. CASE PromptOver(m)
  BY <1>14, PromptOverKeepsGiven
<1>15. CASE TriesAgain(m)
  <2>1. /\ turn[m].at = "held" /\ turn'[m].at = "prompting" /\ Only
        /\ Calling(m, ~ turn[m].over) /\ UNCHANGED <<waiting, notes, seen, answered>>
    BY <1>15 DEF TriesAgain, NextHeld, Is, Typed, Turn, batch, given
  <2> QED
    BY <1>12, <2>1
<1>16. CASE GivesUp(m)
  <2>1. turn[m].at = "held" /\ turn'[m].at = "closing" /\ Only /\ Still
    BY <1>16 DEF GivesUp, NextHeld, GoesOn, Is, Typed, Turn, batch, given
  <2> QED
    BY <1>1, <2>1 DEF Unanswered, NotYet
<1>17. CASE StartsOver(m)
  <2>1. /\ turn[m].at = "startingOver" /\ turn' = [turn EXCEPT ![m].at = "prompting", ![m].over = TRUE]
        /\ Calling(m, FALSE) /\ UNCHANGED <<waiting, notes, seen, answered>>
    BY <1>17 DEF StartsOver, Is, batch, given
  <2>2. turn'[m].at = "prompting" /\ Only
    BY <2>1 DEF Goes, Typed, Turn
  <2> QED
    BY <1>12, <2>1, <2>2
<1>18. CASE ClosesKept(m)
  <2>1. /\ turn[m].at = "closing" /\ turn[m].why = "kept" /\ Still
        /\ Keep(m, file, received[m])
    BY <1>18 DEF ClosesKept, Is, batch, given
  <2> QED
    BY <1>9, <2>1 DEF Unanswered
<1>19. CASE FollowsUp(m)
  BY <1>19, FollowKeepsGiven
<1>20. CASE FollowUpOver(m)
  BY <1>20, FollowOverKeepsGiven
<1>21. CASE Finishes(m)
  BY <1>21, ReturnsKeepsGiven DEF Finishes, Is, Results, batch, given
<1>22. CASE Delays(m)
  <2>1. Unanswered(m) /\ turn[m].at = "closing" /\ Returns(m, "delayed") /\ Still
    BY <1>22 DEF Delays, Retryable, Is, Unanswered, batch, given
  <2> QED
    BY <2>1, ReturnsKeepsGiven
<1>23. CASE Retries(m)
  <2>1. turn[m].at = "delayed" /\ Handle(m, file, clock', FALSE, FALSE) /\ Still
    BY <1>23 DEF Retries, Is, batch, given
  <2> QED
    BY <2>1, HandledKeepsGiven
<1> QED
  BY <1>2, <1>3, <1>4, <1>6, <1>7, <1>8, <1>10, <1>11, <1>13, <1>14, <1>15, <1>16, <1>17, <1>18,
     <1>19, <1>20, <1>21, <1>22, <1>23 DEF MessageStep

\* At first nothing was given.
LEMMA InitKeepsGiven ==
  Init => GivenInv
<1> SUFFICES ASSUME Init PROVE GivenInv
  OBVIOUS
<1>1. \A m \in Messages : turn[m].at = "none" /\ notes[m] = {m}
  BY DEF Init, NoTurn
<1>2. waiting = None /\ seen = {} /\ answered = {}
  BY DEF Init
<1>3. GivenTyped
  BY DEF Init, GivenTyped, Calls!CallsInit, Calls!Over
<1>4. Fresh
  BY <1>2 DEF Fresh
<1>5. Shared
  BY <1>1 DEF Shared
<1>6. Batched /\ Together
  BY <1>1, <1>2 DEF Batched, Together, InBatch, Is
<1> QED
  BY <1>3, <1>4, <1>5, <1>6 DEF GivenInv

\* Every step keeps what was given and answered.
LEMMA NextKeepsGiven ==
  Inv /\ GivenInv /\ [Next]_vars => GivenInv'
<1> SUFFICES ASSUME Inv, GivenInv, [Next]_vars PROVE GivenInv'
  OBVIOUS
<1> Typed
  BY DEF Inv
<1>1. ASSUME UNCHANGED <<call, turn, waiting, notes, seen, answered>> PROVE GivenInv'
  <2>1. GivenTyped' /\ Fresh' /\ Shared'
    BY <1>1 DEF GivenInv, GivenTyped, Fresh, Unanswered, Shared, InBatch, Is
  <2>2. Batched' /\ Together'
    BY <1>1 DEF GivenInv, Batched, Together, InBatch, Is
  <2> QED
    BY <2>1, <2>2 DEF GivenInv
<1>2. CASE UNCHANGED vars
  BY <1>1, <1>2 DEF vars, batch, given
<1>3. ASSUME NEW m \in Messages, Receive(m) \/ Injected(m) PROVE GivenInv'
  <2>1. /\ turn[m].at = "none" /\ UNCHANGED <<call, waiting, notes, seen, answered>>
        /\ \E person \in BOOLEAN, first \in BOOLEAN : Handle(m, file, clock', person, first)
    BY <1>3 DEF Receive, Injected, Arrives, Is, batch, given
  <2> QED
    BY <2>1, HandledKeepsGiven
<1>4. ASSUME NEW m \in Messages, NoteWaits(m) PROVE GivenInv'
  BY <1>4, NoteKeepsGiven
<1>5. ASSUME NEW m \in Messages, MessageStep(m) PROVE GivenInv'
  BY <1>5, MessageStepKeepsGiven
<1>6. ASSUME NEW m \in Messages, CallStep(m) PROVE GivenInv'
  BY <1>6, CallStepKeepsGiven
<1>7. ASSUME NEW r \in 1 .. MaxReplays, ReplayStep(r) PROVE GivenInv'
  <2>1. UNCHANGED <<call, waiting, notes, seen, answered>>
    BY <1>7 DEF ReplayStep, ReplayStarts, ReplayExpires, ReplayTells, ReplayTakes,
                ReplayGoesOn, ReplayEnds, batch, given
  <2>2. \/ UNCHANGED turn
        \/ InFile(Front(r)) /\ Returns(Front(r), "expired")
        \/ InFile(Front(r)) /\ Handle(Front(r), Without(file, Front(r)), received[Front(r)], FALSE, FALSE)
    BY <1>7 DEF ReplayStep, ReplayStarts, ReplayExpires, ReplayTells, ReplayTakes,
                ReplayGoesOn, ReplayEnds, Takes
  <2>3. ASSUME InFile(Front(r)) PROVE Front(r) \in Messages /\ turn[Front(r)].at = "kept"
    BY <2>3 DEF InFile, Inv, Typed, FileIsKept
  <2>4. CASE InFile(Front(r)) /\ Returns(Front(r), "expired")
    BY <2>1, <2>3, <2>4, ReturnsKeepsGiven DEF Results
  <2>5. CASE InFile(Front(r)) /\ Handle(Front(r), Without(file, Front(r)), received[Front(r)], FALSE, FALSE)
    BY <2>1, <2>3, <2>5, HandledKeepsGiven
  <2> QED
    BY <1>1, <2>1, <2>2, <2>4, <2>5
<1>8. CASE StopBegins \/ Interrupts \/ StopEnds
  BY <1>1, <1>8 DEF StopBegins, Interrupts, StopEnds, Calls!StopStarting, batch, given
<1>9. CASE NextBridge
  BY <1>9, NextBridgeKeepsGiven
<1> QED
  BY <1>2, <1>3, <1>4, <1>5, <1>6, <1>7, <1>8, <1>9 DEF Next

\* The inductive invariant: an unanswered turn has unanswered notes, two turns share none,
\* a batch takes in all that joined it, and what was given was given whole.
LEMMA GivenInvariance ==
  Spec => [](Inv /\ GivenInv)
<1>1. Init => Inv /\ GivenInv
  BY InitKeepsInv, InitKeepsGiven
<1>2. (Inv /\ GivenInv) /\ [Next]_vars => (Inv /\ GivenInv)'
  BY NextKeepsInv, NextKeepsGiven
<1> QED
  BY <1>1, <1>2, PTL DEF Spec

-----------------------------------------------------------------------------
(* The types of what no invariant speaks of.                               *)

\* A replay that tells of expired messages has one left to take.
RestTyped ==
  /\ stopping \in BOOLEAN /\ interrupting \in BOOLEAN /\ stopped \in BOOLEAN
  /\ byPersonNow \in BOOLEAN
  /\ replay \in [1 .. MaxReplays -> Replay]
  /\ \A r \in 1 .. MaxReplays : replay[r].at = "telling" => replay[r].todo # <<>>
  /\ bridges \in 1 .. MaxBridges

\* A replay keeps its type as it goes through the messages it read.
LEMMA ReplayTyped ==
  ASSUME Typed, RestTyped, NEW r \in 1 .. MaxReplays, ReplayStep(r)
  PROVE  /\ replay' \in [1 .. MaxReplays -> Replay]
         /\ \A s \in 1 .. MaxReplays : replay'[s].at = "telling" => replay'[s].todo # <<>>
<1>1. NoReplay \in Replay /\ NoReplay.at = "looking"
  BY DEF NoReplay, Replay
<1>2. replay[r] \in Replay
  BY DEF RestTyped
<1>3. ASSUME NEW next \in Replay, replay' = [replay EXCEPT ![r] = next],
             next.at = "telling" => next.todo # <<>>
      PROVE  /\ replay' \in [1 .. MaxReplays -> Replay]
             /\ \A s \in 1 .. MaxReplays : replay'[s].at = "telling" => replay'[s].todo # <<>>
  BY <1>3 DEF RestTyped
<1>4. CASE ReplayStarts(r)
  <2>1. PICK old \in 0 .. Len(file) :
          replay' = [replay EXCEPT ![r] = [NoReplay EXCEPT !.todo = file, !.old = old]]
    BY <1>4 DEF ReplayStarts
  <2> DEFINE next == [NoReplay EXCEPT !.todo = file, !.old = old]
  <2>2. file \in Seq(Messages) /\ old \in Nat
    BY DEF Typed
  <2>3. next \in Replay /\ next.at = "looking"
    BY <1>1, <2>2 DEF Replay
  <2> QED
    BY <1>3, <2>1, <2>3
<1>5. CASE ReplayExpires(r)
  <2>1. replay[r].at = "looking" /\ replay[r].todo # <<>> /\ replay[r].old > 0
    BY <1>5 DEF ReplayExpires, Looks, TooOld
  <2>2. Tail(replay[r].todo) \in Seq(Messages) /\ replay[r].old - 1 \in Nat
    BY <1>2, <2>1 DEF Replay
  <2>3. CASE replay' = [replay EXCEPT ![r].todo = Tail(@), ![r].old = @ - 1, ![r].tell = TRUE]
    <3> DEFINE next == [replay[r] EXCEPT !.todo = Tail(@), !.old = @ - 1, !.tell = TRUE]
    <3>1. next \in Replay /\ next.at = "looking"
      BY <1>2, <2>1, <2>2 DEF Replay
    <3>2. replay' = [replay EXCEPT ![r] = next]
      BY <2>3
    <3> QED
      BY <1>3, <3>1, <3>2
  <2>4. CASE replay' = [replay EXCEPT ![r].todo = Tail(@), ![r].old = @ - 1]
    <3> DEFINE next == [replay[r] EXCEPT !.todo = Tail(@), !.old = @ - 1]
    <3>1. next \in Replay /\ next.at = "looking"
      BY <1>2, <2>1, <2>2 DEF Replay
    <3>2. replay' = [replay EXCEPT ![r] = next]
      BY <2>4
    <3> QED
      BY <1>3, <3>1, <3>2
  <2> QED
    BY <1>5, <2>3, <2>4 DEF ReplayExpires
<1>6. CASE ReplayTells(r)
  <2> DEFINE next == [replay[r] EXCEPT !.at = "telling", !.tell = FALSE]
  <2>1. next \in Replay /\ next.todo = replay[r].todo
    BY <1>2 DEF Replay
  <2>2. replay' = [replay EXCEPT ![r] = next] /\ replay[r].todo # <<>>
    BY <1>6 DEF ReplayTells, Looks
  <2> QED
    BY <1>3, <2>1, <2>2
<1>7. CASE ReplayTakes(r)
  <2>1. replay[r].todo # <<>>
    BY <1>7 DEF ReplayTakes, Looks, RestTyped
  <2>2. Front(r) \in Messages /\ Tail(replay[r].todo) \in Seq(Messages)
    BY <1>2, <2>1 DEF Replay, Front
  <2>3. CASE replay' = [replay EXCEPT ![r].todo = Tail(@), ![r].at = "waiting", ![r].now = Front(r)]
    <3> DEFINE next == [replay[r] EXCEPT !.todo = Tail(@), !.at = "waiting", !.now = Front(r)]
    <3>1. next \in Replay /\ next.at = "waiting"
      BY <1>2, <2>2 DEF Replay
    <3>2. replay' = [replay EXCEPT ![r] = next]
      BY <2>3
    <3> QED
      BY <1>3, <3>1, <3>2
  <2>4. CASE replay' = [replay EXCEPT ![r].todo = Tail(@), ![r].at = "looking"]
    <3> DEFINE next == [replay[r] EXCEPT !.todo = Tail(@), !.at = "looking"]
    <3>1. next \in Replay /\ next.at = "looking"
      BY <1>2, <2>2 DEF Replay
    <3>2. replay' = [replay EXCEPT ![r] = next]
      BY <2>4
    <3> QED
      BY <1>3, <3>1, <3>2
  <2> QED
    BY <1>7, <2>3, <2>4 DEF ReplayTakes
<1>8. CASE ReplayGoesOn(r)
  <2> DEFINE next == [replay[r] EXCEPT !.at = "looking", !.now = None]
  <2>1. next \in Replay /\ next.at = "looking"
    BY <1>2 DEF Replay
  <2>2. replay' = [replay EXCEPT ![r] = next]
    BY <1>8 DEF ReplayGoesOn
  <2> QED
    BY <1>3, <2>1, <2>2
<1>9. CASE ReplayEnds(r)
  BY <1>1, <1>3, <1>9 DEF ReplayEnds
<1> QED
  BY <1>4, <1>5, <1>6, <1>7, <1>8, <1>9 DEF ReplayStep

\* Every step keeps these types.
LEMMA RestTypedStep ==
  ASSUME Typed, RestTyped, [Next]_vars
  PROVE  RestTyped'
<1> USE DEF RestTyped, order, stop, batch, kept, given
<1>1. CASE UNCHANGED vars
  BY <1>1 DEF vars
<1>2. ASSUME NEW m \in Messages, Receive(m) \/ Injected(m) \/ NoteWaits(m) PROVE RestTyped'
  BY <1>2 DEF Receive, Injected, NoteWaits
<1>3. ASSUME NEW m \in Messages, MessageStep(m) PROVE RestTyped'
  <2>1. UNCHANGED <<stopping, interrupting, stopped, replay, bridges>>
    <3>1. ASSUME NEW opens \in BOOLEAN, Calling(m, opens) PROVE stopping' = stopping
      BY <3>1 DEF Calling, Calls!Begin, Calls!RefusedAtOnce, Calls!Becomes
    <3>2. (~ turn[m].over) \in BOOLEAN
      BY DEF Typed, Turn
    <3>3. CASE BatchRuns(m) \/ NoCredit(m) \/ TriesToJoin(m) \/ GetsInLine(m) \/ AlongsideOver(m)
      BY <3>3 DEF BatchRuns, NoCredit, TriesToJoin, GetsInLine, AlongsideOver
    <3>4. CASE IsKept(m) \/ Starts(m) \/ PromptOver(m) \/ GivesUp(m) \/ ClosesKept(m)
      BY <3>4 DEF IsKept, Starts, PromptOver, GivesUp, ClosesKept
    <3>5. CASE FollowUpOver(m) \/ Finishes(m) \/ Delays(m) \/ Retries(m)
      BY <3>5 DEF FollowUpOver, Finishes, Delays, Retries
    <3>6. CASE Prompts(m) \/ StartsOver(m) \/ FollowsUp(m)
      BY <3>1, <3>6 DEF Prompts, StartsOver, FollowsUp
    <3>7. CASE TriesAgain(m)
      BY <3>1, <3>2, <3>7 DEF TriesAgain
    <3>8. CASE Joins(m)
      BY <3>8 DEF Joins, Calls!Join, Calls!Becomes
    <3> QED
      BY <1>3, <3>3, <3>4, <3>5, <3>6, <3>7, <3>8 DEF MessageStep
  <2>2. byPersonNow' \in BOOLEAN
    <3>1. byPersonNow \in BOOLEAN /\ turn[m].person \in BOOLEAN
      BY DEF Typed, Turn
    <3>2. Leaves(m) \/ TakesPlace(m) \/ Unheld(m) => byPersonNow' \in BOOLEAN
      BY <3>1 DEF Leaves, TakesPlace, Unheld
    <3>3. CASE BatchRuns(m) \/ NoCredit(m) \/ TriesToJoin(m) \/ Joins(m) \/ Prompts(m) \/ TriesAgain(m)
      BY <3>1, <3>3 DEF BatchRuns, NoCredit, TriesToJoin, Joins, Prompts, TriesAgain
    <3>4. CASE StartsOver(m) \/ FollowsUp(m) \/ FollowUpOver(m) \/ Retries(m)
      BY <3>1, <3>4 DEF StartsOver, FollowsUp, FollowUpOver, Retries
    <3>5. CASE GetsInLine(m) \/ AlongsideOver(m)
      BY <3>1, <3>2, <3>5 DEF GetsInLine, AlongsideOver
    <3>6. CASE IsKept(m) \/ ClosesKept(m) \/ Finishes(m) \/ Delays(m)
      BY <3>2, <3>6 DEF IsKept, ClosesKept, Finishes, Delays
    <3>7. CASE PromptOver(m) \/ GivesUp(m)
      BY <3>1, <3>2, <3>7 DEF PromptOver, GivesUp, GoesOn, Held, Unheld
    <3>8. CASE Starts(m)
      BY <3>1, <3>8 DEF Starts
    <3> QED
      BY <1>3, <3>3, <3>4, <3>5, <3>6, <3>7, <3>8 DEF MessageStep
  <2> QED
    BY <2>1, <2>2
<1>4. ASSUME NEW m \in Messages, CallStep(m) PROVE RestTyped'
  <2>1. stopping' = stopping
    BY <1>4 DEF CallStep, Calls!Send, Calls!Refused, Calls!Ends, Calls!Becomes
  <2> QED
    BY <1>4, <2>1 DEF CallStep
<1>5. ASSUME NEW r \in 1 .. MaxReplays, ReplayStep(r) PROVE RestTyped'
  <2>1. UNCHANGED <<stopping, interrupting, stopped, byPersonNow, bridges>>
    BY <1>5 DEF ReplayStep, ReplayStarts, ReplayExpires, ReplayTells, ReplayTakes,
                ReplayGoesOn, ReplayEnds
  <2> QED
    BY <1>5, <2>1, ReplayTyped
<1>6. CASE StopBegins \/ Interrupts \/ StopEnds
  BY <1>6 DEF StopBegins, Interrupts, StopEnds, Calls!StopStarting
<1>7. CASE NextBridge
  <2>1. NoReplay \in Replay /\ NoReplay.at = "looking"
    BY DEF NoReplay, Replay
  <2>2. /\ stopping' = FALSE /\ interrupting' = FALSE /\ stopped' = FALSE /\ byPersonNow' = FALSE
        /\ replay' = [r \in 1 .. MaxReplays |-> NoReplay]
        /\ bridges' \in 1 .. MaxBridges
    BY <1>7, DispatcherAssumption DEF NextBridge, Calls!BridgeGone
  <2> QED
    BY <2>1, <2>2
<1> QED
  BY <1>1, <1>2, <1>3, <1>4, <1>5, <1>6, <1>7 DEF Next

\* The variables keep their types, for any messages of any kinds and any bounds.
THEOREM TypeCorrect ==
  Spec => []TypeOK
<1>1. Init => RestTyped
  <2>1. NoReplay \in Replay /\ NoReplay.at = "looking"
    BY DEF NoReplay, Replay
  <2> SUFFICES ASSUME Init PROVE RestTyped
    OBVIOUS
  <2>2. /\ stopping = FALSE /\ interrupting = FALSE /\ stopped = FALSE /\ byPersonNow = FALSE
        /\ replay = [r \in 1 .. MaxReplays |-> NoReplay] /\ bridges = 1
    BY DEF Init, Calls!CallsInit
  <2>3. bridges \in 1 .. MaxBridges
    BY <2>2, DispatcherAssumption
  <2>4. replay \in [1 .. MaxReplays -> Replay] /\ \A r \in 1 .. MaxReplays : replay[r].at = "looking"
    BY <2>1, <2>2
  <2> QED
    BY <2>2, <2>3, <2>4 DEF RestTyped
<1>2. Inv /\ RestTyped /\ [Next]_vars => RestTyped'
  BY RestTypedStep DEF Inv
<1>3. Inv /\ GivenInv /\ RestTyped => TypeOK
  BY DEF Inv, Typed, GivenInv, GivenTyped, RestTyped, TypeOK
<1> QED
  BY <1>1, <1>2, <1>3, GivenInvariance, PTL DEF Spec

-----------------------------------------------------------------------------
\* A note that joins a batch is given to the assistant with it, or not reported as
\* answered with it: batchRuns() of note-coalescer.ts, and the bridges after it.
THEOREM ReportedWereGiven ==
  Spec => []ReportedNotesWereSeen
<1>1. GivenInv => ReportedNotesWereSeen
  <2> SUFFICES ASSUME GivenInv, NEW n \in Messages, NEW m \in Messages,
                      Is(n, "joined"), turn[n].behind = {m}, Is(m, "answered"), m \in seen
               PROVE  n \in seen
    BY DEF ReportedNotesWereSeen
  <2>1. n \in notes[m]
    BY DEF GivenInv, Batched, InBatch, Is
  <2>2. notes[m] \subseteq seen
    BY DEF GivenInv, Together, Is
  <2> QED
    BY <2>1, <2>2
<1> QED
  BY <1>1, GivenInvariance, PTL

\* A message is given to the assistant by its own turn, and by one that was not answered.
LEMMA WhoIsGiven ==
  ASSUME Typed, GivenInv, [Next]_vars, NEW m \in Messages,
         call'[m] \in {"sent", "alongside"}, call[m] \notin {"sent", "alongside"},
         turn'[m].at \in {"prompting", "alongside"}
  PROVE  Unanswered(m)
<1> USE DEF Calls!Unsent
<1> call' # call
  OBVIOUS
<1> call \in [Messages -> Calls!Over \cup Calls!Calling]
  BY DEF GivenInv, GivenTyped
<1>1. ASSUME NEW k \in Messages, NEW opens, Calling(k, opens) PROVE FALSE
  <2>1. PICK at \in {"opening", "waiting", "stopping", "failed"} : call' = [call EXCEPT ![k] = at]
    BY <1>1 DEF Calling, Calls!Begin, Calls!RefusedAtOnce, Calls!Becomes
  <2> QED
    BY <2>1
<1>2. ASSUME NEW k \in Messages, Joins(k) PROVE Unanswered(m)
  <2>1. call' = [call EXCEPT ![k] = "alongside"] /\ turn[k].at = "preparing"
    BY <1>2 DEF Joins, Calls!Join, Calls!Becomes, Is
  <2>2. k = m
    BY <2>1
  <2> QED
    BY <2>1, <2>2 DEF Unanswered
<1>3. ASSUME NEW k \in Messages, CallStep(k) PROVE Unanswered(m)
  <2>1. UNCHANGED turn
    BY <1>3 DEF CallStep
  <2>2. CASE Calls!Send(k)
    <3>1. call' = [call EXCEPT ![k] = "sent"] /\ call[k] # "answered"
      BY <2>2 DEF Calls!Send, Calls!Becomes
    <3>2. k = m
      BY <3>1
    <3> QED
      BY <2>1, <3>1, <3>2 DEF Unanswered
  <2>3. CASE \E error \in Calls!Refusals : Calls!Refused({k}, error)
    BY <2>3 DEF Calls!Refused, Calls!Refusals
  <2>4. CASE \E ending \in Calls!Endings : Calls!Ends(k, ending)
    <3>1. PICK ending \in Calls!Endings : call' = [call EXCEPT ![k] = ending]
      BY <2>4 DEF Calls!Ends, Calls!Becomes
    <3> QED
      BY <3>1 DEF Calls!Endings
  <2> QED
    BY <1>3, <2>2, <2>3, <2>4 DEF CallStep
<1>4. CASE NextBridge
  BY <1>4 DEF NextBridge, Calls!BridgeGone
<1>5. ASSUME NEW k \in Messages, MessageStep(k) PROVE Unanswered(m)
  <2>1. Joins(k) \/ \E opens \in BOOLEAN : Calling(k, opens)
    <3>1. CASE Prompts(k) \/ StartsOver(k) \/ FollowsUp(k)
      BY <3>1 DEF Prompts, StartsOver, FollowsUp
    <3>2. CASE TriesAgain(k)
      BY <3>2 DEF TriesAgain, Typed, Turn
    <3>3. CASE BatchRuns(k) \/ NoCredit(k) \/ TriesToJoin(k) \/ GetsInLine(k) \/ AlongsideOver(k)
      BY <3>3 DEF BatchRuns, NoCredit, TriesToJoin, GetsInLine, AlongsideOver
    <3>4. CASE IsKept(k) \/ Starts(k) \/ PromptOver(k) \/ GivesUp(k) \/ ClosesKept(k)
      BY <3>4 DEF IsKept, Starts, PromptOver, GivesUp, ClosesKept
    <3>5. CASE FollowUpOver(k) \/ Finishes(k) \/ Delays(k) \/ Retries(k)
      BY <3>5 DEF FollowUpOver, Finishes, Delays, Retries
    <3> QED
      BY <1>5, <3>1, <3>2, <3>3, <3>4, <3>5 DEF MessageStep
  <2> QED
    BY <1>1, <1>2, <2>1
<1>6. ASSUME NEW k \in Messages, Receive(k) \/ Injected(k) \/ NoteWaits(k) PROVE FALSE
  BY <1>6 DEF Receive, Injected, NoteWaits
<1>7. ASSUME NEW r \in 1 .. MaxReplays, ReplayStep(r) PROVE FALSE
  BY <1>7 DEF ReplayStep, ReplayStarts, ReplayExpires, ReplayTells, ReplayTakes,
              ReplayGoesOn, ReplayEnds
<1>8. CASE StopBegins \/ Interrupts \/ StopEnds \/ UNCHANGED vars
  BY <1>8 DEF StopBegins, Interrupts, StopEnds, Calls!StopStarting, vars
<1> QED
  BY <1>2, <1>3, <1>4, <1>5, <1>6, <1>7, <1>8 DEF Next

\* A message the assistant answered is not given to it again, whatever holds, second
\* tries, replays and bridges follow: answer() and replayPending() of dispatcher.ts.
THEOREM GivenUntilAnswered ==
  Spec => AnsweredOnce
<1>1. ASSUME Inv, GivenInv, [Next]_vars, NEW m \in Messages,
             call'[m] \in {"sent", "alongside"}, call[m] \notin {"sent", "alongside"},
             turn'[m].at \in {"prompting", "alongside"}
      PROVE  notes[m] \cap answered = {}
  BY <1>1, WhoIsGiven DEF Inv, GivenInv, Fresh
<1>2. Inv /\ GivenInv /\ [Next]_vars =>
        [\A m \in Messages :
           call'[m] \in {"sent", "alongside"} /\ call[m] \notin {"sent", "alongside"}
             /\ turn'[m].at \in {"prompting", "alongside"}
           => notes[m] \cap answered = {}]_vars
  BY <1>1
<1> QED
  BY <1>2, GivenInvariance, PTL DEF Spec, AnsweredOnce
=============================================================================
