-------------------------- MODULE SdkDeliveryProofs --------------------------
(* Theorems about SdkDelivery, for all events, sizes, limits and reloads:   *)
(* no event is lost or doubled, urgent ones survive, and what the outbox    *)
(* holds of an event is what the client knows of it.                        *)
(*                                                                         *)
(* What the queue's operators return comes first.  Then the chain of        *)
(* writes: the last write about an event decides what the outbox will hold  *)
(* of it.  DeliveryInv says what that is, for entries in memory and, on the *)
(* first page, for dropped events.  A lemma per action keeps it.            *)
EXTENDS SdkDelivery, SubsequencesProofs, SequenceTheorems

-----------------------------------------------------------------------------
(* Sizes.                                                                  *)

IsSum(sum, s) ==
  /\ sum \in [0..Len(s) -> Nat]
  /\ sum[0] = 0
  /\ \A i \in 1..Len(s) : sum[i] = sum[i - 1] + Size[s[i].event]
  /\ Bytes(s) = sum[Len(s)]

LEMMA SizesAreNumbers == \A e \in Events : Size[e] \in Nat /\ Size[e] <= QueueBytes
BY EventsAssumption, BoundsAssumption

LEMMA BytesUnfolds ==
  ASSUME NEW s \in Seq(Entry)
  PROVE  \E sum : IsSum(sum, s)
<1>0. PICK n \in Nat : n = Len(s)
  OBVIOUS
<1> DEFINE Added(i, m) == m + Size[s[i].event]
           Is(sum) == sum = [i \in 0..n |-> IF i = 0 THEN 0 ELSE Added(i, sum[i - 1])]
           Step == [i \in 1..n |-> [m \in Nat |-> Added(i, m)]]
           f == CHOOSE sum : Is(sum)
<1>1. \A i \in 1..n, m \in Nat : Added(i, m) \in Nat
  <2> SUFFICES ASSUME NEW i \in 1..n, NEW m \in Nat PROVE Added(i, m) \in Nat
    OBVIOUS
  <2>1. s[i] \in Entry
    BY <1>0
  <2>2. Size[s[i].event] \in Nat
    BY <2>1, SizesAreNumbers DEF Entry
  <2> QED BY <2>2
<1>2. Bytes(s) = f[n]
  BY <1>0 DEF Bytes
<1> HIDE DEF Added
<1>3. Step \in StepsOn(n, Nat) /\ \A i \in 1..n, m \in Nat : Step[i][m] = Added(i, m)
  BY <1>1 DEF StepsOn
<1> HIDE DEF Step
<1>4. PICK g : IsRecursion(g, n, Nat, 0, Step)
  BY <1>3, RecursionExists
<1>5. \A i \in 1..n : i \in 0..n /\ i - 1 \in 0..n /\ i # 0
  OBVIOUS
<1>6. Is(g)
  <2>1. \A i \in 1..n : g[i] = Added(i, g[i - 1])
    BY <1>3, <1>4, <1>5 DEF IsRecursion
  <2>2. \A i \in 0..n : g[i] = IF i = 0 THEN 0 ELSE Added(i, g[i - 1])
    BY <2>1, <1>4 DEF IsRecursion
  <2> QED BY <2>2, <1>4 DEF IsRecursion
<1>7. Is(f)
  <2> HIDE DEF Is
  <2> QED BY <1>6
<1> HIDE DEF f
<1>8. DOMAIN f = 0..n /\ f[0] = 0 /\ \A i \in 1..n : f[i] = Added(i, f[i - 1])
  BY <1>5, <1>7
<1>9. f \in [0..n -> Nat]
  <2> DEFINE Good == {i \in 0..n : f[i] \in Nat}
  <2>1. 0 \in Good
    BY <1>8
  <2>2. \A i \in 1..n : i - 1 \in Good => i \in Good
    BY <1>1, <1>5, <1>8
  <2>3. 0..n \subseteq Good
    <3> HIDE DEF Good
    <3> QED BY <2>1, <2>2, UpToInduction
  <2>4. f = [i \in 0..n |-> f[i]]
    BY <1>7
  <2> QED BY <2>3, <2>4
<1>10. IsSum(f, s)
  BY <1>0, <1>2, <1>8, <1>9 DEF Added, IsSum
<1> QED BY <1>10

LEMMA BytesOfNothing == Bytes(<<>>) = 0
<1>1. <<>> \in Seq(Entry) /\ Len(<<>>) = 0
  OBVIOUS
<1>2. PICK sum : IsSum(sum, <<>>)
  BY <1>1, BytesUnfolds
<1> QED BY <1>1, <1>2 DEF IsSum

LEMMA BytesType ==
  ASSUME NEW s \in Seq(Entry)
  PROVE  Bytes(s) \in Nat
<1>1. PICK sum : IsSum(sum, s)
  BY BytesUnfolds
<1>2. Len(s) \in 0..Len(s)
  OBVIOUS
<1> QED BY <1>1, <1>2 DEF IsSum

\* Sums over sequences that begin alike.
LEMMA BytesAppend ==
  ASSUME NEW s \in Seq(Entry), NEW x \in Entry
  PROVE  Bytes(Append(s, x)) = Bytes(s) + Size[x.event]
<1>0. PICK n \in Nat : n = Len(s)
  OBVIOUS
<1> DEFINE t == Append(s, x)
<1>1. t \in Seq(Entry) /\ Len(t) = n + 1 /\ t[n + 1] = x /\ \A i \in 1..n : t[i] = s[i]
  BY <1>0
<1> HIDE DEF t
<1>2. PICK short : IsSum(short, s)
  BY BytesUnfolds
<1>3. PICK long : IsSum(long, t)
  BY <1>1, BytesUnfolds
<1> DEFINE Good == {i \in 0..n : long[i] = short[i]}
<1>4. 0 \in Good
  BY <1>2, <1>3 DEF IsSum
<1>5. ASSUME NEW i \in 1..n, i - 1 \in Good PROVE i \in Good
  <2>1. short[i] = short[i - 1] + Size[s[i].event]
    BY <1>0, <1>2 DEF IsSum
  <2>2. i \in 1..(n + 1) /\ i \in 0..n
    OBVIOUS
  <2>3. long[i] = long[i - 1] + Size[t[i].event]
    BY <1>1, <1>3, <2>2 DEF IsSum
  <2> QED BY <1>1, <1>5, <2>1, <2>2, <2>3
<1>6. n \in Good
  <2> HIDE DEF Good
  <2>1. 0..n \subseteq Good
    BY <1>4, <1>5, UpToInduction
  <2> QED BY <2>1
<1>7. long[n + 1] = long[n] + Size[x.event]
  <2>1. n + 1 \in 1..(n + 1) /\ (n + 1) - 1 = n
    OBVIOUS
  <2>2. long[n + 1] = long[(n + 1) - 1] + Size[t[n + 1].event]
    BY <1>1, <1>3, <2>1 DEF IsSum
  <2> QED BY <1>1, <2>1, <2>2
<1>8. Bytes(t) = long[n + 1] /\ Bytes(s) = short[n]
  BY <1>0, <1>1, <1>2, <1>3 DEF IsSum
<1> QED BY <1>6, <1>7, <1>8 DEF t

LEMMA BytesPrepend ==
  ASSUME NEW s \in Seq(Entry), NEW x \in Entry
  PROVE  Bytes(<<x>> \o s) = Bytes(s) + Size[x.event]
<1>0. PICK n \in Nat : n = Len(s)
  OBVIOUS
<1> DEFINE t == <<x>> \o s
           size == Size[x.event]
<1>1. t \in Seq(Entry) /\ Len(t) = n + 1 /\ t[1] = x /\ \A i \in 1..n : t[i + 1] = s[i]
  BY <1>0
<1> HIDE DEF t
<1>2. size \in Nat
  BY SizesAreNumbers DEF Entry
<1>3. PICK short : IsSum(short, s)
  BY BytesUnfolds
<1>4. PICK long : IsSum(long, t)
  BY <1>1, BytesUnfolds
<1> DEFINE Good == {i \in 0..n : long[i + 1] = short[i] + size}
<1>5. 0 \in Good
  <2>1. 1 \in 1..(n + 1) /\ 0 \in 0..n
    OBVIOUS
  <2>2. long[1] = long[1 - 1] + Size[t[1].event]
    BY <1>1, <1>4, <2>1 DEF IsSum
  <2>3. long[0] = 0 /\ short[0] = 0
    BY <1>3, <1>4 DEF IsSum
  <2> QED BY <1>1, <1>2, <2>1, <2>2, <2>3
<1>6. ASSUME NEW i \in 1..n, i - 1 \in Good PROVE i \in Good
  <2>1. short[i] = short[i - 1] + Size[s[i].event]
    BY <1>0, <1>3 DEF IsSum
  <2>2. i + 1 \in 1..(n + 1) /\ i \in 0..n /\ (i + 1) - 1 = i /\ i - 1 \in 0..n /\ (i - 1) + 1 = i
    OBVIOUS
  <2>3. long[i + 1] = long[(i + 1) - 1] + Size[t[i + 1].event]
    BY <1>1, <1>4, <2>2 DEF IsSum
  <2>4. long[i] = short[i - 1] + size
    BY <1>6, <2>2
  <2>5. PICK m \in Nat : m = Size[s[i].event]
    <3>1. s[i] \in Entry
      BY <1>0
    <3> QED BY <3>1, SizesAreNumbers DEF Entry
  <2>6. short[i - 1] \in Nat
    BY <1>0, <1>3, <2>2 DEF IsSum
  <2>7. long[i + 1] = short[i] + size
    <3>1. long[i + 1] = (short[i - 1] + size) + m
      BY <1>0, <1>1, <2>2, <2>3, <2>4, <2>5
    <3>2. short[i] = short[i - 1] + m
      BY <2>1, <2>5
    <3> HIDE DEF size
    <3> QED BY ONLY <1>2, <2>5, <2>6, <3>1, <3>2
  <2> QED BY <2>2, <2>7
<1>7. n \in Good
  <2> HIDE DEF Good
  <2>1. 0..n \subseteq Good
    BY <1>5, <1>6, UpToInduction
  <2> QED BY <2>1
<1>8. Bytes(t) = long[n + 1] /\ Bytes(s) = short[n]
  BY <1>0, <1>1, <1>3, <1>4 DEF IsSum
<1> QED BY <1>7, <1>8 DEF t

LEMMA BytesSubsequence ==
  ASSUME NEW s \in Seq(Entry), NEW chosen
  PROVE  Bytes(Subsequence(s, chosen)) <= Bytes(s)
<1>0. PICK n \in Nat : n = Len(s)
  OBVIOUS
<1>1. PICK upTo : IsUnfolding(upTo, s, chosen, Entry)
  BY SubsequenceUnfolds
<1>2. PICK sum : IsSum(sum, s)
  BY BytesUnfolds
<1> DEFINE Good == {i \in 0..n : Bytes(upTo[i]) <= sum[i]}
<1>3. 0 \in Good
  BY <1>1, <1>2, BytesOfNothing DEF IsSum, IsUnfolding
<1>4. ASSUME NEW i \in 1..n, i - 1 \in Good PROVE i \in Good
  <2>1. i \in 0..n /\ i - 1 \in 0..n
    OBVIOUS
  <2>2. upTo[i - 1] \in Seq(Entry) /\ s[i] \in Entry
    BY <1>0, <1>1, <2>1 DEF IsUnfolding
  <2>3. sum[i - 1] \in Nat /\ sum[i] = sum[i - 1] + Size[s[i].event]
    BY <1>0, <1>2, <2>1 DEF IsSum
  <2>4. PICK m \in Nat : m = Size[s[i].event]
    BY <2>2, SizesAreNumbers DEF Entry
  <2>5. Bytes(upTo[i - 1]) \in Nat
    BY <2>2, BytesType
  <2>6. upTo[i] = Append(upTo[i - 1], s[i]) \/ upTo[i] = upTo[i - 1]
    BY <1>0, <1>1 DEF IsUnfolding
  <2>7. Bytes(Append(upTo[i - 1], s[i])) = Bytes(upTo[i - 1]) + Size[s[i].event]
    BY <2>2, BytesAppend
  <2>8. Bytes(upTo[i]) <= sum[i]
    <3>1. sum[i] = sum[i - 1] + m
      BY <2>3, <2>4
    <3>2. Bytes(upTo[i]) = Bytes(upTo[i - 1]) + m \/ Bytes(upTo[i]) = Bytes(upTo[i - 1])
      BY <2>4, <2>6, <2>7
    <3>3. Bytes(upTo[i - 1]) <= sum[i - 1]
      BY <1>4
    <3> QED BY ONLY <2>3, <2>4, <2>5, <3>1, <3>2, <3>3
  <2> QED BY <2>1, <2>8
<1>5. n \in Good
  <2> HIDE DEF Good
  <2>1. 0..n \subseteq Good
    BY <1>3, <1>4, UpToInduction
  <2> QED BY <2>1
<1> QED BY <1>0, <1>1, <1>2, <1>5 DEF IsSum, IsUnfolding
-----------------------------------------------------------------------------
(* Parts of a queue.                                                       *)

\* No event is in a sequence twice.
EachOnce(s) == \A i, j \in DOMAIN s : s[i].event = s[j].event => i = j

\* Entries that have attempts left, and sequences of them.
Retryable == [event : Events, attempts : 0..(MaxAttempts - 1)]
IsLine(s) == s \in Seq(Retryable) /\ EachOnce(s)

LEMMA RetryableIsEntry == Retryable \subseteq Entry
BY BoundsAssumption DEF Retryable, Entry

LEMMA LineType ==
  ASSUME NEW s, IsLine(s)
  PROVE  s \in Seq(Entry) /\ ToSet(s) \subseteq Retryable
BY RetryableIsEntry DEF IsLine, ToSet

LEMMA EmptyLine ==
  ASSUME NEW T, NEW s \in Seq(T), ToSet(s) = {}
  PROVE  s = <<>>
<1>1. PICK n \in Nat : n = Len(s)
  OBVIOUS
<1>2. n = 0
  <2> SUFFICES ASSUME n # 0 PROVE FALSE
    OBVIOUS
  <2>1. 1 \in DOMAIN s
    BY <1>1
  <2> QED BY <2>1 DEF ToSet
<1> QED BY <1>1, <1>2, EmptySeq

LEMMA SubsequenceOnce ==
  ASSUME NEW T, NEW s \in Seq(T), NEW chosen, EachOnce(s)
  PROVE  EachOnce(Subsequence(s, chosen))
<1> DEFINE q == Subsequence(s, chosen)
<1>1. q \in Seq(T)
  BY SubsequenceIsPlaced
<1>2. PICK place : IsPlacement(place, q, s, chosen)
  BY SubsequenceIsPlaced
<1> HIDE DEF q
<1> SUFFICES ASSUME NEW k \in DOMAIN q, NEW l \in DOMAIN q, q[k].event = q[l].event, k # l
             PROVE  FALSE
  BY DEF EachOnce, q
<1>3. place[k] \in DOMAIN s /\ place[l] \in DOMAIN s /\ q[k] = s[place[k]] /\ q[l] = s[place[l]]
  BY <1>2 DEF IsPlacement
<1>4. place[k] = place[l]
  BY <1>3 DEF EachOnce
<1>5. k \in Nat /\ l \in Nat /\ place[k] \in Nat
  BY <1>1, <1>3
<1>6. k < l \/ l < k
  BY <1>5
<1>7. k < l => place[k] < place[l]
  BY <1>2 DEF IsPlacement
<1>8. l < k => place[l] < place[k]
  BY <1>2 DEF IsPlacement
<1> QED BY <1>4, <1>5, <1>6, <1>7, <1>8

LEMMA OnlyElements ==
  ASSUME NEW T, NEW s \in Seq(T), NEW events
  PROVE  /\ Only(s, events) \in Seq(T)
         /\ Len(Only(s, events)) <= Len(s)
         /\ ToSet(Only(s, events)) = {x \in ToSet(s) : x.event \in events}
         /\ EachOnce(s) => EachOnce(Only(s, events))
<1> DEFINE chosen == {i \in DOMAIN s : s[i].event \in events}
           q == Subsequence(s, chosen)
<1>1. Only(s, events) = q
  BY DEF Only
<1>2. q \in Seq(T) /\ (\A k \in DOMAIN q : \E i \in chosen \cap DOMAIN s : q[k] = s[i])
      /\ \A i \in chosen \cap DOMAIN s : \E k \in DOMAIN q : q[k] = s[i]
  <2> HIDE DEF chosen
  <2> QED BY SubsequenceElements
<1>3. Len(q) <= Len(s)
  BY SubsequenceLength
<1>4. EachOnce(s) => EachOnce(q)
  BY SubsequenceOnce
<1> HIDE DEF q
<1>5. ToSet(q) = {x \in ToSet(s) : x.event \in events}
  BY <1>2 DEF ToSet
<1> QED BY <1>1, <1>2, <1>3, <1>4, <1>5

LEMMA WithoutElements ==
  ASSUME NEW T, NEW s \in Seq(T), NEW events
  PROVE  /\ Without(s, events) \in Seq(T)
         /\ Len(Without(s, events)) <= Len(s)
         /\ ToSet(Without(s, events)) = {x \in ToSet(s) : x.event \notin events}
         /\ EachOnce(s) => EachOnce(Without(s, events))
<1> DEFINE chosen == {i \in DOMAIN s : s[i].event \notin events}
           q == Subsequence(s, chosen)
<1>1. Without(s, events) = q
  BY DEF Without
<1>2. q \in Seq(T) /\ (\A k \in DOMAIN q : \E i \in chosen \cap DOMAIN s : q[k] = s[i])
      /\ \A i \in chosen \cap DOMAIN s : \E k \in DOMAIN q : q[k] = s[i]
  <2> HIDE DEF chosen
  <2> QED BY SubsequenceElements
<1>3. Len(q) <= Len(s)
  BY SubsequenceLength
<1>4. EachOnce(s) => EachOnce(q)
  BY SubsequenceOnce
<1> HIDE DEF q
<1>5. ToSet(q) = {x \in ToSet(s) : x.event \notin events}
  BY <1>2 DEF ToSet
<1> QED BY <1>1, <1>2, <1>3, <1>4, <1>5

LEMMA OnlyLine ==
  ASSUME NEW s, IsLine(s), NEW events
  PROVE  /\ IsLine(Only(s, events))
         /\ ToSet(Only(s, events)) = {x \in ToSet(s) : x.event \in events}
         /\ EventsOf(Only(s, events)) = EventsOf(s) \cap events
<1>1. IsLine(Only(s, events)) /\ ToSet(Only(s, events)) = {x \in ToSet(s) : x.event \in events}
  BY OnlyElements DEF IsLine
<1> QED BY <1>1 DEF EventsOf

LEMMA WithoutLine ==
  ASSUME NEW s, IsLine(s), NEW events
  PROVE  /\ IsLine(Without(s, events))
         /\ Len(Without(s, events)) <= Len(s)
         /\ Bytes(Without(s, events)) <= Bytes(s)
         /\ ToSet(Without(s, events)) = {x \in ToSet(s) : x.event \notin events}
         /\ EventsOf(Without(s, events)) = EventsOf(s) \ events
<1>1. IsLine(Without(s, events)) /\ Len(Without(s, events)) <= Len(s)
      /\ ToSet(Without(s, events)) = {x \in ToSet(s) : x.event \notin events}
  BY WithoutElements DEF IsLine
<1>2. Bytes(Without(s, events)) <= Bytes(s)
  BY LineType, BytesSubsequence DEF Without
<1> QED BY <1>1, <1>2 DEF EventsOf

-----------------------------------------------------------------------------
(* The in-memory queue.                                                    *)

InBounds(q) == Len(q) <= QueueLimit /\ Bytes(q) <= QueueBytes
Calm(entries) == \A x \in entries : x.event \notin Urgent
AllUrgent(entries) == \A x \in entries : x.event \in Urgent

\* What is evicted to make room: entries of the queue; urgent ones only if
\* they may be, and only after all the others.
LEMMA RoomIsMade ==
  ASSUME NEW q, IsLine(q), NEW entry \in Retryable, NEW m \in BOOLEAN,
         NEW room, room = MakeRoom(q, entry, m)
  PROVE  /\ IsLine(room.queue) /\ Len(room.queue) <= Len(q) /\ Bytes(room.queue) <= Bytes(q)
         /\ room.dropped \subseteq ToSet(q)
         /\ ToSet(room.queue) = ToSet(q) \ room.dropped
         /\ room.fits \in BOOLEAN
         /\ room.fits => Fits(room.queue, entry)
         /\ m => room.fits
         /\ Calm(room.dropped) \/ (m /\ AllUrgent(ToSet(room.queue)))
<1> DEFINE R == RoutinePart(q)
           U == IF m THEN UrgentPart(q) ELSE <<>>
           order == R \o U
           Left(n) == Without(q, EventsOf(SubSeq(order, 1, n)))
           enough == {n \in 0..Len(order) : Fits(Left(n), entry)}
           evicted == IF enough = {} THEN Len(order) ELSE Min(enough)
<1>1. /\ room.queue = Left(evicted)
      /\ room.dropped = ToSet(SubSeq(order, 1, evicted))
      /\ room.fits = (enough # {})
  BY DEF MakeRoom
<1>2. R \in Seq(Retryable) /\ ToSet(R) = {x \in ToSet(q) : x.event \notin Urgent}
  BY WithoutLine DEF RoutinePart, IsLine
<1>3. U \in Seq(Retryable) /\ ToSet(U) = {x \in ToSet(q) : m /\ x.event \in Urgent}
  <2>1. UrgentPart(q) \in Seq(Retryable) /\ ToSet(UrgentPart(q)) = {x \in ToSet(q) : x.event \in Urgent}
    BY OnlyLine DEF UrgentPart, IsLine
  <2>2. <<>> \in Seq(Retryable) /\ ToSet(<<>>) = {}
    BY DEF ToSet
  <2> QED BY <2>1, <2>2
<1> HIDE DEF R, U
<1>4. PICK r \in Nat, u \in Nat : r = Len(R) /\ u = Len(U)
  BY <1>2, <1>3
<1>5. /\ order \in Seq(Retryable) /\ Len(order) = r + u
      /\ \A i \in 1..r : order[i] = R[i]
      /\ \A i \in 1..u : order[r + i] = U[i]
  BY <1>2, <1>3, <1>4
<1> HIDE DEF order
<1>6. enough \subseteq 0..(r + u)
  BY <1>5
<1>7. enough # {} => Min(enough) \in enough
  <2> HIDE DEF enough
  <2> SUFFICES ASSUME enough # {} PROVE Min(enough) \in enough
    OBVIOUS
  <2>1. enough \in SUBSET Nat
    BY <1>6
  <2>2. \E n \in enough : \A k \in enough : n <= k
    BY <2>1, LeastNumber
  <2> QED BY <2>2 DEF Min
<1>8. PICK n \in 0..(r + u) : n = evicted
  <2> HIDE DEF enough
  <2>1. enough # {} => Min(enough) \in 0..(r + u)
    BY <1>6, <1>7
  <2>2. r + u \in 0..(r + u)
    OBVIOUS
  <2> QED BY <1>5, <2>1, <2>2
<1>9. (enough # {} => n \in enough) /\ (enough = {} => n = r + u)
  BY <1>5, <1>7, <1>8
<1> DEFINE gone == SubSeq(order, 1, n)
<1>10. Len(gone) = n /\ \A i \in 1..n : gone[i] = order[i]
  BY <1>5
<1>11. gone \in Seq(Retryable) /\ ToSet(gone) = {order[i] : i \in 1..n}
  <2>1. gone \in Seq(Retryable)
    BY <1>5
  <2> HIDE DEF gone
  <2>2. DOMAIN gone = 1..n
    BY <1>10, <2>1
  <2> QED BY <1>10, <2>1, <2>2 DEF ToSet
<1>12. room.queue = Without(q, EventsOf(gone)) /\ room.dropped = ToSet(gone)
  BY <1>1, <1>8
<1>13. room.fits => Fits(room.queue, entry)
  BY <1>1, <1>8, <1>9
<1> HIDE DEF gone
<1>14. ToSet(order) = ToSet(R) \cup ToSet(U)
  <2>1. DOMAIN order = 1..(r + u) /\ DOMAIN R = 1..r /\ DOMAIN U = 1..u
    BY <1>2, <1>3, <1>4, <1>5
  <2>2. ASSUME NEW i \in 1..(r + u) PROVE order[i] \in ToSet(R) \cup ToSet(U)
    <3>1. CASE i \in 1..r
      BY <1>5, <2>1, <3>1 DEF ToSet
    <3>2. CASE i \notin 1..r
      <4>1. i - r \in 1..u /\ r + (i - r) = i
        BY <3>2
      <4>2. order[i] = U[i - r]
        BY <1>5, <4>1
      <4> QED BY <2>1, <4>1, <4>2 DEF ToSet
    <3> QED BY <3>1, <3>2
  <2>3. ASSUME NEW i \in 1..r PROVE R[i] \in ToSet(order)
    BY <1>5, <2>1 DEF ToSet
  <2>4. ASSUME NEW i \in 1..u PROVE U[i] \in ToSet(order)
    <3>1. r + i \in 1..(r + u)
      OBVIOUS
    <3> QED BY <1>5, <2>1, <3>1 DEF ToSet
  <2> QED BY <2>1, <2>2, <2>3, <2>4 DEF ToSet
<1>15. ToSet(gone) \subseteq ToSet(order)
  <2>1. 1..n \subseteq DOMAIN order
    BY <1>5
  <2> QED BY <1>11, <2>1 DEF ToSet
<1>16. room.dropped \subseteq ToSet(q)
  BY <1>2, <1>3, <1>12, <1>14, <1>15
<1>17. /\ IsLine(room.queue) /\ Len(room.queue) <= Len(q) /\ Bytes(room.queue) <= Bytes(q)
       /\ ToSet(room.queue) = {x \in ToSet(q) : x.event \notin EventsOf(gone)}
  BY <1>12, WithoutLine
<1>18. ToSet(room.queue) = ToSet(q) \ room.dropped
  <2>1. \A x, y \in ToSet(q) : x.event = y.event => x = y
    BY DEF IsLine, EachOnce, ToSet
  <2>2. EventsOf(gone) = {x.event : x \in room.dropped}
    BY <1>12 DEF EventsOf
  <2> QED BY <1>16, <1>17, <2>1, <2>2
<1>19. m => room.fits
  <2> SUFFICES ASSUME m, enough = {} PROVE FALSE
    BY <1>1
  <2>1. n = r + u
    BY <1>9
  <2>2. ToSet(gone) = ToSet(q)
    <3>1. ToSet(gone) = ToSet(order)
      <4>1. DOMAIN order = 1..(r + u)
        BY <1>5
      <4> QED BY <1>11, <2>1, <4>1 DEF ToSet
    <3> QED BY <1>2, <1>3, <1>14, <3>1
  <2>3. ToSet(room.queue) = {}
    BY <1>12, <1>18, <2>2
  <2>4. room.queue = <<>>
    BY <1>17, <2>3, EmptyLine DEF IsLine
  <2>5. Fits(<<>>, entry)
    <3>1. Size[entry.event] \in Nat /\ Size[entry.event] <= QueueBytes
      BY SizesAreNumbers DEF Retryable
    <3> QED BY <3>1, BytesOfNothing, BoundsAssumption DEF Fits
  <2>6. Fits(Left(n), entry)
    BY <1>1, <1>8, <2>4, <2>5
  <2>7. n \in enough
    BY <1>5, <2>6
  <2> QED BY <2>7
<1>20. Calm(room.dropped) \/ (m /\ AllUrgent(ToSet(room.queue)))
  <2>0. ASSUME NEW x \in room.dropped, x.event \in Urgent
        PROVE  m /\ AllUrgent(ToSet(room.queue))
    <3>1. PICK i \in 1..n : x = order[i]
      BY <1>11, <1>12
    <3>2. i \notin 1..r
      <4>1. ASSUME i \in 1..r PROVE R[i] \in ToSet(R)
        BY <1>2, <1>4, <4>1 DEF ToSet
      <4> QED BY <1>2, <1>5, <2>0, <3>1, <4>1
    <3>3. m
      BY <1>2, <1>3, <1>12, <1>14, <1>15, <2>0
    <3>4. ToSet(R) \subseteq ToSet(gone)
      <4>1. 1..r \subseteq 1..n
        BY <3>2
      <4>2. DOMAIN R = 1..r
        BY <1>2, <1>4
      <4> QED BY <1>5, <1>11, <4>1, <4>2 DEF ToSet
    <3> QED BY <1>2, <1>12, <1>18, <3>3, <3>4 DEF AllUrgent
  <2>1. CASE Calm(room.dropped)
    BY <2>1
  <2>2. CASE ~Calm(room.dropped)
    <3>1. PICK x \in room.dropped : x.event \in Urgent
      BY <2>2 DEF Calm
    <3> QED BY <2>0, <3>1
  <2> QED BY <2>1, <2>2
<1> QED BY <1>1, <1>13, <1>16, <1>17, <1>18, <1>19, <1>20

\* A line grows by an entry whose event it does not hold, at either end.
LEMMA AppendLine ==
  ASSUME NEW s, IsLine(s), NEW x \in Retryable, x.event \notin EventsOf(s)
  PROVE  /\ IsLine(Append(s, x)) /\ ToSet(Append(s, x)) = ToSet(s) \cup {x}
         /\ Len(Append(s, x)) = Len(s) + 1
         /\ Bytes(Append(s, x)) = Bytes(s) + Size[x.event]
<1>0. PICK n \in Nat : n = Len(s)
  BY DEF IsLine
<1> DEFINE t == Append(s, x)
<1>1. t \in Seq(Retryable) /\ Len(t) = n + 1 /\ t[n + 1] = x /\ \A i \in 1..n : t[i] = s[i]
  BY <1>0 DEF IsLine
<1>2. Bytes(t) = Bytes(s) + Size[x.event]
  BY LineType, RetryableIsEntry, BytesAppend
<1> HIDE DEF t
<1>3. DOMAIN t = 1..(n + 1) /\ DOMAIN s = 1..n
  BY <1>0, <1>1 DEF IsLine
<1>4. \A i \in 1..(n + 1) : i \in 1..n \/ i = n + 1
  OBVIOUS
<1>5. 1..n \subseteq 1..(n + 1) /\ n + 1 \in 1..(n + 1)
  OBVIOUS
<1>6. ToSet(t) = ToSet(s) \cup {x}
  BY <1>1, <1>3, <1>4, <1>5 DEF ToSet
<1>7. \A i \in 1..n : s[i].event # x.event
  BY <1>3 DEF EventsOf, ToSet
<1>8. EachOnce(t)
  BY <1>1, <1>3, <1>4, <1>7 DEF EachOnce, IsLine
<1> QED BY <1>0, <1>1, <1>2, <1>6, <1>8 DEF t, IsLine

LEMMA PrependLine ==
  ASSUME NEW s, IsLine(s), NEW x \in Retryable, x.event \notin EventsOf(s)
  PROVE  /\ IsLine(<<x>> \o s) /\ ToSet(<<x>> \o s) = ToSet(s) \cup {x}
         /\ Len(<<x>> \o s) = Len(s) + 1
         /\ Bytes(<<x>> \o s) = Bytes(s) + Size[x.event]
<1>0. PICK n \in Nat : n = Len(s)
  BY DEF IsLine
<1> DEFINE t == <<x>> \o s
<1>1. t \in Seq(Retryable) /\ Len(t) = n + 1 /\ t[1] = x /\ \A i \in 1..n : t[i + 1] = s[i]
  BY <1>0 DEF IsLine
<1>2. Bytes(t) = Bytes(s) + Size[x.event]
  BY LineType, RetryableIsEntry, BytesPrepend
<1> HIDE DEF t
<1>3. DOMAIN t = 1..(n + 1) /\ DOMAIN s = 1..n
  BY <1>0, <1>1 DEF IsLine
<1>4. \A i \in 1..(n + 1) : i = 1 \/ (i - 1 \in 1..n /\ t[i] = s[i - 1])
  <2> SUFFICES ASSUME NEW i \in 1..(n + 1), i # 1 PROVE i - 1 \in 1..n /\ t[i] = s[i - 1]
    OBVIOUS
  <2>1. i - 1 \in 1..n /\ (i - 1) + 1 = i
    OBVIOUS
  <2> QED BY <1>1, <2>1
<1>5. (\A i \in 1..n : i + 1 \in 1..(n + 1)) /\ 1 \in 1..(n + 1)
  OBVIOUS
<1>6. ToSet(t) = ToSet(s) \cup {x}
  <2>1. ASSUME NEW i \in 1..(n + 1) PROVE t[i] \in ToSet(s) \cup {x}
    BY <1>1, <1>3, <1>4 DEF ToSet
  <2>2. ASSUME NEW i \in 1..n PROVE s[i] \in ToSet(t)
    BY <1>1, <1>3, <1>5 DEF ToSet
  <2>3. x \in ToSet(t)
    BY <1>1, <1>3, <1>5 DEF ToSet
  <2> QED BY <1>3, <2>1, <2>2, <2>3 DEF ToSet
<1>7. \A i \in 1..n : s[i].event # x.event
  BY <1>3 DEF EventsOf, ToSet
<1>8. EachOnce(t)
  <2> SUFFICES ASSUME NEW i \in 1..(n + 1), NEW j \in 1..(n + 1), t[i].event = t[j].event
               PROVE  i = j
    BY <1>3 DEF EachOnce
  <2>1. CASE i # 1 /\ j # 1
    <3>1. i - 1 = j - 1
      BY <1>3, <1>4, <2>1, SMTT(40) DEF EachOnce, IsLine
    <3> QED BY <3>1
  <2>2. CASE i = 1 \/ j = 1
    BY <1>1, <1>4, <1>7, <2>2
  <2> QED BY <2>1, <2>2
<1> QED BY <1>0, <1>1, <1>2, <1>6, <1>8 DEF t, IsLine

\* A queue with room for one more stays within its bounds.
LEMMA OneMoreFits ==
  ASSUME NEW q, IsLine(q), NEW x \in Retryable, Fits(q, x), NEW t, IsLine(t),
         Len(t) = Len(q) + 1, Bytes(t) = Bytes(q) + Size[x.event]
  PROVE  InBounds(t)
<1>1. Len(q) \in Nat
  BY DEF IsLine
<1> QED BY <1>1, BoundsAssumption DEF InBounds, Fits

LEMMA Enqueued ==
  ASSUME NEW q, IsLine(q), InBounds(q), NEW entry \in Retryable, entry.event \notin EventsOf(q),
         NEW added, added = Enqueue(q, entry)
  PROVE  /\ IsLine(added.queue) /\ InBounds(added.queue)
         /\ added.fits \in BOOLEAN /\ added.dropped \subseteq ToSet(q)
         /\ ToSet(added.queue) = (ToSet(q) \ added.dropped) \cup {x \in {entry} : added.fits}
         /\ entry.event \in Urgent => added.fits
         /\ Calm(added.dropped) \/ (entry.event \in Urgent /\ AllUrgent(ToSet(added.queue)))
<1> DEFINE urgent == entry.event \in Urgent
<1>1. PICK room : room = MakeRoom(q, entry, urgent)
  OBVIOUS
<1>2. /\ added.queue = IF room.fits THEN Append(room.queue, entry) ELSE room.queue
      /\ added.dropped = room.dropped /\ added.fits = room.fits
  BY <1>1 DEF Enqueue, MakeRoom
<1>3. urgent \in BOOLEAN
  OBVIOUS
<1>4. /\ IsLine(room.queue) /\ Len(room.queue) <= Len(q) /\ Bytes(room.queue) <= Bytes(q)
      /\ room.dropped \subseteq ToSet(q)
      /\ ToSet(room.queue) = ToSet(q) \ room.dropped
      /\ room.fits \in BOOLEAN
      /\ room.fits => Fits(room.queue, entry)
      /\ urgent => room.fits
      /\ Calm(room.dropped) \/ (urgent /\ AllUrgent(ToSet(room.queue)))
  BY <1>1, <1>3, RoomIsMade, ZenonT(60)
<1>5. CASE room.fits
  <2>1. entry.event \notin EventsOf(room.queue)
    BY <1>4 DEF EventsOf
  <2>2. /\ IsLine(added.queue) /\ ToSet(added.queue) = ToSet(room.queue) \cup {entry}
        /\ Len(added.queue) = Len(room.queue) + 1
        /\ Bytes(added.queue) = Bytes(room.queue) + Size[entry.event]
    BY <1>2, <1>4, <1>5, <2>1, AppendLine
  <2>3. InBounds(added.queue)
    BY <1>4, <1>5, <2>2, OneMoreFits
  <2>4. urgent /\ AllUrgent(ToSet(room.queue)) => AllUrgent(ToSet(added.queue))
    BY <2>2 DEF AllUrgent
  <2> QED BY <1>2, <1>4, <1>5, <2>2, <2>3, <2>4
<1>6. CASE ~room.fits
  <2>1. InBounds(room.queue)
    <3>1. Len(room.queue) \in Nat /\ Len(q) \in Nat
      BY <1>4 DEF IsLine
    <3>2. Bytes(room.queue) \in Nat /\ Bytes(q) \in Nat
      BY <1>4, LineType, BytesType
    <3> QED BY <1>4, <3>1, <3>2, BoundsAssumption DEF InBounds
  <2> QED BY <1>2, <1>4, <1>6, <2>1
<1> QED BY <1>4, <1>5, <1>6

\* Restoring an entry: what was queued stays or is dropped.
LEMMA RestoredOne ==
  ASSUME NEW x, IsLine(x.queue), InBounds(x.queue), NEW entry \in Retryable,
         NEW y, y = RestoreOne(x, entry)
  PROVE  /\ IsLine(y.queue) /\ InBounds(y.queue)
         /\ ToSet(y.queue) \subseteq ToSet(x.queue) \cup {entry}
         /\ x.dropped \subseteq y.dropped
         /\ y.dropped \subseteq x.dropped \cup ToSet(x.queue) \cup {entry}
         /\ ToSet(x.queue) \subseteq ToSet(y.queue) \cup y.dropped
<1>1. CASE entry.event \in EventsOf(x.queue)
  <2>1. y = x
    BY <1>1 DEF RestoreOne
  <2> QED BY <2>1
<1>2. CASE entry.event \notin EventsOf(x.queue)
  <2>1. PICK added : added = Enqueue(x.queue, entry)
    OBVIOUS
  <2>2. /\ y.queue = added.queue
        /\ y.dropped = x.dropped \cup added.dropped \cup {e \in {entry} : ~added.fits}
    BY <1>2, <2>1 DEF RestoreOne
  <2>3. /\ IsLine(added.queue) /\ InBounds(added.queue) /\ added.dropped \subseteq ToSet(x.queue)
        /\ ToSet(added.queue) = (ToSet(x.queue) \ added.dropped) \cup {e \in {entry} : added.fits}
    BY <1>2, <2>1, Enqueued
  <2> QED BY <2>2, <2>3
<1> QED BY <1>1, <1>2

\* The states a queue goes through while entries come back to it.
Refills == {x \in [queue : Seq(Retryable), dropped : SUBSET Retryable] :
              IsLine(x.queue) /\ InBounds(x.queue)}

LEMMA Restored ==
  ASSUME NEW q, IsLine(q), InBounds(q), NEW entries \in Seq(Retryable),
         NEW result, result = Restore(q, entries)
  PROVE  /\ IsLine(result.queue) /\ InBounds(result.queue)
         /\ ToSet(result.queue) \subseteq ToSet(q) \cup ToSet(entries)
         /\ result.dropped \subseteq ToSet(q) \cup ToSet(entries)
         /\ ToSet(q) \subseteq ToSet(result.queue) \cup result.dropped
<1>0. PICK n \in Nat : n = Len(entries)
  OBVIOUS
<1> DEFINE base == [queue |-> q, dropped |-> {}]
           Body(i, x) == RestoreOne(x, entries[i])
           Is(g) == g = [i \in 0..n |-> IF i = 0 THEN base ELSE Body(i, g[i - 1])]
           Step == [i \in 1..n |-> [x \in Refills |-> Body(i, x)]]
           f == CHOOSE g : Is(g)
<1>1. result = f[n]
  BY <1>0 DEF Restore
<1>2. \A i \in 1..n : entries[i] \in Retryable /\ entries[i] \in ToSet(entries)
  BY <1>0 DEF ToSet
<1>3. base \in Refills /\ base.queue = q /\ base.dropped = {}
  BY DEF Refills, IsLine
<1>4. ASSUME NEW i \in 1..n, NEW x \in Refills
      PROVE  /\ Body(i, x) \in Refills
             /\ ToSet(Body(i, x).queue) \subseteq ToSet(x.queue) \cup ToSet(entries)
             /\ Body(i, x).dropped \subseteq x.dropped \cup ToSet(x.queue) \cup ToSet(entries)
             /\ x.dropped \subseteq Body(i, x).dropped
             /\ ToSet(x.queue) \subseteq ToSet(Body(i, x).queue) \cup Body(i, x).dropped
  <2>1. PICK entry \in Retryable : entry = entries[i]
    BY <1>2
  <2>2. PICK y : y = RestoreOne(x, entry)
    OBVIOUS
  <2>3. x \in [queue : Seq(Retryable), dropped : SUBSET Retryable]
        /\ IsLine(x.queue) /\ InBounds(x.queue)
    BY DEF Refills
  <2>4. /\ IsLine(y.queue) /\ InBounds(y.queue)
        /\ ToSet(y.queue) \subseteq ToSet(x.queue) \cup {entry}
        /\ x.dropped \subseteq y.dropped
        /\ y.dropped \subseteq x.dropped \cup ToSet(x.queue) \cup {entry}
        /\ ToSet(x.queue) \subseteq ToSet(y.queue) \cup y.dropped
    BY <2>2, <2>3, RestoredOne
  <2>5. y = [queue |-> y.queue, dropped |-> y.dropped]
    BY <2>2, <2>3 DEF RestoreOne
  <2>6. y.dropped \subseteq Retryable
    BY <2>3, <2>4, LineType
  <2>7. y \in Refills
    BY <2>4, <2>5, <2>6 DEF Refills, IsLine
  <2> QED BY <1>2, <2>1, <2>2, <2>4, <2>7
<1> HIDE DEF Body, base
<1>5. Step \in StepsOn(n, Refills) /\ \A i \in 1..n, x \in Refills : Step[i][x] = Body(i, x)
  BY <1>4 DEF StepsOn
<1> HIDE DEF Step
<1>6. PICK g : IsRecursion(g, n, Refills, base, Step)
  BY <1>3, <1>5, RecursionExists
<1>7. \A i \in 1..n : i \in 0..n /\ i - 1 \in 0..n /\ i # 0
  OBVIOUS
<1>8. Is(g)
  <2>1. \A i \in 1..n : g[i] = Body(i, g[i - 1])
    BY <1>5, <1>6, <1>7 DEF IsRecursion
  <2>2. \A i \in 0..n : g[i] = IF i = 0 THEN base ELSE Body(i, g[i - 1])
    BY <2>1, <1>6 DEF IsRecursion
  <2> QED BY <2>2, <1>6 DEF IsRecursion
<1>9. Is(f)
  <2> HIDE DEF Is
  <2> QED BY <1>8
<1> HIDE DEF f
<1>10. f[0] = base /\ \A i \in 1..n : f[i] = Body(i, f[i - 1])
  BY <1>7, <1>9
<1> DEFINE Good == {i \in 0..n : /\ f[i] \in Refills
                                 /\ ToSet(f[i].queue) \subseteq ToSet(q) \cup ToSet(entries)
                                 /\ f[i].dropped \subseteq ToSet(q) \cup ToSet(entries)
                                 /\ ToSet(q) \subseteq ToSet(f[i].queue) \cup f[i].dropped}
<1>11. 0 \in Good
  BY <1>3, <1>10
<1>12. ASSUME NEW i \in 1..n, i - 1 \in Good PROVE i \in Good
  <2>1. PICK x \in Refills : x = f[i - 1]
    BY <1>12
  <2>2. f[i] = Body(i, x)
    BY <1>10, <2>1
  <2>3. /\ ToSet(x.queue) \subseteq ToSet(q) \cup ToSet(entries)
        /\ x.dropped \subseteq ToSet(q) \cup ToSet(entries)
        /\ ToSet(q) \subseteq ToSet(x.queue) \cup x.dropped
    BY <1>12, <2>1
  <2> QED BY <1>4, <1>7, <2>2, <2>3
<1>13. n \in Good
  <2> HIDE DEF Good
  <2>1. 0..n \subseteq Good
    BY <1>11, <1>12, UpToInduction
  <2> QED BY <2>1
<1> QED BY <1>1, <1>13 DEF Refills

\* Putting an entry back at the front always succeeds.
LEMMA PrependedOne ==
  ASSUME NEW x, IsLine(x.queue), InBounds(x.queue), NEW entry \in Retryable,
         entry.event \notin EventsOf(x.queue), NEW y, y = PrependOne(x, entry)
  PROVE  /\ IsLine(y.queue) /\ InBounds(y.queue)
         /\ x.dropped \subseteq y.dropped /\ y.dropped \subseteq x.dropped \cup ToSet(x.queue)
         /\ ToSet(x.queue) \cap x.dropped = {}
              => ToSet(y.queue) = (ToSet(x.queue) \ y.dropped) \cup {entry}
<1>1. PICK room : room = MakeRoom(x.queue, entry, TRUE)
  OBVIOUS
<1>2. /\ IsLine(room.queue) /\ room.dropped \subseteq ToSet(x.queue)
      /\ ToSet(room.queue) = ToSet(x.queue) \ room.dropped
      /\ Fits(room.queue, entry)
  BY <1>1, RoomIsMade
<1>3. y = [queue |-> <<entry>> \o room.queue, dropped |-> x.dropped \cup room.dropped]
  BY <1>1 DEF PrependOne
<1>4. entry.event \notin EventsOf(room.queue)
  BY <1>2 DEF EventsOf
<1>5. PICK t : t = <<entry>> \o room.queue
  OBVIOUS
<1>6. /\ IsLine(t) /\ ToSet(t) = ToSet(room.queue) \cup {entry}
      /\ Len(t) = Len(room.queue) + 1 /\ Bytes(t) = Bytes(room.queue) + Size[entry.event]
  BY <1>2, <1>4, <1>5, PrependLine
<1>7. InBounds(t)
  BY <1>2, <1>6, OneMoreFits
<1>8. y.queue = t /\ y.dropped = x.dropped \cup room.dropped
  BY <1>3, <1>5
<1> QED BY <1>2, <1>3, <1>6, <1>7, <1>8

LEMMA Prepended ==
  ASSUME NEW q, IsLine(q), InBounds(q), NEW entries, IsLine(entries),
         EventsOf(q) \cap EventsOf(entries) = {}, NEW result, result = Prepend(q, entries)
  PROVE  /\ IsLine(result.queue) /\ InBounds(result.queue)
         /\ result.dropped \subseteq ToSet(q) \cup ToSet(entries)
         /\ ToSet(result.queue) = (ToSet(q) \cup ToSet(entries)) \ result.dropped
<1>0. PICK n \in Nat : n = Len(entries)
  BY DEF IsLine
<1> DEFINE last == n + 1
           base == [queue |-> q, dropped |-> {}]
           Body(i, x) == PrependOne(x, entries[last - i])
           Fresh(i, x) == entries[last - i].event \notin EventsOf(x.queue)
           Is(g) == g = [i \in 0..n |-> IF i = 0 THEN base ELSE Body(i, g[i - 1])]
           Step == [i \in 1..n |-> [x \in Refills |-> IF Fresh(i, x) THEN Body(i, x) ELSE x]]
           f == CHOOSE g : Is(g)
           Back(i) == {entries[k] : k \in (last - i)..n}
<1>1. result = f[n]
  BY <1>0 DEF Prepend
<1>2. \A i \in 1..n : last - i \in 1..n /\ entries[last - i] \in Retryable
  <2> SUFFICES ASSUME NEW i \in 1..n PROVE last - i \in 1..n /\ entries[last - i] \in Retryable
    OBVIOUS
  <2>1. last - i \in 1..n
    OBVIOUS
  <2> QED BY <1>0, <2>1 DEF IsLine
<1>3. base \in Refills /\ base.queue = q /\ base.dropped = {}
  BY DEF Refills, IsLine
<1>4. ASSUME NEW i \in 1..n, NEW x \in Refills, Fresh(i, x)
      PROVE  /\ Body(i, x) \in Refills
             /\ x.dropped \subseteq Body(i, x).dropped
             /\ Body(i, x).dropped \subseteq x.dropped \cup ToSet(x.queue)
             /\ ToSet(x.queue) \cap x.dropped = {}
                  => ToSet(Body(i, x).queue)
                       = (ToSet(x.queue) \ Body(i, x).dropped) \cup {entries[last - i]}
  <2>1. PICK entry \in Retryable : entry = entries[last - i]
    BY <1>2
  <2>2. PICK y : y = PrependOne(x, entry)
    OBVIOUS
  <2>3. x \in [queue : Seq(Retryable), dropped : SUBSET Retryable]
        /\ IsLine(x.queue) /\ InBounds(x.queue)
    BY DEF Refills
  <2>4. /\ IsLine(y.queue) /\ InBounds(y.queue)
        /\ x.dropped \subseteq y.dropped /\ y.dropped \subseteq x.dropped \cup ToSet(x.queue)
        /\ ToSet(x.queue) \cap x.dropped = {}
             => ToSet(y.queue) = (ToSet(x.queue) \ y.dropped) \cup {entry}
    <3>1. entry.event \notin EventsOf(x.queue)
      BY <1>4, <2>1
    <3> QED BY <2>2, <2>3, <3>1, PrependedOne
  <2>5. y.dropped \subseteq Retryable
    BY <2>3, <2>4, LineType
  <2>6. y = [queue |-> y.queue, dropped |-> y.dropped]
    BY <2>2 DEF PrependOne
  <2>7. y \in Refills
    BY <2>4, <2>5, <2>6 DEF Refills, IsLine
  <2> QED BY <2>1, <2>2, <2>4, <2>7
<1>5. \A i \in 1..n : i \in 0..n /\ i - 1 \in 0..n /\ i # 0
  OBVIOUS
<1>6. Back(0) = {} /\ Back(n) = ToSet(entries)
      /\ \A i \in 1..n : Back(i) = Back(i - 1) \cup {entries[last - i]}
  <2>1. Back(0) = {}
    OBVIOUS
  <2>2. Back(n) = ToSet(entries)
    <3>1. DOMAIN entries = 1..n
      BY <1>0 DEF IsLine
    <3>2. last - n = 1
      OBVIOUS
    <3> QED BY <3>1, <3>2 DEF ToSet
  <2>3. ASSUME NEW i \in 1..n PROVE Back(i) = Back(i - 1) \cup {entries[last - i]}
    <3>1. (last - i)..n = ((last - (i - 1))..n) \cup {last - i}
      OBVIOUS
    <3> QED BY <3>1
  <2> QED BY <2>1, <2>2, <2>3
<1>7. \A i \in 1..n : entries[last - i] \notin Back(i - 1)
                      /\ entries[last - i].event \notin {x.event : x \in Back(i - 1)}
                      /\ entries[last - i].event \notin EventsOf(q)
  <2> SUFFICES ASSUME NEW i \in 1..n
               PROVE  /\ entries[last - i].event \notin {x.event : x \in Back(i - 1)}
                      /\ entries[last - i].event \notin EventsOf(q)
    OBVIOUS
  <2>1. DOMAIN entries = 1..n
    BY <1>0 DEF IsLine
  <2>2. entries[last - i].event \notin EventsOf(q)
    BY <1>2, <2>1 DEF EventsOf, ToSet
  <2>3. \A k \in (last - (i - 1))..n : k \in 1..n /\ k # last - i
    OBVIOUS
  <2>4. \A k \in (last - (i - 1))..n : entries[k].event # entries[last - i].event
    BY <1>2, <2>1, <2>3 DEF IsLine, EachOnce
  <2> QED BY <2>2, <2>4
<1>8. \A i \in 1..n : Back(i - 1) \subseteq Retryable
  <2>1. Back(n) \subseteq Retryable
    BY <1>6, LineType
  <2>2. \A i \in 1..n : Back(i - 1) \subseteq Back(n)
    <3>1. ASSUME NEW i \in 1..n PROVE (last - (i - 1))..n \subseteq (last - n)..n
      OBVIOUS
    <3> QED BY <3>1
  <2> QED BY <2>1, <2>2
<1> HIDE DEF Body, base, Back, last
<1>9. Step \in StepsOn(n, Refills)
      /\ \A i \in 1..n, x \in Refills : Step[i][x] = IF Fresh(i, x) THEN Body(i, x) ELSE x
  <2> HIDE DEF Fresh
  <2> QED BY <1>4 DEF StepsOn
<1> HIDE DEF Step
<1>10. PICK g : IsRecursion(g, n, Refills, base, Step)
  BY <1>3, <1>9, RecursionExists
<1> DEFINE Right(i) == /\ g[i] \in Refills
                       /\ g[i].dropped \subseteq ToSet(q) \cup Back(i)
                       /\ ToSet(g[i].queue) = (ToSet(q) \cup Back(i)) \ g[i].dropped
<1>11. Right(0)
  BY <1>3, <1>6, <1>10 DEF IsRecursion
<1>12. ASSUME NEW i \in 1..n, Right(i - 1)
       PROVE  Right(i) /\ g[i] = Body(i, g[i - 1])
  <2>1. PICK x \in Refills : x = g[i - 1]
    BY <1>12
  <2>2. /\ x.dropped \subseteq ToSet(q) \cup Back(i - 1)
        /\ ToSet(x.queue) = (ToSet(q) \cup Back(i - 1)) \ x.dropped
    BY <1>12, <2>1
  <2>3. Fresh(i, x)
    BY <1>7, <2>2 DEF EventsOf
  <2>4. g[i] = Body(i, x)
    <3> HIDE DEF Fresh
    <3> QED BY <1>9, <1>10, <2>1, <2>3 DEF IsRecursion
  <2>5. /\ x.dropped \subseteq Body(i, x).dropped
        /\ Body(i, x).dropped \subseteq x.dropped \cup ToSet(x.queue)
        /\ ToSet(x.queue) \cap x.dropped = {}
             => ToSet(Body(i, x).queue)
                  = (ToSet(x.queue) \ Body(i, x).dropped) \cup {entries[last - i]}
    BY <1>4, <2>3
  <2>6. Body(i, x) \in Refills
    BY <1>4, <2>3
  <2>7. entries[last - i] \notin ToSet(q) /\ entries[last - i] \notin Back(i - 1)
    BY <1>7 DEF EventsOf
  <2>8. Back(i) = Back(i - 1) \cup {entries[last - i]}
    BY <1>6
  <2>9. g[i].dropped \subseteq ToSet(q) \cup Back(i)
    BY <2>2, <2>4, <2>5, <2>8
  <2>10. ToSet(g[i].queue) = (ToSet(q) \cup Back(i)) \ g[i].dropped
    BY <2>2, <2>4, <2>5, <2>7, <2>8
  <2> QED BY <2>1, <2>4, <2>6, <2>9, <2>10
<1> HIDE DEF Right
<1>13. \A i \in 0..n : Right(i)
  <2> DEFINE Good == {i \in 0..n : Right(i)}
  <2>1. 0 \in Good
    BY <1>11
  <2>2. \A i \in 1..n : i - 1 \in Good => i \in Good
    BY <1>5, <1>12
  <2>3. 0..n \subseteq Good
    <3> HIDE DEF Good
    <3> QED BY <2>1, <2>2, UpToInduction
  <2> QED BY <2>3
<1>14. Is(g)
  <2>1. \A i \in 1..n : g[i] = Body(i, g[i - 1])
    BY <1>5, <1>12, <1>13
  <2>2. \A i \in 0..n : g[i] = IF i = 0 THEN base ELSE Body(i, g[i - 1])
    BY <2>1, <1>10 DEF IsRecursion
  <2> QED BY <2>2, <1>10 DEF IsRecursion
<1>15. Is(f)
  <2> HIDE DEF Is
  <2> QED BY <1>14
<1> HIDE DEF f
<1>16. n \in {i \in 0..n : f[i] = g[i]}
  <2> DEFINE Good == {i \in 0..n : f[i] = g[i]}
  <2>1. 0 \in Good
    BY <1>14, <1>15
  <2>2. \A i \in 1..n : i - 1 \in Good => i \in Good
    BY <1>5, <1>14, <1>15
  <2>3. 0..n \subseteq Good
    <3> HIDE DEF Good
    <3> QED BY <2>1, <2>2, UpToInduction
  <2> QED BY <2>3
<1>17. Right(n) /\ result = g[n]
  BY <1>1, <1>13, <1>16
<1> QED BY <1>6, <1>17 DEF Refills, Right

\* The batch of a failed send, with its attempts counted.
LEMMA CountedBatch ==
  ASSUME NEW batch, IsLine(batch), NEW counted, counted = Counted(batch)
  PROVE  /\ counted \in Seq(Entry) /\ EachOnce(counted) /\ EventsOf(counted) = EventsOf(batch)
<1>0. PICK n \in Nat : n = Len(batch)
  BY DEF IsLine
<1>1. DOMAIN batch = 1..n /\ \A i \in 1..n : batch[i] \in Retryable
  BY <1>0 DEF IsLine
<1>2. counted = [i \in 1..n |-> [batch[i] EXCEPT !.attempts = @ + 1]]
  BY <1>1 DEF Counted
<1>3. ASSUME NEW i \in 1..n
      PROVE  counted[i] \in Entry /\ counted[i].event = batch[i].event
  <2>1. PICK x \in Retryable : x = batch[i]
    BY <1>1
  <2>2. counted[i] = [x EXCEPT !.attempts = @ + 1]
    BY <1>2, <2>1
  <2>3. x.attempts + 1 \in 0..MaxAttempts
    BY BoundsAssumption DEF Retryable
  <2> QED BY <2>1, <2>2, <2>3 DEF Retryable, Entry
<1>4. counted \in Seq(Entry)
  BY <1>2, <1>3
<1>5. DOMAIN counted = 1..n
  BY <1>2
<1> QED BY <1>1, <1>3, <1>4, <1>5 DEF EachOnce, IsLine, EventsOf, ToSet

LEMMA RetriedBatch ==
  ASSUME NEW counted \in Seq(Entry), EachOnce(counted), NEW retried, retried = Retried(counted)
  PROVE  /\ IsLine(retried) /\ ToSet(retried) \subseteq ToSet(counted)
<1> DEFINE chosen == {i \in DOMAIN counted : counted[i].attempts < MaxAttempts}
<1>1. retried = Subsequence(counted, chosen)
  BY DEF Retried
<1>2. EachOnce(retried)
  BY <1>1, SubsequenceOnce
<1>3. retried \in Seq(Entry) /\ \A k \in DOMAIN retried : \E i \in chosen \cap DOMAIN counted :
                                   retried[k] = counted[i]
  <2> HIDE DEF chosen
  <2> QED BY <1>1, SubsequenceElements
<1>4. \A k \in DOMAIN retried : retried[k] \in ToSet(counted) /\ retried[k].attempts < MaxAttempts
                                /\ retried[k] \in Entry
  BY <1>3 DEF ToSet
<1>5. \A x \in Entry : x.attempts < MaxAttempts => x \in Retryable
  BY BoundsAssumption DEF Entry, Retryable
<1>6. PICK n \in Nat : n = Len(retried) /\ DOMAIN retried = 1..n
  BY <1>3
<1>7. retried \in Seq(Retryable)
  <2>1. \A k \in 1..n : retried[k] \in Retryable
    BY <1>4, <1>5, <1>6
  <2>2. retried = [k \in 1..n |-> retried[k]]
    BY <1>3, <1>6
  <2> QED BY <2>1, <2>2
<1> QED BY <1>2, <1>4, <1>7 DEF IsLine, ToSet

\* A failed batch is back in the queue or dropped, event by event.
LEMMA Requeued ==
  ASSUME NEW q, IsLine(q), InBounds(q), NEW batch, IsLine(batch),
         EventsOf(q) \cap EventsOf(batch) = {}, NEW result, result = Requeue(q, batch)
  PROVE  LET gone == {entry.event : entry \in result.dropped} IN
         /\ IsLine(result.queue) /\ InBounds(result.queue)
         /\ IsLine(result.retried) /\ EventsOf(result.retried) \subseteq EventsOf(batch)
         /\ ToSet(result.queue) \subseteq ToSet(q) \cup ToSet(result.retried)
         /\ EventsOf(result.queue) \cup gone = EventsOf(q) \cup EventsOf(batch)
         /\ EventsOf(result.queue) \cap gone = {}
<1>1. PICK counted : counted = Counted(batch)
  OBVIOUS
<1>2. PICK retried : retried = Retried(counted)
  OBVIOUS
<1>3. PICK prepended : prepended = Prepend(q, retried)
  OBVIOUS
<1>4. /\ result.queue = prepended.queue /\ result.retried = retried
      /\ result.dropped = (ToSet(counted) \ ToSet(retried)) \cup prepended.dropped
  BY <1>1, <1>2, <1>3 DEF Requeue
<1>5. counted \in Seq(Entry) /\ EachOnce(counted) /\ EventsOf(counted) = EventsOf(batch)
  BY <1>1, CountedBatch
<1>6. IsLine(retried) /\ ToSet(retried) \subseteq ToSet(counted)
  BY <1>2, <1>5, RetriedBatch
<1>7. EventsOf(retried) \subseteq EventsOf(batch)
  BY <1>5, <1>6 DEF EventsOf
<1>8. /\ IsLine(prepended.queue) /\ InBounds(prepended.queue)
      /\ prepended.dropped \subseteq ToSet(q) \cup ToSet(retried)
      /\ ToSet(prepended.queue) = (ToSet(q) \cup ToSet(retried)) \ prepended.dropped
  BY <1>3, <1>6, <1>7, Prepended
<1> DEFINE all == ToSet(q) \cup ToSet(counted)
           gone == {entry.event : entry \in result.dropped}
<1>9. \A x, y \in all : x.event = y.event => x = y
  <2>1. \A x, y \in ToSet(q) : x.event = y.event => x = y
    BY DEF IsLine, EachOnce, ToSet
  <2>2. \A x, y \in ToSet(counted) : x.event = y.event => x = y
    BY <1>5 DEF EachOnce, ToSet
  <2>3. \A x \in ToSet(q), y \in ToSet(counted) : x.event # y.event
    BY <1>5 DEF EventsOf
  <2> QED BY <2>1, <2>2, <2>3
<1>10. ToSet(result.queue) \cup result.dropped = all
  BY <1>4, <1>6, <1>8
<1>11. ToSet(result.queue) \cap result.dropped = {}
  <2>1. \A x \in ToSet(q), y \in ToSet(counted) : x.event # y.event
    BY <1>5 DEF EventsOf
  <2>2. \A x \in ToSet(q) : x \notin ToSet(counted)
    BY <2>1
  <2> QED BY <1>4, <1>6, <1>8, <2>2
<1>12. EventsOf(result.queue) \cup gone = EventsOf(q) \cup EventsOf(batch)
  BY <1>5, <1>10 DEF EventsOf
<1>13. EventsOf(result.queue) \cap gone = {}
  BY <1>9, <1>10, <1>11 DEF EventsOf
<1> QED BY <1>4, <1>6, <1>7, <1>8, <1>12, <1>13

-----------------------------------------------------------------------------
(* The outbox.                                                             *)

LEMMA ConcatLine ==
  ASSUME NEW a, IsLine(a), NEW b, IsLine(b), EventsOf(a) \cap EventsOf(b) = {}
  PROVE  IsLine(a \o b) /\ ToSet(a \o b) = ToSet(a) \cup ToSet(b)
<1>0. PICK m \in Nat, n \in Nat : m = Len(a) /\ n = Len(b)
  BY DEF IsLine
<1> DEFINE c == a \o b
<1>1. /\ c \in Seq(Retryable) /\ Len(c) = m + n
      /\ \A i \in 1..m : c[i] = a[i]
      /\ \A i \in 1..n : c[m + i] = b[i]
  BY <1>0 DEF IsLine
<1>2. ToSet(c) = ToSet(a) \cup ToSet(b)
  BY ConcatElements DEF IsLine
<1> HIDE DEF c
<1>3. DOMAIN c = 1..(m + n) /\ DOMAIN a = 1..m /\ DOMAIN b = 1..n
  BY <1>0, <1>1 DEF IsLine
<1>4. \A i \in 1..(m + n) : i \notin 1..m => i - m \in 1..n /\ c[i] = b[i - m]
  <2> SUFFICES ASSUME NEW i \in 1..(m + n), i \notin 1..m
               PROVE  i - m \in 1..n /\ c[i] = b[i - m]
    OBVIOUS
  <2>1. i - m \in 1..n /\ m + (i - m) = i
    OBVIOUS
  <2> QED BY <1>1, <2>1
<1>5. \A i \in 1..m, j \in 1..n : a[i].event # b[j].event
  BY <1>3 DEF EventsOf, ToSet
<1>6. EachOnce(c)
  <2> SUFFICES ASSUME NEW i \in 1..(m + n), NEW j \in 1..(m + n), c[i].event = c[j].event
               PROVE  i = j
    BY <1>3 DEF EachOnce
  <2>1. CASE i \in 1..m /\ j \in 1..m
    BY <1>1, <1>3, <2>1 DEF EachOnce, IsLine
  <2>2. CASE i \notin 1..m /\ j \notin 1..m
    <3>1. PICK k \in 1..n, l \in 1..n : k = i - m /\ l = j - m
      BY <1>4, <2>2
    <3>2. b[k].event = b[l].event
      BY <1>4, <2>2, <3>1
    <3>3. k = l
      BY <1>3, <3>2 DEF EachOnce, IsLine
    <3> QED BY <3>1, <3>3
  <2>3. CASE (i \in 1..m) # (j \in 1..m)
    BY <1>1, <1>4, <1>5, <2>3
  <2> QED BY <2>1, <2>2, <2>3
<1> QED BY <1>1, <1>2, <1>6 DEF c, IsLine

\* A stored entry is replaced by the one saved for its event.
LEMMA MergedLine ==
  ASSUME NEW s, IsLine(s), NEW saved, IsLine(saved), NEW merged, merged = Merged(s, saved)
  PROVE  /\ IsLine(merged)
         /\ \A x \in ToSet(merged) :
              x \in ToSet(saved) \/ (x \in ToSet(s) /\ x.event \notin EventsOf(saved))
<1>0. PICK n \in Nat : n = Len(s)
  BY DEF IsLine
<1> DEFINE Replaced(old) == IF old.event \in EventsOf(saved)
                            THEN Only(saved, {old.event})[1] ELSE old
           a == [i \in DOMAIN s |-> Replaced(s[i])]
           b == Without(saved, EventsOf(s))
<1>1. merged = a \o b
  BY DEF Merged
<1>2. DOMAIN s = 1..n /\ \A i \in 1..n : s[i] \in Retryable /\ s[i] \in ToSet(s)
  BY <1>0 DEF IsLine, ToSet
<1>3. ASSUME NEW i \in 1..n
      PROVE  /\ Replaced(s[i]) \in Retryable /\ Replaced(s[i]).event = s[i].event
             /\ \/ Replaced(s[i]) \in ToSet(saved)
                \/ Replaced(s[i]) \in ToSet(s) /\ s[i].event \notin EventsOf(saved)
  <2>1. CASE s[i].event \in EventsOf(saved)
    <3>1. PICK o : o = Only(saved, {s[i].event})
      OBVIOUS
    <3>2. IsLine(o) /\ ToSet(o) = {x \in ToSet(saved) : x.event \in {s[i].event}}
      BY <3>1, OnlyLine
    <3>3. o # <<>>
      <4>1. PICK x \in ToSet(saved) : x.event = s[i].event
        BY <2>1 DEF EventsOf
      <4>2. x \in ToSet(o)
        BY <3>2, <4>1
      <4>3. ToSet(<<>>) = {}
        BY DEF ToSet
      <4> QED BY <4>2, <4>3
    <3>4. 1 \in DOMAIN o
      BY <3>2, <3>3, EmptySeq DEF IsLine
    <3>5. o[1] \in ToSet(o)
      BY <3>4 DEF ToSet
    <3>6. Replaced(s[i]) = o[1]
      BY <2>1, <3>1
    <3> HIDE DEF Replaced
    <3> QED BY <3>2, <3>5, <3>6, LineType
  <2>2. CASE s[i].event \notin EventsOf(saved)
    BY <1>2, <2>2
  <2> QED BY <2>1, <2>2
<1> HIDE DEF Replaced
<1>4. DOMAIN a = 1..n /\ \A i \in 1..n : a[i] = Replaced(s[i])
  BY <1>2
<1>5. a \in Seq(Retryable)
  BY <1>2, <1>3
<1> HIDE DEF a
<1>6. IsLine(a) /\ EventsOf(a) = EventsOf(s)
  <2>1. \A i \in 1..n : a[i].event = s[i].event
    BY <1>3, <1>4
  <2>2. EachOnce(a)
    BY <1>2, <1>4, <2>1 DEF IsLine, EachOnce
  <2>3. EventsOf(a) = EventsOf(s)
    <3>1. \A i \in 1..n : a[i] \in ToSet(a) /\ s[i] \in ToSet(s)
      BY <1>2, <1>4 DEF ToSet
    <3>2. \A x \in ToSet(a) : \E i \in 1..n : x = a[i]
      BY <1>4 DEF ToSet
    <3>3. \A x \in ToSet(s) : \E i \in 1..n : x = s[i]
      BY <1>2 DEF ToSet
    <3> QED BY <2>1, <3>1, <3>2, <3>3 DEF EventsOf
  <2> QED BY <1>5, <2>2, <2>3 DEF IsLine
<1>7. \A x \in ToSet(a) : x \in ToSet(saved) \/ (x \in ToSet(s) /\ x.event \notin EventsOf(saved))
  BY <1>3, <1>4 DEF ToSet
<1>8. /\ IsLine(b) /\ ToSet(b) \subseteq ToSet(saved)
      /\ EventsOf(b) = EventsOf(saved) \ EventsOf(s)
  BY WithoutLine
<1> HIDE DEF b
<1>9. IsLine(a \o b) /\ ToSet(a \o b) = ToSet(a) \cup ToSet(b)
  BY <1>6, <1>8, ConcatLine
<1> QED BY <1>1, <1>7, <1>8, <1>9

LEMMA NewestFew ==
  ASSUME NEW s, IsLine(s)
  PROVE  IsFiniteSet(Newest(s)) /\ Cardinality(Newest(s)) <= OutboxLimit
<1>0. PICK n \in Nat : n = Len(s)
  BY DEF IsLine
<1> DEFINE last == n + 1
           Few == {newer \in SUBSET (1..n) : Cardinality(newer) <= OutboxLimit}
           Body(i, newer) ==
             LET index == last - i
             IN  IF /\ Cardinality(newer) < OutboxLimit
                    /\ Bytes(Subsequence(s, newer)) + Size[s[index].event] <= OutboxBytes
                 THEN newer \cup {index} ELSE newer
           Is(g) == g = [i \in 0..n |-> IF i = 0 THEN {} ELSE Body(i, g[i - 1])]
           Step == [i \in 1..n |-> [newer \in Few |-> Body(i, newer)]]
           f == CHOOSE g : Is(g)
<1>1. Newest(s) = f[n]
  BY <1>0 DEF Newest
<1>2. {} \in Few
  BY FS_EmptySet, BoundsAssumption
<1>14. \A newer \in Few : /\ newer \in SUBSET (1..n) /\ IsFiniteSet(newer)
                          /\ Cardinality(newer) <= OutboxLimit
  <2>1. IsFiniteSet(1..n)
    BY FS_Interval
  <2> QED BY <2>1, FS_Subset
<1>3. ASSUME NEW i \in 1..n, NEW newer \in Few PROVE Body(i, newer) \in Few
  <2>1. newer \in SUBSET (1..n) /\ IsFiniteSet(newer) /\ Cardinality(newer) <= OutboxLimit
    BY <1>14
  <2>2. last - i \in 1..n
    OBVIOUS
  <2>3. Cardinality(newer) \in Nat
    BY <2>1, FS_CardinalityType
  <2>4. Cardinality(newer \cup {last - i})
          = IF last - i \in newer THEN Cardinality(newer) ELSE Cardinality(newer) + 1
    BY <2>1, FS_AddElement
  <2>5. Body(i, newer) = newer \/ (Cardinality(newer) < OutboxLimit
                                   /\ Body(i, newer) = newer \cup {last - i})
    OBVIOUS
  <2> HIDE DEF Body, last
  <2>6. ASSUME Cardinality(newer) < OutboxLimit PROVE newer \cup {last - i} \in Few
    <3>1. PICK c \in Nat, limit \in Nat : c = Cardinality(newer) /\ limit = OutboxLimit
      BY <2>3, BoundsAssumption
    <3>2. Cardinality(newer \cup {last - i}) <= OutboxLimit
      BY <2>4, <2>6, <3>1
    <3> QED BY <2>1, <2>2, <3>2
  <2> QED BY <2>5, <2>6
<1> HIDE DEF Body
<1>4. Step \in StepsOn(n, Few) /\ \A i \in 1..n, newer \in Few : Step[i][newer] = Body(i, newer)
  <2> HIDE DEF Few
  <2> QED BY <1>3 DEF StepsOn
<1> HIDE DEF Step, Few
<1>5. PICK g : IsRecursion(g, n, Few, {}, Step)
  BY <1>2, <1>4, RecursionExists
<1>6. \A i \in 1..n : i \in 0..n /\ i - 1 \in 0..n /\ i # 0
  OBVIOUS
<1>7. Is(g)
  <2>1. \A i \in 1..n : g[i] = Body(i, g[i - 1])
    BY <1>4, <1>5, <1>6 DEF IsRecursion
  <2>2. \A i \in 0..n : g[i] = IF i = 0 THEN {} ELSE Body(i, g[i - 1])
    BY <2>1, <1>5 DEF IsRecursion
  <2> QED BY <2>2, <1>5 DEF IsRecursion
<1>8. Is(f)
  <2> HIDE DEF Is
  <2> QED BY <1>7
<1> HIDE DEF f
<1>9. f[0] = {} /\ \A i \in 1..n : f[i] = Body(i, f[i - 1])
  <2>1. \A i \in 0..n : f[i] = IF i = 0 THEN {} ELSE Body(i, f[i - 1])
    BY <1>8
  <2> QED BY <1>6, <2>1
<1> DEFINE Good == {i \in 0..n : f[i] \in Few}
<1>10. 0 \in Good
  BY <1>2, <1>9
<1>11. \A i \in 1..n : i - 1 \in Good => i \in Good
  BY <1>3, <1>6, <1>9
<1>12. n \in Good
  <2> HIDE DEF Good
  <2>1. 0..n \subseteq Good
    BY <1>10, <1>11, UpToInduction
  <2> QED BY <2>1
<1> QED BY <1>1, <1>12, <1>14

\* What a save leaves in the outbox.
LEMMA OutboxSaved ==
  ASSUME NEW s, IsLine(s), NEW saved, IsLine(saved), NEW result, result = OutboxSave(s, saved)
  PROVE  /\ IsLine(result) /\ Len(result) <= OutboxLimit
         /\ \A x \in ToSet(result) :
              x \in ToSet(saved) \/ (x \in ToSet(s) /\ x.event \notin EventsOf(saved))
<1>1. PICK merged : merged = Merged(s, saved)
  OBVIOUS
<1>2. PICK newest : newest = Newest(merged)
  OBVIOUS
<1>3. result = Subsequence(merged, newest)
  BY <1>1, <1>2 DEF OutboxSave
<1>4. /\ IsLine(merged)
      /\ \A x \in ToSet(merged) :
           x \in ToSet(saved) \/ (x \in ToSet(s) /\ x.event \notin EventsOf(saved))
  BY <1>1, MergedLine
<1>5. IsFiniteSet(newest) /\ Cardinality(newest) <= OutboxLimit
  BY <1>2, <1>4, NewestFew
<1>6. result \in Seq(Retryable)
      /\ \A k \in DOMAIN result : \E i \in newest \cap DOMAIN merged : result[k] = merged[i]
  BY <1>3, <1>4, SubsequenceElements DEF IsLine
<1>7. EachOnce(result)
  BY <1>3, <1>4, SubsequenceOnce DEF IsLine
<1>8. ToSet(result) \subseteq ToSet(merged)
  BY <1>6 DEF ToSet
<1>9. Len(result) <= OutboxLimit
  <2> DEFINE used == newest \cap DOMAIN merged
  <2>1. Len(result) = Cardinality(used)
    BY <1>3, <1>4, SubsequenceLength DEF IsLine
  <2>2. IsFiniteSet(used) /\ Cardinality(used) <= Cardinality(newest)
    BY <1>5, FS_Subset
  <2>3. Cardinality(used) \in Nat /\ Cardinality(newest) \in Nat /\ OutboxLimit \in Nat
    BY <1>5, <2>2, FS_CardinalityType, BoundsAssumption
  <2> QED BY <1>5, <2>1, <2>2, <2>3
<1> QED BY <1>4, <1>6, <1>7, <1>8, <1>9 DEF IsLine

\* What a write leaves in the outbox.
LEMMA StoredLine ==
  ASSUME NEW kept, IsLine(kept), Len(kept) <= OutboxLimit, NEW saving, IsLine(saving),
         NEW write, NEW stored, stored = Stored(kept, saving, write)
  PROVE  /\ IsLine(stored) /\ Len(stored) <= OutboxLimit
         /\ \A x \in ToSet(stored) :
              /\ x.event \notin write.remove
              /\ x \in ToSet(saving) \/ (x \in ToSet(kept) /\ x.event \notin EventsOf(saving))
<1>1. PICK all : all = IF saving = <<>> THEN kept ELSE OutboxSave(kept, saving)
  OBVIOUS
<1>2. stored = Without(all, write.remove)
  BY <1>1 DEF Stored
<1>3. /\ IsLine(all) /\ Len(all) <= OutboxLimit
      /\ \A x \in ToSet(all) :
           x \in ToSet(saving) \/ (x \in ToSet(kept) /\ x.event \notin EventsOf(saving))
  <2>1. CASE saving = <<>>
    <3>1. ToSet(<<>>) = {}
      BY DEF ToSet
    <3>2. EventsOf(saving) = {} /\ all = kept
      BY <1>1, <2>1, <3>1 DEF EventsOf
    <3> QED BY <3>2
  <2>2. CASE saving # <<>>
    BY <1>1, <2>2, OutboxSaved
  <2> QED BY <2>1, <2>2
<1>4. /\ IsLine(stored) /\ Len(stored) <= Len(all)
      /\ ToSet(stored) = {x \in ToSet(all) : x.event \notin write.remove}
  BY <1>2, <1>3, WithoutLine
<1>5. Len(stored) <= OutboxLimit
  <2>1. Len(stored) \in Nat /\ Len(all) \in Nat /\ OutboxLimit \in Nat
    BY <1>3, <1>4, BoundsAssumption DEF IsLine
  <2> QED BY <1>3, <1>4, <2>1
<1> QED BY <1>3, <1>4, <1>5

\* What a load reads.
LEMMA OutboxLoaded ==
  ASSUME NEW s, IsLine(s)
  PROVE  OutboxLoad(s) \in Seq(Retryable) /\ ToSet(OutboxLoad(s)) \subseteq ToSet(s)
<1>0. PICK n \in Nat : n = MaxEvent
  BY EventsAssumption
<1> DEFINE Part == {x \in Seq(Retryable) : ToSet(x) \subseteq ToSet(s)}
           Body(i, x) == x \o Only(s, {i})
           Is(g) == g = [i \in 0..n |-> IF i = 0 THEN <<>> ELSE Body(i, g[i - 1])]
           Step == [i \in 1..n |-> [x \in Part |-> Body(i, x)]]
           f == CHOOSE g : Is(g)
<1>1. OutboxLoad(s) = f[n]
  BY <1>0 DEF OutboxLoad
<1>2. <<>> \in Part
  BY DEF ToSet
<1>3. ASSUME NEW i \in 1..n, NEW x \in Part PROVE Body(i, x) \in Part
  <2>1. PICK o : o = Only(s, {i})
    OBVIOUS
  <2>2. o \in Seq(Retryable) /\ ToSet(o) \subseteq ToSet(s)
    BY <2>1, OnlyLine DEF IsLine
  <2>3. x \in Seq(Retryable) /\ ToSet(x) \subseteq ToSet(s)
    OBVIOUS
  <2>4. ToSet(x \o o) = ToSet(x) \cup ToSet(o)
    BY <2>2, <2>3, ConcatElements
  <2>5. x \o o \in Seq(Retryable)
    BY <2>2, <2>3
  <2> QED BY <2>1, <2>2, <2>3, <2>4, <2>5
<1> HIDE DEF Body
<1>4. Step \in StepsOn(n, Part) /\ \A i \in 1..n, x \in Part : Step[i][x] = Body(i, x)
  <2> HIDE DEF Part
  <2> QED BY <1>3 DEF StepsOn
<1> HIDE DEF Step, Part
<1>5. PICK g : IsRecursion(g, n, Part, <<>>, Step)
  BY <1>2, <1>4, RecursionExists
<1>6. \A i \in 1..n : i \in 0..n /\ i - 1 \in 0..n /\ i # 0
  OBVIOUS
<1>7. Is(g)
  <2>1. \A i \in 1..n : g[i] = Body(i, g[i - 1])
    BY <1>4, <1>5, <1>6 DEF IsRecursion
  <2>2. \A i \in 0..n : g[i] = IF i = 0 THEN <<>> ELSE Body(i, g[i - 1])
    BY <2>1, <1>5 DEF IsRecursion
  <2> QED BY <2>2, <1>5 DEF IsRecursion
<1>8. Is(f)
  <2> HIDE DEF Is
  <2> QED BY <1>7
<1> HIDE DEF f
<1>9. f[0] = <<>> /\ \A i \in 1..n : f[i] = Body(i, f[i - 1])
  <2>1. \A i \in 0..n : f[i] = IF i = 0 THEN <<>> ELSE Body(i, f[i - 1])
    BY <1>8
  <2> QED BY <1>6, <2>1
<1> DEFINE Good == {i \in 0..n : f[i] \in Part}
<1>10. 0 \in Good
  BY <1>2, <1>9
<1>11. \A i \in 1..n : i - 1 \in Good => i \in Good
  BY <1>3, <1>6, <1>9
<1>12. n \in Good
  <2> HIDE DEF Good
  <2>1. 0..n \subseteq Good
    BY <1>10, <1>11, UpToInduction
  <2> QED BY <2>1
<1> QED BY <1>1, <1>12 DEF Part

\* A drained queue is its batch and what is left of it.
LEMMA DrainedParts ==
  ASSUME NEW q, IsLine(q), InBounds(q), NEW limit, NEW bytes, NEW urgentOnly,
         NEW drained, drained = Drain(q, limit, bytes, urgentOnly)
  PROVE  /\ IsLine(drained.queue) /\ InBounds(drained.queue) /\ IsLine(drained.batch)
         /\ ToSet(drained.queue) \cup ToSet(drained.batch) = ToSet(q)
         /\ EventsOf(drained.queue) \cap EventsOf(drained.batch) = {}
<1>1. PICK chosen : chosen = Chosen(q, limit, bytes, urgentOnly)
  OBVIOUS
<1>2. drained.batch = Only(q, chosen) /\ drained.queue = Without(q, chosen)
  BY <1>1 DEF Drain
<1>3. /\ IsLine(drained.batch) /\ ToSet(drained.batch) = {x \in ToSet(q) : x.event \in chosen}
      /\ EventsOf(drained.batch) = EventsOf(q) \cap chosen
  BY <1>2, OnlyLine
<1>4. /\ IsLine(drained.queue) /\ ToSet(drained.queue) = {x \in ToSet(q) : x.event \notin chosen}
      /\ EventsOf(drained.queue) = EventsOf(q) \ chosen
      /\ Len(drained.queue) <= Len(q) /\ Bytes(drained.queue) <= Bytes(q)
  BY <1>2, WithoutLine
<1>5. InBounds(drained.queue)
  <2>1. Len(drained.queue) \in Nat /\ Len(q) \in Nat
    BY <1>4 DEF IsLine
  <2>2. Bytes(drained.queue) \in Nat /\ Bytes(q) \in Nat
    BY <1>4, LineType, BytesType
  <2> QED BY <1>4, <2>1, <2>2, BoundsAssumption DEF InBounds
<1> QED BY <1>3, <1>4, <1>5

-----------------------------------------------------------------------------
(* The chain of writes.                                                    *)

Mentions(write, e) == e \in EventsOf(write.save) \cup write.remove

\* Some write of the chain is about e; the last one that is saves the entry x,
\* removes e; exactly one is; all of them are among the first n.
Touches(chain, e) == \E i \in DOMAIN chain : Mentions(chain[i], e)
LastAbout(chain, i, e) == \A j \in DOMAIN chain : j > i => ~Mentions(chain[j], e)
LastSaves(chain, x) ==
  \E i \in DOMAIN chain : x \in ToSet(chain[i].save) /\ LastAbout(chain, i, x.event)
LastRemoves(chain, e) ==
  \E i \in DOMAIN chain : e \in chain[i].remove /\ LastAbout(chain, i, e)
TouchesOnce(chain, e) ==
  \E i \in DOMAIN chain : /\ Mentions(chain[i], e)
                          /\ \A j \in DOMAIN chain : Mentions(chain[j], e) => j = i
Within(chain, e, n) == \A i \in DOMAIN chain : Mentions(chain[i], e) => i <= n

\* A write saves or removes urgent events among the known ones; it removes dropped ones.
IsProper(write, known, dropped) ==
  /\ IsLine(write.save)
  /\ EventsOf(write.save) \cup write.remove \subseteq Urgent \cap known
  /\ write.save = <<>> \/ write.remove = {}
  /\ write.remove \subseteq dropped
AreProper(chain, known, dropped) == \A i \in DOMAIN chain : IsProper(chain[i], known, dropped)

\* What the outbox and the chain know of an entry in memory is that entry.
CopyIsRight(chain, stored, unwritten, x) ==
  IF Touches(chain, x.event) THEN LastSaves(chain, x)
  ELSE x.event \in unwritten \/ x \in ToSet(stored)
\* They forget e.
IsForgotten(chain, stored, unwritten, e) ==
  IF Touches(chain, e) THEN LastRemoves(chain, e)
  ELSE e \notin EventsOf(stored) \/ e \in unwritten
\* e is not in the outbox, and one write is about it: the save of its capture.
IsYoung(chain, stored, e) == TouchesOnce(chain, e) /\ e \notin EventsOf(stored)
IsQuiet(chain, stored, e) == ~Touches(chain, e) \/ IsYoung(chain, stored, e)

-----------------------------------------------------------------------------
(* The inductive invariant.                                                *)

LinesOK ==
  /\ IsLine(queue) /\ InBounds(queue) /\ IsLine(flush.batch) /\ IsLine(outbox)
  /\ EventsOf(queue) \cap EventsOf(flush.batch) = {}
  /\ flush.pc \in {"none", "waiting"} => flush.batch = <<>>
KnownOK ==
  /\ InMemory \cup EventsOf(outbox) \subseteq 1..captured
  /\ \A f \in Fates : fate[f] \subseteq 1..captured
  /\ flush.pc = "removing" => EventsOf(flush.batch) \subseteq fate["delivered"]
WritesOK == AreProper(writes, 1..captured, fate["dropped"])
UnloadedOK ==
  ~loaded => /\ flush.pc \in {"none", "waiting"}
             /\ \A e \in EventsOf(outbox) : e \notin InMemory /\ ~Touches(writes, e)
CopiesOK ==
  \A x \in ToSet(queue) \cup ToSet(flush.batch) :
    x.event \in Urgent => CopyIsRight(writes, outbox, fate["unwritten"], x)
AccountedOK ==
  1..captured \subseteq InMemory \cup EventsOf(outbox) \cup fate["delivered"]
                        \cup fate["dropped"] \cup fate["silent"] \cup fate["left"]
\* On the first page only: a later one may hold what an earlier one dropped.
FirstPageOK ==
  spent.restarts = 0 =>
    /\ ~loaded => outbox = <<>> /\ \A e \in InMemory : IsQuiet(writes, outbox, e)
    /\ InMemory \cap fate["dropped"] = {}
    /\ \A e \in fate["dropped"] : IsForgotten(writes, outbox, fate["unwritten"], e)
    /\ \A e \in (1..captured) \ (InMemory \cup fate["dropped"]) : IsQuiet(writes, outbox, e)
    /\ \A e \in EventsOf(flush.batch) : IsQuiet(writes, outbox, e)
    /\ loaded /\ flush.pc = "waiting" =>
         \A e \in EventsOf(queue) :
           IsYoung(writes, outbox, e) \/ Within(writes, e, flush.barrier)

CoreOK ==
  LinesOK /\ KnownOK /\ WritesOK /\ UnloadedOK /\ CopiesOK /\ AccountedOK /\ FirstPageOK
DeliveryInv == TypeOK /\ CoreOK

-----------------------------------------------------------------------------
(* How the chain grows and shrinks.                                        *)

LEMMA ChainGrows ==
  ASSUME NEW a \in Seq(Write), NEW b \in Seq(Write), NEW c, c = a \o b
  PROVE  /\ c \in Seq(Write)
         /\ \A e : Touches(c, e) <=> Touches(a, e) \/ Touches(b, e)
         /\ \A x : LastSaves(b, x) => LastSaves(c, x)
         /\ \A x : LastSaves(a, x) /\ ~Touches(b, x.event) => LastSaves(c, x)
         /\ \A e : LastRemoves(b, e) => LastRemoves(c, e)
         /\ \A e : LastRemoves(a, e) /\ ~Touches(b, e) => LastRemoves(c, e)
         /\ \A e : TouchesOnce(a, e) /\ ~Touches(b, e) => TouchesOnce(c, e)
         /\ \A e : ~Touches(a, e) /\ TouchesOnce(b, e) => TouchesOnce(c, e)
         /\ \A e, n : Within(a, e, n) /\ ~Touches(b, e) => Within(c, e, n)
         /\ \A known, dropped : AreProper(a, known, dropped) /\ AreProper(b, known, dropped)
                                  => AreProper(c, known, dropped)
<1>0. PICK m \in Nat, n \in Nat : m = Len(a) /\ n = Len(b)
  OBVIOUS
<1>1. /\ c \in Seq(Write) /\ Len(c) = m + n
      /\ \A i \in 1..m : c[i] = a[i]
      /\ \A i \in 1..n : c[m + i] = b[i]
  BY <1>0
<1>2. DOMAIN c = 1..(m + n) /\ DOMAIN a = 1..m /\ DOMAIN b = 1..n
  BY <1>0, <1>1
<1>3. \A i \in 1..(m + n) : (i \in 1..m /\ c[i] = a[i])
        \/ (i \notin 1..m /\ i - m \in 1..n /\ c[i] = b[i - m])
  <2> SUFFICES ASSUME NEW i \in 1..(m + n), i \notin 1..m
               PROVE  i - m \in 1..n /\ c[i] = b[i - m]
    BY <1>1
  <2>1. i - m \in 1..n /\ m + (i - m) = i
    OBVIOUS
  <2> QED BY <1>1, <2>1
<1>4. \A i \in 1..m : i \in 1..(m + n)
  OBVIOUS
<1>5. \A i \in 1..n : m + i \in 1..(m + n) /\ m + i \notin 1..m
  OBVIOUS
<1>6. ASSUME NEW e
      PROVE  Touches(c, e) <=> Touches(a, e) \/ Touches(b, e)
  BY <1>1, <1>2, <1>3, <1>4, <1>5 DEF Touches
<1>7. ASSUME NEW e, NEW i \in 1..n, LastAbout(b, i, e)
      PROVE  LastAbout(c, m + i, e)
  <2> SUFFICES ASSUME NEW j \in 1..(m + n), j > m + i PROVE ~Mentions(c[j], e)
    BY <1>2 DEF LastAbout
  <2>1. j \notin 1..m /\ j - m > i
    OBVIOUS
  <2>2. j - m \in 1..n /\ c[j] = b[j - m]
    BY <1>3, <2>1
  <2> QED BY <1>2, <1>7, <2>1, <2>2 DEF LastAbout
<1>8. ASSUME NEW e, NEW i \in 1..m, LastAbout(a, i, e), ~Touches(b, e)
      PROVE  LastAbout(c, i, e)
  <2> SUFFICES ASSUME NEW j \in 1..(m + n), j > i PROVE ~Mentions(c[j], e)
    BY <1>2 DEF LastAbout
  <2>1. CASE j \in 1..m
    BY <1>1, <1>2, <1>8, <2>1 DEF LastAbout
  <2>2. CASE j \notin 1..m
    BY <1>2, <1>3, <1>8, <2>2 DEF Touches
  <2> QED BY <2>1, <2>2
<1>9. ASSUME NEW x, LastSaves(b, x) PROVE LastSaves(c, x)
  <2>1. PICK i \in 1..n : x \in ToSet(b[i].save) /\ LastAbout(b, i, x.event)
    BY <1>2, <1>9 DEF LastSaves
  <2> QED BY <1>1, <1>2, <1>5, <1>7, <2>1 DEF LastSaves
<1>10. ASSUME NEW x, LastSaves(a, x), ~Touches(b, x.event) PROVE LastSaves(c, x)
  <2>1. PICK i \in 1..m : x \in ToSet(a[i].save) /\ LastAbout(a, i, x.event)
    BY <1>2, <1>10 DEF LastSaves
  <2> QED BY <1>1, <1>2, <1>4, <1>8, <1>10, <2>1 DEF LastSaves
<1>11. ASSUME NEW e, LastRemoves(b, e) PROVE LastRemoves(c, e)
  <2>1. PICK i \in 1..n : e \in b[i].remove /\ LastAbout(b, i, e)
    BY <1>2, <1>11 DEF LastRemoves
  <2> QED BY <1>1, <1>2, <1>5, <1>7, <2>1 DEF LastRemoves
<1>12. ASSUME NEW e, LastRemoves(a, e), ~Touches(b, e) PROVE LastRemoves(c, e)
  <2>1. PICK i \in 1..m : e \in a[i].remove /\ LastAbout(a, i, e)
    BY <1>2, <1>12 DEF LastRemoves
  <2> QED BY <1>1, <1>2, <1>4, <1>8, <1>12, <2>1 DEF LastRemoves
<1>13. ASSUME NEW e, TouchesOnce(a, e), ~Touches(b, e) PROVE TouchesOnce(c, e)
  <2>1. PICK i \in 1..m : Mentions(a[i], e) /\ \A j \in 1..m : Mentions(a[j], e) => j = i
    BY <1>2, <1>13 DEF TouchesOnce
  <2>2. \A j \in 1..n : ~Mentions(b[j], e)
    BY <1>2, <1>13 DEF Touches
  <2>3. \A j \in 1..(m + n) : Mentions(c[j], e) => j = i
    BY <1>3, <2>1, <2>2
  <2> QED BY <1>1, <1>2, <1>4, <2>1, <2>3 DEF TouchesOnce
<1>14. ASSUME NEW e, ~Touches(a, e), TouchesOnce(b, e) PROVE TouchesOnce(c, e)
  <2>1. PICK i \in 1..n : Mentions(b[i], e) /\ \A j \in 1..n : Mentions(b[j], e) => j = i
    BY <1>2, <1>14 DEF TouchesOnce
  <2>2. \A j \in 1..m : ~Mentions(a[j], e)
    BY <1>2, <1>14 DEF Touches
  <2>3. ASSUME NEW j \in 1..(m + n), Mentions(c[j], e) PROVE j = m + i
    <3>1. j - m \in 1..n /\ c[j] = b[j - m]
      BY <1>3, <2>2, <2>3
    <3>2. j - m = i
      BY <2>1, <2>3, <3>1
    <3> QED BY <3>2
  <2> QED BY <1>1, <1>2, <1>5, <2>1, <2>3, ZenonT(60) DEF TouchesOnce
<1>15. ASSUME NEW e, NEW k, Within(a, e, k), ~Touches(b, e) PROVE Within(c, e, k)
  <2>1. \A j \in 1..n : ~Mentions(b[j], e)
    BY <1>2, <1>15 DEF Touches
  <2> QED BY <1>2, <1>3, <1>15, <2>1 DEF Within
<1>16. ASSUME NEW known, NEW dropped, AreProper(a, known, dropped), AreProper(b, known, dropped)
       PROVE  AreProper(c, known, dropped)
  BY <1>2, <1>3, <1>16 DEF AreProper
<1> QED BY <1>1, <1>6, <1>9, <1>10, <1>11, <1>12, <1>13, <1>14, <1>15, <1>16

\* The writes that are chained.
LEMMA SaveChain ==
  ASSUME NEW entries, IsLine(entries), NEW chain, chain = Save(entries)
  PROVE  /\ chain \in Seq(Write)
         /\ \A e : Touches(chain, e) <=> e \in EventsOf(entries)
         /\ \A x \in ToSet(entries) : LastSaves(chain, x)
         /\ \A e \in EventsOf(entries) : TouchesOnce(chain, e)
         /\ \A known, dropped :
              EventsOf(entries) \subseteq Urgent \cap known => AreProper(chain, known, dropped)
<1>0. entries \in Seq(Entry)
  BY LineType
<1>1. CASE entries = <<>>
  <2>1. ToSet(entries) = {} /\ EventsOf(entries) = {}
    BY <1>1 DEF ToSet, EventsOf
  <2>2. chain = <<>>
    BY <1>1 DEF Save
  <2> QED BY <2>1, <2>2 DEF Touches, AreProper
<1>2. CASE entries # <<>>
  <2>1. PICK w : w = [save |-> entries, remove |-> {}]
    OBVIOUS
  <2>2. w \in Write /\ w.save = entries /\ w.remove = {}
    BY <1>0, <2>1 DEF Write
  <2>3. chain = <<w>>
    BY <1>2, <2>1 DEF Save
  <2>4. chain \in Seq(Write) /\ DOMAIN chain = {1} /\ chain[1] = w
    BY <2>2, <2>3
  <2>5. \A e : Mentions(w, e) <=> e \in EventsOf(entries)
    BY <2>2 DEF Mentions
  <2>6. \A e : LastAbout(chain, 1, e)
    BY <2>4 DEF LastAbout
  <2>7. \A e : Touches(chain, e) <=> e \in EventsOf(entries)
    BY <2>4, <2>5 DEF Touches
  <2>8. \A x \in ToSet(entries) : LastSaves(chain, x)
    BY <2>2, <2>4, <2>6 DEF LastSaves
  <2>9. \A e \in EventsOf(entries) : TouchesOnce(chain, e)
    BY <2>4, <2>5 DEF TouchesOnce
  <2>10. \A known, dropped :
           EventsOf(entries) \subseteq Urgent \cap known => AreProper(chain, known, dropped)
    BY <2>2, <2>4 DEF AreProper, IsProper
  <2> QED BY <2>4, <2>7, <2>8, <2>9, <2>10
<1> QED BY <1>1, <1>2

LEMMA RemovalChain ==
  ASSUME NEW events \in SUBSET Events, NEW chain, chain = Removal(events)
  PROVE  /\ chain \in Seq(Write)
         /\ \A e : Touches(chain, e) <=> e \in events
         /\ \A e \in events : LastRemoves(chain, e)
         /\ \A known, dropped :
              events \subseteq Urgent \cap known /\ events \subseteq dropped
                => AreProper(chain, known, dropped)
<1>1. CASE events = {}
  <2>1. chain \in Seq(Write) /\ DOMAIN chain = {}
    BY <1>1 DEF Removal
  <2>2. \A e : ~Touches(chain, e)
    BY <2>1 DEF Touches
  <2>3. \A known, dropped : AreProper(chain, known, dropped)
    BY <2>1 DEF AreProper
  <2> QED BY <1>1, <2>1, <2>2, <2>3
<1>2. CASE events # {}
  <2>1. PICK w : w = [save |-> <<>>, remove |-> events]
    OBVIOUS
  <2>2. w \in Write /\ w.save = <<>> /\ w.remove = events
    BY <2>1 DEF Write
  <2>3. chain = <<w>>
    BY <1>2, <2>1 DEF Removal
  <2>4. chain \in Seq(Write) /\ DOMAIN chain = {1} /\ chain[1] = w
    BY <2>2, <2>3
  <2>5. EventsOf(<<>>) = {} /\ IsLine(<<>>)
    BY DEF EventsOf, ToSet, IsLine, EachOnce
  <2>6. \A e : Mentions(w, e) <=> e \in events
    BY <2>2, <2>5 DEF Mentions
  <2>7. \A e : LastAbout(chain, 1, e)
    BY <2>4 DEF LastAbout
  <2>8. \A e : Touches(chain, e) <=> e \in events
    BY <2>4, <2>6 DEF Touches
  <2>9. \A e \in events : LastRemoves(chain, e)
    BY <2>2, <2>4, <2>7 DEF LastRemoves
  <2>10. \A known, dropped :
           events \subseteq Urgent \cap known /\ events \subseteq dropped
             => AreProper(chain, known, dropped)
    BY <2>2, <2>4, <2>5 DEF AreProper, IsProper
  <2> QED BY <2>4, <2>8, <2>9, <2>10
<1> QED BY <1>1, <1>2

LEMMA ChainShrinks ==
  ASSUME NEW c \in Seq(Write), c # <<>>, NEW w, w = Head(c), NEW t, t = Tail(c)
  PROVE  /\ w \in Write /\ t \in Seq(Write) /\ Len(c) = Len(t) + 1
         /\ \A e : Touches(c, e) <=> Mentions(w, e) \/ Touches(t, e)
         /\ \A x : LastSaves(c, x) => IF Touches(t, x.event) THEN LastSaves(t, x)
                                      ELSE x \in ToSet(w.save)
         /\ \A e : LastRemoves(c, e) => IF Touches(t, e) THEN LastRemoves(t, e)
                                        ELSE e \in w.remove
         /\ \A e : TouchesOnce(c, e) => IF Mentions(w, e) THEN ~Touches(t, e)
                                        ELSE TouchesOnce(t, e)
         /\ \A e : \A n \in Nat : Within(c, e, n) => IF n = 0 THEN ~Touches(t, e)
                                                     ELSE Within(t, e, n - 1)
         /\ \A known, dropped : AreProper(c, known, dropped)
              => IsProper(w, known, dropped) /\ AreProper(t, known, dropped)
<1>0. PICK n \in Nat : n = Len(t) /\ Len(c) = n + 1
  BY HeadTailProperties
<1>1. /\ w \in Write /\ t \in Seq(Write) /\ c[1] = w
      /\ \A i \in 1..n : t[i] = c[i + 1]
  BY <1>0, HeadTailProperties
<1>2. DOMAIN c = 1..(n + 1) /\ DOMAIN t = 1..n
  BY <1>0, <1>1
<1>3. \A i \in 1..(n + 1) : i = 1 \/ (i - 1 \in 1..n /\ c[i] = t[i - 1])
  <2> SUFFICES ASSUME NEW i \in 1..(n + 1), i # 1 PROVE i - 1 \in 1..n /\ c[i] = t[i - 1]
    OBVIOUS
  <2>1. i - 1 \in 1..n /\ (i - 1) + 1 = i
    OBVIOUS
  <2> QED BY <1>1, <2>1
<1>4. \A i \in 1..n : i + 1 \in 1..(n + 1) /\ i + 1 # 1
  OBVIOUS
<1>5. 1 \in 1..(n + 1)
  OBVIOUS
<1>6. ASSUME NEW e PROVE Touches(c, e) <=> Mentions(w, e) \/ Touches(t, e)
  <2>1. CASE Mentions(w, e)
    BY <1>1, <1>2, <1>5, <2>1 DEF Touches
  <2>2. CASE ~Mentions(w, e)
    <3>1. ASSUME NEW i \in 1..(n + 1), Mentions(c[i], e) PROVE Touches(t, e)
      BY <1>1, <1>2, <1>3, <2>2, <3>1 DEF Touches
    <3>2. ASSUME NEW i \in 1..n, Mentions(t[i], e) PROVE Touches(c, e)
      BY <1>1, <1>2, <1>4, <3>2 DEF Touches
    <3> QED BY <1>2, <2>2, <3>1, <3>2 DEF Touches
  <2> QED BY <2>1, <2>2
<1>7. ASSUME NEW e, NEW i \in 1..n, LastAbout(c, i + 1, e) PROVE LastAbout(t, i, e)
  <2> SUFFICES ASSUME NEW j \in 1..n, j > i PROVE ~Mentions(t[j], e)
    BY <1>2 DEF LastAbout
  <2>1. j + 1 \in 1..(n + 1) /\ j + 1 > i + 1
    OBVIOUS
  <2> QED BY <1>1, <1>2, <1>7, <2>1 DEF LastAbout
<1>8. ASSUME NEW e, LastAbout(c, 1, e) PROVE ~Touches(t, e)
  <2> SUFFICES ASSUME NEW j \in 1..n PROVE ~Mentions(t[j], e)
    BY <1>2 DEF Touches
  <2>1. j + 1 \in 1..(n + 1) /\ j + 1 > 1
    OBVIOUS
  <2> QED BY <1>1, <1>2, <1>8, <2>1 DEF LastAbout
<1>9. ASSUME NEW e, NEW i \in 1..(n + 1), LastAbout(c, i, e), i # 1
      PROVE  i - 1 \in 1..n /\ c[i] = t[i - 1] /\ LastAbout(t, i - 1, e)
  <2>1. PICK k \in 1..n : k = i - 1
    BY <1>3, <1>9
  <2>2. i = k + 1
    BY <2>1
  <2>3. LastAbout(t, k, e)
    BY <1>7, <1>9, <2>2
  <2> QED BY <1>3, <1>9, <2>1, <2>3
<1>10. ASSUME NEW x, LastSaves(c, x)
       PROVE  IF Touches(t, x.event) THEN LastSaves(t, x) ELSE x \in ToSet(w.save)
  <2>1. PICK i \in 1..(n + 1) : x \in ToSet(c[i].save) /\ LastAbout(c, i, x.event)
    BY <1>2, <1>10 DEF LastSaves
  <2>2. CASE i = 1
    BY <1>1, <1>8, <2>1, <2>2
  <2>3. CASE i # 1
    <3>1. PICK k \in 1..n : c[i] = t[k] /\ LastAbout(t, k, x.event)
      BY <1>9, <2>1, <2>3
    <3>2. LastSaves(t, x)
      BY <1>2, <2>1, <3>1 DEF LastSaves
    <3>3. Mentions(t[k], x.event)
      BY <2>1, <3>1 DEF Mentions, EventsOf
    <3>4. Touches(t, x.event)
      BY <1>2, <3>3 DEF Touches
    <3> QED BY <3>2, <3>4
  <2> QED BY <2>2, <2>3
<1>11. ASSUME NEW e, LastRemoves(c, e)
       PROVE  IF Touches(t, e) THEN LastRemoves(t, e) ELSE e \in w.remove
  <2>1. PICK i \in 1..(n + 1) : e \in c[i].remove /\ LastAbout(c, i, e)
    BY <1>2, <1>11 DEF LastRemoves
  <2>2. CASE i = 1
    BY <1>1, <1>8, <2>1, <2>2
  <2>3. CASE i # 1
    <3>1. PICK k \in 1..n : c[i] = t[k] /\ LastAbout(t, k, e)
      BY <1>9, <2>1, <2>3
    <3>2. LastRemoves(t, e)
      BY <1>2, <2>1, <3>1 DEF LastRemoves
    <3>3. Mentions(t[k], e)
      BY <2>1, <3>1 DEF Mentions
    <3>4. Touches(t, e)
      BY <1>2, <3>3 DEF Touches
    <3> QED BY <3>2, <3>4
  <2> QED BY <2>2, <2>3
<1>12. ASSUME NEW e, TouchesOnce(c, e)
       PROVE  IF Mentions(w, e) THEN ~Touches(t, e) ELSE TouchesOnce(t, e)
  <2>1. PICK i \in 1..(n + 1) : /\ Mentions(c[i], e)
                                /\ \A j \in 1..(n + 1) : Mentions(c[j], e) => j = i
    BY <1>2, <1>12 DEF TouchesOnce
  <2>2. CASE i = 1
    <3>1. \A j \in 1..n : ~Mentions(t[j], e)
      BY <1>1, <1>4, <2>1, <2>2
    <3> QED BY <1>1, <1>2, <2>1, <2>2, <3>1 DEF Touches
  <2>3. CASE i # 1
    <3>1. ~Mentions(w, e)
      BY <1>1, <1>5, <2>1, <2>3
    <3>2. PICK k \in 1..n : k = i - 1 /\ c[i] = t[k]
      BY <1>3, <2>3
    <3>3. ASSUME NEW j \in 1..n, Mentions(t[j], e) PROVE j = k
      <4>1. j + 1 = i
        BY <1>1, <1>4, <2>1, <3>3
      <4> QED BY <3>2, <4>1
    <3>4. TouchesOnce(t, e)
      BY <1>2, <2>1, <3>2, <3>3 DEF TouchesOnce
    <3> QED BY <3>1, <3>4
  <2> QED BY <2>2, <2>3
<1>13. ASSUME NEW e, NEW m \in Nat, Within(c, e, m)
       PROVE  IF m = 0 THEN ~Touches(t, e) ELSE Within(t, e, m - 1)
  <2>1. ASSUME NEW j \in 1..n, Mentions(t[j], e) PROVE j + 1 <= m
    BY <1>1, <1>2, <1>4, <1>13, <2>1 DEF Within
  <2>2. CASE m = 0
    <3>1. ASSUME NEW j \in 1..n, Mentions(t[j], e) PROVE FALSE
      <4>1. j + 1 <= m
        BY <2>1, <3>1
      <4> QED BY <2>2, <4>1
    <3> QED BY <1>2, <2>2, <3>1 DEF Touches
  <2>3. CASE m # 0
    <3>1. ASSUME NEW j \in 1..n, Mentions(t[j], e) PROVE j <= m - 1
      <4>1. j + 1 <= m
        BY <2>1, <3>1
      <4> QED BY <4>1
    <3> QED BY <1>2, <2>3, <3>1 DEF Within
  <2> QED BY <2>2, <2>3
<1>14. ASSUME NEW known, NEW dropped, AreProper(c, known, dropped)
       PROVE  IsProper(w, known, dropped) /\ AreProper(t, known, dropped)
  BY <1>1, <1>2, <1>4, <1>5, <1>14 DEF AreProper
<1>15. \A e : \A m \in Nat : Within(c, e, m) => IF m = 0 THEN ~Touches(t, e)
                                                ELSE Within(t, e, m - 1)
  BY <1>13
<1> QED BY <1>0, <1>1, <1>6, <1>10, <1>11, <1>12, <1>14, <1>15

-----------------------------------------------------------------------------
(* Steps that move no event: requests for a flush, timers, the network.    *)

Asks ==
  /\ UNCHANGED <<captured, queue, outbox, writes, fate>> /\ spent'.restarts = spent.restarts
  /\ \/ flush' = flush /\ loaded' = loaded
     \/ /\ loaded' \in {loaded, TRUE}
        /\ flush.pc \in {"none", "waiting"} /\ flush'.pc \in {"none", "waiting"}
        /\ flush'.batch = <<>>
        /\ flush'.pc = "waiting" => flush'.barrier = Len(writes)

LEMMA AllWithin ==
  ASSUME NEW chain \in Seq(Write), NEW e
  PROVE  Within(chain, e, Len(chain))
BY DEF Within

LEMMA AsksKeepsCore ==
  ASSUME TypeOK, CoreOK, Asks
  PROVE  CoreOK'
<1> USE DEF Asks, CoreOK
<1>1. flush'.batch = flush.batch
  BY DEF LinesOK
<1>2. InMemory' = InMemory
  BY <1>1 DEF InMemory
<1>3. LinesOK'
  BY <1>1 DEF LinesOK
<1>4. KnownOK'
  BY <1>1, <1>2 DEF KnownOK
<1>5. WritesOK'
  BY DEF WritesOK
<1>6. UnloadedOK'
  BY <1>2 DEF UnloadedOK
<1>7. CopiesOK'
  BY <1>1 DEF CopiesOK
<1>8. AccountedOK'
  BY <1>2 DEF AccountedOK
<1>9. FirstPageOK'
  <2> SUFFICES ASSUME spent.restarts = 0 PROVE FirstPageOK'
    BY DEF FirstPageOK
  <2>1. \/ flush' = flush /\ loaded' = loaded
        \/ flush'.pc = "waiting" => flush'.barrier = Len(writes)
    OBVIOUS
  <2>2. writes \in Seq(Write)
    BY DEF TypeOK
  <2>3. loaded' /\ flush'.pc = "waiting" =>
          \A e \in EventsOf(queue) :
            IsYoung(writes, outbox, e) \/ Within(writes, e, flush'.barrier)
    BY <2>1, <2>2, AllWithin DEF FirstPageOK
  <2>4. ~loaded' => ~loaded
    OBVIOUS
  <2> QED BY <1>1, <1>2, <2>3, <2>4 DEF FirstPageOK
<1> QED BY <1>3, <1>4, <1>5, <1>6, <1>7, <1>8, <1>9

Flush == [pc : {"none", "waiting", "sending", "removing"}, options : Options,
          resets : BOOLEAN, barrier : Nat, batch : Seq(Entry)]
Follow == [asked : BOOLEAN, options : Options, first : BOOLEAN, rest : BOOLEAN]

LEMMA OptionsType ==
  /\ Everything \in Options /\ UrgentOnly \in Options /\ Keepalive \in Options
  /\ AppOptions \subseteq Options /\ NoFlush \in Flush /\ NoFollow \in Follow
<1>1. Everything \in Options /\ UrgentOnly \in Options /\ Keepalive \in Options
  BY DEF Everything, UrgentOnly, Keepalive, Options
<1>2. NoFlush \in Flush /\ NoFollow \in Follow
  BY <1>1 DEF NoFlush, NoFollow, Flush, Follow
<1> QED BY <1>1, <1>2, FlushAssumption

LEMMA BeginType ==
  ASSUME NEW options \in Options, NEW resets \in BOOLEAN, NEW chain \in Seq(Write),
         NEW begun, begun = Begin(options, resets, chain)
  PROVE  /\ begun \in Flush /\ begun.pc = "waiting" /\ begun.batch = <<>>
         /\ begun.barrier = Len(chain)
<1>1. Len(chain) \in Nat
  OBVIOUS
<1> QED BY <1>1 DEF Begin, Flush

LEMMA RequestStep ==
  ASSUME flush \in Flush, follow \in Follow, writes \in Seq(Write),
         NEW options \in Options, NEW resets \in BOOLEAN, RequestFlush(options, resets)
  PROVE  /\ flush' \in Flush /\ follow' \in Follow
         /\ \/ flush' = flush
            \/ /\ flush.pc = "none" /\ flush'.pc = "waiting" /\ flush'.batch = <<>>
               /\ flush'.barrier = Len(writes)
<1>1. CASE flush.pc = "none"
  <2>1. flush' = Begin(options, resets, writes) /\ follow' = follow
    BY <1>1 DEF RequestFlush
  <2> QED BY <1>1, <2>1, BeginType
<1>2. CASE flush.pc # "none"
  <2>1. flush' = flush
    BY <1>2 DEF RequestFlush
  <2>2. PICK merged : merged = Merge(follow.options, options)
    OBVIOUS
  <2>3. merged \in Options
    BY <2>2 DEF Merge, Options, Follow
  <2>4. CASE follow.asked
    <3>1. follow' = [follow EXCEPT !.options = Merge(@, options), !.rest = @ \/ resets]
      BY <1>2, <2>4 DEF RequestFlush
    <3>2. follow' = [follow EXCEPT !.options = merged, !.rest = follow.rest \/ resets]
      BY <2>2, <3>1
    <3>3. PICK rest \in BOOLEAN : rest = (follow.rest \/ resets)
      OBVIOUS
    <3>4. follow' = [follow EXCEPT !.options = merged, !.rest = rest]
      BY <3>2, <3>3
    <3>5. follow' \in Follow
      BY <2>3, <3>4 DEF Follow
    <3> QED BY <2>1, <3>5
  <2>5. CASE ~follow.asked
    <3>1. follow' = [NoFollow EXCEPT !.asked = TRUE, !.options = options, !.first = resets]
      BY <1>2, <2>5 DEF RequestFlush
    <3>2. follow' \in Follow
      BY <3>1 DEF NoFollow, Follow
    <3> QED BY <2>1, <3>2
  <2> QED BY <2>4, <2>5
<1> QED BY <1>1, <1>2

LEMMA SettleStep ==
  ASSUME flush \in Flush, follow \in Follow, retry \in Options \cup {NoRetry},
         NEW sent \in BOOLEAN, NEW left \in Nat, NEW chain \in Seq(Write),
         NEW backoff \in Options \cup {NoRetry}, Settle(sent, left, chain, backoff)
  PROVE  /\ flush' \in Flush /\ follow' \in Follow /\ retry' \in Options \cup {NoRetry}
         /\ flush'.pc \in {"none", "waiting"} /\ flush'.batch = <<>>
         /\ flush'.pc = "waiting" => flush'.barrier = Len(chain)
<1>1. follow.options \in Options /\ follow.first \in BOOLEAN
  BY DEF Follow
<1>2. flush' = Begin(follow.options, follow.first, chain) \/ flush' = NoFlush
  BY DEF Settle
<1>3. /\ flush' \in Flush /\ flush'.pc \in {"none", "waiting"} /\ flush'.batch = <<>>
      /\ flush'.pc = "waiting" => flush'.barrier = Len(chain)
  <2>1. CASE flush' = Begin(follow.options, follow.first, chain)
    BY <1>1, <2>1, BeginType
  <2>2. CASE flush' = NoFlush
    <3>1. NoFlush.pc = "none" /\ NoFlush.batch = <<>>
      BY DEF NoFlush
    <3> QED BY <2>2, <3>1, OptionsType
  <2> QED BY <1>2, <2>1, <2>2
<1>4. follow' \in Follow /\ retry' \in Options \cup {NoRetry}
  BY OptionsType DEF Settle
<1> QED BY <1>3, <1>4

\* What TypeOK says of the variables that a request for a flush changes, and of the others.
AskingOK ==
  /\ flush \in Flush /\ follow \in Follow
  /\ timers \subseteq {"urgent", "batch"} /\ retry \in Options \cup {NoRetry}
  /\ online \in BOOLEAN /\ destroyed \in BOOLEAN
  /\ loaded \in BOOLEAN
  /\ spent \in [outages : 0..MaxOutages, restarts : 0..MaxRestarts]
DataOK ==
  /\ captured \in 0..MaxEvent
  /\ queue \in Seq(Entry) /\ Len(queue) <= QueueLimit /\ Bytes(queue) <= QueueBytes
  /\ outbox \in Seq(Entry) /\ Len(outbox) <= OutboxLimit /\ EventsOf(outbox) \subseteq Urgent
  /\ writes \in Seq(Write)
  /\ fate \in [Fates -> SUBSET Events]

LEMMA TypeParts == (TypeOK <=> AskingOK /\ DataOK) /\ (TypeOK' <=> AskingOK' /\ DataOK')
BY DEF TypeOK, AskingOK, DataOK, Flush, Follow

\* A step that asks, or does not, and touches the timers, the gate of the
\* retries or the network at most.
LEMMA AskingStep ==
  ASSUME TypeOK, CoreOK,
         UNCHANGED <<captured, queue, outbox, loaded, writes, fate>>,
         UNCHANGED <<flush, follow>>
           \/ (\E options \in Options, resets \in BOOLEAN : RequestFlush(options, resets)),
         timers' \subseteq timers, retry' \in {retry, NoRetry},
         online' \in BOOLEAN, destroyed' \in BOOLEAN,
         spent' = spent \/ (spent'.restarts = spent.restarts
                             /\ spent' \in [outages : 0..MaxOutages, restarts : 0..MaxRestarts])
  PROVE  TypeOK' /\ Asks
<1>1. AskingOK /\ DataOK
  BY TypeParts
<1>2. /\ flush' \in Flush /\ follow' \in Follow
      /\ flush' = flush \/ (/\ flush.pc = "none" /\ flush'.pc = "waiting"
                            /\ flush'.batch = <<>> /\ flush'.barrier = Len(writes))
  <2>1. CASE UNCHANGED <<flush, follow>>
    BY <1>1, <2>1 DEF AskingOK
  <2>2. CASE \E options \in Options, resets \in BOOLEAN : RequestFlush(options, resets)
    BY <1>1, <2>2, RequestStep DEF AskingOK, DataOK
  <2> QED BY <2>1, <2>2
<1>3. AskingOK'
  BY <1>1, <1>2 DEF AskingOK
<1>4. DataOK'
  BY <1>1 DEF DataOK
<1>5. Asks
  BY <1>2 DEF Asks
<1> QED BY <1>3, <1>4, <1>5, TypeParts

LEMMA IntervalFlushAsks ==
  ASSUME TypeOK, CoreOK, IntervalFlush
  PROVE  TypeOK' /\ Asks
<1>1. /\ RequestFlush(Everything, TRUE)
      /\ UNCHANGED <<captured, queue, outbox, loaded, writes, retry, page, fate>>
  BY DEF IntervalFlush
<1>2. online \in BOOLEAN /\ destroyed \in BOOLEAN
  BY DEF TypeOK
<1> QED BY <1>1, <1>2, OptionsType, AskingStep DEF page

LEMMA TimerAsks ==
  ASSUME TypeOK, CoreOK, NEW timer, NEW options \in Options, TimerFires(timer, options)
  PROVE  TypeOK' /\ Asks
<1>1. /\ RequestFlush(options, TRUE) \/ UNCHANGED <<flush, follow>>
      /\ timers' = timers \ {timer}
      /\ UNCHANGED <<captured, queue, outbox, loaded, writes, retry, online, destroyed, fate, spent>>
  BY DEF TimerFires
<1>2. online \in BOOLEAN /\ destroyed \in BOOLEAN
  BY DEF TypeOK
<1> QED BY <1>1, <1>2, AskingStep

LEMMA RetryTimerAsks ==
  ASSUME TypeOK, CoreOK, RetryTimer
  PROVE  TypeOK' /\ Asks
<1>1. /\ RequestFlush(retry, TRUE) \/ UNCHANGED <<flush, follow>>
      /\ retry # NoRetry /\ retry' = NoRetry
      /\ UNCHANGED <<captured, queue, outbox, loaded, writes, page, fate>>
  BY DEF RetryTimer
<1>2. online \in BOOLEAN /\ destroyed \in BOOLEAN /\ retry \in Options \cup {NoRetry}
  BY DEF TypeOK
<1> QED BY <1>1, <1>2, AskingStep DEF page

LEMMA PageHideAsks ==
  ASSUME TypeOK, CoreOK, PageHide
  PROVE  TypeOK' /\ Asks
<1>1. /\ RequestFlush(Keepalive, TRUE)
      /\ UNCHANGED <<captured, queue, outbox, loaded, writes, retry, page, fate>>
  BY DEF PageHide
<1>2. online \in BOOLEAN /\ destroyed \in BOOLEAN
  BY DEF TypeOK
<1> QED BY <1>1, <1>2, OptionsType, AskingStep DEF page

LEMMA AppFlushAsks ==
  ASSUME TypeOK, CoreOK, AppFlush
  PROVE  TypeOK' /\ Asks
<1>1. /\ \E options \in AppOptions : RequestFlush(options, FALSE)
      /\ UNCHANGED <<captured, queue, outbox, loaded, writes, retry, page, fate>>
  BY DEF AppFlush
<1>2. online \in BOOLEAN /\ destroyed \in BOOLEAN
  BY DEF TypeOK
<1>3. \E options \in Options, resets \in BOOLEAN : RequestFlush(options, resets)
  BY <1>1, OptionsType
<1> QED BY <1>1, <1>2, <1>3, AskingStep DEF page

LEMMA NetworkAsks ==
  ASSUME TypeOK, CoreOK, GoOffline \/ GoOnline
  PROVE  TypeOK' /\ Asks
<1>1. online \in BOOLEAN /\ destroyed \in BOOLEAN
      /\ spent \in [outages : 0..MaxOutages, restarts : 0..MaxRestarts]
  BY DEF TypeOK
<1>2. CASE GoOffline
  <2>1. /\ online' = FALSE /\ spent.outages < MaxOutages
        /\ spent' = [spent EXCEPT !.outages = @ + 1]
        /\ UNCHANGED <<captured, queue, outbox, loaded, writes, flushing, timers, destroyed, fate>>
    BY <1>2 DEF GoOffline
  <2>2. /\ spent' \in [outages : 0..MaxOutages, restarts : 0..MaxRestarts]
        /\ spent'.restarts = spent.restarts
    BY <1>1, <2>1, FlushAssumption
  <2> QED BY <1>1, <2>1, <2>2, AskingStep DEF flushing
<1>3. CASE GoOnline
  <2>1. /\ online' = TRUE
        /\ UNCHANGED <<captured, queue, outbox, loaded, writes, timers, destroyed, fate, spent>>
        /\ UNCHANGED <<flush, follow, retry>> \/ (retry' = NoRetry /\ RequestFlush(UrgentOnly, TRUE))
    BY <1>3 DEF GoOnline, flushing
  <2> QED BY <1>1, <2>1, OptionsType, AskingStep
<1> QED BY <1>2, <1>3

LEMMA DestroyAsks ==
  ASSUME TypeOK, CoreOK, Destroy
  PROVE  TypeOK' /\ Asks
<1>1. /\ destroyed' = TRUE /\ timers' = {} /\ retry' = NoRetry
      /\ UNCHANGED <<captured, queue, outbox, loaded, writes, flush, follow, online, fate, spent>>
  BY DEF Destroy
<1>2. online \in BOOLEAN
  BY DEF TypeOK
<1> QED BY <1>1, <1>2, AskingStep

LEMMA LoadFailsAsks ==
  ASSUME TypeOK, CoreOK, LoadFails
  PROVE  TypeOK' /\ Asks
<1>1. /\ ~loaded /\ loaded' = TRUE /\ flush' = Ready
      /\ UNCHANGED <<captured, queue, outbox, writes, follow, retry, page, fate>>
  BY DEF LoadFails
<1>2. AskingOK /\ DataOK
  BY TypeParts
<1>3. PICK n \in Nat : n = Len(writes)
  BY <1>2 DEF DataOK
<1>4. flush.pc \in {"none", "waiting"} /\ flush.batch = <<>>
  BY <1>1 DEF CoreOK, UnloadedOK, LinesOK
<1>5. /\ flush' \in Flush /\ flush'.pc \in {"none", "waiting"} /\ flush'.batch = <<>>
      /\ flush'.pc = "waiting" => flush'.barrier = n
  <2>1. flush' = IF flush.pc = "waiting" THEN [flush EXCEPT !.barrier = n] ELSE flush
    BY <1>1, <1>3 DEF Ready
  <2>2. flush \in Flush
    BY <1>2 DEF AskingOK
  <2> QED BY <1>4, <2>1, <2>2 DEF Flush
<1>6. AskingOK'
  BY <1>1, <1>2, <1>5 DEF AskingOK, page
<1>7. DataOK'
  BY <1>1, <1>2 DEF DataOK
<1>8. Asks
  BY <1>1, <1>3, <1>4, <1>5 DEF Asks, page
<1> QED BY <1>6, <1>7, <1>8, TypeParts

LEMMA DrainNothingAsks ==
  ASSUME TypeOK, CoreOK, DrainNothing
  PROVE  TypeOK' /\ Asks
<1>1. /\ flush.pc = "waiting" /\ Settle(FALSE, Len(queue), writes, retry)
      /\ UNCHANGED <<captured, queue, outbox, loaded, writes, page, fate>>
  BY DEF DrainNothing, Draining
<1>2. AskingOK /\ DataOK
  BY TypeParts
<1>3. Len(queue) \in Nat
  BY <1>2 DEF DataOK
<1>4. /\ flush' \in Flush /\ follow' \in Follow /\ retry' \in Options \cup {NoRetry}
      /\ flush'.pc \in {"none", "waiting"} /\ flush'.batch = <<>>
      /\ flush'.pc = "waiting" => flush'.barrier = Len(writes)
  BY <1>1, <1>2, <1>3, SettleStep DEF AskingOK, DataOK
<1>5. AskingOK'
  BY <1>1, <1>2, <1>4 DEF AskingOK, page
<1>6. DataOK'
  BY <1>1, <1>2 DEF DataOK
<1>7. Asks
  BY <1>1, <1>4 DEF Asks, page
<1> QED BY <1>5, <1>6, <1>7, TypeParts

-----------------------------------------------------------------------------
(* Sending.                                                                *)

LEMMA BecameParts ==
  ASSUME fate \in [Fates -> SUBSET Events], NEW f \in Fates, NEW S \in SUBSET Events,
         fate' = Became(f, S)
  PROVE  /\ fate' \in [Fates -> SUBSET Events]
         /\ fate'[f] = fate[f] \cup S
         /\ \A g \in Fates \ {f} : fate'[g] = fate[g]
BY DEF Became

LEMMA MemoryIsLines ==
  ASSUME LinesOK
  PROVE  /\ \A x, y \in ToSet(queue) \cup ToSet(flush.batch) : x.event = y.event => x = y
         /\ InMemory = {x.event : x \in ToSet(queue) \cup ToSet(flush.batch)}
         /\ \A x, y \in ToSet(outbox) : x.event = y.event => x = y
<1>1. \A x, y \in ToSet(queue) : x.event = y.event => x = y
  BY DEF LinesOK, IsLine, EachOnce, ToSet
<1>2. \A x, y \in ToSet(flush.batch) : x.event = y.event => x = y
  BY DEF LinesOK, IsLine, EachOnce, ToSet
<1>3. \A x, y \in ToSet(outbox) : x.event = y.event => x = y
  BY DEF LinesOK, IsLine, EachOnce, ToSet
<1>4. \A x \in ToSet(queue), y \in ToSet(flush.batch) : x.event # y.event
  BY DEF LinesOK, EventsOf
<1> QED BY <1>1, <1>2, <1>3, <1>4 DEF InMemory, EventsOf

LEMMA SendKeeps ==
  ASSUME TypeOK, CoreOK, Send
  PROVE  TypeOK' /\ CoreOK'
<1>1. AskingOK /\ DataOK
  BY TypeParts
<1>2. /\ flush.pc = "waiting" /\ loaded /\ flush.barrier = 0
      /\ queue' = Drained.queue /\ flush' = [flush EXCEPT !.pc = "sending", !.batch = Drained.batch]
      /\ UNCHANGED <<captured, outbox, loaded, writes, follow, retry, page, fate>>
  BY DEF Send, Draining
<1>3. flush.batch = <<>> /\ EventsOf(<<>>) = {} /\ ToSet(<<>>) = {}
  BY <1>2 DEF CoreOK, LinesOK, EventsOf, ToSet
<1>4. PICK batch, rest : batch = Drained.batch /\ rest = Drained.queue
  OBVIOUS
<1>5. /\ IsLine(rest) /\ InBounds(rest) /\ IsLine(batch)
      /\ ToSet(rest) \cup ToSet(batch) = ToSet(queue)
      /\ EventsOf(rest) \cap EventsOf(batch) = {}
  <2>1. PICK limit, bytes, urgentOnly : Drained = Drain(queue, limit, bytes, urgentOnly)
    BY DEF Drained
  <2>2. IsLine(queue) /\ InBounds(queue)
    BY DEF CoreOK, LinesOK
  <2> QED BY <1>4, <2>1, <2>2, DrainedParts
<1>6. batch \in Seq(Entry) /\ rest \in Seq(Entry)
  BY <1>5, LineType
<1>7. /\ flush' \in Flush /\ flush'.pc = "sending" /\ flush'.batch = batch /\ queue' = rest
  BY <1>1, <1>2, <1>4, <1>6 DEF AskingOK, Flush
<1>8. AskingOK' /\ DataOK'
  BY <1>1, <1>2, <1>5, <1>6, <1>7 DEF AskingOK, DataOK, page, InBounds
<1>9. ToSet(queue') \cup ToSet(flush'.batch) = ToSet(queue) \cup ToSet(flush.batch)
  BY <1>3, <1>5, <1>7
<1>10. InMemory' = InMemory
  BY <1>9 DEF InMemory, EventsOf
<1>11. LinesOK'
  BY <1>2, <1>5, <1>7 DEF LinesOK, CoreOK
<1>12. KnownOK'
  BY <1>2, <1>7, <1>10 DEF KnownOK, CoreOK
<1>13. WritesOK' /\ UnloadedOK'
  BY <1>2 DEF WritesOK, UnloadedOK, CoreOK
<1>14. CopiesOK'
  BY <1>2, <1>9 DEF CopiesOK, CoreOK
<1>15. AccountedOK'
  BY <1>2, <1>10 DEF AccountedOK, CoreOK
<1>16. FirstPageOK'
  <2> SUFFICES ASSUME spent.restarts = 0 PROVE FirstPageOK'
    BY <1>2 DEF FirstPageOK, page
  <2>1. \A e \in EventsOf(queue) : IsYoung(writes, outbox, e) \/ Within(writes, e, 0)
    BY <1>2 DEF FirstPageOK, CoreOK
  <2>2. \A e : Within(writes, e, 0) => ~Touches(writes, e)
    BY <1>1 DEF Within, Touches, DataOK
  <2>3. EventsOf(batch) \subseteq EventsOf(queue)
    BY <1>5 DEF EventsOf
  <2>4. \A e \in EventsOf(flush'.batch) : IsQuiet(writes, outbox, e)
    BY <1>7, <2>1, <2>2, <2>3 DEF IsQuiet
  <2> QED BY <1>2, <1>7, <1>10, <2>4 DEF FirstPageOK, CoreOK
<1> QED BY <1>8, <1>11, <1>12, <1>13, <1>14, <1>15, <1>16, TypeParts DEF CoreOK

LEMMA SendSucceedsKeeps ==
  ASSUME TypeOK, CoreOK, SendSucceeds
  PROVE  TypeOK' /\ CoreOK'
<1>1. AskingOK /\ DataOK
  BY TypeParts
<1>2. /\ flush.pc = "sending" /\ fate' = Became("delivered", EventsOf(flush.batch))
      /\ flush' = [flush EXCEPT !.pc = "removing", !.barrier = IF writes = <<>> THEN 0 ELSE 1]
      /\ UNCHANGED <<captured, queue, outbox, loaded, writes, follow, retry, page>>
  BY DEF SendSucceeds
<1>3. flush' \in Flush /\ flush'.pc = "removing" /\ flush'.batch = flush.batch
  BY <1>1, <1>2 DEF AskingOK, Flush
<1>4. EventsOf(flush.batch) \subseteq 1..captured /\ 1..captured \subseteq Events
  <2>1. 1..captured \subseteq Events
    BY <1>1, EventsAssumption DEF DataOK, Events
  <2> QED BY <2>1 DEF CoreOK, KnownOK, InMemory
<1>5. /\ fate' \in [Fates -> SUBSET Events]
      /\ fate'["delivered"] = fate["delivered"] \cup EventsOf(flush.batch)
      /\ \A g \in Fates \ {"delivered"} : fate'[g] = fate[g]
  BY <1>1, <1>2, <1>4, BecameParts DEF DataOK, Fates
<1>6. /\ fate'["dropped"] = fate["dropped"] /\ fate'["unwritten"] = fate["unwritten"]
      /\ fate'["silent"] = fate["silent"] /\ fate'["left"] = fate["left"]
  BY <1>5 DEF Fates
<1>7. AskingOK' /\ DataOK'
  BY <1>1, <1>2, <1>3, <1>5 DEF AskingOK, DataOK, page
<1>8. InMemory' = InMemory
  BY <1>2, <1>3 DEF InMemory
<1>9. LinesOK'
  BY <1>2, <1>3 DEF LinesOK, CoreOK
<1>10. KnownOK'
  BY <1>2, <1>3, <1>4, <1>5, <1>8 DEF KnownOK, CoreOK
<1>11. WritesOK'
  BY <1>2, <1>6 DEF WritesOK, CoreOK
<1>12. UnloadedOK'
  BY <1>2 DEF UnloadedOK, CoreOK
<1>13. CopiesOK'
  BY <1>2, <1>3, <1>6 DEF CopiesOK, CoreOK
<1>14. AccountedOK'
  BY <1>2, <1>5, <1>6, <1>8 DEF AccountedOK, CoreOK
<1>15. FirstPageOK'
  <2> SUFFICES ASSUME spent.restarts = 0 PROVE FirstPageOK'
    BY <1>2 DEF FirstPageOK, page
  <2> QED BY <1>2, <1>3, <1>6, <1>8 DEF FirstPageOK, CoreOK
<1> QED BY <1>7, <1>9, <1>10, <1>11, <1>12, <1>13, <1>14, <1>15, TypeParts DEF CoreOK

LEMMA FewerAreStored ==
  ASSUME NEW chain, NEW s, NEW t, ToSet(t) \subseteq ToSet(s)
  PROVE  /\ EventsOf(t) \subseteq EventsOf(s)
         /\ \A e : IsYoung(chain, s, e) => IsYoung(chain, t, e)
         /\ \A e : IsQuiet(chain, s, e) => IsQuiet(chain, t, e)
         /\ \A e, u : IsForgotten(chain, s, u, e) => IsForgotten(chain, t, u, e)
<1>1. EventsOf(t) \subseteq EventsOf(s)
  BY DEF EventsOf
<1>2. \A e : IsYoung(chain, s, e) => IsYoung(chain, t, e)
  BY <1>1 DEF IsYoung
<1> QED BY <1>1, <1>2 DEF IsQuiet, IsForgotten

LEMMA RemoveSettlesKeeps ==
  ASSUME TypeOK, CoreOK, RemoveSettles
  PROVE  TypeOK' /\ CoreOK'
<1>1. AskingOK /\ DataOK
  BY TypeParts
<1>2. /\ flush.pc = "removing"
      /\ outbox' = Without(outbox, EventsOf(flush.batch)) \/ outbox' = outbox
      /\ Settle(TRUE, Len(queue), writes, retry)
      /\ UNCHANGED <<captured, queue, loaded, writes, page, fate>>
  BY DEF RemoveSettles
<1>3. /\ flush' \in Flush /\ follow' \in Follow /\ retry' \in Options \cup {NoRetry}
      /\ flush'.pc \in {"none", "waiting"} /\ flush'.batch = <<>>
      /\ flush'.pc = "waiting" => flush'.barrier = Len(writes)
  <2>1. Len(queue) \in Nat
    BY <1>1 DEF DataOK
  <2> QED BY <1>1, <1>2, <2>1, SettleStep DEF AskingOK, DataOK
<1>4. EventsOf(<<>>) = {} /\ ToSet(<<>>) = {} /\ IsLine(<<>>)
  BY DEF EventsOf, ToSet, IsLine, EachOnce
<1>5. InMemory' = EventsOf(queue) /\ InMemory = EventsOf(queue) \cup EventsOf(flush.batch)
  BY <1>2, <1>3, <1>4 DEF InMemory
<1>6. /\ IsLine(outbox') /\ Len(outbox') <= OutboxLimit
      /\ ToSet(outbox') \subseteq ToSet(outbox)
      /\ EventsOf(outbox) \subseteq EventsOf(outbox') \cup EventsOf(flush.batch)
      /\ \A x \in ToSet(outbox) : x.event \notin EventsOf(flush.batch) => x \in ToSet(outbox')
  <2>1. IsLine(outbox)
    BY DEF CoreOK, LinesOK
  <2>2. CASE outbox' = outbox
    BY <1>1, <2>1, <2>2 DEF DataOK
  <2>3. CASE outbox' = Without(outbox, EventsOf(flush.batch))
    <3>1. PICK rest : rest = Without(outbox, EventsOf(flush.batch))
      OBVIOUS
    <3>2. /\ IsLine(rest) /\ Len(rest) <= Len(outbox)
          /\ ToSet(rest) = {x \in ToSet(outbox) : x.event \notin EventsOf(flush.batch)}
          /\ EventsOf(rest) = EventsOf(outbox) \ EventsOf(flush.batch)
      BY <2>1, <3>1, WithoutLine
    <3>3. Len(rest) <= OutboxLimit
      <4>1. Len(rest) \in Nat /\ Len(outbox) \in Nat /\ OutboxLimit \in Nat
        BY <2>1, <3>2, BoundsAssumption DEF IsLine
      <4> QED BY <1>1, <3>2, <4>1 DEF DataOK
    <3> QED BY <2>3, <3>1, <3>2, <3>3
  <2> QED BY <1>2, <2>2, <2>3
<1>7. EventsOf(outbox') \subseteq EventsOf(outbox)
  BY <1>6 DEF EventsOf
<1>8. AskingOK'
  BY <1>1, <1>2, <1>3 DEF AskingOK, page
<1>9. DataOK'
  <2>1. outbox' \in Seq(Entry)
    BY <1>6, LineType
  <2> QED BY <1>1, <1>2, <1>6, <1>7, <2>1 DEF DataOK
<1>10. LinesOK'
  BY <1>2, <1>3, <1>4, <1>6 DEF LinesOK, CoreOK
<1>11. KnownOK'
  BY <1>2, <1>3, <1>5, <1>7 DEF KnownOK, CoreOK
<1>12. WritesOK'
  BY <1>2 DEF WritesOK, CoreOK
<1>13. UnloadedOK'
  BY <1>2 DEF UnloadedOK, CoreOK
<1>14. CopiesOK'
  <2>1. \A x \in ToSet(queue) : x.event \notin EventsOf(flush.batch)
    BY DEF CoreOK, LinesOK, EventsOf
  <2>2. \A x \in ToSet(queue) : x.event \in Urgent =>
          CopyIsRight(writes, outbox', fate["unwritten"], x)
    BY <1>6, <2>1 DEF CopyIsRight, CopiesOK, CoreOK
  <2> QED BY <1>2, <1>3, <1>4, <2>2 DEF CopiesOK
<1>15. AccountedOK'
  <2>1. EventsOf(flush.batch) \subseteq fate["delivered"]
    BY <1>2 DEF KnownOK, CoreOK
  <2> QED BY <1>2, <1>5, <1>6, <2>1 DEF AccountedOK, CoreOK
<1>16. FirstPageOK'
  <2> SUFFICES ASSUME spent.restarts = 0 PROVE FirstPageOK'
    BY <1>2 DEF FirstPageOK, page
  <2>1. /\ \A e : IsYoung(writes, outbox, e) => IsYoung(writes, outbox', e)
        /\ \A e : IsQuiet(writes, outbox, e) => IsQuiet(writes, outbox', e)
        /\ \A e, u : IsForgotten(writes, outbox, u, e) => IsForgotten(writes, outbox', u, e)
    BY <1>6, FewerAreStored
  <2>2. loaded
    BY <1>2 DEF UnloadedOK, CoreOK
  <2>3. InMemory' \cap fate["dropped"] = {}
    BY <1>5 DEF FirstPageOK, CoreOK
  <2>4. \A e \in fate["dropped"] : IsForgotten(writes, outbox', fate["unwritten"], e)
    BY <2>1 DEF FirstPageOK, CoreOK
  <2>5. \A e \in (1..captured) \ (InMemory' \cup fate["dropped"]) : IsQuiet(writes, outbox', e)
    BY <1>5, <2>1 DEF FirstPageOK, CoreOK
  <2>6. flush'.pc = "waiting" => \A e : Within(writes, e, flush'.barrier)
    BY <1>1, <1>3, AllWithin DEF DataOK
  <2> QED BY <1>2, <1>3, <1>4, <2>2, <2>3, <2>4, <2>5, <2>6 DEF FirstPageOK
<1> QED BY <1>8, <1>9, <1>10, <1>11, <1>12, <1>13, <1>14, <1>15, <1>16, TypeParts DEF CoreOK

LEMMA RestartKeeps ==
  ASSUME TypeOK, CoreOK, Restart
  PROVE  TypeOK' /\ CoreOK'
<1>1. AskingOK /\ DataOK
  BY TypeParts
<1>2. /\ spent.restarts < MaxRestarts /\ spent' = [spent EXCEPT !.restarts = @ + 1]
      /\ fate' = Became("left", InMemory \ (EventsOf(outbox) \cup fate["delivered"]))
      /\ queue' = <<>> /\ writes' = <<>> /\ loaded' = FALSE
      /\ flush' = NoFlush /\ follow' = NoFollow
      /\ timers' = {} /\ retry' = NoRetry /\ destroyed' = FALSE
      /\ UNCHANGED <<captured, outbox, online>>
  BY DEF Restart
<1>3. EventsOf(<<>>) = {} /\ ToSet(<<>>) = {} /\ IsLine(<<>>) /\ InBounds(<<>>)
      /\ <<>> \in Seq(Entry) /\ <<>> \in Seq(Write) /\ DOMAIN <<>> = {}
  BY BytesOfNothing, BoundsAssumption DEF EventsOf, ToSet, IsLine, EachOnce, InBounds
<1>4. NoFlush.pc = "none" /\ NoFlush.batch = <<>>
  BY DEF NoFlush
<1>5. InMemory' = {}
  BY <1>2, <1>3, <1>4 DEF InMemory
<1>6. InMemory \subseteq Events
  <2>1. 1..captured \subseteq Events
    BY <1>1, EventsAssumption DEF DataOK, Events
  <2> QED BY <2>1 DEF CoreOK, KnownOK
<1>7. /\ fate' \in [Fates -> SUBSET Events]
      /\ fate'["left"] = fate["left"] \cup (InMemory \ (EventsOf(outbox) \cup fate["delivered"]))
      /\ \A g \in Fates \ {"left"} : fate'[g] = fate[g]
  <2>1. PICK S \in SUBSET Events : S = InMemory \ (EventsOf(outbox) \cup fate["delivered"])
    BY <1>6
  <2> QED BY <1>1, <1>2, <2>1, BecameParts DEF DataOK, Fates
<1>8. /\ fate'["delivered"] = fate["delivered"] /\ fate'["silent"] = fate["silent"]
      /\ fate'["dropped"] = fate["dropped"]
  BY <1>7 DEF Fates
<1>9. spent' \in [outages : 0..MaxOutages, restarts : 0..MaxRestarts] /\ spent'.restarts # 0
  BY <1>1, <1>2, FlushAssumption DEF AskingOK
<1>10. AskingOK'
  BY <1>1, <1>2, <1>9, OptionsType DEF AskingOK
<1>11. DataOK'
  BY <1>1, <1>2, <1>3, <1>7 DEF DataOK, InBounds
<1>12. LinesOK'
  BY <1>2, <1>3, <1>4 DEF LinesOK, CoreOK
<1>13. KnownOK'
  <2>1. fate'["left"] \subseteq 1..captured
    BY <1>7 DEF CoreOK, KnownOK, Fates
  <2>2. \A f \in Fates : fate'[f] \subseteq 1..captured
    BY <1>7, <2>1 DEF CoreOK, KnownOK
  <2> QED BY <1>2, <1>4, <1>5, <2>2 DEF KnownOK, CoreOK
<1>14. WritesOK' /\ UnloadedOK'
  BY <1>2, <1>3, <1>4, <1>5 DEF WritesOK, UnloadedOK, AreProper, Touches
<1>15. CopiesOK'
  BY <1>2, <1>3, <1>4 DEF CopiesOK
<1>16. AccountedOK'
  BY <1>2, <1>5, <1>7, <1>8 DEF AccountedOK, CoreOK
<1>17. FirstPageOK'
  BY <1>9 DEF FirstPageOK
<1> QED BY <1>10, <1>11, <1>12, <1>13, <1>14, <1>15, <1>16, <1>17, TypeParts DEF CoreOK

-----------------------------------------------------------------------------
(* Writing.                                                                *)

LEMMA HeadStep ==
  ASSUME TypeOK, CoreOK, HeadSettles
  PROVE  /\ loaded /\ writes # <<>> /\ writes' = Tail(writes)
         /\ flush' \in Flush /\ flush'.pc = flush.pc /\ flush'.batch = flush.batch
         /\ flush'.barrier = IF flush.barrier > 0 THEN flush.barrier - 1 ELSE 0
         /\ flush.barrier \in Nat
<1>1. AskingOK
  BY TypeParts
<1>2. loaded /\ writes # <<>> /\ writes' = Tail(writes)
      /\ flush' = [flush EXCEPT !.barrier = IF @ > 0 THEN @ - 1 ELSE 0]
  BY DEF HeadSettles
<1>3. PICK b \in Nat : b = flush.barrier
  BY <1>1 DEF AskingOK, Flush
<1>4. PICK rest \in Nat : rest = IF b > 0 THEN b - 1 ELSE 0
  OBVIOUS
<1>5. flush' = [flush EXCEPT !.barrier = rest]
  BY <1>2, <1>3, <1>4
<1> QED BY <1>1, <1>2, <1>3, <1>4, <1>5 DEF AskingOK, Flush

\* The part of FirstPageOK that no result of the write at the head decides.
LEMMA HeadOfFirstPage ==
  ASSUME TypeOK, CoreOK, HeadSettles, spent.restarts = 0, NEW stored,
         \A x \in ToSet(stored) :
           x \in ToSet(Head(writes).save) \/ x \in ToSet(outbox)
  PROVE  /\ \A e : IsQuiet(writes, outbox, e) => IsQuiet(Tail(writes), stored, e)
         /\ \A e \in (1..captured) \ (InMemory \cup fate["dropped"]) :
              IsQuiet(Tail(writes), stored, e)
         /\ \A e \in EventsOf(flush.batch) : IsQuiet(Tail(writes), stored, e)
         /\ flush.pc = "waiting" =>
              \A e \in EventsOf(queue) :
                IsYoung(Tail(writes), stored, e) \/ Within(Tail(writes), e, flush'.barrier)
<1>1. AskingOK /\ DataOK
  BY TypeParts
<1>2. /\ loaded /\ writes # <<>>
      /\ flush'.barrier = IF flush.barrier > 0 THEN flush.barrier - 1 ELSE 0
      /\ flush.barrier \in Nat
  BY HeadStep
<1>3. PICK w, t : w = Head(writes) /\ t = Tail(writes)
  OBVIOUS
<1>4. /\ t \in Seq(Write)
      /\ \A e : Touches(writes, e) <=> Mentions(w, e) \/ Touches(t, e)
      /\ \A e : TouchesOnce(writes, e) => IF Mentions(w, e) THEN ~Touches(t, e)
                                          ELSE TouchesOnce(t, e)
      /\ \A e : \A n \in Nat : Within(writes, e, n) => IF n = 0 THEN ~Touches(t, e)
                                                       ELSE Within(t, e, n - 1)
  BY <1>1, <1>2, <1>3, ChainShrinks DEF DataOK
<1>5. \A e : e \in EventsOf(stored) => e \in EventsOf(w.save) \/ e \in EventsOf(outbox)
  BY <1>3 DEF EventsOf
<1>6. \A e : IsYoung(writes, outbox, e) => ~Touches(t, e) \/ IsYoung(t, stored, e)
  <2> SUFFICES ASSUME NEW e, IsYoung(writes, outbox, e), Touches(t, e)
               PROVE  IsYoung(t, stored, e)
    OBVIOUS
  <2>1. ~Mentions(w, e) /\ TouchesOnce(t, e)
    BY <1>4 DEF IsYoung
  <2>2. e \notin EventsOf(stored)
    BY <1>5, <2>1 DEF IsYoung, Mentions
  <2> QED BY <2>1, <2>2 DEF IsYoung
<1>7. \A e : IsQuiet(writes, outbox, e) => IsQuiet(t, stored, e)
  BY <1>4, <1>6 DEF IsQuiet
<1>8. ASSUME flush.pc = "waiting", NEW e \in EventsOf(queue)
      PROVE  IsYoung(t, stored, e) \/ Within(t, e, flush'.barrier)
  <2>1. \A n : ~Touches(t, e) => Within(t, e, n)
    BY DEF Touches, Within
  <2>2. IsYoung(writes, outbox, e) \/ Within(writes, e, flush.barrier)
    BY <1>2, <1>8 DEF FirstPageOK, CoreOK
  <2>3. Within(writes, e, flush.barrier) => Within(t, e, flush'.barrier)
    BY <1>2, <1>4, <2>1
  <2> QED BY <1>6, <2>1, <2>2, <2>3
<1> QED BY <1>3, <1>7, <1>8 DEF FirstPageOK, CoreOK

LEMMA WriteFailsKeeps ==
  ASSUME TypeOK, CoreOK, WriteFails
  PROVE  TypeOK' /\ CoreOK'
<1>1. AskingOK /\ DataOK
  BY TypeParts
<1>2. /\ HeadSettles
      /\ fate' = Became("unwritten", EventsOf(Head(writes).save) \cup Head(writes).remove)
      /\ UNCHANGED <<captured, queue, outbox, loaded, follow, retry, page>>
  BY DEF WriteFails
<1>3. /\ loaded /\ writes # <<>>
      /\ flush' \in Flush /\ flush'.pc = flush.pc /\ flush'.batch = flush.batch
  BY <1>2, HeadStep
<1>4. PICK w, t : w = Head(writes) /\ t = Tail(writes) /\ writes' = t
  BY <1>2, HeadStep
<1>5. /\ w \in Write /\ t \in Seq(Write)
      /\ \A e : Touches(writes, e) <=> Mentions(w, e) \/ Touches(t, e)
      /\ \A x : LastSaves(writes, x) /\ Touches(t, x.event) => LastSaves(t, x)
      /\ \A e : LastRemoves(writes, e) /\ Touches(t, e) => LastRemoves(t, e)
  BY <1>1, <1>3, <1>4, ChainShrinks DEF DataOK
<1>6. IsProper(w, 1..captured, fate["dropped"]) /\ AreProper(t, 1..captured, fate["dropped"])
  BY <1>1, <1>3, <1>4, ChainShrinks DEF DataOK, CoreOK, WritesOK
<1>7. 1..captured \subseteq Events
  BY <1>1, EventsAssumption DEF DataOK, Events
<1>8. PICK failed \in SUBSET Events :
        failed = EventsOf(w.save) \cup w.remove /\ failed \subseteq 1..captured
  BY <1>6, <1>7 DEF IsProper
<1>9. /\ fate' \in [Fates -> SUBSET Events]
      /\ fate'["unwritten"] = fate["unwritten"] \cup failed
      /\ \A g \in Fates \ {"unwritten"} : fate'[g] = fate[g]
  BY <1>1, <1>2, <1>4, <1>8, BecameParts DEF DataOK, Fates
<1>10. /\ fate'["delivered"] = fate["delivered"] /\ fate'["silent"] = fate["silent"]
       /\ fate'["dropped"] = fate["dropped"] /\ fate'["left"] = fate["left"]
  BY <1>9 DEF Fates
<1>11. \A e : Mentions(w, e) <=> e \in failed
  BY <1>8 DEF Mentions
<1>12. InMemory' = InMemory
  BY <1>2, <1>3 DEF InMemory
<1>13. AskingOK' /\ DataOK'
  BY <1>1, <1>2, <1>3, <1>4, <1>5, <1>9 DEF AskingOK, DataOK, page
<1>14. LinesOK'
  BY <1>2, <1>3 DEF LinesOK, CoreOK
<1>15. KnownOK'
  <2>1. \A f \in Fates : fate'[f] \subseteq 1..captured
    BY <1>8, <1>9 DEF CoreOK, KnownOK
  <2> QED BY <1>2, <1>3, <1>10, <1>12, <2>1 DEF KnownOK, CoreOK
<1>16. WritesOK' /\ UnloadedOK'
  BY <1>2, <1>3, <1>4, <1>6, <1>10 DEF WritesOK, UnloadedOK
<1>17. CopiesOK'
  <2> SUFFICES ASSUME NEW x \in ToSet(queue) \cup ToSet(flush.batch), x.event \in Urgent
               PROVE  CopyIsRight(t, outbox, fate'["unwritten"], x)
    BY <1>2, <1>3, <1>4 DEF CopiesOK
  <2>1. CopyIsRight(writes, outbox, fate["unwritten"], x)
    BY DEF CopiesOK, CoreOK
  <2> QED BY <1>5, <1>9, <1>11, <2>1 DEF CopyIsRight
<1>18. AccountedOK'
  BY <1>2, <1>10, <1>12 DEF AccountedOK, CoreOK
<1>19. FirstPageOK'
  <2> SUFFICES ASSUME spent.restarts = 0 PROVE FirstPageOK'
    BY <1>2 DEF FirstPageOK, page
  <2>1. /\ \A e \in (1..captured) \ (InMemory \cup fate["dropped"]) : IsQuiet(t, outbox, e)
        /\ \A e \in EventsOf(flush.batch) : IsQuiet(t, outbox, e)
        /\ flush.pc = "waiting" =>
             \A e \in EventsOf(queue) :
               IsYoung(t, outbox, e) \/ Within(t, e, flush'.barrier)
    BY <1>2, <1>4, HeadOfFirstPage
  <2>2. ASSUME NEW e \in fate["dropped"]
        PROVE  IsForgotten(t, outbox, fate'["unwritten"], e)
    <3>1. IsForgotten(writes, outbox, fate["unwritten"], e)
      BY DEF FirstPageOK, CoreOK
    <3> QED BY <1>5, <1>9, <1>11, <3>1 DEF IsForgotten
  <2>3. InMemory \cap fate["dropped"] = {}
    BY DEF FirstPageOK, CoreOK
  <2> QED BY <1>2, <1>3, <1>4, <1>10, <1>12, <2>1, <2>2, <2>3 DEF FirstPageOK
<1> QED BY <1>13, <1>14, <1>15, <1>16, <1>17, <1>18, <1>19, TypeParts DEF CoreOK

LEMMA ExpiredAreStored ==
  ASSUME TypeOK, NEW n \in ExpiredCounts
  PROVE  Expired(n) \subseteq EventsOf(outbox)
<1>1. outbox \in Seq(Entry) /\ n \in Nat /\ n <= Len(outbox)
  BY FlushAssumption DEF TypeOK, ExpiredCounts
<1>2. PICK m \in Nat : m = Len(outbox)
  BY <1>1
<1> DEFINE front == SubSeq(outbox, 1, n)
<1>3. Len(front) = n /\ front \in Seq(Entry) /\ \A i \in 1..n : front[i] = outbox[i]
  BY <1>1
<1> HIDE DEF front
<1>4. DOMAIN front = 1..n /\ DOMAIN outbox = 1..m /\ 1..n \subseteq 1..m
  BY <1>1, <1>2, <1>3
<1>5. ToSet(front) \subseteq ToSet(outbox)
  BY <1>3, <1>4 DEF ToSet
<1> QED BY <1>5 DEF Expired, EventsOf, front

\* What running the write at the head does, by the entries and events concerned.
RunsTo(w, expired, stored) ==
  /\ expired \subseteq EventsOf(outbox) /\ (w.save = <<>> => expired = {})
  /\ IsLine(stored) /\ Len(stored) <= OutboxLimit
  /\ \A x \in ToSet(stored) :
       /\ x.event \notin w.remove /\ x.event \notin expired
       /\ x \in ToSet(w.save) \/ (x \in ToSet(outbox) /\ x.event \notin EventsOf(w.save))
  /\ outbox' = stored
  /\ fate' \in [Fates -> SUBSET Events]
  /\ LET saved == EventsOf(w.save) \ expired
         evicted == ((EventsOf(outbox) \ expired) \cup saved) \ (EventsOf(stored) \cup w.remove)
     IN  /\ fate'["unwritten"] =
              (fate["unwritten"] \ ((saved \cap EventsOf(stored)) \cup w.remove))
                \cup evicted \cup expired
         /\ fate'["dropped"] = fate["dropped"] \cup (evicted \ InMemory)
         /\ fate'["left"] = fate["left"] \cup (expired \ InMemory)
  /\ fate'["delivered"] = fate["delivered"] /\ fate'["silent"] = fate["silent"]

LEMMA RunWriteRuns ==
  ASSUME TypeOK, CoreOK, RunWrite, NEW w, w = Head(writes)
  PROVE  \E expired, stored : RunsTo(w, expired, stored)
<1>1. AskingOK /\ DataOK
  BY TypeParts
<1>2. HeadSettles
  BY DEF RunWrite
<1>3. loaded /\ writes # <<>>
  BY <1>2, HeadStep
<1>4. w \in Write /\ IsProper(w, 1..captured, fate["dropped"])
  BY <1>1, <1>3, ChainShrinks DEF DataOK, CoreOK, WritesOK
<1>5. PICK n \in ExpiredCounts :
        LET expired == IF w.save = <<>> THEN {} ELSE Expired(n)
        IN  \E kept \in {Without(outbox, expired)}, saving \in {Without(w.save, expired)} :
            \E stored \in {Stored(kept, saving, w)} :
              LET evicted == (EventsOf(kept) \cup EventsOf(saving))
                               \ (EventsOf(stored) \cup w.remove)
              IN  /\ outbox' = stored
                  /\ fate' = [fate EXCEPT
                       !["unwritten"] =
                         (@ \ ((EventsOf(saving) \cap EventsOf(stored)) \cup w.remove))
                           \cup evicted \cup expired,
                       !["dropped"] = @ \cup (evicted \ InMemory),
                       !["left"] = @ \cup (expired \ InMemory)]
  BY ZenonT(60) DEF RunWrite
<1>6. PICK expired : expired = IF w.save = <<>> THEN {} ELSE Expired(n)
  OBVIOUS
<1>7. PICK kept, saving : kept = Without(outbox, expired) /\ saving = Without(w.save, expired)
  OBVIOUS
<1>8. PICK stored : stored = Stored(kept, saving, w)
  OBVIOUS
<1>9. PICK evicted : evicted = (EventsOf(kept) \cup EventsOf(saving))
                                 \ (EventsOf(stored) \cup w.remove)
  OBVIOUS
<1>10. PICK unwritten : unwritten =
          (fate["unwritten"] \ ((EventsOf(saving) \cap EventsOf(stored)) \cup w.remove))
            \cup evicted \cup expired
  OBVIOUS
<1>11. /\ outbox' = stored
       /\ fate' = [fate EXCEPT !["unwritten"] = unwritten,
                               !["dropped"] = @ \cup (evicted \ InMemory),
                               !["left"] = @ \cup (expired \ InMemory)]
  BY <1>5, <1>6, <1>7, <1>8, <1>9, <1>10
<1>12. expired \subseteq EventsOf(outbox) /\ (w.save = <<>> => expired = {})
  BY <1>6, ExpiredAreStored
<1>13. IsLine(outbox) /\ IsLine(w.save)
  BY <1>4 DEF CoreOK, LinesOK, IsProper
<1>14. /\ IsLine(kept) /\ Len(kept) <= Len(outbox)
       /\ ToSet(kept) = {x \in ToSet(outbox) : x.event \notin expired}
       /\ EventsOf(kept) = EventsOf(outbox) \ expired
  BY <1>7, <1>13, WithoutLine
<1>15. /\ IsLine(saving) /\ ToSet(saving) = {x \in ToSet(w.save) : x.event \notin expired}
       /\ EventsOf(saving) = EventsOf(w.save) \ expired
  BY <1>7, <1>13, WithoutLine
<1>16. Len(kept) <= OutboxLimit
  <2>1. Len(kept) \in Nat /\ Len(outbox) \in Nat /\ OutboxLimit \in Nat
    BY <1>13, <1>14, BoundsAssumption DEF IsLine
  <2> QED BY <1>1, <1>14, <2>1 DEF DataOK
<1>17. /\ IsLine(stored) /\ Len(stored) <= OutboxLimit
       /\ \A x \in ToSet(stored) :
            /\ x.event \notin w.remove
            /\ x \in ToSet(saving) \/ (x \in ToSet(kept) /\ x.event \notin EventsOf(saving))
  <2>1. IsLine(kept) /\ IsLine(saving)
    BY <1>14, <1>15
  <2> QED BY <1>8, <1>16, <2>1, StoredLine, ZenonT(60)
<1>18. \A x \in ToSet(stored) :
         /\ x.event \notin w.remove /\ x.event \notin expired
         /\ x \in ToSet(w.save) \/ (x \in ToSet(outbox) /\ x.event \notin EventsOf(w.save))
  BY <1>14, <1>15, <1>17
<1>19. evicted \subseteq Events /\ expired \subseteq Events /\ unwritten \subseteq Events
  <2>1. 1..captured \subseteq Events
    BY <1>1, EventsAssumption DEF DataOK, Events
  <2>2. EventsOf(outbox) \subseteq Events /\ EventsOf(w.save) \subseteq Events
    BY <1>4, <2>1 DEF CoreOK, KnownOK, IsProper
  <2>3. fate["unwritten"] \subseteq Events
    BY <1>1 DEF DataOK, Fates
  <2> QED BY <1>9, <1>10, <1>12, <1>14, <1>15, <2>2, <2>3
<1>20. PICK lost \in SUBSET Events, gone \in SUBSET Events :
         lost = fate["dropped"] \cup (evicted \ InMemory) /\ gone = fate["left"] \cup (expired \ InMemory)
  <2>1. fate["dropped"] \subseteq Events /\ fate["left"] \subseteq Events
    BY <1>1 DEF DataOK, Fates
  <2> QED BY <1>19, <2>1
<1>21. fate' = [fate EXCEPT !["unwritten"] = unwritten, !["dropped"] = lost, !["left"] = gone]
  BY <1>11, <1>20
<1>22. /\ fate' \in [Fates -> SUBSET Events]
       /\ fate'["unwritten"] = unwritten /\ fate'["dropped"] = lost /\ fate'["left"] = gone
       /\ fate'["delivered"] = fate["delivered"] /\ fate'["silent"] = fate["silent"]
  BY <1>1, <1>19, <1>21 DEF DataOK, Fates
<1>23. evicted = ((EventsOf(outbox) \ expired) \cup (EventsOf(w.save) \ expired))
                   \ (EventsOf(stored) \cup w.remove)
  BY <1>9, <1>14, <1>15
<1>24. RunsTo(w, expired, stored)
  BY <1>10, <1>11, <1>12, <1>15, <1>17, <1>18, <1>20, <1>22, <1>23 DEF RunsTo
<1> QED BY <1>24

LEMMA RunWriteKeeps ==
  ASSUME TypeOK, CoreOK, RunWrite
  PROVE  TypeOK' /\ CoreOK'
<1>1. AskingOK /\ DataOK
  BY TypeParts
<1>2. HeadSettles /\ UNCHANGED <<captured, queue, loaded, follow, retry, page>>
  BY DEF RunWrite
<1>3. /\ loaded /\ writes # <<>>
      /\ flush' \in Flush /\ flush'.pc = flush.pc /\ flush'.batch = flush.batch
  BY <1>2, HeadStep
<1>4. PICK w, t : w = Head(writes) /\ t = Tail(writes) /\ writes' = t
  BY <1>2, HeadStep
<1>5. /\ w \in Write /\ t \in Seq(Write)
      /\ \A e : Touches(writes, e) <=> Mentions(w, e) \/ Touches(t, e)
      /\ \A x : LastSaves(writes, x) => IF Touches(t, x.event) THEN LastSaves(t, x)
                                        ELSE x \in ToSet(w.save)
      /\ \A e : LastRemoves(writes, e) => IF Touches(t, e) THEN LastRemoves(t, e)
                                          ELSE e \in w.remove
  BY <1>1, <1>3, <1>4, ChainShrinks DEF DataOK
<1>6. IsProper(w, 1..captured, fate["dropped"]) /\ AreProper(t, 1..captured, fate["dropped"])
  BY <1>1, <1>3, <1>4, ChainShrinks DEF DataOK, CoreOK, WritesOK
<1>7. PICK expired, stored : RunsTo(w, expired, stored)
  BY <1>4, RunWriteRuns
<1>8. PICK saved, evicted :
        /\ saved = EventsOf(w.save) \ expired
        /\ evicted = ((EventsOf(outbox) \ expired) \cup saved) \ (EventsOf(stored) \cup w.remove)
  OBVIOUS
<1>9. /\ fate'["unwritten"] = (fate["unwritten"] \ ((saved \cap EventsOf(stored)) \cup w.remove))
                                \cup evicted \cup expired
      /\ fate'["dropped"] = fate["dropped"] \cup (evicted \ InMemory)
      /\ fate'["left"] = fate["left"] \cup (expired \ InMemory)
      /\ fate'["delivered"] = fate["delivered"] /\ fate'["silent"] = fate["silent"]
      /\ fate' \in [Fates -> SUBSET Events]
  BY <1>7, <1>8 DEF RunsTo
<1>10. /\ IsLine(stored) /\ Len(stored) <= OutboxLimit /\ outbox' = stored
       /\ expired \subseteq EventsOf(outbox)
  BY <1>7 DEF RunsTo
<1>11. \A x \in ToSet(stored) :
         /\ x.event \notin w.remove /\ x.event \notin expired
         /\ x \in ToSet(w.save) \/ (x \in ToSet(outbox) /\ x.event \notin EventsOf(w.save))
  BY <1>7 DEF RunsTo
<1>12. InMemory' = InMemory
  BY <1>2, <1>3 DEF InMemory
<1>13. /\ EventsOf(w.save) \cup w.remove \subseteq Urgent \cap (1..captured)
       /\ IsLine(w.save) /\ (w.save = <<>> \/ w.remove = {}) /\ w.remove \subseteq fate["dropped"]
  BY <1>6 DEF IsProper
<1>14. EventsOf(stored) \subseteq EventsOf(w.save) \cup EventsOf(outbox)
  BY <1>11 DEF EventsOf
<1>15. EventsOf(outbox) \subseteq Urgent \cap (1..captured)
  BY <1>1 DEF DataOK, CoreOK, KnownOK
<1>16. \A x \in ToSet(w.save) : x.event \notin w.remove
  <2>1. w.save = <<>> => ToSet(w.save) = {}
    BY DEF ToSet
  <2> QED BY <1>13, <2>1
<1>17. AskingOK'
  BY <1>1, <1>2, <1>3 DEF AskingOK, page
<1>18. DataOK'
  <2>1. stored \in Seq(Entry)
    BY <1>10, LineType
  <2>2. EventsOf(stored) \subseteq Urgent
    BY <1>13, <1>14, <1>15
  <2> QED BY <1>1, <1>2, <1>4, <1>5, <1>9, <1>10, <2>1, <2>2 DEF DataOK
<1>19. LinesOK'
  BY <1>2, <1>3, <1>10 DEF LinesOK, CoreOK
<1>20. KnownOK'
  <2>1. evicted \subseteq 1..captured /\ expired \subseteq 1..captured
    BY <1>8, <1>10, <1>13, <1>15
  <2>2. \A f \in Fates : fate[f] \subseteq 1..captured
    BY DEF CoreOK, KnownOK
  <2>3. \A f \in Fates : fate'[f] \subseteq 1..captured
    <3>1. /\ fate["unwritten"] \subseteq 1..captured /\ fate["dropped"] \subseteq 1..captured
          /\ fate["left"] \subseteq 1..captured /\ fate["delivered"] \subseteq 1..captured
          /\ fate["silent"] \subseteq 1..captured
      BY <2>2 DEF Fates
    <3>2. /\ fate'["unwritten"] \subseteq 1..captured /\ fate'["dropped"] \subseteq 1..captured
          /\ fate'["left"] \subseteq 1..captured /\ fate'["delivered"] \subseteq 1..captured
          /\ fate'["silent"] \subseteq 1..captured
      BY <1>9, <2>1, <3>1
    <3> QED BY <3>2 DEF Fates
  <2>4. EventsOf(stored) \subseteq 1..captured
    BY <1>13, <1>14, <1>15
  <2> QED BY <1>2, <1>3, <1>9, <1>10, <1>12, <2>3, <2>4 DEF KnownOK, CoreOK
<1>21. WritesOK'
  <2>1. AreProper(t, 1..captured, fate'["dropped"])
    BY <1>6, <1>9 DEF AreProper, IsProper
  <2> QED BY <1>2, <1>4, <2>1 DEF WritesOK
<1>22. UnloadedOK'
  BY <1>2, <1>3 DEF UnloadedOK
<1>23. CopiesOK'
  <2> SUFFICES ASSUME NEW x \in ToSet(queue) \cup ToSet(flush.batch), x.event \in Urgent
               PROVE  CopyIsRight(t, stored, fate'["unwritten"], x)
    BY <1>2, <1>3, <1>4, <1>10 DEF CopiesOK
  <2>1. CopyIsRight(writes, outbox, fate["unwritten"], x)
    BY DEF CopiesOK, CoreOK
  <2>2. CASE Touches(t, x.event)
    BY <1>5, <2>1, <2>2 DEF CopyIsRight
  <2>3. CASE ~Touches(t, x.event) /\ Mentions(w, x.event)
    <3>1. x \in ToSet(w.save)
      BY <1>5, <2>1, <2>3 DEF CopyIsRight
    <3>2. x.event \in EventsOf(w.save) /\ x.event \notin w.remove
      BY <1>16, <3>1 DEF EventsOf
    <3>3. CASE x.event \in EventsOf(stored)
      <4>1. PICK y \in ToSet(stored) : y.event = x.event
        BY <3>3 DEF EventsOf
      <4>2. y \in ToSet(w.save)
        BY <1>11, <3>2, <4>1
      <4>3. y = x
        BY <1>13, <3>1, <4>1, <4>2 DEF IsLine, EachOnce, ToSet
      <4> QED BY <2>3, <4>1, <4>3 DEF CopyIsRight
    <3>4. CASE x.event \notin EventsOf(stored)
      <4>1. x.event \in evicted \/ x.event \in expired
        BY <1>8, <3>2, <3>4
      <4> QED BY <1>9, <2>3, <4>1 DEF CopyIsRight
    <3> QED BY <3>3, <3>4
  <2>4. CASE ~Touches(t, x.event) /\ ~Mentions(w, x.event)
    <3>1. x.event \in fate["unwritten"] \/ x \in ToSet(outbox)
      BY <1>5, <2>1, <2>4 DEF CopyIsRight
    <3>2. x.event \notin EventsOf(w.save) /\ x.event \notin w.remove
      BY <2>4 DEF Mentions
    <3>3. CASE x.event \in fate["unwritten"]
      BY <1>8, <1>9, <2>4, <3>2, <3>3 DEF CopyIsRight
    <3>4. CASE x \in ToSet(outbox) /\ x.event \in EventsOf(stored)
      <4>1. PICK y \in ToSet(stored) : y.event = x.event
        BY <3>4 DEF EventsOf
      <4>2. y \in ToSet(outbox)
        BY <1>11, <3>2, <4>1 DEF EventsOf
      <4>3. y = x
        BY <3>4, <4>1, <4>2, MemoryIsLines DEF CoreOK
      <4> QED BY <2>4, <4>1, <4>3 DEF CopyIsRight
    <3>5. CASE x \in ToSet(outbox) /\ x.event \notin EventsOf(stored)
      <4>1. x.event \in EventsOf(outbox)
        BY <3>5 DEF EventsOf
      <4>2. x.event \in evicted \/ x.event \in expired
        BY <1>8, <3>2, <3>5, <4>1
      <4> QED BY <1>9, <2>4, <4>2 DEF CopyIsRight
    <3> QED BY <3>1, <3>3, <3>4, <3>5
  <2> QED BY <2>2, <2>3, <2>4
<1>24. AccountedOK'
  <2>1. EventsOf(outbox) \subseteq EventsOf(stored) \cup evicted \cup expired \cup w.remove
    BY <1>8
  <2> QED BY <1>2, <1>9, <1>10, <1>12, <1>13, <2>1 DEF AccountedOK, CoreOK
<1>25. FirstPageOK'
  <2> SUFFICES ASSUME spent.restarts = 0 PROVE FirstPageOK'
    BY <1>2 DEF FirstPageOK, page
  <2>1. /\ \A e : IsQuiet(writes, outbox, e) => IsQuiet(t, stored, e)
        /\ \A e \in (1..captured) \ (InMemory \cup fate["dropped"]) : IsQuiet(t, stored, e)
        /\ \A e \in EventsOf(flush.batch) : IsQuiet(t, stored, e)
        /\ flush.pc = "waiting" =>
             \A e \in EventsOf(queue) :
               IsYoung(t, stored, e) \/ Within(t, e, flush'.barrier)
    BY <1>2, <1>4, <1>11, HeadOfFirstPage
  <2>2. InMemory \cap fate'["dropped"] = {}
    BY <1>9 DEF FirstPageOK, CoreOK
  <2>3. ASSUME NEW e \in fate["dropped"]
        PROVE  IsForgotten(t, stored, fate'["unwritten"], e)
    <3>1. IsForgotten(writes, outbox, fate["unwritten"], e)
      BY DEF FirstPageOK, CoreOK
    <3>2. CASE Touches(t, e)
      BY <1>5, <3>1, <3>2 DEF IsForgotten
    <3>3. CASE ~Touches(t, e) /\ Mentions(w, e)
      <4>1. e \in w.remove
        BY <1>5, <3>1, <3>3 DEF IsForgotten
      <4>2. e \notin EventsOf(stored)
        BY <1>11, <4>1 DEF EventsOf
      <4> QED BY <3>3, <4>2 DEF IsForgotten
    <3>4. CASE ~Touches(t, e) /\ ~Mentions(w, e)
      <4>1. e \notin EventsOf(outbox) \/ e \in fate["unwritten"]
        BY <1>5, <3>1, <3>4 DEF IsForgotten
      <4>2. e \notin EventsOf(w.save) /\ e \notin w.remove
        BY <3>4 DEF Mentions
      <4>3. e \in fate["unwritten"] => e \in fate'["unwritten"]
        BY <1>8, <1>9, <4>2
      <4> QED BY <1>14, <3>4, <4>1, <4>2, <4>3 DEF IsForgotten
    <3> QED BY <3>2, <3>3, <3>4
  <2>4. ASSUME NEW e \in evicted \ InMemory, e \notin fate["dropped"]
        PROVE  IsForgotten(t, stored, fate'["unwritten"], e)
    <3>1. e \in 1..captured
      BY <1>8, <1>13, <1>15
    <3>2. IsQuiet(writes, outbox, e)
      BY <2>4, <3>1 DEF FirstPageOK, CoreOK
    <3>3. e \in EventsOf(w.save) \/ e \in EventsOf(outbox)
      BY <1>8
    <3>4. Touches(writes, e) => Mentions(w, e) /\ ~Touches(t, e)
      <4> SUFFICES ASSUME Touches(writes, e) PROVE Mentions(w, e) /\ ~Touches(t, e)
        OBVIOUS
      <4>1. TouchesOnce(writes, e) /\ e \notin EventsOf(outbox)
        BY <3>2 DEF IsQuiet, IsYoung
      <4>2. Mentions(w, e)
        BY <3>3, <4>1 DEF Mentions
      <4>3. ~Touches(t, e)
        BY <1>1, <1>3, <1>4, <4>1, <4>2, ChainShrinks DEF DataOK
      <4> QED BY <4>2, <4>3
    <3>5. ~Touches(t, e)
      BY <1>5, <3>4
    <3> QED BY <1>9, <3>5 DEF IsForgotten
  <2>5. \A e \in fate'["dropped"] : IsForgotten(t, stored, fate'["unwritten"], e)
    BY <1>9, <2>3, <2>4
  <2>6. \A e \in (1..captured) \ (InMemory \cup fate'["dropped"]) : IsQuiet(t, stored, e)
    BY <1>9, <2>1
  <2> QED BY <1>2, <1>3, <1>4, <1>10, <1>12, <2>1, <2>2, <2>5, <2>6 DEF FirstPageOK
<1> QED BY <1>17, <1>18, <1>19, <1>20, <1>21, <1>22, <1>23, <1>24, <1>25, TypeParts DEF CoreOK

-----------------------------------------------------------------------------
(* Chaining writes.                                                        *)

\* What is known of an event stays when writes about others are chained.
LEMMA ChainSpares ==
  ASSUME NEW a \in Seq(Write), NEW b \in Seq(Write), NEW c, c = a \o b, NEW e, ~Touches(b, e),
         NEW s
  PROVE  /\ Touches(c, e) <=> Touches(a, e)
         /\ \A x, u : x.event = e /\ CopyIsRight(a, s, u, x) => CopyIsRight(c, s, u, x)
         /\ \A u : IsForgotten(a, s, u, e) => IsForgotten(c, s, u, e)
         /\ IsYoung(a, s, e) => IsYoung(c, s, e)
         /\ IsQuiet(a, s, e) => IsQuiet(c, s, e)
         /\ \A n : Within(a, e, n) => Within(c, e, n)
<1>1. /\ Touches(c, e) <=> Touches(a, e)
      /\ \A x : x.event = e /\ LastSaves(a, x) => LastSaves(c, x)
      /\ LastRemoves(a, e) => LastRemoves(c, e)
      /\ TouchesOnce(a, e) => TouchesOnce(c, e)
      /\ \A n : Within(a, e, n) => Within(c, e, n)
  <2>1. Touches(c, e) <=> Touches(a, e)
    BY ChainGrows
  <2>2. ASSUME NEW x, x.event = e, LastSaves(a, x) PROVE LastSaves(c, x)
    <3>1. ~Touches(b, x.event)
      BY <2>2
    <3> QED BY <2>2, <3>1, ChainGrows
  <2>3. LastRemoves(a, e) => LastRemoves(c, e)
    BY ChainGrows
  <2>4. TouchesOnce(a, e) => TouchesOnce(c, e)
    BY ChainGrows
  <2>5. \A n : Within(a, e, n) => Within(c, e, n)
    BY ChainGrows
  <2> QED BY <2>1, <2>2, <2>3, <2>4, <2>5
<1>2. \A x, u : x.event = e /\ CopyIsRight(a, s, u, x) => CopyIsRight(c, s, u, x)
  BY <1>1 DEF CopyIsRight
<1>3. \A u : IsForgotten(a, s, u, e) => IsForgotten(c, s, u, e)
  BY <1>1 DEF IsForgotten
<1> QED BY <1>1, <1>2, <1>3 DEF IsYoung, IsQuiet

\* Nothing pends for an event that is routine or not captured yet.
LEMMA OthersAreUntouched ==
  ASSUME CoreOK, NEW e, e \notin Urgent \/ e \notin 1..captured
  PROVE  ~Touches(writes, e)
BY DEF CoreOK, WritesOK, AreProper, IsProper, Touches, Mentions

LEMMA CaptureKeeps ==
  ASSUME TypeOK, CoreOK, Capture
  PROVE  TypeOK' /\ CoreOK'
<1>1. AskingOK /\ DataOK
  BY TypeParts
<1>2. PICK new \in Nat : new = captured + 1
  BY <1>1 DEF DataOK
<1>3. PICK entry : entry = [event |-> new, attempts |-> 0]
  OBVIOUS
<1>4. PICK added : added = Enqueue(queue, entry)
  OBVIOUS
<1>5. PICK evicted : evicted = {x.event : x \in added.dropped}
  OBVIOUS
<1>6. PICK saving : saving = IF added.fits /\ new \in Urgent THEN <<entry>> ELSE <<>>
  OBVIOUS
<1>7. PICK lost : lost = evicted \cup {e \in {new} : ~added.fits}
  OBVIOUS
<1>8. PICK removal, save : removal = Removal(evicted \cap Urgent) /\ save = Save(saving)
  OBVIOUS
<1>9. /\ captured < MaxEvent /\ captured' = new /\ queue' = added.queue
      /\ fate' = Became("dropped", lost)
      /\ writes' = (writes \o removal) \o save
      /\ timers' \subseteq timers \cup {"urgent", "batch"}
      /\ UNCHANGED <<outbox, loaded, flushing, online, destroyed, spent>>
  <2>1. entry.event = new
    BY <1>3
  <2>2. Save(<<>>) = <<>>
    BY DEF Save
  <2>3. save = IF added.fits /\ entry.event \in Urgent THEN Save(<<entry>>) ELSE <<>>
    BY <1>6, <1>8, <2>1, <2>2
  <2> QED BY <1>2, <1>3, <1>4, <1>5, <1>7, <1>8, <2>1, <2>3 DEF Capture
<1>10. new \in Events /\ new \notin 1..captured /\ 1..new = (1..captured) \cup {new}
  <2>1. captured \in Nat /\ MaxEvent \in Nat
    BY <1>1, EventsAssumption DEF DataOK
  <2> QED BY <1>2, <1>9, <2>1 DEF Events
<1>11. 1..captured \subseteq Events
  BY <1>1, EventsAssumption DEF DataOK, Events
<1>12. entry \in Retryable /\ entry.event = new
  BY <1>3, <1>10, BoundsAssumption DEF Retryable
<1>13. /\ InMemory \subseteq 1..captured /\ EventsOf(outbox) \subseteq 1..captured
       /\ \A f \in Fates : fate[f] \subseteq 1..captured
  BY DEF CoreOK, KnownOK
<1>14. new \notin EventsOf(queue) /\ new \notin EventsOf(flush.batch) /\ new \notin EventsOf(outbox)
       /\ new \notin InMemory
  BY <1>10, <1>13 DEF InMemory
<1>15. /\ IsLine(added.queue) /\ InBounds(added.queue)
       /\ added.fits \in BOOLEAN /\ added.dropped \subseteq ToSet(queue)
       /\ ToSet(added.queue) = (ToSet(queue) \ added.dropped) \cup {x \in {entry} : added.fits}
       /\ new \in Urgent => added.fits
  BY <1>4, <1>12, <1>14, Enqueued DEF CoreOK, LinesOK
<1>16. evicted \subseteq EventsOf(queue)
  BY <1>5, <1>15 DEF EventsOf
<1>17. EventsOf(added.queue) = (EventsOf(queue) \ evicted) \cup {e \in {new} : added.fits}
  <2>1. \A x, y \in ToSet(queue) : x.event = y.event => x = y
    BY MemoryIsLines DEF CoreOK
  <2> QED BY <1>5, <1>12, <1>15, <2>1 DEF EventsOf
<1>18. flush' = flush /\ follow' = follow /\ retry' = retry
  BY <1>9 DEF flushing
<1>19. InMemory' = (InMemory \ evicted) \cup {e \in {new} : added.fits}
  <2>1. EventsOf(queue) \cap EventsOf(flush.batch) = {}
    BY DEF CoreOK, LinesOK
  <2> QED BY <1>9, <1>16, <1>17, <1>18, <2>1 DEF InMemory
<1>20. evicted \subseteq InMemory /\ evicted \subseteq 1..captured
  BY <1>13, <1>16 DEF InMemory
<1>21. /\ fate' \in [Fates -> SUBSET Events] /\ fate'["dropped"] = fate["dropped"] \cup lost
       /\ \A g \in Fates \ {"dropped"} : fate'[g] = fate[g]
  <2>1. lost \subseteq Events
    BY <1>7, <1>10, <1>11, <1>20
  <2> QED BY <1>1, <1>9, <2>1, BecameParts DEF DataOK, Fates
<1>22. /\ fate'["delivered"] = fate["delivered"] /\ fate'["silent"] = fate["silent"]
       /\ fate'["unwritten"] = fate["unwritten"] /\ fate'["left"] = fate["left"]
  BY <1>21 DEF Fates
<1>23. evicted \cap Urgent \in SUBSET Events
  BY <1>11, <1>20
<1>24. /\ removal \in Seq(Write)
       /\ \A e : Touches(removal, e) <=> e \in evicted \cap Urgent
       /\ \A e \in evicted \cap Urgent : LastRemoves(removal, e)
       /\ AreProper(removal, 1..new, fate'["dropped"])
  BY <1>7, <1>8, <1>10, <1>20, <1>21, <1>23, RemovalChain
<1>25. /\ save \in Seq(Write)
       /\ \A e : Touches(save, e) <=> e = new /\ new \in Urgent
       /\ new \in Urgent => LastSaves(save, entry) /\ TouchesOnce(save, new)
       /\ AreProper(save, 1..new, fate'["dropped"])
  <2>1. /\ IsLine(saving) /\ (new \in Urgent => entry \in ToSet(saving))
        /\ EventsOf(saving) = {e \in {new} : new \in Urgent}
    <3>1. CASE new \in Urgent
      <4>1. saving = <<entry>> /\ DOMAIN <<entry>> = {1} /\ <<entry>>[1] = entry
        BY <1>6, <1>15, <3>1
      <4>2. saving \in Seq(Retryable)
        BY <1>12, <4>1
      <4>3. ToSet(saving) = {entry}
        BY <4>1 DEF ToSet
      <4> QED BY <1>12, <3>1, <4>1, <4>2, <4>3 DEF IsLine, EachOnce, EventsOf
    <3>2. CASE new \notin Urgent
      <4>1. saving = <<>> /\ ToSet(<<>>) = {} /\ IsLine(<<>>)
        BY <1>6, <3>2 DEF ToSet, IsLine, EachOnce
      <4> QED BY <3>2, <4>1 DEF EventsOf
    <3> QED BY <3>1, <3>2
  <2>2. EventsOf(saving) \subseteq Urgent \cap (1..new)
    BY <1>10, <2>1
  <2>3. /\ save \in Seq(Write)
        /\ \A e : Touches(save, e) <=> e \in EventsOf(saving)
        /\ \A x \in ToSet(saving) : LastSaves(save, x)
        /\ \A e \in EventsOf(saving) : TouchesOnce(save, e)
        /\ AreProper(save, 1..new, fate'["dropped"])
    BY <1>8, <2>1, <2>2, SaveChain
  <2> QED BY <2>1, <2>3
<1>26. PICK middle : middle = writes \o removal
  OBVIOUS
<1>27. writes \in Seq(Write) /\ middle \in Seq(Write) /\ writes' = middle \o save
  BY <1>1, <1>9, <1>24, <1>26, ChainGrows DEF DataOK
<1>28. writes' \in Seq(Write)
  BY <1>25, <1>27, ChainGrows
<1>29. ~Touches(writes, new)
  BY <1>10, OthersAreUntouched
<1>30. ASSUME NEW e, e # new, e \notin evicted \/ e \notin Urgent
       PROVE  /\ Touches(writes', e) <=> Touches(writes, e)
              /\ \A x, u : x.event = e /\ CopyIsRight(writes, outbox, u, x)
                             => CopyIsRight(writes', outbox, u, x)
              /\ \A u : IsForgotten(writes, outbox, u, e) => IsForgotten(writes', outbox, u, e)
              /\ IsYoung(writes, outbox, e) => IsYoung(writes', outbox, e)
              /\ IsQuiet(writes, outbox, e) => IsQuiet(writes', outbox, e)
              /\ \A n : Within(writes, e, n) => Within(writes', e, n)
  <2>1. ~Touches(removal, e) /\ ~Touches(save, e)
    BY <1>24, <1>25, <1>30
  <2>2. /\ Touches(middle, e) <=> Touches(writes, e)
        /\ \A x, u : x.event = e /\ CopyIsRight(writes, outbox, u, x)
                       => CopyIsRight(middle, outbox, u, x)
        /\ \A u : IsForgotten(writes, outbox, u, e) => IsForgotten(middle, outbox, u, e)
        /\ IsYoung(writes, outbox, e) => IsYoung(middle, outbox, e)
        /\ IsQuiet(writes, outbox, e) => IsQuiet(middle, outbox, e)
        /\ \A n : Within(writes, e, n) => Within(middle, e, n)
    BY <1>24, <1>26, <1>27, <2>1, ChainSpares
  <2>3. /\ Touches(writes', e) <=> Touches(middle, e)
        /\ \A x, u : x.event = e /\ CopyIsRight(middle, outbox, u, x)
                       => CopyIsRight(writes', outbox, u, x)
        /\ \A u : IsForgotten(middle, outbox, u, e) => IsForgotten(writes', outbox, u, e)
        /\ IsYoung(middle, outbox, e) => IsYoung(writes', outbox, e)
        /\ IsQuiet(middle, outbox, e) => IsQuiet(writes', outbox, e)
        /\ \A n : Within(middle, e, n) => Within(writes', e, n)
    BY <1>25, <1>27, <2>1, ChainSpares
  <2> QED BY <2>2, <2>3
<1>31. new \in Urgent => LastSaves(writes', entry) /\ TouchesOnce(writes', new)
                         /\ Touches(writes', new)
  <2> SUFFICES ASSUME new \in Urgent
               PROVE  /\ LastSaves(writes', entry) /\ TouchesOnce(writes', new)
                      /\ Touches(writes', new)
    OBVIOUS
  <2>1. new \notin evicted
    BY <1>10, <1>20
  <2>2. ~Touches(middle, new)
    BY <1>24, <1>26, <1>27, <1>29, <2>1, ChainGrows
  <2> QED BY <1>25, <1>27, <2>2, ChainGrows
<1>32. \A e \in evicted \cap Urgent : LastRemoves(writes', e)
  <2> SUFFICES ASSUME NEW e \in evicted \cap Urgent PROVE LastRemoves(writes', e)
    OBVIOUS
  <2>1. LastRemoves(middle, e)
    BY <1>24, <1>26, <1>27, ChainGrows
  <2>2. ~Touches(save, e)
    BY <1>10, <1>20, <1>25
  <2> QED BY <1>25, <1>27, <2>1, <2>2, ChainGrows
<1>33. new \notin Urgent => ~Touches(writes', new)
  BY <1>24, <1>25, <1>26, <1>27, <1>29, ChainGrows
<1>34. AskingOK'
  BY <1>1, <1>9, <1>18 DEF AskingOK
<1>35. DataOK'
  <2>1. added.queue \in Seq(Entry)
    BY <1>15, LineType
  <2>2. new \in 0..MaxEvent
    BY <1>2, <1>10, EventsAssumption DEF Events
  <2> QED BY <1>1, <1>9, <1>15, <1>21, <1>28, <2>1, <2>2 DEF DataOK, InBounds
<1>36. LinesOK'
  <2>1. EventsOf(added.queue) \cap EventsOf(flush.batch) = {}
    BY <1>14, <1>17 DEF CoreOK, LinesOK
  <2> QED BY <1>9, <1>15, <1>18, <2>1 DEF LinesOK, CoreOK
<1>37. KnownOK'
  <2>1. lost \subseteq 1..new
    BY <1>7, <1>10, <1>20
  <2>2. \A f \in Fates : fate'[f] \subseteq 1..new
    BY <1>10, <1>13, <1>21, <2>1
  <2>3. InMemory' \cup EventsOf(outbox) \subseteq 1..new
    BY <1>10, <1>13, <1>19
  <2>4. flush.pc = "removing" => EventsOf(flush.batch) \subseteq fate["delivered"]
    BY DEF CoreOK, KnownOK
  <2> QED BY <1>9, <1>18, <1>22, <2>2, <2>3, <2>4 DEF KnownOK
<1>38. WritesOK'
  <2>1. AreProper(writes, 1..new, fate'["dropped"])
    BY <1>10, <1>21 DEF CoreOK, WritesOK, AreProper, IsProper
  <2>2. AreProper(middle, 1..new, fate'["dropped"])
    BY <1>24, <1>26, <1>27, <2>1, ChainGrows
  <2>3. AreProper(writes', 1..new, fate'["dropped"])
    BY <1>25, <1>27, <2>2, ChainGrows
  <2> QED BY <1>9, <2>3 DEF WritesOK
<1>39. UnloadedOK'
  <2> SUFFICES ASSUME ~loaded, NEW e \in EventsOf(outbox)
               PROVE  e \notin InMemory' /\ ~Touches(writes', e)
    BY <1>9, <1>18 DEF UnloadedOK, CoreOK
  <2>1. e \notin InMemory /\ ~Touches(writes, e) /\ e # new
    BY <1>14 DEF UnloadedOK, CoreOK
  <2> QED BY <1>19, <1>20, <1>30, <2>1
<1>40. CopiesOK'
  <2> SUFFICES ASSUME NEW x \in ToSet(added.queue) \cup ToSet(flush.batch), x.event \in Urgent
               PROVE  CopyIsRight(writes', outbox, fate["unwritten"], x)
    BY <1>9, <1>18, <1>22 DEF CopiesOK
  <2>1. CASE x = entry
    BY <1>12, <1>31, <2>1 DEF CopyIsRight
  <2>2. CASE x # entry
    <3>1. x \in ToSet(queue) \cup ToSet(flush.batch)
      BY <1>15, <2>2
    <3>2. x.event # new
      BY <1>14, <3>1 DEF EventsOf
    <3>3. x.event \notin evicted
      <4>1. CASE x \in ToSet(flush.batch)
        BY <1>16, <4>1 DEF CoreOK, LinesOK, EventsOf
      <4>2. CASE x \in ToSet(added.queue)
        BY <1>17, <3>2, <4>2 DEF EventsOf
      <4> QED BY <4>1, <4>2
    <3>4. CopyIsRight(writes, outbox, fate["unwritten"], x)
      BY <3>1 DEF CopiesOK, CoreOK
    <3> QED BY <1>30, <3>2, <3>3, <3>4
  <2> QED BY <2>1, <2>2
<1>41. AccountedOK'
  <2>1. new \in InMemory' \cup fate'["dropped"]
    BY <1>7, <1>19, <1>21, <1>15
  <2>2. InMemory \subseteq InMemory' \cup fate'["dropped"]
    BY <1>7, <1>19, <1>21
  <2> QED BY <1>9, <1>10, <1>21, <1>22, <2>1, <2>2 DEF AccountedOK, CoreOK
<1>42. FirstPageOK'
  <2> SUFFICES ASSUME spent.restarts = 0 PROVE FirstPageOK'
    BY <1>9 DEF FirstPageOK
  <2>1. InMemory \cap fate["dropped"] = {}
    BY DEF FirstPageOK, CoreOK
  <2>2. InMemory' \cap fate'["dropped"] = {}
    BY <1>7, <1>10, <1>13, <1>19, <1>20, <1>21, <2>1 DEF Fates
  <2>3. ASSUME NEW e \in fate'["dropped"]
        PROVE  IsForgotten(writes', outbox, fate["unwritten"], e)
    <3>1. CASE e \in fate["dropped"]
      <4>1. e # new /\ e \notin evicted
        BY <1>10, <1>13, <1>20, <2>1, <3>1 DEF Fates
      <4>2. IsForgotten(writes, outbox, fate["unwritten"], e)
        BY <3>1 DEF FirstPageOK, CoreOK
      <4> QED BY <1>30, <4>1, <4>2
    <3>2. CASE e \in evicted /\ e \in Urgent
      <4>1. Touches(writes', e)
        BY <1>24, <1>26, <1>27, <1>25, <3>2, ChainGrows, ZenonT(40)
      <4> QED BY <1>32, <3>2, <4>1 DEF IsForgotten
    <3>3. CASE e \in evicted /\ e \notin Urgent
      <4>1. e # new
        BY <1>10, <1>20, <3>3
      <4>2. ~Touches(writes', e)
        BY <1>30, <3>3, <4>1, OthersAreUntouched
      <4>3. e \notin EventsOf(outbox)
        BY <1>1, <3>3 DEF DataOK
      <4> QED BY <4>2, <4>3 DEF IsForgotten
    <3>4. CASE e = new /\ ~added.fits
      BY <1>14, <1>15, <1>33, <3>4 DEF IsForgotten
    <3> QED BY <1>7, <1>21, <3>1, <3>2, <3>3, <3>4
  <2>4. IsQuiet(writes', outbox, new)
    BY <1>14, <1>31, <1>33 DEF IsQuiet, IsYoung
  <2>5. ASSUME NEW e \in (1..new) \ (InMemory' \cup fate'["dropped"])
        PROVE  IsQuiet(writes', outbox, e)
    <3>1. CASE e = new
      BY <2>4, <3>1
    <3>2. CASE e # new
      <4>1. e \in (1..captured) \ (InMemory \cup fate["dropped"]) /\ e \notin evicted
        BY <1>7, <1>10, <1>19, <1>21, <3>2
      <4>2. IsQuiet(writes, outbox, e)
        BY <4>1 DEF FirstPageOK, CoreOK
      <4> QED BY <1>30, <3>2, <4>1, <4>2
    <3> QED BY <3>1, <3>2
  <2>6. ASSUME NEW e \in EventsOf(flush.batch) PROVE IsQuiet(writes', outbox, e)
    <3>1. e # new /\ e \notin evicted
      BY <1>14, <1>16 DEF CoreOK, LinesOK
    <3>2. IsQuiet(writes, outbox, e)
      BY DEF FirstPageOK, CoreOK
    <3> QED BY <1>30, <3>1, <3>2
  <2>7. ASSUME loaded, flush.pc = "waiting", NEW e \in EventsOf(added.queue)
        PROVE  IsYoung(writes', outbox, e) \/ Within(writes', e, flush.barrier)
    <3>1. CASE e = new /\ e \in Urgent
      BY <1>14, <1>31, <3>1 DEF IsYoung
    <3>2. CASE e = new /\ e \notin Urgent
      BY <1>33, <3>2 DEF Touches, Within
    <3>3. CASE e # new
      <4>1. e \in EventsOf(queue) /\ e \notin evicted
        BY <1>17, <3>3
      <4>2. IsYoung(writes, outbox, e) \/ Within(writes, e, flush.barrier)
        BY <2>7, <4>1 DEF FirstPageOK, CoreOK
      <4> QED BY <1>30, <3>3, <4>1, <4>2
    <3> QED BY <3>1, <3>2, <3>3
  <2>8. ASSUME ~loaded PROVE outbox = <<>> /\ \A e \in InMemory' : IsQuiet(writes', outbox, e)
    <3>1. outbox = <<>> /\ \A e \in InMemory : IsQuiet(writes, outbox, e)
      BY <2>8 DEF FirstPageOK, CoreOK
    <3>2. ASSUME NEW e \in InMemory' PROVE IsQuiet(writes', outbox, e)
      <4>1. e = new \/ (e \in InMemory /\ e \notin evicted)
        BY <1>19
      <4> QED BY <1>30, <2>4, <3>1, <4>1
    <3> QED BY <3>1, <3>2
  <2> QED BY <1>9, <1>18, <1>22, <2>2, <2>3, <2>5, <2>6, <2>7, <2>8 DEF FirstPageOK
<1> QED BY <1>34, <1>35, <1>36, <1>37, <1>38, <1>39, <1>40, <1>41, <1>42, TypeParts DEF CoreOK

LEMMA LoadOutboxKeeps ==
  ASSUME TypeOK, CoreOK, LoadOutbox
  PROVE  TypeOK' /\ CoreOK'
<1>1. AskingOK /\ DataOK
  BY TypeParts
<1>2. PICK n \in ExpiredCounts :
        LET stored == Without(outbox, Expired(n))
            restored == Restore(queue, OutboxLoad(stored))
        IN  /\ outbox' = stored
            /\ queue' = restored.queue
            /\ fate' = [fate EXCEPT !["left"] = @ \cup (Expired(n) \ InMemory),
                          !["silent"] = @ \cup {entry.event : entry \in restored.dropped}]
            /\ timers' = IF stored # <<>> /\ ~destroyed THEN timers \cup {"urgent"} ELSE timers
  BY DEF LoadOutbox
<1>3. /\ ~loaded /\ loaded' = TRUE /\ flush' = Ready
      /\ UNCHANGED <<captured, writes, follow, retry, online, destroyed, spent>>
  BY DEF LoadOutbox
<1>4. PICK expired, stored : expired = Expired(n) /\ stored = Without(outbox, expired)
  OBVIOUS
<1>5. PICK read : read = OutboxLoad(stored)
  OBVIOUS
<1>6. PICK restored : restored = Restore(queue, read)
  OBVIOUS
<1>7. PICK silent : silent = {entry.event : entry \in restored.dropped}
  OBVIOUS
<1>8. expired \subseteq EventsOf(outbox)
  BY <1>4, ExpiredAreStored
<1>9. /\ IsLine(stored) /\ Len(stored) <= Len(outbox)
      /\ ToSet(stored) = {x \in ToSet(outbox) : x.event \notin expired}
      /\ EventsOf(stored) = EventsOf(outbox) \ expired
  BY <1>4, WithoutLine DEF CoreOK, LinesOK
<1>10. read \in Seq(Retryable) /\ ToSet(read) \subseteq ToSet(stored)
  BY <1>5, <1>9, OutboxLoaded
<1>11. /\ IsLine(restored.queue) /\ InBounds(restored.queue)
       /\ ToSet(restored.queue) \subseteq ToSet(queue) \cup ToSet(read)
       /\ restored.dropped \subseteq ToSet(queue) \cup ToSet(read)
       /\ ToSet(queue) \subseteq ToSet(restored.queue) \cup restored.dropped
  BY <1>6, <1>10, Restored DEF CoreOK, LinesOK
<1>12. flush.pc \in {"none", "waiting"} /\ flush.batch = <<>> /\ EventsOf(<<>>) = {} /\ ToSet(<<>>) = {}
  BY <1>3 DEF CoreOK, UnloadedOK, LinesOK, EventsOf, ToSet
<1>13. PICK chained \in Nat : chained = Len(writes)
  BY <1>1 DEF DataOK
<1>14. /\ flush' \in Flush /\ flush'.pc = flush.pc /\ flush'.batch = <<>>
       /\ flush'.pc = "waiting" => flush'.barrier = Len(writes)
  <2>1. flush' = IF flush.pc = "waiting" THEN [flush EXCEPT !.barrier = chained] ELSE flush
    BY <1>3, <1>13 DEF Ready
  <2> QED BY <1>1, <1>12, <1>13, <2>1 DEF AskingOK, Flush
<1>15. InMemory = EventsOf(queue) /\ InMemory' = EventsOf(restored.queue)
  BY <1>2, <1>4, <1>5, <1>6, <1>12, <1>14 DEF InMemory
<1>16. /\ silent \subseteq InMemory \cup EventsOf(outbox)
       /\ InMemory' \subseteq InMemory \cup EventsOf(outbox)
       /\ InMemory \subseteq InMemory' \cup silent
  BY <1>7, <1>9, <1>10, <1>11, <1>15 DEF EventsOf
<1>17. InMemory \cup EventsOf(outbox) \subseteq 1..captured /\ 1..captured \subseteq Events
  BY <1>1, EventsAssumption DEF DataOK, Events, CoreOK, KnownOK
<1>18. PICK left \in SUBSET Events, hushed \in SUBSET Events :
         left = fate["left"] \cup (expired \ InMemory) /\ hushed = fate["silent"] \cup silent
  <2>1. fate["left"] \subseteq Events /\ fate["silent"] \subseteq Events
    BY <1>1 DEF DataOK, Fates
  <2> QED BY <1>8, <1>16, <1>17, <2>1
<1>19. fate' = [fate EXCEPT !["left"] = left, !["silent"] = hushed]
  BY <1>2, <1>4, <1>5, <1>6, <1>7, <1>18
<1>20. /\ fate' \in [Fates -> SUBSET Events] /\ fate'["left"] = left /\ fate'["silent"] = hushed
       /\ fate'["delivered"] = fate["delivered"] /\ fate'["dropped"] = fate["dropped"]
       /\ fate'["unwritten"] = fate["unwritten"]
  BY <1>1, <1>19 DEF DataOK, Fates
<1>21. outbox' = stored /\ queue' = restored.queue
       /\ timers' \subseteq timers \cup {"urgent"}
  BY <1>2, <1>4, <1>5, <1>6
<1>22. \A e \in EventsOf(outbox) : e \notin InMemory /\ ~Touches(writes, e)
  BY <1>3 DEF CoreOK, UnloadedOK
<1>23. AskingOK'
  BY <1>1, <1>3, <1>14, <1>21 DEF AskingOK
<1>24. DataOK'
  <2>1. stored \in Seq(Entry) /\ restored.queue \in Seq(Entry)
    BY <1>9, <1>11, LineType
  <2>2. Len(stored) <= OutboxLimit
    <3>1. Len(stored) \in Nat /\ Len(outbox) \in Nat /\ OutboxLimit \in Nat
      BY <1>1, <2>1, BoundsAssumption DEF DataOK
    <3> QED BY <1>1, <1>9, <3>1 DEF DataOK
  <2> QED BY <1>1, <1>3, <1>9, <1>11, <1>20, <1>21, <2>1, <2>2 DEF DataOK, InBounds
<1>25. LinesOK'
  <2>1. IsLine(<<>>)
    BY DEF IsLine, EachOnce
  <2> QED BY <1>9, <1>11, <1>12, <1>14, <1>21, <2>1 DEF LinesOK
<1>26. KnownOK'
  <2>1. /\ fate["unwritten"] \subseteq 1..captured /\ fate["dropped"] \subseteq 1..captured
        /\ fate["left"] \subseteq 1..captured /\ fate["delivered"] \subseteq 1..captured
        /\ fate["silent"] \subseteq 1..captured
    BY DEF CoreOK, KnownOK, Fates
  <2>2. \A f \in Fates : fate'[f] \subseteq 1..captured
    BY <1>8, <1>16, <1>17, <1>18, <1>20, <2>1 DEF Fates
  <2> QED BY <1>3, <1>9, <1>12, <1>14, <1>16, <1>17, <1>21, <2>2 DEF KnownOK
<1>27. WritesOK' /\ UnloadedOK'
  BY <1>3, <1>20 DEF WritesOK, UnloadedOK, CoreOK
<1>28. CopiesOK'
  <2> SUFFICES ASSUME NEW x \in ToSet(restored.queue), x.event \in Urgent
               PROVE  CopyIsRight(writes, stored, fate["unwritten"], x)
    BY <1>3, <1>12, <1>14, <1>20, <1>21 DEF CopiesOK
  <2>1. CASE x \in ToSet(queue)
    <3>1. CopyIsRight(writes, outbox, fate["unwritten"], x)
      BY <2>1 DEF CopiesOK, CoreOK
    <3>2. x \notin ToSet(outbox)
      BY <1>15, <1>22, <2>1 DEF EventsOf
    <3> QED BY <3>1, <3>2 DEF CopyIsRight
  <2>2. CASE x \in ToSet(stored)
    <3>1. x.event \in EventsOf(outbox)
      BY <1>9, <2>2 DEF EventsOf
    <3> QED BY <1>22, <2>2, <3>1 DEF CopyIsRight
  <2> QED BY <1>10, <1>11, <2>1, <2>2
<1>29. AccountedOK'
  <2>1. EventsOf(outbox) \subseteq EventsOf(stored) \cup left \cup InMemory
    BY <1>9, <1>18
  <2> QED BY <1>3, <1>16, <1>18, <1>20, <1>21, <2>1 DEF AccountedOK, CoreOK
<1>30. FirstPageOK'
  <2> SUFFICES ASSUME spent.restarts = 0 PROVE FirstPageOK'
    BY <1>3 DEF FirstPageOK
  <2>1. outbox = <<>> /\ \A e \in InMemory : IsQuiet(writes, outbox, e)
    BY <1>3 DEF FirstPageOK, CoreOK
  <2>2. EventsOf(outbox) = {} /\ ToSet(outbox) = {}
    BY <1>12, <2>1
  <2>3. ToSet(stored) \subseteq ToSet(outbox)
    BY <1>9
  <2>4. /\ \A e : IsQuiet(writes, outbox, e) => IsQuiet(writes, stored, e)
        /\ \A e, u : IsForgotten(writes, outbox, u, e) => IsForgotten(writes, stored, u, e)
    BY <2>3, FewerAreStored
  <2>5. InMemory' \subseteq InMemory
    BY <1>16, <2>2
  <2>6. InMemory' \cap fate["dropped"] = {}
    BY <2>5 DEF FirstPageOK, CoreOK
  <2>7. \A e \in fate["dropped"] : IsForgotten(writes, stored, fate["unwritten"], e)
    BY <2>4 DEF FirstPageOK, CoreOK
  <2>8. \A e \in (1..captured) \ (InMemory' \cup fate["dropped"]) : IsQuiet(writes, stored, e)
    BY <2>1, <2>4 DEF FirstPageOK, CoreOK
  <2>9. flush'.pc = "waiting" => \A e : Within(writes, e, flush'.barrier)
    BY <1>1, <1>14, AllWithin DEF DataOK
  <2> QED BY <1>3, <1>12, <1>14, <1>20, <1>21, <2>6, <2>7, <2>8, <2>9 DEF FirstPageOK
<1> QED BY <1>23, <1>24, <1>25, <1>26, <1>27, <1>28, <1>29, <1>30, TypeParts DEF CoreOK

LEMMA SendFailsKeeps ==
  ASSUME TypeOK, CoreOK, SendFails
  PROVE  TypeOK' /\ CoreOK'
<1>1. AskingOK /\ DataOK
  BY TypeParts
<1>2. PICK failure : failure = Requeue(queue, flush.batch)
  OBVIOUS
<1>3. PICK gone : gone = {x.event : x \in failure.dropped}
  OBVIOUS
<1>4. PICK again : again = UrgentPart(failure.retried)
  OBVIOUS
<1>5. PICK save, removal : save = Save(again) /\ removal = Removal(gone \cap Urgent)
  OBVIOUS
<1>6. PICK after : after = save \o removal
  OBVIOUS
<1>7. PICK backoff : backoff = IF destroyed \/ ~online THEN retry ELSE flush.options
  OBVIOUS
<1>8. /\ flush.pc = "sending" /\ queue' = failure.queue
      /\ fate' = Became("dropped", gone) /\ writes' = writes \o after
      /\ Settle(FALSE, Len(failure.queue), writes', backoff)
      /\ UNCHANGED <<captured, outbox, loaded, page>>
  BY <1>2, <1>3, <1>4, <1>5, <1>6, <1>7 DEF SendFails, WritesAfter
<1>9. /\ IsLine(failure.queue) /\ InBounds(failure.queue)
      /\ IsLine(failure.retried) /\ EventsOf(failure.retried) \subseteq EventsOf(flush.batch)
      /\ ToSet(failure.queue) \subseteq ToSet(queue) \cup ToSet(failure.retried)
      /\ EventsOf(failure.queue) \cup gone = EventsOf(queue) \cup EventsOf(flush.batch)
      /\ EventsOf(failure.queue) \cap gone = {}
  BY <1>2, <1>3, Requeued DEF CoreOK, LinesOK
<1>10. loaded
  BY <1>8 DEF CoreOK, UnloadedOK
<1>11. InMemory \subseteq 1..captured /\ 1..captured \subseteq Events /\ gone \subseteq InMemory
  BY <1>1, <1>9, EventsAssumption DEF DataOK, Events, CoreOK, KnownOK, InMemory
<1>12. /\ fate' \in [Fates -> SUBSET Events] /\ fate'["dropped"] = fate["dropped"] \cup gone
       /\ \A g \in Fates \ {"dropped"} : fate'[g] = fate[g]
  <2>1. gone \in SUBSET Events
    BY <1>11
  <2> QED BY <1>1, <1>8, <2>1, BecameParts DEF DataOK, Fates
<1>13. /\ fate'["delivered"] = fate["delivered"] /\ fate'["silent"] = fate["silent"]
       /\ fate'["unwritten"] = fate["unwritten"] /\ fate'["left"] = fate["left"]
  BY <1>12 DEF Fates
<1>14. /\ IsLine(again) /\ ToSet(again) = {x \in ToSet(failure.retried) : x.event \in Urgent}
       /\ EventsOf(again) = EventsOf(failure.retried) \cap Urgent
  BY <1>4, <1>9, OnlyLine DEF UrgentPart
<1>15. EventsOf(again) \subseteq Urgent \cap (1..captured)
  BY <1>9, <1>11, <1>14 DEF InMemory
<1>16. /\ save \in Seq(Write)
       /\ \A e : Touches(save, e) <=> e \in EventsOf(again)
       /\ \A x \in ToSet(again) : LastSaves(save, x)
       /\ AreProper(save, 1..captured, fate'["dropped"])
  BY <1>5, <1>14, <1>15, SaveChain
<1>17. gone \cap Urgent \in SUBSET Events
  BY <1>11
<1>18. /\ removal \in Seq(Write)
       /\ \A e : Touches(removal, e) <=> e \in gone \cap Urgent
       /\ \A e \in gone \cap Urgent : LastRemoves(removal, e)
       /\ AreProper(removal, 1..captured, fate'["dropped"])
  BY <1>5, <1>11, <1>12, <1>17, RemovalChain
<1>19. /\ after \in Seq(Write)
       /\ \A e : Touches(after, e) <=> e \in EventsOf(again) \/ e \in gone \cap Urgent
       /\ \A x \in ToSet(again) : x.event \notin gone => LastSaves(after, x)
       /\ \A e \in gone \cap Urgent : LastRemoves(after, e)
       /\ AreProper(after, 1..captured, fate'["dropped"])
  <2>1. after \in Seq(Write) /\ AreProper(after, 1..captured, fate'["dropped"])
    BY <1>6, <1>16, <1>18, ChainGrows
  <2>2. \A e : Touches(after, e) <=> e \in EventsOf(again) \/ e \in gone \cap Urgent
    BY <1>6, <1>16, <1>18, ChainGrows
  <2>3. \A x \in ToSet(again) : x.event \notin gone => LastSaves(after, x)
    BY <1>6, <1>16, <1>18, ChainGrows
  <2>4. \A e \in gone \cap Urgent : LastRemoves(after, e)
    BY <1>6, <1>16, <1>18, ChainGrows
  <2> QED BY <2>1, <2>2, <2>3, <2>4
<1>20. /\ writes' \in Seq(Write)
       /\ \A e : Touches(writes', e) <=> Touches(writes, e) \/ Touches(after, e)
       /\ \A x : LastSaves(after, x) => LastSaves(writes', x)
       /\ \A e : LastRemoves(after, e) => LastRemoves(writes', e)
  BY <1>1, <1>8, <1>19, ChainGrows DEF DataOK
<1>21. ASSUME NEW e, ~Touches(after, e)
       PROVE  /\ Touches(writes', e) <=> Touches(writes, e)
              /\ \A x, u : x.event = e /\ CopyIsRight(writes, outbox, u, x)
                             => CopyIsRight(writes', outbox, u, x)
              /\ \A u : IsForgotten(writes, outbox, u, e) => IsForgotten(writes', outbox, u, e)
              /\ IsQuiet(writes, outbox, e) => IsQuiet(writes', outbox, e)
  BY <1>1, <1>8, <1>19, <1>21, ChainSpares DEF DataOK
<1>22. /\ flush' \in Flush /\ follow' \in Follow /\ retry' \in Options \cup {NoRetry}
       /\ flush'.pc \in {"none", "waiting"} /\ flush'.batch = <<>>
       /\ flush'.pc = "waiting" => flush'.barrier = Len(writes')
  <2>1. Len(failure.queue) \in Nat
    BY <1>9 DEF IsLine
  <2>2. backoff \in Options \cup {NoRetry}
    BY <1>1, <1>7 DEF AskingOK, Flush
  <2>3. PICK chain \in Seq(Write) : chain = writes'
    BY <1>20
  <2>4. Settle(FALSE, Len(failure.queue), chain, backoff)
    BY <1>8, <2>3
  <2> QED BY <1>1, <2>1, <2>2, <2>3, <2>4, SettleStep DEF AskingOK
<1>23. EventsOf(<<>>) = {} /\ ToSet(<<>>) = {} /\ IsLine(<<>>)
  BY DEF EventsOf, ToSet, IsLine, EachOnce
<1>24. InMemory' = EventsOf(failure.queue) /\ InMemory' \cup gone = InMemory
  BY <1>8, <1>9, <1>22, <1>23 DEF InMemory
<1>25. AskingOK'
  BY <1>1, <1>8, <1>22 DEF AskingOK, page
<1>26. DataOK'
  <2>1. failure.queue \in Seq(Entry)
    BY <1>9, LineType
  <2> QED BY <1>1, <1>8, <1>9, <1>12, <1>20, <2>1 DEF DataOK, InBounds
<1>27. LinesOK'
  BY <1>8, <1>9, <1>22, <1>23 DEF LinesOK, CoreOK
<1>28. KnownOK'
  <2>1. \A f \in Fates : fate'[f] \subseteq 1..captured
    BY <1>11, <1>12 DEF CoreOK, KnownOK
  <2> QED BY <1>8, <1>11, <1>22, <1>24, <2>1 DEF KnownOK, CoreOK
<1>29. WritesOK'
  <2>1. AreProper(writes, 1..captured, fate'["dropped"])
    BY <1>12 DEF CoreOK, WritesOK, AreProper, IsProper
  <2>2. AreProper(writes', 1..captured, fate'["dropped"])
    BY <1>1, <1>8, <1>19, <2>1, ChainGrows DEF DataOK
  <2> QED BY <1>8, <2>2 DEF WritesOK
<1>30. UnloadedOK'
  BY <1>8, <1>10 DEF UnloadedOK
<1>31. CopiesOK'
  <2> SUFFICES ASSUME NEW x \in ToSet(failure.queue), x.event \in Urgent
               PROVE  CopyIsRight(writes', outbox, fate["unwritten"], x)
    BY <1>8, <1>13, <1>22, <1>23 DEF CopiesOK
  <2>1. x.event \in EventsOf(failure.queue) /\ x.event \notin gone
    BY <1>9 DEF EventsOf
  <2>2. CASE x \in ToSet(failure.retried)
    <3>1. x \in ToSet(again)
      BY <1>14, <2>2
    <3>2. x.event \in EventsOf(again)
      BY <3>1 DEF EventsOf
    <3> QED BY <1>19, <1>20, <2>1, <3>1, <3>2 DEF CopyIsRight
  <2>3. CASE x \in ToSet(queue)
    <3>1. x.event \notin EventsOf(again)
      BY <1>9, <1>14, <2>3 DEF CoreOK, LinesOK, EventsOf
    <3>2. ~Touches(after, x.event)
      BY <1>19, <2>1, <3>1
    <3>3. CopyIsRight(writes, outbox, fate["unwritten"], x)
      BY <2>3 DEF CopiesOK, CoreOK
    <3> QED BY <1>21, <3>2, <3>3
  <2> QED BY <1>9, <2>2, <2>3
<1>32. AccountedOK'
  BY <1>8, <1>12, <1>13, <1>24 DEF AccountedOK, CoreOK
<1>33. FirstPageOK'
  <2> SUFFICES ASSUME spent.restarts = 0 PROVE FirstPageOK'
    BY <1>8 DEF FirstPageOK, page
  <2>1. InMemory \cap fate["dropped"] = {}
    BY DEF FirstPageOK, CoreOK
  <2>2. InMemory' \cap fate'["dropped"] = {}
    BY <1>9, <1>12, <1>24, <2>1
  <2>3. \A e : Touches(after, e) => e \in InMemory
    BY <1>9, <1>11, <1>14, <1>19 DEF InMemory
  <2>4. ASSUME NEW e \in fate'["dropped"]
        PROVE  IsForgotten(writes', outbox, fate["unwritten"], e)
    <3>1. CASE e \in fate["dropped"]
      <4>1. ~Touches(after, e)
        BY <2>1, <2>3, <3>1
      <4>2. IsForgotten(writes, outbox, fate["unwritten"], e)
        BY <3>1 DEF FirstPageOK, CoreOK
      <4> QED BY <1>21, <4>1, <4>2
    <3>2. CASE e \in gone /\ e \in Urgent
      BY <1>19, <1>20, <3>2 DEF IsForgotten
    <3>3. CASE e \in gone /\ e \notin Urgent
      <4>1. ~Touches(writes', e)
        BY <1>14, <1>19, <1>20, <3>3, OthersAreUntouched
      <4>2. e \notin EventsOf(outbox)
        BY <1>1, <3>3 DEF DataOK
      <4> QED BY <4>1, <4>2 DEF IsForgotten
    <3> QED BY <1>12, <3>1, <3>2, <3>3
  <2>5. ASSUME NEW e \in (1..captured) \ (InMemory' \cup fate'["dropped"])
        PROVE  IsQuiet(writes', outbox, e)
    <3>1. e \in (1..captured) \ (InMemory \cup fate["dropped"])
      BY <1>12, <1>24
    <3>2. IsQuiet(writes, outbox, e)
      BY <3>1 DEF FirstPageOK, CoreOK
    <3> QED BY <1>21, <2>3, <3>1, <3>2
  <2>6. flush'.pc = "waiting" => \A e : Within(writes', e, flush'.barrier)
    <3>1. PICK chain \in Seq(Write) : chain = writes'
      BY <1>20
    <3> QED BY <1>22, <3>1, AllWithin
  <2> QED BY <1>8, <1>10, <1>13, <1>22, <1>23, <2>2, <2>4, <2>5, <2>6 DEF FirstPageOK
<1> QED BY <1>25, <1>26, <1>27, <1>28, <1>29, <1>30, <1>31, <1>32, <1>33, TypeParts DEF CoreOK

-----------------------------------------------------------------------------
(* The invariant holds.                                                    *)

LEMMA InitHolds == Init => DeliveryInv
<1> SUFFICES ASSUME Init PROVE DeliveryInv
  OBVIOUS
<1>1. EventsOf(<<>>) = {} /\ ToSet(<<>>) = {} /\ IsLine(<<>>) /\ InBounds(<<>>)
      /\ <<>> \in Seq(Entry) /\ <<>> \in Seq(Write) /\ DOMAIN <<>> = {} /\ Len(<<>>) = 0
  BY BytesOfNothing, BoundsAssumption DEF EventsOf, ToSet, IsLine, EachOnce, InBounds
<1>2. flush.batch = <<>> /\ flush.pc = "none"
  BY DEF Init, NoFlush
<1>3. AskingOK
  <2>1. 0 \in 0..MaxOutages /\ 0 \in 0..MaxRestarts
    BY FlushAssumption
  <2> QED BY <2>1, OptionsType DEF Init, AskingOK
<1>4. DataOK
  <2>1. 0 \in 0..MaxEvent /\ 0 <= QueueLimit /\ 0 <= OutboxLimit /\ Bytes(<<>>) <= QueueBytes
    BY BytesOfNothing, BoundsAssumption, EventsAssumption
  <2> QED BY <1>1, <2>1 DEF Init, DataOK
<1>5. InMemory = {} /\ 1..captured = {} /\ \A f \in Fates : fate[f] = {}
  BY <1>1, <1>2 DEF Init, InMemory
<1>6. LinesOK
  BY <1>1, <1>2 DEF Init, LinesOK
<1>7. KnownOK
  BY <1>1, <1>2, <1>5 DEF Init, KnownOK
<1>8. WritesOK
  BY <1>1 DEF Init, WritesOK, AreProper
<1>9. UnloadedOK
  BY <1>1, <1>2 DEF Init, UnloadedOK
<1>10. CopiesOK
  BY <1>1, <1>2 DEF Init, CopiesOK
<1>11. AccountedOK
  BY <1>5 DEF AccountedOK
<1>12. FirstPageOK
  <2>1. fate["dropped"] = {}
    BY <1>5 DEF Fates
  <2> QED BY <1>1, <1>2, <1>5, <2>1 DEF Init, FirstPageOK
<1> QED BY <1>3, <1>4, <1>6, <1>7, <1>8, <1>9, <1>10, <1>11, <1>12, TypeParts
        DEF DeliveryInv, CoreOK

LEMMA StepKeeps == DeliveryInv /\ [Next]_vars => DeliveryInv'
<1> SUFFICES ASSUME TypeOK, CoreOK, [Next]_vars PROVE TypeOK' /\ CoreOK'
  BY DEF DeliveryInv
<1>1. ASSUME TypeOK' /\ Asks PROVE TypeOK' /\ CoreOK'
  BY <1>1, AsksKeepsCore
<1>2. CASE IntervalFlush
  BY <1>1, <1>2, IntervalFlushAsks
<1>3. CASE UrgentTimer
  BY <1>1, <1>3, TimerAsks, OptionsType DEF UrgentTimer
<1>4. CASE BatchTimer
  BY <1>1, <1>4, TimerAsks, OptionsType DEF BatchTimer
<1>5. CASE RetryTimer
  BY <1>1, <1>5, RetryTimerAsks
<1>6. CASE PageHide
  BY <1>1, <1>6, PageHideAsks
<1>7. CASE AppFlush
  BY <1>1, <1>7, AppFlushAsks
<1>8. CASE GoOffline \/ GoOnline
  BY <1>1, <1>8, NetworkAsks
<1>9. CASE Destroy
  BY <1>1, <1>9, DestroyAsks
<1>10. CASE LoadFails
  BY <1>1, <1>10, LoadFailsAsks
<1>11. CASE DrainNothing
  BY <1>1, <1>11, DrainNothingAsks
<1>12. CASE Send
  BY <1>12, SendKeeps
<1>13. CASE Capture
  BY <1>13, CaptureKeeps
<1>14. CASE LoadOutbox
  BY <1>14, LoadOutboxKeeps
<1>15. CASE RunWrite
  BY <1>15, RunWriteKeeps
<1>16. CASE WriteFails
  BY <1>16, WriteFailsKeeps
<1>17. CASE SendSucceeds
  BY <1>17, SendSucceedsKeeps
<1>18. CASE RemoveSettles
  BY <1>18, RemoveSettlesKeeps
<1>19. CASE SendFails
  BY <1>19, SendFailsKeeps
<1>20. CASE Restart
  BY <1>20, RestartKeeps
<1>21. CASE UNCHANGED vars
  <2>1. UNCHANGED <<captured, queue, outbox, loaded, writes, fate, flush, follow, retry,
                    timers, online, destroyed, spent>>
    BY <1>21 DEF vars, flushing, page
  <2>2. online \in BOOLEAN /\ destroyed \in BOOLEAN
    BY DEF TypeOK
  <2>3. TypeOK' /\ Asks
    BY <2>1, <2>2, AskingStep
  <2> QED BY <1>1, <2>3
<1> QED
  BY <1>2, <1>3, <1>4, <1>5, <1>6, <1>7, <1>8, <1>9, <1>10, <1>11, <1>12, <1>13, <1>14,
     <1>15, <1>16, <1>17, <1>18, <1>19, <1>20, <1>21 DEF Next

\* The state of the client is always the one the invariant describes.
LEMMA Inductive == Spec => []DeliveryInv
BY InitHolds, StepKeeps, PTL DEF Spec

-----------------------------------------------------------------------------
(* The theorems.                                                           *)

\* Whatever the pages, the storage and the network do, the queue and the outbox
\* keep their bounds and only urgent events are stored.
THEOREM TypeCorrect == Spec => []TypeOK
<1>1. DeliveryInv => TypeOK
  BY DEF DeliveryInv
<1> QED
  BY <1>1, Inductive, PTL

\* A sequence that holds no event twice holds as many events as entries.
LEMMA LineCount ==
  ASSUME NEW s, IsLine(s)
  PROVE  IsFiniteSet(EventsOf(s)) /\ Cardinality(EventsOf(s)) = Len(s) /\ Len(s) \in Nat
<1>1. PICK n \in Nat : n = Len(s) /\ DOMAIN s = 1..n
  BY DEF IsLine
<1> DEFINE f == [i \in 1..n |-> s[i].event]
<1>2. f \in [1..n -> EventsOf(s)]
  BY <1>1 DEF EventsOf, ToSet
<1>3. \A i, j \in 1..n : f[i] = f[j] => i = j
  BY <1>1 DEF IsLine, EachOnce
<1>4. \A e \in EventsOf(s) : \E i \in 1..n : f[i] = e
  BY <1>1 DEF EventsOf, ToSet
<1> HIDE DEF f
<1>5. f \in Bijection(1..n, EventsOf(s))
  BY <1>2, <1>3, <1>4 DEF Bijection, Injection, Surjection, IsInjective
<1>6. ExistsBijection(1..n, EventsOf(s))
  BY <1>5 DEF ExistsBijection
<1> QED BY <1>1, <1>6, FS_CountingElements, FS_NatBijection

\* However captures, loads, sends, failures and pages interleave, a captured
\* event is somewhere, and in memory at most once.
THEOREM NothingIsForgotten == Spec => []EachEventOnce
<1>1. ASSUME DeliveryInv PROVE EachEventOnce
  <2>1. AccountedOK /\ LinesOK
    BY <1>1 DEF DeliveryInv, CoreOK
  <2>2. PICK m, n \in Nat :
          /\ m = Len(queue) /\ n = Len(flush.batch)
          /\ IsFiniteSet(EventsOf(queue)) /\ Cardinality(EventsOf(queue)) = m
          /\ IsFiniteSet(EventsOf(flush.batch)) /\ Cardinality(EventsOf(flush.batch)) = n
    BY <2>1, LineCount DEF LinesOK
  <2>3. Cardinality(EventsOf(queue) \cap EventsOf(flush.batch)) = 0
    BY <2>1, FS_EmptySet DEF LinesOK
  <2>4. Cardinality(InMemory) = m + n
    <3>1. Cardinality(InMemory) = Cardinality(EventsOf(queue)) + Cardinality(EventsOf(flush.batch))
                                    - Cardinality(EventsOf(queue) \cap EventsOf(flush.batch))
      BY <2>2, FS_Union DEF InMemory
    <3>2. Cardinality(InMemory) = m + n - 0
      BY <2>2, <2>3, <3>1
    <3> QED BY <3>2
  <2> QED BY <2>1, <2>2, <2>4 DEF EachEventOnce, AccountedOK
<1> QED
  BY <1>1, Inductive, PTL

LEMMA LastPending ==
  ASSUME writes \in Seq(Write), NEW e
  PROVE  /\ PendingWrites(e) = {} <=> ~Touches(writes, e)
         /\ \A i \in DOMAIN writes :
              Mentions(writes[i], e) /\ LastAbout(writes, i, e) => Max(PendingWrites(e)) = i
<1>1. PendingWrites(e) = {i \in DOMAIN writes : Mentions(writes[i], e)}
  BY DEF PendingWrites, Mentions
<1>2. DOMAIN writes \subseteq Nat
  OBVIOUS
<1>3. ASSUME NEW i \in DOMAIN writes, Mentions(writes[i], e), LastAbout(writes, i, e)
      PROVE  Max(PendingWrites(e)) = i
  <2>1. i \in PendingWrites(e) /\ \A j \in PendingWrites(e) : i >= j
    BY <1>1, <1>2, <1>3 DEF LastAbout
  <2>2. \A k \in PendingWrites(e) : (\A j \in PendingWrites(e) : k >= j) => k = i
    BY <1>1, <1>2, <2>1
  <2> QED BY <2>1, <2>2 DEF Max
<1> QED BY <1>1, <1>3 DEF Touches

\* Whatever the order of saves, removals, failed writes, evictions and loads, an
\* urgent event in memory is in the outbox, on its way there, or known not to be.
THEOREM UrgentSurvives == Spec => []UrgentIsRecoverable
<1>1. ASSUME DeliveryInv PROVE UrgentIsRecoverable
  <2> SUFFICES ASSUME NEW e \in (Urgent \cap InMemory) \ fate["delivered"]
               PROVE  IF PendingWrites(e) = {}
                      THEN e \in EventsOf(outbox) \cup fate["unwritten"]
                      ELSE e \in EventsOf(writes[Max(PendingWrites(e))].save)
    BY DEF UrgentIsRecoverable
  <2>1. writes \in Seq(Write)
    BY <1>1 DEF DeliveryInv, TypeOK
  <2>2. PICK x \in ToSet(queue) \cup ToSet(flush.batch) : x.event = e
    BY DEF InMemory, EventsOf
  <2>3. CopyIsRight(writes, outbox, fate["unwritten"], x)
    BY <1>1, <2>2 DEF DeliveryInv, CoreOK, CopiesOK
  <2>4. CASE ~Touches(writes, e)
    BY <2>1, <2>2, <2>3, <2>4, LastPending DEF CopyIsRight, EventsOf
  <2>5. CASE Touches(writes, e)
    <3>1. PICK i \in DOMAIN writes : x \in ToSet(writes[i].save) /\ LastAbout(writes, i, e)
      BY <2>2, <2>3, <2>5 DEF CopyIsRight, LastSaves
    <3>2. e \in EventsOf(writes[i].save)
      BY <2>2, <3>1 DEF EventsOf
    <3>3. Max(PendingWrites(e)) = i /\ PendingWrites(e) # {}
      BY <2>1, <2>5, <3>1, <3>2, LastPending DEF Mentions
    <3> QED BY <3>2, <3>3
  <2> QED BY <2>4, <2>5
<1> QED
  BY <1>1, Inductive, PTL

LEMMA NothingPending == \A e : writes = <<>> => ~Touches(writes, e)
BY DEF Touches

\* Retries and reloads never leave an older count of attempts behind: what is
\* stored of an urgent event in memory is the entry in memory.
THEOREM AttemptsAreCurrent == Spec => []StoredAttemptsAreCurrent
<1>1. ASSUME DeliveryInv PROVE StoredAttemptsAreCurrent
  <2> SUFFICES ASSUME writes = <<>>, NEW entry \in ToSet(queue \o flush.batch),
                      NEW stored \in ToSet(outbox), entry.event = stored.event,
                      entry.event \notin fate["unwritten"]
               PROVE  entry.attempts = stored.attempts
    BY DEF StoredAttemptsAreCurrent
  <2>1. LinesOK /\ CopiesOK /\ EventsOf(outbox) \subseteq Urgent
    BY <1>1 DEF DeliveryInv, CoreOK, TypeOK
  <2>2. entry \in ToSet(queue) \cup ToSet(flush.batch)
    <3>1. queue \in Seq(Retryable) /\ flush.batch \in Seq(Retryable)
      BY <2>1 DEF LinesOK, IsLine
    <3> QED BY <3>1, ConcatElements
  <2>3. entry.event \in Urgent
    BY <2>1 DEF EventsOf
  <2>4. entry \in ToSet(outbox)
    BY <2>1, <2>2, <2>3, NothingPending DEF CopiesOK, CopyIsRight
  <2> QED BY <2>1, <2>4, MemoryIsLines
<1> QED
  BY <1>1, Inductive, PTL

\* On the first page, whatever was dropped from memory is forgotten by the
\* outbox too once the writes have settled.
THEOREM DroppedStaysDropped == Spec => []DroppedIsForgotten
<1>1. ASSUME DeliveryInv PROVE DroppedIsForgotten
  BY <1>1, NothingPending DEF DeliveryInv, CoreOK, FirstPageOK, IsForgotten, DroppedIsForgotten
<1> QED
  BY <1>1, Inductive, PTL

\* A capture that drops an urgent event leaves no routine one in the queue.
THEOREM CaptureEvictsRoutineFirst == Spec => CaptureSparesUrgent
<1> DEFINE Spares == captured' # captured
                       => \/ (fate'["dropped"] \ fate["dropped"]) \cap Urgent = {}
                          \/ RoutinePart(queue') = <<>>
<1>1. ASSUME DeliveryInv, [Next]_vars PROVE [Spares]_vars
  <2> SUFFICES ASSUME captured' # captured PROVE Spares
    OBVIOUS
  <2>1. Capture
    BY <1>1 DEF Next, vars, flushing, page, DrainNothing, Send, LoadOutbox, LoadFails, RunWrite,
                WriteFails, IntervalFlush, UrgentTimer, BatchTimer, TimerFires, RetryTimer,
                PageHide, AppFlush, GoOffline, GoOnline, SendSucceeds, RemoveSettles, SendFails,
                Destroy, Restart
  <2>2. PICK entry : entry = [event |-> captured + 1, attempts |-> 0]
    OBVIOUS
  <2>3. PICK added : added = Enqueue(queue, entry)
    OBVIOUS
  <2>4. PICK gone : gone = {dropped.event : dropped \in added.dropped}
                             \cup {e \in {captured + 1} : ~added.fits}
    OBVIOUS
  <2>5. queue' = added.queue /\ fate' = Became("dropped", gone) /\ captured < MaxEvent
    BY <2>1, <2>2, <2>3, <2>4 DEF Capture
  <2>6. TypeOK /\ LinesOK /\ KnownOK
    BY <1>1 DEF DeliveryInv, CoreOK
  <2>7. entry \in Retryable /\ entry.event \notin EventsOf(queue) /\ entry.event = captured + 1
    <3>1. captured \in Nat /\ captured + 1 \in Events
      BY <2>5, <2>6, EventsAssumption DEF TypeOK, Events
    <3>2. captured + 1 \notin 1..captured
      BY <3>1
    <3> QED BY <2>2, <2>6, <3>1, <3>2, BoundsAssumption DEF Retryable, KnownOK, InMemory
  <2>8. /\ IsLine(added.queue)
        /\ entry.event \in Urgent => added.fits
        /\ Calm(added.dropped) \/ AllUrgent(ToSet(added.queue))
    BY <2>3, <2>6, <2>7, Enqueued DEF LinesOK
  <2>9. fate'["dropped"] \ fate["dropped"] \subseteq gone
    BY <2>5, <2>6 DEF Became, TypeOK
  <2>10. CASE Calm(added.dropped)
    BY <2>4, <2>7, <2>8, <2>9, <2>10 DEF Calm
  <2>11. CASE AllUrgent(ToSet(added.queue))
    <3>1. ToSet(RoutinePart(added.queue)) = {}
      BY <2>8, <2>11, WithoutLine DEF AllUrgent, RoutinePart
    <3>2. RoutinePart(added.queue) = <<>>
      BY <2>8, <3>1, WithoutLine, EmptyLine DEF IsLine, RoutinePart
    <3> QED BY <2>5, <3>2
  <2> QED BY <2>8, <2>10, <2>11
<1> QED
  BY <1>1, Inductive, PTL DEF Spec, CaptureSparesUrgent

=============================================================================
