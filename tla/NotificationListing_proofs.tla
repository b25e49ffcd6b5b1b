---------------------- MODULE NotificationListing_proofs ----------------------
(***************************************************************************)
(* What TLAPS proves about GET /event-orders/notifications, for any set of *)
(* orderIds and any length of the table.                                   *)
(***************************************************************************)
EXTENDS NotificationListing, FiniteSetTheorems, TLAPS

USE DEF vars, mapVars, callVars

\* Buckets, walks and answers are sequences of orderIds.
SequencesOfIds ==
  buckets \in [0 .. Buckets - 1 -> Seq(OrderIds)] /\ seen \in Seq(OrderIds) /\ answer \in Seq(OrderIds)

\* An orderId is in the bucket it belongs to, and there once.
EachInItsBucket ==
  \A b \in 0 .. Buckets - 1 :
    IsInjective(buckets[b]) /\ \A id \in ToSet(buckets[b]) : id % Buckets = b

\* The size counts what is recorded; an entry not yet counted is in its bucket.
SizeIsOfRecorded ==
  /\ IsFiniteSet(InMap) /\ size = Cardinality(Recorded)
  /\ adding # NoId => adding \in InMap

\* The walk goes bucket after bucket and forgets nothing it came across.
WalkIsInOrder ==
  /\ at \in {"size", "sizeAgain"} => bucket = 0
  /\ at \in {"size", "sizeAgain", "first"} => seen = <<>>
  /\ ~Answered => answer = <<>>
  /\ IsInjective(seen)
  /\ \A id \in ToSet(seen) : id \in InMap /\ id % Buckets < bucket
  /\ at \in {"copy", "sort"} => \A id \in begun : id % Buckets < bucket => id \in ToSet(seen)

\* What was recorded when the call began is so now, and toList() is asked only
\* when that was one notification at the most.
BegunIsRecorded ==
  /\ begun \subseteq Recorded
  /\ at \in {"sizeAgain", "first", "copy"} => Cardinality(begun) <= 1

\* The iterator of toList() has an entry before it.
IteratorFinds == at = "first" => \E b \in bucket .. Buckets - 1 : buckets[b] # <<>>

InOrder(s) == IsSorted(s, <)

\* The answer has all that was recorded when the call began, in order if that
\* was more than one, or is the single other one.
AnswerStands ==
  Answered => \/ begun \subseteq ToSet(answer) /\ (Cardinality(begun) >= 2 => InOrder(answer))
              \/ Cardinality(begun) = 1 /\ Len(answer) = 1

\* The inductive invariant of the listing.
ListingInv ==
  /\ TypeOK
  /\ SequencesOfIds
  /\ EachInItsBucket
  /\ SizeIsOfRecorded
  /\ WalkIsInOrder
  /\ BegunIsRecorded
  /\ IteratorFinds
  /\ AnswerIsOfTheMap
  /\ AnswerStands

-----------------------------------------------------------------------------
(* Sequences, and sorting them.                                             *)

\* The elements of what a walk copied so far and of the next bucket.
LEMMA ConcatElements ==
  ASSUME NEW S, NEW s \in Seq(S), NEW t \in Seq(S)
  PROVE  s \o t \in Seq(S) /\ ToSet(s \o t) = ToSet(s) \union ToSet(t)
<1>1. s \o t \in Seq(S) /\ Len(s \o t) = Len(s) + Len(t)
  OBVIOUS
<1>2. \A i \in 1 .. Len(s) : (s \o t)[i] = s[i]
  OBVIOUS
<1>3. \A i \in 1 .. Len(t) : (s \o t)[Len(s) + i] = t[i]
  OBVIOUS
<1>4. ASSUME NEW i \in DOMAIN (s \o t) PROVE (s \o t)[i] \in ToSet(s) \union ToSet(t)
  <2>1. CASE i \in 1 .. Len(s)
    BY <1>2, <2>1 DEF ToSet
  <2>2. CASE i \notin 1 .. Len(s)
    <3>1. i - Len(s) \in 1 .. Len(t) /\ i = Len(s) + (i - Len(s))
      BY <1>1, <2>2
    <3>2. (s \o t)[i] = t[i - Len(s)]
      BY <1>3, <3>1
    <3> QED
      BY <3>1, <3>2 DEF ToSet
  <2> QED
    BY <2>1, <2>2
<1>5. ASSUME NEW i \in DOMAIN s PROVE s[i] \in ToSet(s \o t)
  BY <1>1, <1>2 DEF ToSet
<1>6. ASSUME NEW i \in DOMAIN t PROVE t[i] \in ToSet(s \o t)
  <2>1. Len(s) + i \in DOMAIN (s \o t) /\ (s \o t)[Len(s) + i] = t[i]
    BY <1>1, <1>3
  <2> QED
    BY <2>1 DEF ToSet
<1> QED
  BY <1>1, <1>4, <1>5, <1>6 DEF ToSet

\* What repeats nothing goes on to when a sequence of others is appended.
LEMMA ConcatInjective ==
  ASSUME NEW S, NEW s \in Seq(S), NEW t \in Seq(S), IsInjective(s), IsInjective(t),
         \A x \in ToSet(s) : x \notin ToSet(t)
  PROVE  IsInjective(s \o t)
<1> SUFFICES ASSUME NEW i \in DOMAIN (s \o t), NEW j \in DOMAIN (s \o t), (s \o t)[i] = (s \o t)[j]
             PROVE  i = j
  BY DEF IsInjective
<1>1. s \o t \in Seq(S) /\ Len(s \o t) = Len(s) + Len(t)
  OBVIOUS
<1>2. \A k \in 1 .. Len(s) : (s \o t)[k] = s[k] /\ s[k] \in ToSet(s)
  BY DEF ToSet
<1>3. \A k \in 1 .. Len(s) + Len(t) : k > Len(s) =>
        (s \o t)[k] = t[k - Len(s)] /\ k - Len(s) \in DOMAIN t /\ t[k - Len(s)] \in ToSet(t)
  BY DEF ToSet
<1>4. i \in 1 .. Len(s) + Len(t) /\ j \in 1 .. Len(s) + Len(t)
  BY <1>1
<1>5. CASE i <= Len(s) /\ j <= Len(s)
  BY <1>2, <1>4, <1>5 DEF IsInjective
<1>6. CASE i <= Len(s) /\ j > Len(s)
  BY <1>2, <1>3, <1>4, <1>6
<1>7. CASE i > Len(s) /\ j <= Len(s)
  BY <1>2, <1>3, <1>4, <1>7
<1>8. CASE i > Len(s) /\ j > Len(s)
  BY <1>3, <1>4, <1>8 DEF IsInjective
<1> QED
  BY <1>4, <1>5, <1>6, <1>7, <1>8

\* The cardinality of the domain of a sequence.
LEMMA NaturalsUpTo ==
  ASSUME NEW n \in Nat
  PROVE  IsFiniteSet(1 .. n) /\ Cardinality(1 .. n) = n
<1>1. IsFiniteSet(1 .. n) /\ Cardinality(1 .. n) = IF 1 > n THEN 0 ELSE n - 1 + 1
  BY FS_Interval
<1>2. (IF 1 > n THEN 0 ELSE n - 1 + 1) = n
  OBVIOUS
<1> QED
  BY <1>1, <1>2

\* Each element of a sequence has a place among the sorted ones, and no two the same.
LEMMA PlacesAreDistinct ==
  ASSUME NEW s \in Seq(Nat)
  PROVE  /\ \A n \in DOMAIN s : Place(s, n) \in 1 .. Len(s)
         /\ \A m, n \in DOMAIN s : s[m] < s[n] \/ (s[m] = s[n] /\ m < n) => Place(s, m) < Place(s, n)
<1> DEFINE Before(n) == {k \in DOMAIN s : s[k] < s[n] \/ (s[k] = s[n] /\ k <= n)}
           D == 1 .. Len(s)
<1>1. DOMAIN s = D /\ Len(s) \in Nat /\ \A k \in D : s[k] \in Nat
  OBVIOUS
<1>2. \A n \in D : Before(n) \subseteq D /\ n \in Before(n)
  BY <1>1
<1>3. ASSUME NEW m \in D, NEW n \in D, s[m] < s[n] \/ (s[m] = s[n] /\ m < n)
      PROVE  Before(m) \subseteq Before(n) /\ n \notin Before(m)
  BY <1>1, <1>3
<1>4. \A n \in DOMAIN s : Place(s, n) = Cardinality(Before(n))
  BY DEF Place
<1> HIDE DEF Before
<1>5. IsFiniteSet(D) /\ Cardinality(D) = Len(s)
  BY <1>1, NaturalsUpTo
<1> HIDE DEF D
<1>6. ASSUME NEW n \in D
      PROVE  /\ IsFiniteSet(Before(n))
             /\ Cardinality(Before(n)) \in Nat /\ Cardinality(Before(n)) <= Len(s)
             /\ Cardinality(Before(n)) # 0
  BY <1>2, <1>5, FS_Subset, FS_CardinalityType, FS_EmptySet
<1>7. ASSUME NEW m \in D, NEW n \in D, s[m] < s[n] \/ (s[m] = s[n] /\ m < n)
      PROVE  Cardinality(Before(m)) < Cardinality(Before(n))
  <2>1. Before(m) \subseteq Before(n) /\ Before(m) # Before(n)
    BY <1>2, <1>3, <1>7
  <2>2. Cardinality(Before(m)) <= Cardinality(Before(n)) /\ Cardinality(Before(m)) # Cardinality(Before(n))
    BY <1>6, <2>1, FS_Subset
  <2>3. Cardinality(Before(m)) \in Nat /\ Cardinality(Before(n)) \in Nat
    BY <1>6
  <2> QED
    BY <2>2, <2>3
<1>8. \A n \in DOMAIN s : Place(s, n) \in 1 .. Len(s)
  BY <1>1, <1>4, <1>6
<1> QED
  BY <1>1, <1>4, <1>7, <1>8

\* Every place is some element's.
LEMMA PlacesAreTaken ==
  ASSUME NEW s \in Seq(Nat), NEW p \in DOMAIN s
  PROVE  \E n \in DOMAIN s : Place(s, n) = p
<1> DEFINE D == 1 .. Len(s)
           f == [n \in D |-> Place(s, n)]
<1>1. DOMAIN s = D /\ Len(s) \in Nat /\ IsFiniteSet(D)
  BY FS_Interval
<1>2. f \in [D -> D]
  BY <1>1, PlacesAreDistinct
<1>3. ASSUME NEW m \in D, NEW n \in D, f[m] = f[n] PROVE m = n
  <2>1. s[m] \in Nat /\ s[n] \in Nat
    OBVIOUS
  <2>2. ~(Place(s, m) < Place(s, n)) /\ ~(Place(s, n) < Place(s, m))
    BY <1>1, <1>3, PlacesAreDistinct
  <2>3. ~(s[m] < s[n] \/ (s[m] = s[n] /\ m < n)) /\ ~(s[n] < s[m] \/ (s[n] = s[m] /\ n < m))
    BY <1>1, <2>2, PlacesAreDistinct
  <2> QED
    BY <2>1, <2>3
<1>4. f \in Injection(D, D)
  BY <1>2, <1>3 DEF Injection, IsInjective
<1>5. f \in Surjection(D, D)
  BY <1>1, <1>4, FS_Injection
<1>6. \E n \in D : f[n] = p
  BY <1>1, <1>5 DEF Surjection
<1> QED
  BY <1>1, <1>6

\* Sorting keeps the elements and puts them in order, each once if each was
\* there once.
LEMMA SortingSorts ==
  ASSUME NEW S \in SUBSET Nat, NEW s \in Seq(S), IsInjective(s)
  PROVE  /\ Sorted(s) \in Seq(S) /\ ToSet(Sorted(s)) = ToSet(s)
         /\ IsInjective(Sorted(s)) /\ InOrder(Sorted(s))
<1> DEFINE from == [p \in DOMAIN s |-> CHOOSE n \in DOMAIN s : Place(s, n) = p]
           t == [p \in 1 .. Len(s) |-> s[from[p]]]
<1>1. s \in Seq(Nat) /\ DOMAIN s = 1 .. Len(s) /\ Len(s) \in Nat /\ \A n \in 1 .. Len(s) : s[n] \in S
  <2>1. DOMAIN s = 1 .. Len(s) /\ Len(s) \in Nat /\ \A n \in 1 .. Len(s) : s[n] \in S
    OBVIOUS
  <2>2. s = [n \in 1 .. Len(s) |-> s[n]]
    OBVIOUS
  <2>3. s \in [1 .. Len(s) -> Nat]
    BY <2>1, <2>2
  <2> QED
    BY <2>1, <2>3
<1>2. \A p \in DOMAIN s : from[p] \in DOMAIN s /\ Place(s, from[p]) = p
  BY <1>1, PlacesAreTaken
<1>3. Sorted(s) = t
  BY <1>1 DEF Sorted
<1> HIDE DEF from
<1>4. t \in Seq(S) /\ Len(t) = Len(s) /\ DOMAIN t = DOMAIN s
  BY <1>1, <1>2
<1>5. \A n \in DOMAIN s : from[Place(s, n)] = n
  <2> SUFFICES ASSUME NEW n \in DOMAIN s PROVE from[Place(s, n)] = n
    OBVIOUS
  <2> DEFINE k == from[Place(s, n)]
  <2>1. k \in DOMAIN s /\ Place(s, k) = Place(s, n) /\ Place(s, n) \in 1 .. Len(s)
    BY <1>1, <1>2, PlacesAreDistinct
  <2>2. s[k] \in Nat /\ s[n] \in Nat
    BY <1>1, <2>1
  <2>3. ~(Place(s, k) < Place(s, n)) /\ ~(Place(s, n) < Place(s, k))
    BY <2>1
  <2>4. ~(s[k] < s[n] \/ (s[k] = s[n] /\ k < n)) /\ ~(s[n] < s[k] \/ (s[n] = s[k] /\ n < k))
    BY <1>1, <2>1, <2>3, PlacesAreDistinct
  <2> QED
    BY <1>1, <2>1, <2>2, <2>4
<1>6. ToSet(t) = ToSet(s)
  <2>1. \A p \in DOMAIN t : t[p] \in ToSet(s)
    BY <1>1, <1>2, <1>4 DEF ToSet
  <2>2. \A n \in DOMAIN s : s[n] = t[Place(s, n)] /\ Place(s, n) \in DOMAIN t
    BY <1>1, <1>4, <1>5, PlacesAreDistinct
  <2> HIDE DEF t
  <2>3. ASSUME NEW n \in DOMAIN s PROVE s[n] \in ToSet(t)
    BY <2>2 DEF ToSet
  <2>4. \A x \in ToSet(t) : x \in ToSet(s)
    BY <2>1 DEF ToSet
  <2> QED
    BY <2>3, <2>4 DEF ToSet
<1>7. \A p, q \in 1 .. Len(s) : p < q => t[p] < t[q]
  <2> SUFFICES ASSUME NEW p \in 1 .. Len(s), NEW q \in 1 .. Len(s), p < q PROVE s[from[p]] < s[from[q]]
    BY DEF t
  <2>1. /\ from[p] \in DOMAIN s /\ Place(s, from[p]) = p
        /\ from[q] \in DOMAIN s /\ Place(s, from[q]) = q
    BY <1>1, <1>2
  <2>2. from[p] # from[q] /\ s[from[p]] # s[from[q]]
    BY <2>1 DEF IsInjective
  <2>3. s[from[q]] < s[from[p]] => Place(s, from[q]) < Place(s, from[p])
    BY <1>1, <2>1, PlacesAreDistinct
  <2>4. s[from[p]] \in Nat /\ s[from[q]] \in Nat
    BY <1>1, <2>1
  <2> QED
    BY <2>1, <2>2, <2>3, <2>4
<1>8. \A p \in 1 .. Len(s) : t[p] \in Nat
  BY <1>1, <1>2
<1> HIDE DEF t
<1>9. IsInjective(t)
  <2> SUFFICES ASSUME NEW p \in 1 .. Len(s), NEW q \in 1 .. Len(s), t[p] = t[q] PROVE p = q
    BY <1>1, <1>4 DEF IsInjective
  <2>1. ~(p < q) /\ ~(q < p)
    BY <1>7, <1>8
  <2> QED
    BY <2>1
<1>10. InOrder(t)
  BY <1>4, <1>7 DEF InOrder, IsSorted
<1> QED
  BY <1>3, <1>4, <1>6, <1>9, <1>10

-----------------------------------------------------------------------------
(* The map.                                                                 *)

\* Every orderId has a bucket.
LEMMA HasBucket == ASSUME NEW id \in OrderIds PROVE id % Buckets \in 0 .. Buckets - 1
  BY ListingAssumption

\* The map holds what its buckets hold.
LEMMA MapIsItsBuckets ==
  ASSUME SequencesOfIds
  PROVE  /\ InMap \subseteq OrderIds
         /\ \A b \in 0 .. Buckets - 1 : ToSet(buckets[b]) \subseteq InMap
         /\ \A id \in InMap : \E b \in 0 .. Buckets - 1 : id \in ToSet(buckets[b])
<1>1. DOMAIN buckets = 0 .. Buckets - 1
  BY DEF SequencesOfIds
<1>2. \A b \in 0 .. Buckets - 1 : ToSet(buckets[b]) \subseteq OrderIds
  BY DEF SequencesOfIds, ToSet
<1> QED
  BY <1>1, <1>2 DEF InMap

\* An entry is looked for in its own bucket.
LEMMA FoundInItsBucket ==
  ASSUME SequencesOfIds, EachInItsBucket, NEW id \in InMap
  PROVE  id \in ToSet(buckets[id % Buckets])
  BY MapIsItsBuckets DEF EachInItsBucket

\* A new entry goes to the end of its bucket.
LEMMA RecordAdds ==
  ASSUME SequencesOfIds, EachInItsBucket, NEW id \in OrderIds, Record(id)
  PROVE  SequencesOfIds' /\ EachInItsBucket' /\ InMap' = InMap \union {id} /\ id \notin InMap
<1> DEFINE h == id % Buckets
<1>1. h \in 0 .. Buckets - 1
  BY HasBucket
<1>2. /\ buckets \in [0 .. Buckets - 1 -> Seq(OrderIds)]
      /\ buckets' = [buckets EXCEPT ![h] = Append(buckets[h], id)]
      /\ id \notin InMap /\ UNCHANGED <<seen, answer>>
  BY DEF SequencesOfIds, Record, PutIfAbsent
<1> HIDE DEF h
<1>3. \A b \in 0 .. Buckets - 1 : buckets'[b] = IF b = h THEN Append(buckets[h], id) ELSE buckets[b]
  BY <1>1, <1>2
<1> DEFINE t == buckets[h]
           one == <<id>>
<1>4. t \in Seq(OrderIds) /\ one \in Seq(OrderIds) /\ ToSet(one) = {id} /\ IsInjective(one)
  BY <1>1, <1>2 DEF ToSet, IsInjective
<1>5. IsInjective(t) /\ (\A x \in ToSet(t) : x \in InMap) /\ buckets'[h] = Append(t, id)
  BY <1>1, <1>3, MapIsItsBuckets DEF EachInItsBucket
<1> HIDE DEF t
<1>6. Append(t, id) = t \o one
  BY <1>4
<1> HIDE DEF one
<1>7. t \o one \in Seq(OrderIds) /\ ToSet(t \o one) = ToSet(t) \union ToSet(one)
  BY <1>4, ConcatElements
<1>8. IsInjective(t \o one)
  <2>1. \A x \in ToSet(t) : x \notin ToSet(one)
    BY <1>2, <1>4, <1>5
  <2> QED
    BY <1>4, <1>5, <2>1, ConcatInjective
<1>9. buckets' \in [0 .. Buckets - 1 -> Seq(OrderIds)]
  BY <1>1, <1>2, <1>3, <1>5, <1>6, <1>7
<1>10. SequencesOfIds' /\ ToSet(buckets'[h]) = ToSet(buckets[h]) \union {id} /\ IsInjective(buckets'[h])
  BY <1>2, <1>4, <1>5, <1>6, <1>7, <1>8, <1>9 DEF SequencesOfIds, t
<1>11. EachInItsBucket'
  <2> SUFFICES ASSUME NEW b \in 0 .. Buckets - 1
               PROVE  IsInjective(buckets'[b]) /\ \A x \in ToSet(buckets'[b]) : x % Buckets = b
    BY DEF EachInItsBucket
  <2>1. CASE b = h
    BY <1>1, <1>10, <2>1 DEF EachInItsBucket, h
  <2>2. CASE b # h
    BY <1>3, <2>2 DEF EachInItsBucket
  <2> QED
    BY <2>1, <2>2
<1>12. InMap' = InMap \union {id}
  <2>1. ASSUME NEW b \in 0 .. Buckets - 1
        PROVE  ToSet(buckets'[b]) \subseteq ToSet(buckets[b]) \union {id} /\ ToSet(buckets[b]) \subseteq ToSet(buckets'[b])
    BY <1>3, <1>10
  <2>2. DOMAIN buckets = 0 .. Buckets - 1 /\ DOMAIN buckets' = 0 .. Buckets - 1
    BY <1>2, <1>9
  <2>3. id \in ToSet(buckets'[h])
    BY <1>10
  <2> QED
    BY <1>1, <2>1, <2>2, <2>3 DEF InMap
<1> QED
  BY <1>2, <1>10, <1>11, <1>12

\* NoId is not recorded.
LEMMA NoIdIsNone == ASSUME SequencesOfIds PROVE NoId \notin InMap
  BY MapIsItsBuckets, ListingAssumption

-----------------------------------------------------------------------------
(* The inductive invariant, one lemma for each action that can disturb it.  *)

\* It holds at first.
LEMMA ListingInit == Init => ListingInv
<1> SUFFICES ASSUME Init PROVE ListingInv
  OBVIOUS
<1>1. Buckets \in Nat /\ Buckets > 0 /\ ToSet(<<>>) = {} /\ <<>> \in Seq(OrderIds) /\ IsInjective(<<>>)
  BY ListingAssumption DEF ToSet, IsInjective
<1>2. DOMAIN buckets = 0 .. Buckets - 1 /\ \A b \in 0 .. Buckets - 1 : buckets[b] = <<>>
  BY DEF Init
<1>3. SequencesOfIds
  BY <1>1 DEF Init, SequencesOfIds
<1>4. EachInItsBucket
  BY <1>1, <1>2 DEF EachInItsBucket
<1>5. InMap = {} /\ Recorded = {}
  BY <1>1, <1>2, <1>3, MapIsItsBuckets DEF Recorded
<1>6. SizeIsOfRecorded
  BY <1>5, FS_EmptySet DEF Init, SizeIsOfRecorded
<1>7. TypeOK
  BY <1>1, <1>2 DEF Init, TypeOK, Places
<1>8. WalkIsInOrder /\ BegunIsRecorded
  BY <1>1 DEF Init, WalkIsInOrder, BegunIsRecorded
<1>9. IteratorFinds /\ AnswerIsOfTheMap /\ AnswerStands
  BY DEF Init, IteratorFinds, AnswerIsOfTheMap, AnswerStands, Answered
<1> QED
  BY <1>3, <1>4, <1>6, <1>7, <1>8, <1>9 DEF ListingInv

\* The listener adds to the map while the call goes on.
LEMMA RecordStep == ASSUME ListingInv, NEW id \in OrderIds, Record(id) PROVE ListingInv'
<1> USE DEF ListingInv
<1>1. SequencesOfIds' /\ EachInItsBucket' /\ InMap' = InMap \union {id} /\ id \notin InMap
  BY RecordAdds
<1>2. adding = NoId /\ adding' = id /\ UNCHANGED <<size, callVars>>
  BY DEF Record, PutIfAbsent
<1>3. Recorded' = Recorded /\ Recorded \subseteq InMap
  BY <1>1, <1>2, NoIdIsNone DEF Recorded
<1>4. SizeIsOfRecorded'
  BY <1>1, <1>2, <1>3, FS_AddElement DEF SizeIsOfRecorded
<1>5. TypeOK'
  <2>1. DOMAIN buckets' = 0 .. Buckets - 1 /\ \A b \in 0 .. Buckets - 1 : ToSet(buckets'[b]) \subseteq OrderIds
    BY <1>1 DEF SequencesOfIds, ToSet
  <2> QED
    BY <1>2, <2>1 DEF TypeOK
<1>6. WalkIsInOrder' /\ BegunIsRecorded'
  BY <1>1, <1>2, <1>3 DEF WalkIsInOrder, Answered, BegunIsRecorded
<1>7. IteratorFinds'
  <2> SUFFICES ASSUME at = "first" PROVE \E b \in bucket .. Buckets - 1 : buckets'[b] # <<>>
    BY <1>2 DEF IteratorFinds
  <2>1. PICK b \in bucket .. Buckets - 1 : buckets[b] # <<>>
    BY DEF IteratorFinds
  <2>2. b \in 0 .. Buckets - 1 /\ buckets[b] \in Seq(OrderIds)
    BY ListingAssumption DEF TypeOK, SequencesOfIds
  <2>3. buckets'[b] = buckets[b] \/ buckets'[b] = Append(buckets[b], id)
    BY <2>2 DEF Record, SequencesOfIds
  <2>4. buckets'[b] # <<>>
    BY <2>1, <2>2, <2>3
  <2> QED
    BY <2>4
<1>8. AnswerIsOfTheMap' /\ AnswerStands'
  BY <1>1, <1>2 DEF AnswerIsOfTheMap, AnswerStands, Answered, IsInjective, ToSet
<1> QED
  BY <1>1, <1>4, <1>5, <1>6, <1>7, <1>8

\* The new entry is counted.
LEMMA CountStep == ASSUME ListingInv, Count PROVE ListingInv'
<1> USE DEF ListingInv
<1>1. /\ adding \in InMap /\ adding' = NoId /\ size' = size + 1 /\ UNCHANGED <<buckets, callVars>>
  BY DEF Count, SizeIsOfRecorded
<1>2. InMap' = InMap /\ Recorded' = Recorded \union {adding} /\ adding \notin Recorded
  BY <1>1, NoIdIsNone DEF InMap, Recorded
<1>3. IsFiniteSet(Recorded)
  BY FS_Subset DEF SizeIsOfRecorded, Recorded
<1>4. SizeIsOfRecorded'
  BY <1>1, <1>2, <1>3, FS_AddElement DEF SizeIsOfRecorded
<1>5. TypeOK' /\ SequencesOfIds' /\ EachInItsBucket'
  BY <1>1 DEF TypeOK, SequencesOfIds, EachInItsBucket, IsInjective, ToSet
<1>6. WalkIsInOrder' /\ BegunIsRecorded' /\ IteratorFinds'
  BY <1>1, <1>2 DEF WalkIsInOrder, Answered, BegunIsRecorded, IteratorFinds
<1>7. AnswerIsOfTheMap' /\ AnswerStands'
  BY <1>1, <1>2 DEF AnswerIsOfTheMap, AnswerStands, Answered, IsInjective, ToSet
<1> QED
  BY <1>4, <1>5, <1>6, <1>7

\* The call only reads.
LEMMA CallReads ==
  ASSUME ListingInv, UNCHANGED mapVars
  PROVE  /\ InMap' = InMap /\ Recorded' = Recorded /\ EachInItsBucket' /\ SizeIsOfRecorded'
         /\ buckets' \in [0 .. Buckets - 1 -> Seq(OrderIds)]
  BY DEF ListingInv, InMap, Recorded, EachInItsBucket, SizeIsOfRecorded, SequencesOfIds

\* A call begins.
LEMMA GetAllStep == ASSUME ListingInv, GetAll PROVE ListingInv'
<1> USE DEF ListingInv
<1>1. /\ at' = "size" /\ begun' = Recorded /\ bucket' = 0 /\ seen' = <<>> /\ answer' = <<>>
      /\ UNCHANGED mapVars
  BY DEF GetAll
<1>2. InMap' = InMap /\ Recorded' = Recorded /\ EachInItsBucket' /\ SizeIsOfRecorded' /\ SequencesOfIds'
  BY <1>1, CallReads DEF SequencesOfIds
<1>3. ToSet(<<>>) = {} /\ IsInjective(<<>>) /\ Buckets \in Nat /\ Recorded \subseteq OrderIds
  BY ListingAssumption, MapIsItsBuckets DEF ToSet, IsInjective, Recorded
<1>4. TypeOK'
  BY <1>1, <1>3 DEF TypeOK, Places
<1>5. WalkIsInOrder' /\ BegunIsRecorded'
  BY <1>1, <1>2, <1>3 DEF WalkIsInOrder, Answered, BegunIsRecorded
<1>6. IteratorFinds' /\ AnswerIsOfTheMap' /\ AnswerStands'
  BY <1>1 DEF IteratorFinds, AnswerIsOfTheMap, AnswerStands, Answered
<1> QED
  BY <1>2, <1>4, <1>5, <1>6

\* How many there are, of those the call has to list.
LEMMA BegunIsCounted ==
  ASSUME ListingInv
  PROVE  /\ IsFiniteSet(begun) /\ Cardinality(begun) \in Nat /\ Cardinality(begun) <= size
         /\ size = 0 => InMap \subseteq {adding}
<1>1. IsFiniteSet(InMap) /\ Recorded \subseteq InMap /\ begun \subseteq Recorded /\ size = Cardinality(Recorded)
  BY DEF ListingInv, SizeIsOfRecorded, BegunIsRecorded, Recorded
<1>2. IsFiniteSet(Recorded)
  BY <1>1, FS_Subset
<1>3. IsFiniteSet(begun) /\ Cardinality(begun) <= Cardinality(Recorded)
  BY <1>1, <1>2, FS_Subset
<1>4. Cardinality(begun) \in Nat
  BY <1>3, FS_CardinalityType
<1>5. size = 0 => Recorded = {}
  BY <1>1, <1>2, FS_EmptySet
<1> QED
  BY <1>1, <1>3, <1>4, <1>5 DEF Recorded

\* sortedWith() looks whether there is something to sort.
LEMMA SizeStep == ASSUME ListingInv, Size PROVE ListingInv'
<1> USE DEF ListingInv
<1>1. /\ at = "size" /\ at' \in {"sizeAgain", "sort"} /\ (at' = "sizeAgain" => size <= 1)
      /\ UNCHANGED <<mapVars, bucket, seen, answer, begun>>
  BY DEF Size, NothingToSort
<1>2. InMap' = InMap /\ Recorded' = Recorded /\ EachInItsBucket' /\ SizeIsOfRecorded' /\ SequencesOfIds'
  BY <1>1, CallReads DEF SequencesOfIds
<1>3. TypeOK'
  BY <1>1 DEF TypeOK, Places
<1>4. bucket = 0 /\ begun \subseteq Recorded /\ Recorded \subseteq OrderIds
  BY <1>1, MapIsItsBuckets DEF WalkIsInOrder, Answered, BegunIsRecorded, Recorded
<1>5. \A id \in begun : id % Buckets >= bucket
  BY <1>4, HasBucket
<1>6. \A id \in begun : id % Buckets \in 0 .. Buckets - 1
  BY <1>4, HasBucket
<1>7. \A id \in begun : ~(id % Buckets < bucket)
  BY <1>4, <1>6
<1>8. WalkIsInOrder'
  BY <1>1, <1>2, <1>7 DEF WalkIsInOrder, Answered
<1>9. at' = "sizeAgain" => Cardinality(begun) <= 1
  BY <1>1, BegunIsCounted DEF TypeOK
<1>10. BegunIsRecorded'
  BY <1>1, <1>2, <1>9 DEF BegunIsRecorded
<1>11. IteratorFinds' /\ AnswerIsOfTheMap' /\ AnswerStands'
  BY <1>1 DEF IteratorFinds, AnswerIsOfTheMap, AnswerStands, Answered
<1> QED
  BY <1>2, <1>3, <1>8, <1>10, <1>11

\* toList() looks again, and may see more than sortedWith() did.
LEMMA SizeAgainStep == ASSUME ListingInv, SizeAgain PROVE ListingInv'
<1> USE DEF ListingInv
<1>1. /\ at = "sizeAgain" /\ at' \in {"answered", "first", "copy"}
      /\ (at' = "answered" => size = 0) /\ (at' = "first" => size = 1)
      /\ UNCHANGED <<mapVars, bucket, seen, answer, begun>>
  BY DEF SizeAgain, Empty
<1>2. InMap' = InMap /\ Recorded' = Recorded /\ EachInItsBucket' /\ SizeIsOfRecorded' /\ SequencesOfIds'
  BY <1>1, CallReads DEF SequencesOfIds
<1>3. bucket = 0 /\ begun \subseteq Recorded /\ Recorded \subseteq OrderIds /\ Cardinality(begun) <= 1
  BY <1>1, MapIsItsBuckets DEF WalkIsInOrder, Answered, BegunIsRecorded, Recorded
<1>4. TypeOK'
  BY <1>1, <1>3, ListingAssumption DEF TypeOK, Places
<1>5. \A id \in begun : id % Buckets \in 0 .. Buckets - 1
  BY <1>3, HasBucket
<1>6. WalkIsInOrder'
  BY <1>1, <1>2, <1>3, <1>5 DEF WalkIsInOrder, Answered
<1>7. BegunIsRecorded'
  BY <1>1, <1>2, <1>3 DEF BegunIsRecorded
<1>8. IteratorFinds'
  <2> SUFFICES ASSUME size = 1 PROVE \E b \in 0 .. Buckets - 1 : buckets[b] # <<>>
    BY <1>1, <1>3 DEF IteratorFinds
  <2>1. Recorded # {}
    <3>1. IsFiniteSet(Recorded)
      BY FS_Subset DEF SizeIsOfRecorded, Recorded
    <3>2. Cardinality(Recorded) # 0
      BY DEF SizeIsOfRecorded
    <3> QED
      BY <3>1, <3>2, FS_EmptySet
  <2>2. PICK id \in InMap : TRUE
    BY <2>1 DEF Recorded
  <2>3. PICK b \in 0 .. Buckets - 1 : id \in ToSet(buckets[b])
    BY MapIsItsBuckets
  <2>4. buckets[b] # <<>>
    BY <2>3 DEF ToSet
  <2> QED
    BY <2>4
<1>9. at' = "answered" => begun = {}
  BY <1>1, BegunIsCounted, FS_EmptySet
<1>10. answer = <<>> /\ ToSet(<<>>) = {} /\ IsInjective(<<>>)
  BY <1>1 DEF WalkIsInOrder, Answered, ToSet, IsInjective
<1>11. AnswerIsOfTheMap'
  BY <1>1, <1>10 DEF AnswerIsOfTheMap, Answered
<1>12. at' = "answered" => begun' \subseteq ToSet(answer') /\ ~(Cardinality(begun') >= 2)
  BY <1>1, <1>3, <1>9, BegunIsCounted
<1>13. AnswerStands'
  BY <1>12 DEF AnswerStands, Answered
<1> QED
  BY <1>2, <1>4, <1>6, <1>7, <1>8, <1>11, <1>13

\* The iterator of toList() passes an empty bucket, or answers with one entry.
LEMMA FirstStep == ASSUME ListingInv, First PROVE ListingInv'
<1> USE DEF ListingInv
<1>1. at = "first" /\ UNCHANGED <<mapVars, seen, begun>>
  BY DEF First
<1>2. InMap' = InMap /\ Recorded' = Recorded /\ EachInItsBucket' /\ SizeIsOfRecorded'
  BY <1>1, CallReads
<1>3. bucket \in 0 .. Buckets - 1 /\ buckets[bucket] \in Seq(OrderIds)
  BY <1>1, ListingAssumption DEF TypeOK, SequencesOfIds
<1>4. seen = <<>> /\ ToSet(<<>>) = {} /\ IsInjective(<<>>) /\ Cardinality(begun) <= 1
  BY <1>1 DEF WalkIsInOrder, BegunIsRecorded, ToSet, IsInjective
<1>5. PICK c \in bucket .. Buckets - 1 : buckets[c] # <<>>
  BY <1>1 DEF IteratorFinds
<1>6. CASE buckets[bucket] # <<>>
  <2> DEFINE x == Head(buckets[bucket])
  <2>1. at' = "answered" /\ answer' = <<x>> /\ bucket' = bucket
    BY <1>6 DEF First
  <2>2. x \in ToSet(buckets[bucket])
    BY <1>3, <1>6 DEF ToSet
  <2>3. x \in InMap /\ x \in OrderIds
    BY <1>3, <2>2, MapIsItsBuckets
  <2> HIDE DEF x
  <2>4. <<x>> \in Seq(OrderIds) /\ ToSet(<<x>>) = {x} /\ IsInjective(<<x>>) /\ Len(<<x>>) = 1
    BY <2>3 DEF ToSet, IsInjective
  <2>5. TypeOK' /\ SequencesOfIds'
    BY <1>1, <2>1, <2>3, <2>4 DEF TypeOK, Places, SequencesOfIds
  <2>6. WalkIsInOrder' /\ BegunIsRecorded' /\ IteratorFinds'
    BY <1>1, <1>2, <2>1 DEF WalkIsInOrder, Answered, BegunIsRecorded, IteratorFinds
  <2>7. AnswerIsOfTheMap'
    BY <1>2, <2>1, <2>3, <2>4 DEF AnswerIsOfTheMap
  <2>8. IsFiniteSet(begun) /\ Cardinality(begun) \in Nat
    BY BegunIsCounted
  <2>9. Cardinality(begun) = 0 => begun = {}
    BY <2>8, FS_EmptySet
  <2>10. Cardinality(begun) = 0 \/ Cardinality(begun) = 1
    BY <1>4, <2>8
  <2>11. Cardinality(begun) = 0 => begun \subseteq ToSet(answer') /\ ~(Cardinality(begun) >= 2)
    BY <2>8, <2>9
  <2>12. begun' = begun /\ Len(answer') = 1
    BY <1>1, <2>1, <2>4
  <2>13. AnswerStands'
    BY <2>10, <2>11, <2>12 DEF AnswerStands
  <2> QED
    BY <1>2, <2>5, <2>6, <2>7, <2>13
<1>7. CASE buckets[bucket] = <<>>
  <2>1. bucket' = bucket + 1 /\ UNCHANGED <<at, answer>>
    BY <1>7 DEF First
  <2>2. c \in bucket + 1 .. Buckets - 1
    BY <1>3, <1>5, <1>7
  <2>3. bucket + 1 < Buckets /\ bucket + 1 \in 0 .. Buckets
    BY <1>3, <2>2, ListingAssumption
  <2>4. TypeOK' /\ SequencesOfIds'
    BY <1>1, <2>1, <2>3 DEF TypeOK, SequencesOfIds
  <2>5. WalkIsInOrder' /\ BegunIsRecorded'
    BY <1>1, <1>2, <1>4, <2>1 DEF WalkIsInOrder, Answered, BegunIsRecorded
  <2>6. IteratorFinds'
    BY <1>1, <1>5, <2>1, <2>2 DEF IteratorFinds
  <2>7. AnswerIsOfTheMap' /\ AnswerStands'
    BY <1>1, <2>1 DEF AnswerIsOfTheMap, AnswerStands, Answered
  <2> QED
    BY <1>2, <2>4, <2>5, <2>6, <2>7
<1> QED
  BY <1>6, <1>7

\* The walk takes the next bucket along.
LEMMA CopyStep == ASSUME ListingInv, Copy PROVE ListingInv'
<1> USE DEF ListingInv
<1>1. /\ at \in {"copy", "sort"} /\ bucket < Buckets /\ seen' = seen \o buckets[bucket]
      /\ bucket' = bucket + 1 /\ UNCHANGED <<mapVars, at, answer, begun>>
  BY DEF Copy
<1>2. InMap' = InMap /\ Recorded' = Recorded /\ EachInItsBucket' /\ SizeIsOfRecorded'
  BY <1>1, CallReads
<1> DEFINE t == buckets[bucket]
<1>3. bucket \in Nat /\ bucket \in 0 .. Buckets - 1 /\ bucket + 1 \in 0 .. Buckets
  BY <1>1, ListingAssumption DEF TypeOK
<1>4. seen \in Seq(OrderIds) /\ t \in Seq(OrderIds) /\ IsInjective(seen) /\ IsInjective(t)
  BY <1>3 DEF SequencesOfIds, WalkIsInOrder, EachInItsBucket
<1>5. \A x \in ToSet(t) : x \in InMap /\ x \in OrderIds /\ x % Buckets = bucket
  BY <1>3, MapIsItsBuckets DEF EachInItsBucket
<1>6. \A x \in ToSet(seen) : x \in InMap /\ x \in OrderIds /\ x % Buckets < bucket
  BY MapIsItsBuckets DEF WalkIsInOrder
<1>7. seen' = seen \o t
  BY <1>1
<1> HIDE DEF t
<1>8. seen' \in Seq(OrderIds) /\ ToSet(seen') = ToSet(seen) \union ToSet(t)
  BY <1>4, <1>7, ConcatElements
<1>9. \A x \in ToSet(seen) : x \notin ToSet(t)
  BY <1>3, <1>5, <1>6
<1>10. IsInjective(seen')
  BY <1>4, <1>7, <1>9, ConcatInjective
<1>11. TypeOK' /\ SequencesOfIds'
  BY <1>1, <1>3, <1>5, <1>6, <1>8 DEF TypeOK, SequencesOfIds
<1>12. \A id \in InMap : id % Buckets \in 0 .. Buckets - 1
  BY HasBucket, MapIsItsBuckets
<1>13. ASSUME NEW id \in begun, id % Buckets < bucket + 1 PROVE id \in ToSet(seen')
  <2>1. id \in InMap
    BY DEF BegunIsRecorded, Recorded
  <2>2. CASE id % Buckets < bucket
    BY <1>1, <1>8, <2>2 DEF WalkIsInOrder
  <2>3. CASE ~(id % Buckets < bucket)
    <3>1. id % Buckets = bucket
      BY <1>3, <1>12, <1>13, <2>1, <2>3
    <3>2. id \in ToSet(t)
      BY <2>1, <3>1, FoundInItsBucket DEF t
    <3> QED
      BY <1>8, <3>2
  <2> QED
    BY <2>2, <2>3
<1>14. \A x \in ToSet(seen') : x \in InMap /\ x % Buckets < bucket + 1
  BY <1>3, <1>5, <1>6, <1>8, <1>12
<1>15. WalkIsInOrder'
  BY <1>1, <1>2, <1>10, <1>13, <1>14 DEF WalkIsInOrder, Answered
<1>16. BegunIsRecorded' /\ IteratorFinds' /\ AnswerIsOfTheMap' /\ AnswerStands'
  BY <1>1, <1>2 DEF BegunIsRecorded, IteratorFinds, AnswerIsOfTheMap, AnswerStands, Answered
<1> QED
  BY <1>2, <1>11, <1>15, <1>16

\* The copy is sorted, unless toList() made it, and is the answer.
LEMMA AnswerStep == ASSUME ListingInv, Answer PROVE ListingInv'
<1> USE DEF ListingInv
<1>1. /\ at \in {"copy", "sort"} /\ bucket = Buckets /\ answer' = SortedByOrderId /\ at' = "answered"
      /\ UNCHANGED <<mapVars, bucket, seen, begun>>
  BY DEF Answer
<1>2. InMap' = InMap /\ Recorded' = Recorded /\ EachInItsBucket' /\ SizeIsOfRecorded'
  BY <1>1, CallReads
<1>3. seen \in Seq(OrderIds) /\ IsInjective(seen) /\ ToSet(seen) \subseteq InMap /\ InMap \subseteq OrderIds
  BY MapIsItsBuckets DEF SequencesOfIds, WalkIsInOrder
<1>4. /\ answer' \in Seq(OrderIds) /\ ToSet(answer') = ToSet(seen) /\ IsInjective(answer')
      /\ at = "sort" => InOrder(answer')
  <2>1. CASE at = "sort"
    <3>1. answer' = Sorted(seen)
      BY <1>1, <2>1 DEF SortedByOrderId
    <3> QED
      BY <1>3, <3>1, SortingSorts, ListingAssumption
  <2>2. CASE at = "copy"
    BY <1>1, <1>3, <2>2 DEF SortedByOrderId
  <2> QED
    BY <1>1, <2>1, <2>2
<1>5. TypeOK' /\ SequencesOfIds'
  BY <1>1, <1>3, <1>4 DEF TypeOK, Places, SequencesOfIds
<1>6. WalkIsInOrder' /\ BegunIsRecorded' /\ IteratorFinds'
  BY <1>1, <1>2 DEF WalkIsInOrder, Answered, BegunIsRecorded, IteratorFinds
<1>7. AnswerIsOfTheMap'
  BY <1>2, <1>3, <1>4 DEF AnswerIsOfTheMap
<1>8. \A id \in begun : id % Buckets \in 0 .. Buckets - 1
  BY <1>3, HasBucket DEF BegunIsRecorded, Recorded
<1>9. begun \subseteq ToSet(answer')
  BY <1>1, <1>4, <1>8, ListingAssumption DEF WalkIsInOrder
<1>10. at = "copy" => Cardinality(begun) <= 1 /\ Cardinality(begun) \in Nat
  BY BegunIsCounted DEF BegunIsRecorded
<1>11. Cardinality(begun) >= 2 => at = "sort"
  BY <1>1, <1>10
<1>12. AnswerStands'
  BY <1>1, <1>4, <1>9, <1>11 DEF AnswerStands
<1> QED
  BY <1>2, <1>5, <1>6, <1>7, <1>12

\* Every step keeps it.
LEMMA ListingStep == ListingInv /\ [Next]_vars => ListingInv'
<1> SUFFICES ASSUME ListingInv, [Next]_vars PROVE ListingInv'
  OBVIOUS
<1>1. ASSUME UNCHANGED vars PROVE ListingInv'
  <2>1. EachInItsBucket' /\ SizeIsOfRecorded' /\ InMap' = InMap /\ Recorded' = Recorded
    BY <1>1, CallReads
  <2>2. TypeOK' /\ SequencesOfIds' /\ WalkIsInOrder' /\ BegunIsRecorded' /\ IteratorFinds'
    BY <1>1, <2>1 DEF ListingInv, TypeOK, SequencesOfIds, WalkIsInOrder, Answered, BegunIsRecorded,
       IteratorFinds
  <2>3. AnswerIsOfTheMap' /\ AnswerStands'
    BY <1>1, <2>1 DEF ListingInv, AnswerIsOfTheMap, AnswerStands, Answered
  <2> QED
    BY <2>1, <2>2, <2>3 DEF ListingInv
<1> QED
  BY <1>1, RecordStep, CountStep, GetAllStep, SizeStep, SizeAgainStep, FirstStep, CopyStep, AnswerStep
     DEF Next

-----------------------------------------------------------------------------
(* The theorems.                                                            *)

\* In every behaviour of the listing, for any orderIds and any table, the
\* inductive invariant holds.
THEOREM ListingInductive == Spec => []ListingInv
  BY ListingInit, ListingStep, PTL DEF Spec

\* The variables have their types, and the iterator of toList() finds an entry
\* before the end of the table.
THEOREM TypeCorrect == Spec => []TypeOK
<1>1. ListingInv => TypeOK
  BY DEF ListingInv
<1> QED
  BY <1>1, ListingInductive, PTL

\* An answer lists no notification twice and none that is not recorded.
THEOREM AnswersAreOfTheMap == Spec => []AnswerIsOfTheMap
<1>1. ListingInv => AnswerIsOfTheMap
  BY DEF ListingInv
<1> QED
  BY <1>1, ListingInductive, PTL

\* From two notifications on an answer has all that were there when the call
\* began, sorted by orderId.
THEOREM AnswersAreComplete == Spec => []CompleteFromTwo
<1>1. ListingInv => CompleteFromTwo
  BY DEF ListingInv, AnswerStands, CompleteFromTwo, InOrder, IsSorted
<1> QED
  BY <1>1, ListingInductive, PTL

\* An answer misses a notification that was there only if it was the only one,
\* and has another instead.
THEOREM AnswersMissOne == Spec => []MissesAtMostOne
<1>1. ListingInv => MissesAtMostOne
  BY DEF ListingInv, AnswerStands, MissesAtMostOne
<1> QED
  BY <1>1, ListingInductive, PTL

-----------------------------------------------------------------------------
(* What an unsorted answer takes.                                           *)

\* Where toList() comes, it finds what sortedWith() found: one entry at most.
SecondLookAgrees == at = "sizeAgain" => size <= 1

\* toList() copies nothing, and an answer is in order.
NoCopyIsMade == at # "copy" /\ (Answered => InOrder(answer))

\* One entry, or none, is in order.
LEMMA ShortIsSorted == InOrder(<<>>) /\ \A x : InOrder(<<x>>)
  BY DEF InOrder, IsSorted

\* The answer is sorted unless toList() copied it.
LEMMA NoCopyStep == ListingInv /\ NoCopyIsMade /\ SecondLookAgrees /\ [Next]_vars => NoCopyIsMade'
<1> SUFFICES ASSUME ListingInv, NoCopyIsMade, SecondLookAgrees, [Next]_vars PROVE NoCopyIsMade'
  OBVIOUS
<1> USE DEF NoCopyIsMade, Answered
<1>1. ASSUME NEW id \in OrderIds, Record(id) PROVE NoCopyIsMade'
  BY <1>1 DEF Record
<1>2. ASSUME Count \/ GetAll \/ Size \/ Copy PROVE NoCopyIsMade'
  BY <1>2 DEF Count, GetAll, Size, Copy
<1>3. ASSUME SizeAgain PROVE NoCopyIsMade'
  <2>1. at = "sizeAgain" /\ size \in {0, 1}
    BY <1>3 DEF SizeAgain, SecondLookAgrees, ListingInv, TypeOK
  <2>2. at' \in {"answered", "first"} /\ answer' = <<>>
    BY <1>3, <2>1 DEF SizeAgain, Empty, ListingInv, WalkIsInOrder
  <2> QED
    BY <2>2, ShortIsSorted
<1>4. ASSUME First PROVE NoCopyIsMade'
  BY <1>4, ShortIsSorted DEF First
<1>5. ASSUME Answer PROVE NoCopyIsMade'
  <2>1. at = "sort" /\ at' = "answered" /\ answer' = Sorted(seen)
    BY <1>5 DEF Answer, SortedByOrderId
  <2>2. InOrder(Sorted(seen))
    BY SortingSorts, ListingAssumption DEF ListingInv, SequencesOfIds, WalkIsInOrder
  <2> QED
    BY <2>1, <2>2
<1>6. ASSUME UNCHANGED vars PROVE NoCopyIsMade'
  BY <1>6
<1> QED
  BY <1>1, <1>2, <1>3, <1>4, <1>5, <1>6 DEF Next

\* An answer is out of order only by what the run of the finding does: between
\* the two looks at the size, the listener counts up to a second notification.
\* Where that never happens every answer is sorted.
THEOREM SortedUnlessRaced == Spec /\ []SecondLookAgrees => []AnswerIsSorted
<1>1. Init => NoCopyIsMade
  BY DEF Init, NoCopyIsMade, Answered
<1>2. NoCopyIsMade => AnswerIsSorted
  BY DEF NoCopyIsMade, AnswerIsSorted, InOrder, IsSorted
<1> QED
  BY <1>1, <1>2, NoCopyStep, ListingInductive, PTL DEF Spec
=============================================================================
