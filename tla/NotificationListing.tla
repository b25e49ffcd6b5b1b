-------------------------- MODULE NotificationListing --------------------------
(***************************************************************************)
(* GET /event-orders/notifications beside the listener: getAll() reads     *)
(* notifications.values.sortedBy { it.orderId } (NotificationService.kt)   *)
(* while record() adds to the same ConcurrentHashMap.                      *)
(*                                                                         *)
(* sortedBy is not one step.  It asks for the size of the collection and   *)
(* sorts a copy when that is at least two; otherwise it calls toList(),    *)
(* which asks for the size again and then gives an empty list, the first   *)
(* element, or an unsorted copy.  A copy or an iterator walks the buckets  *)
(* of the map one after the other, and the size is counted up only after   *)
(* the entry is in its bucket.  There is one listener thread, and GET      *)
(* calls only read, so one of them is enough.                              *)
(***************************************************************************)
EXTENDS Naturals, Sequences, SequencesExt

CONSTANTS OrderIds, \* the orderIds of the events that may be consumed
          Buckets,  \* the length of the map's table
          NoId

ASSUME ListingAssumption ==
  OrderIds \subseteq Nat /\ Buckets \in Nat \ {0} /\ NoId \notin OrderIds

VARIABLES buckets,  \* the orderIds in each bucket, in the order they came in
          size,     \* what size() answers
          adding,   \* the orderId that is in its bucket and not yet counted
          at,       \* where the GET call is
          bucket,   \* the next bucket of its walk
          seen,     \* the orderIds it has come across
          answer,   \* the orderIds of its answer
          begun     \* the orderIds that were recorded when it began

mapVars == <<buckets, size, adding>>
callVars == <<at, bucket, seen, answer, begun>>
vars == <<mapVars, callVars>>

Places == {"idle", "size", "sizeAgain", "first", "copy", "sort", "answered"}

InMap == UNION {ToSet(buckets[b]) : b \in DOMAIN buckets}
Recorded == InMap \ {adding}

-----------------------------------------------------------------------------
(* record()                                                                 *)

\* Variant: an entry is added whether its orderId is there or not.
PutAlways(id) == adding = NoId
PutIfAbsent(id) == adding = NoId /\ id \notin InMap

\* Variant: counted, and never put into its bucket.
RecordCountOnly(id) ==
  /\ PutIfAbsent(id)
  /\ adding' = id
  /\ UNCHANGED <<buckets, size, callVars>>
Record(id) ==
  /\ PutIfAbsent(id)
  /\ buckets' = [buckets EXCEPT ![id % Buckets] = Append(@, id)]
  /\ adding' = id
  /\ UNCHANGED <<size, callVars>>

Count ==
  /\ adding # NoId
  /\ size' = size + 1
  /\ adding' = NoId
  /\ UNCHANGED <<buckets, callVars>>

-----------------------------------------------------------------------------
(* getAll()                                                                 *)

GetAll ==
  /\ at \in {"idle", "answered"}
  /\ at' = "size"
  /\ begun' = Recorded
  /\ bucket' = 0 /\ seen' = <<>> /\ answer' = <<>>
  /\ UNCHANGED mapVars

\* sortedWith() has nothing to sort, and toList() nothing to list; variant: it
\* does not look at the one entry.
NothingToSort == size <= 1
EmptyOfOne == size <= 1
Empty == size = 0

Size ==
  /\ at = "size"
  /\ at' = IF NothingToSort THEN "sizeAgain" ELSE "sort"
  /\ UNCHANGED <<mapVars, bucket, seen, answer, begun>>

SizeAgain ==
  /\ at = "sizeAgain"
  /\ at' = IF Empty THEN "answered" ELSE IF size = 1 THEN "first" ELSE "copy"
  /\ UNCHANGED <<mapVars, bucket, seen, answer, begun>>

\* iterator().next(): the first entry of the first bucket that has one.
First ==
  /\ at = "first"
  /\ IF buckets[bucket] # <<>>
     THEN at' = "answered" /\ answer' = <<Head(buckets[bucket])>> /\ UNCHANGED bucket
     ELSE bucket' = bucket + 1 /\ UNCHANGED <<at, answer>>
  /\ UNCHANGED <<mapVars, seen, begun>>

Copy ==
  /\ at \in {"copy", "sort"}
  /\ bucket < Buckets
  /\ seen' = seen \o buckets[bucket]
  /\ bucket' = bucket + 1
  /\ UNCHANGED <<mapVars, at, answer, begun>>

\* Variant: the values as they come.
AsTheyCome == seen

\* The place of the n-th of s among all when sorted, the earlier of equals first.
Place(s, n) == Cardinality({k \in DOMAIN s : s[k] < s[n] \/ (s[k] = s[n] /\ k <= n)})
Sorted(s) == [p \in DOMAIN s |-> s[CHOOSE n \in DOMAIN s : Place(s, n) = p]]

SortedByOrderId == IF at = "sort" THEN Sorted(seen) ELSE seen

Answer ==
  /\ at \in {"copy", "sort"}
  /\ bucket = Buckets
  /\ answer' = SortedByOrderId
  /\ at' = "answered"
  /\ UNCHANGED <<mapVars, bucket, seen, begun>>

Init ==
  /\ buckets = [b \in 0 .. Buckets - 1 |-> <<>>]
  /\ size = 0
  /\ adding = NoId
  /\ at = "idle"
  /\ bucket = 0 /\ seen = <<>> /\ answer = <<>> /\ begun = {}

Next == \/ \E id \in OrderIds : Record(id)
        \/ Count
        \/ GetAll
        \/ Size
        \/ SizeAgain
        \/ First
        \/ Copy
        \/ Answer

Spec == Init /\ [][Next]_vars

-----------------------------------------------------------------------------
(* Properties                                                               *)

Answered == at = "answered"

\* The variables have their types, and the walk stays inside the table: the
\* iterator finds an entry, because the size is counted up last.
TypeOK ==
  /\ DOMAIN buckets = 0 .. Buckets - 1
  /\ \A b \in DOMAIN buckets : ToSet(buckets[b]) \subseteq OrderIds
  /\ size \in Nat
  /\ adding \in OrderIds \union {NoId}
  /\ at \in Places
  /\ bucket \in 0 .. Buckets
  /\ at = "first" => bucket < Buckets
  /\ ToSet(seen) \subseteq OrderIds /\ ToSet(answer) \subseteq OrderIds
  /\ begun \subseteq OrderIds

\* An answer lists no notification twice and none that is not recorded, also
\* when entries come in while it is put together.
AnswerIsOfTheMap == Answered => IsInjective(answer) /\ ToSet(answer) \subseteq InMap

\* Once two notifications are there an answer is complete and sorted: it has
\* all that were recorded when the call began.
CompleteFromTwo ==
  Answered /\ Cardinality(begun) >= 2 => begun \subseteq ToSet(answer) /\ IsSorted(answer, <)

\* If an answer misses what was recorded before, then that was one single
\* notification and the answer has another single one.
MissesAtMostOne ==
  Answered /\ ~(begun \subseteq ToSet(answer)) => Cardinality(begun) = 1 /\ Len(answer) = 1

\* "NotificationService sorts the notifications in the order of orderId"
\* (visual-lab-data.js:576).
AnswerIsSorted == Answered => IsSorted(answer, <)
================================================================================
