----------------------------- MODULE Posts_proofs -----------------------------
(***************************************************************************)
(* What TLAPS proves about the posts and their cache, for any numbers of   *)
(* calls, posts, users and contents.                                       *)
(***************************************************************************)
EXTENDS Posts, TLAPS

USE DEF vars, store

\* A call is only in the steps of its kind, and fills or commits only a row it
\* has read.
CallsAreInTheirStep == \A q \in Requests :
  /\ pc[q] \in {"lookup", "load", "fill"} => call[q].kind = "get"
  /\ pc[q] = "insert" => call[q].kind = "create"
  /\ pc[q] \in {"find", "commit", "evict"} => call[q].kind \in {"update", "delete"}
  /\ pc[q] \in {"fill", "commit"} => loaded[q] # NoRow

\* The table has only committed rows, and no committed row is ahead of its id.
CommitsAreOrdered ==
  /\ \A p \in PostIds : row[p] # NoRow => <<p, row[p]>> \in committed
  /\ \A c \in committed : 0 < c[2].version /\ c[2].version <= version[c[1]]

\* A call at its commit holds a row of its own user, under an id that was
\* given out; if the row is still there, it has the same author.
AuthorStillHolds == \A q \in Requests : pc[q] = "commit" =>
  /\ loaded[q].author = call[q].user
  /\ version[call[q].post] > 0
  /\ row[call[q].post] # NoRow => row[call[q].post].author = call[q].user

\* A delete that went through left its id without a row, for good.
DeletedIsGone == \A q \in Requests :
  pc[q] \in {"evict", "answered"} /\ call[q].kind = "delete" =>
    row[call[q].post] = NoRow /\ version[call[q].post] > 0

\* Only a call past its commit wrote, and only a call that is over filled late.
HistoryIsOfItsCall ==
  /\ \A q \in Requests : wrote[q] > 0 => pc[q] \in {"evict", "answered", "failed"}
  /\ \A q \in lateFills : pc[q] \in Ended

\* The inductive invariant of the safety properties.
IndInv ==
  /\ TypeOK
  /\ CallsAreInTheirStep
  /\ CommitsAreOrdered
  /\ AuthorStillHolds
  /\ DeletedIsGone
  /\ HistoryIsOfItsCall
  /\ ReadsAreCommitted
  /\ StaleIsExplained

-----------------------------------------------------------------------------
(* Types.                                                                   *)

\* The initial state is well typed.
LEMMA TypeInit == Init => TypeOK
<1> SUFFICES ASSUME Init PROVE TypeOK
  OBVIOUS
<1>1. row \in [PostIds -> Row \union {NoRow}]
  BY DEF Init, Row
<1>2. version \in [PostIds -> Nat] /\ cached \in [PostIds -> Row \union {NoRow}]
  BY DEF Init
<1>3. /\ pc \in [Requests -> Active \union Ended \union {"idle"}]
      /\ call \in [Requests -> Call \union {NoCall}]
      /\ \A q \in Requests : pc[q] = "idle" <=> call[q] = NoCall
  BY DEF Init
<1>4. loaded \in [Requests -> Row \union {NoRow}] /\ wrote \in [Requests -> Nat] /\ lateFills \subseteq Requests
  BY DEF Init
<1>5. \A p \in PostIds : row[p] # NoRow => row[p].version = version[p] /\ version[p] > 0
  BY DEF Init
<1>6. committed \subseteq PostIds \X Row
  BY <1>1 DEF Init
<1> QED
  BY <1>1, <1>2, <1>3, <1>4, <1>5, <1>6 DEF TypeOK

\* What a call in one of its steps asks for.
LEMMA CallFields ==
  ASSUME TypeOK, CallsAreInTheirStep, NEW q \in Requests
  PROVE  /\ pc[q] \in {"lookup", "load", "fill"} =>
              call[q].kind = "get" /\ call[q].post \in PostIds
         /\ pc[q] = "insert" =>
              call[q].kind = "create" /\ call[q].user \in Users /\ call[q].content \in Contents
         /\ pc[q] \in {"find", "commit", "evict"} =>
              /\ call[q].kind \in {"update", "delete"}
              /\ call[q].post \in PostIds /\ call[q].user \in Users
              /\ call[q].kind = "update" => call[q].content \in Contents
<1>1. pc[q] # "idle" => call[q] \in Call
  BY DEF TypeOK
<1> QED
  BY <1>1 DEF CallsAreInTheirStep, Call

\* A call enters the steps of its kind and stays in them.
LEMMA InTheirStepStep == TypeOK /\ CallsAreInTheirStep /\ [Next]_vars => CallsAreInTheirStep'
<1> SUFFICES ASSUME TypeOK, CallsAreInTheirStep, [Next]_vars PROVE CallsAreInTheirStep'
  OBVIOUS
<1> USE DEF TypeOK, CallsAreInTheirStep, Goes
<1>1. ASSUME NEW q \in Requests, NEW c \in Call, Receive(q, c) PROVE CallsAreInTheirStep'
  BY <1>1 DEF Receive, Call
<1>2. ASSUME NEW q \in Requests, CacheHit(q) \/ CacheMiss(q) \/ Load(q) \/ Fill(q) \/ CacheFails(q)
      PROVE  CallsAreInTheirStep'
  BY <1>2 DEF CacheHit, CacheMiss, Load, Fill, CacheFails
<1>3. ASSUME NEW q \in Requests, Create(q) \/ Find(q) \/ RollBack(q) \/ Evict(q) PROVE CallsAreInTheirStep'
  BY <1>3 DEF Create, Find, RollBack, Evict
<1>4. ASSUME NEW q \in Requests, CommitUpdate(q) \/ CommitUnchanged(q) \/ CommitDelete(q)
      PROVE  CallsAreInTheirStep'
  BY <1>4 DEF CommitUpdate, CommitUnchanged, CommitDelete, AfterCommit
<1>5. ASSUME Crash PROVE CallsAreInTheirStep'
  BY <1>5 DEF Crash
<1>6. ASSUME UNCHANGED <<pc, call, loaded>> PROVE CallsAreInTheirStep'
  BY <1>6
<1> QED
  BY <1>1, <1>2, <1>3, <1>4, <1>5, <1>6 DEF Next, Step, Expire

\* Every action, and stuttering, leaves the variables well typed.
LEMMA TypeStep == TypeOK /\ CallsAreInTheirStep /\ [Next]_vars => TypeOK'
<1> SUFFICES ASSUME TypeOK, CallsAreInTheirStep, [Next]_vars PROVE TypeOK'
  OBVIOUS
<1> USE PostsAssumption, CallFields DEF TypeOK, Active, Ended, Goes
<1>1. ASSUME NEW q \in Requests, NEW c \in Call, Receive(q, c) PROVE TypeOK'
  BY <1>1 DEF Receive
<1>2. ASSUME NEW q \in Requests, CacheHit(q) PROVE TypeOK'
  BY <1>2 DEF CacheHit
<1>3. ASSUME NEW q \in Requests, CacheMiss(q) PROVE TypeOK'
  BY <1>3 DEF CacheMiss
<1>4. ASSUME NEW q \in Requests, Load(q) PROVE TypeOK'
  BY <1>4 DEF Load
<1>5. ASSUME NEW q \in Requests, Fill(q) PROVE TypeOK'
  BY <1>5 DEF Fill
<1>6. ASSUME NEW q \in Requests, CacheFails(q) PROVE TypeOK'
  BY <1>6 DEF CacheFails
<1>7. ASSUME NEW q \in Requests, Create(q) PROVE TypeOK'
  BY <1>7 DEF Create, Commit, Row, Call
<1>8. ASSUME NEW q \in Requests, Find(q) PROVE TypeOK'
  BY <1>8 DEF Find
<1>9. ASSUME NEW q \in Requests, CommitUpdate(q) PROVE TypeOK'
  <2> DEFINE changed == [content |-> call[q].content, author |-> loaded[q].author,
                         version |-> version[call[q].post] + 1]
  <2>1. loaded[q] \in Row /\ call[q].post \in PostIds
    BY <1>9 DEF CommitUpdate, CallsAreInTheirStep
  <2>2. changed \in Row
    BY <1>9, <2>1 DEF CommitUpdate, Row
  <2>3. Commit(q, call[q].post, changed)
    BY <1>9 DEF CommitUpdate
  <2> HIDE DEF changed
  <2>4. changed.version = version[call[q].post] + 1
    BY DEF changed
  <2> QED
    BY <1>9, <2>1, <2>2, <2>3, <2>4 DEF CommitUpdate, Commit, AfterCommit
<1>10. ASSUME NEW q \in Requests, CommitUnchanged(q) PROVE TypeOK'
  BY <1>10 DEF CommitUnchanged, AfterCommit
<1>11. ASSUME NEW q \in Requests, CommitDelete(q) PROVE TypeOK'
  BY <1>11 DEF CommitDelete, Commit, AfterCommit
<1>12. ASSUME NEW q \in Requests, RollBack(q) PROVE TypeOK'
  BY <1>12 DEF RollBack
<1>13. ASSUME NEW q \in Requests, Evict(q) PROVE TypeOK'
  BY <1>13 DEF Evict
<1>14. ASSUME NEW p \in PostIds, Expire(p) PROVE TypeOK'
  BY <1>14 DEF Expire
<1>15. ASSUME Crash PROVE TypeOK'
  BY <1>15 DEF Crash
<1>16. ASSUME UNCHANGED vars PROVE TypeOK'
  BY <1>16
<1> QED
  BY <1>1, <1>2, <1>3, <1>4, <1>5, <1>6, <1>7, <1>8, <1>9, <1>10, <1>11, <1>12, <1>13, <1>14, <1>15, <1>16 DEF Next, Step

\* Every reachable state of posts, cache and calls is well typed, and a row
\* carries the version of its id.
THEOREM TypeCorrect == Spec => []TypeOK
<1>1. Init => TypeOK /\ CallsAreInTheirStep
  BY TypeInit DEF Init, CallsAreInTheirStep
<1> QED
  BY <1>1, TypeStep, InTheirStepStep, PTL DEF Spec

-----------------------------------------------------------------------------
(* The inductive invariant, one lemma for each conjunct.                    *)

\* The steps that touch the table are those of one transaction each.
LEMMA StoreSteps ==
  ASSUME [Next]_vars
  PROVE  \/ \E q \in Requests : Create(q) \/ CommitUpdate(q) \/ CommitDelete(q)
         \/ UNCHANGED <<store, wrote>>
  BY DEF Next, Step, Receive, CacheHit, CacheMiss, Load, Fill, CacheFails, Find, CommitUnchanged,
         RollBack, Evict, Expire, Crash

\* A commit numbers the row one above every committed row of its id.
LEMMA CommitsStep ==
  TypeOK /\ CallsAreInTheirStep /\ CommitsAreOrdered /\ [Next]_vars => CommitsAreOrdered'
<1> SUFFICES ASSUME TypeOK, CallsAreInTheirStep, CommitsAreOrdered, [Next]_vars
             PROVE  CommitsAreOrdered'
  OBVIOUS
<1> USE CallFields DEF TypeOK, CommitsAreOrdered
<1>1. ASSUME NEW q \in Requests, NEW p \in PostIds, NEW r, Commit(q, p, r),
             r # NoRow => r.version = version[p] + 1
      PROVE  CommitsAreOrdered'
  <2>1. \A x \in PostIds : version'[x] = IF x = p THEN version[p] + 1 ELSE version[x]
    BY <1>1 DEF Commit
  <2>2. \A x \in PostIds : row'[x] = IF x = p THEN r ELSE row[x]
    BY <1>1 DEF Commit
  <2>3. committed' = IF r = NoRow THEN committed ELSE committed \union {<<p, r>>}
    BY <1>1 DEF Commit
  <2>4. ASSUME NEW c \in committed PROVE 0 < c[2].version /\ c[2].version <= version'[c[1]]
    <3>1. c[1] \in PostIds /\ c[2] \in Row
      OBVIOUS
    <3>2. c[2].version \in Nat /\ version[c[1]] \in Nat
      BY <3>1 DEF Row
    <3> QED
      BY <2>1, <3>1, <3>2
  <2>5. ASSUME r # NoRow PROVE 0 < r.version /\ r.version <= version'[p]
    BY <1>1, <2>1, <2>5
  <2> QED
    BY <2>2, <2>3, <2>4, <2>5
<1>2. ASSUME NEW q \in Requests, Create(q) PROVE CommitsAreOrdered'
  BY <1>1, <1>2 DEF Create
<1>3. ASSUME NEW q \in Requests, CommitUpdate(q) PROVE CommitsAreOrdered'
  BY <1>1, <1>3 DEF CommitUpdate
<1>4. ASSUME NEW q \in Requests, CommitDelete(q) PROVE CommitsAreOrdered'
  BY <1>1, <1>4 DEF CommitDelete
<1>5. ASSUME UNCHANGED store PROVE CommitsAreOrdered'
  BY <1>5
<1> QED
  BY <1>2, <1>3, <1>4, <1>5, StoreSteps

\* Nobody changes the author of a row, and nobody uses an id twice: what find
\* checked is still true of the row at the commit.
LEMMA AuthorStep ==
  TypeOK /\ CallsAreInTheirStep /\ AuthorStillHolds /\ [Next]_vars => AuthorStillHolds'
<1> SUFFICES ASSUME TypeOK, CallsAreInTheirStep, AuthorStillHolds, [Next]_vars
             PROVE  AuthorStillHolds'
  OBVIOUS
<1> USE CallFields DEF TypeOK, AuthorStillHolds, Goes
<1>1. ASSUME NEW q \in Requests, NEW c \in Call, Receive(q, c) PROVE AuthorStillHolds'
  BY <1>1 DEF Receive
<1>2. ASSUME NEW q \in Requests, CacheHit(q) \/ CacheMiss(q) \/ Load(q) \/ Fill(q) \/ CacheFails(q)
      PROVE  AuthorStillHolds'
  BY <1>2 DEF CacheHit, CacheMiss, Load, Fill, CacheFails
<1>3. ASSUME NEW q \in Requests, Create(q) PROVE AuthorStillHolds'
  BY <1>3 DEF Create, Commit
<1>4. ASSUME NEW q \in Requests, Find(q) PROVE AuthorStillHolds'
  BY <1>4 DEF Find, IsWrittenBy
<1>5. ASSUME NEW q \in Requests, CommitUpdate(q) PROVE AuthorStillHolds'
  BY <1>5 DEF CommitUpdate, Commit, AfterCommit
<1>6. ASSUME NEW q \in Requests, CommitDelete(q) PROVE AuthorStillHolds'
  BY <1>6 DEF CommitDelete, Commit, AfterCommit
<1>7. ASSUME NEW q \in Requests, CommitUnchanged(q) \/ RollBack(q) \/ Evict(q) PROVE AuthorStillHolds'
  BY <1>7 DEF CommitUnchanged, AfterCommit, RollBack, Evict
<1>8. ASSUME Crash PROVE AuthorStillHolds'
  BY <1>8 DEF Crash, Active
<1>9. ASSUME UNCHANGED <<store, pc, call, loaded>> PROVE AuthorStillHolds'
  BY <1>9
<1> QED
  BY <1>1, <1>2, <1>3, <1>4, <1>5, <1>6, <1>7, <1>8, <1>9 DEF Next, Step, Expire

\* An id that lost its row never gets one again.
LEMMA DeletedStep ==
  TypeOK /\ CallsAreInTheirStep /\ DeletedIsGone /\ [Next]_vars => DeletedIsGone'
<1> SUFFICES ASSUME TypeOK, CallsAreInTheirStep, DeletedIsGone, [Next]_vars
             PROVE  DeletedIsGone'
  OBVIOUS
<1> USE CallFields DEF TypeOK, DeletedIsGone, Goes
<1>1. ASSUME NEW q \in Requests, NEW c \in Call, Receive(q, c) PROVE DeletedIsGone'
  BY <1>1 DEF Receive
<1>2. ASSUME NEW q \in Requests, CacheHit(q) \/ CacheMiss(q) \/ Load(q) \/ Fill(q) \/ CacheFails(q)
      PROVE  DeletedIsGone'
  BY <1>2 DEF CacheHit, CacheMiss, Load, Fill, CacheFails
<1>3. ASSUME NEW q \in Requests, Create(q) PROVE DeletedIsGone'
  BY <1>3 DEF Create, Commit
<1>4. ASSUME NEW q \in Requests, Find(q) \/ RollBack(q) \/ Evict(q) PROVE DeletedIsGone'
  BY <1>4 DEF Find, RollBack, Evict
<1>5. ASSUME NEW q \in Requests, CommitUpdate(q) PROVE DeletedIsGone'
  BY <1>5 DEF CommitUpdate, Commit, AfterCommit
<1>6. ASSUME NEW q \in Requests, CommitDelete(q) PROVE DeletedIsGone'
  BY <1>6 DEF CommitDelete, Commit, AfterCommit
<1>7. ASSUME NEW q \in Requests, CommitUnchanged(q) PROVE DeletedIsGone'
  BY <1>7 DEF CommitUnchanged, AfterCommit
<1>8. ASSUME Crash PROVE DeletedIsGone'
  BY <1>8 DEF Crash, Active
<1>9. ASSUME UNCHANGED <<store, pc, call>> PROVE DeletedIsGone'
  BY <1>9
<1> QED
  BY <1>1, <1>2, <1>3, <1>4, <1>5, <1>6, <1>7, <1>8, <1>9 DEF Next, Step, Expire

\* A call writes as it leaves its transaction, and fills as it ends.
LEMMA HistoryStep == TypeOK /\ HistoryIsOfItsCall /\ [Next]_vars => HistoryIsOfItsCall'
<1> SUFFICES ASSUME TypeOK, HistoryIsOfItsCall, [Next]_vars PROVE HistoryIsOfItsCall'
  OBVIOUS
<1> USE DEF TypeOK, HistoryIsOfItsCall, Ended, Goes
<1>1. ASSUME NEW q \in Requests, NEW c \in Call, Receive(q, c) PROVE HistoryIsOfItsCall'
  BY <1>1 DEF Receive
<1>2. ASSUME NEW q \in Requests, CacheHit(q) \/ CacheMiss(q) \/ Load(q) \/ Fill(q) \/ CacheFails(q)
      PROVE  HistoryIsOfItsCall'
  BY <1>2 DEF CacheHit, CacheMiss, Load, Fill, CacheFails
<1>3. ASSUME NEW q \in Requests, Create(q) \/ Find(q) \/ RollBack(q) \/ Evict(q)
      PROVE  HistoryIsOfItsCall'
  BY <1>3 DEF Create, Commit, Find, RollBack, Evict
<1>4. ASSUME NEW q \in Requests, CommitUpdate(q) \/ CommitUnchanged(q) \/ CommitDelete(q)
      PROVE  HistoryIsOfItsCall'
  BY <1>4 DEF CommitUpdate, CommitUnchanged, CommitDelete, Commit, AfterCommit
<1>5. ASSUME Crash PROVE HistoryIsOfItsCall'
  BY <1>5 DEF Crash, Active
<1>6. ASSUME UNCHANGED <<pc, wrote, lateFills>> PROVE HistoryIsOfItsCall'
  BY <1>6
<1> QED
  BY <1>1, <1>2, <1>3, <1>4, <1>5, <1>6 DEF Next, Step, Expire

\* The cache is filled only with what the table had, and a row that was
\* committed stays committed.
LEMMA ReadsStep ==
  TypeOK /\ CallsAreInTheirStep /\ CommitsAreOrdered /\ ReadsAreCommitted /\ [Next]_vars
    => ReadsAreCommitted'
<1> SUFFICES ASSUME TypeOK, CallsAreInTheirStep, CommitsAreOrdered, ReadsAreCommitted, [Next]_vars
             PROVE  ReadsAreCommitted'
  OBVIOUS
<1> USE CallFields DEF TypeOK, ReadsAreCommitted, Goes
<1>1. committed \subseteq committed'
  BY StoreSteps DEF Create, CommitUpdate, CommitDelete, Commit
<1>2. ASSUME NEW q \in Requests, NEW c \in Call, Receive(q, c) PROVE ReadsAreCommitted'
  BY <1>1, <1>2 DEF Receive
<1>3. ASSUME NEW q \in Requests, CacheHit(q) \/ CacheMiss(q) \/ CacheFails(q) PROVE ReadsAreCommitted'
  BY <1>3 DEF CacheHit, CacheMiss, CacheFails
<1>4. ASSUME NEW q \in Requests, Load(q) PROVE ReadsAreCommitted'
  BY <1>4 DEF Load, CommitsAreOrdered
<1>5. ASSUME NEW q \in Requests, Fill(q) PROVE ReadsAreCommitted'
  BY <1>5 DEF Fill
<1>6. ASSUME NEW q \in Requests, Create(q) \/ CommitUpdate(q) \/ CommitUnchanged(q) \/ CommitDelete(q)
      PROVE  ReadsAreCommitted'
  BY <1>1, <1>6 DEF Create, CommitUpdate, CommitUnchanged, CommitDelete, Commit, AfterCommit
<1>7. ASSUME NEW q \in Requests, Find(q) \/ RollBack(q) \/ Evict(q) PROVE ReadsAreCommitted'
  BY <1>7 DEF Find, RollBack, Evict
<1>8. ASSUME NEW p \in PostIds, Expire(p) PROVE ReadsAreCommitted'
  BY <1>8 DEF Expire
<1>9. ASSUME Crash PROVE ReadsAreCommitted'
  BY <1>9 DEF Crash
<1>10. ASSUME UNCHANGED vars PROVE ReadsAreCommitted'
  BY <1>10
<1> QED
  BY <1>2, <1>3, <1>4, <1>5, <1>6, <1>7, <1>8, <1>9, <1>10 DEF Next, Step

\* Call q explains why the entry of p may be out of date.
Explains(q, p) ==
  /\ \/ wrote[q] > cached[p].version /\ pc[q] \in {"evict", "failed"}
     \/ q \in lateFills /\ loaded[q] = cached[p]
  /\ call[q].post = p

\* An entry of the cache is a committed row, so that a commit is newer.
LEMMA EntryIsOlder ==
  ASSUME TypeOK, CommitsAreOrdered, ReadsAreCommitted, NEW p \in PostIds, cached[p] # NoRow
  PROVE  /\ cached[p].version \in Nat /\ version[p] \in Nat
         /\ 0 < cached[p].version /\ cached[p].version <= version[p]
<1>1. cached[p] \in Row /\ <<p, cached[p]>> \in committed
  BY DEF TypeOK, ReadsAreCommitted
<1> QED
  BY <1>1 DEF TypeOK, CommitsAreOrdered, Row

\* While its entry stays, whoever explains it still does: only an eviction ends
\* an explanation, and it removes the entry.
LEMMA ExplanationStays ==
  ASSUME TypeOK, CallsAreInTheirStep, HistoryIsOfItsCall, [Next]_vars,
         NEW p \in PostIds, cached'[p] = cached[p], cached[p] # NoRow,
         NEW q \in Requests, Explains(q, p)
  PROVE  Explains(q, p)'
<1> USE CallFields DEF TypeOK, HistoryIsOfItsCall, Explains, Ended, Goes
<1>1. ASSUME NEW s \in Requests, NEW c \in Call, Receive(s, c) PROVE Explains(q, p)'
  BY <1>1 DEF Receive
<1>2. ASSUME NEW s \in Requests, CacheHit(s) \/ CacheMiss(s) \/ Load(s) \/ Fill(s) \/ CacheFails(s)
      PROVE  Explains(q, p)'
  BY <1>2 DEF CacheHit, CacheMiss, Load, Fill, CacheFails
<1>3. ASSUME NEW s \in Requests, Create(s) PROVE Explains(q, p)'
  BY <1>3 DEF Create, Commit
<1>4. ASSUME NEW s \in Requests, CommitUpdate(s) \/ CommitDelete(s) PROVE Explains(q, p)'
  BY <1>4 DEF CommitUpdate, CommitDelete, Commit, AfterCommit
<1>5. ASSUME NEW s \in Requests, CommitUnchanged(s) \/ Find(s) \/ RollBack(s) PROVE Explains(q, p)'
  BY <1>5 DEF CommitUnchanged, AfterCommit, Find, RollBack
<1>6. ASSUME NEW s \in Requests, Evict(s) PROVE Explains(q, p)'
  BY <1>6 DEF Evict
<1>7. ASSUME Crash PROVE Explains(q, p)'
  BY <1>7 DEF Crash
<1>8. ASSUME UNCHANGED <<pc, call, loaded, wrote, lateFills>> PROVE Explains(q, p)'
  BY <1>8
<1> QED
  BY <1>1, <1>2, <1>3, <1>4, <1>5, <1>6, <1>7, <1>8 DEF Next, Step, Expire

\* Whoever makes an entry out of date explains it: by the commit that it has
\* still to evict, or by the late fill.
LEMMA StaleStep ==
  TypeOK /\ CallsAreInTheirStep /\ CommitsAreOrdered /\ HistoryIsOfItsCall
    /\ ReadsAreCommitted /\ StaleIsExplained /\ [Next]_vars => StaleIsExplained'
<1> SUFFICES ASSUME TypeOK, CallsAreInTheirStep, CommitsAreOrdered,
                    HistoryIsOfItsCall, ReadsAreCommitted, StaleIsExplained, [Next]_vars
             PROVE  StaleIsExplained'
  OBVIOUS
<1> SUFFICES ASSUME NEW p \in PostIds, Stale(p)'
             PROVE  \E q \in Requests : Explains(q, p)'
  BY DEF StaleIsExplained, Explains
<1>1. CASE cached'[p] # cached[p]
  <2>1. PICK q \in Requests : Fill(q) /\ call[q].post = p
    BY <1>1, CallFields
       DEF Stale, TypeOK, Next, Step, Receive, CacheHit, CacheMiss, Load, Fill, CacheFails, Create, Find,
           CommitUpdate, CommitUnchanged, CommitDelete, RollBack, Evict, Expire, Crash
  <2>2. cached'[p] = loaded[q] /\ row' = row /\ loaded' = loaded /\ call' = call
    BY <2>1 DEF Fill, TypeOK
  <2>3. q \in lateFills'
    BY <2>1, <2>2 DEF Fill, Stale
  <2> QED
    BY <2>1, <2>2, <2>3 DEF Explains
<1>2. CASE cached'[p] = cached[p] /\ Stale(p)
  <2>1. PICK q \in Requests : Explains(q, p)
    BY <1>2 DEF StaleIsExplained, Explains
  <2> QED
    BY <1>2, <2>1, ExplanationStays DEF Stale
<1>3. CASE cached'[p] = cached[p] /\ ~Stale(p)
  <2>1. cached[p] # NoRow /\ row'[p] # row[p]
    BY <1>3 DEF Stale
  <2>2. cached[p].version \in Nat /\ version[p] \in Nat /\ 0 < cached[p].version /\ cached[p].version <= version[p]
    BY <2>1, EntryIsOlder
  <2>3. PICK q \in Requests : CommitUpdate(q) \/ CommitDelete(q) \/ Create(q)
    BY <2>1, StoreSteps
  <2>4. ~Create(q)
    BY <2>1, <2>2 DEF Create, Commit, TypeOK
  <2>5. call[q].post = p
    BY <2>1, <2>3, <2>4 DEF CommitUpdate, CommitDelete, Commit, TypeOK
  <2>6. wrote'[q] = version[p] + 1
    BY <2>3, <2>4, <2>5 DEF CommitUpdate, CommitDelete, Commit, TypeOK
  <2>7. pc'[q] \in {"evict", "failed"} /\ call' = call
    BY <2>3, <2>4 DEF CommitUpdate, CommitDelete, AfterCommit, Goes, TypeOK
  <2> QED
    BY <1>3, <2>2, <2>5, <2>6, <2>7 DEF Explains
<1> QED
  BY <1>1, <1>2, <1>3

\* The initial state satisfies the inductive invariant: nobody has called yet.
LEMMA IndInit == Init => IndInv
<1> SUFFICES ASSUME Init PROVE IndInv
  OBVIOUS
<1>1. TypeOK
  BY TypeInit
<1>2. CallsAreInTheirStep /\ AuthorStillHolds /\ DeletedIsGone /\ HistoryIsOfItsCall
  BY DEF Init, CallsAreInTheirStep, AuthorStillHolds, DeletedIsGone, HistoryIsOfItsCall
<1>3. CommitsAreOrdered
  BY <1>1 DEF Init, TypeOK, CommitsAreOrdered
<1>4. ReadsAreCommitted /\ StaleIsExplained
  BY DEF Init, ReadsAreCommitted, StaleIsExplained, Stale
<1> QED
  BY <1>1, <1>2, <1>3, <1>4 DEF IndInv

\* The inductive invariant is kept by every step.
LEMMA IndStep == IndInv /\ [Next]_vars => IndInv'
<1> SUFFICES ASSUME IndInv, [Next]_vars PROVE IndInv'
  OBVIOUS
<1>1. TypeOK' /\ CallsAreInTheirStep' /\ CommitsAreOrdered'
  BY TypeStep, InTheirStepStep, CommitsStep DEF IndInv
<1>2. AuthorStillHolds' /\ DeletedIsGone' /\ HistoryIsOfItsCall'
  BY AuthorStep, DeletedStep, HistoryStep DEF IndInv
<1>3. ReadsAreCommitted' /\ StaleIsExplained'
  BY ReadsStep, StaleStep DEF IndInv
<1> QED
  BY <1>1, <1>2, <1>3 DEF IndInv

-----------------------------------------------------------------------------
(* The theorems.                                                            *)

\* Every reachable state satisfies the inductive invariant.
THEOREM Inductive == Spec => []IndInv
  BY IndInit, IndStep, PTL DEF Spec

\* However many calls race, nobody reads what was never committed.
THEOREM ReadsCommitted == Spec => []ReadsAreCommitted
<1>1. IndInv => ReadsAreCommitted
  BY DEF IndInv
<1> QED
  BY <1>1, Inductive, PTL

\* A stale entry is that of a commit not evicted, or of a late fill: with the
\* eviction after the commit there is no third way, for any number of calls.
THEOREM StaleExplained == Spec => []StaleIsExplained
<1>1. IndInv => StaleIsExplained
  BY DEF IndInv
<1> QED
  BY <1>1, Inductive, PTL

\* After a delete the row of the post is gone, and a call that deletes finds it
\* there: when the second of two deletes commits, the first has not.
LEMMA DeletedOnceStep == IndInv /\ DeletedOnce /\ [Next]_vars => DeletedOnce'
<1> SUFFICES ASSUME IndInv, DeletedOnce, [Next]_vars PROVE DeletedOnce'
  OBVIOUS
<1> USE DEF IndInv, TypeOK, DeletedOnce, Goes
<1>1. ASSUME NEW q \in Requests, NEW c \in Call, Receive(q, c) PROVE DeletedOnce'
  BY <1>1 DEF Receive
<1>2. ASSUME NEW q \in Requests, CacheHit(q) \/ CacheMiss(q) \/ Load(q) \/ Fill(q) \/ CacheFails(q)
      PROVE  DeletedOnce'
  BY <1>2, CallFields DEF CacheHit, CacheMiss, Load, Fill, CacheFails
<1>3. ASSUME NEW q \in Requests, Create(q) \/ Find(q) \/ RollBack(q) \/ Evict(q) PROVE DeletedOnce'
  BY <1>3, CallFields DEF Create, Find, RollBack, Evict
<1>4. ASSUME NEW q \in Requests, CommitUpdate(q) \/ CommitUnchanged(q) PROVE DeletedOnce'
  BY <1>4 DEF CommitUpdate, CommitUnchanged, AfterCommit
<1>5. ASSUME NEW q \in Requests, CommitDelete(q) PROVE DeletedOnce'
  <2>1. row[call[q].post] # NoRow /\ call' = call /\ \A s \in Requests \ {q} : pc'[s] = pc[s]
    BY <1>5 DEF CommitDelete, AfterCommit
  <2>2. \A s \in Requests \ {q} :
          pc[s] \in {"evict", "answered"} /\ call[s].kind = "delete" => call[s].post # call[q].post
    BY <2>1 DEF DeletedIsGone
  <2> QED
    BY <2>1, <2>2
<1>6. ASSUME Crash PROVE DeletedOnce'
  BY <1>6 DEF Crash, Active
<1>7. ASSUME UNCHANGED <<pc, call>> PROVE DeletedOnce'
  BY <1>7
<1> QED
  BY <1>1, <1>2, <1>3, <1>4, <1>5, <1>6, <1>7 DEF Next, Step, Expire

\* A post is deleted by one call at most, although neither locks its row.
THEOREM DeletedByOne == Spec => []DeletedOnce
<1>1. Init => DeletedOnce
  BY DEF Init, DeletedOnce
<1> QED
  BY <1>1, Inductive, DeletedOnceStep, PTL DEF Spec

-----------------------------------------------------------------------------
(* What a read beside a commit is needed for.                               *)

\* No read stands between table and cache while its post is about to change.
ReadsBesideNoCommit ==
  \A q, s \in Requests : ~(pc[q] = "fill" /\ pc[s] = "commit" /\ call[q].post = call[s].post)

\* A read fills the cache with the row of the table.
FillsAreCurrent ==
  /\ lateFills = {}
  /\ \A q \in Requests : pc[q] = "fill" => loaded[q] = row[call[q].post]

\* What a read has loaded is replaced only by a commit beside it.
LEMMA FillsStep == IndInv /\ FillsAreCurrent /\ ReadsBesideNoCommit /\ [Next]_vars => FillsAreCurrent'
<1> SUFFICES ASSUME IndInv, FillsAreCurrent, ReadsBesideNoCommit, [Next]_vars PROVE FillsAreCurrent'
  OBVIOUS
<1> USE DEF IndInv, TypeOK, FillsAreCurrent, Goes
<1>1. ASSUME NEW q \in Requests, NEW c \in Call, Receive(q, c) PROVE FillsAreCurrent'
  BY <1>1 DEF Receive
<1>2. ASSUME NEW q \in Requests, CacheHit(q) \/ CacheMiss(q) \/ Load(q) \/ Fill(q) \/ CacheFails(q)
      PROVE  FillsAreCurrent'
  BY <1>2 DEF CacheHit, CacheMiss, Load, Fill, CacheFails
<1>3. ASSUME NEW s \in Requests, Create(s) PROVE FillsAreCurrent'
  <2>1. PICK p \in PostIds : /\ version[p] = 0 /\ row[p] = NoRow
                             /\ \A x \in PostIds \ {p} : row'[x] = row[x]
    BY <1>3 DEF Create, Commit
  <2>2. ASSUME NEW q \in Requests, pc'[q] = "fill" PROVE loaded'[q] = row'[call'[q].post]
    <3>1. pc[q] = "fill" /\ call'[q] = call[q] /\ loaded'[q] = loaded[q]
      BY <1>3, <2>2 DEF Create
    <3>2. call[q].post \in PostIds /\ row[call[q].post] # NoRow
      BY <3>1, CallFields DEF CallsAreInTheirStep
    <3> QED
      BY <2>1, <3>1, <3>2
  <2> QED
    BY <1>3, <2>2 DEF Create
<1>4. ASSUME NEW s \in Requests, CommitUpdate(s) \/ CommitDelete(s) PROVE FillsAreCurrent'
  <2>1. pc[s] = "commit" /\ \A x \in PostIds \ {call[s].post} : row'[x] = row[x]
    BY <1>4, CallFields DEF CommitUpdate, CommitDelete, Commit
  <2>2. ASSUME NEW q \in Requests, pc'[q] = "fill" PROVE loaded'[q] = row'[call'[q].post]
    <3>1. pc[q] = "fill" /\ call'[q] = call[q] /\ loaded'[q] = loaded[q]
      BY <1>4, <2>2 DEF CommitUpdate, CommitDelete, AfterCommit
    <3>2. call[q].post \in PostIds /\ call[q].post # call[s].post
      BY <2>1, <3>1, CallFields DEF ReadsBesideNoCommit
    <3> QED
      BY <2>1, <3>1, <3>2
  <2> QED
    BY <1>4, <2>2 DEF CommitUpdate, CommitDelete
<1>5. ASSUME NEW q \in Requests, Find(q) \/ CommitUnchanged(q) \/ RollBack(q) \/ Evict(q)
      PROVE  FillsAreCurrent'
  BY <1>5 DEF Find, CommitUnchanged, AfterCommit, RollBack, Evict
<1>6. ASSUME Crash PROVE FillsAreCurrent'
  BY <1>6 DEF Crash
<1>7. ASSUME UNCHANGED <<row, pc, call, loaded, lateFills>> PROVE FillsAreCurrent'
  BY <1>7
<1> QED
  BY <1>1, <1>2, <1>3, <1>4, <1>5, <1>6, <1>7 DEF Next, Step, Expire

\* Only a read that stands beside a commit can leave an entry out of date that
\* nobody is about to evict: without one, and unless a call failed after its
\* commit, the cache has what the table has as soon as no writer has to evict.
THEOREM StaleOnlyUntilEvicted ==
  Spec /\ []ReadsBesideNoCommit =>
    [](\A p \in PostIds : Stale(p) =>
         \E q \in Requests : /\ call[q].post = p /\ wrote[q] > cached[p].version
                             /\ pc[q] \in {"evict", "failed"})
<1>1. Init => FillsAreCurrent
  BY DEF Init, FillsAreCurrent
<1>2. IndInv /\ FillsAreCurrent =>
        \A p \in PostIds : Stale(p) =>
          \E q \in Requests : /\ call[q].post = p /\ wrote[q] > cached[p].version
                              /\ pc[q] \in {"evict", "failed"}
  BY DEF IndInv, StaleIsExplained, FillsAreCurrent
<1> QED
  BY <1>1, <1>2, Inductive, FillsStep, PTL DEF Spec

-----------------------------------------------------------------------------
(* The table implements PostStore.                                          *)

\* The store that the table and its calls stand for.
stands  == [p \in PostIds |-> Stands(p)]
writers == [p \in PostIds |-> Writers(p)]

\* A row is told from an id without one.
LEMMA StandsForPost ==
  ASSUME TypeOK, NEW p \in PostIds
  PROVE  row[p] # NoRow <=> Stands(p) \notin {Fresh, Gone}
<1>1. ASSUME row[p] # NoRow
      PROVE  [author |-> row[p].author, content |-> row[p].content] \in [author : Users, content : Contents]
  BY <1>1 DEF TypeOK, Row
<1> QED
  BY <1>1, StoreAssumption DEF Stands

\* An id whose row and version stay stands for what it stood for.
LEMMA OtherStands ==
  ASSUME NEW p \in PostIds, row'[p] = row[p], version'[p] = version[p]
  PROVE  Stands(p)' = Stands(p)
  BY DEF Stands

\* The initial table is an initial store.
LEMMA StoreInitially == Init => Store!StoreInit
<1> SUFFICES ASSUME Init PROVE Store!StoreInit
  OBVIOUS
<1>1. \A p \in PostIds : Stands(p) \in [author : Users, content : Contents] \union {Fresh}
  BY DEF Init, Stands
<1>2. \A p \in PostIds : Writers(p) = {}
  BY DEF Init, Writers, Writes
<1> QED
  BY <1>1, <1>2 DEF Store!StoreInit, Store!Post

\* If no row, no version and no call that wrote changes, the store stutters.
LEMMA StoreStutters ==
  ASSUME UNCHANGED <<row, version, wrote>>, \A q \in Requests : wrote[q] > 0 => call'[q] = call[q]
  PROVE  UNCHANGED <<stands, writers>>
<1>1. UNCHANGED stands
  BY DEF stands, Stands
<1>2. \A p \in PostIds : Writers(p)' = Writers(p)
  BY DEF Writers, Writes
<1> QED
  BY <1>1, <1>2 DEF writers

\* An insert publishes a post under an id that had none.
LEMMA CreatePublishes ==
  ASSUME IndInv, NEW q \in Requests, Create(q)
  PROVE  \E p \in PostIds : Store!Publish(p, call[q].user, call[q].content)
<1> USE DEF IndInv, TypeOK
<1> DEFINE r == [content |-> call[q].content, author |-> call[q].user, version |-> 1]
<1>1. PICK p \in PostIds : version[p] = 0 /\ Commit(q, p, r)
  BY DEF Create
<1>2. r \in Row /\ r # NoRow
  BY CallFields, PostsAssumption DEF Create, Row
<1>3. row[p] = NoRow /\ row'[p] = r /\ \A x \in PostIds \ {p} : row'[x] = row[x] /\ version'[x] = version[x]
  BY <1>1 DEF Commit
<1>4. stands[p] = Fresh
  BY <1>1, <1>3 DEF stands, Stands
<1>5. stands' = [stands EXCEPT ![p] = [author |-> call[q].user, content |-> call[q].content]]
  <2>1. Stands(p)' = [author |-> call[q].user, content |-> call[q].content]
    BY <1>2, <1>3 DEF Stands
  <2> QED
    BY <1>3, <2>1, OtherStands DEF stands
<1>6. \A x \in PostIds : Writers(x)' = Writers(x)
  <2>1. \A s \in Requests, x \in PostIds : Writes(s, x)' <=> Writes(s, x)
    BY <1>1, CallFields DEF Writes, Create, Commit
  <2> QED
    BY <2>1 DEF Writers, Create
<1> QED
  BY <1>4, <1>5, <1>6 DEF Store!Publish, stands, writers

\* A commit of an update or a delete is the author's, whose name it adds to
\* those who wrote to the post.
LEMMA CommitActs ==
  ASSUME IndInv, NEW q \in Requests, NEW r, pc[q] = "commit",
         row[call[q].post] # NoRow, Commit(q, call[q].post, r), call' = call
  PROVE  /\ Stands(call[q].post) \notin {Fresh, Gone}
         /\ Stands(call[q].post).author = call[q].user
         /\ stands' = [stands EXCEPT ![call[q].post] = Stands(call[q].post)']
         /\ writers' = [writers EXCEPT ![call[q].post] = @ \union {call[q].user}]
<1> USE DEF IndInv, TypeOK
<1> DEFINE p == call[q].post
<1>1. p \in PostIds /\ call[q].kind \in {"update", "delete"}
  BY CallFields
<1>2. row[p].author = call[q].user
  BY DEF AuthorStillHolds
<1>3. \A x \in PostIds \ {p} : row'[x] = row[x] /\ version'[x] = version[x]
  BY DEF Commit
<1>4. stands' = [stands EXCEPT ![p] = Stands(p)']
  BY <1>3, OtherStands DEF stands
<1>5. \A s \in Requests, x \in PostIds : Writes(s, x)' <=> Writes(s, x) \/ (s = q /\ x = p)
  BY <1>1 DEF Writes, Commit
<1>6. \A x \in PostIds : Writers(x)' = IF x = p THEN Writers(p) \union {call[q].user} ELSE Writers(x)
  BY <1>5 DEF Writers
<1>7. writers' = [writers EXCEPT ![p] = @ \union {call[q].user}]
  BY <1>1, <1>6 DEF writers
<1> QED
  BY <1>1, <1>2, <1>4, <1>7, StandsForPost DEF Stands

\* Every step of the calls is a step of the store or a stutter.
LEMMA StoreStep == IndInv /\ [Next]_vars => [Store!StoreNext]_(Store!storeVars)
<1> SUFFICES ASSUME IndInv, [Next]_vars PROVE Store!StoreNext \/ UNCHANGED <<stands, writers>>
  BY DEF Store!storeVars, stands, writers
<1>1. ASSUME NEW q \in Requests, Create(q) PROVE Store!StoreNext
  <2>1. call[q].user \in Users /\ call[q].content \in Contents
    BY <1>1, CallFields DEF IndInv, Create
  <2>2. PICK p \in PostIds : Store!Publish(p, call[q].user, call[q].content)
    BY <1>1, CreatePublishes
  <2> QED
    BY <2>1, <2>2 DEF Store!StoreNext
<1>2. ASSUME NEW q \in Requests, CommitUpdate(q) PROVE Store!StoreNext
  <2> PICK p, u, c : p = call[q].post /\ u = call[q].user /\ c = call[q].content
    OBVIOUS
  <2> DEFINE r == [content |-> c, author |-> loaded[q].author, version |-> version[p] + 1]
  <2>1. p \in PostIds /\ u \in Users /\ c \in Contents
    BY <1>2, CallFields DEF IndInv, CommitUpdate
  <2>2. pc[q] = "commit" /\ row[p] # NoRow /\ Commit(q, p, r) /\ call' = call
    BY <1>2 DEF CommitUpdate
  <2>3. r \in Row /\ r.author = row[p].author
    BY <2>1, <2>2 DEF IndInv, TypeOK, CallsAreInTheirStep, AuthorStillHolds, Row
  <2>4. row'[p] = r /\ r # NoRow
    BY <2>1, <2>2, <2>3, PostsAssumption DEF Commit, IndInv, TypeOK
  <2>5. Stands(p)' = [author |-> Stands(p).author, content |-> c]
    BY <2>2, <2>3, <2>4 DEF Stands
  <2>6. Store!Edit(p, u, c)
    BY <2>1, <2>2, <2>5, CommitActs
       DEF Store!Edit, Store!ActsOn, Store!IsPost, stands, writers
  <2> QED
    BY <2>1, <2>6 DEF Store!StoreNext
<1>3. ASSUME NEW q \in Requests, CommitDelete(q) PROVE Store!StoreNext
  <2> PICK p, u : p = call[q].post /\ u = call[q].user
    OBVIOUS
  <2>1. p \in PostIds /\ u \in Users
    BY <1>3, CallFields DEF IndInv, CommitDelete
  <2>2. pc[q] = "commit" /\ row[p] # NoRow /\ Commit(q, p, NoRow) /\ call' = call
    BY <1>3 DEF CommitDelete
  <2>3. Stands(p)' = Gone
    BY <2>1, <2>2 DEF Commit, Stands, IndInv, TypeOK
  <2>4. Store!Remove(p, u)
    BY <2>1, <2>2, <2>3, CommitActs
       DEF Store!Remove, Store!ActsOn, Store!IsPost, stands, writers
  <2> QED
    BY <2>1, <2>4 DEF Store!StoreNext
<1>4. ASSUME UNCHANGED <<store, wrote>> PROVE UNCHANGED <<stands, writers>>
  <2>1. \A q \in Requests : wrote[q] > 0 => call'[q] = call[q]
    BY DEF IndInv, TypeOK, HistoryIsOfItsCall, Next, Step, Receive, CacheHit, CacheMiss, Load, Fill,
           CacheFails, Create, Find, CommitUpdate, CommitUnchanged, CommitDelete, RollBack, Evict,
           Expire, Crash
  <2> QED
    BY <1>4, <2>1, StoreStutters
<1> QED
  BY <1>1, <1>2, <1>3, <1>4, StoreSteps

\* Whatever calls run side by side, the table is a store that gives an id to
\* one post, keeps its author, lets only the author's calls take effect on it,
\* and never brings it back: no lock is needed for that.
THEOREM Implements == Spec => ImplementsPostStore
  BY StoreInitially, StoreStep, Inductive, PTL DEF Spec, ImplementsPostStore, Store!StoreSpec
=============================================================================
