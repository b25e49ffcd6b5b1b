-------------------------------- MODULE Posts --------------------------------
(***************************************************************************)
(* Posts in MySQL behind a cache-aside cache in Redis.  A read looks into  *)
(* the cache, then into the table, then fills the cache; an update or a    *)
(* delete finds the row, checks its author and commits in one transaction, *)
(* and the controller evicts the cache entry after the commit.  Nothing    *)
(* ties the table and the cache together, and no row is locked or versioned *)
(* between the find and the commit.                                        *)
(*                                                                         *)
(* A row's version is not in the program: it numbers the commits of the    *)
(* row, so that an older value can be told from a newer one.               *)
(***************************************************************************)
EXTENDS Naturals

CONSTANTS Requests,  \* the HTTP calls, numbered as they arrive
          PostIds,   \* ids of the table, never used twice
          Users,     \* authenticated principals
          Contents,  \* title and content of a post
          NoRow, NoCall,
          Fresh, Gone  \* an id of the abstract store without a post

Row == [content : Contents, author : Users, version : Nat]

\* What a call asks for; user is the principal's name.
Call == [kind : {"get"}, post : PostIds]
          \union [kind : {"create"}, user : Users, content : Contents]
          \union [kind : {"update"}, post : PostIds, user : Users, content : Contents]
          \union [kind : {"delete"}, post : PostIds, user : Users]

ASSUME PostsAssumption == Requests \subseteq Nat /\ NoRow \notin Row /\ NoCall \notin Call
ASSUME StoreAssumption ==
  Fresh # Gone /\ {Fresh, Gone} \intersect [author : Users, content : Contents] = {}

VARIABLES
  row,        \* the table
  version,    \* commits of each row
  cached,     \* the entries of Redis
  pc, call,   \* where each HTTP call is, and what it asks for
  loaded,     \* the row or entry it read
  \* history
  wrote,      \* the version a call committed, 0 for none
  lateFills,  \* reads that put into the cache what the table had already replaced
  committed   \* every row that was committed, with its id

store == <<row, version, committed>>
vars == <<store, cached, pc, call, loaded, wrote, lateFills>>

Active == {"lookup", "load", "fill", "insert", "find", "commit", "evict"}
Ended == {"answered", "missing", "forbidden", "failed"}

\* The next step of call q is s and nothing but its place changes.
Goes(q, s) == pc' = [pc EXCEPT ![q] = s]

Receive(q, c) ==
  /\ pc[q] = "idle"
  /\ \A s \in Requests : s < q => pc[s] # "idle"
  /\ call' = [call EXCEPT ![q] = c]
  /\ Goes(q, IF c.kind = "get" THEN "lookup" ELSE IF c.kind = "create" THEN "insert" ELSE "find")
  /\ UNCHANGED <<store, cached, loaded, wrote, lateFills>>

-----------------------------------------------------------------------------
(* GET /posts/{id}: PostQueryService.getPost                                *)

CacheHit(q) ==
  /\ pc[q] = "lookup"
  /\ cached[call[q].post] # NoRow
  /\ loaded' = [loaded EXCEPT ![q] = cached[call[q].post]]
  /\ Goes(q, "answered")
  /\ UNCHANGED <<store, cached, call, wrote, lateFills>>

CacheMiss(q) ==
  /\ pc[q] = "lookup"
  /\ cached[call[q].post] = NoRow
  /\ Goes(q, "load")
  /\ UNCHANGED <<store, cached, call, loaded, wrote, lateFills>>

Load(q) ==
  LET r == row[call[q].post] IN
  /\ pc[q] = "load"
  /\ loaded' = [loaded EXCEPT ![q] = r]
  /\ Goes(q, IF r = NoRow THEN "missing" ELSE "fill")
  /\ UNCHANGED <<store, cached, call, wrote, lateFills>>

\* Redis answers, or it does not: then the call fails, and its command was
\* executed or was not.
Fill(q) ==
  LET p == call[q].post IN
  /\ pc[q] = "fill"
  /\ cached' = [cached EXCEPT ![p] = loaded[q]]
  /\ lateFills' = IF loaded[q] # row[p] THEN lateFills \union {q} ELSE lateFills
  /\ \E s \in {"answered", "failed"} : Goes(q, s)
  /\ UNCHANGED <<store, call, loaded, wrote>>

CacheFails(q) ==
  /\ pc[q] \in {"lookup", "fill", "evict"}
  /\ Goes(q, "failed")
  /\ UNCHANGED <<store, cached, call, loaded, wrote, lateFills>>

-----------------------------------------------------------------------------
(* PostService: one transaction for each call                               *)

\* The row of p becomes r in one commit of call q.
Commit(q, p, r) ==
  /\ row' = [row EXCEPT ![p] = r]
  /\ version' = [version EXCEPT ![p] = @ + 1]
  /\ wrote' = [wrote EXCEPT ![q] = version[p] + 1]
  /\ committed' = IF r = NoRow THEN committed ELSE committed \union {<<p, r>>}

\* Variant: an id comes back once its row is gone.
CreateReusingId(q) ==
  /\ pc[q] = "insert"
  /\ \E p \in PostIds :
       /\ row[p] = NoRow
       /\ Commit(q, p, [content |-> call[q].content, author |-> call[q].user, version |-> 1])
  /\ \E s \in {"answered", "failed"} : Goes(q, s)
  /\ UNCHANGED <<cached, call, loaded, lateFills>>

\* POST /posts: the database gives an id that no post had.
Create(q) ==
  /\ pc[q] = "insert"
  /\ \E p \in PostIds :
       /\ version[p] = 0
       /\ Commit(q, p, [content |-> call[q].content, author |-> call[q].user, version |-> 1])
  /\ \E s \in {"answered", "failed"} : Goes(q, s)
  /\ UNCHANGED <<cached, call, loaded, lateFills>>

\* Variant: the author is not asked for.
IsWrittenByAnyone(r, user) == r.author \in Users

\* post.isWrittenBy(currentUserEmail)
IsWrittenBy(r, user) == r.author = user

\* Variant: the transaction puts into the cache what it is about to commit.
FindWritingThrough(q) ==
  LET r == row[call[q].post] IN
  /\ pc[q] = "find"
  /\ loaded' = [loaded EXCEPT ![q] = r]
  /\ Goes(q, IF r = NoRow THEN "missing"
             ELSE IF IsWrittenBy(r, call[q].user) THEN "commit" ELSE "forbidden")
  /\ cached' = IF r # NoRow /\ call[q].kind = "update"
               THEN [cached EXCEPT ![call[q].post] =
                       [r EXCEPT !.content = call[q].content, !.version = @ + 1]]
               ELSE cached
  /\ UNCHANGED <<store, call, wrote, lateFills>>

\* update and delete up to the end of the service method.
Find(q) ==
  LET r == row[call[q].post] IN
  /\ pc[q] = "find"
  /\ loaded' = [loaded EXCEPT ![q] = r]
  /\ Goes(q, IF r = NoRow THEN "missing"
             ELSE IF IsWrittenBy(r, call[q].user) THEN "commit" ELSE "forbidden")
  /\ UNCHANGED <<store, cached, call, wrote, lateFills>>

\* Variant: nobody evicts.
AfterCommitAnswered(q) == \E s \in {"answered", "failed"} : Goes(q, s)

\* Where a call is once its transaction committed; the commit may have been
\* made although its answer never came.
AfterCommit(q) == \E s \in {"evict", "failed"} : Goes(q, s)

\* Variant: the flush inserts the row when it is gone.
CommitUpsert(q) ==
  LET p == call[q].post
      changed == [content |-> call[q].content, author |-> loaded[q].author, version |-> version[p] + 1]
  IN
  /\ pc[q] = "commit"
  /\ call[q].kind = "update"
  /\ call[q].content # loaded[q].content
  /\ Commit(q, p, changed)
  /\ AfterCommit(q)
  /\ UNCHANGED <<cached, call, loaded, lateFills>>

\* The flush of update writes every column of the entity that was found, if
\* the entity changed; that no row matches fails the call.
CommitUpdate(q) ==
  LET p == call[q].post
      changed == [content |-> call[q].content, author |-> loaded[q].author, version |-> version[p] + 1]
  IN
  /\ pc[q] = "commit"
  /\ call[q].kind = "update"
  /\ call[q].content # loaded[q].content
  /\ row[p] # NoRow
  /\ Commit(q, p, changed)
  /\ AfterCommit(q)
  /\ UNCHANGED <<cached, call, loaded, lateFills>>

CommitUnchanged(q) ==
  /\ pc[q] = "commit"
  /\ call[q].kind = "update"
  /\ call[q].content = loaded[q].content
  /\ AfterCommit(q)
  /\ UNCHANGED <<store, cached, call, loaded, wrote, lateFills>>

\* Variant of the next: a delete that does not count the rows it deleted.
CommitDeleteUncounted(q) ==
  LET p == call[q].post IN
  /\ pc[q] = "commit"
  /\ call[q].kind = "delete"
  /\ Commit(q, p, NoRow)
  /\ AfterCommit(q)
  /\ UNCHANGED <<cached, call, loaded, lateFills>>

CommitDelete(q) ==
  LET p == call[q].post IN
  /\ pc[q] = "commit"
  /\ call[q].kind = "delete"
  /\ row[p] # NoRow
  /\ Commit(q, p, NoRow)
  /\ AfterCommit(q)
  /\ UNCHANGED <<cached, call, loaded, lateFills>>

\* The database refuses: a row that is gone, a lost connection.
RollBack(q) ==
  /\ pc[q] \in {"load", "insert", "find", "commit"}
  /\ Goes(q, "failed")
  /\ UNCHANGED <<store, cached, call, loaded, wrote, lateFills>>

\* PostController, after the service returned.
Evict(q) ==
  /\ pc[q] = "evict"
  /\ cached' = [cached EXCEPT ![call[q].post] = NoRow]
  /\ \E s \in {"answered", "failed"} : Goes(q, s)
  /\ UNCHANGED <<store, call, loaded, wrote, lateFills>>

-----------------------------------------------------------------------------
\* Variant: set without a time to live.
NeverExpire(p) == p \notin PostIds /\ UNCHANGED vars

\* An entry lives for post-ttl-seconds.
Expire(p) ==
  /\ cached[p] # NoRow
  /\ cached' = [cached EXCEPT ![p] = NoRow]
  /\ UNCHANGED <<store, pc, call, loaded, wrote, lateFills>>

\* The process dies with the calls it serves; table and cache stay.
Crash ==
  /\ \E q \in Requests : pc[q] \in Active
  /\ pc' = [q \in Requests |-> IF pc[q] \in Active THEN "failed" ELSE pc[q]]
  /\ UNCHANGED <<store, cached, call, loaded, wrote, lateFills>>

\* The table may hold posts when the program starts; the cache is empty.
Init ==
  /\ row \in [PostIds -> [content : Contents, author : Users, version : {1}] \union {NoRow}]
  /\ version = [p \in PostIds |-> IF row[p] = NoRow THEN 0 ELSE 1]
  /\ committed = {<<p, row[p]>> : p \in {x \in PostIds : row[x] # NoRow}}
  /\ cached = [p \in PostIds |-> NoRow]
  /\ pc = [q \in Requests |-> "idle"]
  /\ call = [q \in Requests |-> NoCall]
  /\ loaded = [q \in Requests |-> NoRow]
  /\ wrote = [q \in Requests |-> 0]
  /\ lateFills = {}

Step(q) ==
  \/ CacheHit(q) \/ CacheMiss(q) \/ Load(q) \/ Fill(q) \/ CacheFails(q)
  \/ Create(q)
  \/ Find(q) \/ CommitUpdate(q) \/ CommitUnchanged(q) \/ CommitDelete(q) \/ RollBack(q) \/ Evict(q)

Next ==
  \/ \E q \in Requests : Step(q) \/ \E c \in Call : Receive(q, c)
  \/ \E p \in PostIds : Expire(p)
  \/ Crash

Spec == Init /\ [][Next]_vars

\* Calls that were received are served, and Redis removes what has expired.
FairSpec == /\ Spec
            /\ \A q \in Requests : WF_vars(Step(q))
            /\ \A p \in PostIds : WF_vars(Expire(p))

-----------------------------------------------------------------------------
(* Properties                                                               *)

\* The variables have their types; an entry of the table carries the version
\* its id has.
TypeOK ==
  /\ row \in [PostIds -> Row \union {NoRow}]
  /\ version \in [PostIds -> Nat]
  /\ cached \in [PostIds -> Row \union {NoRow}]
  /\ pc \in [Requests -> Active \union Ended \union {"idle"}]
  /\ call \in [Requests -> Call \union {NoCall}]
  /\ \A q \in Requests : pc[q] = "idle" <=> call[q] = NoCall
  /\ loaded \in [Requests -> Row \union {NoRow}]
  /\ wrote \in [Requests -> Nat]
  /\ lateFills \subseteq Requests
  /\ committed \subseteq PostIds \X Row
  /\ \A p \in PostIds : row[p] # NoRow => row[p].version = version[p] /\ version[p] > 0

\* Nobody reads what was never committed: an entry of the cache, and the answer
\* of a get, is a row the table has or had under that id.
ReadsAreCommitted ==
  /\ \A p \in PostIds : cached[p] # NoRow => <<p, cached[p]>> \in committed
  /\ \A q \in Requests :
       pc[q] \in {"fill", "answered"} /\ call[q].kind = "get" => <<call[q].post, loaded[q]>> \in committed

Stale(p) == cached[p] # NoRow /\ cached[p] # row[p]

\* An entry is out of date only while a call has committed a newer row and not
\* evicted it, or ended before it could, or because a read that overtook
\* nobody's eviction filled the cache late.  The controller evicts after the
\* commit, so no other order of steps leaves an old row behind.
StaleIsExplained ==
  \A p \in PostIds : Stale(p) =>
    \E q \in Requests :
      /\ \/ wrote[q] > cached[p].version /\ pc[q] \in {"evict", "failed"}
         \/ q \in lateFills /\ loaded[q] = cached[p]
      /\ call[q].post = p

\* A post is deleted by one call at most: of two deletes that both found it
\* one commits, and the other finds no row to delete.
DeletedOnce ==
  \A q, s \in Requests :
    (/\ q # s
     /\ pc[q] \in {"evict", "answered"} /\ pc[s] \in {"evict", "answered"}
     /\ call[q].kind = "delete" /\ call[s].kind = "delete")
    => call[q].post # call[s].post

\* What an id stands for in the abstract store, and whose calls wrote to it.
Stands(p) ==
  IF row[p] # NoRow THEN [author |-> row[p].author, content |-> row[p].content]
  ELSE IF version[p] = 0 THEN Fresh ELSE Gone

Writes(q, p) == wrote[q] > 0 /\ call[q].kind \in {"update", "delete"} /\ call[q].post = p

Writers(p) == {call[q].user : q \in {s \in Requests : Writes(s, p)}}

Store == INSTANCE PostStore WITH
  posts <- [p \in PostIds |-> Stands(p)],
  editors <- [p \in PostIds |-> Writers(p)]

\* The table is the abstract store, although the author is checked in an
\* earlier step than the commit and no row is locked in between: whoever's
\* call takes effect on a post is its author, an update that found a post
\* cannot bring it back or give it another author, and no id is used twice.
ImplementsPostStore == Store!StoreSpec

\* In the end the cache has nothing the table does not have: whatever races and
\* failures left behind expires.
EventuallyConsistent == <>[](\A p \in PostIds : ~Stale(p))
=============================================================================
