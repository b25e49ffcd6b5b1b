------------------------------ MODULE PostStore ------------------------------
(***************************************************************************)
(* What the posts table promises, whatever calls run side by side: an id   *)
(* is given to one post, the post keeps its author, only the author's      *)
(* calls take effect on it, and once it is gone it stays gone.             *)
(***************************************************************************)
CONSTANTS PostIds, Users, Contents,
          Fresh,   \* no post was given the id yet
          Gone     \* its post was deleted

Post == [author : Users, content : Contents]

VARIABLES posts,   \* what each id stands for
          editors  \* whose updates and deletes took effect on it

storeVars == <<posts, editors>>

IsPost(p) == posts[p] \notin {Fresh, Gone}

Publish(p, u, c) ==
  /\ posts[p] = Fresh
  /\ posts' = [posts EXCEPT ![p] = [author |-> u, content |-> c]]
  /\ UNCHANGED editors

\* What user u may do to post p leaves its value at v.
ActsOn(p, u, v) ==
  /\ IsPost(p)
  /\ posts[p].author = u
  /\ posts' = [posts EXCEPT ![p] = v]
  /\ editors' = [editors EXCEPT ![p] = @ \union {u}]

Edit(p, u, c) == ActsOn(p, u, [author |-> posts[p].author, content |-> c])
Remove(p, u) == ActsOn(p, u, Gone)

StoreInit ==
  /\ posts \in [PostIds -> Post \union {Fresh}]
  /\ editors = [p \in PostIds |-> {}]

StoreNext == \E p \in PostIds, u \in Users :
  \/ \E c \in Contents : Publish(p, u, c) \/ Edit(p, u, c)
  \/ Remove(p, u)

StoreSpec == StoreInit /\ [][StoreNext]_storeVars
=============================================================================
