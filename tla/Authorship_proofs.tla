-------------------------- MODULE Authorship_proofs --------------------------
(***************************************************************************)
(* What TLAPS proves about tokens, posts and the accounts behind them, for *)
(* any numbers of calls, mailboxes, spellings, persons and posts.          *)
(***************************************************************************)
EXTENDS Authorship, Accounts_proofs

USE DEF vars, allVars, accountVars, postVars

\* The steps of the composition are those of the accounts, or leave them alone.
LEMMA AccountsPart == [AuthorshipNext]_allVars => [Next]_vars
  BY DEF AuthorshipNext, AccountStep, Login, Publish, EditOrRemove, Next

\* All that is proved about the accounts holds in the composition.
THEOREM AccountsInComposition == AuthorshipSpec => Spec
<1>1. AuthorshipInit => Init
  BY DEF AuthorshipInit
<1> QED
  BY <1>1, AccountsPart, PTL DEF AuthorshipSpec, Spec

\* Logins, posts and tokens beside them leave mailboxes, registered accounts
\* and identities as the accounts keep them.
THEOREM AccountsStayTheirs ==
  AuthorshipSpec => []OneAccountPerMailbox /\ []RegisteredStays /\ AccountsKeepIdentity
  BY AccountsInComposition, OneForAMailbox, RegisteredKept, IdentitiesAreKept

\* A token names a row, and its address while the row was not renamed.
TokensHaveRows == \A t \in tokens :
  \E u \in users : u.id = t.account /\ (t.account \notin renamed => u.email = t.email)

\* The author of a post is the address of the owner's row while that was not
\* renamed.
PostsHaveOwners == \A p \in PostIds : Store!IsPost(p) =>
  \E u \in users : u.id = owner[p] /\ (owner[p] \notin renamed => u.email = posts[p].author)

\* A first login that is not the first any more ran beside the one that was.
LateFirstLogins == \A q \in Requests :
  pc[q] \in {"findEmail", "insert"} /\ call[q].kind = "oauth" =>
    \A u \in users : u.identity = call[q].identity => u.identity \in raced

\* The inductive invariant of the safety properties.
AuthorshipInv ==
  /\ AccountsInv
  /\ AuthorshipTypeOK
  /\ TokensHaveRows
  /\ PostsHaveOwners
  /\ LateFirstLogins
  /\ TwinsByOverlap

-----------------------------------------------------------------------------
(* What a step of an account does to its row, its tokens and its history.   *)

\* A row keeps its address, or its id is put among the renamed.
LEMMA RowsAreFollowed ==
  ASSUME AccountsInv, NEW q \in Requests, AccountStep(q), NEW u \in users
  PROVE  \E v \in users' : v.id = u.id /\ (v.id \notin renamed' => v.email = u.email)
<1>1. [Next]_vars
  BY DEF AccountStep, Next
<1>2. PICK v \in users' : v.id = u.id /\ v.identity = u.identity
  BY <1>1, RowsStay DEF AccountsInv
<1>3. v.email # u.email => u.id \in renamed'
  BY <1>2 DEF AccountStep
<1> QED
  BY <1>2, <1>3

\* A token is issued by a login for the row it just wrote.
LEMMA IssuedOfItsRow ==
  ASSUME AccountsInv, NEW q \in Requests, Step(q), NEW t \in Issued(q)
  PROVE  t \in Token /\ \E u \in users' : u.id = t.account /\ u.email = t.email
<1> USE DEF AccountsInv
<1>1. pc'[q] = "answered" /\ pc[q] # "answered"
      /\ t = [email |-> call[q].email, account |-> IF pc[q] = "save" THEN found[q].id ELSE nextId]
  BY DEF Issued
<1>2. Save(q) \/ Insert(q)
  BY <1>1 DEF Step, Receive, EnsureEmailAvailable, FindIdentity, CompareEmail, FindEmail, Fail, Goes, TypeOK
<1>3. CASE Save(q)
  <2>1. t.email = Saved(q).email /\ t.account = Saved(q).id
    BY <1>1, <1>3 DEF Save, Saved
  <2>2. Saved(q) \in users' /\ Saved(q) \in User
    BY <1>1, <1>3, SaveWrites DEF TypeOK
  <2> QED
    BY <1>1, <2>1, <2>2 DEF Token, User
<1>4. CASE Insert(q)
  <2>1. t.email = Inserted(q).email /\ t.account = Inserted(q).id
    BY <1>1, <1>4 DEF Insert, Inserted
  <2>2. Inserted(q) \in users' /\ Inserted(q) \in User
    BY <1>1, <1>4, InsertWrites DEF TypeOK
  <2> QED
    BY <1>1, <2>1, <2>2 DEF Token, User
<1> QED
  BY <1>2, <1>3, <1>4

\* Persons whose first logins run are persons of a provider.
LEMMA FirstLoginsArePersons ==
  ASSUME AccountsInv, NEW q \in Requests
  PROVE  FirstLoginsBeside(q) \subseteq Identities
<1>1. ASSUME NEW s \in Requests, pc[s] \in {"findEmail", "insert"}, call[s].kind = "oauth"
      PROVE  call[s].identity \in Identities
  BY <1>1, CallFields DEF AccountsInv
<1> QED
  BY <1>1 DEF FirstLoginsBeside

-----------------------------------------------------------------------------
(* The inductive invariant.                                                 *)

\* The abstract store stays one: a published id is a post until it is gone.
LEMMA PostsTyped ==
  ASSUME AuthorshipTypeOK, NEW t \in tokens, Publish(t) \/ EditOrRemove(t)
  PROVE  /\ posts' \in [PostIds -> Store!Post \union {Fresh, Gone}]
         /\ editors' \in [PostIds -> SUBSET Email]
         /\ owner' \in [PostIds -> Nat]
         /\ \A p \in PostIds : owner'[p] = 0 <=> posts'[p] = Fresh
<1> USE AuthorshipAssumption DEF AuthorshipTypeOK, Store!Post, Store!IsPost
<1>1. t.email \in Email /\ t.account \in Nat \ {0}
  BY DEF Token
<1>2. ASSUME NEW p \in PostIds, Store!Publish(p, t.email, Content), owner' = [owner EXCEPT ![p] = t.account]
      PROVE  /\ posts' \in [PostIds -> Store!Post \union {Fresh, Gone}]
             /\ editors' \in [PostIds -> SUBSET Email]
             /\ owner' \in [PostIds -> Nat]
             /\ \A x \in PostIds : owner'[x] = 0 <=> posts'[x] = Fresh
  BY <1>1, <1>2 DEF Store!Publish
<1>3. ASSUME NEW p \in PostIds, Store!Edit(p, t.email, Content) \/ Store!Remove(p, t.email), owner' = owner
      PROVE  /\ posts' \in [PostIds -> Store!Post \union {Fresh, Gone}]
             /\ editors' \in [PostIds -> SUBSET Email]
             /\ owner' \in [PostIds -> Nat]
             /\ \A x \in PostIds : owner'[x] = 0 <=> posts'[x] = Fresh
  BY <1>1, <1>3 DEF Store!Edit, Store!Remove, Store!ActsOn
<1> QED
  BY <1>2, <1>3 DEF Publish, EditOrRemove

\* Every action, and stuttering, leaves the variables of the composition well
\* typed.
LEMMA AuthorshipTypeStep ==
  AccountsInv /\ AuthorshipTypeOK /\ TokensHaveRows /\ [AuthorshipNext]_allVars => AuthorshipTypeOK'
<1> SUFFICES ASSUME AccountsInv, AuthorshipTypeOK, TokensHaveRows, [AuthorshipNext]_allVars
             PROVE  AuthorshipTypeOK'
  OBVIOUS
<1>1. TypeOK'
  BY AccountsPart, AccountsStep DEF AccountsInv
<1> USE <1>1 DEF AuthorshipTypeOK
<1>2. ASSUME NEW q \in Requests, AccountStep(q) PROVE AuthorshipTypeOK'
  <2>1. \A i \in {u.id : u \in users} : i \in {u.id : u \in users'}
    BY <1>2, RowsAreFollowed
  <2>2. tokens' \subseteq Token /\ \A t \in tokens' : t.account \in {u.id : u \in users'}
    BY <1>2, <2>1, IssuedOfItsRow DEF AccountStep
  <2>3. renamed' \subseteq {u.id : u \in users'}
    BY <1>2, <2>1 DEF AccountStep
  <2>4. raced' \subseteq Identities
    BY <1>2, FirstLoginsArePersons DEF AccountStep
  <2> QED
    BY <1>2, <2>2, <2>3, <2>4 DEF AccountStep
<1>3. ASSUME Login PROVE AuthorshipTypeOK'
  <2>1. PICK u \in users : tokens' = tokens \union {[email |-> u.email, account |-> u.id]}
    BY <1>3 DEF Login
  <2>2. [email |-> u.email, account |-> u.id] \in Token
    BY DEF TypeOK, User, Token
  <2> QED
    BY <1>3, <2>1, <2>2 DEF Login
<1>4. ASSUME NEW t \in tokens, Publish(t) \/ EditOrRemove(t) PROVE AuthorshipTypeOK'
  BY <1>4, PostsTyped DEF Publish, EditOrRemove
<1>5. ASSUME UNCHANGED allVars PROVE AuthorshipTypeOK'
  BY <1>5
<1> QED
  BY <1>2, <1>3, <1>4, <1>5 DEF AuthorshipNext

\* A token keeps its row, and its address unless the row was renamed.
LEMMA TokensStep ==
  AccountsInv /\ TokensHaveRows /\ [AuthorshipNext]_allVars => TokensHaveRows'
<1> SUFFICES ASSUME AccountsInv, TokensHaveRows, [AuthorshipNext]_allVars, NEW t \in tokens'
             PROVE  \E u \in users' : u.id = t.account /\ (t.account \notin renamed' => u.email = t.email)
  BY DEF TokensHaveRows
<1> USE DEF TokensHaveRows
<1>1. ASSUME NEW q \in Requests, AccountStep(q), t \in tokens
      PROVE  \E u \in users' : u.id = t.account /\ (t.account \notin renamed' => u.email = t.email)
  <2>1. PICK u \in users : u.id = t.account /\ (t.account \notin renamed => u.email = t.email)
    BY <1>1
  <2>2. renamed \subseteq renamed'
    BY <1>1 DEF AccountStep
  <2> QED
    BY <1>1, <2>1, <2>2, RowsAreFollowed
<1>2. ASSUME NEW q \in Requests, AccountStep(q), t \notin tokens
      PROVE  \E u \in users' : u.id = t.account /\ (t.account \notin renamed' => u.email = t.email)
  BY <1>2, IssuedOfItsRow DEF AccountStep
<1>3. ASSUME Login
      PROVE  \E u \in users' : u.id = t.account /\ (t.account \notin renamed' => u.email = t.email)
  BY <1>3 DEF Login
<1>4. ASSUME UNCHANGED <<users, tokens, renamed>>
      PROVE  \E u \in users' : u.id = t.account /\ (t.account \notin renamed' => u.email = t.email)
  BY <1>4
<1> QED
  BY <1>1, <1>2, <1>3, <1>4 DEF AuthorshipNext, Publish, EditOrRemove

\* A post is published with the address of the token, whose row is its owner's,
\* and its author does not follow the row.
LEMMA OwnersStep ==
  AccountsInv /\ AuthorshipTypeOK /\ TokensHaveRows /\ PostsHaveOwners /\ [AuthorshipNext]_allVars
    => PostsHaveOwners'
<1> SUFFICES ASSUME AccountsInv, AuthorshipTypeOK, TokensHaveRows, PostsHaveOwners,
                    [AuthorshipNext]_allVars, NEW p \in PostIds, Store!IsPost(p)'
             PROVE  \E u \in users' :
                      u.id = owner'[p] /\ (owner'[p] \notin renamed' => u.email = posts'[p].author)
  BY DEF PostsHaveOwners
<1> USE DEF PostsHaveOwners, Store!IsPost
<1>1. ASSUME NEW q \in Requests, AccountStep(q)
      PROVE  \E u \in users' :
               u.id = owner'[p] /\ (owner'[p] \notin renamed' => u.email = posts'[p].author)
  <2>1. UNCHANGED <<posts, owner>> /\ renamed \subseteq renamed'
    BY <1>1 DEF AccountStep
  <2>2. PICK u \in users : u.id = owner[p] /\ (owner[p] \notin renamed => u.email = posts[p].author)
    BY <2>1
  <2> QED
    BY <1>1, <2>1, <2>2, RowsAreFollowed
<1>2. ASSUME NEW t \in tokens, Publish(t)
      PROVE  \E u \in users' :
               u.id = owner'[p] /\ (owner'[p] \notin renamed' => u.email = posts'[p].author)
  BY <1>2 DEF Publish, Store!Publish, AuthorshipTypeOK, TokensHaveRows
<1>3. ASSUME NEW t \in tokens, EditOrRemove(t)
      PROVE  \E u \in users' :
               u.id = owner'[p] /\ (owner'[p] \notin renamed' => u.email = posts'[p].author)
  BY <1>3 DEF EditOrRemove, Store!Edit, Store!Remove, Store!ActsOn, AuthorshipTypeOK
<1>4. ASSUME UNCHANGED <<users, posts, owner, renamed>>
      PROVE  \E u \in users' :
               u.id = owner'[p] /\ (owner'[p] \notin renamed' => u.email = posts'[p].author)
  BY <1>4
<1> QED
  BY <1>1, <1>2, <1>3, <1>4 DEF AuthorshipNext, Login

\* A row is an earlier one under its id and its identity, or it was inserted.
LEMMA RowsCome ==
  ASSUME AccountsInv, NEW q \in Requests, AccountStep(q), NEW v \in users'
  PROVE  \/ \E u \in users : u.id = v.id /\ u.identity = v.identity
         \/ Insert(q) /\ v = Inserted(q) /\ v.id = nextId
<1>1. CASE UNCHANGED users
  BY <1>1
<1>2. CASE Save(q)
  BY <1>2, SaveWrites DEF AccountsInv
<1>3. CASE Insert(q)
  <2>1. Inserted(q).id = nextId
    BY DEF Inserted
  <2> QED
    BY <1>3, <2>1, InsertWrites DEF AccountsInv
<1> QED
  BY <1>1, <1>2, <1>3
     DEF AccountStep, Step, Receive, EnsureEmailAvailable, FindIdentity, CompareEmail, FindEmail, Fail

\* When an account is inserted, every other first login of its person that is
\* under way is remembered.
LEMMA LateStep ==
  AccountsInv /\ LateFirstLogins /\ [AuthorshipNext]_allVars => LateFirstLogins'
<1> SUFFICES ASSUME AccountsInv, LateFirstLogins, [AuthorshipNext]_allVars,
                    NEW q \in Requests, pc'[q] \in {"findEmail", "insert"}, call'[q].kind = "oauth",
                    NEW v \in users', v.identity = call'[q].identity
             PROVE  v.identity \in raced'
  BY DEF LateFirstLogins
<1> USE DEF AccountsInv, LateFirstLogins
<1>1. ASSUME NEW s \in Requests, AccountStep(s), s # q PROVE v.identity \in raced'
  <2>1. pc'[q] = pc[q] /\ call'[q] = call[q]
    BY <1>1 DEF AccountStep, Step, Receive, EnsureEmailAvailable, FindIdentity, CompareEmail,
                FindEmail, Save, Insert, Fail, Goes, TypeOK
  <2>2. CASE \E u \in users : u.identity = v.identity
    BY <1>1, <2>1, <2>2 DEF AccountStep
  <2>3. CASE Insert(s) /\ v = Inserted(s) /\ v.id = nextId
    <3>1. call[q].identity \in FirstLoginsBeside(s)
      BY <1>1, <2>1 DEF FirstLoginsBeside
    <3> QED
      BY <1>1, <2>1, <2>3, <3>1 DEF AccountStep
  <2> QED
    BY <1>1, <2>2, <2>3, RowsCome
<1>2. ASSUME AccountStep(q) PROVE v.identity \in raced'
  <2>1. raced \subseteq raced'
    BY <1>2 DEF AccountStep
  <2>2. EnsureEmailAvailable(q) \/ FindIdentity(q) \/ FindEmail(q)
    BY <1>2, CallFields
       DEF AccountStep, Step, Receive, CompareEmail, Save, Insert, Fail, Goes, TypeOK, Call
  <2>3. CASE EnsureEmailAvailable(q)
    BY <2>3 DEF EnsureEmailAvailable, CallsAreInTheirStep
  <2>4. CASE FindIdentity(q)
    BY <2>4 DEF FindIdentity, Goes, TypeOK
  <2>5. CASE FindEmail(q)
    BY <2>1, <2>5 DEF FindEmail
  <2> QED
    BY <2>2, <2>3, <2>4, <2>5
<1>3. ASSUME UNCHANGED <<accountVars, raced>> PROVE v.identity \in raced'
  BY <1>3
<1> QED
  BY <1>1, <1>2, <1>3 DEF AuthorshipNext, Login, Publish, EditOrRemove

\* Only a late first login makes a second account of a person.
LEMMA TwinsStep ==
  AccountsInv /\ LateFirstLogins /\ TwinsByOverlap /\ [AuthorshipNext]_allVars => TwinsByOverlap'
<1> SUFFICES ASSUME AccountsInv, LateFirstLogins, TwinsByOverlap, [AuthorshipNext]_allVars,
                    NEW u \in users', NEW v \in users', u # v, u.identity = v.identity,
                    u.identity # Local
             PROVE  u.identity \in raced'
  BY DEF TwinsByOverlap
<1> USE DEF AccountsInv
<1>1. ASSUME NEW q \in Requests, AccountStep(q) PROVE u.identity \in raced'
  <2>1. raced \subseteq raced'
    BY <1>1 DEF AccountStep
  <2>2. u.id # v.id
    BY <1>1, AccountsPart, AccountsStep DEF TypeOK
  <2>3. ASSUME NEW w \in users', w.identity = u.identity, Insert(q), w = Inserted(q),
               NEW x \in users, x.identity = w.identity
        PROVE  w.identity \in raced
    <3>1. pc[q] = "insert" /\ w.identity = Identity(call[q])
      BY <2>3 DEF Insert, Inserted
    <3>2. call[q].kind = "oauth" /\ w.identity = call[q].identity
      BY <2>3, <3>1 DEF Identity
    <3> QED
      BY <2>3, <3>1, <3>2 DEF LateFirstLogins
  <2> QED
    BY <1>1, <2>1, <2>2, <2>3, RowsCome DEF TwinsByOverlap
<1>2. ASSUME UNCHANGED <<users, raced>> PROVE u.identity \in raced'
  BY <1>2 DEF TwinsByOverlap
<1> QED
  BY <1>1, <1>2 DEF AuthorshipNext, Login, Publish, EditOrRemove

\* The initial state satisfies the inductive invariant.
LEMMA AuthorshipInitially == AuthorshipInit => AuthorshipInv
<1> SUFFICES ASSUME AuthorshipInit PROVE AuthorshipInv
  OBVIOUS
<1>1. AccountsInv
  BY AccountsInit DEF AuthorshipInit
<1>2. AuthorshipTypeOK
  BY <1>1 DEF AuthorshipInit, AuthorshipTypeOK, AccountsInv
<1>3. TokensHaveRows /\ PostsHaveOwners /\ LateFirstLogins /\ TwinsByOverlap
  BY DEF AuthorshipInit, Init, TokensHaveRows, PostsHaveOwners, LateFirstLogins, TwinsByOverlap,
         Store!IsPost
<1> QED
  BY <1>1, <1>2, <1>3 DEF AuthorshipInv

\* The inductive invariant is kept by every step.
LEMMA AuthorshipStep == AuthorshipInv /\ [AuthorshipNext]_allVars => AuthorshipInv'
  BY AccountsPart, AccountsStep, AuthorshipTypeStep, TokensStep, OwnersStep, LateStep, TwinsStep
     DEF AuthorshipInv

-----------------------------------------------------------------------------
(* The theorems.                                                            *)

\* Every reachable state of the composition satisfies the inductive invariant.
THEOREM AuthorshipInductive == AuthorshipSpec => []AuthorshipInv
  BY AuthorshipInitially, AuthorshipStep, PTL DEF AuthorshipSpec

\* The variables of the composition have their types; a token names an account
\* of the table, and a post has an owner once it was published.
THEOREM AuthorshipTypeCorrect == AuthorshipSpec => []AuthorshipTypeOK
<1>1. AuthorshipInv => AuthorshipTypeOK
  BY DEF AuthorshipInv
<1> QED
  BY <1>1, AuthorshipInductive, PTL

\* A person gets a second account only by first logins that overlap.
THEOREM TwinsOverlap == AuthorshipSpec => []TwinsByOverlap
<1>1. AuthorshipInv => TwinsByOverlap
  BY DEF AuthorshipInv
<1> QED
  BY <1>1, AuthorshipInductive, PTL

\* The row a token names answers for it alone: the mailbox has one account.
LEMMA TokenSpeaks == AuthorshipInv => TokenSpeaksForItsAccount
<1> SUFFICES ASSUME AuthorshipInv, NEW t \in tokens, t.account \notin renamed
             PROVE  {[email |-> u.email, account |-> u.id] : u \in CurrentUser(t)} = {t}
  BY DEF TokenSpeaksForItsAccount
<1>1. PICK u \in users : u.id = t.account /\ u.email = t.email
  BY DEF AuthorshipInv, TokensHaveRows
<1>2. t \in Token /\ u \in User
  BY DEF AuthorshipInv, AuthorshipTypeOK, TypeOK
<1>3. t = [email |-> u.email, account |-> u.id]
  BY <1>1, <1>2 DEF Token
<1>4. SameAddress(u.email, NormalizeEmail(t.email))
  BY <1>1, <1>2 DEF SameAddress, NormalizeEmail
<1>5. \A v \in users : SameAddress(v.email, NormalizeEmail(t.email)) => v = u
  BY <1>4 DEF AuthorshipInv, AccountsInv, OneAccountPerMailbox, SameAddress
<1>6. CurrentUser(t) = {u}
  BY <1>4, <1>5 DEF CurrentUser
<1> QED
  BY <1>3, <1>6

\* While an account is not renamed, /auth/me answers its tokens with it.
THEOREM TokensSpeak == AuthorshipSpec => []TokenSpeaksForItsAccount
  BY TokenSpeaks, AuthorshipInductive, PTL

\* Equal addresses are those of one row, and one row has one address.
LEMMA AccessFollows == AuthorshipInv => AccessFollowsAuthor
<1> SUFFICES ASSUME AuthorshipInv, NEW t \in tokens, NEW p \in PostIds, Store!IsPost(p),
                    t.account \notin renamed, owner[p] \notin renamed
             PROVE  t.email = posts[p].author <=> t.account = owner[p]
  BY DEF AccessFollowsAuthor
<1>1. PICK u \in users : u.id = t.account /\ u.email = t.email
  BY DEF AuthorshipInv, TokensHaveRows
<1>2. PICK v \in users : v.id = owner[p] /\ v.email = posts[p].author
  BY DEF AuthorshipInv, PostsHaveOwners
<1>3. u.email = v.email => u = v
  BY DEF AuthorshipInv, AccountsInv, OneAccountPerMailbox, SameAddress
<1>4. u.id = v.id => u = v
  BY DEF AuthorshipInv, AccountsInv, TypeOK
<1> QED
  BY <1>1, <1>2, <1>3, <1>4

\* Without a rename exactly the tokens of the account that wrote a post may
\* edit or delete it, although only addresses are compared.
THEOREM AccessIsTheAuthors == AuthorshipSpec => []AccessFollowsAuthor
  BY AccessFollows, AuthorshipInductive, PTL
=============================================================================
