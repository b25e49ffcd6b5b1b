--------------------------- MODULE Accounts_proofs ---------------------------
(***************************************************************************)
(* What TLAPS proves about the accounts, for any numbers of calls,         *)
(* mailboxes, spellings and persons.                                       *)
(***************************************************************************)
EXTENDS Accounts, TLAPS

USE DEF vars

\* A call is only in the steps of its kind.
CallsAreInTheirStep == \A q \in Requests :
  /\ pc[q] \in {"exists", "created"} => call[q].kind = "signUp"
  /\ pc[q] \in {"identify", "compare", "save", "findEmail", "answered"} => call[q].kind = "oauth"

\* The row a login holds is detached from the table, which may have another
\* address for it by now, but its id and its person are those of a row.
HeldRowExists == \A q \in Requests : pc[q] \in {"compare", "save"} =>
  /\ found[q] # NoUser
  /\ found[q].identity = call[q].identity
  /\ \E u \in users : u.id = found[q].id /\ u.identity = found[q].identity

\* The inductive invariant of the safety properties.
AccountsInv ==
  /\ TypeOK
  /\ CallsAreInTheirStep
  /\ HeldRowExists
  /\ OneAccountPerMailbox
  /\ RegisteredStays

-----------------------------------------------------------------------------
(* Types.                                                                   *)

\* What a call in one of its steps asks for.
LEMMA CallFields ==
  ASSUME TypeOK, NEW q \in Requests, pc[q] # "idle"
  PROVE  /\ call[q] \in Call
         /\ call[q].kind \in {"signUp", "oauth"}
         /\ call[q].email \in Email
         /\ call[q].kind = "oauth" => call[q].identity \in Identities
         /\ Identity(call[q]) \in Identities \union {Local}
<1>1. call[q] \in Call
  BY DEF TypeOK
<1> QED
  BY <1>1 DEF Call, Identity

\* The initial state is well typed.
LEMMA TypeInit == Init => TypeOK
  BY DEF Init, TypeOK, Steps

\* Lowering the spelling of an address makes an address of the same mailbox.
LEMMA Normalized ==
  ASSUME NEW e \in Email
  PROVE  NormalizeEmail(e) \in Email /\ SameAddress(NormalizeEmail(e), e)
  BY AccountsAssumption DEF Email, NormalizeEmail, SameAddress

\* Every call is in the steps of its kind, from its arrival on.
LEMMA InTheirStepStep == TypeOK /\ CallsAreInTheirStep /\ [Next]_vars => CallsAreInTheirStep'
<1> SUFFICES ASSUME TypeOK, CallsAreInTheirStep, [Next]_vars PROVE CallsAreInTheirStep'
  OBVIOUS
<1> USE DEF TypeOK, CallsAreInTheirStep, Goes
<1>1. ASSUME NEW q \in Requests, NEW c \in Call, Receive(q, c) PROVE CallsAreInTheirStep'
  BY <1>1 DEF Receive, Call
<1>2. ASSUME NEW q \in Requests, EnsureEmailAvailable(q) PROVE CallsAreInTheirStep'
  BY <1>2 DEF EnsureEmailAvailable
<1>3. ASSUME NEW q \in Requests, FindIdentity(q) PROVE CallsAreInTheirStep'
  BY <1>3 DEF FindIdentity
<1>4. ASSUME NEW q \in Requests, CompareEmail(q) PROVE CallsAreInTheirStep'
  BY <1>4 DEF CompareEmail
<1>5. ASSUME NEW q \in Requests, FindEmail(q) PROVE CallsAreInTheirStep'
  BY <1>5 DEF FindEmail
<1>6. ASSUME NEW q \in Requests, Save(q) PROVE CallsAreInTheirStep'
  BY <1>6 DEF Save
<1>7. ASSUME NEW q \in Requests, Insert(q) PROVE CallsAreInTheirStep'
  BY <1>7, CallFields DEF Insert
<1>8. ASSUME NEW q \in Requests, Fail(q) PROVE CallsAreInTheirStep'
  BY <1>8 DEF Fail
<1>9. ASSUME UNCHANGED vars PROVE CallsAreInTheirStep'
  BY <1>9
<1> QED
  BY <1>1, <1>2, <1>3, <1>4, <1>5, <1>6, <1>7, <1>8, <1>9 DEF Next, Step

\* What Save writes: the row it holds, with the address of the call.
Saved(q) == [id |-> found[q].id, email |-> call[q].email, identity |-> found[q].identity]

\* What Insert writes.
Inserted(q) == [id |-> nextId, email |-> call[q].email, identity |-> Identity(call[q])]

\* A save replaces the row that has its id, if the index admits the address.
LEMMA SaveWrites ==
  ASSUME TypeOK, CallsAreInTheirStep, HeldRowExists, NEW q \in Requests, Save(q)
  PROVE  /\ Saved(q) \in User /\ Saved(q).identity \in Identities /\ Saved(q).id < nextId
         /\ \E u \in users : u.id = Saved(q).id /\ u.identity = Saved(q).identity
         /\ UNCHANGED <<nextId, call, found>>
         /\ \/ /\ users' = {u \in users : u.id # Saved(q).id} \union {Saved(q)}
               /\ \A u \in users : SameAddress(u.email, Saved(q).email) => u.id = Saved(q).id
               /\ pc' = [pc EXCEPT ![q] = "answered"]
            \/ users' = users /\ pc' = [pc EXCEPT ![q] = "failed"]
<1>1. pc[q] = "save" /\ call[q].kind = "oauth" /\ call[q].email \in Email /\ call[q].identity \in Identities
  BY CallFields DEF Save, CallsAreInTheirStep
<1>2. /\ found[q] \in User /\ found[q].identity = call[q].identity
      /\ \E u \in users : u.id = found[q].id /\ u.identity = found[q].identity
  BY <1>1 DEF HeldRowExists, TypeOK
<1>3. Saved(q) \in User /\ Saved(q).identity \in Identities
  BY <1>1, <1>2 DEF Saved, User
<1>4. Saved(q).id = found[q].id /\ Saved(q).identity = found[q].identity /\ Saved(q).email = call[q].email
  BY DEF Saved
<1>5. Saved(q).id < nextId
  BY <1>2, <1>4 DEF TypeOK
<1> QED
  BY <1>2, <1>3, <1>4, <1>5 DEF Save, Saved, Admits, Goes

\* An insert adds a row with an id that none has, if no row has its mailbox.
LEMMA InsertWrites ==
  ASSUME TypeOK, NEW q \in Requests, Insert(q)
  PROVE  /\ Inserted(q) \in User
         /\ nextId' = nextId + 1 /\ UNCHANGED <<call, found>>
         /\ \/ /\ users' = users \union {Inserted(q)}
               /\ \A u \in users : ~SameAddress(u.email, Inserted(q).email)
               /\ pc' = [pc EXCEPT ![q] = IF call[q].kind = "signUp" THEN "created" ELSE "answered"]
            \/ users' = users /\ pc' = [pc EXCEPT ![q] = "failed"]
<1>1. call[q].email \in Email /\ Identity(call[q]) \in Identities \union {Local}
  BY CallFields DEF Insert
<1>2. Inserted(q) \in User
  BY <1>1 DEF Inserted, User, TypeOK
<1>3. \A u \in users : u.id # nextId
  BY DEF TypeOK, User
<1>4. Inserted(q).email = call[q].email
  BY DEF Inserted
<1> QED
  BY <1>2, <1>3, <1>4 DEF Insert, Inserted, Admits, Goes

\* No other step writes to the table.
LEMMA TableSteps ==
  ASSUME [Next]_vars
  PROVE  (\E q \in Requests : Save(q) \/ Insert(q)) \/ UNCHANGED <<users, nextId>>
  BY DEF Next, Step, Receive, EnsureEmailAvailable, FindIdentity, CompareEmail, FindEmail, Fail

\* Every action, and stuttering, leaves the variables well typed.
LEMMA TypeStep == TypeOK /\ CallsAreInTheirStep /\ HeldRowExists /\ [Next]_vars => TypeOK'
<1> SUFFICES ASSUME TypeOK, CallsAreInTheirStep, HeldRowExists, [Next]_vars PROVE TypeOK'
  OBVIOUS
<1> USE AccountsAssumption DEF TypeOK, Steps, Ends, Goes
<1>1. ASSUME NEW q \in Requests, NEW c \in Call, Receive(q, c) PROVE TypeOK'
  <2>1. call'[q] \in Call
    BY <1>1, Normalized DEF Receive, Call
  <2> QED
    BY <1>1, <2>1 DEF Receive
<1>2. ASSUME NEW q \in Requests, EnsureEmailAvailable(q) PROVE TypeOK'
  BY <1>2 DEF EnsureEmailAvailable
<1>3. ASSUME NEW q \in Requests, FindIdentity(q) PROVE TypeOK'
  BY <1>3 DEF FindIdentity
<1>4. ASSUME NEW q \in Requests, CompareEmail(q) PROVE TypeOK'
  BY <1>4 DEF CompareEmail
<1>5. ASSUME NEW q \in Requests, FindEmail(q) PROVE TypeOK'
  BY <1>5 DEF FindEmail
<1>6. ASSUME NEW q \in Requests, Save(q) PROVE TypeOK'
  <2>1. users' \subseteq User /\ nextId' = nextId /\ UNCHANGED <<call, found>>
    BY <1>6, SaveWrites
  <2>2. \A u \in users' : u.id < nextId'
    BY <1>6, SaveWrites
  <2>3. \A u, v \in users' : u.id = v.id => u = v
    BY <1>6, SaveWrites
  <2> QED
    BY <1>6, <2>1, <2>2, <2>3 DEF Save
<1>7. ASSUME NEW q \in Requests, Insert(q) PROVE TypeOK'
  <2>1. users' \subseteq User /\ nextId' = nextId + 1 /\ UNCHANGED <<call, found>>
    BY <1>7, InsertWrites
  <2>2. Inserted(q).id = nextId
    BY DEF Inserted
  <2>3. \A u \in users' : u.id < nextId'
    BY <1>7, <2>1, <2>2, InsertWrites DEF User
  <2>4. \A u, v \in users' : u.id = v.id => u = v
    BY <1>7, <2>2, InsertWrites DEF User
  <2> QED
    BY <1>7, <2>1, <2>3, <2>4 DEF Insert
<1>8. ASSUME NEW q \in Requests, Fail(q) PROVE TypeOK'
  BY <1>8 DEF Fail
<1>9. ASSUME UNCHANGED vars PROVE TypeOK'
  BY <1>9
<1> QED
  BY <1>1, <1>2, <1>3, <1>4, <1>5, <1>6, <1>7, <1>8, <1>9 DEF Next, Step

-----------------------------------------------------------------------------
(* The inductive invariant.                                                 *)

\* A row is written again only by who holds it, and under its own identity.
LEMMA RowsStay ==
  ASSUME TypeOK, CallsAreInTheirStep, HeldRowExists, [Next]_vars, NEW u \in users
  PROVE  \E v \in users' : v.id = u.id /\ v.identity = u.identity
<1>1. ASSUME NEW q \in Requests, Save(q)
      PROVE  \E v \in users' : v.id = u.id /\ v.identity = u.identity
  <2>1. u.id = Saved(q).id => u.identity = Saved(q).identity
    BY <1>1, SaveWrites DEF TypeOK
  <2> QED
    BY <1>1, <2>1, SaveWrites
<1>2. ASSUME NEW q \in Requests, Insert(q)
      PROVE  \E v \in users' : v.id = u.id /\ v.identity = u.identity
  BY <1>2, InsertWrites
<1> QED
  BY <1>1, <1>2, TableSteps

\* What a login found is still there when it saves, whoever saves meanwhile.
LEMMA HeldStep == TypeOK /\ CallsAreInTheirStep /\ HeldRowExists /\ [Next]_vars => HeldRowExists'
<1> SUFFICES ASSUME TypeOK, CallsAreInTheirStep, HeldRowExists, [Next]_vars PROVE HeldRowExists'
  OBVIOUS
<1>1. \A u \in users : \E v \in users' : v.id = u.id /\ v.identity = u.identity
  BY RowsStay
<1>2. ASSUME NEW q \in Requests, pc[q] \in {"compare", "save"}, found'[q] = found[q], call'[q] = call[q]
      PROVE  /\ found'[q] # NoUser
             /\ found'[q].identity = call'[q].identity
             /\ \E v \in users' : v.id = found'[q].id /\ v.identity = found'[q].identity
  BY <1>1, <1>2 DEF HeldRowExists
<1> USE DEF TypeOK, HeldRowExists, Goes
<1>3. ASSUME NEW q \in Requests, NEW c \in Call, Receive(q, c) PROVE HeldRowExists'
  BY <1>2, <1>3 DEF Receive
<1>4. ASSUME NEW q \in Requests, FindIdentity(q) PROVE HeldRowExists'
  BY <1>2, <1>4, AccountsAssumption DEF FindIdentity
<1>5. ASSUME NEW q \in Requests, EnsureEmailAvailable(q) \/ FindEmail(q) \/ Fail(q) PROVE HeldRowExists'
  BY <1>2, <1>5 DEF EnsureEmailAvailable, FindEmail, Fail
<1>6. ASSUME NEW q \in Requests, CompareEmail(q) PROVE HeldRowExists'
  BY <1>2, <1>6 DEF CompareEmail
<1>7. ASSUME NEW q \in Requests, Save(q) \/ Insert(q) PROVE HeldRowExists'
  BY <1>2, <1>7 DEF Save, Insert
<1>8. ASSUME UNCHANGED vars PROVE HeldRowExists'
  BY <1>8
<1> QED
  BY <1>3, <1>4, <1>5, <1>6, <1>7, <1>8 DEF Next, Step

\* The index admits an address into a row only if no other row has its
\* mailbox, whatever its caller found out before.
LEMMA OneAccountStep ==
  TypeOK /\ CallsAreInTheirStep /\ HeldRowExists /\ OneAccountPerMailbox /\ [Next]_vars
    => OneAccountPerMailbox'
<1> SUFFICES ASSUME TypeOK, CallsAreInTheirStep, HeldRowExists, OneAccountPerMailbox, [Next]_vars
             PROVE  OneAccountPerMailbox'
  OBVIOUS
<1> USE DEF OneAccountPerMailbox, SameAddress
<1>1. ASSUME NEW q \in Requests, Save(q) PROVE OneAccountPerMailbox'
  BY <1>1, SaveWrites
<1>2. ASSUME NEW q \in Requests, Insert(q) PROVE OneAccountPerMailbox'
  BY <1>2, InsertWrites
<1> QED
  BY <1>1, <1>2, TableSteps

\* An account made by sign-up belongs to no person of a provider, so that no
\* login holds its row and none writes to it.
LEMMA RegisteredStep ==
  TypeOK /\ CallsAreInTheirStep /\ HeldRowExists /\ RegisteredStays /\ [Next]_vars => RegisteredStays'
<1> SUFFICES ASSUME TypeOK, CallsAreInTheirStep, HeldRowExists, RegisteredStays, [Next]_vars
             PROVE  RegisteredStays'
  OBVIOUS
<1>1. ASSUME NEW u \in users, u.identity = Local PROVE u \in users'
  <2>1. ASSUME NEW q \in Requests, Save(q) PROVE u \in users'
    <3>1. u.id # Saved(q).id
      BY <1>1, <2>1, SaveWrites, AccountsAssumption DEF TypeOK
    <3> QED
      BY <2>1, <3>1, SaveWrites
  <2>2. ASSUME NEW q \in Requests, Insert(q) PROVE u \in users'
    BY <2>2, InsertWrites
  <2> QED
    BY <2>1, <2>2, TableSteps
<1> USE DEF RegisteredStays, TypeOK, Goes
<1>2. ASSUME NEW q \in Requests, NEW c \in Call, Receive(q, c) PROVE RegisteredStays'
  BY <1>1, <1>2 DEF Receive
<1>3. ASSUME NEW q \in Requests, Insert(q) PROVE RegisteredStays'
  <2>1. ASSUME pc'[q] = "created"
        PROVE  Inserted(q) \in users' /\ Inserted(q).identity = Local /\ Inserted(q).email = call'[q].email
    BY <1>3, <2>1, InsertWrites DEF Insert, Inserted, Identity
  <2>2. \A s \in Requests \ {q} : pc'[s] = pc[s] /\ call'[s] = call[s]
    BY <1>3 DEF Insert
  <2> QED
    BY <1>1, <2>1, <2>2
<1>4. ASSUME NEW q \in Requests,
             \/ EnsureEmailAvailable(q) \/ FindIdentity(q) \/ CompareEmail(q) \/ FindEmail(q)
             \/ Save(q) \/ Fail(q)
      PROVE  RegisteredStays'
  BY <1>1, <1>4 DEF EnsureEmailAvailable, FindIdentity, CompareEmail, FindEmail, Save, Fail
<1>5. ASSUME UNCHANGED vars PROVE RegisteredStays'
  BY <1>5
<1> QED
  BY <1>2, <1>3, <1>4, <1>5 DEF Next, Step

\* The initial state satisfies the inductive invariant: there is no account.
LEMMA AccountsInit == Init => AccountsInv
  BY TypeInit
     DEF Init, AccountsInv, CallsAreInTheirStep, HeldRowExists, OneAccountPerMailbox, RegisteredStays

\* The inductive invariant is kept by every step.
LEMMA AccountsStep == AccountsInv /\ [Next]_vars => AccountsInv'
  BY TypeStep, InTheirStepStep, HeldStep, OneAccountStep, RegisteredStep DEF AccountsInv

-----------------------------------------------------------------------------
(* The theorems.                                                            *)

\* Every reachable state of the accounts satisfies the inductive invariant.
THEOREM AccountsInductive == Spec => []AccountsInv
  BY AccountsInit, AccountsStep, PTL DEF Spec

\* Every reachable state of the accounts is well typed.
THEOREM TypeCorrect == Spec => []TypeOK
<1>1. AccountsInv => TypeOK
  BY DEF AccountsInv
<1> QED
  BY <1>1, AccountsInductive, PTL

\* However many sign-ups and logins look for an address before one of them
\* takes it, a mailbox has one account.
THEOREM OneForAMailbox == Spec => []OneAccountPerMailbox
<1>1. AccountsInv => OneAccountPerMailbox
  BY DEF AccountsInv
<1> QED
  BY <1>1, AccountsInductive, PTL

\* Who registered with a password keeps the account, whoever logs in by OAuth.
THEOREM RegisteredKept == Spec => []RegisteredStays
<1>1. AccountsInv => RegisteredStays
  BY DEF AccountsInv
<1> QED
  BY <1>1, AccountsInductive, PTL

\* No sign-up and no login removes an account or gives it to somebody else.
THEOREM IdentitiesAreKept == Spec => AccountsKeepIdentity
<1>1. AccountsInv /\ [Next]_vars =>
        [\A u \in users : \E v \in users' : v.id = u.id /\ v.identity = u.identity]_vars
  BY RowsStay DEF AccountsInv
<1> QED
  BY <1>1, AccountsInductive, PTL DEF Spec, AccountsKeepIdentity

-----------------------------------------------------------------------------
(* What refuses a person the own address.                                   *)

\* A person has one account.
OneAccountPerPerson ==
  \A u, v \in users : u.identity \in Identities /\ u.identity = v.identity => u = v

\* Of two logins that may be in the steps in S at once, each is of its own person.
Separate(S) ==
  \A p, q \in Requests :
    (pc[p] \in S /\ pc[q] \in S /\ call[p].kind = "oauth" /\ call[q].kind = "oauth"
       /\ call[p].identity = call[q].identity) => p = q
FirstLoginsSeparate == Separate({"findEmail", "insert"})
LoginsSeparate == Separate(Steps \ {"idle"})

\* Logins separate in some steps are so in fewer.
LEMMA SeparateInFewer ==
  ASSUME NEW S, NEW T \in SUBSET S, Separate(S)
  PROVE  Separate(T)
  BY DEF Separate

\* Who is about to be given an account has none.
NewcomersHaveNone ==
  \A q \in Requests : pc[q] \in {"findEmail", "insert"} /\ call[q].kind = "oauth" =>
    \A u \in users : u.identity # call[q].identity

\* The row a login holds is the row of the table, address included.
HeldRowIsCurrent == \A q \in Requests : pc[q] \in {"compare", "save"} => found[q] \in users

\* An insert puts only a newcomer's account into the table, a save changes only
\* the address of one.
LEMMA PersonStep ==
  AccountsInv /\ NewcomersHaveNone /\ OneAccountPerPerson /\ [Next]_vars => OneAccountPerPerson'
<1> SUFFICES ASSUME AccountsInv, NewcomersHaveNone, OneAccountPerPerson, [Next]_vars
             PROVE  OneAccountPerPerson'
  OBVIOUS
<1> USE DEF AccountsInv
<1>1. ASSUME NEW q \in Requests, Save(q) PROVE OneAccountPerPerson'
  <2>1. \A u \in users : u.identity = Saved(q).identity => u.id = Saved(q).id
    BY <1>1, SaveWrites DEF OneAccountPerPerson
  <2> QED
    BY <1>1, <2>1, SaveWrites DEF OneAccountPerPerson
<1>2. ASSUME NEW q \in Requests, Insert(q) PROVE OneAccountPerPerson'
  <2>1. Inserted(q).identity \in Identities =>
          call[q].kind = "oauth" /\ Inserted(q).identity = call[q].identity
    BY AccountsAssumption DEF Inserted, Identity
  <2>2. pc[q] = "insert"
    BY <1>2 DEF Insert
  <2>3. \A u \in users : Inserted(q).identity \in Identities => u.identity # Inserted(q).identity
    BY <2>1, <2>2 DEF NewcomersHaveNone
  <2> QED
    BY <1>2, <2>3, InsertWrites DEF OneAccountPerPerson
<1> QED
  BY <1>1, <1>2, TableSteps DEF OneAccountPerPerson

\* A newcomer stays one until the own insert, if no other login of the same
\* person inserts first.
LEMMA NewcomersStep ==
  AccountsInv /\ NewcomersHaveNone /\ FirstLoginsSeparate /\ [Next]_vars => NewcomersHaveNone'
<1> SUFFICES ASSUME AccountsInv, NewcomersHaveNone, FirstLoginsSeparate, [Next]_vars,
                    NEW q \in Requests, pc'[q] \in {"findEmail", "insert"}, call'[q].kind = "oauth",
                    NEW u \in users'
             PROVE  u.identity # call'[q].identity
  BY DEF NewcomersHaveNone
<1> USE DEF AccountsInv, TypeOK, Goes
<1>1. ASSUME UNCHANGED users PROVE u.identity # call'[q].identity
  <2>1. CASE pc[q] \in {"findEmail", "insert"} /\ call'[q] = call[q]
    BY <1>1, <2>1 DEF NewcomersHaveNone
  <2>2. CASE FindIdentity(q)
    BY <1>1, <2>2 DEF FindIdentity
  <2>3. (pc[q] \in {"findEmail", "insert"} /\ call'[q] = call[q]) \/ FindIdentity(q)
    <3>1. ASSUME NEW p \in Requests, NEW c \in Call, Receive(p, c)
          PROVE  pc[q] \in {"findEmail", "insert"} /\ call'[q] = call[q]
      BY <3>1 DEF Receive
    <3>2. ASSUME NEW p \in Requests, EnsureEmailAvailable(p)
          PROVE  pc[q] \in {"findEmail", "insert"} /\ call'[q] = call[q]
      BY <3>2 DEF EnsureEmailAvailable, CallsAreInTheirStep
    <3>3. ASSUME NEW p \in Requests, FindIdentity(p)
          PROVE  (pc[q] \in {"findEmail", "insert"} /\ call'[q] = call[q]) \/ FindIdentity(q)
      BY <3>3 DEF FindIdentity
    <3>4. ASSUME NEW p \in Requests, CompareEmail(p) \/ FindEmail(p) \/ Save(p) \/ Insert(p) \/ Fail(p)
          PROVE  pc[q] \in {"findEmail", "insert"} /\ call'[q] = call[q]
      BY <3>4 DEF CompareEmail, FindEmail, Save, Insert, Fail
    <3> QED
      BY <3>1, <3>2, <3>3, <3>4 DEF Next, Step
  <2> QED
    BY <2>1, <2>2, <2>3
<1>2. ASSUME NEW p \in Requests, Save(p) PROVE u.identity # call'[q].identity
  <2>1. pc[q] \in {"findEmail", "insert"} /\ call'[q] = call[q]
    BY <1>2 DEF Save
  <2>2. \E v \in users : v.identity = u.identity
    BY <1>2, SaveWrites
  <2> QED
    BY <2>1, <2>2 DEF NewcomersHaveNone
<1>3. ASSUME NEW p \in Requests, Insert(p) PROVE u.identity # call'[q].identity
  <2>1. p # q /\ pc[p] = "insert" /\ pc[q] \in {"findEmail", "insert"} /\ call'[q] = call[q]
    BY <1>3 DEF Insert
  <2>2. call[q].identity \in Identities
    BY <2>1, CallFields
  <2>3. Identity(call[p]) # call[q].identity
    BY <2>1, <2>2, CallFields, AccountsAssumption DEF FirstLoginsSeparate, Separate, Identity
  <2>4. u \in users \/ u.identity = Identity(call[p])
    <3>1. Inserted(p).identity = Identity(call[p])
      BY DEF Inserted
    <3> QED
      BY <1>3, <3>1, InsertWrites
  <2> QED
    BY <2>1, <2>3, <2>4 DEF NewcomersHaveNone
<1> QED
  BY <1>1, <1>2, <1>3, TableSteps

\* Nobody else writes to the row a login holds, if no other login of the same
\* person overlaps it.
LEMMA CurrentStep ==
  AccountsInv /\ HeldRowIsCurrent /\ LoginsSeparate /\ [Next]_vars => HeldRowIsCurrent'
<1> SUFFICES ASSUME AccountsInv, HeldRowIsCurrent, LoginsSeparate, [Next]_vars,
                    NEW q \in Requests, pc'[q] \in {"compare", "save"}
             PROVE  found'[q] \in users'
  BY DEF HeldRowIsCurrent
<1> USE DEF AccountsInv, TypeOK, Goes
<1>1. ASSUME UNCHANGED users PROVE found'[q] \in users'
  <2>1. CASE pc[q] \in {"compare", "save"} /\ found'[q] = found[q]
    BY <1>1, <2>1 DEF HeldRowIsCurrent
  <2>2. CASE found'[q] \in users
    BY <1>1, <2>2
  <2>3. ASSUME NEW p \in Requests, NEW c \in Call, Receive(p, c)
        PROVE  pc[q] \in {"compare", "save"} /\ found'[q] = found[q]
    BY <2>3 DEF Receive
  <2>4. ASSUME NEW p \in Requests, FindIdentity(p)
        PROVE  (pc[q] \in {"compare", "save"} /\ found'[q] = found[q]) \/ found'[q] \in users
    BY <2>4 DEF FindIdentity
  <2>5. ASSUME NEW p \in Requests,
               EnsureEmailAvailable(p) \/ CompareEmail(p) \/ FindEmail(p) \/ Save(p) \/ Insert(p) \/ Fail(p)
        PROVE  pc[q] \in {"compare", "save"} /\ found'[q] = found[q]
    BY <2>5 DEF EnsureEmailAvailable, CompareEmail, FindEmail, Save, Insert, Fail
  <2> QED
    BY <2>1, <2>2, <2>3, <2>4, <2>5 DEF Next, Step
<1>2. ASSUME NEW p \in Requests, Save(p) PROVE found'[q] \in users'
  <2>1. p # q /\ pc[p] = "save" /\ pc[q] \in {"compare", "save"} /\ found'[q] = found[q]
    BY <1>2 DEF Save
  <2>2. /\ call[p].kind = "oauth" /\ call[q].kind = "oauth"
        /\ found[p].identity = call[p].identity /\ found[q].identity = call[q].identity
        /\ found[q] \in users
    BY <2>1 DEF CallsAreInTheirStep, HeldRowExists, HeldRowIsCurrent
  <2>3. found[p].identity # found[q].identity
    BY <2>1, <2>2 DEF LoginsSeparate, Separate, Steps
  <2>4. found[q].id # Saved(p).id
    <3>1. Saved(p).identity = found[p].identity
      BY DEF Saved
    <3> QED
      BY <1>2, <2>2, <2>3, <3>1, SaveWrites
  <2> QED
    BY <1>2, <2>1, <2>2, <2>4, SaveWrites
<1>3. ASSUME NEW p \in Requests, Insert(p) PROVE found'[q] \in users'
  <2>1. pc[q] \in {"compare", "save"} /\ found'[q] = found[q]
    BY <1>3 DEF Insert
  <2> QED
    BY <1>3, <2>1, InsertWrites DEF HeldRowIsCurrent
<1> QED
  BY <1>1, <1>2, <1>3, TableSteps

\* What refuses a person the own address: the spelling, or another login of the
\* same person at once.  Where addresses have one spelling and no two logins of
\* one person overlap, only another's account does.
THEOREM RefusalsNeedACause ==
  ASSUME Spellings = {Lower}
  PROVE  Spec /\ []LoginsSeparate => RenameRefusedOnlyForOthers
<1> DEFINE Refused(q) == pc[q] = "compare" /\ pc'[q] = "linkRequired"
           OtherHas(q) == \E u \in users : u.identity # call[q].identity /\ SameAddress(u.email, call[q].email)
<1>1. Init => NewcomersHaveNone /\ OneAccountPerPerson /\ HeldRowIsCurrent
  BY DEF Init, NewcomersHaveNone, OneAccountPerPerson, HeldRowIsCurrent
<1>2. LoginsSeparate => FirstLoginsSeparate
  <2>1. {"findEmail", "insert"} \subseteq Steps \ {"idle"}
    BY DEF Steps
  <2> QED
    BY <2>1, SeparateInFewer DEF LoginsSeparate, FirstLoginsSeparate
<1>3. AccountsInv /\ NewcomersHaveNone /\ OneAccountPerPerson /\ HeldRowIsCurrent /\ LoginsSeparate /\ [Next]_vars
        => (NewcomersHaveNone /\ OneAccountPerPerson /\ HeldRowIsCurrent)'
  BY <1>2, PersonStep, NewcomersStep, CurrentStep
<1>4. AccountsInv /\ OneAccountPerPerson /\ HeldRowIsCurrent /\ [Next]_vars
        => [\A q \in Requests : Refused(q) => OtherHas(q)]_vars
  <2> SUFFICES ASSUME AccountsInv, OneAccountPerPerson, HeldRowIsCurrent, [Next]_vars,
                      NEW q \in Requests, Refused(q)
               PROVE  OtherHas(q)
    OBVIOUS
  <2> USE DEF AccountsInv, TypeOK, Goes
  <2>1. CompareEmail(q)
    BY DEF Next, Step, Receive, EnsureEmailAvailable, FindIdentity, CompareEmail, FindEmail, Save, Insert, Fail
  <2>2. found[q].email # call[q].email /\ Taken(call[q].email)
    BY <2>1 DEF CompareEmail
  <2>3. PICK u \in users : SameAddress(u.email, call[q].email)
    BY <2>2 DEF Taken
  <2>4. /\ found[q] \in users /\ found[q].identity = call[q].identity
        /\ call[q].identity \in Identities /\ call[q].email \in Email
    BY CallFields DEF HeldRowIsCurrent, HeldRowExists, CallsAreInTheirStep
  <2>5. \A e, f \in Email : SameAddress(e, f) => e = f
    BY DEF Email, SameAddress
  <2>6. u # found[q]
    BY <2>2, <2>3, <2>4, <2>5 DEF User
  <2>7. u.identity # call[q].identity
    BY <2>3, <2>4, <2>6 DEF OneAccountPerPerson
  <2> QED
    BY <2>3, <2>7
<1> QED
  BY <1>1, <1>3, <1>4, AccountsInductive, PTL DEF Spec, RenameRefusedOnlyForOthers
=============================================================================
