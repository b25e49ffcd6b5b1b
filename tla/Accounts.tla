------------------------------- MODULE Accounts -------------------------------
(***************************************************************************)
(* User accounts: sign-up with an email address (AuthService) and login    *)
(* with an OAuth provider (OAuthAccountService).  Neither runs in a        *)
(* transaction: every repository call is a step of its own, and only the   *)
(* unique index of users.email stands between two calls that both found    *)
(* an address free.                                                        *)
(*                                                                         *)
(* An address is a mailbox in some spelling.  Sign-up trims and lowers it, *)
(* OAuth takes it as the provider spells it, MySQL compares it by mailbox  *)
(* (utf8mb4_unicode_ci) and Kotlin's != by spelling.                       *)
(***************************************************************************)
EXTENDS Naturals, FiniteSets

CONSTANTS Requests,    \* HTTP calls
          Mailboxes,
          Spellings,   \* how providers and users spell an address
          Lower,       \* the spelling that lowercase() gives
          Identities,  \* a provider with the provider's id of a person
          Local,       \* the provider of an account made by sign-up
          NoUser, NoCall

Email == [box : Mailboxes, spelling : Spellings]
User == [id : Nat \ {0}, email : Email, identity : Identities \union {Local}]
Call == [kind : {"signUp"}, email : Email]
          \union [kind : {"oauth"}, email : Email, identity : Identities]

ASSUME AccountsAssumption == /\ Lower \in Spellings
                             /\ Local \notin Identities
                             /\ NoUser \notin User
                             /\ NoCall \notin Call

VARIABLES users,  \* the table
          nextId, \* its AUTO_INCREMENT
          pc, call,
          found   \* the row a call read and works on, detached from the table

vars == <<users, nextId, pc, call, found>>

Steps == {"idle", "exists", "identify", "compare", "save", "findEmail", "insert"}
Ends == {"created", "answered", "conflict", "linkRequired", "failed"}

SameAddress(e, f) == e.box = f.box
Taken(e) == \E u \in users : SameAddress(u.email, e)
NormalizeEmail(e) == [box |-> e.box, spelling |-> Lower]
Identity(c) == IF c.kind = "oauth" THEN c.identity ELSE Local
Goes(q, s) == pc' = [pc EXCEPT ![q] = s]

\* A sign-up, or the success handler with a verified profile.
Receive(q, c) ==
  /\ pc[q] = "idle"
  /\ call' = [call EXCEPT ![q] =
                IF c.kind = "signUp" THEN [kind |-> "signUp", email |-> NormalizeEmail(c.email)] ELSE c]
  /\ Goes(q, IF c.kind = "signUp" THEN "exists" ELSE "identify")
  /\ UNCHANGED <<users, nextId, found>>

-----------------------------------------------------------------------------
EnsureEmailAvailable(q) ==
  /\ pc[q] = "exists"
  /\ Goes(q, IF Taken(call[q].email) THEN "conflict" ELSE "insert")
  /\ UNCHANGED <<users, nextId, call, found>>

\* Variant: the provider is looked up as it is spelled, and stored in capitals.
FindIdentityMisspelled(q) ==
  /\ pc[q] = "identify"
  /\ Goes(q, "findEmail")
  /\ UNCHANGED <<users, nextId, call, found>>

\* findByAuthProviderAndProviderId returns an Optional: several rows are an
\* error.
FindIdentity(q) ==
  LET rows == {u \in users : u.identity = call[q].identity} IN
  /\ pc[q] = "identify"
  /\ \/ rows = {} /\ Goes(q, "findEmail") /\ UNCHANGED found
     \/ /\ Cardinality(rows) = 1
        /\ \E u \in rows : found' = [found EXCEPT ![q] = u]
        /\ Goes(q, "compare")
     \/ Cardinality(rows) > 1 /\ Goes(q, "failed") /\ UNCHANGED found
  /\ UNCHANGED <<users, nextId, call>>

\* existingOAuthUser.email != profile.email && existsByEmail(profile.email)
CompareEmail(q) ==
  LET e == call[q].email IN
  /\ pc[q] = "compare"
  /\ Goes(q, IF found[q].email # e /\ Taken(e) THEN "linkRequired" ELSE "save")
  /\ UNCHANGED <<users, nextId, call, found>>

FindEmail(q) ==
  /\ pc[q] = "findEmail"
  /\ Goes(q, IF Taken(call[q].email) THEN "linkRequired" ELSE "insert")
  /\ UNCHANGED <<users, nextId, call, found>>

\* The unique index of users.email lets e into the row with that id; variant:
\* a table without the index.
AdmitsAnything(e, id) == e.box \in Mailboxes
Admits(e, id) == \A u \in users : SameAddress(u.email, e) => u.id = id

\* Variant: a new User(id, email, password) is saved, whose provider is the
\* default one.
SaveRebuilt(q) ==
  LET old == found[q]
      new == [old EXCEPT !.email = call[q].email, !.identity = Local]
  IN
  /\ pc[q] = "save"
  /\ users' = {u \in users : u.id # old.id} \union {new}
  /\ Goes(q, "answered")
  /\ UNCHANGED <<nextId, call, found>>

\* save(existingOAuthUser) merges the detached row: the whole row is written.
Save(q) ==
  LET old == found[q]
      new == [id |-> old.id, email |-> call[q].email, identity |-> old.identity]
  IN
  /\ pc[q] = "save"
  /\ \/ /\ Admits(new.email, old.id)
        /\ users' = {u \in users : u.id # old.id} \union {new}
        /\ Goes(q, "answered")
     \/ ~Admits(new.email, old.id) /\ Goes(q, "failed") /\ UNCHANGED users
  /\ UNCHANGED <<nextId, call, found>>

\* Variant: the id is read and not taken.
InsertReadingId(q) ==
  /\ pc[q] = "insert"
  /\ Admits(call[q].email, nextId)
  /\ users' = users \union
       {[id |-> nextId, email |-> call[q].email, identity |-> Identity(call[q])]}
  /\ Goes(q, IF call[q].kind = "signUp" THEN "created" ELSE "answered")
  /\ UNCHANGED <<nextId, call, found>>

\* Variant: the row of that address, whoever has it, gets the identity.
InsertOrLink(q) ==
  LET same == {u \in users : SameAddress(u.email, call[q].email)} IN
  /\ pc[q] = "insert"
  /\ users' = (users \ same)
                \union IF same = {} THEN {[id |-> nextId, email |-> call[q].email,
                                          identity |-> Identity(call[q])]}
                      ELSE {[u EXCEPT !.identity = Identity(call[q])] : u \in same}
  /\ nextId' = nextId + 1
  /\ Goes(q, IF call[q].kind = "signUp" THEN "created" ELSE "answered")
  /\ UNCHANGED <<call, found>>

\* save(User(...)) of either service.  A refused INSERT has used up its id.
Insert(q) ==
  /\ pc[q] = "insert"
  /\ nextId' = nextId + 1
  /\ \/ /\ Admits(call[q].email, nextId)
        /\ users' = users \union
             {[id |-> nextId, email |-> call[q].email, identity |-> Identity(call[q])]}
        /\ Goes(q, IF call[q].kind = "signUp" THEN "created" ELSE "answered")
     \/ ~Admits(call[q].email, nextId) /\ Goes(q, "failed") /\ UNCHANGED users
  /\ UNCHANGED <<call, found>>

\* The database or the process gives up before the next step.
Fail(q) ==
  /\ pc[q] \in Steps \ {"idle"}
  /\ Goes(q, "failed")
  /\ UNCHANGED <<users, nextId, call, found>>

Init ==
  /\ users = {}
  /\ nextId = 1
  /\ pc = [q \in Requests |-> "idle"]
  /\ call = [q \in Requests |-> NoCall]
  /\ found = [q \in Requests |-> NoUser]

Step(q) ==
  \/ \E c \in Call : Receive(q, c)
  \/ EnsureEmailAvailable(q)
  \/ FindIdentity(q) \/ CompareEmail(q) \/ FindEmail(q) \/ Save(q)
  \/ Insert(q)
  \/ Fail(q)

Next == \E q \in Requests : Step(q)

Spec == Init /\ [][Next]_vars

-----------------------------------------------------------------------------
(* Properties                                                               *)

\* The variables have their types, and ids are those the table gave.
TypeOK ==
  /\ users \subseteq User
  /\ nextId \in Nat \ {0}
  /\ pc \in [Requests -> Steps \union Ends]
  /\ call \in [Requests -> Call \union {NoCall}]
  /\ \A q \in Requests : pc[q] = "idle" <=> call[q] = NoCall
  /\ found \in [Requests -> User \union {NoUser}]
  /\ \A u \in users : u.id < nextId
  /\ \A u, v \in users : u.id = v.id => u = v

\* One account for a mailbox, although sign-ups and OAuth logins look for the
\* address and take it in different steps, and spell it differently.
OneAccountPerMailbox ==
  \A u, v \in users : SameAddress(u.email, v.email) => u = v

\* Who was told that the sign-up succeeded has the account, and it stays the
\* one that was made: no OAuth login takes it over or renames it.
RegisteredStays ==
  \A q \in Requests : pc[q] = "created" =>
    \E u \in users : u.identity = Local /\ u.email = call[q].email

\* An account stays in the table and keeps the identity it was made with: an
\* existing account is not linked to a provider, nor to another person.
AccountsKeepIdentity ==
  [][\A u \in users : \E v \in users' : v.id = u.id /\ v.identity = u.identity]_vars

\* A person the table knows is refused a changed address only for an account
\* that is not the person's own.
RenameRefusedOnlyForOthers ==
  [][\A q \in Requests : pc[q] = "compare" /\ pc'[q] = "linkRequired" =>
       \E u \in users : u.identity # call[q].identity /\ SameAddress(u.email, call[q].email)]_vars
=============================================================================
