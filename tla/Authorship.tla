----------------------------- MODULE Authorship -----------------------------
(***************************************************************************)
(* Accounts, the access tokens that logins hand out, and the posts written *)
(* with them.  A token is a signed address, a post keeps the address of    *)
(* its author, and the account behind an address is looked up again when   *)
(* somebody asks: nothing follows an account whose address changes.        *)
(*                                                                         *)
(* The posts are the abstract store that Posts implements.  A token is     *)
(* never withdrawn and expires an hour after its issue; a call that passed *)
(* the filter before goes on after that, so the model lets every token     *)
(* that was issued be used at any later time.                              *)
(***************************************************************************)
EXTENDS Accounts

CONSTANTS PostIds, Content, Fresh, Gone

ASSUME AuthorshipAssumption ==
  Fresh # Gone /\ {Fresh, Gone} \intersect [author : Email, content : {Content}] = {}

VARIABLES
  tokens,   \* those that were issued: the subject and (history) the account
  posts, editors,
  \* history
  owner,    \* the account whose token published a post, 0 for none
  renamed,  \* accounts whose row got another address, or another spelling of it
  raced     \* persons whose row was made while another first login of theirs ran

Store == INSTANCE PostStore WITH Users <- Email, Contents <- {Content}

accountVars == vars
postVars == <<posts, editors, owner>>
allVars == <<accountVars, postVars, tokens, renamed, raced>>

Token == [email : Email, account : Nat \ {0}]

\* Variant: the token is made from the profile before the row is saved.
IssuedBeforeSave(q) ==
  IF pc[q] = "save" THEN {[email |-> call[q].email, account |-> found[q].id]}
  ELSE IF pc'[q] = "answered" THEN {[email |-> call[q].email, account |-> nextId]}
  ELSE {}

\* createSuccessResponse: the token of a login whose row was saved.
Issued(q) ==
  IF pc'[q] # "answered" \/ pc[q] = "answered" THEN {}
  ELSE {[email   |-> call[q].email,
         account |-> IF pc[q] = "save" THEN found[q].id ELSE nextId]}

\* Persons with another login under way that found no account of theirs.
FirstLoginsBeside(q) ==
  {call[s].identity : s \in {r \in Requests \ {q} : /\ pc[r] \in {"findEmail", "insert"}
                                                    /\ call[r].kind = "oauth"}}

\* Any step of a sign-up or an OAuth login.
AccountStep(q) ==
  /\ Step(q)
  /\ tokens' = tokens \union Issued(q)
  /\ renamed' = renamed \union
       {u.id : u \in {v \in users : \E w \in users' : w.id = v.id /\ w.email # v.email}}
  /\ raced' = raced \union
       {u.identity : u \in {v \in users' : /\ v.id = nextId
                                          /\ v.identity \in FirstLoginsBeside(q)}}
  /\ UNCHANGED postVars

\* AuthService.login with the right password, which only an account made by
\* sign-up has; it finds the row by mailbox and signs the row's address.
Login ==
  /\ \E u \in users : /\ u.identity = Local
                      /\ tokens' = tokens \union {[email |-> u.email, account |-> u.id]}
  /\ UNCHANGED <<accountVars, postVars, renamed, raced>>

\* The calls of PostController with the address of token t as principal.
Publish(t) ==
  /\ \E p \in PostIds : /\ Store!Publish(p, t.email, Content)
                        /\ owner' = [owner EXCEPT ![p] = t.account]
  /\ UNCHANGED <<accountVars, tokens, renamed, raced>>

EditOrRemove(t) ==
  /\ \E p \in PostIds : Store!Edit(p, t.email, Content) \/ Store!Remove(p, t.email)
  /\ UNCHANGED <<accountVars, owner, tokens, renamed, raced>>

AuthorshipInit ==
  /\ Init
  /\ tokens = {}
  /\ posts = [p \in PostIds |-> Fresh]
  /\ editors = [p \in PostIds |-> {}]
  /\ owner = [p \in PostIds |-> 0]
  /\ renamed = {}
  /\ raced = {}

AuthorshipNext ==
  \/ \E q \in Requests : AccountStep(q)
  \/ Login
  \/ \E t \in tokens : Publish(t) \/ EditOrRemove(t)

AuthorshipSpec == AuthorshipInit /\ [][AuthorshipNext]_allVars

\* GET /auth/me: the rows that answer for token t.
CurrentUser(t) == {u \in users : SameAddress(u.email, NormalizeEmail(t.email))}

-----------------------------------------------------------------------------
(* Properties                                                               *)

\* Accounts has its types, tokens name accounts of the table, and a post has
\* an owner once it was published.
AuthorshipTypeOK ==
  /\ TypeOK
  /\ tokens \subseteq Token
  /\ \A t \in tokens : t.account \in {u.id : u \in users}
  /\ posts \in [PostIds -> Store!Post \union {Fresh, Gone}]
  /\ editors \in [PostIds -> SUBSET Email]
  /\ owner \in [PostIds -> Nat]
  /\ renamed \subseteq {u.id : u \in users}
  /\ raced \subseteq Identities
  /\ \A p \in PostIds : owner[p] = 0 <=> posts[p] = Fresh

\* /auth/me answers a token with the account it was issued for and with the
\* address it names, as long as that account was not renamed, whatever
\* sign-ups and logins for the same mailbox race with the one that issued it.
TokenSpeaksForItsAccount ==
  \A t \in tokens : t.account \notin renamed =>
    {[email |-> u.email, account |-> u.id] : u \in CurrentUser(t)} = {t}

\* A person has two accounts only if two first logins of the person, with
\* different addresses, ran side by side: no index keeps the second out, and
\* from then on the lookup by identity fails.
TwinsByOverlap ==
  \A u, v \in users : u # v /\ u.identity = v.identity /\ u.identity # Local => u.identity \in raced

\* The tokens that may edit or delete a post are those of the account that
\* wrote it, all of them and nobody else's, unless one of the two accounts
\* was renamed: an address names one account at a time, so only a rename can
\* give a post to a stranger or take it from its author.
AccessFollowsAuthor ==
  \A t \in tokens, p \in PostIds :
    Store!IsPost(p) /\ {t.account, owner[p]} \intersect renamed = {} =>
      (t.email = posts[p].author <=> t.account = owner[p])
=============================================================================
