----------------------------- MODULE MCAuthorship -----------------------------
(* Model values for Authorship.                                             *)
EXTENDS Authorship, TLC

CONSTANTS q1, q2, q3, m1, m2, lower, mixed, g1, g2, p1

ThreeRequests == {q1, q2, q3}
TwoMailboxes == {m1, m2}
TwoSpellings == {lower, mixed}
TwoIdentities == {g1, g2}
OnePost == {p1}

AuthorshipSymmetry ==
  Permutations(Requests) \union Permutations(Mailboxes) \union Permutations(Identities)
=============================================================================
