------------------------------ MODULE MCAccounts ------------------------------
(* Model values for Accounts.                                               *)
EXTENDS Accounts

CONSTANTS q1, q2, m1, m2, lower, mixed, g1, g2

TwoRequests == {q1, q2}
TwoMailboxes == {m1, m2}
TwoSpellings == {lower, mixed}
TwoIdentities == {g1, g2}
=============================================================================
