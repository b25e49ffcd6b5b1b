------------------------------- MODULE MCPosts -------------------------------
(* Model values for Posts.                                                  *)
EXTENDS Posts

CONSTANTS p1, u1, u2, c1, c2

ThreeRequests == 1..3
OnePost == {p1}
TwoUsers == {u1, u2}
TwoContents == {c1, c2}
=============================================================================
