-------------------------------- MODULE MCChat --------------------------------
(* Model values for Chat: a page that connects twice beside one that         *)
(* connects once.                                                           *)
EXTENDS Chat, TLC

CONSTANTS w1, w2, a

TwoPages == {w1, w2}
OneMessage == {a}
TwoPressesAndOne == w1 :> 2 @@ w2 :> 1
=============================================================================
