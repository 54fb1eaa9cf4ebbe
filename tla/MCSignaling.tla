---------------------------- MODULE MCSignaling ----------------------------
(***************************************************************************)
(* Instances of Signaling for TLC: who opens which connection.             *)
(***************************************************************************)
EXTENDS Signaling, TLC

CONSTANTS u1, u2, c1, c2, c3

Alone == c1 :> u1
Twice == c1 :> u1 @@ c2 :> u1
TwiceAndOne == c1 :> u1 @@ c2 :> u2 @@ c3 :> u2
=============================================================================
