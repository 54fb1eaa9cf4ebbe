--------------------------- MODULE MCCallManager ---------------------------
(***************************************************************************)
(* Instances of CallManager for TLC.  Sessions are interchangeable; the    *)
(* symmetry is for the safety run only.                                    *)
(***************************************************************************)
EXTENDS CallManager, TLC

AnySession == Permutations(Sessions)
============================================================================
