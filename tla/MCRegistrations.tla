--------------------------- MODULE MCRegistrations ---------------------------
(***************************************************************************)
(* Instances of Registrations for TLC: what REGISTERs come with.           *)
(***************************************************************************)
EXTENDS Registrations, TLC

CONSTANTS r1, r2, a1, a2, udp, tcp

Bare == [contact |-> NoHost, source |-> a2, transport |-> udp]
Named == [contact |-> a2, source |-> a1, transport |-> tcp]

OnlyBare == r1 :> {Bare}
BareAndNamed == r1 :> {Bare} @@ r2 :> {Named}
=============================================================================
