-------------------------- MODULE InviteLifecycle --------------------------
(***************************************************************************)
(* What an inbound call promises to the clients it is offered to, without  *)
(* a word on goroutines, locks or SIP.  A call rings, is answered at most  *)
(* once and stops at most once, answered or not.  While it rings it is in  *)
(* the list a client may ask for; it leaves the list only when it no       *)
(* longer rings; and by the time clients are told that it stopped the list *)
(* does not show it any more.                                              *)
(***************************************************************************)
CONSTANT Calls

VARIABLES life,     \* what has become of each call
          offered,  \* the calls ListPendingIncoming may show
          told      \* the calls whose end has been announced

lifeVars == <<life, offered, told>>

LifeInit ==
    /\ life = [c \in Calls |-> "none"]
    /\ offered = {}
    /\ told = {}

Ring(c) ==
    /\ life[c] = "none"
    /\ life' = [life EXCEPT ![c] = "ringing"]
    /\ offered' = offered \cup {c}
    /\ UNCHANGED told

Answer(c) ==
    /\ life[c] = "ringing"
    /\ life' = [life EXCEPT ![c] = "answered"]
    /\ UNCHANGED <<offered, told>>

Stop(c) ==
    /\ life[c] \in {"ringing", "answered"}
    /\ life' = [life EXCEPT ![c] = "stopped"]
    /\ UNCHANGED <<offered, told>>

Withdraw(c) ==
    /\ life[c] \in {"answered", "stopped"}
    /\ c \in offered
    /\ offered' = offered \ {c}
    /\ UNCHANGED <<life, told>>

Tell(c) ==
    /\ life[c] = "stopped"
    /\ c \notin offered \cup told
    /\ told' = told \cup {c}
    /\ UNCHANGED <<life, offered>>

Settle(c) == life[c] = "ringing" /\ (Answer(c) \/ Stop(c))

LifeNext == \E c \in Calls : Ring(c) \/ Answer(c) \/ Stop(c) \/ Withdraw(c) \/ Tell(c)

LifeSafety == LifeInit /\ [][LifeNext]_lifeVars

LifeSpec ==
    /\ LifeSafety
    /\ \A c \in Calls : /\ WF_lifeVars(Settle(c))
                        /\ WF_lifeVars(Withdraw(c))
                        /\ WF_lifeVars(Tell(c))
============================================================================
