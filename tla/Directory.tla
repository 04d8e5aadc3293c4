------------------------------ MODULE Directory ------------------------------
(***************************************************************************)
(* What the coordinator of the file distribution system promises: a        *)
(* register of at most Capacity members and of what each offers now.  A    *)
(* member is asked only for a file it offers at that moment, and whoever   *)
(* joins starts with nothing offered.  Nothing is promised about answers,  *)
(* and the register may close at any time.                                 *)
(***************************************************************************)
EXTENDS Naturals, FiniteSets

CONSTANTS Clients, Files, Capacity

VARIABLES
    members,        \* who is registered
    offers,         \* the files each client offers now
    asked           \* the files each client has been asked for, unanswered

directoryVars == <<members, offers, asked>>

Init ==
    /\ members = {}
    /\ offers = [c \in Clients |-> {}]
    /\ asked = [c \in Clients |-> {}]

Join(c) ==
    /\ c \notin members
    /\ Cardinality(members) < Capacity
    /\ members' = members \cup {c}
    /\ UNCHANGED <<offers, asked>>

Announce(c) ==
    /\ c \in members
    /\ \E files \in SUBSET Files : offers' = [offers EXCEPT ![c] = files]
    /\ UNCHANGED <<members, asked>>

Ask(c) ==
    /\ \E f \in offers[c] : asked' = [asked EXCEPT ![c] = @ \cup {f}]
    /\ UNCHANGED <<members, offers>>

(* The client takes what it was asked for, or the question is lost.         *)
Answer(c) ==
    /\ \E files \in SUBSET asked[c] : asked' = [asked EXCEPT ![c] = files]
    /\ UNCHANGED <<members, offers>>

Leave(c) ==
    /\ c \in members
    /\ members' = members \ {c}
    /\ offers' = [offers EXCEPT ![c] = {}]
    /\ UNCHANGED asked

Close ==
    /\ members' = {}
    /\ offers' = [c \in Clients |-> {}]
    /\ asked' \in [Clients -> SUBSET Files]
    /\ \A c \in Clients : asked'[c] \subseteq asked[c]

Next ==
    \/ \E c \in Clients : Join(c) \/ Announce(c) \/ Ask(c) \/ Answer(c) \/ Leave(c)
    \/ Close

Spec == Init /\ [][Next]_directoryVars
=============================================================================
