----------------------------- MODULE MCFileServer -----------------------------
(* Small instances of FileServer, and of the invariant of its proofs, for  *)
(* TLC.                                                                    *)
EXTENDS ListProofs, TLC

(* Everybody goes by a name of his own, for which the client itself stands. *)
OwnName == [c \in Clients |-> c]

(* One frame after the announcement for everybody, or two for one of them.  *)
OneSend == [c \in Clients |-> 1]
TwoSends == [OneSend EXCEPT ![CHOOSE c \in Clients : TRUE] = 2]

(* Clients with names of their own are alike, and so are files. *)
Symmetry == Permutations(Clients) \cup Permutations(Files)
=============================================================================
