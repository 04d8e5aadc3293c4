---------------------------- MODULE MCRentalStore ----------------------------
(* Four customers of the three kinds, two of them alike. *)
EXTENDS RentalStoreProofs

MCPopulation   == <<Regular, Breezy, Hoarder, Regular>>
MCRequirements == [c \in 1 .. 4 |-> MCPopulation[c].required]
MCRequest      == [c \in 1 .. 4 |-> MCPopulation[c].asked]
=============================================================================
