-------------------------------- MODULE MCSrp --------------------------------
(* Small instances of Srp for TLC, and of the inductive invariant of        *)
(* SrpProofs.                                                               *)
EXTENDS SrpProofs
=============================================================================
