--------------------------- MODULE MCPutTransfer ---------------------------
(* Small instances of PutTransfer for TLC. *)
EXTENDS PutTransferProofs

CONSTANTS c1, c2, plain, awkward

(* A file of two harmless chunks, and one whose second chunk begins with an *)
(* e, so that the third is taken for a command.  The first is the short one *)
(* in the cfg, so that its last chunk is padded.                            *)
TwoFiles == [f \in Files |-> IF f = plain THEN <<"other", "y">>
                             ELSE <<"other", "e", "y">>]
=============================================================================
