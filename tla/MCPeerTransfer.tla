--------------------------- MODULE MCPeerTransfer ---------------------------
(* Small instances of PeerTransfer for TLC. *)
EXTENDS PeerTransferProofs, TLC

CONSTANTS c1, c2, c3, h1, h2, f1, f2

(* c2 and c3 share a machine: their transfer ports are one. *)
TwoOnOneHost == [c \in Clients |-> IF c = c1 THEN h1 ELSE h2]

(* c2 shares both files and c3 one of them; c1 shares nothing. *)
TwoSharers == [c \in Clients |-> IF c = c2 THEN Files ELSE IF c = c3 THEN {f2} ELSE {}]

(* Everybody runs on one machine and shares everything. *)
OneHost == [c \in Clients |-> h1]
AllShare == [c \in Clients |-> Files]
=============================================================================
