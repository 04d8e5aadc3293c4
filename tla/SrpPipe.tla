------------------------------- MODULE SrpPipe -------------------------------
(***************************************************************************)
(* What the sliding-window transfer promises to whoever reads the output   *)
(* file, whatever the network does: a pipe that hands over the pieces of   *)
(* the file once each, in order, none before the sender has read it.  It   *)
(* promises nothing about handing over all of them.                        *)
(***************************************************************************)
EXTENDS Naturals, Sequences

CONSTANT NumChunks  \* the number of pieces of the file

VARIABLES
    accepted,       \* how many pieces the sender has read
    delivered       \* the piece numbers handed over, in order

pipeVars == <<accepted, delivered>>

PipeInit ==
    /\ accepted = 0
    /\ delivered = <<>>

AcceptPiece ==
    /\ accepted < NumChunks
    /\ accepted' = accepted + 1
    /\ UNCHANGED delivered

DeliverPiece ==
    /\ Len(delivered) < accepted
    /\ delivered' = Append(delivered, Len(delivered) + 1)
    /\ UNCHANGED accepted

PipeNext == AcceptPiece \/ DeliverPiece

PipeSpec == PipeInit /\ [][PipeNext]_pipeVars
=============================================================================
