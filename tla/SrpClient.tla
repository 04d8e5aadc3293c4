------------------------------ MODULE SrpClient ------------------------------
(***************************************************************************)
(* The sending side, src/5273/PA2/client/SRPclient.c.  One thread runs one *)
(* do-while loop; an iteration reads 509 bytes of the file, sends them as  *)
(* a frame and then, depending on read_fds, either blocks in recv() for an *)
(* acknowledgement or sends the frame once more and blocks in select().    *)
(*                                                                         *)
(* cpc is the place in the loop:                                           *)
(*   "read"    top of the loop, before fread()                 (line 215)  *)
(*   "select"  in the select() of sendNewFrame(), 2.5 seconds  (line 107)  *)
(*   "check"   at the test of read_fds                         (line 238)  *)
(*   "wait"    in a select() whose timeout is never reached    (line 352)  *)
(*   "done"    the loop was left and the file closed           (line 366)  *)
(*   "aborted" exit(4) after a failed select()                 (line 278)  *)
(***************************************************************************)
EXTENDS SrpNet

CONSTANTS
    NumChunks,   \* the file is NumChunks pieces of at most 509 bytes
    LastPartial  \* TRUE when the last piece is shorter than 509 bytes

ASSUME FileAssumption == NumChunks \in Nat /\ LastPartial \in BOOLEAN

SWS == 1         \* helper.h: send window size

VARIABLES
    cpc,         \* place in the client's loop
    nread,       \* number of pieces fread() has returned
    LAR,         \* last acknowledgement received
    LFS,         \* last frame sent
    newSend,     \* free places in the send window, as the client counts them
    slot,        \* sendQ[0], the only slot of the send queue
    readable     \* is sd set in read_fds?

clientVars == <<cpc, nread, LAR, LFS, newSend, slot, readable>>

(* The i-th piece.  frame.m is reused from one iteration to the next and is *)
(* always sent whole, so a short last piece is followed by stale bytes.     *)
Piece(i) == [chunk |-> i, padded |-> LastPartial /\ i = NumChunks]

BlankPiece == [chunk |-> 0, padded |-> FALSE]

PieceSet == [chunk : 0 .. NumChunks, padded : BOOLEAN]

FrameSet == [seq : Seqno, data : PieceSet]

(* LAR and LFS are assigned -1, which a u_char holds as SeqMod - 1. *)
ClientInit ==
    /\ cpc = "read"
    /\ nread = 0
    /\ LAR = SeqMod - 1
    /\ LFS = SeqMod - 1
    /\ newSend = SWS
    /\ slot = [seq |-> 0, data |-> BlankPiece, acked |-> FALSE]
    /\ readable = TRUE

(* The while condition, evaluated only while the file is not read to its end. *)
LoopEnd == IF LAR # LFS THEN "read" ELSE "done"

-----------------------------------------------------------------------------
(* fread() returns 0: doneReadingFile is set and the loop ends. *)
EndOfFile ==
    /\ cpc = "read"
    /\ nread = NumChunks
    /\ cpc' = "done"
    /\ UNCHANGED <<netVars, nread, LAR, LFS, newSend, slot, readable>>

(* fread() returns a piece and sendNewFrame() sends it.  Neither newSend    *)
(* nor the semaphore is consulted.  Only frame 0 starts a select().         *)
SendNewFrame ==
    /\ cpc = "read"
    /\ nread < NumChunks
    /\ nread' = nread + 1
    /\ LFS' = Inc(LFS)
    /\ newSend' = newSend - 1
    /\ slot' = [seq |-> LFS', data |-> Piece(nread'), acked |-> FALSE]
    /\ \E rnd \in 0 .. RndMax :
          SendToServer([seq |-> LFS', data |-> Piece(nread')], rnd)
    /\ cpc' = IF LFS' = 0 THEN "select" ELSE "check"
    /\ UNCHANGED <<toClient, faults, LAR, readable>>

(* The select() of sendNewFrame() returns because a datagram is there ... *)
SelectReady ==
    /\ cpc = "select"
    /\ toClient # <<>>
    /\ readable' = TRUE
    /\ cpc' = "check"
    /\ UNCHANGED <<netVars, nread, LAR, LFS, newSend, slot>>

(* ... or because 2.5 seconds passed without one; it then clears read_fds. *)
SelectTimeout ==
    /\ cpc = "select"
    /\ toClient = <<>>
    /\ readable' = FALSE
    /\ cpc' = "check"
    /\ UNCHANGED <<netVars, nread, LAR, LFS, newSend, slot>>

(* state.LAR + 1 is an int: it does not wrap as the u_char it is compared   *)
(* with does (the first form wraps both).                                   *)
IsNextAck_Wrapping(ack) == ack = Inc(LAR)

IsNextAck(ack) == ack = LAR + 1

IsLaterAck(ack) == ~IsNextAck(ack) /\ ack > LFS /\ ack < LAR

(* A blocking recv() of one acknowledgement.  For the next expected one the *)
(* client computes "now minus void_timeout", a negative time, and the       *)
(* select() it passes that to fails: exit(4).  For a later one within the   *)
(* window it marks the slot and waits in another unbounded select().        *)
(* Every other acknowledgement is ignored.                                  *)
RecvAck ==
    /\ cpc = "check"
    /\ readable
    /\ toClient # <<>>
    /\ toClient' = Tail(toClient)
    /\ LET ack == Head(toClient) IN
         /\ cpc' = CASE IsNextAck(ack)  -> "aborted"
                     [] IsLaterAck(ack) -> "wait"
                     [] OTHER           -> LoopEnd
         /\ slot' = [slot EXCEPT !.acked = @ \/ IsLaterAck(ack)]
    /\ UNCHANGED <<toServer, lost, faults, nread, LAR, LFS, newSend, readable>>

(* "Timed out. Resend": the slot is sent again and select() is called with  *)
(* the time of day as its timeout, some forty years.                        *)
Resend ==
    /\ cpc = "check"
    /\ ~readable
    /\ \E rnd \in 0 .. RndMax :
          SendToServer([seq |-> slot.seq, data |-> slot.data], rnd)
    /\ cpc' = "wait"
    /\ UNCHANGED <<toClient, faults, nread, LAR, LFS, newSend, slot, readable>>

(* A client whose second select() expires as the first one does. *)
WaitReady_Expiring ==
    /\ cpc = "wait"
    /\ readable' = (toClient # <<>>)
    /\ cpc' = LoopEnd
    /\ UNCHANGED <<netVars, nread, LAR, LFS, newSend, slot>>

(* That select() returns once a datagram is there.  It is not received in   *)
(* this iteration; read_fds stays set from now on.                          *)
WaitReady ==
    /\ cpc = "wait"
    /\ toClient # <<>>
    /\ readable' = TRUE
    /\ cpc' = LoopEnd
    /\ UNCHANGED <<netVars, nread, LAR, LFS, newSend, slot>>

ClientNext ==
    \/ EndOfFile
    \/ SendNewFrame
    \/ SelectReady
    \/ SelectTimeout
    \/ RecvAck
    \/ Resend
    \/ WaitReady
=============================================================================
