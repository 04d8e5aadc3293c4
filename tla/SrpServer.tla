------------------------------ MODULE SrpServer ------------------------------
(***************************************************************************)
(* The receiving side, src/5273/PA2/server/SRPserver.c: an endless loop of *)
(* recvfrom() and receiveMsg().  receiveMsg() acknowledges every frame,    *)
(* then stores it in the receive queue if it lies in the window, and       *)
(* writes it to the output file if it is the next one expected.            *)
(***************************************************************************)
EXTENDS SrpNet

RWS == 1         \* helper.h: receive window size

VARIABLES
    NFE,         \* next frame expected
    LFR,         \* last frame received
    LAF,         \* largest acceptable frame
    recvSlot,    \* recvQ[0], the only slot of the receive queue
    written,     \* the pieces passed to fwrite(), in order
    cliLen       \* the address length recvfrom() is given, see below

serverVars == <<NFE, LFR, LAF, recvSlot, written, cliLen>>

(* main() passes recvfrom() the address of cliLen without setting it.  The  *)
(* value found there decides whether the client's address is stored:        *)
(*   "full"      at least the size of the address: it is stored;            *)
(*   "short"     too small: the address is cut off this once, and recvfrom  *)
(*               leaves the true length behind for the next call;           *)
(*   "negative"  recvfrom() fails with EINVAL after it has copied the       *)
(*               frame, every time, and never stores the address.           *)
CliLens == {"full", "short", "negative"}

(* LFR is assigned -1, which a u_char holds as SeqMod - 1. *)
InitializeState(blank) ==
    /\ NFE = 0
    /\ LFR = SeqMod - 1
    /\ LAF = RWS
    /\ recvSlot = [valid |-> FALSE, seqno |-> 0, data |-> blank]

(* main() before its loop: the state, a bound socket, the output file, to   *)
(* which fwrite() appends, and whatever cliLen finds on the stack.  A       *)
(* server that lacks arguments or cannot bind never takes a step.           *)
ServerInit(blank) ==
    /\ InitializeState(blank)
    /\ written = <<>>
    /\ cliLen \in CliLens

(* LFR % mischiefChar (without it in the first form), with mischiefChar = (u_char) -1 = SeqMod - 1. *)
FoldedLFR_Dropped == LFR

FoldedLFR == IF LFR = SeqMod - 1 THEN 0 ELSE LFR

(* A receiver that forgets the upper end of the window. *)
InWindow_NoUpperEnd(seq) == seq >= FoldedLFR

InWindow(seq) == seq < LAF /\ seq >= FoldedLFR

(* A receiver that writes whatever lies in the window. *)
Expected_AnyInWindow(seq) == InWindow(seq)

Expected(seq) == seq = NFE

(* A receiver that acknowledges only the frame it writes. *)
Acknowledge_Expected(seq) ==
    /\ cliLen' = IF cliLen = "short" THEN "full" ELSE cliLen
    /\ \E rnd \in 0 .. RndMax :
          IF cliLen = "full" /\ Expected(seq)
          THEN SendToClient(seq, rnd)
          ELSE UNCHANGED <<toClient, lost>>

(* sendto_() to the address recvfrom() left behind. *)
Acknowledge(seq) ==
    /\ cliLen' = IF cliLen = "short" THEN "full" ELSE cliLen
    /\ \E rnd \in 0 .. RndMax :
          IF cliLen = "full"
          THEN SendToClient(seq, rnd)
          ELSE UNCHANGED <<toClient, lost>>

(* The frame is copied into its slot; if it is the one expected it is       *)
(* written and the window advances.  The loop that writes the frames        *)
(* buffered behind it tests recvQ[NFE % RWS], which for RWS = 1 is the slot *)
(* that was just invalidated, and so has no iteration.                      *)
Accept(frame) ==
    /\ recvSlot' = [valid |-> ~Expected(frame.seq), seqno |-> frame.seq,
                    data |-> frame.data]
    /\ IF Expected(frame.seq)
       THEN /\ written' = Append(written, frame.data)
            /\ NFE' = Inc(NFE)
            /\ LFR' = Inc(LFR)
            /\ LAF' = Inc(LAF)
       ELSE UNCHANGED <<written, NFE, LFR, LAF>>

(* One turn of the server's loop. *)
Receive ==
    /\ toServer # <<>>
    /\ toServer' = Tail(toServer)
    /\ Acknowledge(Head(toServer).seq)
    /\ \/ /\ InWindow(Head(toServer).seq)
          /\ Accept(Head(toServer))
       \/ /\ ~InWindow(Head(toServer).seq)
          /\ UNCHANGED <<NFE, LFR, LAF, recvSlot, written>>
    /\ UNCHANGED faults

ServerNext == Receive
=============================================================================
