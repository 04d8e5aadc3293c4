--------------------------------- MODULE Srp ---------------------------------
(***************************************************************************)
(* The sliding-window file transfer of src/5273/PA2: one client, one       *)
(* server, and the network between them.  The modules SrpClient, SrpServer *)
(* and SrpNet hold the actions; this module composes them and states what  *)
(* the protocol does and does not achieve.                                 *)
(***************************************************************************)
EXTENDS SrpClient, SrpServer

vars == <<netVars, clientVars, serverVars>>

Init ==
    /\ NetInit
    /\ ClientInit
    /\ ServerInit(BlankPiece)

ClientStep == ClientNext /\ UNCHANGED serverVars
ServerStep == ServerNext /\ UNCHANGED clientVars
UdpStep    == (Duplicate \/ Delay) /\ UNCHANGED <<clientVars, serverVars>>

Next == ClientStep \/ ServerStep \/ UdpStep

Spec == Init /\ [][Next]_vars

(* Both programs are processes the operating system keeps scheduling, and a *)
(* select() timer runs out; nothing is assumed of the network.              *)
FairSpec == Spec /\ WF_vars(ClientStep) /\ WF_vars(ServerStep)

-----------------------------------------------------------------------------
(* Every variable of client, server and network holds a value of its type;  *)
(* for the sequence numbers that is the range of a SwpSeqno.                *)
TypeOK ==
    /\ toServer \in Seq(FrameSet)
    /\ toClient \in Seq(Seqno)
    /\ lost \in Nat
    /\ faults \in 0 .. MaxFaults
    /\ cpc \in {"read", "select", "check", "wait", "done", "aborted"}
    /\ nread \in 0 .. NumChunks
    /\ LAR \in Seqno
    /\ LFS \in Seqno
    /\ newSend \in Int
    /\ slot \in [seq : Seqno, data : PieceSet, acked : BOOLEAN]
    /\ readable \in BOOLEAN
    /\ NFE \in Seqno
    /\ LFR \in Seqno
    /\ LAF \in Seqno
    /\ recvSlot \in [valid : BOOLEAN, seqno : Seqno, data : PieceSet]
    /\ written \in Seq(PieceSet)
    /\ cliLen \in CliLens

-----------------------------------------------------------------------------
(* What holds whatever is lost, duplicated or delayed.                      *)

(* The output file is a prefix of the input: receiveMsg() never writes a    *)
(* piece twice, out of order, or from a frame that was sent under the same  *)
(* sequence number for another piece.                                       *)
InOrder == \A i \in 1 .. Len(written) : written[i] = Piece(i)

(* The receive window compares sequence numbers that wrap without wrapping  *)
(* itself: once LAF is back at 0 no frame is ever accepted again, so at     *)
(* most SeqMod - 1 pieces reach the output file, 255 in the code.           *)
WriteLimit == Len(written) <= SeqMod - 1

(* No acknowledgement ever advances the sender: the comparison with         *)
(* LAR + 1 in the client's loop is never true, LAR keeps the value it       *)
(* starts with, and the branch whose select() fails is never taken.         *)
AcksNeverAdvance == LAR = SeqMod - 1 /\ cpc # "aborted" /\ ~slot.acked

(* The only frame that is ever sent twice by the client is frame 0: the     *)
(* one select() with a real timeout is called for it alone, and read_fds    *)
(* stays set from the first acknowledgement on.                             *)
OnlyFrameZeroResent == [][Resend => slot.seq = 0 /\ nread = 1]_vars

(* The client sends one frame for each datagram it waits for, but the       *)
(* retransmission of frame 0 adds one and the acknowledgement select()      *)
(* waited for is not received, so that at most three datagrams, plus what   *)
(* UDP duplicates, are under way while the client runs.                     *)
InFlightBound == Len(toServer) + Len(toClient) <= 3 + faults

(* The detailed protocol is the pipe: reading a piece accepts it, fwrite()  *)
(* delivers it, everything else is invisible.                               *)
Delivered == [i \in 1 .. Len(written) |-> written[i].chunk]
Pipe == INSTANCE SrpPipe WITH accepted <- nread, delivered <- Delivered
PipeRefined == Pipe!PipeSpec

-----------------------------------------------------------------------------
(* When the transfer does succeed.                                          *)

Complete == Len(written) = NumChunks

Undisturbed == faults = 0 /\ cliLen # "negative"

(* Without a lost or duplicated datagram the whole file is written and the  *)
(* client ends, if the file has fewer pieces than there are sequence        *)
(* numbers; a first acknowledgement lost to the uninitialised address       *)
(* length is made good by the retransmission of frame 0.                    *)
LosslessDelivery ==
    NumChunks < SeqMod =>
        \/ <>(lost > 0 \/ ~Undisturbed)
        \/ <>[](Complete /\ cpc = "done")

(* Once the timeout for frame 0 has expired, the retransmission makes up    *)
(* for everything lost until then: nothing more needs to survive than what  *)
(* is sent from here on.  The server must know the client's address, or     *)
(* have a frame on its way to learn it from.                                *)
FirstFrameRecovers ==
    \A k \in 0 .. 2 :
        (/\ cpc = "check" /\ ~readable /\ lost = k
         /\ cliLen = "full" \/ toServer # <<>>)
            ~> (lost > k \/ ~Undisturbed \/ (Complete /\ cpc = "done"))

-----------------------------------------------------------------------------
(* What the repository says of the program and the code does not do: the    *)
(* property of a run that finds it violated.                                *)

(* README: "timeouts with retransmission".  One lost datagram, and no more  *)
(* than one, does not keep the transfer from completing.                    *)
SingleLossRecovered == <>(lost > 1 \/ ~Undisturbed) \/ <>Complete
=============================================================================
