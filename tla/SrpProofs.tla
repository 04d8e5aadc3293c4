------------------------------ MODULE SrpProofs ------------------------------
(***************************************************************************)
(* Proofs about the sliding-window transfer, for every number of sequence  *)
(* numbers, every file length, every loss rate and any number of           *)
(* duplications and delays.                                                *)
(*                                                                         *)
(* The inductive invariant counts: nread pieces have been read, so the     *)
(* frames sent bear the numbers 0 .. nread - 1 and, as the client stops    *)
(* when LFS is back at its initial value, no number is used for two        *)
(* pieces.  The server's three counters are functions of Len(written).     *)
(***************************************************************************)
EXTENDS Srp, SeqLemmas, TLAPS

ClientInv ==
    /\ nread <= SeqMod
    /\ LFS = IF nread = 0 THEN SeqMod - 1 ELSE nread - 1
    /\ LAR = SeqMod - 1
    /\ cpc # "aborted"
    /\ cpc = "read" => nread < SeqMod
    /\ cpc = "select" => nread = 1
    /\ cpc \in {"check", "wait"} => nread > 0
    /\ ~readable => nread = 1 /\ cpc \in {"check", "wait"}
    /\ nread > 0 => slot.seq = nread - 1 /\ slot.data = Piece(nread)
    /\ ~slot.acked

(* A frame carries the piece its number stands for. *)
GoodFrame(f) == f.seq < nread /\ f.data = Piece(f.seq + 1)

ChannelInv ==
    /\ \A i \in 1 .. Len(toServer) : GoodFrame(toServer[i])
    /\ \A i \in 1 .. Len(toClient) : toClient[i] < nread

ServerInv ==
    /\ Len(written) <= nread
    /\ Len(written) <= SeqMod - 1
    /\ NFE = Len(written)
    /\ LFR = IF Len(written) = 0 THEN SeqMod - 1 ELSE Len(written) - 1
    /\ LAF = IF Len(written) = SeqMod - 1 THEN 0 ELSE Len(written) + 1

IInv == TypeOK /\ ClientInv /\ ChannelInv /\ ServerInv /\ InOrder

-----------------------------------------------------------------------------
(* ++ on a sequence number gives a sequence number.                         *)
LEMMA IncType == ASSUME NEW x \in Seqno PROVE Inc(x) \in Seqno
BY SeqModAssumption DEF Inc, Seqno

(* The piece at any place of the file is a piece.                           *)
LEMMA PieceType == ASSUME NEW i \in 0 .. NumChunks PROVE Piece(i) \in PieceSet
BY FileAssumption DEF Piece, PieceSet

(* sendto_() keeps the channel to the server full of good frames.           *)
LEMMA SendKeepsFrames ==
    ASSUME IInv, NEW f \in FrameSet, NEW n \in Nat, nread <= n,
           f.seq < n, f.data = Piece(f.seq + 1),
           NEW rnd \in 0 .. RndMax, SendToServer(f, rnd)
    PROVE  /\ toServer' \in Seq(FrameSet)
           /\ lost' \in Nat
           /\ \A i \in 1 .. Len(toServer') :
                 /\ toServer'[i].seq < n
                 /\ toServer'[i].data = Piece(toServer'[i].seq + 1)
<1>1. /\ toServer \in Seq(FrameSet) /\ lost \in Nat /\ nread \in Nat
      /\ \A i \in 1 .. Len(toServer) : toServer[i] \in FrameSet
      /\ \A i \in 1 .. Len(toServer) :
            toServer[i].seq < nread /\ toServer[i].data = Piece(toServer[i].seq + 1)
  BY DEF IInv, TypeOK, ChannelInv, GoodFrame
<1>2. \A i \in 1 .. Len(toServer) : toServer[i].seq < n
  <2>1. \A g \in FrameSet : g.seq \in Int
    BY SeqModAssumption DEF FrameSet, Seqno
  <2>2. QED
    BY <1>1, <2>1
<1>3. CASE Survives(rnd)
  <2>1. toServer' = Append(toServer, f) /\ lost' = lost
    BY <1>3 DEF SendToServer
  <2>2. /\ Append(toServer, f) \in Seq(FrameSet)
        /\ \A i \in 1 .. Len(Append(toServer, f)) :
              \/ Append(toServer, f)[i] = f
              \/ /\ i \in 1 .. Len(toServer)
                 /\ Append(toServer, f)[i] = toServer[i]
    BY <1>1, AppendElements
  <2>3. QED
    BY <1>1, <1>2, <2>1, <2>2
<1>4. CASE ~Survives(rnd)
  BY <1>1, <1>2, <1>4 DEF SendToServer
<1>5. QED
  BY <1>3, <1>4

(* A step of the client keeps the invariant.                                *)
LEMMA ClientKeepsInv == ASSUME IInv, ClientStep PROVE IInv'
<1> USE SeqModAssumption, FileAssumption
<1> UNCHANGED serverVars
  BY DEF ClientStep
<1>1. CASE EndOfFile
  BY <1>1 DEF EndOfFile, IInv, TypeOK, ClientInv, ChannelInv, GoodFrame,
     ServerInv, InOrder, netVars, serverVars
<1>2. CASE SendNewFrame
  <2> DEFINE f == [seq |-> LFS', data |-> Piece(nread')]
  <2>1. /\ cpc = "read" /\ nread \in Nat /\ nread < SeqMod /\ nread < NumChunks
        /\ nread' = nread + 1 /\ nread' \in 1 .. NumChunks
        /\ LFS' = nread /\ LFS' \in Seqno
    BY <1>2 DEF SendNewFrame, IInv, TypeOK, ClientInv, Inc, Seqno
  <2>2. f \in FrameSet /\ Piece(nread') \in PieceSet
    BY <2>1, PieceType DEF FrameSet
  <2>3. PICK rnd \in 0 .. RndMax : SendToServer(f, rnd)
    BY <1>2 DEF SendNewFrame
  <2>4. /\ toServer' \in Seq(FrameSet)
        /\ lost' \in Nat
        /\ \A i \in 1 .. Len(toServer') :
              /\ toServer'[i].seq < nread'
              /\ toServer'[i].data = Piece(toServer'[i].seq + 1)
    <3>1. f.seq < nread' /\ f.data = Piece(f.seq + 1) /\ nread <= nread'
      BY <2>1
    <3>2. QED
      BY <2>1, <2>2, <2>3, <3>1, SendKeepsFrames
  <2>5. /\ newSend' = newSend - 1
        /\ slot' = [seq |-> nread, data |-> Piece(nread'), acked |-> FALSE]
        /\ cpc' = IF nread = 0 THEN "select" ELSE "check"
        /\ UNCHANGED <<toClient, faults, LAR, readable>>
    BY <1>2, <2>1 DEF SendNewFrame
  <2>6. TypeOK'
    BY <2>1, <2>2, <2>4, <2>5 DEF IInv, TypeOK, serverVars
  <2>7. ClientInv'
    <3>1. /\ nread' <= SeqMod /\ nread' > 0
          /\ LFS' = IF nread' = 0 THEN SeqMod - 1 ELSE nread' - 1
      BY <2>1
    <3>2. /\ cpc' = "select" => nread' = 1
          /\ cpc' \in {"select", "check"}
      BY <2>1, <2>5
    <3>3. readable' /\ LAR' = SeqMod - 1
      BY <2>1, <2>5 DEF IInv, TypeOK, ClientInv
    <3>4. slot'.seq = nread' - 1 /\ slot'.data = Piece(nread') /\ ~slot'.acked
      BY <2>1, <2>5
    <3>5. QED
      BY <3>1, <3>2, <3>3, <3>4 DEF ClientInv, Piece
  <2>8. ChannelInv'
    BY <2>1, <2>4, <2>5 DEF IInv, TypeOK, ChannelInv, GoodFrame, Seqno
  <2>9. ServerInv'
    BY <2>1 DEF IInv, TypeOK, ServerInv, serverVars
  <2>10. InOrder'
    BY DEF IInv, InOrder, serverVars
  <2>11. QED
    BY <2>6, <2>7, <2>8, <2>9, <2>10 DEF IInv
<1>3. CASE SelectReady
  <2>1. TypeOK' /\ ClientInv'
    BY <1>3 DEF SelectReady, IInv, TypeOK, ClientInv, netVars, serverVars
  <2>2. ChannelInv' /\ ServerInv' /\ InOrder'
    BY <1>3 DEF SelectReady, IInv, ChannelInv, GoodFrame, ServerInv, InOrder,
       netVars, serverVars
  <2>3. QED
    BY <2>1, <2>2 DEF IInv
<1>4. CASE SelectTimeout
  <2>1. TypeOK' /\ ClientInv'
    <3>1. /\ cpc = "select" /\ cpc' = "check" /\ readable' = FALSE
          /\ UNCHANGED <<netVars, nread, LAR, LFS, newSend, slot>>
      BY <1>4 DEF SelectTimeout
    <3>2. TypeOK'
      BY <3>1 DEF IInv, TypeOK, netVars, serverVars
    <3>3. nread = 1
      BY <3>1 DEF IInv, ClientInv
    <3>4. ClientInv'
      BY <3>1, <3>3 DEF IInv, ClientInv
    <3>5. QED
      BY <3>2, <3>4
  <2>2. ChannelInv' /\ ServerInv' /\ InOrder'
    BY <1>4 DEF SelectTimeout, IInv, ChannelInv, GoodFrame, ServerInv, InOrder,
       netVars, serverVars
  <2>3. QED
    BY <2>1, <2>2 DEF IInv
<1>5. CASE RecvAck
  <2> DEFINE ack == Head(toClient)
  <2>1. /\ cpc = "check" /\ readable /\ toClient # <<>> /\ nread > 0
        /\ toClient' = Tail(toClient)
        /\ UNCHANGED <<toServer, lost, faults, nread, LAR, LFS, newSend, readable>>
    BY <1>5 DEF RecvAck, IInv, ClientInv
  <2>2. ack \in Seqno /\ ack < nread
    BY <2>1 DEF IInv, TypeOK, ChannelInv
  <2>3. ~IsNextAck(ack) /\ ~IsLaterAck(ack)
    BY <2>1, <2>2 DEF IInv, TypeOK, ClientInv, IsNextAck, IsLaterAck, Seqno
  <2>4. cpc' = LoopEnd /\ slot' = slot
    <3>1. /\ cpc' = LoopEnd
          /\ slot' = [slot EXCEPT !.acked = slot.acked \/ IsLaterAck(ack)]
      BY <1>5, <2>3 DEF RecvAck
    <3>2. (slot.acked \/ IsLaterAck(ack)) = slot.acked
      BY <2>3 DEF IInv, TypeOK
    <3>3. [slot EXCEPT !.acked = slot.acked] = slot
      BY DEF IInv, TypeOK
    <3>4. QED
      BY <3>1, <3>2, <3>3
  <2>5. /\ toClient' \in Seq(Seqno)
        /\ \A i \in 1 .. Len(toClient') : toClient'[i] < nread
    BY <2>1 DEF IInv, TypeOK, ChannelInv
  <2>6. TypeOK'
    BY <2>1, <2>4, <2>5 DEF IInv, TypeOK, serverVars, LoopEnd
  <2>7. ClientInv'
    BY <2>1, <2>4 DEF IInv, TypeOK, ClientInv, LoopEnd, Seqno
  <2>8. ChannelInv' /\ ServerInv' /\ InOrder'
    BY <2>1, <2>5 DEF IInv, ChannelInv, GoodFrame, ServerInv, InOrder, serverVars
  <2>9. QED
    BY <2>6, <2>7, <2>8 DEF IInv
<1>6. CASE Resend
  <2> DEFINE f == [seq |-> slot.seq, data |-> slot.data]
  <2>1. /\ cpc = "check" /\ ~readable /\ nread = 1 /\ cpc' = "wait"
        /\ UNCHANGED <<toClient, faults, nread, LAR, LFS, newSend, slot, readable>>
    BY <1>6 DEF Resend, IInv, ClientInv
  <2>2. f \in FrameSet /\ f.seq < nread /\ f.data = Piece(f.seq + 1)
    BY <2>1 DEF IInv, TypeOK, ClientInv, FrameSet
  <2>3. PICK rnd \in 0 .. RndMax : SendToServer(f, rnd)
    BY <1>6 DEF Resend
  <2>4. /\ toServer' \in Seq(FrameSet)
        /\ lost' \in Nat
        /\ \A i \in 1 .. Len(toServer') :
              /\ toServer'[i].seq < nread
              /\ toServer'[i].data = Piece(toServer'[i].seq + 1)
    <3>1. nread \in Nat /\ nread <= nread
      BY <2>1
    <3>2. QED
      BY <2>2, <2>3, <3>1, SendKeepsFrames
  <2>5. TypeOK'
    BY <2>1, <2>4 DEF IInv, TypeOK, serverVars
  <2>6. ClientInv' /\ ServerInv' /\ InOrder'
    BY <2>1 DEF IInv, ClientInv, ServerInv, InOrder, serverVars
  <2>7. ChannelInv'
    BY <2>1, <2>4 DEF IInv, ChannelInv, GoodFrame
  <2>8. QED
    BY <2>5, <2>6, <2>7 DEF IInv
<1>7. CASE WaitReady
  <2>1. /\ cpc = "wait" /\ readable' = TRUE /\ cpc' = LoopEnd
        /\ UNCHANGED <<netVars, nread, LAR, LFS, newSend, slot>>
    BY <1>7 DEF WaitReady
  <2>2. TypeOK' /\ ClientInv'
    BY <2>1 DEF IInv, TypeOK, ClientInv, LoopEnd, netVars, serverVars
  <2>3. ChannelInv' /\ ServerInv' /\ InOrder'
    BY <2>1 DEF IInv, ChannelInv, GoodFrame, ServerInv, InOrder, netVars, serverVars
  <2>4. QED
    BY <2>2, <2>3 DEF IInv
<1>8. QED
  BY <1>1, <1>2, <1>3, <1>4, <1>5, <1>6, <1>7 DEF ClientStep, ClientNext

(* What acknowledging frame seq does to the channel to the client.          *)
LEMMA AcknowledgeKeepsAcks ==
    ASSUME IInv, NEW seq \in Seqno, seq < nread, Acknowledge(seq)
    PROVE  /\ toClient' \in Seq(Seqno)
           /\ lost' \in Nat
           /\ cliLen' \in CliLens
           /\ \A i \in 1 .. Len(toClient') : toClient'[i] < nread
<1>1. /\ toClient \in Seq(Seqno) /\ lost \in Nat
      /\ \A i \in 1 .. Len(toClient) : toClient[i] < nread
  BY DEF IInv, TypeOK, ChannelInv
<1>2. cliLen' \in CliLens
  BY DEF Acknowledge, IInv, TypeOK, CliLens
<1>3. CASE cliLen = "full"
  <2>1. PICK rnd \in 0 .. RndMax : SendToClient(seq, rnd)
    BY <1>3 DEF Acknowledge
  <2>2. CASE Survives(rnd)
    <3>1. toClient' = Append(toClient, seq) /\ lost' = lost
      BY <2>1, <2>2 DEF SendToClient
    <3>2. /\ Append(toClient, seq) \in Seq(Seqno)
          /\ \A i \in 1 .. Len(Append(toClient, seq)) :
                \/ Append(toClient, seq)[i] = seq
                \/ /\ i \in 1 .. Len(toClient)
                   /\ Append(toClient, seq)[i] = toClient[i]
      BY <1>1, AppendElements
    <3>3. QED
      BY <1>1, <1>2, <3>1, <3>2
  <2>3. CASE ~Survives(rnd)
    BY <1>1, <1>2, <2>1, <2>3 DEF SendToClient
  <2>4. QED
    BY <2>2, <2>3
<1>4. CASE cliLen # "full"
  <2>1. UNCHANGED <<toClient, lost>>
    BY <1>4, LossAssumption DEF Acknowledge
  <2>2. QED
    BY <1>1, <1>2, <2>1
<1>5. QED
  BY <1>3, <1>4

(* A step of the server keeps the invariant.                                *)
LEMMA ServerKeepsInv == ASSUME IInv, ServerStep PROVE IInv'
<1> USE SeqModAssumption, FileAssumption
<1> DEFINE f == Head(toServer)
           w == Len(written)
<1>1. /\ toServer # <<>> /\ toServer' = Tail(toServer)
      /\ Acknowledge(f.seq)
      /\ \/ InWindow(f.seq) /\ Accept(f)
         \/ ~InWindow(f.seq) /\ UNCHANGED <<NFE, LFR, LAF, recvSlot, written>>
      /\ UNCHANGED faults
      /\ UNCHANGED clientVars
  BY DEF ServerStep, ServerNext, Receive
<1>2. /\ toServer' \in Seq(FrameSet)
      /\ f \in FrameSet
      /\ 1 \in 1 .. Len(toServer) /\ f = toServer[1]
      /\ \A i \in 1 .. Len(toServer') :
            i + 1 \in 1 .. Len(toServer) /\ toServer'[i] = toServer[i + 1]
  BY <1>1, TailElements DEF IInv, TypeOK
<1>3. GoodFrame(f) /\ \A i \in 1 .. Len(toServer') : GoodFrame(toServer'[i])
  BY <1>2 DEF IInv, ChannelInv
<1>4. f.seq \in Seqno /\ f.data \in PieceSet /\ f.seq < nread
  BY <1>2, <1>3 DEF FrameSet, GoodFrame
<1>5. /\ toClient' \in Seq(Seqno)
      /\ lost' \in Nat
      /\ cliLen' \in CliLens
      /\ \A i \in 1 .. Len(toClient') : toClient'[i] < nread
  BY <1>1, <1>4, AcknowledgeKeepsAcks
<1>6. ClientInv' /\ ChannelInv'
  <2>1. ClientInv'
    BY <1>1 DEF IInv, ClientInv, clientVars
  <2>2. ChannelInv'
    BY <1>1, <1>3, <1>5 DEF ChannelInv, GoodFrame, clientVars
  <2>3. QED
    BY <2>1, <2>2
<1>7. w \in Nat /\ NFE = w /\ w <= SeqMod - 1 /\ w <= nread /\ nread \in Nat
  BY DEF IInv, TypeOK, ServerInv
<1>8. CASE InWindow(f.seq) /\ Accept(f) /\ Expected(f.seq)
  <2>1. /\ written' = Append(written, f.data)
        /\ NFE' = Inc(NFE) /\ LFR' = Inc(LFR) /\ LAF' = Inc(LAF)
        /\ recvSlot' = [valid |-> ~Expected(f.seq), seqno |-> f.seq,
                        data |-> f.data]
    BY <1>8 DEF Accept
  <2>2. f.seq = w /\ f.data = Piece(w + 1)
    BY <1>3, <1>7, <1>8 DEF Expected, GoodFrame
  <2>3. w < SeqMod - 1 /\ w < nread
    BY <1>4, <1>7, <1>8, <2>2 DEF InWindow, IInv, ServerInv
  <2>4. /\ written \in Seq(PieceSet) /\ written' \in Seq(PieceSet)
        /\ Len(written') = w + 1
        /\ \A i \in 1 .. w : written'[i] = written[i]
        /\ written'[w + 1] = f.data
    BY <1>4, <2>1 DEF IInv, TypeOK
  <2>5. ServerInv'
    <3>1. NFE' = w + 1
      BY <1>7, <2>1, <2>3 DEF Inc
    <3>2. LFR' = w
      BY <1>7, <2>1, <2>3 DEF Inc, IInv, ServerInv
    <3>3. LAF' = IF w + 1 = SeqMod - 1 THEN 0 ELSE w + 2
      BY <1>7, <2>1, <2>3 DEF Inc, IInv, ServerInv
    <3>4. nread' = nread
      BY <1>1 DEF clientVars
    <3>5. QED
      BY <1>7, <2>3, <2>4, <3>1, <3>2, <3>3, <3>4 DEF ServerInv
  <2>6. InOrder'
    <3> SUFFICES ASSUME NEW i \in 1 .. Len(written') PROVE written'[i] = Piece(i)
      BY DEF InOrder
    <3>1. CASE i \in 1 .. w
      BY <2>4, <3>1 DEF IInv, InOrder
    <3>2. CASE i = w + 1
      BY <2>2, <2>4, <3>2
    <3>3. QED
      BY <1>7, <2>4, <3>1, <3>2
  <2>7. NFE' \in Seqno /\ LFR' \in Seqno /\ LAF' \in Seqno
    BY <2>1, IncType DEF IInv, TypeOK
  <2>8. recvSlot' \in [valid : BOOLEAN, seqno : Seqno, data : PieceSet]
    BY <1>4, <2>1 DEF Expected
  <2>9. TypeOK'
    BY <1>1, <1>2, <1>5, <2>4, <2>7, <2>8 DEF IInv, TypeOK, clientVars
  <2>10. QED
    BY <1>6, <2>5, <2>6, <2>9 DEF IInv
<1>9. CASE InWindow(f.seq) /\ Accept(f) /\ ~Expected(f.seq)
  <2>1. /\ UNCHANGED <<written, NFE, LFR, LAF>>
        /\ recvSlot' = [valid |-> ~Expected(f.seq), seqno |-> f.seq,
                        data |-> f.data]
    BY <1>9 DEF Accept
  <2>2. recvSlot' \in [valid : BOOLEAN, seqno : Seqno, data : PieceSet]
    BY <1>4, <2>1 DEF Expected
  <2>3. TypeOK'
    BY <1>1, <1>2, <1>5, <2>1, <2>2 DEF IInv, TypeOK, clientVars
  <2>4. ServerInv' /\ InOrder'
    BY <1>1, <2>1 DEF IInv, ServerInv, InOrder, clientVars
  <2>5. QED
    BY <1>6, <2>3, <2>4 DEF IInv
<1>10. CASE UNCHANGED <<NFE, LFR, LAF, recvSlot, written>>
  <2>1. TypeOK'
    BY <1>1, <1>2, <1>5, <1>10 DEF IInv, TypeOK, clientVars
  <2>2. ServerInv' /\ InOrder'
    BY <1>1, <1>10 DEF IInv, ServerInv, InOrder, clientVars
  <2>3. QED
    BY <1>6, <2>1, <2>2 DEF IInv
<1>11. QED
  BY <1>1, <1>8, <1>9, <1>10

(* Duplicating or delaying a datagram brings no new one into the channel.   *)
LEMMA DisturbedElements ==
    ASSUME NEW S, NEW s \in Seq(S), s # <<>>,
           NEW t, t = Duplicated(s) \/ t = Delayed(s)
    PROVE  /\ t \in Seq(S)
           /\ \A i \in 1 .. Len(t) : \E j \in 1 .. Len(s) : t[i] = s[j]
<1>1. /\ Tail(s) \in Seq(S)
      /\ 1 \in 1 .. Len(s) /\ Head(s) = s[1] /\ Head(s) \in S
      /\ \A i \in 1 .. Len(Tail(s)) :
            i + 1 \in 1 .. Len(s) /\ Tail(s)[i] = s[i + 1]
  BY TailElements
<1>2. CASE t = Append(s, Head(s))
  <2>1. /\ t \in Seq(S)
        /\ \A i \in 1 .. Len(t) :
              t[i] = Head(s) \/ (i \in 1 .. Len(s) /\ t[i] = s[i])
    BY <1>1, <1>2, AppendElements
  <2>2. QED
    BY <1>1, <2>1
<1>3. CASE t = Append(Tail(s), Head(s))
  <2>1. /\ t \in Seq(S)
        /\ \A i \in 1 .. Len(t) :
              \/ t[i] = Head(s)
              \/ i \in 1 .. Len(Tail(s)) /\ t[i] = Tail(s)[i]
    BY <1>1, <1>3, AppendElements
  <2>2. QED
    BY <1>1, <2>1
<1>4. QED
  BY <1>2, <1>3 DEF Duplicated, Delayed

(* What UDP does to the datagrams in flight keeps the invariant.            *)
LEMMA UdpKeepsInv == ASSUME IInv, UdpStep PROVE IInv'
<1>1. /\ UNCHANGED <<clientVars, serverVars>> /\ lost' = lost
      /\ faults' = faults + 1 /\ faults < MaxFaults
  BY DEF UdpStep, Duplicate, Delay, UdpMayFault
<1>2. \/ /\ toServer # <<>>
         /\ toServer' = Duplicated(toServer) \/ toServer' = Delayed(toServer)
         /\ toClient' = toClient
      \/ /\ toClient # <<>>
         /\ toClient' = Duplicated(toClient) \/ toClient' = Delayed(toClient)
         /\ toServer' = toServer
  BY DEF UdpStep, Duplicate, Delay, IInv, TypeOK
<1>3. toServer \in Seq(FrameSet) /\ toClient \in Seq(Seqno)
  BY DEF IInv, TypeOK
<1>4. /\ toServer' \in Seq(FrameSet)
      /\ \A i \in 1 .. Len(toServer') :
            \E j \in 1 .. Len(toServer) : toServer'[i] = toServer[j]
  <2>1. CASE toServer' = toServer
    BY <1>3, <2>1
  <2>2. CASE /\ toServer # <<>>
             /\ toServer' = Duplicated(toServer) \/ toServer' = Delayed(toServer)
    BY <1>3, <2>2, DisturbedElements
  <2>3. QED
    BY <1>2, <2>1, <2>2
<1>5. /\ toClient' \in Seq(Seqno)
      /\ \A i \in 1 .. Len(toClient') :
            \E j \in 1 .. Len(toClient) : toClient'[i] = toClient[j]
  <2>1. CASE toClient' = toClient
    BY <1>3, <2>1
  <2>2. CASE /\ toClient # <<>>
             /\ toClient' = Duplicated(toClient) \/ toClient' = Delayed(toClient)
    BY <1>3, <2>2, DisturbedElements
  <2>3. QED
    BY <1>2, <2>1, <2>2
<1>6. faults' \in 0 .. MaxFaults
  BY <1>1, FaultsAssumption DEF IInv, TypeOK
<1>7. TypeOK'
  BY <1>1, <1>4, <1>5, <1>6 DEF IInv, TypeOK, clientVars, serverVars
<1>8. ChannelInv'
  <2>1. nread' = nread
    BY <1>1 DEF clientVars
  <2>2. QED
    BY <1>4, <1>5, <2>1 DEF IInv, ChannelInv, GoodFrame
<1>9. ClientInv' /\ ServerInv' /\ InOrder'
  BY <1>1 DEF IInv, ClientInv, ServerInv, InOrder, clientVars, serverVars
<1>10. QED
  BY <1>7, <1>8, <1>9 DEF IInv

(* The two programs as they start, before any datagram.                    *)
LEMMA InitInv == Init => IInv
<1> SUFFICES ASSUME Init PROVE IInv
  OBVIOUS
<1> USE SeqModAssumption, FileAssumption
<1>1. BlankPiece \in PieceSet
  BY DEF BlankPiece, PieceSet
<1>2. TypeOK
  BY <1>1, FaultsAssumption DEF Init, NetInit, ClientInit, ServerInit,
     InitializeState, TypeOK,
     Seqno, SWS, RWS
<1>3. ClientInv /\ ChannelInv /\ ServerInv /\ InOrder
  BY DEF Init, NetInit, ClientInit, ServerInit, InitializeState, ClientInv, ChannelInv,
     ServerInv, InOrder, RWS
<1>4. QED
  BY <1>2, <1>3 DEF IInv

(* A step in which nothing of the transfer changes keeps the invariant.     *)
LEMMA StutterKeepsInv == ASSUME IInv, UNCHANGED vars PROVE IInv'
<1>1. UNCHANGED netVars /\ UNCHANGED clientVars /\ UNCHANGED serverVars
  BY DEF vars
<1>2. TypeOK'
  BY <1>1 DEF IInv, TypeOK, netVars, clientVars, serverVars
<1>3. ClientInv' /\ ChannelInv' /\ ServerInv' /\ InOrder'
  BY <1>1 DEF IInv, ClientInv, ChannelInv, GoodFrame, ServerInv, InOrder,
     netVars, clientVars, serverVars
<1>4. QED
  BY <1>2, <1>3 DEF IInv

-----------------------------------------------------------------------------
(* IInv is an invariant of the transfer.                                    *)
THEOREM InvHolds == Spec => []IInv
<1>1. Init => IInv
  BY InitInv
<1>2. IInv /\ [Next]_vars => IInv'
  BY ClientKeepsInv, ServerKeepsInv, UdpKeepsInv, StutterKeepsInv DEF Next
<1>3. QED
  BY <1>1, <1>2, PTL DEF Spec

(* Every sequence number stays in the range of a SwpSeqno, and every        *)
(* variable in its type.                                                    *)
THEOREM TypeCorrect == Spec => []TypeOK
<1>1. IInv => TypeOK
  BY DEF IInv
<1>2. QED
  BY <1>1, InvHolds, PTL

(* Whatever is lost, duplicated or delayed, the output file is a prefix of  *)
(* the input file, however long that is and wherever sequence numbers wrap. *)
THEOREM OutputIsPrefix == Spec => []InOrder
<1>1. IInv => InOrder
  BY DEF IInv
<1>2. QED
  BY <1>1, InvHolds, PTL

(* The server writes at most SeqMod - 1 pieces in its life, 255 in the      *)
(* code: its window comparison does not survive the wrap of LAF.            *)
THEOREM OutputIsLimited == Spec => []WriteLimit
<1>1. IInv => WriteLimit
  BY DEF IInv, ServerInv, WriteLimit
<1>2. QED
  BY <1>1, InvHolds, PTL

(* The client never takes an acknowledgement for the one it waits for.      *)
THEOREM AcksAreDead == Spec => []AcksNeverAdvance
<1>1. IInv => AcksNeverAdvance
  BY DEF IInv, ClientInv, AcksNeverAdvance
<1>2. QED
  BY <1>1, InvHolds, PTL

(* Only frame 0 is ever retransmitted.                                      *)
THEOREM RetransmissionIsOfFrameZero == Spec => OnlyFrameZeroResent
<1>1. IInv /\ [Next]_vars => [Resend => slot.seq = 0 /\ nread = 1]_vars
  BY DEF IInv, ClientInv, Resend
<1>2. QED
  BY <1>1, InvHolds, PTL DEF Spec, OnlyFrameZeroResent

-----------------------------------------------------------------------------
(* What is under way.                                                       *)

(* How many datagrams the client's place in its loop accounts for: the one  *)
(* it waits for, the second copy of frame 0, and the acknowledgement that   *)
(* WaitReady() leaves in the socket.                                        *)
Accounted ==
    IF nread = 0
    THEN 0
    ELSE CASE cpc = "select" -> 1
           [] cpc = "check"  -> IF readable THEN 3 ELSE 1
           [] OTHER          -> 2

(* IInv with the number of datagrams that goes with each place.             *)
FlightInv == IInv /\ Len(toServer) + Len(toClient) <= Accounted + faults

(* Each step keeps the count.                                               *)
LEMMA ClientKeepsFlight == ASSUME FlightInv, ClientStep PROVE FlightInv'
<1> DEFINE s == Len(toServer)
           k == Len(toClient)
<1>1. IInv /\ IInv' /\ s + k <= Accounted + faults
  BY ClientKeepsInv DEF FlightInv
<1>2. /\ toServer \in Seq(FrameSet) /\ toClient \in Seq(Seqno)
      /\ s \in Nat /\ k \in Nat /\ faults \in Nat /\ nread \in Nat
  BY <1>1, FaultsAssumption DEF IInv, TypeOK
<1>3. ASSUME NEW f, NEW rnd, SendToServer(f, rnd)
      PROVE  Len(toServer') \in {s, s + 1}
  BY <1>2, <1>3 DEF SendToServer
<1>4. CASE EndOfFile
  BY <1>1, <1>2, <1>4 DEF EndOfFile, netVars, Accounted, FlightInv
<1>5. CASE SendNewFrame
  <2>1. /\ cpc = "read" /\ nread' = nread + 1 /\ readable' = readable /\ readable
        /\ Len(toServer') \in {s, s + 1} /\ UNCHANGED <<toClient, faults>>
    BY <1>1, <1>3, <1>5 DEF SendNewFrame, IInv, ClientInv
  <2>2. s + k <= (IF nread = 0 THEN 0 ELSE 2) + faults
    BY <1>1, <1>2, <2>1 DEF Accounted
  <2>3. CASE nread = 0
    <3>1. LFS' = 0 /\ cpc' = "select" /\ nread' = 1
      BY <1>1, <1>5, <2>1, <2>3 DEF SendNewFrame, IInv, ClientInv, Inc
    <3>2. Accounted' = 1
      BY <3>1 DEF Accounted
    <3>3. QED
      BY <1>1, <1>2, <2>1, <2>2, <2>3, <3>2 DEF FlightInv
  <2>4. CASE nread # 0
    <3>1. nread' > 1 /\ nread' # 0 /\ cpc' \in {"select", "check"}
      BY <1>2, <1>5, <2>1, <2>4 DEF SendNewFrame
    <3>2. cpc' = "check"
      BY <1>1, <3>1 DEF IInv, ClientInv
    <3>3. Accounted' = 3
      BY <2>1, <3>1, <3>2 DEF Accounted
    <3>4. QED
      BY <1>1, <1>2, <2>1, <2>2, <2>4, <3>3 DEF FlightInv
  <2>5. QED
    BY <2>3, <2>4
<1>6. CASE SelectReady \/ SelectTimeout
  <2>1. /\ cpc = "select" /\ nread = 1 /\ cpc' = "check" /\ nread' = 1
        /\ UNCHANGED <<toServer, toClient, faults>> /\ readable' \in BOOLEAN
    BY <1>1, <1>6 DEF SelectReady, SelectTimeout, netVars, IInv, ClientInv
  <2>2. Accounted = 1 /\ Accounted' \in {1, 3}
    BY <2>1 DEF Accounted
  <2>3. QED
    BY <1>1, <1>2, <2>1, <2>2 DEF FlightInv
<1>7. CASE RecvAck
  <2>1. /\ cpc = "check" /\ readable /\ nread > 0 /\ nread' = nread /\ readable' = readable
        /\ toClient # <<>> /\ toClient' = Tail(toClient) /\ UNCHANGED <<toServer, faults>>
        /\ cpc' \in {"aborted", "wait", "read", "done"}
    BY <1>1, <1>7 DEF RecvAck, LoopEnd, IInv, ClientInv
  <2>2. Len(toClient') = k - 1
    BY <1>2, <2>1
  <2>3. Accounted = 3 /\ Accounted' = 2
    BY <2>1 DEF Accounted
  <2>4. QED
    BY <1>1, <1>2, <2>1, <2>2, <2>3 DEF FlightInv
<1>8. CASE Resend
  <2>1. /\ cpc = "check" /\ ~readable /\ nread > 0 /\ nread' = nread /\ cpc' = "wait"
        /\ Len(toServer') \in {s, s + 1} /\ UNCHANGED <<toClient, faults>>
    BY <1>1, <1>3, <1>8 DEF Resend, IInv, ClientInv
  <2>2. Accounted = 1 /\ Accounted' = 2
    BY <2>1 DEF Accounted
  <2>3. QED
    BY <1>1, <1>2, <2>1, <2>2 DEF FlightInv
<1>9. CASE WaitReady
  <2>1. /\ cpc = "wait" /\ nread > 0 /\ nread' = nread /\ cpc' \in {"read", "done"}
        /\ UNCHANGED <<toServer, toClient, faults>>
    BY <1>1, <1>9 DEF WaitReady, LoopEnd, netVars, IInv, ClientInv
  <2>2. Accounted = 2 /\ Accounted' = 2
    BY <2>1 DEF Accounted
  <2>3. QED
    BY <1>1, <2>1, <2>2 DEF FlightInv
<1>10. QED
  BY <1>4, <1>5, <1>6, <1>7, <1>8, <1>9 DEF ClientStep, ClientNext

(* The server takes a frame for each acknowledgement it sends.              *)
LEMMA ServerKeepsFlight == ASSUME FlightInv, ServerStep PROVE FlightInv'
<1> DEFINE s == Len(toServer)
           k == Len(toClient)
<1>1. IInv /\ IInv' /\ s + k <= Accounted + faults
  BY ServerKeepsInv DEF FlightInv
<1>2. /\ toServer \in Seq(FrameSet) /\ toClient \in Seq(Seqno)
      /\ s \in Nat /\ k \in Nat /\ toServer # <<>> /\ toServer' = Tail(toServer)
      /\ UNCHANGED faults /\ UNCHANGED clientVars
  BY <1>1 DEF IInv, TypeOK, ServerStep, ServerNext, Receive
<1>3. Len(toServer') = s - 1
  BY <1>2
<1>4. Len(toClient') \in {k, k + 1}
  BY <1>2 DEF ServerStep, ServerNext, Receive, Acknowledge, SendToClient
<1>5. Accounted' = Accounted
  BY <1>2 DEF clientVars, Accounted
<1>6. Len(toServer') + Len(toClient') <= s + k
  BY <1>2, <1>3, <1>4
<1>7. Accounted \in Nat /\ faults \in Nat
  BY <1>1, FaultsAssumption DEF IInv, TypeOK, Accounted
<1>8. QED
  BY <1>1, <1>2, <1>3, <1>4, <1>5, <1>6, <1>7 DEF FlightInv

(* UDP's copies are what faults counts.                                     *)
LEMMA UdpKeepsFlight == ASSUME FlightInv, UdpStep PROVE FlightInv'
<1> DEFINE s == Len(toServer)
           k == Len(toClient)
<1>1. IInv /\ IInv' /\ s + k <= Accounted + faults
  BY UdpKeepsInv DEF FlightInv
<1>2. /\ toServer \in Seq(FrameSet) /\ toClient \in Seq(Seqno)
      /\ s \in Nat /\ k \in Nat /\ faults \in Nat /\ faults' = faults + 1
      /\ UNCHANGED clientVars
  BY <1>1, FaultsAssumption DEF IInv, TypeOK, UdpStep, Duplicate, Delay, UdpMayFault
<1>3. Accounted' = Accounted /\ Accounted \in Nat
  BY <1>1, <1>2 DEF clientVars, Accounted, IInv, TypeOK
<1>4. ASSUME NEW T, NEW c \in Seq(T), c # <<>>
      PROVE  Len(Duplicated(c)) = Len(c) + 1 /\ Len(Delayed(c)) = Len(c)
  <2>1. Head(c) \in T /\ Tail(c) \in Seq(T) /\ Len(Tail(c)) = Len(c) - 1
    BY <1>4
  <2>2. QED
    BY <1>4, <2>1 DEF Duplicated, Delayed
<1>5. Len(toServer') + Len(toClient') \in {s + k, s + k + 1}
  <2>1. CASE Duplicate
    BY <1>2, <1>4, <2>1 DEF Duplicate
  <2>2. CASE Delay
    <3>1. (Len(toServer) > 1 => toServer # <<>>) /\ (Len(toClient) > 1 => toClient # <<>>)
      OBVIOUS
    <3>2. QED
      BY <1>2, <1>4, <2>2, <3>1 DEF Delay
  <2>3. QED
    BY <2>1, <2>2 DEF UdpStep
<1>6. QED
  BY <1>1, <1>2, <1>3, <1>5 DEF FlightInv

(* The count of the datagrams under way goes with the client's loop.        *)
THEOREM FlightInvHolds == Spec => []FlightInv
<1>1. Init => FlightInv
  BY InitInv, FaultsAssumption
     DEF Init, NetInit, ClientInit, Accounted, FlightInv, IInv, TypeOK
<1>2. FlightInv /\ [Next]_vars => FlightInv'
  <2>1. CASE UNCHANGED vars
    BY <2>1, StutterKeepsInv DEF vars, netVars, clientVars, Accounted, FlightInv
  <2>2. QED
    BY <2>1, ClientKeepsFlight, ServerKeepsFlight, UdpKeepsFlight DEF Next
<1>3. QED
  BY <1>1, <1>2, PTL DEF Spec

(* However long the file and the loss, no more than three datagrams are     *)
(* under way besides UDP's own copies: the unread acknowledgements of a     *)
(* client that does not look at its window do not pile up.                  *)
THEOREM FlightIsBounded == Spec => []InFlightBound
<1>1. FlightInv => InFlightBound
  BY FaultsAssumption DEF FlightInv, Accounted, IInv, TypeOK, InFlightBound
<1>2. QED
  BY <1>1, FlightInvHolds, PTL

-----------------------------------------------------------------------------
(* The refinement: what each step does to the pipe.                         *)

(* A piece knows which piece of the file it is.                             *)
LEMMA PieceNumber == ASSUME NEW i PROVE Piece(i).chunk = i
BY DEF Piece

(* The pipe has handed over the first Len(written) pieces, in order.        *)
LEMMA DeliveredIsCount ==
    ASSUME IInv
    PROVE  /\ Delivered = [i \in 1 .. Len(written) |-> i]
           /\ Delivered \in Seq(Nat)
           /\ Len(Delivered) = Len(written)
<1>1. Len(written) \in Nat
  BY DEF IInv, TypeOK
<1>2. \A i \in 1 .. Len(written) : written[i].chunk = i
  BY PieceNumber DEF IInv, InOrder
<1>3. Delivered = [i \in 1 .. Len(written) |-> i]
  BY <1>2 DEF Delivered
<1>4. [i \in 1 .. Len(written) |-> i] \in Seq(Nat)
  BY <1>1
<1>5. Len([i \in 1 .. Len(written) |-> i]) = Len(written)
  BY <1>1, <1>4
<1>6. QED
  BY <1>3, <1>4, <1>5

(* The client's steps read a piece or leave the pipe alone.                 *)
LEMMA ClientRefines ==
    ASSUME IInv, IInv', ClientStep
    PROVE  Pipe!AcceptPiece \/ UNCHANGED <<nread, Delivered>>
<1>1. UNCHANGED written
  BY DEF ClientStep, serverVars
<1>2. UNCHANGED Delivered
  BY <1>1 DEF Delivered
<1>3. CASE SendNewFrame
  BY <1>2, <1>3 DEF SendNewFrame, Pipe!AcceptPiece
<1>4. CASE ~SendNewFrame
  BY <1>2, <1>4 DEF ClientStep, ClientNext, EndOfFile, SelectReady, SelectTimeout,
     RecvAck, Resend, WaitReady
<1>5. QED
  BY <1>3, <1>4

(* The server's step writes the next piece or leaves the pipe alone.        *)
LEMMA ServerRefines ==
    ASSUME IInv, IInv', ServerStep
    PROVE  Pipe!DeliverPiece \/ UNCHANGED <<nread, Delivered>>
<1> DEFINE w == Len(written)
<1>1. UNCHANGED nread
  BY DEF ServerStep, clientVars
<1>2. CASE written' = written
  BY <1>1, <1>2 DEF Delivered
<1>3. CASE written' # written
  <2>1. written' = Append(written, Head(toServer).data)
    BY <1>3 DEF ServerStep, ServerNext, Receive, Accept
  <2>2. w \in Nat /\ Len(written') = w + 1
    BY <2>1 DEF IInv, TypeOK
  <2>3. w < nread
    BY <1>1, <2>2 DEF IInv, ServerInv, TypeOK
  <2>4. Delivered = [i \in 1 .. w |-> i] /\ Len(Delivered) = w
    BY DeliveredIsCount
  <2>5. Delivered' = [i \in 1 .. w + 1 |-> i]
    <3>1. \A i \in 1 .. Len(written') : written'[i].chunk = i
      BY PieceNumber DEF IInv, InOrder
    <3>2. QED
      BY <2>2, <3>1 DEF Delivered
  <2>6. Append([i \in 1 .. w |-> i], w + 1) = [i \in 1 .. w + 1 |-> i]
    BY <2>2
  <2>7. QED
    BY <1>1, <2>3, <2>4, <2>5, <2>6 DEF Pipe!DeliverPiece
<1>4. QED
  BY <1>2, <1>3

(* The transfer implements the pipe: every piece at most once, in order,    *)
(* and none before the client has read it.                                  *)
THEOREM TransferIsPipe == Spec => PipeRefined
<1>1. Init => Pipe!PipeInit
  <2> SUFFICES ASSUME Init PROVE nread = 0 /\ Delivered = <<>>
    BY DEF Pipe!PipeInit
  <2>1. nread = 0 /\ written = <<>>
    BY DEF Init, ClientInit, ServerInit
  <2>2. QED
    BY <2>1 DEF Delivered
<1>2. IInv /\ IInv' /\ [Next]_vars => [Pipe!PipeNext]_(Pipe!pipeVars)
  <2> SUFFICES ASSUME IInv, IInv', [Next]_vars
               PROVE  Pipe!PipeNext \/ UNCHANGED <<nread, Delivered>>
    BY DEF Pipe!pipeVars
  <2>1. CASE ClientStep
    BY <2>1, ClientRefines DEF Pipe!PipeNext
  <2>2. CASE ServerStep
    BY <2>2, ServerRefines DEF Pipe!PipeNext
  <2>3. CASE UdpStep
    BY <2>3 DEF UdpStep, clientVars, serverVars, Delivered
  <2>4. CASE UNCHANGED vars
    BY <2>4 DEF vars, clientVars, serverVars, Delivered
  <2>5. QED
    BY <2>1, <2>2, <2>3, <2>4 DEF Next
<1>3. QED
  BY <1>1, <1>2, InvHolds, PTL DEF Spec, PipeRefined, Pipe!PipeSpec
=============================================================================
