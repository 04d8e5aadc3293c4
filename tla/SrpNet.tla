------------------------------- MODULE SrpNet -------------------------------
(***************************************************************************)
(* The datagram service under the sliding-window file transfer of          *)
(* src/5273/PA2.  Client and server send every datagram with sendto_()     *)
(* (sendto_.h), which draws a random number and drops the datagram when    *)
(* the number does not exceed the configured threshold.  What sendto_()    *)
(* lets through travels over UDP, which may also deliver a datagram late   *)
(* or twice; those two faults are external to the repository.              *)
(***************************************************************************)
EXTENDS Integers, Sequences

CONSTANTS
    SeqMod,      \* number of sequence numbers; SwpSeqno is a u_char, so 256
    RndMax,      \* largest value sendto_() draws; 1000 in the code
    PThreshold,  \* p_threshold, the error rate scaled to 0 .. RndMax
    MaxFaults    \* bound: how often UDP may duplicate or delay a datagram

ASSUME SeqModAssumption == SeqMod \in Nat /\ SeqMod >= 2
ASSUME LossAssumption   == RndMax \in Nat /\ PThreshold \in 0 .. RndMax
ASSUME FaultsAssumption == MaxFaults \in Nat

VARIABLES
    toServer,    \* data frames in flight, a sequence of [seq, data]
    toClient,    \* acknowledgements in flight, a sequence of AckNum values
    lost,        \* number of datagrams sendto_() has dropped so far
    faults       \* number of duplications and delays so far

netVars == <<toServer, toClient, lost, faults>>

Seqno == 0 .. SeqMod - 1

(* ++ on a SwpSeqno: an unsigned char wraps to 0 (the first form does not). *)
Inc_NoWrap(x) == x + 1

Inc(x) == IF x = SeqMod - 1 THEN 0 ELSE x + 1

NetInit ==
    /\ toServer = <<>>
    /\ toClient = <<>>
    /\ lost = 0
    /\ faults = 0

-----------------------------------------------------------------------------
(* sendto_(): rnd is the scaled result of rand(). *)
Survives(rnd) == rnd > PThreshold

SendToServer(frame, rnd) ==
    /\ toServer' = IF Survives(rnd) THEN Append(toServer, frame) ELSE toServer
    /\ lost'     = IF Survives(rnd) THEN lost ELSE lost + 1

(* The channel to the client once an acknowledgement was passed to sendto_(). *)
SendToClient(ack, rnd) ==
    /\ toClient' = IF Survives(rnd) THEN Append(toClient, ack) ELSE toClient
    /\ lost'     = IF Survives(rnd) THEN lost ELSE lost + 1

-----------------------------------------------------------------------------
(* UDP itself: a second copy of the oldest datagram arrives later on. *)
Duplicated(chan) == Append(chan, Head(chan))

(* UDP itself: the oldest datagram is overtaken by everything behind it. *)
Delayed(chan) == Append(Tail(chan), Head(chan))

UdpMayFault ==
    /\ faults < MaxFaults
    /\ faults' = faults + 1
    /\ UNCHANGED lost

Duplicate ==
    /\ UdpMayFault
    /\ \/ /\ toServer # <<>>
          /\ toServer' = Duplicated(toServer)
          /\ UNCHANGED toClient
       \/ /\ toClient # <<>>
          /\ toClient' = Duplicated(toClient)
          /\ UNCHANGED toServer

Delay ==
    /\ UdpMayFault
    /\ \/ /\ Len(toServer) > 1
          /\ toServer' = Delayed(toServer)
          /\ UNCHANGED toClient
       \/ /\ Len(toClient) > 1
          /\ toClient' = Delayed(toClient)
          /\ UNCHANGED toServer
=============================================================================
