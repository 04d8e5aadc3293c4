-------------------------- MODULE PutTransferProofs --------------------------
(***************************************************************************)
(* Proofs about the UDP put, for any number of clients, files and chunks:  *)
(* in an undisturbed run files arrive whole and answers are not stale.     *)
(*                                                                         *)
(* While a run is clean, what lies in the server's socket has a shape.     *)
(* Between puts it is commands, each of a client that waits for its answer *)
(* (Between).  During a put it is the next chunks of the file: all that    *)
(* were sent, while the client still sends (Coming), or all that are left, *)
(* then the end marker, then commands (Ended).  The data is told from the  *)
(* commands by this order alone.                                           *)
(***************************************************************************)
EXTENDS PutTransfer, SeqLemmas, TLAPS

(* A command whose sender still waits for its answer.                       *)
IsCommand(d) ==
    /\ toClient[d.from] = <<>>
    /\ IF d.head = "put"
       THEN pc[d.from] = "asked" /\ open[d.from] = d.file /\ nread[d.from] = 0
       ELSE pc[d.from] = "waiting"

(* From place n on the socket holds commands, each of another client, and   *)
(* none after a put.                                                        *)
CommandsFrom(n) ==
    \A j \in n .. Len(toServer) :
        /\ IsCommand(toServer[j])
        /\ toServer[j].head = "put" => j = Len(toServer)
        /\ \A k \in n .. Len(toServer) : toServer[j].from = toServer[k].from => j = k

(* The first m datagrams are the next chunks of the file that is put.       *)
Data(m) ==
    \A j \in 1 .. m :
        /\ toServer[j] = expected[name][Len(disk[name]) + j]
        /\ ~InBand(toServer[j].head)

(* No client sends a file or has been allowed to.                           *)
NobodySends ==
    \A c \in Clients : pc[c] # "sending" /\ (pc[c] = "asked" => toClient[c] = <<>>)

Between == mode # "put" /\ NobodySends /\ CommandsFrom(1)

(* Client c is about to send what is missing of its file.                   *)
Coming(c) ==
    /\ mode = "put" /\ open[c] = name
    /\ \/ pc[c] = "sending"
       \/ pc[c] = "asked" /\ toClient[c] = <<"y">> /\ nread[c] = 0
    /\ nread[c] <= Len(ChunkHeads[name])
    /\ Data(Len(toServer))
    /\ Len(disk[name]) + Len(toServer) + Len(ChunkHeads[name])
          = Len(expected[name]) + nread[c]
    /\ \A n \in nread[c] + 1 .. Len(ChunkHeads[name]) :
          expected[name][Len(disk[name]) + Len(toServer) + n - nread[c]]
             = Chunk(c, name, n)

(* The file ends with m more chunks.                                        *)
EndsAfter(m) ==
    /\ toServer[m + 1].head = "e"
    /\ Data(m)
    /\ Len(expected[name]) = Len(disk[name]) + m
    /\ CommandsFrom(m + 2)

Ended ==
    mode = "put" /\ NobodySends /\ \E m \in 0 .. Len(toServer) - 1 : EndsAfter(m)

OnePutter ==
    \A c, d \in Clients : pc[c] \in {"asked", "sending"} /\ pc[d] \in {"asked", "sending"} => c = d

(* No more than one answer for each client, and none for one that prompts.  *)
AnswersAwaited ==
    \A c \in Clients : /\ toClient[c] = <<>> \/ Len(toClient[c]) = 1
                       /\ pc[c] \notin {"asked", "waiting"} => toClient[c] = <<>>

(* What is on the disk is what was put, but for the end of the current put, *)
(* or of the one the server died over.                                      *)
DiskFollows ==
    \A f \in Files :
        /\ Len(disk[f]) <= Len(expected[f])
        /\ \A j \in 1 .. Len(disk[f]) : disk[f][j] = expected[f][j]
        /\ name = f \/ disk[f] = expected[f]

(* A server that a null pointer kills takes what is in its socket along.    *)
CleanInv ==
    /\ OnePutter /\ AnswersAwaited /\ DiskFollows
    /\ Doomed \/ Between \/ Ended \/ \E c \in Clients : Coming(c)

(* Of the chunks of file f only a short last one is padded.                 *)
ChunkOfFile(d, f) == d.file = f /\ d.padded = Padded(f, d.nr)

PaddingIsLast ==
    \A f \in Files : \A k \in 1 .. Len(expected[f]) : ChunkOfFile(expected[f][k], f)

(* Every put in the socket names a file.                                    *)
PutsNameFiles ==
    \A k \in 1 .. Len(toServer) : toServer[k].head = "put" => toServer[k].file \in Files

(* The inductive invariant.                                                 *)
PutInv == TypeOK /\ PutsNameFiles /\ PaddingIsLast /\ (clean => CleanInv)
-----------------------------------------------------------------------------
(* Types.                                                                   *)

(* A command names a file if it is a put.                                   *)
LEMMA CommandType ==
    ASSUME NEW c \in Clients
    PROVE  /\ \A f \in Files : Command(c, "put", f) \in Datagrams
           /\ \A h \in Heads : Command(c, h, NoFile) \in Datagrams
BY DEF Command, Datagrams, Heads, DataHeads

(* The chunks of a file are datagrams, and not taken for a put.             *)
LEMMA ChunkType ==
    ASSUME NEW c \in Clients, NEW f \in Files, NEW n \in 1 .. Len(ChunkHeads[f])
    PROVE  /\ Chunk(c, f, n) \in Datagrams
           /\ ChunkHeads[f][n] # "put" /\ Len(ChunkHeads[f]) \in Nat
<1>1. ChunkHeads[f] \in Seq(DataHeads)
  BY ChunksAssumption
<1>2. ChunkHeads[f][n] \in DataHeads
  BY <1>1, ElementType
<1>3. QED
  BY <1>1, <1>2 DEF Chunk, Padded, Datagrams, Heads, DataHeads

(* A put makes a sequence of datagrams, one for each chunk.                 *)
LEMMA ChunksType ==
    ASSUME NEW c \in Clients, NEW f \in Files
    PROVE  ChunksOf(c, f) \in Seq(Datagrams) /\ Len(ChunksOf(c, f)) = Len(ChunkHeads[f])
<1>1. Len(ChunkHeads[f]) \in Nat
  BY ChunksAssumption
<1>2. QED
  BY <1>1, ChunkType DEF ChunksOf

(* What is sent joins the server's socket or does not arrive.               *)
LEMMA SentType ==
    ASSUME TypeOK, PutsNameFiles, NEW d \in Datagrams, Sent(d),
           d.head = "put" => d.file \in Files
    PROVE  /\ toServer' \in Seq(Datagrams) /\ losses' \in 0 .. MaxLosses
           /\ PutsNameFiles'
           /\ Listening /\ losses' = losses => toServer' = Append(toServer, d)
<1>1. toServer \in Seq(Datagrams) /\ losses \in 0 .. MaxLosses
  BY DEF TypeOK
<1>2. CASE toServer' = Append(toServer, d) /\ UNCHANGED losses
  <2>1. PutsNameFiles'
    BY <1>1, <1>2, AppendElements DEF PutsNameFiles
  <2>2. QED
    BY <1>1, <1>2, <2>1, AppendElements
<1>3. CASE losses < MaxLosses /\ losses' = losses + 1 /\ UNCHANGED toServer
  BY <1>1, <1>3, BoundsAssumption DEF PutsNameFiles
<1>4. CASE ~Listening /\ UNCHANGED <<toServer, losses>>
  BY <1>1, <1>4 DEF PutsNameFiles
<1>5. QED
  BY <1>2, <1>3, <1>4 DEF Sent

(* So does an answer, on its way to a client.                               *)
LEMMA RepliedType ==
    ASSUME TypeOK, NEW c \in Clients, NEW head \in Heads, Replied(c, head)
    PROVE  /\ toClient' \in [Clients -> Seq(Heads)] /\ losses' \in 0 .. MaxLosses
           /\ losses' = losses => toClient' = [toClient EXCEPT ![c] = Append(@, head)]
<1>1. toClient \in [Clients -> Seq(Heads)] /\ losses \in 0 .. MaxLosses
  BY DEF TypeOK
<1>2. Append(toClient[c], head) \in Seq(Heads)
  BY <1>1, AppendElements
<1>3. CASE toClient' = [toClient EXCEPT ![c] = Append(@, head)] /\ UNCHANGED losses
  BY <1>1, <1>2, <1>3
<1>4. CASE losses < MaxLosses /\ losses' = losses + 1 /\ UNCHANGED toClient
  BY <1>1, <1>4, BoundsAssumption
<1>5. QED
  BY <1>3, <1>4 DEF Replied

(* What the server takes, and what that leaves.                             *)
LEMMA HeadType ==
    ASSUME TypeOK, PutsNameFiles, toServer # <<>>
    PROVE  /\ Head(toServer) = toServer[1] /\ 1 \in 1 .. Len(toServer)
           /\ Head(toServer) \in Datagrams /\ Head(toServer).from \in Clients
           /\ Head(toServer).head \in Heads
           /\ Head(toServer).head = "put" => Head(toServer).file \in Files
           /\ toServer' = Tail(toServer) => toServer' \in Seq(Datagrams) /\ PutsNameFiles'
<1>1. toServer \in Seq(Datagrams)
  BY DEF TypeOK
<1>2. Head(toServer) = toServer[1] /\ 1 \in 1 .. Len(toServer) /\ Head(toServer) \in Datagrams
  BY <1>1, TailElements
<1>3. Head(toServer).head = "put" => Head(toServer).file \in Files
  BY <1>2 DEF PutsNameFiles
<1>4. toServer' = Tail(toServer) => toServer' \in Seq(Datagrams) /\ PutsNameFiles'
  BY <1>1, TailElements DEF PutsNameFiles
<1>5. QED
  BY <1>2, <1>3, <1>4 DEF Datagrams

(* What the clients do keeps the types.                                     *)
LEMMA ClientTypes ==
    ASSUME TypeOK, PutsNameFiles, NEW c \in Clients, ClientStep(c) \/ UserStep(c)
    PROVE  TypeOK' /\ PutsNameFiles'
<1> USE DEF channelVars, clientVars, serverVars, StaysClean
<1>1. CASE Begin(c) \/ BeginsInVain(c)
  BY <1>1 DEF Begin, BeginsInVain, TypeOK, PutsNameFiles
<1>2. ASSUME Prompted(c)
      PROVE  commands' \in 0 .. MaxCommands
  BY <1>2, BoundsAssumption DEF Prompted, TypeOK
<1>3. CASE NotFound(c)
  BY <1>2, <1>3 DEF NotFound, TypeOK, PutsNameFiles
<1>4. ASSUME NEW f \in Files, TypePut(c, f)
      PROVE  TypeOK' /\ PutsNameFiles'
  <2>1. /\ toServer' \in Seq(Datagrams) /\ losses' \in 0 .. MaxLosses /\ PutsNameFiles'
        /\ commands' \in 0 .. MaxCommands
    BY <1>2, <1>4, CommandType, SentType DEF TypePut, Command
  <2>2. f # NoFile
    BY ChunksAssumption
  <2>3. QED
    BY <1>4, <2>1, <2>2 DEF TypePut, TypeOK
<1>5. ASSUME NEW h \in Heads, h # "put", TypeOther(c, h)
      PROVE  TypeOK' /\ PutsNameFiles'
  <2>1. /\ toServer' \in Seq(Datagrams) /\ losses' \in 0 .. MaxLosses /\ PutsNameFiles'
        /\ commands' \in 0 .. MaxCommands /\ pc[c] = "idle"
    BY <1>2, <1>5, CommandType, SentType DEF TypeOther, Prompted, Command
  <2>2. QED
    BY <1>5, <2>1 DEF TypeOther, TypeOK
<1>6. CASE GetConsent(c) \/ GetAnswer(c)
  <2>1. toClient[c] \in Seq(Heads) /\ toClient[c] # <<>>
    BY <1>6 DEF GetConsent, GetAnswer, Received, TypeOK
  <2>2. Tail(toClient[c]) \in Seq(Heads)
    BY <2>1, TailElements
  <2>3. toClient' \in [Clients -> Seq(Heads)]
    BY <1>6, <2>2 DEF GetConsent, GetAnswer, Received, TypeOK
  <2>4. PutsNameFiles'
    BY <1>6 DEF GetConsent, GetAnswer, Received, PutsNameFiles
  <2>5. CASE GetConsent(c)
    BY <2>3, <2>4, <2>5 DEF GetConsent, Received, TypeOK
  <2>6. CASE GetAnswer(c)
    BY <2>3, <2>4, <2>6 DEF GetAnswer, Received, TypeOK
  <2>7. QED
    BY <1>6, <2>5, <2>6
<1>7. CASE SendChunk(c)
  <2>1. open[c] \in Files /\ nread[c] \in Nat
    BY <1>7 DEF SendChunk, TypeOK
  <2>2. nread[c] + 1 \in 1 .. Len(ChunkHeads[open[c]])
    BY <1>7, <2>1, ChunksAssumption DEF SendChunk
  <2>3. toServer' \in Seq(Datagrams) /\ losses' \in 0 .. MaxLosses /\ PutsNameFiles'
    <3>1. PICK d \in Datagrams : d = Chunk(c, open[c], nread[c] + 1) /\ d.head # "put"
      BY <2>1, <2>2, ChunkType DEF Chunk
    <3>2. Sent(d)
      BY <1>7, <3>1 DEF SendChunk
    <3>3. QED
      BY <3>1, <3>2, SentType
  <2>4. QED
    BY <1>7, <2>1, <2>3 DEF SendChunk, TypeOK
<1>8. CASE SendEnd(c)
  <2>1. "e" \in Heads
    BY DEF Heads, DataHeads
  <2>2. toServer' \in Seq(Datagrams) /\ losses' \in 0 .. MaxLosses /\ PutsNameFiles'
    BY <1>8, <2>1, CommandType, SentType DEF SendEnd, EndMark, Command
  <2>3. QED
    BY <1>8, <2>2 DEF SendEnd, TypeOK
<1>9. ASSUME NEW text \in Heads \cup {"blank"}, NEW trailing \in BOOLEAN, Enter(c, text, trailing)
      PROVE  TypeOK' /\ PutsNameFiles'
  <2>1. Trimmed(text, trailing) \subseteq Heads
    BY DEF Trimmed, Heads, DataHeads
  <2>2. QED
    BY <1>3, <1>4, <1>5, <1>9, <2>1 DEF Enter
<1>10. QED
  BY <1>1, <1>6, <1>7, <1>8, <1>9 DEF ClientStep, UserStep

(* So does what the server does.                                            *)
LEMMA ServerTypes ==
    ASSUME TypeOK, PutsNameFiles, ServerStep
    PROVE  TypeOK' /\ PutsNameFiles'
<1> USE DEF channelVars, clientVars, serverVars, StaysClean
<1>1. CASE Bind \/ BindFails
  BY <1>1 DEF Bind, BindFails, TypeOK, PutsNameFiles
<1>2. ASSUME toServer # <<>>, NEW d \in Datagrams, d = Head(toServer), d.from \in Clients,
             d.head \in Heads, d.head = "put" => d.file \in Files, Serve(d)
      PROVE  TypeOK' /\ PutsNameFiles'
  <2>1. toServer' = Tail(toServer) => toServer' \in Seq(Datagrams) /\ PutsNameFiles'
    BY <1>2, HeadType
  <2>2. ASSUME NEW place \in {"put", "null"}, Consenting(d, place)
        PROVE  TypeOK' /\ PutsNameFiles'
    <3>1. "y" \in Heads /\ d.file \in Files /\ d.file # NoFile
      BY <1>2, <2>2, ChunksAssumption DEF Consenting, Heads, DataHeads
    <3>2. toClient' \in [Clients -> Seq(Heads)] /\ losses' \in 0 .. MaxLosses
      BY <1>2, <2>2, <3>1, RepliedType DEF Consenting
    <3>3. expected[d.file] \o ChunksOf(d.from, d.file) \in Seq(Datagrams)
      BY <1>2, <3>1, ChunksType, ConcatElements DEF TypeOK
    <3>4. expected' \in [Files -> Seq(Datagrams)]
      BY <2>2, <3>3 DEF Consenting, TypeOK
    <3>5. QED
      BY <1>2, <2>1, <2>2, <3>1, <3>2, <3>4 DEF Consenting, Take, TypeOK
  <2>3. CASE Answer(d)
    <3>1. AnswerTo(d.head) \in Heads
      BY <1>2 DEF AnswerTo, Heads, DataHeads
    <3>2. toClient' \in [Clients -> Seq(Heads)] /\ losses' \in 0 .. MaxLosses
      BY <1>2, <2>3, <3>1, RepliedType DEF Answer
    <3>3. QED
      BY <1>2, <2>1, <2>3, <3>2 DEF Answer, Take, TypeOK
  <2>4. CASE Stop(d)
    <3>1. "other" \in Heads
      BY DEF Heads, DataHeads
    <3>2. toClient' \in [Clients -> Seq(Heads)] /\ losses' \in 0 .. MaxLosses
      BY <1>2, <2>4, <3>1, RepliedType DEF Stop
    <3>3. QED
      BY <2>4, <3>2 DEF Stop, TypeOK, PutsNameFiles
  <2>5. CASE Write(d)
    <3>1. name \in Files
      BY <2>5 DEF Write, TypeOK
    <3>2. Append(disk[name], d) \in Seq(Datagrams)
      BY <1>2, <3>1, AppendElements DEF TypeOK
    <3>3. disk' \in [Files -> Seq(Datagrams)]
      BY <2>5, <3>2 DEF Write, Written, TypeOK
    <3>4. QED
      BY <1>2, <2>1, <2>5, <3>3 DEF Write, Take, TypeOK
  <2>6. CASE EndPut(d)
    BY <1>2, <2>1, <2>6 DEF EndPut, Take, TypeOK
  <2>7. CASE ListKills(d) \/ Crash(d)
    <3>1. Dies
      BY <2>7 DEF ListKills, Crash
    <3>2. QED
      BY <3>1 DEF Dies, TypeOK, PutsNameFiles
  <2>8. QED
    BY <1>2, <2>2, <2>3, <2>4, <2>5, <2>6, <2>7 DEF Serve, Consent, ConsentInVain
<1>3. CASE toServer # <<>> /\ Serve(Head(toServer))
  <2>1. PICK d : d = Head(toServer)
    OBVIOUS
  <2>2. /\ d \in Datagrams /\ d.from \in Clients /\ d.head \in Heads
        /\ d.head = "put" => d.file \in Files
    BY <1>3, <2>1, HeadType
  <2>3. Serve(d)
    BY <1>3, <2>1
  <2>4. QED
    BY <1>2, <1>3, <2>1, <2>2, <2>3
<1>4. QED
  BY <1>1, <1>3 DEF ServerStep
-----------------------------------------------------------------------------
(* What lies in the server's socket.                                        *)

(* A datagram in the socket is one.                                         *)
LEMMA InSocket ==
    ASSUME TypeOK, NEW j \in 1 .. Len(toServer)
    PROVE  /\ toServer[j] \in Datagrams /\ toServer[j].from \in Clients
           /\ Len(toServer) \in Nat
<1>1. toServer \in Seq(Datagrams)
  BY DEF TypeOK
<1>2. toServer[j] \in Datagrams /\ Len(toServer) \in Nat
  BY <1>1
<1>3. QED
  BY <1>2 DEF Datagrams

(* A command joins the others, if its sender has none there and no put is.  *)
LEMMA CommandAppended ==
    ASSUME TypeOK, NEW d \in Datagrams, toServer' = Append(toServer, d), IsCommand(d)',
           NEW n \in Nat, n >= 1, CommandsFrom(n),
           \A j \in n .. Len(toServer) :
              toServer[j].head # "put" /\ toServer[j].from # d.from,
           \A e \in Datagrams : IsCommand(e) /\ e.from # d.from => IsCommand(e)'
    PROVE  CommandsFrom(n)'
<1> DEFINE l == Len(toServer)
<1>1. /\ l \in Nat /\ Len(toServer') = l + 1 /\ toServer'[l + 1] = d
      /\ \A j \in 1 .. l : toServer'[j] = toServer[j]
  BY DEF TypeOK
<1>2. ASSUME NEW j \in n .. l
      PROVE  /\ toServer'[j] = toServer[j] /\ toServer[j] \in Datagrams
             /\ IsCommand(toServer[j]) /\ toServer[j].head # "put"
             /\ toServer[j].from # d.from
             /\ \A k \in n .. l : toServer[j].from = toServer[k].from => j = k
  <2>1. j \in 1 .. l
    BY <1>1
  <2>2. QED
    BY <1>1, <2>1, InSocket DEF CommandsFrom
<1>3. ASSUME NEW j \in n .. l + 1
      PROVE  /\ IsCommand(toServer[j])'
             /\ toServer'[j].head = "put" => j = l + 1
             /\ \A k \in n .. l + 1 : toServer'[j].from = toServer'[k].from => j = k
  <2>1. j \in n .. l \/ j = l + 1
    BY <1>1
  <2>2. \A k \in n .. l + 1 : k \in n .. l \/ k = l + 1
    BY <1>1
  <2>3. CASE j \in n .. l
    <3>1. PICK e \in Datagrams : e = toServer[j] /\ e = toServer'[j]
      BY <1>2, <2>3
    <3>2. IsCommand(e)'
      BY <1>2, <2>3, <3>1 DEF IsCommand
    <3>3. IsCommand(toServer[j])'
      BY <3>1, <3>2 DEF IsCommand
    <3>4. QED
      BY <1>1, <1>2, <2>2, <2>3, <3>3
  <2>4. CASE j = l + 1
    <3>1. IsCommand(toServer[j])'
      BY <1>1, <2>4 DEF IsCommand
    <3>2. QED
      BY <1>1, <1>2, <2>2, <2>4, <3>1
  <2>5. QED
    BY <2>1, <2>3, <2>4
<1>4. QED
  BY <1>1, <1>3 DEF CommandsFrom, IsCommand

(* Commands move up when the first datagram is taken.                       *)
LEMMA CommandsMoveUp ==
    ASSUME TypeOK, toServer # <<>>, toServer' = Tail(toServer),
           NEW n \in Nat, n >= 1, CommandsFrom(n + 1),
           \A e \in Datagrams, j \in n + 1 .. Len(toServer) :
              e = toServer[j] /\ IsCommand(e) => IsCommand(e)'
    PROVE  CommandsFrom(n)'
<1> DEFINE l == Len(toServer)
<1>1. /\ l \in Nat /\ l >= 1 /\ Len(toServer') = l - 1
      /\ \A j \in 1 .. l - 1 : toServer'[j] = toServer[j + 1]
  BY TailElements DEF TypeOK
<1>2. ASSUME NEW j \in n .. l - 1
      PROVE  j + 1 \in n + 1 .. l /\ j + 1 \in 1 .. l /\ toServer'[j] = toServer[j + 1]
  BY <1>1
<1>3. ASSUME NEW j \in n .. l - 1
      PROVE  /\ IsCommand(toServer[j])'
             /\ toServer'[j].head = "put" => j = l - 1
             /\ \A k \in n .. l - 1 : toServer'[j].from = toServer'[k].from => j = k
  <2>1. PICK e \in Datagrams : e = toServer[j + 1] /\ e = toServer'[j]
    BY <1>2, InSocket
  <2>2. IsCommand(toServer[j + 1])
    BY <1>2 DEF CommandsFrom
  <2>3. IsCommand(e)
    BY <2>1, <2>2
  <2>4. IsCommand(e)'
    BY <1>2, <2>1, <2>3
  <2>5. IsCommand(toServer[j])'
    BY <2>1, <2>4 DEF IsCommand
  <2>6. toServer'[j].head = "put" => j = l - 1
    <3>1. PICK i \in n + 1 .. l : i = j + 1 /\ toServer'[j] = toServer[i]
      BY <1>2
    <3>2. toServer[i].head = "put" => i = l
      BY <3>1 DEF CommandsFrom
    <3>3. i = l => j = l - 1
      <4>1. l \in Nat
        BY <1>1
      <4>2. QED
        BY <3>1, <4>1
    <3>4. QED
      BY <3>1, <3>2, <3>3
  <2>7. ASSUME NEW k \in n .. l - 1, toServer'[j].from = toServer'[k].from
        PROVE  j = k
    <3>1. /\ j + 1 \in n + 1 .. l /\ toServer'[j] = toServer[j + 1]
          /\ k + 1 \in n + 1 .. l /\ toServer'[k] = toServer[k + 1]
      BY <1>2
    <3>2. j + 1 = k + 1
      BY <2>7, <3>1 DEF CommandsFrom
    <3>3. QED
      BY <3>2
  <2>8. QED
    BY <1>1, <2>5, <2>6, <2>7
<1>4. QED
  BY <1>1, <1>3 DEF CommandsFrom, IsCommand

(* Commands stay commands in a socket that does not change.                 *)
LEMMA CommandsStay ==
    ASSUME TypeOK, UNCHANGED toServer, NEW n \in Nat, n >= 1, CommandsFrom(n),
           \A e \in Datagrams : IsCommand(e) => IsCommand(e)'
    PROVE  CommandsFrom(n)'
<1>1. ASSUME NEW j \in n .. Len(toServer)
      PROVE  IsCommand(toServer[j])'
  <2>1. j \in 1 .. Len(toServer)
    BY DEF TypeOK
  <2>2. PICK e \in Datagrams : e = toServer[j] /\ e = toServer'[j]
    BY <2>1, InSocket
  <2>3. IsCommand(e)'
    BY <2>2 DEF CommandsFrom
  <2>4. QED
    BY <2>2, <2>3 DEF IsCommand
<1>2. QED
  BY <1>1 DEF CommandsFrom, IsCommand

-----------------------------------------------------------------------------
(* The clean invariant, step by step: the clients.                          *)

(* The server's files are not touched by what the clients do.               *)
LEMMA DiskStays ==
    ASSUME DiskFollows, UNCHANGED <<name, disk, expected>>
    PROVE  DiskFollows'
BY DEF DiskFollows

(* Programs that begin, and lines that come to nothing.                     *)
LEMMA CleanQuietStep ==
    ASSUME TypeOK, CleanInv, ~Doomed,
           UNCHANGED <<toServer, toClient, open, nread, name, disk, expected>>,
           mode' = mode \/ (mode # "put" /\ mode' # "put"),
           \A c \in Clients :
              \/ pc'[c] = pc[c]
              \/ /\ pc[c] \notin {"asked", "waiting", "sending"}
                 /\ pc'[c] \notin {"asked", "waiting", "sending"}
    PROVE  CleanInv'
<1>1. OnePutter' /\ AnswersAwaited' /\ DiskFollows'
  BY DiskStays DEF CleanInv, OnePutter, AnswersAwaited
<1>2. \A e \in Datagrams : IsCommand(e) => IsCommand(e)'
  BY DEF IsCommand, Datagrams
<1>3. NobodySends => NobodySends'
  BY DEF NobodySends
<1>4. CASE Between
  BY <1>1, <1>2, <1>3, <1>4, CommandsStay DEF Between, CleanInv
<1>5. CASE Ended
  <2>1. PICK m \in 0 .. Len(toServer) - 1 : EndsAfter(m)
    BY <1>5 DEF Ended
  <2>2. m \in Nat /\ m + 2 \in Nat /\ m + 2 >= 1
    BY DEF TypeOK
  <2>3. CommandsFrom(m + 2)'
    BY <1>2, <2>1, <2>2, CommandsStay DEF EndsAfter
  <2>4. EndsAfter(m)'
    BY <2>1, <2>3 DEF EndsAfter, Data
  <2>5. QED
    BY <1>1, <1>3, <1>5, <2>4 DEF Ended, CleanInv
<1>6. ASSUME NEW c \in Clients, Coming(c)
      PROVE  CleanInv'
  <2>1. pc'[c] = pc[c]
    BY <1>6 DEF Coming
  <2>2. Coming(c)'
    BY <1>6, <2>1 DEF Coming, Data
  <2>3. QED
    BY <1>1, <2>2 DEF CleanInv
<1>7. QED
  BY <1>4, <1>5, <1>6 DEF CleanInv

(* A command that nobody's put is disturbed by.                             *)
LEMMA CleanTyping ==
    ASSUME TypeOK, CleanInv, ~Doomed, Listening, NEW c \in Clients,
           pc[c] = "idle", ~Disturbs(c),
           NEW d \in Datagrams, d.from = c, toServer' = Append(toServer, d), IsCommand(d)',
           UNCHANGED <<toClient, mode, name, disk, expected>>,
           pc'[c] \in {"asked", "waiting"},
           \A e \in Clients \ {c} : /\ pc'[e] = pc[e] /\ open'[e] = open[e]
                                    /\ nread'[e] = nread[e]
    PROVE  CleanInv'
<1> DEFINE l == Len(toServer)
<1>1. /\ l \in Nat /\ Len(toServer') = l + 1
      /\ \A j \in 1 .. l : toServer'[j] = toServer[j]
  BY DEF TypeOK
<1>2. \A e \in Clients : pc[e] \notin {"asked", "sending"}
  BY DEF Disturbs
<1>3. toClient[c] = <<>>
  BY DEF CleanInv, AnswersAwaited
<1>4. OnePutter' /\ AnswersAwaited' /\ DiskFollows'
  BY <1>2, DiskStays DEF CleanInv, OnePutter, AnswersAwaited
<1>5. NobodySends'
  BY <1>2, <1>3 DEF NobodySends
<1>6. \A e \in Datagrams : IsCommand(e) /\ e.from # d.from => IsCommand(e)'
  BY DEF IsCommand, Datagrams
<1>7. ASSUME NEW n \in Nat, n >= 1, CommandsFrom(n)
      PROVE  CommandsFrom(n)'
  <2>1. ASSUME NEW j \in n .. l
        PROVE  toServer[j].head # "put" /\ toServer[j].from # d.from
    <3>1. j \in 1 .. l
      BY <1>1, <1>7
    <3>2. IsCommand(toServer[j]) /\ toServer[j].from \in Clients
      BY <1>7, <3>1, InSocket DEF CommandsFrom
    <3>3. QED
      BY <1>2, <3>2 DEF IsCommand
  <2>2. QED
    BY <1>6, <1>7, <2>1, CommandAppended
<1>8. CASE Between
  BY <1>4, <1>5, <1>7, <1>8 DEF Between, CleanInv
<1>9. CASE Ended
  <2>1. PICK m \in 0 .. l - 1 : EndsAfter(m)
    BY <1>9 DEF Ended
  <2>2. m \in Nat /\ m + 2 \in Nat /\ m + 2 >= 1 /\ m + 1 \in 1 .. l
    BY <1>1
  <2>3. CommandsFrom(m + 2)'
    BY <1>7, <2>1, <2>2 DEF EndsAfter
  <2>4. Data(m)'
    <3>1. \A j \in 1 .. m : toServer'[j] = toServer[j]
      BY <1>1, <2>2
    <3>2. QED
      BY <2>1, <3>1 DEF EndsAfter, Data
  <2>5. EndsAfter(m)'
    BY <1>1, <2>1, <2>2, <2>3, <2>4 DEF EndsAfter
  <2>6. m \in 0 .. Len(toServer') - 1
    BY <1>1, <2>2
  <2>7. QED
    BY <1>4, <1>5, <1>9, <2>5, <2>6 DEF Ended, CleanInv
<1>10. \A e \in Clients : ~Coming(e)
  BY <1>2 DEF Coming
<1>11. QED
  BY <1>8, <1>9, <1>10 DEF CleanInv

(* What a clean, consented put still has to send.                           *)
LEMMA ComingIsUnique ==
    ASSUME CleanInv, ~Doomed, NEW c \in Clients,
           pc[c] = "sending" \/ (pc[c] = "asked" /\ toClient[c] # <<>>)
    PROVE  Coming(c)
<1>1. ~NobodySends
  BY DEF NobodySends
<1>2. PICK p \in Clients : Coming(p)
  BY <1>1 DEF CleanInv, Between, Ended
<1>3. p = c
  BY <1>2 DEF CleanInv, OnePutter, Coming
<1>4. QED
  BY <1>2, <1>3

(* The consent arrives.                                                     *)
LEMMA CleanConsent ==
    ASSUME TypeOK, CleanInv, ~Doomed, NEW c \in Clients, GetConsent(c)
    PROVE  CleanInv'
<1> USE DEF channelVars, clientVars, serverVars
<1>1. pc[c] = "asked" /\ toClient[c] # <<>> /\ Coming(c)
  BY ComingIsUnique DEF GetConsent, Received
<1>2. toClient[c] = <<"y">> /\ Head(toClient[c]) = "y" /\ Tail(toClient[c]) = <<>>
  <2>1. toClient[c] = <<"y">> /\ toClient[c] \in Seq(Heads)
    BY <1>1 DEF Coming, TypeOK
  <2>2. QED
    BY <2>1, OnlyElement
<1>3. /\ pc' = [pc EXCEPT ![c] = "sending"] /\ toClient' = [toClient EXCEPT ![c] = <<>>]
      /\ UNCHANGED <<toServer, open, nread, mode, name, disk, expected>>
  BY <1>2 DEF GetConsent, Received
<1>4. OnePutter' /\ AnswersAwaited' /\ DiskFollows'
  BY <1>1, <1>3, DiskStays DEF TypeOK, CleanInv, OnePutter, AnswersAwaited
<1>5. Coming(c)'
  BY <1>1, <1>3 DEF TypeOK, Coming, Data
<1>6. QED
  BY <1>4, <1>5 DEF CleanInv

(* Another answer arrives.                                                  *)
LEMMA CleanAnswer ==
    ASSUME TypeOK, CleanInv, ~Doomed, NEW c \in Clients, GetAnswer(c)
    PROVE  CleanInv'
<1> USE DEF channelVars, clientVars, serverVars
<1>1. /\ pc[c] = "waiting" /\ toClient[c] # <<>>
      /\ pc' = [pc EXCEPT ![c] = "idle"] /\ toClient' = [toClient EXCEPT ![c] = Tail(@)]
      /\ UNCHANGED <<toServer, open, nread, mode, name, disk, expected>>
  BY DEF GetAnswer, Received
<1>2. Tail(toClient[c]) = <<>>
  <2>1. toClient[c] \in Seq(Heads) /\ Len(toClient[c]) = 1
    BY <1>1 DEF TypeOK, CleanInv, AnswersAwaited
  <2>2. QED
    BY <2>1, OnlyElement
<1>3. /\ pc'[c] = "idle" /\ toClient'[c] = <<>>
      /\ \A d \in Clients \ {c} : pc'[d] = pc[d] /\ toClient'[d] = toClient[d]
  BY <1>1, <1>2 DEF TypeOK
<1>4. OnePutter' /\ AnswersAwaited' /\ DiskFollows'
  BY <1>1, <1>3, DiskStays DEF CleanInv, OnePutter, AnswersAwaited
<1>5. \A e \in Datagrams : IsCommand(e) => IsCommand(e)'
  <2>1. ASSUME NEW e \in Datagrams, IsCommand(e)
        PROVE  e.from \in Clients \ {c}
    BY <1>1, <2>1 DEF IsCommand, Datagrams
  <2>2. QED
    BY <1>1, <1>3, <2>1 DEF IsCommand
<1>6. NobodySends => NobodySends'
  BY <1>3 DEF NobodySends
<1>7. CASE Between
  BY <1>1, <1>4, <1>5, <1>6, <1>7, CommandsStay DEF Between, CleanInv
<1>8. CASE Ended
  <2>1. PICK m \in 0 .. Len(toServer) - 1 : EndsAfter(m)
    BY <1>8 DEF Ended
  <2>2. m \in Nat /\ m + 2 \in Nat /\ m + 2 >= 1
    BY DEF TypeOK
  <2>3. CommandsFrom(m + 2)'
    BY <1>1, <1>5, <2>1, <2>2, CommandsStay DEF EndsAfter
  <2>4. EndsAfter(m)'
    BY <1>1, <2>1, <2>3 DEF EndsAfter, Data
  <2>5. QED
    BY <1>1, <1>4, <1>6, <1>8, <2>4 DEF Ended, CleanInv
<1>9. ASSUME NEW p \in Clients, Coming(p)
      PROVE  CleanInv'
  <2>1. p # c
    BY <1>1, <1>9 DEF Coming
  <2>2. Coming(p)'
    BY <1>1, <1>3, <1>9, <2>1 DEF Coming, Data
  <2>3. QED
    BY <1>4, <2>2 DEF CleanInv
<1>10. QED
  BY <1>7, <1>8, <1>9 DEF CleanInv

(* A chunk that is not taken for the end joins the others.                  *)
LEMMA CleanChunk ==
    ASSUME TypeOK, PutsNameFiles, CleanInv, ~Doomed, NEW c \in Clients, SendChunk(c), clean'
    PROVE  CleanInv'
<1> USE DEF channelVars, clientVars, serverVars
<1> DEFINE n == nread[c] + 1
           f == open[c]
           d == Chunk(c, f, n)
<1>1. Coming(c) /\ pc[c] = "sending"
  BY ComingIsUnique DEF SendChunk
<1>2. f \in Files /\ nread[c] \in Nat /\ n \in Nat /\ n \in 1 .. Len(ChunkHeads[f]) /\ name = f /\ mode = "put"
  BY <1>1, ChunksAssumption DEF SendChunk, Coming, TypeOK
<1>3. d \in Datagrams /\ d.head # "put" /\ Len(ChunkHeads[f]) \in Nat
  BY <1>2, ChunkType DEF Chunk
<1>4. Listening /\ ~InBand(d.head) /\ losses' = losses
  BY DEF SendChunk, StaysClean
<1>5. toServer' = Append(toServer, d)
  BY <1>3, <1>4, SentType DEF SendChunk
<1>6. PICK l \in Nat : l = Len(toServer)
  BY DEF TypeOK
<1>7. /\ l \in Nat /\ Len(toServer') = l + 1 /\ toServer'[l + 1] = d
      /\ \A j \in 1 .. l : toServer'[j] = toServer[j]
  BY <1>6, <1>3, <1>5 DEF TypeOK
<1>8. /\ UNCHANGED <<toClient, pc, open, mode, name, disk, expected>>
      /\ nread' = [nread EXCEPT ![c] = n] /\ nread'[c] = n
  BY DEF SendChunk, TypeOK
<1>9. OnePutter' /\ AnswersAwaited' /\ DiskFollows'
  BY <1>8, DiskStays DEF CleanInv, OnePutter, AnswersAwaited
<1>10. Len(disk[f]) \in Nat /\ Len(expected[f]) \in Nat
  BY <1>2 DEF TypeOK
<1>11. PICK D \in Nat, E \in Nat, N \in Nat, r \in Nat :
          /\ D = Len(disk[f]) /\ E = Len(expected[f])
          /\ N = Len(ChunkHeads[f]) /\ r = nread[c]
  BY <1>2, <1>3, <1>10
<1>12. expected[f][Len(disk[f]) + l + 1] = d
  <2>1. n \in nread[c] + 1 .. Len(ChunkHeads[name]) /\ Len(disk[f]) + l + n - nread[c] = Len(disk[f]) + l + 1
    BY <1>2, <1>7, <1>10
  <2>2. QED
    BY <1>6, <1>1, <1>2, <2>1 DEF Coming
<1> HIDE DEF d
<1>13. Data(l + 1)'
  <2>1. Data(l)
    BY <1>6, <1>1 DEF Coming
  <2>2. \A j \in 1 .. l + 1 : j \in 1 .. l \/ j = l + 1
    BY <1>7
  <2>3. ASSUME NEW j \in 1 .. l + 1
        PROVE  toServer'[j] = expected[f][Len(disk[f]) + j] /\ ~InBand(toServer'[j].head)
    <3>1. CASE j \in 1 .. l
      BY <1>2, <1>7, <2>1, <3>1 DEF Data
    <3>2. CASE j = l + 1
      <4>1. D + j = D + l + 1
        BY <3>2
      <4>2. toServer'[j] = d /\ expected[f][Len(disk[f]) + j] = d
        BY <1>7, <1>12, <1>11, <3>2, <4>1
      <4>3. QED
        BY <1>4, <4>2
    <3>3. QED
      BY <2>2, <3>1, <3>2
  <2>4. QED
    BY <1>2, <1>8, <2>3 DEF Data, InBand
<1>14. /\ Len(disk[f]) + (l + 1) + Len(ChunkHeads[f]) = Len(expected[f]) + n
       /\ n <= Len(ChunkHeads[f])
  <2>1. D + l + N = E + r
    BY <1>1, <1>2, <1>6, <1>11 DEF Coming
  <2>2. D + (l + 1) + N = E + (r + 1)
    BY <2>1
  <2>3. r + 1 <= N
    BY <1>2, <1>11
  <2>4. QED
    BY <1>11, <2>2, <2>3
<1>15. ASSUME NEW k \in n + 1 .. Len(ChunkHeads[f])
       PROVE  expected[f][Len(disk[f]) + (l + 1) + k - n]
                 = Chunk(c, f, k)
  <2>1. k \in r + 2 .. N
    BY <1>11
  <2>2. k \in r + 1 .. N /\ D + (l + 1) + k - (r + 1) = D + l + k - r
    BY <2>1
  <2>3. /\ k \in nread[c] + 1 .. Len(ChunkHeads[f])
        /\ Len(disk[f]) + (l + 1) + k - n = Len(disk[f]) + l + k - nread[c]
    BY <1>11, <2>2
  <2>4. QED
    BY <1>1, <1>2, <1>6, <2>3 DEF Coming
<1>16. Coming(c)'
  BY <1>1, <1>2, <1>7, <1>8, <1>13, <1>14, <1>15 DEF Coming
<1>17. QED
  BY <1>9, <1>16 DEF CleanInv

(* The end marker follows the last chunk.                                   *)
LEMMA CleanEnd ==
    ASSUME TypeOK, PutsNameFiles, CleanInv, ~Doomed, NEW c \in Clients, SendEnd(c), clean'
    PROVE  CleanInv'
<1> USE DEF channelVars, clientVars, serverVars
<1> DEFINE d == Command(c, "e", NoFile)
<1>1. Coming(c) /\ pc[c] = "sending" /\ mode = "put" /\ open[c] = name /\ name \in Files
  BY ComingIsUnique DEF SendEnd, Coming, TypeOK
<1>2. d \in Datagrams /\ d.head # "put" /\ d.head = "e"
  BY CommandType DEF Command, Heads, DataHeads
<1>3. Listening /\ losses' = losses
  BY DEF SendEnd, StaysClean
<1>4. toServer' = Append(toServer, d)
  BY <1>2, <1>3, SentType DEF SendEnd, EndMark
<1> HIDE DEF d
<1>5. PICK l \in Nat : l = Len(toServer)
  BY DEF TypeOK
<1>6. /\ l \in Nat /\ Len(toServer') = l + 1 /\ toServer'[l + 1] = d
      /\ \A j \in 1 .. l : toServer'[j] = toServer[j]
  BY <1>5, <1>2, <1>4 DEF TypeOK
<1>7. /\ UNCHANGED <<toClient, mode, name, disk, expected>>
      /\ pc'[c] = "idle" /\ \A p \in Clients \ {c} : pc'[p] = pc[p]
  BY DEF SendEnd, TypeOK
<1>8. \A p \in Clients \ {c} : pc[p] \notin {"asked", "sending"}
  BY <1>1 DEF CleanInv, OnePutter
<1>9. OnePutter' /\ AnswersAwaited' /\ DiskFollows'
  BY <1>1, <1>7, <1>8, DiskStays DEF CleanInv, OnePutter, AnswersAwaited
<1>10. NobodySends'
  BY <1>7, <1>8 DEF NobodySends
<1>11. Data(l)'
  <2>1. Data(l)
    BY <1>5, <1>1 DEF Coming
  <2>2. QED
    BY <1>6, <1>7, <2>1 DEF Data
<1>12. Len(expected[name]) = Len(disk[name]) + l
  <2>1. /\ nread[c] = Len(ChunkHeads[name]) /\ nread[c] \in Nat
        /\ Len(disk[name]) \in Nat /\ Len(expected[name]) \in Nat
    BY <1>1 DEF SendEnd, TypeOK
  <2>2. PICK D \in Nat, E \in Nat, r \in Nat :
            D = Len(disk[name]) /\ E = Len(expected[name]) /\ r = nread[c]
    BY <2>1
  <2>3. D + l + r = E + r
    BY <1>1, <1>5, <2>1, <2>2 DEF Coming
  <2>4. E = D + l
    BY <1>6, <2>3
  <2>5. QED
    BY <2>2, <2>4
<1>13. CommandsFrom(l + 2)'
  BY <1>6 DEF CommandsFrom
<1>14. EndsAfter(l)' /\ l \in 0 .. Len(toServer') - 1
  BY <1>2, <1>6, <1>7, <1>11, <1>12, <1>13 DEF EndsAfter
<1>15. QED
  BY <1>1, <1>7, <1>9, <1>10, <1>14 DEF Ended, CleanInv

-----------------------------------------------------------------------------
(* The clean invariant, step by step: the server.                           *)

(* Between puts the first datagram is a command, and no other client's.     *)
LEMMA FirstIsCommand ==
    ASSUME TypeOK, PutsNameFiles, toServer # <<>>, CommandsFrom(1), NEW d, d = Head(toServer)
    PROVE  /\ d \in Datagrams /\ d.from \in Clients /\ d.head \in Heads /\ IsCommand(d)
           /\ d.head = "put" => d.file \in Files /\ Tail(toServer) = <<>>
           /\ \A j \in 2 .. Len(toServer) : toServer[j].from # d.from
<1>1. /\ d = toServer[1] /\ 1 \in 1 .. Len(toServer) /\ d \in Datagrams
      /\ d.from \in Clients /\ d.head \in Heads /\ (d.head = "put" => d.file \in Files)
  BY HeadType
<1>2. /\ IsCommand(d) /\ (d.head = "put" => 1 = Len(toServer))
      /\ \A k \in 1 .. Len(toServer) : d.from = toServer[k].from => 1 = k
  BY <1>1 DEF CommandsFrom
<1>3. toServer \in Seq(Datagrams)
  BY DEF TypeOK
<1>4. d.head = "put" => Tail(toServer) = <<>>
  BY <1>2, <1>3, OnlyElement
<1>5. \A j \in 2 .. Len(toServer) : j \in 1 .. Len(toServer) /\ j # 1
  BY <1>3
<1>6. QED
  BY <1>1, <1>2, <1>4, <1>5

(* The consent: the put's chunks are what is expected next.                 *)
LEMMA CleanConsenting ==
    ASSUME TypeOK, PutsNameFiles, CleanInv, toServer # <<>>, NEW d, d = Head(toServer),
           NEW place \in {"put", "null"}, Consenting(d, place), clean'
    PROVE  CleanInv'
<1> USE DEF channelVars, clientVars, serverVars
<1>1. mode = "command" /\ d.head = "put" /\ losses' = losses /\ name = NoFile
  BY DEF Consenting, StaysClean, TypeOK
<1>2. Between
  BY <1>1 DEF CleanInv, Ended, Coming, Doomed
<1>3. /\ d \in Datagrams /\ d.file \in Files /\ IsCommand(d) /\ Tail(toServer) = <<>>
  BY <1>1, <1>2, FirstIsCommand DEF Between
<1>4. PICK c \in Clients, f \in Files : c = d.from /\ f = d.file
  BY <1>3 DEF Datagrams
<1>5. pc[c] = "asked" /\ open[c] = f /\ nread[c] = 0 /\ toClient[c] = <<>>
  BY <1>1, <1>3, <1>4 DEF IsCommand
<1>6. /\ UNCHANGED <<pc, open, nread, disk>> /\ toServer' = <<>>
      /\ mode' = place /\ name' = f
      /\ expected' = [expected EXCEPT ![f] = @ \o ChunksOf(c, f)]
  BY <1>3, <1>4 DEF Consenting, Take
<1>7. toClient' = [toClient EXCEPT ![c] = <<"y">>]
  <2>1. "y" \in Heads
    BY DEF Heads, DataHeads
  <2>2. toClient' = [toClient EXCEPT ![c] = Append(@, "y")]
    BY <1>1, <1>4, <2>1, RepliedType DEF Consenting
  <2>3. Append(<<>>, "y") = <<"y">>
    OBVIOUS
  <2>4. QED
    BY <1>5, <2>2, <2>3
<1>8. toClient'[c] = <<"y">> /\ \A e \in Clients \ {c} : toClient'[e] = toClient[e]
  BY <1>7 DEF TypeOK
<1>9. OnePutter' /\ AnswersAwaited'
  <2>1. Len(<<"y">>) = 1
    OBVIOUS
  <2>2. QED
    BY <1>5, <1>6, <1>8, <2>1 DEF CleanInv, OnePutter, AnswersAwaited
<1>10. /\ disk[f] = expected[f] /\ disk[f] \in Seq(Datagrams)
       /\ ChunksOf(c, f) \in Seq(Datagrams)
       /\ Len(ChunksOf(c, f)) = Len(ChunkHeads[f]) /\ Len(ChunkHeads[f]) \in Nat
  <2>1. name # f
    BY <1>1, ChunksAssumption
  <2>2. QED
    BY <2>1, ChunksType, ChunksAssumption DEF TypeOK, CleanInv, DiskFollows
<1>11. PICK D \in Nat, N \in Nat : D = Len(disk[f]) /\ N = Len(ChunkHeads[f])
  BY <1>10
<1>12. /\ Len(expected'[f]) = D + N
       /\ \A j \in 1 .. D + N : expected'[f][j] = IF j <= D THEN disk[f][j] ELSE ChunksOf(c, f)[j - D]
       /\ \A g \in Files \ {f} : expected'[g] = expected[g]
  <2>1. expected'[f] = disk[f] \o ChunksOf(c, f)
    BY <1>6, <1>10 DEF TypeOK
  <2>2. \A g \in Files \ {f} : expected'[g] = expected[g]
    BY <1>6 DEF TypeOK
  <2>3. PICK s \in Seq(Datagrams), t \in Seq(Datagrams) :
           s = disk[f] /\ t = ChunksOf(c, f) /\ D = Len(s) /\ N = Len(t)
    BY <1>10, <1>11
  <2>4. /\ Len(s \o t) = D + N
        /\ \A j \in 1 .. D + N : (s \o t)[j] = IF j <= D THEN s[j] ELSE t[j - D]
    BY <2>3, ConcatElements
  <2>5. QED
    BY <2>1, <2>2, <2>3, <2>4
<1>13. DiskFollows'
  <2>1. ASSUME NEW g \in Files \ {f}
        PROVE  /\ Len(disk'[g]) <= Len(expected'[g])
               /\ \A j \in 1 .. Len(disk'[g]) : disk'[g][j] = expected'[g][j]
               /\ disk'[g] = expected'[g]
    <3>1. name # g
      BY <1>1, ChunksAssumption
    <3>2. QED
      BY <1>6, <1>12, <3>1 DEF CleanInv, DiskFollows, TypeOK
  <2>2. D <= D + N /\ \A j \in 1 .. D : j \in 1 .. D + N /\ j <= D
    OBVIOUS
  <2>3. Len(disk[f]) <= Len(expected'[f]) /\ \A j \in 1 .. Len(disk[f]) : disk[f][j] = expected'[f][j]
    BY <1>11, <1>12, <2>2
  <2>4. QED
    BY <1>6, <2>1, <2>3 DEF DiskFollows
<1>14. ASSUME NEW n \in 1 .. N
       PROVE  expected'[f][D + n] = Chunk(c, f, n)
  <2>1. D + n \in 1 .. D + N /\ ~(D + n <= D) /\ D + n - D = n
    OBVIOUS
  <2>2. ChunksOf(c, f)[n] = Chunk(c, f, n)
    BY <1>11 DEF ChunksOf
  <2>3. QED
    BY <1>12, <2>1, <2>2
<1>15. Len(toServer') = 0 /\ nread'[c] = 0 /\ Data(0)'
  BY <1>5, <1>6 DEF Data
<1>16. ASSUME place = "put"
       PROVE  Coming(c)'
  <2>1. D + 0 + N = (D + N) + 0 /\ 0 <= N
    OBVIOUS
  <2>2. \A n \in 0 + 1 .. N : n \in 1 .. N /\ D + 0 + n - 0 = D + n
    OBVIOUS
  <2>3. \A n \in 0 + 1 .. N :
           expected'[f][D + 0 + n - 0] = Chunk(c, f, n)
    BY <1>14, <2>2
  <2>4. Data(Len(toServer))'
    BY <1>15 DEF Data
  <2>5. /\ Len(disk'[name']) = D /\ Len(toServer') = 0 /\ Len(ChunkHeads[name']) = N
        /\ Len(expected'[name']) = D + N /\ nread'[c] = 0
    BY <1>5, <1>6, <1>11, <1>12
  <2>6. /\ nread'[c] <= Len(ChunkHeads[name'])
        /\ Len(disk'[name']) + Len(toServer') + Len(ChunkHeads[name'])
              = Len(expected'[name']) + nread'[c]
    BY <2>1, <2>5
  <2>7. \A n \in nread'[c] + 1 .. Len(ChunkHeads[name']) :
           expected'[name'][Len(disk'[name']) + Len(toServer') + n - nread'[c]]
              = Chunk(c, name', n)
    BY <1>6, <2>3, <2>5
  <2>8. QED
    BY <1>5, <1>6, <1>8, <1>16, <2>4, <2>6, <2>7 DEF Coming
<1>17. place = "null" => Doomed'
  BY <1>6 DEF Doomed
<1>18. QED
  BY <1>9, <1>13, <1>16, <1>17 DEF CleanInv

(* The answer to another command.                                           *)
LEMMA CleanReply ==
    ASSUME TypeOK, PutsNameFiles, CleanInv, toServer # <<>>, NEW d, d = Head(toServer),
           Answer(d) \/ Stop(d), clean'
    PROVE  CleanInv'
<1> USE DEF channelVars, clientVars, serverVars
<1>1. mode = "command" /\ mode' # "put" /\ d.head # "put" /\ losses' = losses
  BY DEF Answer, Stop, StaysClean
<1>2. Between
  BY <1>1 DEF CleanInv, Ended, Coming, Doomed
<1>3. /\ d \in Datagrams /\ d.head \in Heads /\ IsCommand(d)
      /\ \A j \in 2 .. Len(toServer) : toServer[j].from # d.from
  BY <1>2, FirstIsCommand DEF Between
<1>4. PICK c \in Clients : c = d.from
  BY <1>3 DEF Datagrams
<1>5. pc[c] = "waiting" /\ toClient[c] = <<>>
  BY <1>1, <1>3, <1>4 DEF IsCommand
<1>6. UNCHANGED <<pc, open, nread, name, disk, expected>>
  BY DEF Answer, Take, Stop
<1>7. PICK h \in Heads : toClient' = [toClient EXCEPT ![c] = Append(@, h)]
  <2>1. AnswerTo(d.head) \in Heads /\ "other" \in Heads
    BY <1>3 DEF AnswerTo, Heads, DataHeads
  <2>2. QED
    BY <1>1, <1>4, <2>1, RepliedType DEF Answer, Stop
<1>8. Len(toClient'[c]) = 1 /\ \A e \in Clients \ {c} : toClient'[e] = toClient[e]
  <2>1. Len(Append(<<>>, h)) = 1
    OBVIOUS
  <2>2. QED
    BY <1>5, <1>7, <2>1 DEF TypeOK
<1>9. OnePutter' /\ AnswersAwaited' /\ DiskFollows'
  BY <1>1, <1>5, <1>6, <1>8, DiskStays DEF CleanInv, OnePutter, AnswersAwaited
<1>10. NobodySends'
  BY <1>2, <1>5, <1>6, <1>8 DEF Between, NobodySends
<1>11. CommandsFrom(1)'
  <2>1. CASE Stop(d)
    <3>1. toServer' = <<>>
      BY <2>1 DEF Stop
    <3>2. QED
      BY <3>1 DEF CommandsFrom
  <2>2. CASE Answer(d)
    <3>1. toServer' = Tail(toServer)
      BY <2>2 DEF Answer, Take
    <3>2. ASSUME NEW n \in Nat, n = 1
          PROVE  CommandsFrom(n)'
      <4>1. n >= 1 /\ \A j \in n + 1 .. Len(toServer) : j \in 2 .. Len(toServer)
        BY <3>2
      <4>2. CommandsFrom(n + 1)
        <5>1. Len(toServer) \in Nat
          BY DEF TypeOK
        <5>2. \A j \in n + 1 .. Len(toServer) : j \in 1 .. Len(toServer)
          BY <3>2, <5>1
        <5>3. QED
          BY <1>2, <5>2 DEF Between, CommandsFrom
      <4>3. ASSUME NEW e \in Datagrams, NEW j \in n + 1 .. Len(toServer),
                   e = toServer[j], IsCommand(e)
            PROVE  IsCommand(e)'
        <5>1. e.from # c /\ e.from \in Clients
          BY <1>3, <1>4, <4>1, <4>3 DEF Datagrams
        <5>2. QED
          BY <1>6, <1>8, <4>3, <5>1 DEF IsCommand
      <4>4. QED
        BY <3>1, <4>1, <4>2, <4>3, CommandsMoveUp
    <3>3. QED
      BY <3>2
  <2>3. QED
    BY <2>1, <2>2
<1>12. QED
  BY <1>1, <1>9, <1>10, <1>11 DEF Between, CleanInv

(* A chunk is written after those that were.                                *)
LEMMA CleanWriting ==
    ASSUME TypeOK, PutsNameFiles, CleanInv, toServer # <<>>, NEW d, d = Head(toServer),
           Write(d)
    PROVE  CleanInv'
<1> USE DEF channelVars, clientVars, serverVars
<1>1. /\ mode = "put" /\ name \in Files /\ ~EndsPut(d.head) /\ toServer' = Tail(toServer)
      /\ UNCHANGED <<pc, open, nread, toClient, mode, name, expected>>
      /\ disk' = [disk EXCEPT ![name] = Append(@, d)]
  BY DEF Write, Take, Written, TypeOK
<1>2. /\ d = toServer[1] /\ d \in Datagrams /\ toServer \in Seq(Datagrams)
  BY HeadType DEF TypeOK
<1>3. PICK l \in Nat, D \in Nat, E \in Nat :
         l = Len(toServer) /\ D = Len(disk[name]) /\ E = Len(expected[name])
  BY <1>1 DEF TypeOK
<1>4. /\ l >= 1 /\ Len(toServer') = l - 1
      /\ \A j \in 1 .. l - 1 : toServer'[j] = toServer[j + 1]
  BY <1>1, <1>2, <1>3, TailElements
<1>5. /\ disk'[name] = Append(disk[name], d) /\ Len(disk'[name]) = D + 1
      /\ disk'[name][D + 1] = d /\ \A j \in 1 .. D : disk'[name][j] = disk[name][j]
      /\ \A g \in Files \ {name} : disk'[g] = disk[g]
  BY <1>1, <1>2, <1>3 DEF TypeOK
<1>6. OnePutter' /\ AnswersAwaited'
  BY <1>1 DEF CleanInv, OnePutter, AnswersAwaited
<1>7. ASSUME D + 1 <= E, d = expected[name][D + 1]
      PROVE  DiskFollows'
  <2>1. ASSUME NEW j \in 1 .. D + 1
        PROVE  disk'[name][j] = expected[name][j]
    <3>1. j \in 1 .. D \/ j = D + 1
      OBVIOUS
    <3>2. QED
      BY <1>1, <1>3, <1>5, <1>7, <3>1 DEF CleanInv, DiskFollows
  <2>2. Len(disk'[name]) <= Len(expected'[name]) /\ \A j \in 1 .. Len(disk'[name]) :
           disk'[name][j] = expected'[name][j]
    BY <1>1, <1>3, <1>5, <1>7, <2>1
  <2>3. ASSUME NEW g \in Files, g # name
        PROVE  /\ Len(disk'[g]) <= Len(expected'[g])
               /\ \A j \in 1 .. Len(disk'[g]) : disk'[g][j] = expected'[g][j]
               /\ disk'[g] = expected'[g]
    BY <1>1, <1>5, <2>3 DEF CleanInv, DiskFollows
  <2>4. QED
    BY <1>1, <2>2, <2>3 DEF DiskFollows
<1>8. ASSUME NEW m \in Nat, m >= 1, m <= l, Data(m)
      PROVE  d = expected[name][D + 1] /\ \A k \in Nat : k = m - 1 => Data(k)'
  <2>1. d = expected[name][D + 1]
    BY <1>2, <1>3, <1>8 DEF Data
  <2>2. ASSUME NEW k \in Nat, k = m - 1, NEW j \in 1 .. k
        PROVE  toServer'[j] = expected'[name][D + 1 + j] /\ ~InBand(toServer'[j].head)
    <3>1. j \in 1 .. l - 1 /\ j + 1 \in 1 .. m /\ D + (j + 1) = D + 1 + j
      BY <1>8, <2>2
    <3>2. QED
      BY <1>1, <1>3, <1>4, <1>8, <3>1 DEF Data
  <2>3. ASSUME NEW k \in Nat, k = m - 1
        PROVE  Data(k)'
    <3>1. name' = name /\ Len(disk'[name']) = D + 1
      BY <1>1, <1>5
    <3>2. \A j \in 1 .. k : /\ toServer'[j] = expected'[name'][Len(disk'[name']) + j]
                            /\ ~InBand(toServer'[j].head)
      BY <2>2, <2>3, <3>1
    <3>3. QED
      BY <3>2 DEF Data, InBand
  <2>4. QED
    BY <2>1, <2>3
<1>9. CASE Ended
  <2>1. PICK m \in 0 .. l - 1 : EndsAfter(m)
    BY <1>3, <1>9 DEF Ended
  <2>2. m >= 1
    <3>1. m = 0 => toServer[1].head = "e"
      BY <2>1 DEF EndsAfter
    <3>2. QED
      BY <1>1, <1>2, <3>1 DEF EndsPut
  <2>3. PICK k \in Nat : k = m - 1 /\ m \in Nat /\ k + 1 = m /\ m <= l
    BY <1>3, <2>2
  <2>4. /\ Data(m) /\ E = D + m /\ toServer[m + 1].head = "e" /\ CommandsFrom(m + 2)
    BY <1>3, <2>1 DEF EndsAfter
  <2>5. Data(k)' /\ d = expected[name][D + 1]
    BY <1>8, <2>2, <2>3, <2>4
  <2>6. DiskFollows'
    BY <1>7, <2>2, <2>3, <2>4, <2>5
  <2>7. k + 1 \in 1 .. l - 1 /\ toServer'[k + 1].head = "e"
    BY <1>4, <2>1, <2>3, <2>4
  <2>8. CommandsFrom(k + 2)'
    <3>1. PICK n \in Nat : n = k + 2 /\ n >= 1 /\ n + 1 = m + 2
      BY <2>3
    <3>2. \A e \in Datagrams, j \in n + 1 .. Len(toServer) :
             e = toServer[j] /\ IsCommand(e) => IsCommand(e)'
      BY <1>1 DEF IsCommand
    <3>3. CommandsFrom(n + 1)
      BY <2>4, <3>1
    <3>4. CommandsFrom(n)'
      BY <1>1, <3>1, <3>2, <3>3, CommandsMoveUp
    <3>5. QED
      BY <3>1, <3>4 DEF CommandsFrom
  <2>9. E = D + 1 + k
    BY <2>3, <2>4
  <2>10. EndsAfter(k)' /\ k \in 0 .. Len(toServer') - 1
    BY <1>1, <1>3, <1>4, <1>5, <2>5, <2>7, <2>8, <2>9 DEF EndsAfter
  <2>11. NobodySends'
    BY <1>1, <1>9 DEF Ended, NobodySends
  <2>12. QED
    BY <1>1, <1>6, <2>6, <2>10, <2>11 DEF Ended, CleanInv
<1>10. ASSUME NEW c \in Clients, Coming(c)
       PROVE  CleanInv'
  <2>1. PICK N \in Nat, r \in Nat : N = Len(ChunkHeads[name]) /\ r = nread[c]
    <3>1. ChunkHeads[name] \in Seq(DataHeads) /\ nread[c] \in Nat
      BY <1>1, ChunksAssumption DEF TypeOK
    <3>2. QED
      BY <3>1
  <2>2. r <= N /\ D + l + N = E + r /\ Data(l)
    BY <1>3, <1>10, <2>1 DEF Coming
  <2>3. PICK k \in Nat : k = l - 1
    BY <1>4
  <2>4. d = expected[name][D + 1] /\ Data(k)'
    BY <1>4, <1>8, <2>2, <2>3
  <2>5. D + 1 <= E /\ (D + 1) + k + N = E + r
    BY <1>4, <2>2, <2>3
  <2>6. DiskFollows'
    BY <1>7, <2>4, <2>5
  <2>7. ASSUME NEW n \in r + 1 .. N
        PROVE  expected[name][(D + 1) + k + n - r]
                  = Chunk(c, name, n)
    <3>1. (D + 1) + k + n - r = D + l + n - r
      BY <2>3
    <3>2. QED
      BY <1>3, <1>10, <2>1, <3>1 DEF Coming
  <2>8. Data(Len(toServer))'
    BY <1>4, <2>3, <2>4 DEF Data
  <2>9. /\ Len(disk'[name']) = D + 1 /\ Len(toServer') = k /\ Len(ChunkHeads[name']) = N
        /\ Len(expected'[name']) = E /\ nread'[c] = r
    BY <1>1, <1>3, <1>4, <1>5, <2>1, <2>3
  <2>10. /\ nread'[c] <= Len(ChunkHeads[name'])
         /\ Len(disk'[name']) + Len(toServer') + Len(ChunkHeads[name'])
               = Len(expected'[name']) + nread'[c]
    BY <2>2, <2>5, <2>9
  <2>11. \A n \in nread'[c] + 1 .. Len(ChunkHeads[name']) :
            expected'[name'][Len(disk'[name']) + Len(toServer') + n - nread'[c]]
               = Chunk(c, name', n)
    BY <1>1, <2>7, <2>9
  <2>12. Coming(c)'
    BY <1>1, <1>10, <2>8, <2>10, <2>11 DEF Coming
  <2>13. QED
    BY <1>6, <2>6, <2>12 DEF CleanInv
<1>11. QED
  BY <1>1, <1>9, <1>10 DEF CleanInv, Between, Doomed

(* The end marker closes a file that is whole.                              *)
LEMMA CleanEnding ==
    ASSUME TypeOK, PutsNameFiles, CleanInv, toServer # <<>>, NEW d, d = Head(toServer),
           EndPut(d)
    PROVE  CleanInv'
<1> USE DEF channelVars, clientVars, serverVars
<1>1. /\ mode = "put" /\ mode' = "command" /\ name \in Files /\ EndsPut(d.head)
      /\ toServer' = Tail(toServer)
      /\ UNCHANGED <<pc, open, nread, toClient, disk, expected>>
  BY DEF EndPut, Take, TypeOK
<1>2. d = toServer[1] /\ 1 \in 1 .. Len(toServer) /\ Len(toServer) \in Nat
  BY HeadType DEF TypeOK
<1>3. ASSUME NEW m \in Nat, m >= 1, Data(m)
      PROVE  FALSE
  <2>1. 1 \in 1 .. m
    BY <1>3
  <2>2. QED
    BY <1>1, <1>2, <1>3, <2>1 DEF Data, InBand, EndsPut
<1>4. \A c \in Clients : ~Coming(c)
  <2>1. Len(toServer) >= 1
    BY <1>2
  <2>2. QED
    BY <1>2, <1>3, <2>1 DEF Coming
<1>5. Ended
  BY <1>1, <1>4 DEF CleanInv, Between, Doomed
<1>6. PICK m \in 0 .. Len(toServer) - 1 : EndsAfter(m)
  BY <1>5 DEF Ended
<1>7. m = 0
  <2>1. m \in Nat /\ ~(m >= 1)
    BY <1>2, <1>3, <1>6 DEF EndsAfter
  <2>2. QED
    BY <2>1
<1>8. Len(disk[name]) = Len(expected[name])
  <2>1. Len(disk[name]) \in Nat /\ Len(expected[name]) = Len(disk[name]) + 0
    BY <1>1, <1>6, <1>7 DEF EndsAfter, TypeOK
  <2>2. QED
    BY <2>1
<1>9. disk[name] = expected[name]
  BY <1>1, <1>8, SameElements DEF TypeOK, CleanInv, DiskFollows
<1>10. OnePutter' /\ AnswersAwaited' /\ DiskFollows' /\ NobodySends'
  BY <1>1, <1>5, <1>9 DEF CleanInv, OnePutter, AnswersAwaited, DiskFollows, Ended, NobodySends
<1>11. CommandsFrom(1)'
  <2>1. PICK n \in Nat : n = 1 /\ n >= 1 /\ n + 1 = m + 2
    BY <1>7
  <2>2. CommandsFrom(n + 1)
    BY <1>6, <2>1 DEF EndsAfter
  <2>3. \A e \in Datagrams, j \in n + 1 .. Len(toServer) :
           e = toServer[j] /\ IsCommand(e) => IsCommand(e)'
    BY <1>1 DEF IsCommand
  <2>4. CommandsFrom(n)'
    BY <1>1, <2>1, <2>2, <2>3, CommandsMoveUp
  <2>5. QED
    BY <2>1, <2>4 DEF CommandsFrom
<1>12. QED
  BY <1>1, <1>10, <1>11 DEF Between, CleanInv
(* A list that cannot be made harms no file, and answers nobody.            *)
LEMMA CleanListKills ==
    ASSUME CleanInv, NEW d, ListKills(d)
    PROVE  CleanInv'
<1>1. UNCHANGED <<pc, toClient, name, disk, expected>> /\ Doomed'
  BY DEF ListKills, Dies, clientVars, Doomed
<1>2. QED
  BY <1>1, DiskStays DEF CleanInv, OnePutter, AnswersAwaited

(* Nor does what is done to a server that a null pointer is about to kill,  *)
(* or has killed: what is sent is written nowhere.                          *)
LEMMA CleanDoomedStep ==
    ASSUME TypeOK, CleanInv, Doomed, [Next]_vars, clean'
    PROVE  CleanInv'
<1> USE DEF channelVars, clientVars, serverVars
<1>1. ASSUME UNCHANGED <<name, disk, expected>>, Doomed', OnePutter', AnswersAwaited'
      PROVE  CleanInv'
  BY <1>1, DiskStays DEF CleanInv
<1>2. CASE UNCHANGED vars
  BY <1>1, <1>2 DEF vars, CleanInv, OnePutter, AnswersAwaited, Doomed
<1>3. CASE ServerStep
  <2>1. PICK d : Crash(d)
    BY <1>3 DEF ServerStep, Bind, BindFails, Serve, Consent, ConsentInVain, Consenting, Answer,
       ListKills, Stop, Write, EndPut, Doomed
  <2>2. UNCHANGED <<pc, toClient, name, disk, expected>> /\ Doomed'
    BY <2>1 DEF Crash, Dies, Doomed
  <2>3. QED
    BY <1>1, <2>2 DEF CleanInv, OnePutter, AnswersAwaited
<1>4. ASSUME NEW c \in Clients, ClientStep(c)
      PROVE  CleanInv'
  <2>1. UNCHANGED <<mode, name, disk, expected>>
    BY <1>4 DEF ClientStep, GetConsent, GetAnswer, Received, SendChunk, SendEnd
  <2>2. /\ \A e \in Clients \ {c} : pc'[e] = pc[e] /\ toClient'[e] = toClient[e]
        /\ pc'[c] \in {"asked", "sending"} => pc[c] \in {"asked", "sending"}
    BY <1>4 DEF ClientStep, GetConsent, GetAnswer, Received, SendChunk, SendEnd, TypeOK
  <2>3. toClient'[c] = <<>> \/ (toClient'[c] = toClient[c] /\ pc[c] = "sending")
    <3>1. CASE GetConsent(c) \/ GetAnswer(c)
      <4>1. toClient[c] \in Seq(Heads) /\ Len(toClient[c]) = 1
        BY <3>1 DEF GetConsent, GetAnswer, Received, TypeOK, CleanInv, AnswersAwaited
      <4>2. Tail(toClient[c]) = <<>>
        BY <4>1, OnlyElement
      <4>3. QED
        BY <3>1, <4>2 DEF GetConsent, GetAnswer, Received, TypeOK
    <3>2. CASE SendChunk(c) \/ SendEnd(c)
      BY <3>2 DEF SendChunk, SendEnd
    <3>3. QED
      BY <1>4, <3>1, <3>2 DEF ClientStep
  <2>4. OnePutter' /\ AnswersAwaited'
    BY <2>2, <2>3 DEF CleanInv, OnePutter, AnswersAwaited
  <2>5. QED
    BY <1>1, <2>1, <2>4 DEF Doomed
<1>5. ASSUME NEW c \in Clients, UserStep(c)
      PROVE  CleanInv'
  <2> DEFINE Speaks == pc[c] = "idle" /\ (pc'[c] = "waiting" \/ ~Disturbs(c))
  <2>1. /\ UNCHANGED <<mode, name, disk, expected, toClient>>
        /\ \A e \in Clients \ {c} : pc'[e] = pc[e]
        /\ pc[c] \in {"start", "idle"}
        /\ pc'[c] \notin {"asked", "waiting", "sending"} \/ Speaks
    <3>1. CASE Begin(c) \/ BeginsInVain(c)
      BY <3>1 DEF Begin, BeginsInVain, TypeOK
    <3>2. CASE NotFound(c)
      BY <3>2 DEF NotFound, Prompted
    <3>3. CASE \E f \in Files : TypePut(c, f)
      BY <3>3 DEF TypePut, Prompted, StaysClean, TypeOK
    <3>4. CASE \E h \in Heads : TypeOther(c, h)
      BY <3>4 DEF TypeOther, Prompted, StaysClean, TypeOK
    <3>5. \A text \in Heads \cup {"blank"}, trailing \in BOOLEAN :
             Trimmed(text, trailing) \subseteq Heads
      BY DEF Trimmed, Heads, DataHeads
    <3>6. QED
      <4> HIDE DEF Speaks
      <4>1. \/ Begin(c) \/ BeginsInVain(c) \/ NotFound(c)
            \/ (\E f \in Files : TypePut(c, f)) \/ (\E h \in Heads : TypeOther(c, h))
        BY <1>5, <3>5 DEF UserStep, Enter
      <4>2. QED
        BY <3>1, <3>2, <3>3, <3>4, <4>1
  <2>2. pc[c] \in {"start", "idle"} => toClient[c] = <<>>
    BY DEF CleanInv, AnswersAwaited
  <2>3. OnePutter'
    BY <2>1 DEF CleanInv, OnePutter, Disturbs
  <2>4. AnswersAwaited'
    BY <2>1, <2>2 DEF CleanInv, AnswersAwaited
  <2>5. QED
    BY <1>1, <2>1, <2>3, <2>4 DEF Doomed
<1>6. QED
  BY <1>2, <1>3, <1>4, <1>5 DEF Next
-----------------------------------------------------------------------------
(* The invariant.                                                           *)

LEMMA PutInit == Init => PutInv
<1> SUFFICES ASSUME Init PROVE PutInv
  OBVIOUS
<1>1. TypeOK
  BY BoundsAssumption DEF Init, TypeOK
<1>2. PutsNameFiles /\ CommandsFrom(1) /\ Len(toServer) = 0
  BY DEF Init, PutsNameFiles, CommandsFrom
<1>3. DiskFollows
  BY DEF Init, DiskFollows
<1>4. OnePutter /\ AnswersAwaited /\ Between
  BY <1>2 DEF Init, OnePutter, AnswersAwaited, Between, NobodySends
<1>5. PaddingIsLast
  BY DEF Init, PaddingIsLast
<1>6. QED
  BY <1>1, <1>2, <1>3, <1>4, <1>5 DEF PutInv, CleanInv

(* A line typed in a run that stays clean.                                  *)
LEMMA CleanLine ==
    ASSUME TypeOK, PutsNameFiles, CleanInv, ~Doomed, NEW c \in Clients, clean',
           NEW text \in Heads \cup {"blank"}, NEW trailing \in BOOLEAN,
           Enter(c, text, trailing)
    PROVE  CleanInv'
<1> USE DEF channelVars, clientVars, serverVars
<1>1. CASE NotFound(c)
  BY <1>1, CleanQuietStep DEF NotFound
<1>2. toClient[c] = <<>> \/ pc[c] # "idle"
  BY DEF CleanInv, AnswersAwaited
<1>3. ASSUME NEW f \in Files, TypePut(c, f)
      PROVE  CleanInv'
  <2>1. PICK d \in Datagrams : d = Command(c, "put", f)
    BY CommandType
  <2>2. /\ pc[c] = "idle" /\ Listening /\ ~Disturbs(c) /\ losses' = losses
        /\ UNCHANGED <<toClient, mode, name, disk, expected>>
    BY <1>3 DEF TypePut, Prompted, StaysClean
  <2>3. d.from = c /\ d.head = "put" /\ d.file = f
    BY <2>1 DEF Command
  <2>4. toServer' = Append(toServer, d)
    BY <1>3, <2>1, <2>2, <2>3, SentType DEF TypePut
  <2>5. /\ pc'[c] = "asked" /\ open'[c] = f /\ nread'[c] = 0 /\ toClient'[c] = <<>>
        /\ \A e \in Clients \ {c} : /\ pc'[e] = pc[e] /\ open'[e] = open[e]
                                    /\ nread'[e] = nread[e]
    BY <1>2, <1>3, <2>2 DEF TypePut, TypeOK
  <2>6. IsCommand(d)'
    BY <2>3, <2>5 DEF IsCommand
  <2>7. QED
    BY <2>2, <2>3, <2>4, <2>5, <2>6, CleanTyping
<1>4. ASSUME NEW h \in Heads, h # "put", TypeOther(c, h)
      PROVE  CleanInv'
  <2>1. PICK d \in Datagrams : d = Command(c, h, NoFile)
    BY CommandType
  <2>2. /\ pc[c] = "idle" /\ Listening /\ ~Disturbs(c) /\ losses' = losses
        /\ UNCHANGED <<toClient, open, nread, mode, name, disk, expected>>
    BY <1>4 DEF TypeOther, Prompted, StaysClean
  <2>3. d.from = c /\ d.head = h
    BY <2>1 DEF Command
  <2>4. toServer' = Append(toServer, d)
    BY <1>4, <2>1, <2>2, <2>3, SentType DEF TypeOther
  <2>5. /\ pc'[c] = "waiting" /\ toClient'[c] = <<>>
        /\ \A e \in Clients \ {c} : /\ pc'[e] = pc[e] /\ open'[e] = open[e]
                                    /\ nread'[e] = nread[e]
    BY <1>2, <1>4, <2>2 DEF TypeOther, TypeOK
  <2>6. IsCommand(d)'
    BY <1>4, <2>3, <2>5 DEF IsCommand
  <2>7. QED
    BY <2>2, <2>3, <2>4, <2>5, <2>6, CleanTyping
<1>5. Trimmed(text, trailing) \subseteq Heads
  BY DEF Trimmed, Heads, DataHeads
<1>6. QED
  BY <1>1, <1>3, <1>4, <1>5 DEF Enter

(* A step of the server in a run that stays clean.                          *)
LEMMA CleanServerStep ==
    ASSUME TypeOK, PutsNameFiles, CleanInv, ~Doomed, ServerStep, clean'
    PROVE  CleanInv'
<1>1. CASE Bind \/ BindFails
  <2>1. /\ UNCHANGED <<toServer, toClient, pc, open, nread, name, disk, expected>>
        /\ mode # "put" /\ mode' # "put"
    BY <1>1 DEF Bind, BindFails, channelVars, clientVars
  <2>2. QED
    BY <2>1, CleanQuietStep
<1>2. CASE toServer # <<>> /\ Serve(Head(toServer))
  <2>1. PICK d : d = Head(toServer)
    OBVIOUS
  <2>2. \/ Consenting(d, "put") \/ Consenting(d, "null")
        \/ Answer(d) \/ Stop(d) \/ ListKills(d) \/ Write(d) \/ EndPut(d)
    BY <1>2, <2>1 DEF Serve, Consent, ConsentInVain, Crash, Doomed
  <2>3. QED
    BY <1>2, <2>1, <2>2, CleanConsenting, CleanReply, CleanListKills, CleanWriting, CleanEnding
<1>3. QED
  BY <1>1, <1>2 DEF ServerStep

(* Nothing makes an unclean run clean.                                      *)
LEMMA CleanBefore ==
    ASSUME TypeOK, [Next]_vars, clean'
    PROVE  clean
<1> USE DEF channelVars, clientVars, serverVars, StaysClean
<1>1. clean \in BOOLEAN
  BY DEF TypeOK
<1>2. CASE UNCHANGED vars
  BY <1>2 DEF vars
<1>3. CASE ServerStep
  <2>1. PICK d : d = Head(toServer)
    OBVIOUS
  <2>2. \/ Bind \/ BindFails \/ Consent(d) \/ ConsentInVain(d) \/ Answer(d) \/ Stop(d)
        \/ Write(d) \/ EndPut(d) \/ ListKills(d) \/ Crash(d)
    BY <1>3, <2>1 DEF ServerStep, Serve
  <2>3. QED
    BY <1>1, <2>2 DEF Bind, BindFails, Consent, ConsentInVain, Consenting, Answer, Stop,
       Write, EndPut, ListKills, Crash, Dies
<1>4. ASSUME NEW c \in Clients, ClientStep(c) \/ UserStep(c)
      PROVE  clean
  <2>1. CASE ClientStep(c)
    BY <1>1, <2>1 DEF ClientStep, GetConsent, GetAnswer, Received, SendChunk, SendEnd
  <2>2. CASE Begin(c) \/ BeginsInVain(c)
    BY <1>1, <2>2 DEF Begin, BeginsInVain
  <2>3. ASSUME NEW text, NEW trailing, Enter(c, text, trailing)
        PROVE  clean
    BY <1>1, <2>3 DEF Enter, NotFound, TypePut, TypeOther
  <2>4. QED
    BY <1>4, <2>1, <2>2, <2>3 DEF UserStep
<1>5. QED
  BY <1>2, <1>3, <1>4 DEF Next

(* Only a consent changes what is expected, by the chunks of one file.      *)
LEMMA PaddingKept ==
    ASSUME TypeOK, PutsNameFiles, PaddingIsLast, [Next]_vars
    PROVE  PaddingIsLast'
<1> USE DEF channelVars, clientVars, serverVars
<1>1. CASE UNCHANGED expected
  BY <1>1 DEF PaddingIsLast, ChunkOfFile
<1>2. ASSUME toServer # <<>>, NEW d, d = Head(toServer), NEW place, Consenting(d, place)
      PROVE  PaddingIsLast'
  <2>1. d.from \in Clients /\ d.file \in Files
    BY <1>2, HeadType DEF Consenting
  <2>2. PICK c \in Clients, f \in Files : c = d.from /\ f = d.file
    BY <2>1
  <2>3. /\ expected[f] \in Seq(Datagrams) /\ ChunksOf(c, f) \in Seq(Datagrams)
        /\ \A n \in 1 .. Len(expected[f]) : ChunkOfFile(expected[f][n], f)
        /\ \A n \in 1 .. Len(ChunksOf(c, f)) : ChunkOfFile(ChunksOf(c, f)[n], f)
    BY ChunksType DEF TypeOK, PaddingIsLast, ChunksOf, Chunk, ChunkOfFile
  <2>4. /\ expected'[f] = expected[f] \o ChunksOf(c, f)
        /\ \A g \in Files \ {f} : expected'[g] = expected[g]
    BY <1>2, <2>2 DEF Consenting, TypeOK
  <2>5. \A k \in 1 .. Len(expected'[f]) : ChunkOfFile(expected'[f][k], f)
    <3>1. PICK l \in Nat, m \in Nat : l = Len(expected[f]) /\ m = Len(ChunksOf(c, f))
      BY <2>3
    <3>2. \A k \in 1 .. l + m : k \in 1 .. l \/ (k > l /\ k - l \in 1 .. m)
      OBVIOUS
    <3>3. /\ Len(expected'[f]) = l + m
          /\ \A k \in 1 .. l + m : expected'[f][k] = IF k <= l THEN expected[f][k]
                                                     ELSE ChunksOf(c, f)[k - l]
      BY <2>3, <2>4, <3>1, ConcatElements
    <3>4. ASSUME NEW k \in 1 .. l + m
          PROVE  ChunkOfFile(expected'[f][k], f)
      <4>1. CASE k \in 1 .. l
        <5>1. expected'[f][k] = expected[f][k]
          BY <3>3, <4>1
        <5>2. QED
          BY <2>3, <3>1, <4>1, <5>1
      <4>2. CASE k > l /\ k - l \in 1 .. m
        <5>1. expected'[f][k] = ChunksOf(c, f)[k - l]
          BY <3>3, <4>2
        <5>2. QED
          BY <2>3, <3>1, <4>2, <5>1
      <4>3. QED
        BY <3>2, <4>1, <4>2
    <3>5. QED
      BY <3>3, <3>4
  <2>6. ASSUME NEW g \in Files, NEW k \in 1 .. Len(expected'[g])
        PROVE  ChunkOfFile(expected'[g][k], g)
    <3>1. CASE g = f
      BY <2>5, <2>6, <3>1
    <3>2. CASE g # f
      BY <2>4, <2>6, <3>2 DEF PaddingIsLast
    <3>3. QED
      BY <3>1, <3>2
  <2>7. QED
    BY <2>6 DEF PaddingIsLast, ChunkOfFile
<1>3. CASE ServerStep
  <2>1. PICK d : d = Head(toServer)
    OBVIOUS
  <2>2. UNCHANGED expected \/ (toServer # <<>> /\ \E place : Consenting(d, place))
    BY <1>3, <2>1 DEF ServerStep, Serve, Bind, BindFails, Consent, ConsentInVain, Answer, Stop,
       Write, EndPut, ListKills, Crash, Dies
  <2>3. QED
    BY <1>1, <1>2, <2>1, <2>2
<1>4. ASSUME NEW c \in Clients, ClientStep(c) \/ UserStep(c)
      PROVE  UNCHANGED expected
  BY <1>4 DEF ClientStep, GetConsent, GetAnswer, Received, SendChunk, SendEnd, UserStep, Begin,
     BeginsInVain, Enter, NotFound, TypePut, TypeOther
<1>5. QED
  BY <1>1, <1>3, <1>4 DEF Next, vars

LEMMA PutInvKept == PutInv /\ [Next]_vars => PutInv'
<1> SUFFICES ASSUME PutInv, [Next]_vars
             PROVE  PutInv'
  OBVIOUS
<1>1. TypeOK /\ PutsNameFiles
  BY DEF PutInv
<1>2. TypeOK' /\ PutsNameFiles'
  <2>1. CASE UNCHANGED vars
    BY <1>1, <2>1 DEF vars, channelVars, clientVars, serverVars, TypeOK, PutsNameFiles
  <2>2. QED
    BY <1>1, <2>1, ClientTypes, ServerTypes DEF Next
<1>3. ASSUME clean'
      PROVE  CleanInv'
  <2>1. CleanInv
    BY <1>1, <1>3, CleanBefore DEF PutInv
  <2> CASE Doomed
    BY <1>1, <1>3, <2>1, CleanDoomedStep
  <2> SUFFICES ASSUME ~Doomed PROVE CleanInv'
    OBVIOUS
  <2>2. CASE UNCHANGED vars
    BY <1>1, <2>1, <2>2, CleanQuietStep DEF vars, channelVars, clientVars, serverVars
  <2>3. CASE ServerStep
    BY <1>1, <1>3, <2>1, <2>3, CleanServerStep
  <2>4. ASSUME NEW c \in Clients, ClientStep(c)
        PROVE  CleanInv'
    BY <1>1, <1>3, <2>1, <2>4, CleanConsent, CleanAnswer, CleanChunk, CleanEnd
       DEF ClientStep
  <2>5. ASSUME NEW c \in Clients, Begin(c) \/ BeginsInVain(c)
        PROVE  CleanInv'
    <3>1. /\ UNCHANGED <<toServer, toClient, open, nread, mode, name, disk, expected>>
          /\ pc[c] = "start" /\ pc'[c] \in {"idle", "lost"}
          /\ \A e \in Clients \ {c} : pc'[e] = pc[e]
      BY <1>1, <2>5 DEF Begin, BeginsInVain, channelVars, serverVars, TypeOK
    <3>2. QED
      BY <1>1, <2>1, <3>1, CleanQuietStep
  <2>6. ASSUME NEW c \in Clients, NEW text \in Heads \cup {"blank"},
               NEW trailing \in BOOLEAN, Enter(c, text, trailing)
        PROVE  CleanInv'
    BY <1>1, <1>3, <2>1, <2>6, CleanLine
  <2>7. QED
    BY <2>2, <2>3, <2>4, <2>5, <2>6 DEF Next, UserStep
<1>4. PaddingIsLast'
  BY <1>1, PaddingKept DEF PutInv
<1>5. QED
  BY <1>2, <1>3, <1>4 DEF PutInv

(* The inductive invariant holds: types, and the shape of what is in the    *)
(* sockets of a clean run.                                                  *)
THEOREM PutInvHolds == Spec => []PutInv
<1>1. Init => PutInv
  BY PutInit
<1>2. PutInv /\ [Next]_vars => PutInv'
  BY PutInvKept
<1>3. QED
  BY <1>1, <1>2, PTL DEF Spec

(* Every variable of both programs holds what the code can put there; the   *)
(* server has a file open just while it is in its inner loop.               *)
THEOREM PutTypeCorrect == Spec => []TypeOK
<1>1. PutInv => TypeOK
  BY DEF PutInv
<1>2. QED
  BY <1>1, PutInvHolds, PTL

(* A put in an undisturbed run writes the whole file, nothing before its    *)
(* end and nothing of anybody else's, by the order of the datagrams alone.  *)
THEOREM CleanPutsArrive == Spec => []CleanPutsAreWhole
<1>1. ASSUME PutInv, clean, NEW f \in Files
      PROVE  /\ IsPrefix(disk[f], expected[f])
             /\ name = f \/ disk[f] = expected[f]
             /\ \A k \in 1 .. Len(disk[f]) : ChunkOfFile(disk[f][k], f)
  <2>1. disk[f] \in Seq(Datagrams) /\ expected[f] \in Seq(Datagrams)
    BY <1>1 DEF PutInv, TypeOK
  <2>2. /\ Len(disk[f]) <= Len(expected[f])
        /\ \A j \in 1 .. Len(disk[f]) : disk[f][j] = expected[f][j]
        /\ name = f \/ disk[f] = expected[f]
    BY <1>1 DEF PutInv, CleanInv, DiskFollows
  <2>3. PICK n \in Nat : n = Len(disk[f])
    BY <2>1
  <2>4. SubSeq(expected[f], 1, n) \in Seq(Datagrams) /\ Len(SubSeq(expected[f], 1, n)) = n
        /\ \A j \in 1 .. n : SubSeq(expected[f], 1, n)[j] = expected[f][j]
    BY <2>1, <2>2, <2>3
  <2>5. SubSeq(expected[f], 1, n) = disk[f]
    BY <2>1, <2>2, <2>3, <2>4, SameElements
  <2>6. SubSeq(disk[f], 1, n) \in Seq(Datagrams) /\ Len(SubSeq(disk[f], 1, n)) = n
        /\ \A j \in 1 .. n : SubSeq(disk[f], 1, n)[j] = disk[f][j]
    BY <2>1, <2>3
  <2>7. SubSeq(disk[f], 1, n) = disk[f]
    BY <2>1, <2>3, <2>6, SameElements
  <2>8. \A k \in 1 .. Len(disk[f]) : ChunkOfFile(disk[f][k], f)
    <3>1. \A k \in 1 .. Len(disk[f]) : k \in 1 .. Len(expected[f])
      BY <2>1, <2>2
    <3>2. QED
      BY <1>1, <2>2, <3>1 DEF PutInv, PaddingIsLast
  <2>9. QED
    BY <2>2, <2>3, <2>5, <2>7, <2>8 DEF IsPrefix
<1>2. PutInv => CleanPutsAreWhole
  BY <1>1 DEF CleanPutsAreWhole, ChunkOfFile
<1>3. QED
  BY <1>2, PutInvHolds, PTL

(* In an undisturbed run a client that prompts has no old answer in its     *)
(* socket: what it reads next answers what is typed next.                   *)
THEOREM AnswersStayFresh == Spec => []CleanAnswersAreNotStale
<1>1. PutInv => CleanAnswersAreNotStale
  BY DEF PutInv, CleanInv, AnswersAwaited, CleanAnswersAreNotStale
<1>2. QED
  BY <1>1, PutInvHolds, PTL
=============================================================================
