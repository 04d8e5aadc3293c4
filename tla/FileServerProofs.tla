--------------------------- MODULE FileServerProofs ---------------------------
(***************************************************************************)
(* Proofs about the coordinator, for any number of clients, slots, files   *)
(* and names, and any buffer size.                                         *)
(*                                                                         *)
(* That a slot speaks for the client its socket leads to needs, besides    *)
(* the slots themselves: that descriptors and slots correspond             *)
(* (Descriptors), what the frames still to be received say (FramesTrue),   *)
(* and which replies are still to be sent, on descriptors that are open    *)
(* until they are (Program, TodoTrue).                                     *)
(***************************************************************************)
EXTENDS FileServer, SeqLemmas, TLAPS

(* No client is reached through two descriptors, or waits to be accepted    *)
(* when it already is.                                                      *)
OnePlacePerClient ==
    /\ \A f, g \in Fds : fdTable[f] = fdTable[g] /\ f # g => fdTable[f] = NoClient
    /\ \A f \in Fds, k \in 1 .. Len(backlog) : backlog[k] # fdTable[f]
    /\ \A k, l \in 1 .. Len(backlog) : backlog[k] = backlog[l] => k = l

(* A client that has not connected is nowhere in the server.                *)
StartedNowhere ==
    \A c \in Clients : phase[c] = "start" =>
        /\ \A f \in Fds : fdTable[f] # c
        /\ \A k \in 1 .. Len(backlog) : backlog[k] # c

Descriptors == SocketsMatchSlots /\ OnePlacePerClient /\ StartedNowhere

(* What each place in the server's loop goes with.                          *)
Program ==
    /\ spc = "accept" => backlog # <<>> /\ readfds \subseteq Watched
    /\ spc = "send" <=> todo # <<>>
    /\ \A k \in 1 .. Len(todo) : fdTable[todo[k].fd] # NoClient

(* Frames on their way bear the sender's own name and files.                *)
FramesTrue ==
    \A c \in Clients : \A k \in 1 .. Len(toSrv[c]) :
        /\ toSrv[c][k].cmd = "name" => toSrv[c][k].name = NameOf[c]
        /\ toSrv[c][k].cmd = "sendmyfileslist" => toSrv[c][k].files \subseteq shared[c]

(* A request about to be sent to a client is for a file it announced.       *)
TodoTrue ==
    \A k \in 1 .. Len(todo) :
        todo[k].msg.cmd = "get" => todo[k].msg.file \in shared[fdTable[todo[k].fd]]

Contents == FramesTrue /\ SlotHoldsOwnData /\ TodoTrue /\ GetReachesAnnouncer

(* The inductive invariant.                                                 *)
ServerInv == TypeOK /\ Descriptors /\ Program /\ Contents /\ ReadyBitsStayTrue

-----------------------------------------------------------------------------
(* Types of the pieces.                                                     *)

(* What each kind of frame carries.                                         *)
LEMMA RequestFields ==
    ASSUME NEW r \in Requests
    PROVE  /\ r.cmd = "name" => r.name \in Names
           /\ r.cmd = "sendmyfileslist" => r.files \in SUBSET Files
           /\ r.cmd = "get" => r.file \in Files
BY DEF Requests

(* The table the server makes of its slots.                                 *)
LEMMA TableType ==
    ASSUME NEW slots \in [Slots -> SlotSet]
    PROVE  Table(slots) \in Tables
<1>1. ASSUME NEW i \in Slots
      PROVE  {<<slots[i].name, f>> : f \in slots[i].files} \subseteq (Names \cup {NoName}) \X Files
  BY DEF SlotSet
<1>2. QED
  BY <1>1 DEF Table, Tables

(* A frame that a client's blocking send() lets through.                    *)
LEMMA ClientSendType ==
    ASSUME TypeOK, NEW c \in Clients, NEW frame \in Requests, ClientSend(c, frame)
    PROVE  /\ toSrv' \in [Clients -> Seq(Requests)]
           /\ toSrv' = [toSrv EXCEPT ![c] = Append(@, frame)] \/ toSrv' = toSrv
<1>1. toSrv \in [Clients -> Seq(Requests)]
  BY DEF TypeOK
<1>2. Append(toSrv[c], frame) \in Seq(Requests)
  BY <1>1, AppendElements
<1>3. QED
  BY <1>1, <1>2 DEF ClientSend

(* A message that the server's blocking send() lets through.                *)
LEMMA SendType ==
    ASSUME TypeOK, NEW c \in Clients, NEW msg \in Replies, Send(c, msg)
    PROVE  /\ toCli' \in [Clients -> Seq(Replies)]
           /\ conn' \in [Clients -> {"none", "open", "fin", "rst", "broken", "closed"}]
           /\ toCli' = [toCli EXCEPT ![c] = Append(@, msg)] \/ toCli' = toCli
<1>1. /\ toCli \in [Clients -> Seq(Replies)]
      /\ conn \in [Clients -> {"none", "open", "fin", "rst", "broken", "closed"}]
  BY DEF TypeOK
<1>2. Append(toCli[c], msg) \in Seq(Replies)
  BY <1>1, AppendElements
<1>3. QED
  BY <1>1, <1>2 DEF Send

(* The server's slots and descriptors are there, and lead to clients.       *)
LEMMA PeerType ==
    ASSUME TypeOK, SocketsMatchSlots, NEW i \in Valid
    PROVE  /\ i \in Slots
           /\ clientArray[i].sock \in Fds
           /\ Peer(i) \in Clients
<1>1. i \in Slots /\ clientArray[i].sock \in {fd \in Fds : fdTable[fd] # NoClient}
  BY DEF Valid, SocketsMatchSlots
<1>2. QED
  BY <1>1 DEF TypeOK, Peer

(* getCommand() finds the slot connection() was called for.                 *)
LEMMA FindIndexFinds ==
    ASSUME TypeOK, SocketsMatchSlots, NEW i \in Valid
    PROVE  FindIndex(i) = i
<1>1. {k \in Valid : clientArray[k].sock = clientArray[i].sock} = {i}
  BY DEF SocketsMatchSlots
<1>2. i \in Int
  BY SlotsAssumption DEF Valid, Slots
<1>3. \A j \in Valid : IsFirst(j, {i}) <=> j = i
  BY <1>2 DEF IsFirst
<1>4. QED
  BY <1>1, <1>3 DEF FindIndex

-----------------------------------------------------------------------------
(* Type correctness, action by action.                                      *)

(* A client sends no more than it may.                                      *)
SendsType == sends \in [Clients -> Nat] /\ \A c \in Clients : sends[c] <= MaxSends[c]

LEMMA MaySendType ==
    ASSUME TypeOK, NEW c \in Clients, MaySend(c)
    PROVE  SendsType'
<1>1. MaxSends[c] \in Nat /\ sends[c] \in Nat
  BY SendsAssumption DEF TypeOK
<1>2. sends' = [sends EXCEPT ![c] = @ + 1] /\ sends[c] + 1 <= MaxSends[c]
  BY <1>1 DEF MaySend
<1>3. QED
  BY <1>1, <1>2 DEF TypeOK, SendsType

(* A client that leaves has sent nothing.                                   *)
LEMMA ForgetType ==
    ASSUME TypeOK, NEW c \in Clients, sends' = [sends EXCEPT ![c] = 0]
    PROVE  SendsType'
<1>1. sends' \in [Clients -> Nat]
  BY DEF TypeOK
<1>2. ASSUME NEW d \in Clients
      PROVE  sends'[d] <= MaxSends[d]
  <2>1. CASE d = c
    <3>1. sends'[d] = 0
      BY <2>1 DEF TypeOK
    <3>2. MaxSends[d] \in Nat
      BY SendsAssumption
    <3>3. QED
      BY <3>1, <3>2
  <2>2. CASE d # c
    <3>1. sends'[d] = sends[d]
      BY <2>2 DEF TypeOK
    <3>2. QED
      BY <3>1 DEF TypeOK
  <2>3. QED
    BY <2>1, <2>2
<1>3. QED
  BY <1>1, <1>2 DEF SendsType

(* What the clients do keeps the types.                                     *)
LEMMA ClientTypes ==
    ASSUME TypeOK, NEW c \in Clients, ClientProgress(c) \/ UserStep(c)
    PROVE  TypeOK'
<1> USE DEF serverVars, tcpVars, clientVars
<1>1. CASE Connect(c)
  <2>1. Append(backlog, c) \in Seq(Clients)
    BY AppendElements DEF TypeOK
  <2>2. QED
    BY <1>1, <2>1 DEF TypeOK, Connect
<1>2. CASE SendName(c)
  <2>1. [cmd |-> "name", name |-> NameOf[c]] \in Requests
    BY NamesAssumption DEF Requests
  <2>2. toSrv' \in [Clients -> Seq(Requests)]
    BY <1>2, <2>1, ClientSendType DEF SendName
  <2>3. QED
    BY <1>2, <2>2 DEF TypeOK, SendName
<1>3. CASE FirstFileList(c) \/ AlarmSends(c)
  <2>1. PICK files \in SUBSET Files :
            /\ ClientSend(c, [cmd |-> "sendmyfileslist", files |-> files])
            /\ shared' = [shared EXCEPT ![c] = @ \cup files]
    BY <1>3 DEF FirstFileList, AlarmSends
  <2>2. [cmd |-> "sendmyfileslist", files |-> files] \in Requests
    BY DEF Requests
  <2>3. toSrv' \in [Clients -> Seq(Requests)]
    BY <2>1, <2>2, ClientSendType
  <2>4. shared' \in [Clients -> SUBSET Files]
    BY <2>1 DEF TypeOK
  <2>5. QED
    BY <1>3, <2>3, <2>4 DEF TypeOK, FirstFileList, AlarmSends
<1>4. ASSUME NEW frame \in Requests, Command(c, frame), shared' \in [Clients -> SUBSET Files]
      PROVE  TypeOK'
  <2>1. toSrv' \in [Clients -> Seq(Requests)]
    BY <1>4, ClientSendType DEF Command
  <2>2. SendsType'
    BY <1>4, MaySendType DEF Command
  <2>3. QED
    BY <1>4, <2>1, <2>2 DEF TypeOK, SendsType, Command
<1>5. CASE AskList(c)
  <2>1. [cmd |-> "list"] \in Requests
    BY DEF Requests
  <2>2. QED
    BY <1>4, <1>5, <2>1 DEF AskList, TypeOK
<1>6. CASE AskFile(c)
  <2>1. PICK f \in Files : Command(c, [cmd |-> "get", file |-> f])
    BY <1>6 DEF AskFile
  <2>2. [cmd |-> "get", file |-> f] \in Requests
    BY DEF Requests
  <2>3. shared' \in [Clients -> SUBSET Files]
    BY <1>6 DEF AskFile, TypeOK
  <2>4. QED
    BY <1>4, <2>1, <2>2, <2>3
<1>7. CASE SendFiles(c)
  <2>1. PICK files \in SUBSET Files :
            /\ Command(c, [cmd |-> "sendmyfileslist", files |-> files])
            /\ shared' = [shared EXCEPT ![c] = @ \cup files]
    BY <1>7 DEF SendFiles
  <2>2. [cmd |-> "sendmyfileslist", files |-> files] \in Requests
    BY DEF Requests
  <2>3. shared' \in [Clients -> SUBSET Files]
    BY <2>1 DEF TypeOK
  <2>4. QED
    BY <1>4, <2>1, <2>2, <2>3
<1>8. CASE SayExit(c)
  <2>1. [cmd |-> "exit"] \in Requests
    BY DEF Requests
  <2>2. QED
    BY <1>4, <1>8, <2>1 DEF SayExit, TypeOK
<1>9. CASE ClientReceive(c)
  <2>1. Tail(toCli[c]) \in Seq(Replies) /\ Head(toCli[c]) \in Replies
    BY <1>9, TailElements DEF TypeOK, ClientReceive
  <2>2. Head(toCli[c]).cmd = "list" => Head(toCli[c]).table \in Tables
    BY <2>1 DEF Replies
  <2>3. seen' \in [Clients -> Tables]
    BY <1>9, <2>2 DEF TypeOK, ClientReceive
  <2>4. QED
    BY <1>9, <2>1, <2>3 DEF TypeOK, ClientReceive
<1>10. CASE ServerGone(c)
  <2>1. NoTable \in Tables
    BY DEF NoTable, Tables
  <2>2. SendsType'
    BY <1>10, ForgetType DEF ServerGone, Forget
  <2>3. QED
    BY <1>10, <2>1, <2>2 DEF TypeOK, SendsType, ServerGone, Forget
<1>11. CASE Leave(c)
  <2>1. NoTable \in Tables
    BY DEF NoTable, Tables
  <2>2. conn' \in [Clients -> {"none", "open", "fin", "rst", "broken", "closed"}]
    BY <1>11 DEF TypeOK, Leave
  <2>3. /\ toCli' \in [Clients -> Seq(Replies)]
        /\ phase' \in [Clients -> {"start", "connected", "named", "ready", "alarm", "gone"}]
        /\ seen' \in [Clients -> Tables]
    BY <1>11, <2>1 DEF TypeOK, Leave, Forget
  <2>4. SendsType'
    BY <1>11, ForgetType DEF Leave, Forget
  <2>5. UNCHANGED <<serverVars, toSrv, shared>>
    BY <1>11 DEF Leave
  <2>6. QED
    BY <2>2, <2>3, <2>4, <2>5 DEF TypeOK, SendsType
<1>12. CASE ConnectFails(c)
  BY <1>12 DEF TypeOK, ConnectFails
<1>13. CASE AlarmRings(c)
  <2>1. SendsType'
    BY <1>13, MaySendType DEF AlarmRings
  <2>2. QED
    BY <1>13, <2>1 DEF TypeOK, SendsType, AlarmRings
<1>14. QED
  BY <1>1, <1>2, <1>3, <1>5, <1>6, <1>7, <1>8, <1>9, <1>10, <1>11, <1>12, <1>13
     DEF ClientProgress, UserStep

(* The loop over the slots calls connection() for a slot that is valid,     *)
(* with a socket that leads to a client.                                    *)
LEMMA ServedSlot ==
    ASSUME TypeOK, SocketsMatchSlots, NEW i, Serve(i)
    PROVE  /\ i \in Valid /\ i \in Slots /\ i \in Int /\ i + 1 \in 0 .. NumSlots
           /\ clientArray[i].sock \in Fds
           /\ Peer(i) \in Clients
           /\ FindIndex(i) = i
<1>1. i \in Valid
  BY DEF Serve, IsFirst, Pending
<1>2. i \in Slots
  BY <1>1 DEF Valid
<1>3. QED
  BY <1>1, <1>2, PeerType, FindIndexFinds, SlotsAssumption DEF Slots

(* A frame that was received has left the queue; what it was keeps its type.*)
LEMMA ConsumedType ==
    ASSUME TypeOK, SocketsMatchSlots, NEW i, Serve(i), toSrv[Peer(i)] # <<>>
    PROVE  /\ Frame(i) \in Requests
           /\ Consumed(i) => /\ toSrv' \in [Clients -> Seq(Requests)]
                             /\ idx' \in 0 .. NumSlots
<1>1. Peer(i) \in Clients /\ i + 1 \in 0 .. NumSlots
  BY ServedSlot
<1>2. toSrv \in [Clients -> Seq(Requests)]
  BY DEF TypeOK
<1>3. Head(toSrv[Peer(i)]) \in Requests /\ Tail(toSrv[Peer(i)]) \in Seq(Requests)
  BY <1>1, <1>2, TailElements
<1>4. QED
  BY <1>1, <1>2, <1>3 DEF Consumed, Frame

(* A reply on the socket of a slot, waiting to be sent.                     *)
LEMMA ReplyType ==
    ASSUME TypeOK, SocketsMatchSlots, NEW i \in Valid, NEW msg \in Replies
    PROVE  Reply(i, msg) \in Seq([fd : Fds, msg : Replies])
<1>1. [fd |-> clientArray[i].sock, msg |-> msg] \in [fd : Fds, msg : Replies]
  BY PeerType
<1>2. QED
  BY <1>1 DEF Reply

(* The server after a signal.                                               *)
LEMMA DieTypes ==
    ASSUME TypeOK, NEW cause \in {"segv", "sigpipe"}, Die(cause)
    PROVE  TypeOK'
<1>1. EmptySlot \in SlotSet
  BY DEF EmptySlot, SlotSet
<1>2. clientArray' \in [Slots -> SlotSet] /\ fdTable' \in [Fds -> Clients \cup {NoClient}]
  BY <1>1 DEF Die, NoSlots, NoFds
<1>3. /\ conn' \in [Clients -> {"none", "open", "fin", "rst", "broken", "closed"}]
      /\ toSrv' \in [Clients -> Seq(Requests)]
  BY DEF Die
<1>4. idx' \in 0 .. NumSlots /\ pos' \in 0 .. NumSlots
  BY SlotsAssumption DEF Die
<1>5. QED
  BY <1>2, <1>3, <1>4 DEF TypeOK, Die, clientVars

(* What manageGet() decides to send.                                        *)
LEMMA ManageGetType ==
    ASSUME TypeOK, SocketsMatchSlots, NEW i \in Valid, NEW f \in Files,
           ManageGet(i, f)
    PROVE  todo' \in Seq([fd : Fds, msg : Replies])
<1>1. /\ \A cmd \in {"get", "own", "none"} : [cmd |-> cmd, file |-> f] \in Replies
      /\ \A c \in Clients : [cmd |-> "ip", owner |-> c] \in Replies
  BY DEF Replies
<1>2. CASE NotShared(i, f)
  BY <1>1, <1>2, ReplyType DEF NotShared
<1>3. ASSUME NEW k \in Slots, IsFirst(k, Owners(f)), OwnFile(i, k, f) \/ Route(i, k, f)
      PROVE  todo' \in Seq([fd : Fds, msg : Replies])
  <2>1. k \in Valid
    BY <1>3 DEF IsFirst, Owners
  <2>2. Peer(k) \in Clients
    BY <2>1, PeerType
  <2>3. /\ Reply(i, [cmd |-> "own", file |-> f]) \in Seq([fd : Fds, msg : Replies])
        /\ Reply(k, [cmd |-> "get", file |-> f]) \in Seq([fd : Fds, msg : Replies])
        /\ Reply(i, [cmd |-> "ip", owner |-> Peer(k)]) \in Seq([fd : Fds, msg : Replies])
    BY <1>1, <2>1, <2>2, ReplyType
  <2>4. CASE OwnFile(i, k, f)
    BY <2>3, <2>4 DEF OwnFile
  <2>5. CASE Route(i, k, f)
    BY <2>3, <2>5 DEF Route
  <2>6. QED
    BY <1>3, <2>4, <2>5
<1>4. QED
  BY <1>2, <1>3 DEF ManageGet

(* Every command the server handles keeps the types.                        *)
LEMMA ConnectionTypes ==
    ASSUME TypeOK, SocketsMatchSlots, NEW i \in Slots, Connection(i)
    PROVE  TypeOK'
<1> USE DEF clientVars
<1>1. Serve(i)
  BY DEF Connection, HandleName, HandleFiles, HandleFilesCrash, HandleList,
         HandleListCrash, HandleExit, HandleGet, HandleEof, HandleReset, Receive
<1>2. /\ i \in Valid /\ clientArray[i].sock \in Fds /\ Peer(i) \in Clients
      /\ FindIndex(i) = i /\ i + 1 \in 0 .. NumSlots
  BY <1>1, ServedSlot
<1>3. ASSUME NEW cmd, Receive(i, cmd)
      PROVE  /\ Frame(i) \in Requests /\ Frame(i).cmd = cmd
             /\ Consumed(i) => toSrv' \in [Clients -> Seq(Requests)] /\ idx' \in 0 .. NumSlots
  BY <1>1, <1>3, ConsumedType DEF Receive, Frame
<1>4. clientArray \in [Slots -> SlotSet] /\ 0 \in 0 .. NumSlots
  BY SlotsAssumption DEF TypeOK
<1>5. Freed(i) \in [Slots -> SlotSet]
  BY <1>2, <1>4 DEF Freed, SlotSet
<1>6. CASE HandleName(i)
  <2>1. Receive(i, "name") /\ Consumed(i)
    BY <1>6 DEF HandleName
  <2>2. Frame(i).name \in Names
    BY <1>3, <2>1, RequestFields
  <2>3. clientArray' \in [Slots -> SlotSet]
    BY <1>2, <1>4, <1>6, <2>2 DEF HandleName, SlotSet
  <2>4. QED
    BY <1>3, <1>6, <2>1, <2>3 DEF TypeOK, HandleName
<1>7. CASE HandleFiles(i)
  <2>1. Receive(i, "sendmyfileslist") /\ Consumed(i)
    BY <1>7 DEF HandleFiles
  <2>2. Frame(i).files \in SUBSET Files
    BY <1>3, <2>1, RequestFields
  <2>3. clientArray' \in [Slots -> SlotSet]
    BY <1>2, <1>4, <1>7, <2>2 DEF HandleFiles, Stored, SlotSet
  <2>4. QED
    BY <1>3, <1>4, <1>7, <2>1, <2>3 DEF TypeOK, HandleFiles, StartPush
<1>8. CASE HandleFilesCrash(i) \/ HandleListCrash(i)
  BY <1>8, DieTypes DEF HandleFilesCrash, HandleListCrash
<1>9. CASE HandleList(i)
  <2>1. Receive(i, "list") /\ Consumed(i)
    BY <1>9 DEF HandleList
  <2>2. ListMessage \in Replies
    BY <1>4, TableType DEF ListMessage, Replies
  <2>3. todo' \in Seq([fd : Fds, msg : Replies])
    BY <1>2, <1>9, <2>2, ReplyType DEF HandleList
  <2>4. QED
    BY <1>3, <1>9, <2>1, <2>3 DEF TypeOK, HandleList
<1>10. CASE HandleExit(i)
  <2>1. /\ conn' \in [Clients -> {"none", "open", "fin", "rst", "broken", "closed"}]
        /\ toSrv' \in [Clients -> Seq(Requests)]
        /\ fdTable' \in [Fds -> Clients \cup {NoClient}]
    BY <1>2, <1>10 DEF TypeOK, HandleExit, Closed
  <2>2. QED
    BY <1>2, <1>5, <1>10, <2>1 DEF TypeOK, HandleExit
<1>11. CASE HandleGet(i)
  <2>1. Receive(i, "get") /\ Consumed(i) /\ ManageGet(i, Frame(i).file)
    BY <1>2, <1>11 DEF HandleGet
  <2>2. Frame(i).file \in Files
    BY <1>3, <2>1, RequestFields
  <2>3. todo' \in Seq([fd : Fds, msg : Replies])
    BY <1>2, <2>1, <2>2, ManageGetType
  <2>4. QED
    BY <1>3, <1>11, <2>1, <2>3 DEF TypeOK, HandleGet
<1>12. CASE HandleEof(i)
  <2>1. /\ conn' \in [Clients -> {"none", "open", "fin", "rst", "broken", "closed"}]
        /\ toSrv' \in [Clients -> Seq(Requests)]
        /\ fdTable' \in [Fds -> Clients \cup {NoClient}]
    BY <1>2, <1>12 DEF TypeOK, HandleEof, Closed
  <2>2. QED
    BY <1>2, <1>4, <1>5, <1>12, <2>1 DEF TypeOK, HandleEof, StartPush
<1>13. CASE HandleReset(i)
  BY <1>2, <1>13 DEF TypeOK, HandleReset
<1>14. QED
  BY <1>6, <1>7, <1>8, <1>9, <1>10, <1>11, <1>12, <1>13 DEF Connection

(* The rest of the server's loop keeps the types.                           *)
LEMMA ServerTypes ==
    ASSUME TypeOK, SocketsMatchSlots, Program, ServerStep
    PROVE  TypeOK'
<1> USE DEF clientVars, tcpVars
<1>1. clientArray \in [Slots -> SlotSet] /\ 0 \in 0 .. NumSlots
  BY SlotsAssumption DEF TypeOK
<1>2. CASE Select
  <2>1. readfds' \subseteq Fds
    <3>1. \A i \in Valid : clientArray[i].sock \in Fds
      BY PeerType
    <3>2. QED
      BY <1>2, <3>1 DEF Select, Ready, Watched
  <2>2. QED
    BY <1>2, <2>1 DEF TypeOK, Select
<1>3. CASE AcceptConnection
  <2>1. backlog # <<>>
    BY <1>3 DEF Program, AcceptConnection
  <2>2. Head(backlog) \in Clients /\ Tail(backlog) \in Seq(Clients)
    BY <2>1, TailElements DEF TypeOK
  <2>3. PICK i \in Slots, fd \in Fds :
            /\ clientArray' = [clientArray EXCEPT ![i] = NewSlot(i, fd)]
            /\ fdTable' = [fdTable EXCEPT ![fd] = Head(backlog)]
    BY <1>3 DEF AcceptConnection
  <2>4. NewSlot(i, fd) \in SlotSet
    BY DEF NewSlot, EmptySlot, SlotSet
  <2>5. QED
    BY <1>1, <1>3, <2>2, <2>3, <2>4 DEF TypeOK, AcceptConnection
<1>4. CASE TurnAway
  <2>1. backlog # <<>>
    BY <1>4 DEF Program, TurnAway
  <2>2. Head(backlog) \in Clients /\ Tail(backlog) \in Seq(Clients)
    BY <2>1, TailElements DEF TypeOK
  <2>3. [cmd |-> "full"] \in Replies
    BY DEF Replies
  <2>4. Append(toCli[Head(backlog)], [cmd |-> "full"]) \in Seq(Replies)
    BY <2>2, <2>3, AppendElements DEF TypeOK
  <2>5. toCli' \in [Clients -> Seq(Replies)]
    BY <1>4, <2>2, <2>4 DEF TypeOK, TurnAway
  <2>6. /\ conn' \in [Clients -> {"none", "open", "fin", "rst", "broken", "closed"}]
        /\ toSrv' \in [Clients -> Seq(Requests)]
    BY <1>4, <2>2 DEF TypeOK, TurnAway, Closed
  <2>7. QED
    BY <1>4, <2>2, <2>5, <2>6 DEF TypeOK, TurnAway
<1>5. CASE ScanDone
  BY <1>1, <1>5 DEF TypeOK, ScanDone
<1>6. ASSUME NEW i \in Slots, Connection(i)
      PROVE  TypeOK'
  BY <1>6, ConnectionTypes
<1>7. ASSUME NEW i \in Slots, PushList(i)
      PROVE  TypeOK'
  <2>1. i \in Valid /\ i + 1 \in 0 .. NumSlots
    BY <1>7, SlotsAssumption DEF PushList, IsFirst, Pushable, Slots
  <2>2. ListMessage \in Replies
    BY <1>1, TableType DEF ListMessage, Replies
  <2>3. /\ toCli' \in [Clients -> Seq(Replies)]
        /\ conn' \in [Clients -> {"none", "open", "fin", "rst", "broken", "closed"}]
    BY <1>7, <2>1, <2>2, PeerType, SendType DEF PushList
  <2>4. QED
    BY <1>7, <2>1, <2>3 DEF TypeOK, PushList
<1>8. ASSUME NEW i \in Slots, PushSigpipe(i)
      PROVE  TypeOK'
  BY <1>8, DieTypes DEF PushSigpipe
<1>9. CASE PushCrash \/ SendSigpipe
  BY <1>9, DieTypes DEF PushCrash, SendSigpipe
<1>10. CASE PushDone
  BY <1>1, <1>10 DEF TypeOK, PushDone
<1>11. CASE SendReply
  <2>1. todo # <<>>
    BY <1>11 DEF Program, SendReply
  <2>2. /\ Head(todo) \in [fd : Fds, msg : Replies]
        /\ Tail(todo) \in Seq([fd : Fds, msg : Replies])
        /\ 1 \in 1 .. Len(todo) /\ Head(todo) = todo[1]
    BY <2>1, TailElements DEF TypeOK
  <2>3. fdTable[Head(todo).fd] \in Clients
    BY <2>2 DEF TypeOK, Program
  <2>4. /\ toCli' \in [Clients -> Seq(Replies)]
        /\ conn' \in [Clients -> {"none", "open", "fin", "rst", "broken", "closed"}]
    BY <1>11, <2>2, <2>3, SendType DEF SendReply
  <2>5. QED
    BY <1>11, <2>2, <2>4 DEF TypeOK, SendReply
<1>12. CASE Start \/ StartFails
  BY <1>12 DEF TypeOK, Start, StartFails
<1>13. QED
  BY <1>2, <1>3, <1>4, <1>5, <1>6, <1>7, <1>8, <1>9, <1>10, <1>11, <1>12 DEF ServerStep

-----------------------------------------------------------------------------
(* Slots, descriptors and the backlog.                                      *)

(* The correspondence depends on validity and sockets only.                 *)
LEMMA SameSockets ==
    ASSUME SocketsMatchSlots, UNCHANGED fdTable,
           \A j \in Slots : /\ clientArray'[j].valid = clientArray[j].valid
                            /\ clientArray'[j].sock = clientArray[j].sock
    PROVE  SocketsMatchSlots' /\ Valid' = Valid
<1>1. Valid' = Valid
  BY DEF Valid
<1>2. \A j \in Valid : clientArray'[j].sock = clientArray[j].sock
  BY DEF Valid
<1>3. {clientArray'[j].sock : j \in Valid} = {clientArray[j].sock : j \in Valid}
  BY <1>2
<1>4. QED
  BY <1>1, <1>2, <1>3 DEF SocketsMatchSlots

(* accept() gives a free descriptor to a free slot.                         *)
LEMMA AcceptDescriptors ==
    ASSUME TypeOK, Descriptors, Program, AcceptConnection
    PROVE  SocketsMatchSlots' /\ OnePlacePerClient'
<1> DEFINE c == Head(backlog)
<1>1. PICK i \in Slots, fd \in Fds :
          /\ i \notin Valid
          /\ fdTable[fd] = NoClient
          /\ clientArray' = [clientArray EXCEPT ![i] = NewSlot(i, fd)]
          /\ fdTable' = [fdTable EXCEPT ![fd] = c]
  BY DEF AcceptConnection, IsFirst, FreeFds
<1>2. backlog # <<>> /\ backlog' = Tail(backlog)
  BY DEF Program, AcceptConnection
<1>3. /\ c \in Clients /\ 1 \in 1 .. Len(backlog) /\ c = backlog[1]
      /\ \A k \in 1 .. Len(backlog') :
            k + 1 \in 1 .. Len(backlog) /\ backlog'[k] = backlog[k + 1]
  BY <1>2, TailElements DEF TypeOK
<1>4. c # NoClient
  BY <1>3, NoClientAssumption
<1>5. clientArray'[i].valid /\ clientArray'[i].sock = fd
  BY <1>1 DEF TypeOK, NewSlot, EmptySlot
<1>6. \A j \in Slots \ {i} : clientArray'[j] = clientArray[j]
  BY <1>1 DEF TypeOK
<1>7. Valid' = Valid \cup {i}
  BY <1>5, <1>6 DEF Valid
<1>8. \A j \in Valid : /\ clientArray'[j].sock = clientArray[j].sock
                       /\ clientArray[j].sock # fd
  BY <1>1, <1>6 DEF Valid, Descriptors, SocketsMatchSlots
<1>9. SocketsMatchSlots'
  <2>1. \A j, k \in Valid' : clientArray'[j].sock = clientArray'[k].sock => j = k
    BY <1>5, <1>7, <1>8 DEF Descriptors, SocketsMatchSlots
  <2>2. {clientArray'[j].sock : j \in Valid'} = {clientArray[j].sock : j \in Valid} \cup {fd}
    BY <1>5, <1>7, <1>8
  <2>3. {f \in Fds : fdTable'[f] # NoClient} = {f \in Fds : fdTable[f] # NoClient} \cup {fd}
    BY <1>1, <1>4 DEF TypeOK
  <2>4. QED
    BY <2>1, <2>2, <2>3 DEF Descriptors, SocketsMatchSlots
<1>10. OnePlacePerClient'
  <2>1. \A f \in Fds : fdTable'[f] = IF f = fd THEN c ELSE fdTable[f]
    BY <1>1 DEF TypeOK
  <2>2. \A f \in Fds : fdTable[f] # c
    BY <1>3 DEF Descriptors, OnePlacePerClient
  <2>3. \A k \in 1 .. Len(backlog') : backlog'[k] # c
    BY <1>3 DEF Descriptors, OnePlacePerClient, TypeOK
  <2>4. \A k, l \in 1 .. Len(backlog') : backlog'[k] = backlog'[l] => k = l
    BY <1>3 DEF Descriptors, OnePlacePerClient, TypeOK
  <2>5. \A f \in Fds, k \in 1 .. Len(backlog') : backlog'[k] # fdTable'[f]
    BY <1>3, <2>1, <2>3 DEF Descriptors, OnePlacePerClient
  <2>6. \A f, g \in Fds : fdTable'[f] = fdTable'[g] /\ f # g => fdTable'[f] = NoClient
    BY <2>1, <2>2 DEF Descriptors, OnePlacePerClient
  <2>7. QED
    BY <2>4, <2>5, <2>6 DEF OnePlacePerClient
<1>11. QED
  BY <1>9, <1>10

(* Freeing a slot closes its descriptor and no other.                       *)
LEMMA FreeDescriptors ==
    ASSUME TypeOK, Descriptors, NEW i \in Valid, UNCHANGED backlog,
           clientArray' = Freed(i),
           fdTable' = [fdTable EXCEPT ![clientArray[i].sock] = NoClient]
    PROVE  /\ Valid' = Valid \ {i}
           /\ \A j \in Slots \ {i} : clientArray'[j] = clientArray[j]
           /\ SocketsMatchSlots' /\ OnePlacePerClient'
<1> DEFINE fd == clientArray[i].sock
<1>1. i \in Slots /\ fd \in Fds /\ FindIndex(i) = i
  BY PeerType, FindIndexFinds DEF Descriptors
<1>2. ~clientArray'[i].valid /\ \A j \in Slots \ {i} : clientArray'[j] = clientArray[j]
  BY <1>1 DEF Freed, TypeOK, SlotSet
<1>3. Valid' = Valid \ {i}
  BY <1>2 DEF Valid
<1>4. \A f \in Fds : fdTable'[f] = IF f = fd THEN NoClient ELSE fdTable[f]
  BY <1>1 DEF TypeOK
<1>5. \A j \in Valid' : clientArray'[j].sock = clientArray[j].sock
  BY <1>2, <1>3 DEF Valid
<1>6. SocketsMatchSlots'
  <2>1. \A j, k \in Valid' : clientArray'[j].sock = clientArray'[k].sock => j = k
    BY <1>3, <1>5 DEF Descriptors, SocketsMatchSlots
  <2>2. {clientArray'[j].sock : j \in Valid'} = {clientArray[j].sock : j \in Valid} \ {fd}
    BY <1>3, <1>5 DEF Descriptors, SocketsMatchSlots
  <2>3. {f \in Fds : fdTable'[f] # NoClient} = {f \in Fds : fdTable[f] # NoClient} \ {fd}
    BY <1>4
  <2>4. QED
    BY <2>1, <2>2, <2>3 DEF Descriptors, SocketsMatchSlots
<1>7. OnePlacePerClient'
  <2>1. \A k \in 1 .. Len(backlog) : backlog[k] # NoClient
    BY NoClientAssumption DEF TypeOK
  <2>2. QED
    BY <1>4, <2>1 DEF Descriptors, OnePlacePerClient
<1>8. QED
  BY <1>2, <1>3, <1>6, <1>7

(* After a signal nothing is open.                                          *)
LEMMA DieDescriptors ==
    ASSUME NEW cause, Die(cause)
    PROVE  SocketsMatchSlots' /\ OnePlacePerClient' /\ Valid' = {}
<1>1. \A j \in Slots : ~clientArray'[j].valid
  BY DEF Die, NoSlots, EmptySlot
<1>2. Valid' = {}
  BY <1>1 DEF Valid
<1>3. (\A f \in Fds : fdTable'[f] = NoClient) /\ backlog' = <<>>
  BY DEF Die, NoFds
<1>4. QED
  BY <1>2, <1>3 DEF SocketsMatchSlots, OnePlacePerClient

(* A command leaves the sockets alone, or frees the slot, or kills.         *)
LEMMA ConnectionSockets ==
    ASSUME TypeOK, Descriptors, NEW i \in Slots, Connection(i)
    PROVE  \/ /\ UNCHANGED <<fdTable, backlog>>
              /\ \A j \in Slots : /\ clientArray'[j].valid = clientArray[j].valid
                                  /\ clientArray'[j].sock = clientArray[j].sock
           \/ /\ UNCHANGED backlog
              /\ i \in Valid
              /\ clientArray' = Freed(i)
              /\ fdTable' = [fdTable EXCEPT ![clientArray[i].sock] = NoClient]
           \/ \E cause : Die(cause)
<1>1. Serve(i)
  BY DEF Connection, HandleName, HandleFiles, HandleFilesCrash, HandleList,
         HandleListCrash, HandleExit, HandleGet, HandleEof, HandleReset, Receive
<1>2. i \in Valid /\ FindIndex(i) = i
  BY <1>1, ServedSlot DEF Descriptors
<1>3. CASE HandleName(i)
  BY <1>2, <1>3 DEF HandleName, TypeOK, SlotSet
<1>4. CASE HandleFiles(i)
  BY <1>2, <1>4 DEF HandleFiles, Stored, TypeOK, SlotSet
<1>5. CASE HandleFilesCrash(i) \/ HandleListCrash(i)
  BY <1>5 DEF HandleFilesCrash, HandleListCrash
<1>6. CASE HandleList(i) \/ HandleGet(i) \/ HandleReset(i)
  BY <1>6 DEF HandleList, HandleGet, HandleReset
<1>7. CASE HandleExit(i) \/ HandleEof(i)
  BY <1>2, <1>7 DEF HandleExit, HandleEof
<1>8. QED
  BY <1>3, <1>4, <1>5, <1>6, <1>7 DEF Connection

(* What leads to a client after a step of the server led to it before, or   *)
(* it was waiting; so a client that has not connected is still nowhere.     *)
LEMMA StartedStaysNowhere ==
    ASSUME StartedNowhere, UNCHANGED phase, NoClient \notin Clients,
           \A f \in Fds : \/ fdTable'[f] = NoClient
                          \/ fdTable'[f] = fdTable[f]
                          \/ \E k \in 1 .. Len(backlog) : fdTable'[f] = backlog[k],
           \A k \in 1 .. Len(backlog') :
               \E l \in 1 .. Len(backlog) : backlog'[k] = backlog[l]
    PROVE  StartedNowhere'
<1> SUFFICES ASSUME NEW c \in Clients, phase'[c] = "start"
             PROVE  /\ \A f \in Fds : fdTable'[f] # c
                    /\ \A k \in 1 .. Len(backlog') : backlog'[k] # c
  BY DEF StartedNowhere
<1>1. /\ \A f \in Fds : fdTable[f] # c
      /\ \A k \in 1 .. Len(backlog) : backlog[k] # c
  BY DEF StartedNowhere
<1>2. QED
  BY <1>1

(* The server's steps keep the correspondence.                              *)
LEMMA ServerDescriptors ==
    ASSUME TypeOK, Descriptors, Program, ServerStep
    PROVE  Descriptors'
<1> USE DEF clientVars, tcpVars
<1>1. ASSUME UNCHANGED <<clientArray, fdTable, backlog, phase>>
      PROVE  Descriptors'
  BY <1>1 DEF Descriptors, SocketsMatchSlots, Valid, OnePlacePerClient, StartedNowhere
<1>2. CASE Start \/ StartFails \/ Select \/ ScanDone \/ PushDone \/ SendReply
  BY <1>1, <1>2 DEF Start, StartFails, Select, ScanDone, PushDone, SendReply
<1>3. ASSUME NEW i, PushList(i)
      PROVE  Descriptors'
  BY <1>1, <1>3 DEF PushList
<1>4. ASSUME NEW cause, Die(cause)
      PROVE  Descriptors'
  <2>1. \A f \in Fds : fdTable'[f] = NoClient
    BY <1>4 DEF Die, NoFds
  <2>2. StartedNowhere'
    BY <1>4, <2>1, NoClientAssumption DEF Die, StartedNowhere
  <2>3. QED
    BY <1>4, <2>2, DieDescriptors DEF Descriptors
<1>5. CASE PushCrash \/ SendSigpipe
  BY <1>4, <1>5 DEF PushCrash, SendSigpipe
<1>6. ASSUME NEW i, PushSigpipe(i)
      PROVE  Descriptors'
  BY <1>4, <1>6 DEF PushSigpipe
<1>7. CASE AcceptConnection
  <2>1. backlog # <<>> /\ backlog' = Tail(backlog)
    BY <1>7 DEF Program, AcceptConnection
  <2>2. /\ 1 \in 1 .. Len(backlog) /\ Head(backlog) = backlog[1]
        /\ \A k \in 1 .. Len(backlog') :
              k + 1 \in 1 .. Len(backlog) /\ backlog'[k] = backlog[k + 1]
    BY <2>1, TailElements DEF TypeOK
  <2>3. PICK fd \in Fds : fdTable' = [fdTable EXCEPT ![fd] = Head(backlog)]
    BY <1>7 DEF AcceptConnection
  <2>4. \A f \in Fds : fdTable'[f] = fdTable[f] \/ fdTable'[f] = backlog[1]
    BY <2>2, <2>3 DEF TypeOK
  <2>5. StartedNowhere'
    BY <1>7, <2>2, <2>4, NoClientAssumption, StartedStaysNowhere
       DEF Descriptors, AcceptConnection
  <2>6. QED
    BY <1>7, <2>5, AcceptDescriptors DEF Descriptors
<1>8. CASE TurnAway
  <2>1. backlog # <<>> /\ backlog' = Tail(backlog)
    BY <1>8 DEF Program, TurnAway
  <2>2. \A k \in 1 .. Len(backlog') :
            k + 1 \in 1 .. Len(backlog) /\ backlog'[k] = backlog[k + 1]
    BY <2>1, TailElements DEF TypeOK
  <2>3. StartedNowhere'
    BY <1>8, <2>2, NoClientAssumption, StartedStaysNowhere DEF Descriptors, TurnAway
  <2>4. SocketsMatchSlots'
    BY <1>8 DEF Descriptors, SocketsMatchSlots, Valid, TurnAway
  <2>5. OnePlacePerClient'
    BY <1>8, <2>2 DEF Descriptors, OnePlacePerClient, TurnAway
  <2>6. QED
    BY <2>3, <2>4, <2>5 DEF Descriptors
<1>9. ASSUME NEW i \in Slots, Connection(i)
      PROVE  Descriptors'
  <2>1. UNCHANGED phase
    BY <1>9 DEF Connection, HandleName, HandleFiles, HandleFilesCrash, HandleList,
                HandleListCrash, HandleExit, HandleGet, HandleEof, HandleReset, Die
  <2>2. CASE /\ UNCHANGED <<fdTable, backlog>>
             /\ \A j \in Slots : /\ clientArray'[j].valid = clientArray[j].valid
                                 /\ clientArray'[j].sock = clientArray[j].sock
    BY <2>1, <2>2, SameSockets DEF Descriptors, OnePlacePerClient, StartedNowhere
  <2>3. CASE /\ UNCHANGED backlog
             /\ i \in Valid
             /\ clientArray' = Freed(i)
             /\ fdTable' = [fdTable EXCEPT ![clientArray[i].sock] = NoClient]
    <3>1. \A f \in Fds : fdTable'[f] = fdTable[f] \/ fdTable'[f] = NoClient
      BY <2>3 DEF TypeOK
    <3>2. StartedNowhere'
      BY <2>1, <2>3, <3>1, NoClientAssumption, StartedStaysNowhere DEF Descriptors
    <3>3. QED
      BY <2>3, <3>2, FreeDescriptors DEF Descriptors
  <2>4. QED
    BY <1>4, <1>9, <2>2, <2>3, ConnectionSockets
<1>10. QED
  BY <1>2, <1>3, <1>5, <1>6, <1>7, <1>8, <1>9 DEF ServerStep

(* The clients' steps keep it; connecting is the one that disturbs it.      *)
LEMMA ClientDescriptors ==
    ASSUME TypeOK, Descriptors, NEW c \in Clients, ClientProgress(c) \/ UserStep(c)
    PROVE  Descriptors'
<1> USE DEF serverVars, tcpVars, clientVars
<1>1. CASE Connect(c)
  <2>1. /\ \A f \in Fds : fdTable[f] # c
        /\ \A k \in 1 .. Len(backlog) : backlog[k] # c
    BY <1>1 DEF Descriptors, StartedNowhere, Connect
  <2>2. \A k \in 1 .. Len(backlog') :
            \/ k \in 1 .. Len(backlog) /\ backlog'[k] = backlog[k]
            \/ k = Len(backlog) + 1 /\ backlog'[k] = c
    <3>1. backlog \in Seq(Clients) /\ backlog' = Append(backlog, c)
      BY <1>1 DEF TypeOK, Connect
    <3>2. QED
      BY <3>1
  <2>3. SocketsMatchSlots'
    BY <1>1 DEF Descriptors, SocketsMatchSlots, Valid, Connect
  <2>4. OnePlacePerClient'
    <3>1. /\ \A f, g \in Fds : fdTable'[f] = fdTable'[g] /\ f # g => fdTable'[f] = NoClient
          /\ \A f \in Fds, k \in 1 .. Len(backlog') : backlog'[k] # fdTable'[f]
      BY <1>1, <2>1, <2>2 DEF Descriptors, OnePlacePerClient, Connect
    <3>2. ASSUME NEW k \in 1 .. Len(backlog'), NEW l \in 1 .. Len(backlog'),
                 backlog'[k] = backlog'[l]
          PROVE  k = l
      <4>1. CASE k \in 1 .. Len(backlog) /\ backlog'[k] = backlog[k]
        BY <2>1, <2>2, <3>2, <4>1 DEF Descriptors, OnePlacePerClient
      <4>2. CASE k = Len(backlog) + 1 /\ backlog'[k] = c
        BY <2>1, <2>2, <3>2, <4>2
      <4>3. QED
        BY <2>2, <4>1, <4>2
    <3>3. QED
      BY <3>1, <3>2 DEF OnePlacePerClient
  <2>5. \A d \in Clients : phase'[d] = "start" => d # c /\ phase[d] = "start"
    BY <1>1 DEF TypeOK, Connect
  <2>6. StartedNowhere'
    BY <1>1, <2>2, <2>5 DEF Descriptors, StartedNowhere, Connect
  <2>7. QED
    BY <2>3, <2>4, <2>6 DEF Descriptors
<1>2. ASSUME UNCHANGED <<clientArray, fdTable, backlog>>,
             \A d \in Clients : phase'[d] = "start" => phase[d] = "start"
      PROVE  Descriptors'
  BY <1>2 DEF Descriptors, SocketsMatchSlots, Valid, OnePlacePerClient, StartedNowhere
<1>3. CASE SendName(c) \/ FirstFileList(c) \/ AlarmSends(c) \/ AlarmRings(c)
  BY <1>2, <1>3 DEF TypeOK, SendName, FirstFileList, AlarmSends, AlarmRings
<1>4. CASE AskList(c) \/ AskFile(c) \/ SendFiles(c) \/ SayExit(c)
  BY <1>2, <1>4 DEF AskList, AskFile, SendFiles, SayExit, Command
<1>5. CASE ClientReceive(c)
  BY <1>2, <1>5 DEF ClientReceive
<1>6. CASE ConnectFails(c) \/ ServerGone(c) \/ Leave(c)
  BY <1>2, <1>6 DEF TypeOK, ConnectFails, ServerGone, Leave, Forget
<1>7. QED
  BY <1>1, <1>3, <1>4, <1>5, <1>6 DEF ClientProgress, UserStep

-----------------------------------------------------------------------------
(* The places in the server's loop and the replies still to be sent.        *)

(* Every reply to a get goes to the socket of a slot, and what a client is  *)
(* asked to send is in its own slot's list.                                 *)
LEMMA ManageGetReplies ==
    ASSUME TypeOK, SocketsMatchSlots, NEW i \in Valid, NEW f \in Files,
           ManageGet(i, f)
    PROVE  /\ todo' # <<>>
           /\ \A n \in 1 .. Len(todo') : \E j \in Valid :
                 /\ todo'[n].fd = clientArray[j].sock
                 /\ todo'[n].msg.cmd = "get" => todo'[n].msg.file \in clientArray[j].files
<1>1. CASE NotShared(i, f)
  BY <1>1 DEF NotShared, Reply
<1>2. ASSUME NEW k \in Slots, IsFirst(k, Owners(f)), OwnFile(i, k, f)
      PROVE  todo' = Reply(i, [cmd |-> "own", file |-> f])
  BY <1>2 DEF OwnFile
<1>3. CASE \E k \in Slots : IsFirst(k, Owners(f)) /\ OwnFile(i, k, f)
  BY <1>2, <1>3 DEF Reply
<1>4. CASE \E k \in Slots : IsFirst(k, Owners(f)) /\ Route(i, k, f)
  <2>1. PICK k \in Slots : IsFirst(k, Owners(f)) /\ Route(i, k, f)
    BY <1>4
  <2> DEFINE ask == [fd |-> clientArray[k].sock, msg |-> [cmd |-> "get", file |-> f]]
             tell == [fd |-> clientArray[i].sock, msg |-> [cmd |-> "ip", owner |-> Peer(k)]]
  <2>2. k \in Valid /\ f \in clientArray[k].files
    BY <2>1 DEF IsFirst, Owners
  <2>3. todo' = <<ask>> \o <<tell>>
    BY <2>1 DEF Route, Reply
  <2>4. Len(todo') = 2 /\ todo'[1] = ask /\ todo'[2] = tell
    <3>1. ask \in {ask, tell} /\ tell \in {ask, tell}
      OBVIOUS
    <3> HIDE DEF ask, tell
    <3>2. QED
      BY <2>3, <3>1, JoinedElements
  <2>5. \A n \in 1 .. Len(todo') : n = 1 \/ n = 2
    BY <2>4
  <2>6. todo' # <<>>
    BY <2>4
  <2>7. QED
    BY <2>2, <2>4, <2>5, <2>6
<1>5. QED
  BY <1>1, <1>3, <1>4 DEF ManageGet

(* Nothing is left to be sent outside "send".                               *)
LEMMA NothingToSend ==
    ASSUME todo' = <<>>, spc' \notin {"accept", "send"}
    PROVE  Program'
BY DEF Program

(* The server's steps keep its program consistent.                          *)
LEMMA ServerProgram ==
    ASSUME TypeOK, Descriptors, Program, ServerStep
    PROVE  Program'
<1> USE DEF tcpVars, clientVars
<1>1. spc # "send" => todo = <<>>
  BY DEF Program
<1>2. CASE Select
  <2>1. todo' = <<>> /\ spc' # "send"
    BY <1>1, <1>2 DEF Select
  <2>2. readfds' \subseteq Watched /\ Watched' = Watched
    BY <1>2 DEF Select, Ready, Watched, Valid
  <2>3. spc' = "accept" => backlog' # <<>>
    BY <1>2 DEF Select
  <2>4. QED
    BY <2>1, <2>2, <2>3 DEF Program
<1>3. CASE Start \/ StartFails \/ AcceptConnection \/ TurnAway \/ ScanDone \/ PushDone
  BY <1>1, <1>3, NothingToSend
     DEF Start, StartFails, AcceptConnection, TurnAway, ScanDone, PushDone
<1>4. ASSUME NEW cause, Die(cause)
      PROVE  Program'
  BY <1>4, NothingToSend DEF Die
<1>5. ASSUME NEW i \in Slots, PushList(i) \/ PushSigpipe(i)
      PROVE  Program'
  BY <1>1, <1>4, <1>5, NothingToSend DEF PushList, PushSigpipe
<1>6. CASE PushCrash \/ SendSigpipe
  BY <1>4, <1>6 DEF PushCrash, SendSigpipe
<1>7. CASE SendReply
  <2>1. todo # <<>> /\ todo' = Tail(todo) /\ UNCHANGED fdTable
    BY <1>7 DEF Program, SendReply
  <2>2. \A k \in 1 .. Len(todo') : k + 1 \in 1 .. Len(todo) /\ todo'[k] = todo[k + 1]
    BY <2>1, TailElements DEF TypeOK
  <2>3. spc' # "accept" /\ (spc' = "send" <=> todo' # <<>>)
    BY <1>7 DEF SendReply
  <2>4. QED
    BY <2>1, <2>2, <2>3 DEF Program
<1>8. ASSUME NEW i \in Slots, Connection(i)
      PROVE  Program'
  <2>1. Serve(i)
    BY <1>8 DEF Connection, HandleName, HandleFiles, HandleFilesCrash, HandleList,
                HandleListCrash, HandleExit, HandleGet, HandleEof, HandleReset, Receive
  <2>2. i \in Valid /\ FindIndex(i) = i /\ spc = "scan"
    BY <2>1, ServedSlot DEF Descriptors, Serve
  <2>3. \A j \in Valid : fdTable[clientArray[j].sock] # NoClient
    BY DEF Descriptors, SocketsMatchSlots
  <2>4. CASE HandleName(i) \/ HandleFiles(i) \/ HandleExit(i) \/ HandleEof(i) \/ HandleReset(i)
    BY <1>1, <2>2, <2>4, NothingToSend
       DEF HandleName, HandleFiles, HandleExit, HandleEof, HandleReset, StartPush
  <2>5. CASE HandleFilesCrash(i) \/ HandleListCrash(i)
    BY <1>4, <2>5 DEF HandleFilesCrash, HandleListCrash
  <2>6. CASE HandleList(i)
    BY <2>2, <2>3, <2>6 DEF HandleList, Reply, Program
  <2>7. CASE HandleGet(i)
    <3>1. Receive(i, "get") /\ ManageGet(i, Frame(i).file)
      BY <2>2, <2>7 DEF HandleGet
    <3>2. Frame(i) \in Requests /\ Frame(i).cmd = "get"
      BY <2>1, <3>1, ConsumedType DEF Descriptors, Receive, Frame
    <3>3. Frame(i).file \in Files
      BY <3>2, RequestFields
    <3>4. /\ todo' # <<>>
          /\ \A n \in 1 .. Len(todo') : \E j \in Valid : todo'[n].fd = clientArray[j].sock
      BY <2>2, <3>1, <3>3, ManageGetReplies DEF Descriptors
    <3>5. spc' = "send" /\ UNCHANGED fdTable
      BY <2>7 DEF HandleGet
    <3>6. QED
      BY <2>3, <3>4, <3>5 DEF Program
  <2>8. QED
    BY <1>8, <2>4, <2>5, <2>6, <2>7 DEF Connection
<1>9. QED
  BY <1>2, <1>3, <1>5, <1>6, <1>7, <1>8 DEF ServerStep

(* What a client's step leaves of the server: all, but for a connection     *)
(* that joins the backlog.                                                  *)
LEMMA ClientLeavesServer ==
    ASSUME NEW c \in Clients, ClientProgress(c) \/ UserStep(c)
    PROVE  /\ UNCHANGED <<clientArray, fdTable, spc, readfds, idx, pos, todo>>
           /\ backlog' = backlog \/ backlog' = Append(backlog, c)
<1> USE DEF serverVars, tcpVars, clientVars
<1>1. CASE Connect(c)
  BY <1>1 DEF Connect
<1>2. CASE \/ ConnectFails(c) \/ SendName(c) \/ FirstFileList(c) \/ AlarmSends(c)
           \/ AlarmRings(c) \/ ClientReceive(c) \/ ServerGone(c) \/ Leave(c)
  BY <1>2 DEF ConnectFails, SendName, FirstFileList, AlarmSends, AlarmRings, ClientReceive, ServerGone, Leave
<1>3. CASE AskList(c) \/ AskFile(c) \/ SendFiles(c) \/ SayExit(c)
  BY <1>3 DEF AskList, AskFile, SendFiles, SayExit, Command
<1>4. QED
  BY <1>1, <1>2, <1>3 DEF ClientProgress, UserStep

(* So do the clients' steps.                                                *)
LEMMA ClientProgram ==
    ASSUME TypeOK, Program, NEW c \in Clients, ClientProgress(c) \/ UserStep(c)
    PROVE  Program'
<1>1. /\ UNCHANGED <<clientArray, fdTable, spc, readfds, idx, pos, todo>>
      /\ backlog' = backlog \/ backlog' = Append(backlog, c)
  BY ClientLeavesServer
<1>2. backlog # <<>> => backlog' # <<>>
  BY <1>1 DEF TypeOK
<1>3. Watched' = Watched
  BY <1>1 DEF Watched, Valid
<1>4. QED
  BY <1>1, <1>2, <1>3 DEF Program

-----------------------------------------------------------------------------
(* What the slots, the frames and the replies say.                          *)

(* The server only takes frames off a connection.                           *)
FramesOnlyLeave ==
    \A c \in Clients : \A k \in 1 .. Len(toSrv'[c]) :
        \E l \in 1 .. Len(toSrv[c]) : toSrv'[c][k] = toSrv[c][l]

(* A close() by the server takes them all.                                  *)
LEMMA ClosedFrames ==
    ASSUME TypeOK, NEW c \in Clients, Closed(c)
    PROVE  FramesOnlyLeave
BY DEF TypeOK, Closed, FramesOnlyLeave

(* A recv() takes the first.                                                *)
LEMMA ConsumedFrames ==
    ASSUME TypeOK, SocketsMatchSlots, NEW i \in Valid, toSrv[Peer(i)] # <<>>, Consumed(i)
    PROVE  FramesOnlyLeave
<1>1. Peer(i) \in Clients /\ toSrv \in [Clients -> Seq(Requests)]
  BY PeerType DEF TypeOK
<1>2. toSrv' = [toSrv EXCEPT ![Peer(i)] = Tail(toSrv[Peer(i)])]
  BY DEF Consumed
<1>3. \A k \in 1 .. Len(Tail(toSrv[Peer(i)])) :
          /\ k + 1 \in 1 .. Len(toSrv[Peer(i)])
          /\ Tail(toSrv[Peer(i)])[k] = toSrv[Peer(i)][k + 1]
  BY <1>1, TailElements
<1>4. QED
  BY <1>1, <1>2, <1>3 DEF FramesOnlyLeave

(* No step of the server adds a frame.                                      *)
LEMMA ServerFrames ==
    ASSUME TypeOK, Descriptors, Program, ServerStep
    PROVE  FramesOnlyLeave
<1> USE DEF tcpVars, clientVars
<1>1. ASSUME UNCHANGED toSrv
      PROVE  FramesOnlyLeave
  BY <1>1 DEF FramesOnlyLeave
<1>2. ASSUME NEW cause, Die(cause)
      PROVE  FramesOnlyLeave
  BY <1>2 DEF Die, FramesOnlyLeave
<1>3. CASE \/ Start \/ StartFails \/ Select \/ AcceptConnection \/ ScanDone \/ PushDone
           \/ SendReply
  BY <1>1, <1>3 DEF Start, StartFails, Select, AcceptConnection, ScanDone, PushDone, SendReply
<1>4. CASE TurnAway
  <2>1. Head(backlog) \in Clients
    BY <1>4, TailElements DEF TypeOK, Program, TurnAway
  <2>2. QED
    BY <1>4, <2>1, ClosedFrames DEF TurnAway
<1>5. CASE PushCrash \/ SendSigpipe
  BY <1>2, <1>5 DEF PushCrash, SendSigpipe
<1>6. ASSUME NEW i \in Slots, PushList(i) \/ PushSigpipe(i)
      PROVE  FramesOnlyLeave
  BY <1>1, <1>2, <1>6 DEF PushList, PushSigpipe
<1>7. ASSUME NEW i \in Slots, Connection(i)
      PROVE  FramesOnlyLeave
  <2>1. Serve(i)
    BY <1>7 DEF Connection, HandleName, HandleFiles, HandleFilesCrash, HandleList,
                HandleListCrash, HandleExit, HandleGet, HandleEof, HandleReset, Receive
  <2>2. i \in Valid /\ Peer(i) \in Clients
    BY <2>1, ServedSlot DEF Descriptors
  <2>3. CASE HandleName(i) \/ HandleFiles(i) \/ HandleList(i) \/ HandleGet(i)
    <3>1. toSrv[Peer(i)] # <<>> /\ Consumed(i)
      BY <2>3 DEF HandleName, HandleFiles, HandleList, HandleGet, Receive
    <3>2. QED
      BY <2>2, <3>1, ConsumedFrames DEF Descriptors
  <2>4. CASE HandleFilesCrash(i) \/ HandleListCrash(i)
    BY <1>2, <2>4 DEF HandleFilesCrash, HandleListCrash
  <2>5. CASE HandleExit(i) \/ HandleEof(i)
    BY <2>2, <2>5, ClosedFrames DEF HandleExit, HandleEof
  <2>6. CASE HandleReset(i)
    BY <1>1, <2>6 DEF HandleReset
  <2>7. QED
    BY <1>7, <2>3, <2>4, <2>5, <2>6 DEF Connection
<1>8. QED
  BY <1>3, <1>4, <1>5, <1>6, <1>7 DEF ServerStep

(* The server adds to a connection only what says nothing about a file, or  *)
(* the reply whose turn it is.                                              *)
LEMMA ServerMessages ==
    ASSUME TypeOK, Descriptors, Program, ServerStep
    PROVE  \A c \in Clients : \A k \in 1 .. Len(toCli'[c]) :
              \/ k \in 1 .. Len(toCli[c]) /\ toCli'[c][k] = toCli[c][k]
              \/ toCli'[c][k].cmd \in {"full", "list"}
              \/ /\ todo # <<>> /\ c = fdTable[todo[1].fd]
                 /\ toCli'[c][k] = todo[1].msg
<1> DEFINE Added(m, d) ==
              \A c \in Clients : \A k \in 1 .. Len(toCli'[c]) :
                  \/ k \in 1 .. Len(toCli[c]) /\ toCli'[c][k] = toCli[c][k]
                  \/ c = d /\ toCli'[c][k] = m
<1> USE DEF clientVars, tcpVars
<1>1. ASSUME NEW d \in Clients, NEW m \in Replies,
             toCli' = [toCli EXCEPT ![d] = Append(@, m)] \/ toCli' = toCli
      PROVE  Added(m, d)
  <2>1. CASE toCli' = toCli
    BY <2>1
  <2>2. CASE toCli' = [toCli EXCEPT ![d] = Append(toCli[d], m)]
    <3>1. \A k \in 1 .. Len(Append(toCli[d], m)) :
              \/ k \in 1 .. Len(toCli[d]) /\ Append(toCli[d], m)[k] = toCli[d][k]
              \/ Append(toCli[d], m)[k] = m
      <4>1. toCli[d] \in Seq(Replies)
        BY DEF TypeOK
      <4>2. QED
        BY <4>1, AppendElements
    <3>2. toCli'[d] = Append(toCli[d], m) /\ \A c \in Clients \ {d} : toCli'[c] = toCli[c]
      BY <2>2 DEF TypeOK
    <3>3. ASSUME NEW c \in Clients, NEW k \in 1 .. Len(toCli'[c])
          PROVE  \/ k \in 1 .. Len(toCli[c]) /\ toCli'[c][k] = toCli[c][k]
                 \/ c = d /\ toCli'[c][k] = m
      <4>1. CASE c = d
        BY <4>1, <3>1, <3>2
      <4>2. CASE c # d
        BY <4>2, <3>2
      <4>3. QED
        BY <4>1, <4>2
    <3>4. QED
      BY <3>3
  <2>3. QED
    BY <1>1, <2>1, <2>2
<1>2. CASE UNCHANGED toCli
  BY <1>2
<1>3. CASE TurnAway
  <2>1. Head(backlog) \in Clients
    BY <1>3, TailElements DEF TypeOK, Program, TurnAway
  <2>2. [cmd |-> "full"] \in Replies
    BY DEF Replies
  <2>3. \/ toCli' = [toCli EXCEPT ![Head(backlog)] = Append(@, [cmd |-> "full"])]
        \/ toCli' = toCli
    BY <1>3 DEF TurnAway
  <2>4. Added([cmd |-> "full"], Head(backlog))
    BY <1>1, <2>1, <2>2, <2>3
  <2>5. QED
    BY <2>4
<1>4. ASSUME NEW i \in Slots, PushList(i)
      PROVE  Added(ListMessage, Peer(i))
  <2>1. ListMessage \in Replies
    BY TableType DEF ListMessage, Replies, TypeOK
  <2>2. Peer(i) \in Clients
    BY <1>4, PeerType DEF PushList, IsFirst, Pushable, Descriptors
  <2>3. Send(Peer(i), ListMessage)
    BY <1>4 DEF PushList
  <2>4. QED
    BY <1>1, <2>1, <2>2, <2>3, SendType
<1>5. ASSUME NEW i \in Slots, PushList(i)
      PROVE  \A c \in Clients : \A k \in 1 .. Len(toCli'[c]) :
                \/ k \in 1 .. Len(toCli[c]) /\ toCli'[c][k] = toCli[c][k]
                \/ toCli'[c][k].cmd = "list"
  <2>1. ListMessage.cmd = "list"
    BY DEF ListMessage
  <2>2. QED
    BY <1>4, <1>5, <2>1
<1>6. CASE SendReply
  <2>1. todo # <<>> /\ Send(fdTable[Head(todo).fd], Head(todo).msg)
    BY <1>6 DEF Program, SendReply
  <2>2. Head(todo) \in [fd : Fds, msg : Replies] /\ 1 \in 1 .. Len(todo) /\ Head(todo) = todo[1]
    BY <2>1, TailElements DEF TypeOK
  <2>3. fdTable[todo[1].fd] \in Clients
    BY <2>2 DEF TypeOK, Program
  <2>4. Added(todo[1].msg, fdTable[todo[1].fd])
    BY <1>1, <2>1, <2>2, <2>3, SendType
  <2>5. QED
    BY <2>1, <2>4
<1>7. ASSUME NEW i \in Slots, Connection(i)
      PROVE  UNCHANGED toCli
  BY <1>7 DEF Connection, HandleName, HandleFiles, HandleFilesCrash, HandleList,
              HandleListCrash, HandleExit, HandleGet, HandleEof, HandleReset, Die
<1>8. CASE \/ Start \/ StartFails \/ Select \/ AcceptConnection \/ ScanDone \/ PushDone
           \/ PushCrash \/ SendSigpipe \/ \E i \in Slots : PushSigpipe(i)
  BY <1>2, <1>8 DEF Start, StartFails, Select, AcceptConnection, ScanDone, PushDone, PushCrash, SendSigpipe,
                    PushSigpipe, Die
<1>9. QED
  BY <1>2, <1>3, <1>5, <1>6, <1>7, <1>8 DEF ServerStep

(* What a slot says is true of a slot that stays as it is.                  *)
LEMMA SlotsKeepTheirData ==
    ASSUME SlotHoldsOwnData, UNCHANGED shared,
           \A j \in Valid' :
              \/ j \in Valid /\ clientArray'[j] = clientArray[j] /\ Peer(j)' = Peer(j)
              \/ /\ clientArray'[j].name \in {NoName, NameOf[Peer(j)']}
                 /\ clientArray'[j].files \subseteq shared[Peer(j)']
    PROVE  SlotHoldsOwnData'
BY DEF SlotHoldsOwnData

(* The server's steps keep the slots true.                                  *)
LEMMA ServerSlots ==
    ASSUME TypeOK, Descriptors, Program, Contents, ServerStep
    PROVE  SlotHoldsOwnData'
<1> USE DEF tcpVars, clientVars
<1>1. ASSUME UNCHANGED <<clientArray, fdTable, shared>>
      PROVE  SlotHoldsOwnData'
  BY <1>1 DEF Contents, SlotHoldsOwnData, Valid, Peer
<1>2. ASSUME NEW cause, Die(cause)
      PROVE  SlotHoldsOwnData'
  BY <1>2, DieDescriptors DEF SlotHoldsOwnData
<1>3. CASE Start \/ StartFails \/ Select \/ TurnAway \/ ScanDone \/ PushDone \/ SendReply
  BY <1>1, <1>3 DEF Start, StartFails, Select, TurnAway, ScanDone, PushDone, SendReply
<1>4. CASE PushCrash \/ SendSigpipe
  BY <1>2, <1>4 DEF PushCrash, SendSigpipe
<1>5. ASSUME NEW i \in Slots, PushList(i) \/ PushSigpipe(i)
      PROVE  SlotHoldsOwnData'
  BY <1>1, <1>2, <1>5 DEF PushList, PushSigpipe
<1>6. CASE AcceptConnection
  <2>1. PICK i \in Slots, fd \in Fds :
            /\ i \notin Valid
            /\ fdTable[fd] = NoClient
            /\ clientArray' = [clientArray EXCEPT ![i] = NewSlot(i, fd)]
            /\ fdTable' = [fdTable EXCEPT ![fd] = Head(backlog)]
    BY <1>6 DEF AcceptConnection, IsFirst, FreeFds
  <2>2. clientArray'[i].name = NoName /\ clientArray'[i].files = {}
    BY <2>1 DEF TypeOK, NewSlot, EmptySlot
  <2>3. \A j \in Slots \ {i} : clientArray'[j] = clientArray[j]
    BY <2>1 DEF TypeOK
  <2>4. Valid' \subseteq Valid \cup {i}
    BY <2>3 DEF Valid
  <2>5. ASSUME NEW j \in Valid
        PROVE  clientArray'[j] = clientArray[j] /\ Peer(j)' = Peer(j)
    <3>1. j \in Slots /\ clientArray[j].sock \in Fds /\ clientArray[j].sock # fd
      BY <2>1, PeerType DEF Descriptors, SocketsMatchSlots
    <3>2. clientArray'[j] = clientArray[j]
      BY <2>1, <2>3, <3>1
    <3>3. QED
      BY <2>1, <3>1, <3>2 DEF TypeOK, Peer
  <2>6. SlotHoldsOwnData /\ UNCHANGED shared
    BY <1>6 DEF Contents, AcceptConnection
  <2>7. QED
    BY <2>2, <2>4, <2>5, <2>6, SlotsKeepTheirData
<1>7. ASSUME NEW i \in Slots, Connection(i)
      PROVE  SlotHoldsOwnData'
  <2>1. Serve(i)
    BY <1>7 DEF Connection, HandleName, HandleFiles, HandleFilesCrash, HandleList,
                HandleListCrash, HandleExit, HandleGet, HandleEof, HandleReset, Receive
  <2>2. i \in Valid /\ FindIndex(i) = i /\ Peer(i) \in Clients
    BY <2>1, ServedSlot DEF Descriptors
  <2>3. SlotHoldsOwnData
    BY DEF Contents
  <2>4. ASSUME NEW cmd, Receive(i, cmd)
        PROVE  /\ cmd = "name" => Frame(i).name = NameOf[Peer(i)]
               /\ cmd = "sendmyfileslist" => Frame(i).files \subseteq shared[Peer(i)]
    <3>1. toSrv[Peer(i)] # <<>> /\ Frame(i).cmd = cmd
      BY <2>4 DEF Receive, Frame
    <3>2. 1 \in 1 .. Len(toSrv[Peer(i)]) /\ Frame(i) = toSrv[Peer(i)][1]
      BY <2>2, <3>1, TailElements DEF Frame, TypeOK
    <3>3. QED
      BY <2>2, <3>1, <3>2 DEF Contents, FramesTrue
  <2>5. ASSUME UNCHANGED <<fdTable, shared>>,
               NEW new, clientArray' = [clientArray EXCEPT ![i] = new],
               new.valid = clientArray[i].valid, new.sock = clientArray[i].sock,
               new.name \in {NoName, NameOf[Peer(i)]},
               new.files \subseteq shared[Peer(i)]
        PROVE  SlotHoldsOwnData'
    <3>1. clientArray'[i] = new /\ \A j \in Slots \ {i} : clientArray'[j] = clientArray[j]
      BY <2>5 DEF TypeOK
    <3>2. Valid' = Valid /\ \A j \in Valid : Peer(j)' = Peer(j)
      BY <2>5, <3>1 DEF Valid, Peer
    <3>3. ASSUME NEW j \in Valid'
          PROVE  \/ j \in Valid /\ clientArray'[j] = clientArray[j] /\ Peer(j)' = Peer(j)
                 \/ /\ clientArray'[j].name \in {NoName, NameOf[Peer(j)']}
                    /\ clientArray'[j].files \subseteq shared[Peer(j)']
      <4>1. CASE j = i
        BY <2>2, <2>5, <3>1, <3>2, <4>1
      <4>2. CASE j # i
        BY <3>1, <3>2, <4>2 DEF Valid
      <4>3. QED
        BY <4>1, <4>2
    <3>4. QED
      BY <2>3, <2>5, <3>3, SlotsKeepTheirData
  <2>6. CASE HandleName(i)
    <3>1. /\ clientArray' = [clientArray EXCEPT ![i] = [@ EXCEPT !.name = Frame(i).name]]
          /\ UNCHANGED <<fdTable, shared>>
      BY <2>2, <2>6 DEF HandleName
    <3>2. Frame(i).name = NameOf[Peer(i)]
      BY <2>4, <2>6 DEF HandleName
    <3> DEFINE new == [clientArray[i] EXCEPT !.name = Frame(i).name]
    <3>3. /\ new.valid = clientArray[i].valid /\ new.sock = clientArray[i].sock
          /\ new.name = NameOf[Peer(i)] /\ new.files = clientArray[i].files
      BY <3>2 DEF TypeOK, SlotSet
    <3>4. clientArray[i].files \subseteq shared[Peer(i)]
      BY <2>2, <2>3 DEF SlotHoldsOwnData
    <3>5. clientArray' = [clientArray EXCEPT ![i] = new]
      BY <3>1
    <3> HIDE DEF new
    <3>6. QED
      BY <2>5, <3>1, <3>3, <3>4, <3>5
  <2>7. CASE HandleFiles(i)
    <3>1. /\ clientArray' = [clientArray EXCEPT ![i] = [@ EXCEPT !.files = Frame(i).files]]
          /\ UNCHANGED <<fdTable, shared>>
      BY <2>2, <2>7 DEF HandleFiles, Stored
    <3>2. Frame(i).files \subseteq shared[Peer(i)]
      BY <2>4, <2>7 DEF HandleFiles
    <3> DEFINE new == [clientArray[i] EXCEPT !.files = Frame(i).files]
    <3>3. /\ new.valid = clientArray[i].valid /\ new.sock = clientArray[i].sock
          /\ new.name = clientArray[i].name /\ new.files \subseteq shared[Peer(i)]
      BY <3>2 DEF TypeOK, SlotSet
    <3>4. clientArray[i].name \in {NoName, NameOf[Peer(i)]}
      BY <2>2, <2>3 DEF SlotHoldsOwnData
    <3>5. clientArray' = [clientArray EXCEPT ![i] = new]
      BY <3>1
    <3> HIDE DEF new
    <3>6. QED
      BY <2>5, <3>1, <3>3, <3>4, <3>5
  <2>8. CASE HandleExit(i) \/ HandleEof(i)
    <3>1. /\ clientArray' = Freed(i) /\ UNCHANGED <<backlog, shared>>
          /\ fdTable' = [fdTable EXCEPT ![clientArray[i].sock] = NoClient]
      BY <2>8 DEF HandleExit, HandleEof
    <3>2. Valid' = Valid \ {i} /\ \A j \in Slots \ {i} : clientArray'[j] = clientArray[j]
      BY <2>2, <3>1, FreeDescriptors
    <3>3. ASSUME NEW j \in Valid \ {i}
          PROVE  clientArray'[j] = clientArray[j] /\ Peer(j)' = Peer(j)
      <4>1. j \in Slots /\ clientArray[j].sock \in Fds /\ clientArray[j].sock # clientArray[i].sock
        BY <2>2, PeerType DEF Descriptors, SocketsMatchSlots
      <4>2. clientArray'[j] = clientArray[j]
        BY <3>2, <4>1
      <4>3. QED
        BY <3>1, <4>1, <4>2 DEF TypeOK, Peer
    <3>4. QED
      BY <2>3, <3>1, <3>2, <3>3, SlotsKeepTheirData
  <2>9. CASE HandleFilesCrash(i) \/ HandleListCrash(i)
    BY <1>2, <2>9 DEF HandleFilesCrash, HandleListCrash
  <2>10. CASE HandleList(i) \/ HandleGet(i) \/ HandleReset(i)
    BY <1>1, <2>10 DEF HandleList, HandleGet, HandleReset
  <2>11. QED
    BY <1>7, <2>6, <2>7, <2>8, <2>9, <2>10 DEF Connection
<1>8. QED
  BY <1>3, <1>4, <1>5, <1>6, <1>7 DEF ServerStep

(* The replies still to be sent stay true: what is added comes from the     *)
(* slots, and no descriptor is closed while any is left.                    *)
LEMMA ServerTodo ==
    ASSUME TypeOK, Descriptors, Program, Contents, ServerStep
    PROVE  TodoTrue'
<1> USE DEF tcpVars, clientVars
<1>1. ASSUME todo' = <<>>
      PROVE  TodoTrue'
  BY <1>1 DEF TodoTrue
<1>2. spc # "send" => todo = <<>>
  BY DEF Program
<1>3. CASE \/ Start \/ StartFails \/ Select \/ AcceptConnection \/ TurnAway \/ ScanDone
           \/ PushDone
  BY <1>1, <1>2, <1>3 DEF Start, StartFails, Select, AcceptConnection, TurnAway, ScanDone,
                          PushDone
<1>4. CASE PushCrash \/ SendSigpipe
  BY <1>1, <1>4 DEF PushCrash, SendSigpipe, Die
<1>5. ASSUME NEW i \in Slots, PushList(i) \/ PushSigpipe(i)
      PROVE  TodoTrue'
  BY <1>1, <1>2, <1>5 DEF PushList, PushSigpipe, Die
<1>6. CASE SendReply
  <2>1. todo # <<>> /\ todo' = Tail(todo) /\ UNCHANGED <<fdTable, shared>>
    BY <1>6 DEF Program, SendReply
  <2>2. \A k \in 1 .. Len(todo') : k + 1 \in 1 .. Len(todo) /\ todo'[k] = todo[k + 1]
    BY <2>1, TailElements DEF TypeOK
  <2>3. QED
    BY <2>1, <2>2 DEF Contents, TodoTrue
<1>7. ASSUME NEW i \in Slots, Connection(i)
      PROVE  TodoTrue'
  <2>1. Serve(i)
    BY <1>7 DEF Connection, HandleName, HandleFiles, HandleFilesCrash, HandleList,
                HandleListCrash, HandleExit, HandleGet, HandleEof, HandleReset, Receive
  <2>2. i \in Valid /\ FindIndex(i) = i /\ spc = "scan"
    BY <2>1, ServedSlot DEF Descriptors, Serve
  <2>3. CASE HandleName(i) \/ HandleFiles(i) \/ HandleExit(i) \/ HandleEof(i) \/ HandleReset(i)
    BY <1>1, <1>2, <2>2, <2>3 DEF HandleName, HandleFiles, HandleExit, HandleEof, HandleReset
  <2>4. CASE HandleFilesCrash(i) \/ HandleListCrash(i)
    BY <1>1, <2>4 DEF HandleFilesCrash, HandleListCrash, Die
  <2>5. CASE HandleList(i)
    <3>1. todo' = <<[fd |-> clientArray[i].sock, msg |-> ListMessage]>>
      BY <2>2, <2>5 DEF HandleList, Reply
    <3>2. ListMessage.cmd = "list"
      BY DEF ListMessage
    <3>3. \A k \in 1 .. Len(todo') : todo'[k].msg.cmd = "list"
      BY <3>1, <3>2
    <3>4. QED
      BY <3>3 DEF TodoTrue
  <2>6. CASE HandleGet(i)
    <3>1. Receive(i, "get") /\ ManageGet(i, Frame(i).file)
      BY <2>2, <2>6 DEF HandleGet
    <3>2. Frame(i) \in Requests /\ Frame(i).cmd = "get"
      BY <2>1, <3>1, ConsumedType DEF Descriptors, Receive, Frame
    <3>3. Frame(i).file \in Files
      BY <3>2, RequestFields
    <3>4. \A n \in 1 .. Len(todo') : \E j \in Valid :
              /\ todo'[n].fd = clientArray[j].sock
              /\ todo'[n].msg.cmd = "get" => todo'[n].msg.file \in clientArray[j].files
      BY <2>2, <3>1, <3>3, ManageGetReplies DEF Descriptors
    <3>5. \A j \in Valid : clientArray[j].files \subseteq shared[fdTable[clientArray[j].sock]]
      BY DEF Contents, SlotHoldsOwnData, Peer
    <3>6. UNCHANGED <<fdTable, shared>>
      BY <2>6 DEF HandleGet
    <3>7. QED
      BY <3>4, <3>5, <3>6 DEF TodoTrue
  <2>7. QED
    BY <1>7, <2>3, <2>4, <2>5, <2>6 DEF Connection
<1>8. QED
  BY <1>3, <1>4, <1>5, <1>6, <1>7 DEF ServerStep

(* The server's steps keep all contents true.                               *)
LEMMA ServerContents ==
    ASSUME TypeOK, Descriptors, Program, Contents, ServerStep
    PROVE  Contents'
<1>1. UNCHANGED shared
  BY DEF ServerStep, Start, StartFails, Select, AcceptConnection, TurnAway, ScanDone, PushList, PushSigpipe,
         PushCrash, PushDone, SendReply, SendSigpipe, Connection, HandleName, HandleFiles,
         HandleFilesCrash, HandleList, HandleListCrash, HandleExit, HandleGet, HandleEof,
         HandleReset, Die, clientVars
<1>2. FramesTrue'
  <2> SUFFICES ASSUME NEW c \in Clients, NEW k \in 1 .. Len(toSrv'[c])
               PROVE  /\ toSrv'[c][k].cmd = "name" => toSrv'[c][k].name = NameOf[c]
                      /\ toSrv'[c][k].cmd = "sendmyfileslist"
                            => toSrv'[c][k].files \subseteq shared[c]
    BY <1>1 DEF FramesTrue
  <2>1. PICK l \in 1 .. Len(toSrv[c]) : toSrv'[c][k] = toSrv[c][l]
    BY ServerFrames DEF FramesOnlyLeave
  <2>2. QED
    BY <2>1 DEF Contents, FramesTrue
<1>3. SlotHoldsOwnData' /\ TodoTrue'
  BY ServerSlots, ServerTodo
<1>4. GetReachesAnnouncer'
  <2> SUFFICES ASSUME NEW c \in Clients, NEW k \in 1 .. Len(toCli'[c]),
                      toCli'[c][k].cmd = "get"
               PROVE  toCli'[c][k].file \in shared[c]
    BY <1>1 DEF GetReachesAnnouncer
  <2>1. CASE k \in 1 .. Len(toCli[c]) /\ toCli'[c][k] = toCli[c][k]
    BY <2>1 DEF Contents, GetReachesAnnouncer
  <2>2. CASE todo # <<>> /\ c = fdTable[todo[1].fd] /\ toCli'[c][k] = todo[1].msg
    <3>1. 1 \in 1 .. Len(todo)
      BY <2>2, TailElements DEF TypeOK
    <3>2. QED
      BY <2>2, <3>1 DEF Contents, TodoTrue
  <2>3. QED
    BY <2>1, <2>2, ServerMessages
<1>5. QED
  BY <1>2, <1>3, <1>4 DEF Contents

(* What a client's step does to its connection: a frame that is true of it  *)
(* is added, or frames for it are taken away; what it shared only grows.    *)
LEMMA ClientFrames ==
    ASSUME TypeOK, FramesTrue, NEW c \in Clients, ClientProgress(c) \/ UserStep(c)
    PROVE  /\ \A d \in Clients : shared[d] \subseteq shared'[d]
           /\ FramesTrue'
<1> USE DEF serverVars, tcpVars, clientVars
<1>1. ASSUME NEW frame \in Requests, ClientSend(c, frame),
             \A d \in Clients : shared[d] \subseteq shared'[d],
             frame.cmd = "name" => frame.name = NameOf[c],
             frame.cmd = "sendmyfileslist" => frame.files \subseteq shared'[c]
      PROVE  FramesTrue'
  <2>1. ASSUME NEW d \in Clients, NEW k \in 1 .. Len(toSrv'[d])
        PROVE  \/ k \in 1 .. Len(toSrv[d]) /\ toSrv'[d][k] = toSrv[d][k]
               \/ d = c /\ toSrv'[d][k] = frame
    <3>1. CASE toSrv' = toSrv
      BY <3>1
    <3>2. CASE toSrv' = [toSrv EXCEPT ![c] = Append(toSrv[c], frame)]
      <4>1. /\ toSrv'[c] = Append(toSrv[c], frame)
            /\ \A e \in Clients \ {c} : toSrv'[e] = toSrv[e]
        BY <3>2 DEF TypeOK
      <4>2. \A l \in 1 .. Len(Append(toSrv[c], frame)) :
                \/ l \in 1 .. Len(toSrv[c]) /\ Append(toSrv[c], frame)[l] = toSrv[c][l]
                \/ Append(toSrv[c], frame)[l] = frame
        <5>1. toSrv[c] \in Seq(Requests)
          BY DEF TypeOK
        <5>2. QED
          BY <5>1, AppendElements
      <4>3. QED
        BY <4>1, <4>2
    <3>3. QED
      BY <1>1, <3>1, <3>2, ClientSendType
  <2>2. QED
    BY <1>1, <2>1 DEF FramesTrue
<1>2. ASSUME UNCHANGED <<shared, toSrv>>
      PROVE  FramesTrue' /\ \A d \in Clients : shared[d] \subseteq shared'[d]
  BY <1>2 DEF FramesTrue
<1>3. ASSUME NEW frame \in Requests, ClientSend(c, frame), UNCHANGED shared,
             frame.cmd = "name" => frame.name = NameOf[c],
             frame.cmd # "sendmyfileslist"
      PROVE  FramesTrue' /\ \A d \in Clients : shared[d] \subseteq shared'[d]
  BY <1>1, <1>3
<1>4. ASSUME NEW files \in SUBSET Files,
             ClientSend(c, [cmd |-> "sendmyfileslist", files |-> files]),
             shared' = [shared EXCEPT ![c] = @ \cup files]
      PROVE  FramesTrue' /\ \A d \in Clients : shared[d] \subseteq shared'[d]
  <2>1. [cmd |-> "sendmyfileslist", files |-> files] \in Requests
    BY DEF Requests
  <2>2. files \subseteq shared'[c] /\ \A d \in Clients : shared[d] \subseteq shared'[d]
    BY <1>4 DEF TypeOK
  <2>3. QED
    BY <1>1, <1>4, <2>1, <2>2
<1>5. CASE \/ Connect(c) \/ ConnectFails(c) \/ AlarmRings(c) \/ ClientReceive(c)
           \/ ServerGone(c) \/ Leave(c)
  BY <1>2, <1>5 DEF Connect, ConnectFails, AlarmRings, ClientReceive, ServerGone, Leave
<1>6. CASE SendName(c)
  <2>1. [cmd |-> "name", name |-> NameOf[c]] \in Requests
    BY NamesAssumption DEF Requests
  <2>2. QED
    BY <1>3, <1>6, <2>1 DEF SendName
<1>7. CASE FirstFileList(c) \/ AlarmSends(c)
  BY <1>4, <1>7 DEF FirstFileList, AlarmSends
<1>8. CASE AskList(c)
  <2>1. [cmd |-> "list"] \in Requests
    BY DEF Requests
  <2>2. QED
    BY <1>3, <1>8, <2>1 DEF AskList, Command
<1>9. CASE SayExit(c)
  <2>1. [cmd |-> "exit"] \in Requests
    BY DEF Requests
  <2>2. QED
    BY <1>3, <1>9, <2>1 DEF SayExit, Command
<1>10. CASE AskFile(c)
  <2>1. PICK f \in Files : Command(c, [cmd |-> "get", file |-> f])
    BY <1>10 DEF AskFile
  <2>2. [cmd |-> "get", file |-> f] \in Requests
    BY DEF Requests
  <2>3. QED
    BY <1>3, <1>10, <2>1, <2>2 DEF AskFile, Command
<1>11. CASE SendFiles(c)
  BY <1>4, <1>11 DEF SendFiles, Command
<1>12. QED
  BY <1>5, <1>6, <1>7, <1>8, <1>9, <1>10, <1>11 DEF ClientProgress, UserStep

(* A client only takes messages off its connection.                         *)
LEMMA ClientMessages ==
    ASSUME TypeOK, NEW c \in Clients, ClientProgress(c) \/ UserStep(c)
    PROVE  \A d \in Clients : \A k \in 1 .. Len(toCli'[d]) :
              \E l \in 1 .. Len(toCli[d]) : toCli'[d][k] = toCli[d][l]
<1> USE DEF serverVars, tcpVars, clientVars
<1>1. CASE UNCHANGED toCli
  BY <1>1
<1>2. CASE ClientReceive(c)
  <2>1. toCli[c] # <<>> /\ toCli' = [toCli EXCEPT ![c] = Tail(toCli[c])]
    BY <1>2 DEF ClientReceive
  <2>2. \A k \in 1 .. Len(Tail(toCli[c])) :
            k + 1 \in 1 .. Len(toCli[c]) /\ Tail(toCli[c])[k] = toCli[c][k + 1]
    BY <2>1, TailElements DEF TypeOK
  <2>3. toCli'[c] = Tail(toCli[c]) /\ \A d \in Clients \ {c} : toCli'[d] = toCli[d]
    BY <2>1 DEF TypeOK
  <2>4. QED
    BY <2>2, <2>3
<1>3. CASE Leave(c)
  <2>1. toCli'[c] = <<>> /\ \A d \in Clients \ {c} : toCli'[d] = toCli[d]
    BY <1>3 DEF Leave, TypeOK
  <2>2. QED
    BY <2>1
<1>4. CASE \/ Connect(c) \/ ConnectFails(c) \/ SendName(c) \/ FirstFileList(c)
           \/ ServerGone(c) \/ AlarmRings(c) \/ AlarmSends(c)
  BY <1>1, <1>4 DEF Connect, ConnectFails, SendName, FirstFileList, ServerGone, AlarmRings,
                    AlarmSends
<1>5. CASE AskList(c) \/ AskFile(c) \/ SendFiles(c) \/ SayExit(c)
  BY <1>1, <1>5 DEF AskList, AskFile, SendFiles, SayExit, Command
<1>6. QED
  BY <1>2, <1>3, <1>4, <1>5 DEF ClientProgress, UserStep

(* The clients' steps keep all contents true.                               *)
LEMMA ClientContents ==
    ASSUME TypeOK, Descriptors, Program, Contents, NEW c \in Clients,
           ClientProgress(c) \/ UserStep(c)
    PROVE  Contents'
<1>1. UNCHANGED <<clientArray, fdTable, todo>>
  BY ClientLeavesServer
<1>2. (\A d \in Clients : shared[d] \subseteq shared'[d]) /\ FramesTrue'
  BY ClientFrames DEF Contents
<1>3. SlotHoldsOwnData'
  <2>1. Valid' = Valid /\ \A i \in Valid : Peer(i)' = Peer(i)
    BY <1>1 DEF Valid, Peer
  <2>2. \A i \in Valid : Peer(i) \in Clients
    BY PeerType DEF Descriptors
  <2>3. QED
    BY <1>1, <1>2, <2>1, <2>2 DEF Contents, SlotHoldsOwnData
<1>4. TodoTrue'
  <2>1. ASSUME NEW k \in 1 .. Len(todo)
        PROVE  fdTable[todo[k].fd] \in Clients
    <3>1. todo[k] \in [fd : Fds, msg : Replies]
      <4>1. todo \in Seq([fd : Fds, msg : Replies])
        BY DEF TypeOK
      <4>2. QED
        BY <4>1, ElementType
    <3>2. fdTable \in [Fds -> Clients \cup {NoClient}]
      BY DEF TypeOK
    <3>3. fdTable[todo[k].fd] # NoClient
      BY DEF Program
    <3>4. QED
      BY <3>1, <3>2, <3>3
  <2>2. QED
    BY <1>1, <1>2, <2>1 DEF Contents, TodoTrue
<1>5. GetReachesAnnouncer'
  <2> SUFFICES ASSUME NEW d \in Clients, NEW k \in 1 .. Len(toCli'[d]),
                      toCli'[d][k].cmd = "get"
               PROVE  toCli'[d][k].file \in shared'[d]
    BY DEF GetReachesAnnouncer
  <2>1. PICK l \in 1 .. Len(toCli[d]) : toCli'[d][k] = toCli[d][l]
    BY ClientMessages
  <2>2. toCli[d][l].file \in shared[d]
    BY <2>1 DEF Contents, GetReachesAnnouncer
  <2>3. QED
    BY <1>2, <2>1, <2>2
<1>6. QED
  BY <1>2, <1>3, <1>4, <1>5 DEF Contents

-----------------------------------------------------------------------------
(* recv() finds something.                                                  *)

(* Places where the server is between select() and the end of its round.    *)
InRound == {"accept", "scan", "push", "send"}

(* What was ready stays ready as long as slot and socket stay, no frame is  *)
(* taken off the connection and a closed one stays closed.                  *)
LEMMA StaysReady ==
    ASSUME ReadyBitsStayTrue, spc \in InRound,
           \A j \in Pending' :
              /\ j \in Pending
              /\ clientArray'[j].sock = clientArray[j].sock
              /\ fdTable'[clientArray[j].sock] = fdTable[clientArray[j].sock]
              /\ toSrv[Peer(j)] # <<>> => toSrv'[Peer(j)] # <<>>
              /\ conn[Peer(j)] \in {"fin", "rst", "broken"}
                    => conn'[Peer(j)] \in {"fin", "rst", "broken"}
    PROVE  ReadyBitsStayTrue'
<1> SUFFICES ASSUME NEW j \in Pending'
             PROVE  Readable(clientArray[j].sock)'
  BY DEF ReadyBitsStayTrue
<1>1. j \in Pending /\ Readable(clientArray[j].sock)
  BY DEF ReadyBitsStayTrue, InRound
<1>2. QED
  BY <1>1 DEF Readable, Peer

(* The slots the loop has to come to are valid ones, each with a client of  *)
(* its own.                                                                 *)
LEMMA PendingPeers ==
    ASSUME TypeOK, Descriptors, NEW j \in Pending
    PROVE  /\ j \in Valid /\ j \in Slots /\ clientArray[j].sock \in Fds
           /\ Peer(j) \in Clients
           /\ \A k \in 1 .. Len(backlog) : Peer(j) # backlog[k]
           /\ \A i \in Valid : i # j => /\ clientArray[j].sock # clientArray[i].sock
                                        /\ Peer(j) # Peer(i)
<1>1. j \in Valid
  BY DEF Pending
<1>2. j \in Slots /\ clientArray[j].sock \in Fds /\ Peer(j) \in Clients
  BY <1>1, PeerType DEF Descriptors
<1>3. \A k \in 1 .. Len(backlog) : Peer(j) # backlog[k]
  BY <1>2 DEF Descriptors, OnePlacePerClient, Peer
<1>4. ASSUME NEW i \in Valid, i # j
      PROVE  clientArray[j].sock # clientArray[i].sock /\ Peer(j) # Peer(i)
  <2>1. clientArray[j].sock # clientArray[i].sock /\ clientArray[i].sock \in Fds
    BY <1>1, <1>4, PeerType DEF Descriptors, SocketsMatchSlots
  <2>2. Peer(j) # NoClient
    BY <1>2, NoClientAssumption
  <2>3. QED
    BY <1>2, <2>1, <2>2 DEF Descriptors, OnePlacePerClient, Peer
<1>5. QED
  BY <1>1, <1>2, <1>3, <1>4

(* The server's steps up to the scan and after it.                          *)
LEMMA RoundStaysReady ==
    ASSUME TypeOK, Descriptors, Program, ReadyBitsStayTrue,
           \/ Select \/ AcceptConnection \/ TurnAway \/ ScanDone \/ PushDone
           \/ SendReply \/ \E i \in Slots : PushList(i)
    PROVE  ReadyBitsStayTrue'
<1> USE DEF tcpVars, clientVars
<1>1. CASE Select
  <2> SUFFICES ASSUME NEW j \in Pending'
               PROVE  Readable(clientArray[j].sock)'
    BY DEF ReadyBitsStayTrue
  <2>1. clientArray'[j].sock \in Ready /\ UNCHANGED <<clientArray, fdTable, conn, toSrv>>
    BY <1>1 DEF Select, Pending
  <2>2. Readable(clientArray[j].sock)
    BY <2>1 DEF Ready
  <2>3. QED
    BY <2>1, <2>2 DEF Readable
<1>2. CASE AcceptConnection
  <2>1. PICK i \in Slots, fd \in Fds :
            /\ i \notin Valid
            /\ fdTable[fd] = NoClient
            /\ clientArray' = [clientArray EXCEPT ![i] = NewSlot(i, fd)]
            /\ fdTable' = [fdTable EXCEPT ![fd] = Head(backlog)]
    BY <1>2 DEF AcceptConnection, IsFirst, FreeFds
  <2>2. clientArray'[i].sock = fd /\ \A j \in Slots \ {i} : clientArray'[j] = clientArray[j]
    BY <2>1 DEF TypeOK, NewSlot, EmptySlot
  <2>3. \A j \in Valid : clientArray[j].sock # fd
    BY <2>1 DEF Descriptors, SocketsMatchSlots
  <2>4. fd \notin readfds
    BY <1>2, <2>3 DEF Program, Watched, AcceptConnection
  <2>5. spc \in InRound /\ UNCHANGED <<idx, readfds, conn, toSrv>>
    BY <1>2 DEF AcceptConnection, InRound
  <2>6. ASSUME NEW j \in Pending'
        PROVE  j \in Pending /\ clientArray'[j].sock = clientArray[j].sock
    <3>1. /\ j \in Slots /\ clientArray'[j].valid /\ j >= idx
          /\ clientArray'[j].sock \in readfds
      BY <2>5 DEF Pending, Valid
    <3>2. j # i
      BY <2>2, <2>4, <3>1
    <3>3. QED
      BY <2>2, <3>1, <3>2 DEF Pending, Valid
  <2>7. ASSUME NEW j \in Pending
        PROVE  fdTable'[clientArray[j].sock] = fdTable[clientArray[j].sock]
    BY <2>1, <2>3, PendingPeers DEF TypeOK
  <2>8. QED
    BY <2>5, <2>6, <2>7, StaysReady
<1>3. ASSUME UNCHANGED <<clientArray, fdTable, idx, readfds>>, spc \in InRound,
             NEW d \in Clients,
             \A j \in Pending : Peer(j) # d,
             \A c \in Clients \ {d} : toSrv'[c] = toSrv[c] /\ conn'[c] = conn[c]
      PROVE  ReadyBitsStayTrue'
  <2>1. Pending' = Pending
    BY <1>3 DEF Pending, Valid
  <2>2. \A j \in Pending : Peer(j) \in Clients \ {d}
    BY <1>3, PendingPeers
  <2>3. QED
    BY <1>3, <2>1, <2>2, StaysReady
<1>4. CASE TurnAway
  <2>1. backlog # <<>> /\ Closed(Head(backlog))
    BY <1>4 DEF Program, TurnAway
  <2>2. /\ 1 \in 1 .. Len(backlog) /\ Head(backlog) = backlog[1]
        /\ Head(backlog) \in Clients
    BY <2>1, TailElements DEF TypeOK
  <2>3. \A j \in Pending : Peer(j) # Head(backlog)
    BY <2>2, PendingPeers
  <2>4. \A c \in Clients \ {Head(backlog)} : toSrv'[c] = toSrv[c] /\ conn'[c] = conn[c]
    BY <2>1 DEF Closed, TypeOK
  <2>5. UNCHANGED <<clientArray, fdTable, idx, readfds>> /\ spc \in InRound
    BY <1>4 DEF TurnAway, InRound
  <2>6. QED
    BY <1>3, <2>2, <2>3, <2>4, <2>5
<1>5. CASE ScanDone
  BY <1>5 DEF ScanDone, ReadyBitsStayTrue
<1>6. ASSUME UNCHANGED <<clientArray, fdTable, idx, readfds, toSrv>>, spc \in InRound,
             \A c \in Clients : conn[c] \in {"fin", "rst", "broken"}
                                   => conn'[c] \in {"fin", "rst", "broken"}
      PROVE  ReadyBitsStayTrue'
  <2>1. Pending' = Pending
    BY <1>6 DEF Pending, Valid
  <2>2. \A j \in Pending : Peer(j) \in Clients
    BY PendingPeers
  <2>3. QED
    BY <1>6, <2>1, <2>2, StaysReady
<1>7. CASE PushDone
  BY <1>6, <1>7 DEF PushDone, InRound
<1>8. ASSUME NEW c, NEW msg, Send(c, msg)
      PROVE  \A d \in Clients : conn[d] \in {"fin", "rst", "broken"}
                                   => conn'[d] \in {"fin", "rst", "broken"}
  BY <1>8 DEF Send, TypeOK
<1>9. CASE SendReply
  BY <1>6, <1>8, <1>9 DEF SendReply, InRound
<1>10. ASSUME NEW i \in Slots, PushList(i)
       PROVE  ReadyBitsStayTrue'
  BY <1>6, <1>8, <1>10 DEF PushList, InRound
<1>11. QED
  BY <1>1, <1>2, <1>4, <1>5, <1>7, <1>9, <1>10

(* A command takes frames off, or closes, only the connection it came over, *)
(* and the loop moves past it.                                              *)
LEMMA ConnectionStaysReady ==
    ASSUME TypeOK, Descriptors, ReadyBitsStayTrue, NEW i \in Slots, Connection(i)
    PROVE  ReadyBitsStayTrue'
<1> USE DEF clientVars
<1>1. Serve(i)
  BY DEF Connection, HandleName, HandleFiles, HandleFilesCrash, HandleList,
         HandleListCrash, HandleExit, HandleGet, HandleEof, HandleReset, Receive
<1>2. /\ i \in Valid /\ FindIndex(i) = i /\ i \in Int /\ spc \in InRound /\ i >= idx
      /\ clientArray[i].sock \in Fds /\ Peer(i) \in Clients
  BY <1>1, ServedSlot DEF Descriptors, Serve, InRound, IsFirst, Pending
<1>3. idx \in Int /\ \A j \in Slots : j \in Int
  BY SlotsAssumption DEF TypeOK, Slots
<1>4. ASSUME NEW cause, Die(cause)
      PROVE  ReadyBitsStayTrue'
  BY <1>4 DEF Die, ReadyBitsStayTrue
<1>5. CASE HandleFilesCrash(i) \/ HandleListCrash(i)
  BY <1>4, <1>5 DEF HandleFilesCrash, HandleListCrash
<1>6. ASSUME idx' = i + 1, UNCHANGED readfds,
             \A j \in Slots \ {i} : clientArray'[j] = clientArray[j],
             \A fd \in Fds \ {clientArray[i].sock} : fdTable'[fd] = fdTable[fd],
             \A c \in Clients \ {Peer(i)} : toSrv'[c] = toSrv[c] /\ conn'[c] = conn[c]
      PROVE  ReadyBitsStayTrue'
  <2>1. ASSUME NEW j \in Pending'
        PROVE  j # i /\ j \in Pending /\ clientArray'[j].sock = clientArray[j].sock
    <3>1. j \in Slots /\ j >= i + 1
      BY <1>6 DEF Pending, Valid
    <3>2. j # i /\ j >= idx
      BY <1>2, <1>3, <3>1
    <3>3. clientArray'[j] = clientArray[j]
      BY <1>6, <3>1, <3>2
    <3>4. QED
      BY <1>6, <3>1, <3>2, <3>3 DEF Pending, Valid
  <2>2. ASSUME NEW j \in Pending, j # i
        PROVE  /\ fdTable'[clientArray[j].sock] = fdTable[clientArray[j].sock]
               /\ toSrv'[Peer(j)] = toSrv[Peer(j)] /\ conn'[Peer(j)] = conn[Peer(j)]
    BY <1>2, <1>6, <2>2, PendingPeers
  <2>3. QED
    BY <1>2, <2>1, <2>2, StaysReady
<1>7. ASSUME Consumed(i), UNCHANGED <<readfds, fdTable, conn>>,
             \A j \in Slots \ {i} : clientArray'[j] = clientArray[j]
      PROVE  ReadyBitsStayTrue'
  BY <1>2, <1>6, <1>7 DEF Consumed, TypeOK
<1>8. CASE HandleName(i) \/ HandleFiles(i)
  <2>1. /\ Consumed(i) /\ UNCHANGED <<readfds, fdTable, conn>>
        /\ \E new : clientArray' = [clientArray EXCEPT ![i] = new]
    BY <1>2, <1>8 DEF HandleName, HandleFiles, Stored
  <2>2. \A j \in Slots \ {i} : clientArray'[j] = clientArray[j]
    BY <2>1 DEF TypeOK
  <2>3. QED
    BY <1>7, <2>1, <2>2
<1>9. CASE HandleList(i) \/ HandleGet(i)
  BY <1>7, <1>9 DEF HandleList, HandleGet
<1>10. CASE HandleExit(i) \/ HandleEof(i)
  <2>1. /\ idx' = i + 1 /\ UNCHANGED <<readfds, backlog>> /\ Closed(Peer(i))
        /\ clientArray' = Freed(i)
        /\ fdTable' = [fdTable EXCEPT ![clientArray[i].sock] = NoClient]
    BY <1>10 DEF HandleExit, HandleEof
  <2>2. \A j \in Slots \ {i} : clientArray'[j] = clientArray[j]
    BY <1>2, <2>1, FreeDescriptors
  <2>3. \A fd \in Fds \ {clientArray[i].sock} : fdTable'[fd] = fdTable[fd]
    BY <2>1 DEF TypeOK
  <2>4. \A c \in Clients \ {Peer(i)} : toSrv'[c] = toSrv[c] /\ conn'[c] = conn[c]
    BY <1>2, <2>1 DEF Closed, TypeOK
  <2>5. QED
    BY <1>6, <2>1, <2>2, <2>3, <2>4
<1>11. CASE HandleReset(i)
  <2>1. /\ idx' = i + 1 /\ UNCHANGED <<readfds, clientArray, fdTable, toSrv>>
        /\ conn' = [conn EXCEPT ![Peer(i)] = "broken"]
    BY <1>11 DEF HandleReset
  <2>2. \A c \in Clients \ {Peer(i)} : conn'[c] = conn[c]
    BY <2>1 DEF TypeOK
  <2>3. QED
    BY <1>6, <2>1, <2>2
<1>12. QED
  BY <1>5, <1>8, <1>9, <1>10, <1>11 DEF Connection

(* All of the server's steps.                                               *)
LEMMA ServerStaysReady ==
    ASSUME TypeOK, Descriptors, Program, ReadyBitsStayTrue, ServerStep
    PROVE  ReadyBitsStayTrue'
<1>1. ASSUME NEW cause, Die(cause)
      PROVE  ReadyBitsStayTrue'
  BY <1>1 DEF Die, ReadyBitsStayTrue
<1>2. CASE PushCrash \/ SendSigpipe \/ \E i \in Slots : PushSigpipe(i)
  BY <1>1, <1>2 DEF PushCrash, SendSigpipe, PushSigpipe
<1>3. CASE Start \/ StartFails
  BY <1>3 DEF Start, StartFails, ReadyBitsStayTrue
<1>4. QED
  BY <1>2, <1>3, RoundStaysReady, ConnectionStaysReady DEF ServerStep

(* The clients' steps: one that connects is not in the server yet, and the  *)
(* others only send and close.                                              *)
LEMMA ClientStaysReady ==
    ASSUME TypeOK, Descriptors, ReadyBitsStayTrue, NEW c \in Clients,
           ClientProgress(c) \/ UserStep(c)
    PROVE  ReadyBitsStayTrue'
<1> USE DEF serverVars, tcpVars, clientVars
<1>1. UNCHANGED <<clientArray, fdTable, spc, readfds, idx>>
  BY ClientLeavesServer
<1>2. Pending' = Pending
  BY <1>1 DEF Pending, Valid
<1>3. ASSUME \A j \in Pending :
                /\ toSrv[Peer(j)] # <<>> => toSrv'[Peer(j)] # <<>>
                /\ conn[Peer(j)] \in {"fin", "rst", "broken"}
                      => conn'[Peer(j)] \in {"fin", "rst", "broken"}
      PROVE  ReadyBitsStayTrue'
  <2>1. CASE spc \in InRound
    BY <1>1, <1>2, <1>3, <2>1, StaysReady
  <2>2. CASE spc \notin InRound
    BY <1>1, <2>2 DEF ReadyBitsStayTrue, InRound
  <2>3. QED
    BY <2>1, <2>2
<1>4. \A j \in Pending : Peer(j) \in Clients
  BY PendingPeers
<1>5. CASE Connect(c)
  <2>1. \A f \in Fds : fdTable[f] # c
    BY <1>5 DEF Descriptors, StartedNowhere, Connect
  <2>2. \A j \in Pending : Peer(j) # c
    BY <2>1, PendingPeers DEF Peer
  <2>3. \A j \in Pending : toSrv'[Peer(j)] = toSrv[Peer(j)] /\ conn'[Peer(j)] = conn[Peer(j)]
    BY <1>4, <1>5, <2>2 DEF Connect, TypeOK
  <2>4. QED
    BY <1>3, <2>3
<1>6. ASSUME NEW frame \in Requests, ClientSend(c, frame), UNCHANGED conn
      PROVE  ReadyBitsStayTrue'
  <2>1. \A d \in Clients : toSrv[d] # <<>> => toSrv'[d] # <<>>
    <3>1. CASE toSrv' = toSrv
      BY <3>1
    <3>2. CASE toSrv' = [toSrv EXCEPT ![c] = Append(toSrv[c], frame)]
      <4>1. toSrv[c] \in Seq(Requests) /\ toSrv \in [Clients -> Seq(Requests)]
        BY DEF TypeOK
      <4>2. Append(toSrv[c], frame) # <<>>
        BY <4>1
      <4>3. QED
        BY <3>2, <4>1, <4>2
    <3>3. QED
      BY <1>6, <3>1, <3>2, ClientSendType
  <2>2. QED
    BY <1>3, <1>4, <1>6, <2>1
<1>7. CASE SendName(c) \/ FirstFileList(c) \/ AlarmSends(c)
  <2>1. \E frame \in Requests : ClientSend(c, frame)
    BY <1>7, NamesAssumption DEF SendName, FirstFileList, AlarmSends, Requests
  <2>2. QED
    BY <1>6, <1>7, <2>1 DEF SendName, FirstFileList, AlarmSends
<1>8. CASE AskList(c) \/ AskFile(c) \/ SendFiles(c) \/ SayExit(c)
  <2>1. \E frame \in Requests : Command(c, frame)
    BY <1>8 DEF AskList, AskFile, SendFiles, SayExit, Requests
  <2>2. QED
    BY <1>6, <2>1 DEF Command
<1>9. CASE ConnectFails(c) \/ ClientReceive(c) \/ ServerGone(c) \/ AlarmRings(c)
  BY <1>3, <1>9 DEF ConnectFails, ClientReceive, ServerGone, AlarmRings
<1>10. CASE Leave(c)
  <2>1. UNCHANGED toSrv
    BY <1>10 DEF Leave
  <2>2. \A d \in Clients : conn[d] \in {"fin", "rst", "broken"}
                              => conn'[d] \in {"fin", "rst", "broken"}
    BY <1>10 DEF Leave, TypeOK
  <2>3. QED
    BY <1>3, <1>4, <2>1, <2>2
<1>11. QED
  BY <1>5, <1>7, <1>8, <1>9, <1>10 DEF ClientProgress, UserStep

-----------------------------------------------------------------------------
(* The invariant and what follows from it.                                  *)

(* The server starts with nothing open.                                     *)
LEMMA ServerInit ==
    ASSUME Init
    PROVE  ServerInv
<1>1. TypeOK
  <2>1. EmptySlot \in SlotSet
    BY DEF EmptySlot, SlotSet
  <2>2. clientArray \in [Slots -> SlotSet] /\ fdTable \in [Fds -> Clients \cup {NoClient}]
    BY <2>1 DEF Init, NoSlots, NoFds
  <2>3. 0 \in 0 .. NumSlots /\ {} \in Tables /\ \A c \in Clients : 0 <= MaxSends[c]
    BY SlotsAssumption, SendsAssumption DEF Tables
  <2>4. QED
    BY <2>2, <2>3 DEF TypeOK, Init, NoTable
<1>2. Valid = {}
  BY DEF Init, Valid, NoSlots, EmptySlot
<1>3. \A fd \in Fds : fdTable[fd] = NoClient
  BY DEF Init, NoFds
<1>4. Descriptors
  BY <1>2, <1>3, NoClientAssumption
     DEF Descriptors, SocketsMatchSlots, OnePlacePerClient, StartedNowhere, Init
<1>5. Program
  BY DEF Program, Init
<1>6. Contents
  BY <1>2 DEF Contents, FramesTrue, SlotHoldsOwnData, TodoTrue, GetReachesAnnouncer, Init
<1>7. ReadyBitsStayTrue
  BY DEF ReadyBitsStayTrue, Init
<1>8. QED
  BY <1>1, <1>4, <1>5, <1>6, <1>7 DEF ServerInv

(* Nothing happens to it while nothing happens.                             *)
LEMMA ServerStutter ==
    ASSUME ServerInv, UNCHANGED vars
    PROVE  ServerInv'
<1> USE DEF vars, serverVars, tcpVars, clientVars
<1>1. TypeOK'
  BY DEF ServerInv, TypeOK
<1>2. Valid' = Valid /\ \A i \in Valid : Peer(i)' = Peer(i)
  BY DEF Valid, Peer
<1>3. Descriptors'
  BY <1>2 DEF ServerInv, Descriptors, SocketsMatchSlots, OnePlacePerClient, StartedNowhere
<1>4. Program'
  BY <1>2 DEF ServerInv, Program, Watched
<1>5. Contents'
  BY <1>2 DEF ServerInv, Contents, FramesTrue, SlotHoldsOwnData, TodoTrue, GetReachesAnnouncer
<1>6. ReadyBitsStayTrue'
  BY <1>2 DEF ServerInv, ReadyBitsStayTrue, Pending, Readable
<1>7. QED
  BY <1>1, <1>3, <1>4, <1>5, <1>6 DEF ServerInv

(* Every step of the system keeps the invariant.                            *)
LEMMA ServerInvKept ==
    ASSUME ServerInv, [Next]_vars
    PROVE  ServerInv'
<1>1. TypeOK /\ Descriptors /\ Program /\ Contents /\ ReadyBitsStayTrue
  BY DEF ServerInv
<1>2. SocketsMatchSlots
  BY <1>1 DEF Descriptors
<1>3. CASE ServerStep
  <2>1. TypeOK'
    BY <1>1, <1>2, <1>3, ServerTypes
  <2>2. Descriptors' /\ Program' /\ Contents' /\ ReadyBitsStayTrue'
    BY <1>1, <1>3, ServerDescriptors, ServerProgram, ServerContents, ServerStaysReady
  <2>3. QED
    BY <2>1, <2>2 DEF ServerInv
<1>4. ASSUME NEW c \in Clients, ClientProgress(c) \/ UserStep(c)
      PROVE  ServerInv'
  BY <1>1, <1>4, ClientTypes, ClientDescriptors, ClientProgram, ClientContents,
     ClientStaysReady DEF ServerInv
<1>5. QED
  BY <1>3, <1>4, ServerStutter DEF Next

(* The inductive invariant holds in every state of every run.               *)
THEOREM ServerInvHolds == Spec => []ServerInv
BY ServerInit, ServerInvKept, PTL DEF Spec

(* Every variable of the coordinator keeps its type: the loops stay within  *)
(* the slots, and what is sent and received is well formed.                 *)
THEOREM ServerTypeCorrect == Spec => []TypeOK
<1>1. ServerInv => TypeOK
  BY DEF ServerInv
<1>2. QED
  BY <1>1, ServerInvHolds, PTL

(* Slots and open descriptors correspond one to one, whoever comes, leaves  *)
(* or is turned away.                                                       *)
THEOREM SocketsAlwaysMatch == Spec => []SocketsMatchSlots
<1>1. ServerInv => SocketsMatchSlots
  BY DEF ServerInv, Descriptors
<1>2. QED
  BY <1>1, ServerInvHolds, PTL

(* A slot says of its client only what that client announced.               *)
THEOREM SlotsHoldOwnData == Spec => []SlotHoldsOwnData
<1>1. ServerInv => SlotHoldsOwnData
  BY DEF ServerInv, Contents
<1>2. QED
  BY <1>1, ServerInvHolds, PTL

(* A client is asked to send only a file it announced.                      *)
THEOREM GetsReachAnnouncers == Spec => []GetReachesAnnouncer
<1>1. ServerInv => GetReachesAnnouncer
  BY DEF ServerInv, Contents
<1>2. QED
  BY <1>1, ServerInvHolds, PTL

(* The bits select() left in readfds stay true until the loop over the      *)
(* slots comes to them, though slots and descriptors are freed and reused.  *)
THEOREM ReadyBitsHold == Spec => []ReadyBitsStayTrue
<1>1. ServerInv => ReadyBitsStayTrue
  BY DEF ServerInv
<1>2. QED
  BY <1>1, ServerInvHolds, PTL
=============================================================================
