------------------------- MODULE PeerTransferProofs -------------------------
(***************************************************************************)
(* Proofs about the transfers between clients, for any number of clients   *)
(* and machines, any files, any number of gets and any splitting of        *)
(* frames.                                                                 *)
(*                                                                         *)
(* That a client transfers one file at a time rests on who may clear the   *)
(* flag: a thread on its way to the clearing is the only one of its        *)
(* client.  That the port is released by all who took it rests on the      *)
(* thread's place, not on the flag, which is cleared earlier.  The two     *)
(* together leave a free slot for the next thread.                         *)
(*                                                                         *)
(* That gets which do not overlap bring the right file needs two more      *)
(* invariants: a getter connects once, is queued once and is served by one *)
(* thread, so that size and data come from the same place in their turn;   *)
(* and in a calm system the frames, the threads, the names and the pieces  *)
(* under way are all about one file.                                       *)
(***************************************************************************)
EXTENDS PeerTransfer, SeqLemmas, TLAPS

(* An ip frame is on its way to the client.                                 *)
IpWaits(c) == \E k \in 1 .. Len(inbox[c]) : inbox[c][k].cmd = "ip"

(* What a thread is about has a name: a sendFile() thread that runs was     *)
(* given one, and no ip frame or getFile() thread is there before dlfile is.*)
Named ==
    /\ \A t \in Senders : sender[t].pc # "none" => sender[t].file \in Files
    /\ \A c \in Clients : dlfile[c] = NoFile =>
          /\ ~IpWaits(c)
          /\ \A g \in Getters : Owner(g) = c => getter[g] \in {"new", "done"}

(* The inductive invariant.                                                 *)
PeerInv == TypeOK /\ Named /\ OneTransferPerClient /\ PortsMatchListeners

-----------------------------------------------------------------------------
(* Types of the pieces.                                                     *)

(* A thread belongs to a client, which runs on a machine.                   *)
LEMMA OwnerType ==
    /\ \A t \in Senders : Owner(t) \in Clients /\ Host(t) \in Hosts /\ t # NoThread
    /\ \A g \in Getters : Owner(g) \in Clients
BY HostsAssumption, ThreadAssumption DEF Senders, Getters, Owner, Host

(* What each kind of frame carries.                                         *)
LEMMA FrameFields ==
    ASSUME NEW r \in Frames
    PROVE  /\ r.cmd = "get" => r.file \in Files
           /\ r.cmd = "ip" => r.host \in Hosts
           /\ r.cmd \in {"get", "ip"}
BY DEF Frames

(* A frame is a sequence of pieces.                                         *)
LEMMA FrameOfType ==
    ASSUME NEW part \in {"size", "data"}, NEW f \in Files
    PROVE  FrameOf(part, f) \in Seq(Pieces)
<1>1. FrameOf(part, f) \in [1 .. PiecesPerFrame -> Pieces]
  BY DEF FrameOf, Pieces
<1>2. PiecesPerFrame \in Nat
  BY BoundsAssumption
<1>3. QED
  BY <1>1, <1>2

(* Closing sockets keeps the types.                                         *)
LEMMA ClosePortsTypes ==
    ASSUME TypeOK, NEW ts, ClosePorts(ts)
    PROVE  /\ port' \in [Hosts -> Senders \cup {NoThread}]
           /\ backlog' \in [Hosts -> Seq(Getters)]
<1>1. /\ port \in [Hosts -> Senders \cup {NoThread}]
      /\ backlog \in [Hosts -> Seq(Getters)]
  BY DEF TypeOK
<1>2. port' \in [Hosts -> Senders \cup {NoThread}]
  BY <1>1 DEF ClosePorts
<1>3. backlog' \in [Hosts -> Seq(Getters)]
  BY <1>1 DEF ClosePorts
<1>4. QED
  BY <1>2, <1>3

(* Sending pieces to a getter keeps the types.                              *)
LEMMA DeliverTypes ==
    ASSUME TypeOK, NEW g \in Getters, NEW part \in {"size", "data"}, NEW f \in Files,
           Deliver(g, part, f), AfterSend(g)
    PROVE  /\ stream' \in [Getters -> Seq(Pieces)]
           /\ atSender' \in [Getters -> {"open", "fin", "reset", "broken"}]
<1>1. FrameOf(part, f) \in Seq(Pieces)
  BY FrameOfType
<1>2. stream \in [Getters -> Seq(Pieces)]
  BY DEF TypeOK
<1>3. stream[g] \o FrameOf(part, f) \in Seq(Pieces)
  BY <1>1, <1>2
<1>4. stream' \in [Getters -> Seq(Pieces)]
  BY <1>2, <1>3 DEF Deliver
<1>5. atSender' \in [Getters -> {"open", "fin", "reset", "broken"}]
  BY DEF AfterSend, TypeOK
<1>6. QED
  BY <1>4, <1>5

(* The end of a process keeps the types, and stops its threads.             *)
LEMMA ExitTypes ==
    ASSUME TypeOK, Named, NEW c \in Clients, NEW left, Exit(c, left), UNCHANGED historyVars
    PROVE  TypeOK' /\ Named'
<1> DEFINE ts == {t \in Senders : Owner(t) = c}
<1>1. /\ port' \in [Hosts -> Senders \cup {NoThread}]
      /\ backlog' \in [Hosts -> Seq(Getters)]
  <2>1. ClosePorts(ts)
    BY DEF Exit
  <2>2. QED
    BY <2>1, ClosePortsTypes
<1>2. sender' \in [Senders -> [pc   : Transferring \cup {"close", "none"},
                               file : Files \cup {NoFile},
                               peer : Getters \cup {NoPeer}]]
  BY DEF Exit, TypeOK, IdleSender
<1>3. getter' \in [Getters -> {"new", "sleep", "size", "data", "done"}]
  BY DEF Exit, TypeOK
<1>4. atSender' \in [Getters -> {"open", "fin", "reset", "broken"}]
  <2>1. \A g \in Getters : Hangup(g, left[g]) \in {"open", "fin", "reset", "broken"}
    BY DEF Hangup, TypeOK
  <2>2. QED
    BY <2>1 DEF Exit, TypeOK
<1>5. TypeOK'
  BY <1>1, <1>2, <1>3, <1>4 DEF Exit, TypeOK, historyVars
<1>6. Named'
  BY OwnerType DEF Named, Exit, TypeOK, IdleSender, IpWaits
<1>7. QED
  BY <1>5, <1>6

-----------------------------------------------------------------------------
(* Types and names, action by action.                                       *)

(* Typing a get stores its name before the frames go out.                   *)
LEMMA UserTypes ==
    ASSUME TypeOK, Named, NEW c \in Clients, UserThread(c)
    PROVE  TypeOK' /\ Named'
<1>1. PICK f \in Files : AskInVain(c, f) \/ \E o \in Clients : AskFile(c, f, o)
  BY DEF UserThread
<1>2. Type(c, f)
  BY <1>1 DEF AskInVain, AskFile
<1>3. gets' \in 0 .. MaxGets /\ calm' \in BOOLEAN
  BY <1>2, BoundsAssumption DEF Type, TypeOK, Quiet
<1>4. /\ dlfile' \in [Clients -> Files \cup {NoFile}]
      /\ dlfile'[c] # NoFile
      /\ \A d \in Clients \ {c} : dlfile'[d] = dlfile[d]
  BY <1>2, SharesAssumption DEF Type, NewName, TypeOK
<1>5. CASE AskInVain(c, f)
  <2>1. TypeOK'
    BY <1>2, <1>3, <1>4, <1>5 DEF TypeOK, AskInVain, Type, tcpVars
  <2>2. Named'
    BY <1>2, <1>4, <1>5, OwnerType DEF Named, AskInVain, Type, IpWaits
  <2>3. QED
    BY <2>1, <2>2
<1>6. ASSUME NEW o \in Clients, AskFile(c, f, o)
      PROVE  TypeOK' /\ Named'
  <2> DEFINE getFrame == [cmd |-> "get", file |-> f]
             ipFrame  == [cmd |-> "ip", host |-> HostOf[o]]
  <2>1. getFrame \in Frames /\ ipFrame \in Frames
    BY HostsAssumption DEF Frames
  <2>2. inbox \in [Clients -> Seq(Frames)]
    BY DEF TypeOK
  <2>3. /\ inbox'[o] = Append(inbox[o], getFrame)
        /\ inbox'[c] = Append(inbox[c], ipFrame)
        /\ \A d \in Clients \ {c, o} : inbox'[d] = inbox[d]
        /\ inbox' = [inbox EXCEPT ![o] = Append(@, getFrame), ![c] = Append(@, ipFrame)]
    BY <1>6, <2>2 DEF AskFile
  <2>4. Append(inbox[o], getFrame) \in Seq(Frames) /\ Append(inbox[c], ipFrame) \in Seq(Frames)
    BY <2>1, <2>2, AppendElements
  <2>5. inbox' \in [Clients -> Seq(Frames)]
    BY <2>2, <2>3, <2>4
  <2>6. TypeOK'
    BY <1>2, <1>3, <1>4, <2>5 DEF TypeOK, Type, tcpVars
  <2>7. ASSUME NEW d \in Clients, dlfile'[d] = NoFile
        PROVE  ~IpWaits(d)'
    <3>1. dlfile[d] = NoFile /\ d # c
      BY <1>4, <2>7
    <3>2. \A k \in 1 .. Len(inbox[d]) : inbox[d][k].cmd # "ip"
      BY <3>1 DEF Named, IpWaits
    <3>3. CASE d = o
      <4>1. \A k \in 1 .. Len(Append(inbox[o], getFrame)) :
                \/ Append(inbox[o], getFrame)[k] = getFrame
                \/ k \in 1 .. Len(inbox[o]) /\ Append(inbox[o], getFrame)[k] = inbox[o][k]
        BY <2>1, <2>2, AppendElements
      <4>2. inbox'[d] = Append(inbox[o], getFrame) /\ getFrame.cmd # "ip"
        BY <2>3, <3>3
      <4>3. QED
        <5> HIDE DEF getFrame
        <5> QED
          BY <3>2, <3>3, <4>1, <4>2 DEF IpWaits
    <3>4. CASE d # o
      BY <2>3, <3>1, <3>2, <3>4 DEF IpWaits
    <3>5. QED
      BY <3>3, <3>4
  <2>8. Named'
    BY <1>2, <1>4, <2>7, OwnerType DEF Named, Type
  <2>9. QED
    BY <2>6, <2>8
<1>7. QED
  BY <1>1, <1>5, <1>6

(* Receiving a frame takes it off the front.                                *)
LEMMA ReceivedTypes ==
    ASSUME TypeOK, NEW c \in Clients, NEW cmd, Received(c, cmd)
    PROVE  /\ inbox' \in [Clients -> Seq(Frames)]
           /\ Head(inbox[c]) \in Frames /\ Head(inbox[c]).cmd = cmd
           /\ cmd = "ip" => IpWaits(c)
           /\ \A d \in Clients : IpWaits(d)' => IpWaits(d)
<1>1. inbox \in [Clients -> Seq(Frames)] /\ inbox[c] # <<>>
  BY DEF TypeOK, Received
<1>2. /\ inbox' = [inbox EXCEPT ![c] = Tail(@)]
      /\ Head(inbox[c]).cmd = cmd
  BY DEF Received
<1>3. /\ Tail(inbox[c]) \in Seq(Frames)
      /\ 1 \in 1 .. Len(inbox[c]) /\ Head(inbox[c]) = inbox[c][1] /\ Head(inbox[c]) \in Frames
      /\ \A k \in 1 .. Len(Tail(inbox[c])) :
            k + 1 \in 1 .. Len(inbox[c]) /\ Tail(inbox[c])[k] = inbox[c][k + 1]
  BY <1>1, TailElements
<1>4. cmd = "ip" => IpWaits(c)
  BY <1>2, <1>3 DEF IpWaits
<1>5. ASSUME NEW d \in Clients, NEW k \in 1 .. Len(inbox'[d]), inbox'[d][k].cmd = "ip"
      PROVE  IpWaits(d)
  <2>1. CASE d = c
    <3>1. inbox'[d] = Tail(inbox[c])
      BY <1>1, <1>2, <2>1
    <3>2. k + 1 \in 1 .. Len(inbox[c]) /\ inbox'[d][k] = inbox[c][k + 1]
      BY <1>3, <1>5, <3>1
    <3>3. QED
      BY <1>5, <2>1, <3>2 DEF IpWaits
  <2>2. CASE d # c
    BY <1>1, <1>2, <1>5, <2>2 DEF IpWaits
  <2>3. QED
    BY <2>1, <2>2
<1>6. QED
  BY <1>1, <1>2, <1>3, <1>4, <1>5 DEF IpWaits

(* Obeying a frame keeps the types; an ip frame comes after its name.       *)
LEMMA MainTypes ==
    ASSUME TypeOK, Named, NEW c \in Clients, GetCommand(c)
    PROVE  TypeOK' /\ Named'
<1> USE DEF tcpVars, historyVars
<1>1. CASE StartSending(c)
  <2>1. Received(c, "get")
    BY <1>1 DEF StartSending
  <2>2. Head(inbox[c]).file \in Files
    BY <2>1, ReceivedTypes, FrameFields
  <2>3. PICK t \in Senders : sender' = [sender EXCEPT ![t] = [pc   |-> "bind",
                                                           file |-> Head(inbox[c]).file,
                                                           peer |-> NoPeer]]
    BY <1>1 DEF StartSending
  <2>4. sender' \in [Senders -> [pc   : Transferring \cup {"close", "none"},
                                 file : Files \cup {NoFile},
                                 peer : Getters \cup {NoPeer}]]
    BY <2>2, <2>3 DEF TypeOK, Transferring
  <2>5. TypeOK'
    BY <1>1, <2>1, <2>4, ReceivedTypes DEF TypeOK, StartSending
  <2>6. Named'
    BY <1>1, <2>1, <2>2, <2>3, ReceivedTypes DEF Named, StartSending, TypeOK
  <2>7. QED
    BY <2>5, <2>6
<1>2. CASE IgnoreGet(c)
  <2>1. Received(c, "get")
    BY <1>2 DEF IgnoreGet
  <2>2. TypeOK'
    BY <1>2, <2>1, ReceivedTypes DEF TypeOK, IgnoreGet
  <2>3. Named'
    BY <1>2, <2>1, ReceivedTypes DEF Named, IgnoreGet
  <2>4. QED
    BY <2>2, <2>3
<1>3. CASE StartGetting(c)
  <2>1. Received(c, "ip")
    BY <1>3 DEF StartGetting
  <2>2. Head(inbox[c]).host \in Hosts
    BY <2>1, ReceivedTypes, FrameFields
  <2>3. dlfile[c] # NoFile
    BY <2>1, ReceivedTypes DEF Named
  <2>4. PICK n : getter' = [getter EXCEPT ![<<c, n>>] = "sleep"]
    BY <1>3 DEF StartGetting
  <2>5. TypeOK'
    BY <1>3, <2>1, <2>2, <2>4, ReceivedTypes DEF TypeOK, StartGetting
  <2>6. \A g \in Getters : Owner(g) # c => getter'[g] = getter[g]
    BY <2>4 DEF Owner, TypeOK
  <2>7. Named'
    BY <1>3, <2>1, <2>3, <2>6, ReceivedTypes DEF Named, StartGetting
  <2>8. QED
    BY <2>5, <2>7
<1>4. QED
  BY <1>1, <1>2, <1>3 DEF GetCommand
(* A thread that goes to another place keeps the types of the threads.      *)
LEMMA GoToTypes ==
    ASSUME TypeOK, NEW t \in Senders, NEW pc \in Transferring \cup {"close"},
           sender[t].pc # "none", GoTo(t, pc)
    PROVE  /\ sender' \in [Senders -> [pc   : Transferring \cup {"close", "none"},
                                       file : Files \cup {NoFile},
                                       peer : Getters \cup {NoPeer}]]
           /\ \A u \in Senders : sender'[u].file = sender[u].file
                                /\ (sender'[u].pc = "none" <=> sender[u].pc = "none")
BY DEF GoTo, TypeOK, Transferring

(* So does one that ends.                                                   *)
LEMMA EndTypes ==
    ASSUME TypeOK, NEW t \in Senders, EndCleared(t) \/ EndUncleared(t)
    PROVE  /\ sender' \in [Senders -> [pc   : Transferring \cup {"close", "none"},
                                       file : Files \cup {NoFile},
                                       peer : Getters \cup {NoPeer}]]
           /\ sender' = [sender EXCEPT ![t] = IdleSender]
           /\ alreadyTransferring' \in [Clients -> BOOLEAN]
           /\ \A u \in Senders : sender'[u].pc # "none" => sender'[u].file = sender[u].file
                                                         /\ sender[u].pc # "none"
<1>1. sender' = [sender EXCEPT ![t] = IdleSender]
  BY DEF EndCleared, EndUncleared
<1>2. alreadyTransferring' \in [Clients -> BOOLEAN]
  BY DEF EndCleared, EndUncleared, TypeOK
<1>3. QED
  BY <1>1, <1>2 DEF TypeOK, IdleSender

(* A sendFile() thread keeps the types while it sets up its socket.         *)
LEMMA SetupTypes ==
    ASSUME TypeOK, Named, NEW t \in Senders,
           Bind(t) \/ SetupFails(t) \/ Listen(t) \/ ListenFails(t)
    PROVE  TypeOK' /\ Named'
<1> USE DEF tcpVars, historyVars, AtSender
<1>1. CASE Bind(t)
  <2>1. GoTo(t, "listen") /\ sender[t].pc # "none"
    BY <1>1 DEF Bind
  <2>2. QED
    BY <1>1, <2>1, GoToTypes DEF TypeOK, Named, Bind, Transferring, IpWaits
<1>2. CASE SetupFails(t)
  <2>1. EndCleared(t)
    BY <1>2 DEF SetupFails
  <2>2. QED
    BY <1>2, <2>1, EndTypes DEF TypeOK, Named, SetupFails, IpWaits
<1>3. CASE Listen(t)
  <2>1. GoTo(t, "select") /\ sender[t].pc # "none"
    BY <1>3 DEF Listen
  <2>2. QED
    BY <1>3, <2>1, GoToTypes DEF TypeOK, Named, Listen, Transferring, IpWaits
<1>4. CASE ListenFails(t)
  <2>1. EndUncleared(t)
    BY <1>4 DEF ListenFails
  <2>2. QED
    BY <1>4, <2>1, EndTypes DEF TypeOK, Named, ListenFails, IpWaits
<1>5. QED
  BY <1>1, <1>2, <1>3, <1>4

(* A sendFile() thread keeps the types while it sends, and when it ends.    *)
LEMMA SendTypes ==
    ASSUME TypeOK, Named, NEW t \in Senders,
           \/ Serve(t) \/ GiveUp(t) \/ SendData(t) \/ SendDataFails(t)
           \/ ClearFlag(t) \/ CloseSockets(t)
    PROVE  TypeOK' /\ Named'
<1> USE DEF tcpVars, historyVars, AtSender
<1>1. CASE Serve(t)
  <2> DEFINE g == Head(backlog[Host(t)])
  <2>1. /\ g \in Getters
        /\ Tail(backlog[Host(t)]) \in Seq(Getters)
    <3>1. backlog[Host(t)] \in Seq(Getters) /\ backlog[Host(t)] # <<>>
      BY <1>1, OwnerType DEF Serve, TypeOK
    <3>2. QED
      BY <3>1, TailElements
  <2>2. sender[t].pc = "select" /\ sender[t].file \in Files
    BY <1>1 DEF Serve, Named
  <2>3. /\ stream' \in [Getters -> Seq(Pieces)]
        /\ atSender' \in [Getters -> {"open", "fin", "reset", "broken"}]
    BY <1>1, <2>1, <2>2, DeliverTypes DEF Serve
  <2>4. backlog' \in [Hosts -> Seq(Getters)]
    BY <1>1, <2>1 DEF Serve, TypeOK
  <2>5. /\ sender' = [sender EXCEPT ![t].pc = "data", ![t].peer = g]
        /\ "data" \in Transferring
    BY <1>1 DEF Serve, Transferring
  <2>6. sender' \in [Senders -> [pc   : Transferring \cup {"close", "none"},
                                 file : Files \cup {NoFile},
                                 peer : Getters \cup {NoPeer}]]
    <3> HIDE DEF g
    <3>1. sender[t] \in [pc : Transferring \cup {"close", "none"},
                        file : Files \cup {NoFile}, peer : Getters \cup {NoPeer}]
      BY DEF TypeOK
    <3>2. [sender[t] EXCEPT !.pc = "data", !.peer = g]
             \in [pc : Transferring \cup {"close", "none"},
                 file : Files \cup {NoFile}, peer : Getters \cup {NoPeer}]
      BY <2>1, <2>5, <3>1
    <3>3. sender' = [sender EXCEPT ![t] = [sender[t] EXCEPT !.pc = "data", !.peer = g]]
      BY <2>5 DEF TypeOK
    <3>4. QED
      BY <3>2, <3>3 DEF TypeOK
  <2>7. TypeOK'
    BY <1>1, <2>3, <2>4, <2>6 DEF TypeOK, Serve
  <2>8. \A u \in Senders : sender'[u].file = sender[u].file
                          /\ (sender'[u].pc = "none" <=> sender[u].pc = "none")
    BY <2>2, <2>5 DEF TypeOK
  <2>9. Named'
    BY <1>1, <2>8 DEF Named, Serve, IpWaits
  <2>10. QED
    BY <2>7, <2>9
<1>2. CASE GiveUp(t)
  <2>1. ClosePorts({t}) /\ EndCleared(t)
    BY <1>2 DEF GiveUp
  <2>2. TypeOK'
    BY <1>2, <2>1, EndTypes, ClosePortsTypes DEF TypeOK, GiveUp
  <2>3. Named'
    BY <1>2, <2>1, EndTypes DEF Named, GiveUp, IpWaits
  <2>4. QED
    BY <2>2, <2>3
<1>3. CASE SendData(t)
  <2> DEFINE g == sender[t].peer
  <2>1. sender[t].pc = "data" /\ GoTo(t, "clear")
    BY <1>3 DEF SendData
  <2>2. sender[t].file \in Files
    BY <2>1 DEF Named
  <2>3. /\ stream' \in [Getters -> Seq(Pieces)]
        /\ atSender' \in [Getters -> {"open", "fin", "reset", "broken"}]
    <3>1. CASE g \in Getters
      BY <1>3, <2>2, <3>1, DeliverTypes DEF SendData
    <3>2. CASE g \notin Getters
      BY <1>3, <3>2 DEF SendData, Deliver, AfterSend, TypeOK
    <3>3. QED
      BY <3>1, <3>2
  <2>4. TypeOK'
    BY <1>3, <2>1, <2>3, GoToTypes DEF TypeOK, SendData, Transferring
  <2>5. Named'
    BY <1>3, <2>1, GoToTypes DEF Named, SendData, Transferring, IpWaits
  <2>6. QED
    BY <2>4, <2>5
<1>4. CASE SendDataFails(t)
  <2>1. ClosePorts({t}) /\ EndUncleared(t)
    BY <1>4 DEF SendDataFails
  <2>2. TypeOK'
    BY <1>4, <2>1, EndTypes, ClosePortsTypes DEF TypeOK, SendDataFails
  <2>3. Named'
    BY <1>4, <2>1, EndTypes DEF Named, SendDataFails, IpWaits
  <2>4. QED
    BY <2>2, <2>3
<1>5. CASE ClearFlag(t)
  <2>1. GoTo(t, "close") /\ sender[t].pc # "none"
    BY <1>5 DEF ClearFlag
  <2>2. QED
    BY <1>5, <2>1, GoToTypes DEF TypeOK, Named, ClearFlag, IpWaits
<1>6. CASE CloseSockets(t)
  <2>1. ClosePorts({t}) /\ EndUncleared(t)
    BY <1>6 DEF CloseSockets
  <2>2. TypeOK'
    BY <1>6, <2>1, EndTypes, ClosePortsTypes DEF TypeOK, CloseSockets
  <2>3. Named'
    BY <1>6, <2>1, EndTypes DEF Named, CloseSockets, IpWaits
  <2>4. QED
    BY <2>2, <2>3
<1>7. QED
  BY <1>1, <1>2, <1>3, <1>4, <1>5, <1>6

(* A getFile() thread keeps the types; what it writes has a name.           *)
LEMMA GetterTypes ==
    ASSUME TypeOK, Named, NEW g \in Getters, GetFile(g)
    PROVE  TypeOK' /\ Named'
<1> USE DEF tcpVars, historyVars, AtGetter, GetterGoesTo
<1>1. Owner(g) \in Clients
  BY OwnerType
<1>2. getter[g] \notin {"new", "done"} => dlfile[Owner(g)] \in Files
  BY <1>1 DEF Named, TypeOK
<1>3. stream[g] \in Seq(Pieces)
  BY DEF TypeOK
<1>4. \A left : Hung(g, left) => atSender' \in [Getters -> {"open", "fin", "reset", "broken"}]
  BY DEF Hung, Hangup, TypeOK
<1>5. <<>> \in Seq(Pieces) /\ \A m \in Takes(g) :
          SubSeq(stream[g], m + 1, Len(stream[g])) \in Seq(Pieces)
  BY <1>3, BoundsAssumption DEF Takes
<1>6. CASE Connect(g)
  <2>1. \A h \in Hosts : Append(backlog[h], g) \in Seq(Getters)
    BY AppendElements DEF TypeOK
  <2>2. backlog' \in [Hosts -> Seq(Getters)]
    BY <1>6, <2>1 DEF Connect, TypeOK
  <2>3. TypeOK'
    BY <1>6, <2>2 DEF TypeOK, Connect
  <2>4. Named'
    BY <1>2, <1>6 DEF Named, Connect, TypeOK, IpWaits
  <2>5. QED
    BY <2>3, <2>4
<1>7. CASE ConnectFails(g)
  BY <1>7 DEF TypeOK, Named, ConnectFails, IpWaits
<1>8. CASE RecvSize(g)
  <2>1. stream' \in [Getters -> Seq(Pieces)]
    BY <1>5, <1>8 DEF RecvSize, TypeOK
  <2>2. TypeOK'
    BY <1>8, <2>1 DEF TypeOK, RecvSize
  <2>3. Named'
    BY <1>2, <1>8 DEF Named, RecvSize, TypeOK, IpWaits
  <2>4. QED
    BY <2>2, <2>3
<1>9. CASE RecvData(g)
  <2>1. stream' \in [Getters -> Seq(Pieces)]
    BY <1>5, <1>9 DEF RecvData, TypeOK
  <2>2. atSender' \in [Getters -> {"open", "fin", "reset", "broken"}]
    BY <1>4, <1>9 DEF RecvData
  <2>3. \A d \in downloads' : d.by \in Getters /\ d.name \in Files
    BY <1>2, <1>9 DEF RecvData, TypeOK
  <2>4. TypeOK'
    BY <1>9, <2>1, <2>2, <2>3 DEF TypeOK, RecvData
  <2>5. Named'
    BY <1>2, <1>9 DEF Named, RecvData, TypeOK, IpWaits
  <2>6. QED
    BY <2>4, <2>5
<1>10. CASE GetterGivesUp(g)
  <2>1. stream' \in [Getters -> Seq(Pieces)]
    BY <1>5, <1>10 DEF GetterGivesUp, TypeOK
  <2>2. atSender' \in [Getters -> {"open", "fin", "reset", "broken"}]
    BY <1>4, <1>10 DEF GetterGivesUp
  <2>3. TypeOK'
    BY <1>10, <2>1, <2>2 DEF TypeOK, GetterGivesUp
  <2>4. Named'
    BY <1>2, <1>10 DEF Named, GetterGivesUp, TypeOK, IpWaits
  <2>5. QED
    BY <2>3, <2>4
<1>11. CASE CannotWrite(g)
  BY <1>1, <1>11, ExitTypes DEF CannotWrite
<1>12. QED
  BY <1>6, <1>7, <1>8, <1>9, <1>10, <1>11 DEF GetFile
-----------------------------------------------------------------------------
(* One transfer per client.                                                 *)

(* What the two properties look at in the threads and flags.                *)
Threads ==
    /\ sender \in [Senders -> [pc   : Transferring \cup {"close", "none"},
                               file : Files \cup {NoFile},
                               peer : Getters \cup {NoPeer}]]
    /\ alreadyTransferring \in [Clients -> BOOLEAN]
    /\ port \in [Hosts -> Senders \cup {NoThread}]
    /\ backlog \in [Hosts -> Seq(Getters)]

(* A thread that goes from a place to another, both before the clearing of  *)
(* the flag, or ends there with the flag cleared, leaves all others alone.  *)
LEMMA OneTransferOfThread ==
    ASSUME Threads, OneTransferPerClient, NEW t \in Senders,
           \/ sender[t].pc \in Transferring
              /\ (\E pc \in Transferring : GoTo(t, pc))
              /\ UNCHANGED alreadyTransferring
           \/ EndUncleared(t)
           \/ sender[t].pc \in Transferring /\ EndCleared(t)
    PROVE  OneTransferPerClient'
<1>1. CASE sender[t].pc \in Transferring
           /\ (\E pc \in Transferring : GoTo(t, pc))
           /\ UNCHANGED alreadyTransferring
  BY <1>1 DEF Threads, OneTransferPerClient, GoTo
<1>2. CASE EndUncleared(t)
  BY <1>2 DEF Threads, OneTransferPerClient, EndUncleared, IdleSender, Transferring
<1>3. CASE sender[t].pc \in Transferring /\ EndCleared(t)
  <2>1. \A u \in Senders \ {t} : Owner(u) = Owner(t) => sender[u].pc \notin Transferring
    BY <1>3 DEF OneTransferPerClient
  <2>2. QED
    BY <1>3, <2>1, OwnerType DEF Threads, OneTransferPerClient, EndCleared, IdleSender,
       Transferring
<1>4. QED
  BY <1>1, <1>2, <1>3

(* The flag keeps a second thread out, and every step of a thread keeps     *)
(* flag and thread together.                                                *)
LEMMA OneTransferKept ==
    ASSUME PeerInv, Next
    PROVE  OneTransferPerClient'
<1>1. Threads /\ OneTransferPerClient
  BY DEF PeerInv, TypeOK, Threads
<1>2. ASSUME NEW c \in Clients, NEW left, Exit(c, left)
      PROVE  OneTransferPerClient'
  BY <1>1, <1>2 DEF Threads, OneTransferPerClient, Exit, IdleSender, Transferring
<1>3. ASSUME NEW c \in Clients, UserThread(c)
      PROVE  OneTransferPerClient'
  BY <1>1, <1>3 DEF UserThread, AskFile, AskInVain, Type, OneTransferPerClient
<1>4. ASSUME NEW c \in Clients, GetCommand(c)
      PROVE  OneTransferPerClient'
  <2>1. CASE StartSending(c)
    <3>1. \A t \in Senders : Owner(t) = c => sender[t].pc \notin Transferring
      BY <1>1, <2>1 DEF StartSending, Busy, OneTransferPerClient
    <3>2. PICK t \in Senders :
              /\ Owner(t) = c
              /\ sender' = [sender EXCEPT ![t] = [pc   |-> "bind",
                                                 file |-> Head(inbox[c]).file,
                                                 peer |-> NoPeer]]
      BY <2>1 DEF StartSending
    <3>3. \A u \in Senders \ {t} : sender'[u] = sender[u]
      BY <1>1, <3>2 DEF Threads
    <3>4. /\ alreadyTransferring'[c]
          /\ \A d \in Clients \ {c} : alreadyTransferring'[d] = alreadyTransferring[d]
      BY <1>1, <2>1 DEF Threads, StartSending
    <3>5. QED
      BY <1>1, <3>1, <3>2, <3>3, <3>4, OwnerType DEF OneTransferPerClient
  <2>2. CASE IgnoreGet(c) \/ StartGetting(c)
    BY <1>1, <2>2 DEF IgnoreGet, StartGetting, OneTransferPerClient, historyVars
  <2>3. QED
    BY <1>4, <2>1, <2>2 DEF GetCommand
<1>5. ASSUME NEW t \in Senders, SendFile(t)
      PROVE  OneTransferPerClient'
  <2> USE DEF AtSender, Transferring
  <2>1. CASE Bind(t) \/ Listen(t) \/ SendData(t)
    BY <1>1, <2>1, OneTransferOfThread DEF Bind, Listen, SendData
  <2>2. CASE SetupFails(t) \/ GiveUp(t)
    BY <1>1, <2>2, OneTransferOfThread DEF SetupFails, GiveUp
  <2>3. CASE ListenFails(t) \/ SendDataFails(t) \/ CloseSockets(t)
    BY <1>1, <2>3, OneTransferOfThread DEF ListenFails, SendDataFails, CloseSockets
  <2>4. CASE Serve(t)
    <3>1. \A u \in Senders : sender'[u].pc \in Transferring <=> sender[u].pc \in Transferring
      BY <1>1, <2>4 DEF Serve, Threads
    <3>2. QED
      BY <1>1, <2>4, <3>1 DEF Serve, OneTransferPerClient
  <2>5. CASE ClearFlag(t)
    <3>1. \A u \in Senders \ {t} : Owner(u) = Owner(t) => sender[u].pc \notin Transferring
      BY <1>1, <2>5 DEF ClearFlag, OneTransferPerClient
    <3>2. QED
      BY <1>1, <2>5, <3>1, OwnerType DEF ClearFlag, GoTo, Threads, OneTransferPerClient
  <2>6. CASE MissingFile(t) \/ SendDataKills(t)
    BY <1>2, <2>6, OwnerType DEF MissingFile, SendDataKills
  <2>7. QED
    BY <1>5, <2>1, <2>2, <2>3, <2>4, <2>5, <2>6 DEF SendFile
<1>6. ASSUME NEW g \in Getters, GetFile(g)
      PROVE  OneTransferPerClient'
  <2>1. CASE CannotWrite(g)
    BY <1>2, <2>1, OwnerType DEF CannotWrite
  <2>2. CASE ~CannotWrite(g)
    BY <1>1, <1>6, <2>2 DEF GetFile, Connect, ConnectFails, RecvSize, RecvData,
       GetterGivesUp, OneTransferPerClient
  <2>3. QED
    BY <2>1, <2>2
<1>7. QED
  BY <1>2, <1>3, <1>4, <1>5, <1>6 DEF Next, Leave

-----------------------------------------------------------------------------
(* Ports and their listeners.                                               *)

(* Ending threads and closing their ports goes together.                    *)
LEMMA ClosingReleases ==
    ASSUME Threads, PortsMatchListeners, NEW ts \in SUBSET Senders, ClosePorts(ts),
           sender' = [t \in Senders |-> IF t \in ts THEN IdleSender ELSE sender[t]]
    PROVE  PortsMatchListeners'
<1>1. \A h \in Hosts : port'[h] = IF port[h] \in ts THEN NoThread ELSE port[h]
  BY DEF ClosePorts, Threads
<1>2. \A h \in Hosts : backlog'[h] = IF port[h] \in ts THEN <<>> ELSE backlog[h]
  BY DEF ClosePorts, Threads
<1>3. ASSUME NEW t \in Senders
      PROVE  sender'[t].pc \in Listening <=> port'[Host(t)] = t
  <2>1. sender[t].pc \in Listening <=> port[Host(t)] = t
    BY DEF PortsMatchListeners
  <2>2. CASE t \in ts
    BY <1>1, <2>2, OwnerType DEF IdleSender, Listening
  <2>3. CASE t \notin ts
    BY <1>1, <2>1, <2>3, OwnerType
  <2>4. QED
    BY <2>2, <2>3
<1>4. \A h \in Hosts : port'[h] # NoThread => Host(port'[h]) = h
  BY <1>1 DEF PortsMatchListeners
<1>5. \A h \in Hosts : port'[h] = NoThread => backlog'[h] = <<>>
  BY <1>1, <1>2 DEF PortsMatchListeners
<1>6. QED
  BY <1>3, <1>4, <1>5 DEF PortsMatchListeners, Host

(* A thread that ends and closes its own port.                              *)
LEMMA ThreadReleases ==
    ASSUME Threads, PortsMatchListeners, NEW t \in Senders, ClosePorts({t}),
           sender' = [sender EXCEPT ![t] = IdleSender]
    PROVE  PortsMatchListeners'
<1>1. sender' = [u \in Senders |-> IF u \in {t} THEN IdleSender ELSE sender[u]]
  BY DEF Threads
<1>2. QED
  BY <1>1, ClosingReleases

(* A thread that goes on, its port and the queue there unchanged.           *)
LEMMA ThreadKeepsPort ==
    ASSUME Threads, PortsMatchListeners, UNCHANGED port,
           \A u \in Senders : sender'[u].pc \in Listening <=> sender[u].pc \in Listening,
           \A h \in Hosts : port[h] = NoThread => backlog'[h] = backlog[h]
    PROVE  PortsMatchListeners'
BY DEF PortsMatchListeners, Host

(* Every step leaves each port with its listener.                           *)
LEMMA PortsKept ==
    ASSUME PeerInv, Next
    PROVE  PortsMatchListeners'
<1>1. Threads /\ PortsMatchListeners
  BY DEF PeerInv, TypeOK, Threads
<1>2. ASSUME NEW c \in Clients, NEW left, Exit(c, left)
      PROVE  PortsMatchListeners'
  <2> DEFINE ts == {t \in Senders : Owner(t) = c}
  <2>1. /\ ClosePorts(ts)
        /\ sender' = [t \in Senders |-> IF t \in ts THEN IdleSender ELSE sender[t]]
    BY <1>2 DEF Exit
  <2> HIDE DEF ts
  <2>2. ts \in SUBSET Senders
    BY DEF ts
  <2>3. QED
    BY <1>1, <2>1, <2>2, ClosingReleases
<1>3. ASSUME NEW c \in Clients, UserThread(c)
      PROVE  PortsMatchListeners'
  BY <1>1, <1>3 DEF UserThread, AskFile, AskInVain, Type, tcpVars, PortsMatchListeners, Host
<1>4. ASSUME NEW c \in Clients, GetCommand(c)
      PROVE  PortsMatchListeners'
  <2>1. CASE StartSending(c)
    <3>1. PICK t \in Senders :
              /\ sender[t].pc = "none"
              /\ sender' = [sender EXCEPT ![t] = [pc   |-> "bind",
                                                 file |-> Head(inbox[c]).file,
                                                 peer |-> NoPeer]]
      BY <2>1 DEF StartSending
    <3>2. \A u \in Senders : sender'[u].pc \in Listening <=> sender[u].pc \in Listening
      BY <1>1, <3>1 DEF Threads, Listening
    <3>3. QED
      BY <1>1, <2>1, <3>2, ThreadKeepsPort DEF StartSending, tcpVars
  <2>2. CASE IgnoreGet(c) \/ StartGetting(c)
    BY <1>1, <2>2, ThreadKeepsPort DEF IgnoreGet, StartGetting, tcpVars
  <2>3. QED
    BY <1>4, <2>1, <2>2 DEF GetCommand
<1>5. ASSUME NEW t \in Senders, SendFile(t)
      PROVE  PortsMatchListeners'
  <2> USE DEF AtSender
  <2>1. CASE Bind(t) \/ SendData(t) \/ ClearFlag(t)
    <3>1. \A u \in Senders : sender'[u].pc \in Listening <=> sender[u].pc \in Listening
      BY <1>1, <2>1 DEF Threads, Listening, Bind, SendData, ClearFlag, GoTo
    <3>2. QED
      BY <1>1, <2>1, <3>1, ThreadKeepsPort DEF Bind, SendData, ClearFlag, tcpVars
  <2>2. CASE SetupFails(t) \/ ListenFails(t)
    <3>1. \A u \in Senders : sender'[u].pc \in Listening <=> sender[u].pc \in Listening
      BY <1>1, <2>2 DEF Threads, Listening, SetupFails, ListenFails, EndCleared,
         EndUncleared, IdleSender
    <3>2. QED
      BY <1>1, <2>2, <3>1, ThreadKeepsPort DEF SetupFails, ListenFails, tcpVars
  <2>3. CASE Serve(t)
    <3>1. \A u \in Senders : sender'[u].pc \in Listening <=> sender[u].pc \in Listening
      BY <1>1, <2>3 DEF Threads, Listening, Serve
    <3>2. port[Host(t)] = t /\ t # NoThread
      BY <1>1, <2>3, OwnerType DEF Serve, PortsMatchListeners, Listening
    <3>3. \A h \in Hosts : port[h] = NoThread => backlog'[h] = backlog[h]
      BY <1>1, <2>3, <3>2 DEF Serve, Threads
    <3>4. QED
      BY <1>1, <2>3, <3>1, <3>3, ThreadKeepsPort DEF Serve
  <2>4. CASE Listen(t)
    <3>1. /\ port[Host(t)] = NoThread
          /\ port' = [port EXCEPT ![Host(t)] = t]
          /\ sender' = [sender EXCEPT ![t].pc = "select"]
          /\ backlog' = backlog
      BY <2>4 DEF Listen, GoTo
    <3>2. ASSUME NEW u \in Senders
          PROVE  sender'[u].pc \in Listening <=> port'[Host(u)] = u
      <4>1. CASE u = t
        BY <1>1, <3>1, <4>1, OwnerType DEF Threads, Listening
      <4>2. CASE u # t
        BY <1>1, <3>1, <4>2, OwnerType DEF Threads, PortsMatchListeners
      <4>3. QED
        BY <4>1, <4>2
    <3>3. \A h \in Hosts : port'[h] # NoThread => Host(port'[h]) = h
      BY <1>1, <3>1, OwnerType DEF Threads, PortsMatchListeners
    <3>4. \A h \in Hosts : port'[h] = NoThread => backlog'[h] = <<>>
      BY <1>1, <3>1, OwnerType DEF Threads, PortsMatchListeners
    <3>5. QED
      BY <3>2, <3>3, <3>4 DEF PortsMatchListeners, Host
  <2>5. CASE GiveUp(t) \/ SendDataFails(t) \/ CloseSockets(t)
    BY <1>1, <2>5, ThreadReleases DEF GiveUp, SendDataFails, CloseSockets, EndCleared,
       EndUncleared
  <2>6. CASE MissingFile(t) \/ SendDataKills(t)
    BY <1>2, <2>6, OwnerType DEF MissingFile, SendDataKills
  <2>7. QED
    BY <1>5, <2>1, <2>2, <2>3, <2>4, <2>5, <2>6 DEF SendFile
<1>6. ASSUME NEW g \in Getters, GetFile(g)
      PROVE  PortsMatchListeners'
  <2>1. CASE Connect(g)
    <3>1. \A h \in Hosts : port[h] = NoThread => backlog'[h] = backlog[h]
      BY <1>1, <2>1 DEF Connect, Threads
    <3>2. QED
      BY <1>1, <2>1, <3>1, ThreadKeepsPort DEF Connect
  <2>2. CASE ConnectFails(g) \/ RecvSize(g) \/ RecvData(g) \/ GetterGivesUp(g)
    BY <1>1, <2>2, ThreadKeepsPort DEF ConnectFails, RecvSize, RecvData, GetterGivesUp,
       tcpVars
  <2>3. CASE CannotWrite(g)
    BY <1>2, <2>3, OwnerType DEF CannotWrite
  <2>4. QED
    BY <1>6, <2>1, <2>2, <2>3 DEF GetFile
<1>7. QED
  BY <1>2, <1>3, <1>4, <1>5, <1>6 DEF Next, Leave

-----------------------------------------------------------------------------
(* The invariant holds at first.                                            *)
LEMMA InitPeer == Init => PeerInv
<1> SUFFICES ASSUME Init PROVE PeerInv
  OBVIOUS
<1>1. TypeOK
  <2>1. IdleSender \in [pc   : Transferring \cup {"close", "none"},
                       file : Files \cup {NoFile},
                       peer : Getters \cup {NoPeer}]
    BY DEF IdleSender
  <2>2. QED
    BY <2>1, BoundsAssumption DEF Init, TypeOK
<1>2. Named
  BY OwnerType DEF Init, Named, IdleSender, IpWaits
<1>3. OneTransferPerClient
  BY DEF Init, OneTransferPerClient, IdleSender, Transferring
<1>4. PortsMatchListeners
  BY OwnerType DEF Init, PortsMatchListeners, IdleSender, Listening
<1>5. QED
  BY <1>1, <1>2, <1>3, <1>4 DEF PeerInv

(* Every step of the clients keeps it.                                      *)
LEMMA StepPeer == PeerInv /\ [Next]_vars => PeerInv'
<1> SUFFICES ASSUME PeerInv, [Next]_vars PROVE PeerInv'
  OBVIOUS
<1>1. CASE Next
  <2>1. TypeOK /\ Named
    BY DEF PeerInv
  <2>2. ASSUME NEW c \in Clients, Leave(c) \/ UserThread(c) \/ GetCommand(c)
        PROVE  TypeOK' /\ Named'
    BY <2>1, <2>2, ExitTypes, UserTypes, MainTypes DEF Leave
  <2>3. ASSUME NEW t \in Senders, SendFile(t)
        PROVE  TypeOK' /\ Named'
    <3>1. CASE MissingFile(t) \/ SendDataKills(t)
      BY <2>1, <3>1, ExitTypes, OwnerType DEF MissingFile, SendDataKills
    <3>2. QED
      BY <2>1, <2>3, <3>1, SetupTypes, SendTypes DEF SendFile
  <2>4. ASSUME NEW g \in Getters, GetFile(g)
        PROVE  TypeOK' /\ Named'
    BY <2>1, <2>4, GetterTypes
  <2>5. TypeOK' /\ Named'
    BY <1>1, <2>2, <2>3, <2>4 DEF Next
  <2>6. QED
    BY <1>1, <2>5, OneTransferKept, PortsKept DEF PeerInv
<1>2. CASE UNCHANGED vars
  <2> USE <1>2 DEF PeerInv, vars, processVars, tcpVars, historyVars
  <2>1. TypeOK'
    BY DEF TypeOK
  <2>2. Named'
    BY DEF Named, IpWaits
  <2>3. OneTransferPerClient' /\ PortsMatchListeners'
    BY DEF OneTransferPerClient, PortsMatchListeners, Host
  <2>4. QED
    BY <2>1, <2>2, <2>3
<1>3. QED
  BY <1>1, <1>2

(* The inductive invariant holds in every state.                            *)
LEMMA PeerInvariant == Spec => []PeerInv
BY InitPeer, StepPeer, PTL DEF Spec

(* The variables of the clients keep their types, and no file is written    *)
(* without a name.                                                          *)
THEOREM PeerTypeCorrect == Spec => []TypeOK
<1>1. PeerInv => TypeOK
  BY DEF PeerInv
<1>2. QED
  BY <1>1, PeerInvariant, PTL

(* A client never has two threads between the test of the flag and its      *)
(* clearing, and the flag is set while it has one.                          *)
THEOREM TransfersExclusive == Spec => []OneTransferPerClient
<1>1. PeerInv => OneTransferPerClient
  BY DEF PeerInv
<1>2. QED
  BY <1>1, PeerInvariant, PTL

(* No exit path of sendFile() leaks the port.                               *)
THEOREM PortsReleased == Spec => []PortsMatchListeners
<1>1. PeerInv => PortsMatchListeners
  BY DEF PeerInv
<1>2. QED
  BY <1>1, PeerInvariant, PTL

(* Two threads per client are enough for every behaviour: a client that is  *)
(* not busy has a free one.                                                 *)
THEOREM SlotsSuffice == Spec => []SenderSlotsSuffice
<1>1. PeerInv => SenderSlotsSuffice
  <2> SUFFICES ASSUME PeerInv, NEW c \in Clients, ~alreadyTransferring[c]
               PROVE  \E t \in Senders : Owner(t) = c /\ sender[t].pc = "none"
    BY DEF SenderSlotsSuffice
  <2> DEFINE a == <<c, 1>>
             b == <<c, 2>>
  <2>1. a \in Senders /\ b \in Senders /\ a # b /\ Owner(a) = c /\ Owner(b) = c
    BY DEF Senders, Owner
  <2>2. Host(a) = Host(b)
    BY <2>1 DEF Host
  <2> HIDE DEF a, b
  <2>3. \A t \in {a, b} : sender[t].pc \in {"close", "none"}
    BY <2>1 DEF PeerInv, TypeOK, OneTransferPerClient
  <2>4. \A t \in {a, b} : sender[t].pc = "close" => port[Host(t)] = t
    BY <2>1 DEF PeerInv, PortsMatchListeners, Listening
  <2>5. QED
    BY <2>1, <2>2, <2>3, <2>4
<1>2. QED
  BY <1>1, PeerInvariant, PTL
-----------------------------------------------------------------------------
(* Gets that do not overlap.  A piece that reaches a getter was sent over   *)
(* its connection; what has to be followed is that a connection has one     *)
(* sender, and that in a calm system everything under way is about the one  *)
(* file of the last get.                                                    *)

(* g waits in a listening socket to be accepted.                            *)
Queued(g) == \E h \in Hosts : \E i \in 1 .. Len(backlog[h]) : backlog[h][i] = g

(* t has accepted g's connection and sent the size, not yet the data.       *)
Serves(t, g) == sender[t].pc = "data" /\ sender[t].peer = g

(* No getter is queued twice.                                               *)
QueuedOnce ==
    \A h, k \in Hosts : \A i \in 1 .. Len(backlog[h]), j \in 1 .. Len(backlog[k]) :
        backlog[h][i] = backlog[k][j] => h = k /\ i = j

(* A getter connects once, is queued once and is served once.               *)
Connections ==
    /\ \A g \in Getters : getter[g] \in {"new", "sleep"} =>
          stream[g] = <<>> /\ ~Queued(g) /\ \A t \in Senders : ~Serves(t, g)
    /\ \A g \in Getters : Queued(g) =>
          /\ getter[g] # "data" /\ (getter[g] = "size" => stream[g] = <<>>)
          /\ \A t \in Senders : ~Serves(t, g)
    /\ QueuedOnce
    /\ \A t, u \in Senders :
          /\ sender[t].pc = "data" => sender[t].peer \in Getters
          /\ sender[t].pc = "data" /\ Serves(u, sender[t].peer) => t = u

(* A getter has received, has and will be sent a size, then data.           *)
TakesTurns(g) ==
    /\ getter[g] = "size" =>
          /\ Len(stream[g]) <= 2
          /\ Len(stream[g]) >= 1 => stream[g][1].part = "size"
          /\ Len(stream[g]) = 2 => stream[g][2].part = "data"
          /\ \A t \in Senders : Serves(t, g) => Len(stream[g]) = 1
    /\ getter[g] = "data" =>
          /\ Len(stream[g]) <= 1
          /\ Len(stream[g]) = 1 => stream[g][1].part = "data"
          /\ \A t \in Senders : Serves(t, g) => Len(stream[g]) = 0

(* So it is with every getter where frames arrive whole.                    *)
InTurn == \A g \in Getters : TakesTurns(g)

(* A frame of the coordinator to c is about f.                              *)
FrameAbout(c, r, f) == (r.cmd = "get" => r.file = f) /\ (r.cmd = "ip" => dlfile[c] = f)

(* Everything under way is about f.                                         *)
About(f) ==
    /\ \A c \in alive : \A k \in 1 .. Len(inbox[c]) : FrameAbout(c, inbox[c][k], f)
    /\ \A t \in Senders : sender[t].pc # "none" => sender[t].file = f
    /\ \A g \in Getters : getter[g] \in {"sleep", "size", "data"} =>
          /\ dlfile[Owner(g)] = f
          /\ \A k \in 1 .. Len(stream[g]) : stream[g][k].file = f

(* In a calm system all that is under way is about one file, and all that   *)
(* has arrived is what it is called.                                        *)
CalmKept ==
    /\ calm => \E f \in Files \cup {NoFile} : About(f)
    /\ CalmDownloadsAreRight

(* The inductive invariant of the gets that do not overlap.                 *)
CalmInv ==
    /\ PeerInv
    /\ Connections
    /\ PiecesPerFrame = 1 => InTurn
    /\ CalmKept

-----------------------------------------------------------------------------
(* Who connects, and who is served.                                         *)

(* Getters only end, queues are only dropped, sending only stops.           *)
Subsides ==
    /\ \A g \in Getters : getter'[g] = "done" \/ (getter'[g] = getter[g] /\ stream'[g] = stream[g])
    /\ \A h \in Hosts : backlog'[h] = <<>> \/ backlog'[h] = backlog[h]
    /\ \A t \in Senders : sender'[t].pc # "data" \/ sender'[t] = sender[t]

(* Then no connection is made, and none is taken for another.               *)
LEMMA SubsidingConnections ==
    ASSUME Connections, PiecesPerFrame = 1 => InTurn, Subsides
    PROVE  Connections' /\ (PiecesPerFrame = 1 => InTurn')
<1>1. \A g \in Getters : Queued(g)' => Queued(g)
  BY DEF Queued, Subsides
<1>2. \A t \in Senders : \A g : Serves(t, g)' => Serves(t, g)
  BY DEF Serves, Subsides
<1>3. QueuedOnce'
  BY DEF Connections, QueuedOnce, Subsides
<1>4. \A t, u \in Senders :
          /\ sender'[t].pc = "data" => sender'[t].peer \in Getters
          /\ sender'[t].pc = "data" /\ Serves(u, sender[t].peer)' => t = u
  BY <1>2 DEF Connections, Subsides
<1>5. Connections'
  <2>1. \A g \in Getters : getter'[g] \in {"new", "sleep"} =>
            stream'[g] = <<>> /\ ~Queued(g)' /\ \A t \in Senders : ~Serves(t, g)'
    BY <1>1, <1>2 DEF Connections, Subsides
  <2>2. \A g \in Getters : Queued(g)' =>
            /\ getter'[g] # "data" /\ (getter'[g] = "size" => stream'[g] = <<>>)
            /\ \A t \in Senders : ~Serves(t, g)'
    BY <1>1, <1>2 DEF Connections, Subsides
  <2>3. \A t, u \in Senders :
            sender'[t].pc = "data" /\ Serves(u, sender[t].peer)' => t = u
    BY <1>4
  <2>4. \A t \in Senders : sender'[t].pc = "data" => sender'[t] = sender[t]
    BY DEF Subsides
  <2>5. QED
    BY <1>3, <1>4, <2>1, <2>2, <2>3, <2>4 DEF Connections
<1>6. InTurn => InTurn'
  BY <1>2 DEF InTurn, TakesTurns, Subsides
<1>7. QED
  BY <1>5, <1>6

(* What is found at two places of the queues is found at one.               *)
LEMMA OnceInQueue ==
    ASSUME Connections, NEW h \in Hosts, NEW k \in Hosts,
           NEW i \in 1 .. Len(backlog[h]), NEW j \in 1 .. Len(backlog[k]),
           backlog[h][i] = backlog[k][j]
    PROVE  h = k /\ i = j
<1>1. QueuedOnce
  BY DEF Connections
<1>2. QED
  BY <1>1, Zenon DEF QueuedOnce

(* connect() queues a getter that was nowhere.                              *)
LEMMA ConnectingConnections ==
    ASSUME TypeOK, Connections, PiecesPerFrame = 1 => InTurn, NEW g \in Getters, Connect(g)
    PROVE  Connections' /\ (PiecesPerFrame = 1 => InTurn')
<1>1. /\ getter[g] = "sleep" /\ getter' = [getter EXCEPT ![g] = "size"]
      /\ backlog' = [backlog EXCEPT ![ipaddress[Owner(g)]] = Append(@, g)]
      /\ UNCHANGED <<sender, stream>>
  BY DEF Connect, AtGetter, GetterGoesTo
<1>2. /\ getter'[g] = "size" /\ \A k \in Getters \ {g} : getter'[k] = getter[k]
      /\ stream[g] = <<>> /\ ~Queued(g) /\ \A t \in Senders : ~Serves(t, g)
  BY <1>1 DEF TypeOK, Connections
<1>3. ASSUME NEW h \in Hosts, NEW i \in 1 .. Len(backlog'[h])
      PROVE  \/ i \in 1 .. Len(backlog[h]) /\ backlog'[h][i] = backlog[h][i]
             \/ backlog'[h][i] = g /\ h = ipaddress[Owner(g)] /\ i = Len(backlog[h]) + 1
  <2>1. backlog[h] \in Seq(Getters)
    BY DEF TypeOK
  <2>2. backlog'[h] = IF h = ipaddress[Owner(g)] THEN Append(backlog[h], g) ELSE backlog[h]
    BY <1>1 DEF TypeOK
  <2>3. QED
    BY <1>3, <2>1, <2>2
<1>4. \A k \in Getters : Queued(k)' => Queued(k) \/ k = g
  BY <1>3 DEF Queued
<1>5. QueuedOnce'
  <2>1. ASSUME NEW h \in Hosts, NEW k \in Hosts,
               NEW i \in 1 .. Len(backlog'[h]), NEW j \in 1 .. Len(backlog'[k]),
               backlog'[h][i] = backlog'[k][j]
        PROVE  h = k /\ i = j
    <3>1. CASE backlog'[h][i] = g
      <4>1. \A e \in Hosts : \A n \in 1 .. Len(backlog[e]) : backlog[e][n] # g
        BY <1>2 DEF Queued
      <4>2. h = ipaddress[Owner(g)] /\ i = Len(backlog[h]) + 1
        BY <1>3, <3>1, <4>1
      <4>3. k = ipaddress[Owner(g)] /\ j = Len(backlog[k]) + 1
        BY <1>3, <2>1, <3>1, <4>1
      <4>4. QED
        BY <4>2, <4>3
    <3>2. CASE backlog'[h][i] # g
      <4>1. i \in 1 .. Len(backlog[h]) /\ backlog'[h][i] = backlog[h][i]
        BY <1>3, <3>2
      <4>2. j \in 1 .. Len(backlog[k]) /\ backlog'[k][j] = backlog[k][j]
        BY <1>3, <2>1, <3>2
      <4>3. backlog[h][i] = backlog[k][j]
        BY <2>1, <4>1, <4>2
      <4>4. QED
        BY <4>1, <4>2, <4>3, OnceInQueue
    <3>3. QED
      BY <3>1, <3>2
  <2>2. QED
    BY <2>1 DEF QueuedOnce
<1>6. \A t \in Senders : \A k : Serves(t, k)' <=> Serves(t, k)
  BY <1>1 DEF Serves
<1>7. Connections'
  BY <1>1, <1>2, <1>4, <1>5, <1>6 DEF Connections
<1>8. InTurn => InTurn'
  BY <1>1, <1>2, <1>6 DEF InTurn, TakesTurns
<1>9. QED
  BY <1>7, <1>8

(* An ip frame wakes a getter that was nowhere.                             *)
LEMMA WakingConnections ==
    ASSUME TypeOK, Connections, PiecesPerFrame = 1 => InTurn, NEW c \in Clients, StartGetting(c)
    PROVE  Connections' /\ (PiecesPerFrame = 1 => InTurn')
<1>1. PICK n \in 1 .. MaxGets : /\ getter[<<c, n>>] = "new"
                               /\ getter' = [getter EXCEPT ![<<c, n>>] = "sleep"]
  BY DEF StartGetting
<1> DEFINE g == <<c, n>>
<1>2. g \in Getters
  BY DEF Getters
<1>3. UNCHANGED <<sender, stream, backlog>>
  BY DEF StartGetting, tcpVars
<1>4. getter[g] = "new" /\ getter'[g] = "sleep" /\ \A k \in Getters \ {g} : getter'[k] = getter[k]
  BY <1>1, <1>2 DEF TypeOK
<1> HIDE DEF g
<1>5. \A k : (Queued(k)' <=> Queued(k)) /\ \A t : Serves(t, k)' <=> Serves(t, k)
  BY <1>3 DEF Queued, Serves
<1>6. Connections'
  BY <1>2, <1>3, <1>4, <1>5 DEF Connections, QueuedOnce
<1>7. InTurn => InTurn'
  BY <1>2, <1>3, <1>4, <1>5 DEF InTurn, TakesTurns
<1>8. QED
  BY <1>6, <1>7

(* What a frame consists of.                                                *)
LEMMA FramePieces ==
    ASSUME NEW part \in {"size", "data"}, NEW f \in Files
    PROVE  /\ FrameOf(part, f) \in Seq(Pieces) /\ Len(FrameOf(part, f)) = PiecesPerFrame
           /\ \A k \in 1 .. PiecesPerFrame :
                 FrameOf(part, f)[k] = [part |-> part, file |-> f, nr |-> k]
<1>1. PiecesPerFrame \in Nat
  BY BoundsAssumption
<1>2. DOMAIN FrameOf(part, f) = 1 .. PiecesPerFrame
  BY DEF FrameOf
<1>3. FrameOf(part, f) \in Seq(Pieces)
  BY FrameOfType
<1>4. Len(FrameOf(part, f)) = PiecesPerFrame
  BY <1>1, <1>2, <1>3
<1>5. QED
  BY <1>3, <1>4 DEF FrameOf

(* What a getter has after a frame was sent to it.                          *)
LEMMA DeliveredPieces ==
    ASSUME TypeOK, NEW g \in Getters, NEW part \in {"size", "data"}, NEW f \in Files,
           Deliver(g, part, f)
    PROVE  /\ \A k \in Getters \ {g} : stream'[k] = stream[k]
           /\ getter[g] \notin {"size", "data"} => stream'[g] = stream[g]
           /\ getter[g] \in {"size", "data"} =>
                 /\ Len(stream'[g]) = Len(stream[g]) + PiecesPerFrame
                 /\ \A k \in 1 .. Len(stream'[g]) :
                       \/ k \in 1 .. Len(stream[g]) /\ stream'[g][k] = stream[g][k]
                       \/ /\ k - Len(stream[g]) \in 1 .. PiecesPerFrame
                          /\ stream'[g][k].part = part /\ stream'[g][k].file = f
<1>1. stream \in [Getters -> Seq(Pieces)] /\ stream[g] \in Seq(Pieces)
  BY DEF TypeOK
<1>2. /\ \A k \in Getters \ {g} : stream'[k] = stream[k]
      /\ getter[g] \notin {"size", "data"} => stream'[g] = stream[g]
      /\ getter[g] \in {"size", "data"} => stream'[g] = stream[g] \o FrameOf(part, f)
  BY <1>1 DEF Deliver
<1>3. ASSUME getter[g] \in {"size", "data"}
      PROVE  /\ Len(stream'[g]) = Len(stream[g]) + PiecesPerFrame
             /\ \A k \in 1 .. Len(stream'[g]) :
                   \/ k \in 1 .. Len(stream[g]) /\ stream'[g][k] = stream[g][k]
                   \/ /\ k - Len(stream[g]) \in 1 .. PiecesPerFrame
                      /\ stream'[g][k].part = part /\ stream'[g][k].file = f
  <2> DEFINE s == stream[g]
             d == FrameOf(part, f)
  <2>1. s \in Seq(Pieces) /\ d \in Seq(Pieces) /\ Len(d) = PiecesPerFrame
    BY <1>1, FramePieces
  <2>2. \A k \in 1 .. PiecesPerFrame : d[k] = [part |-> part, file |-> f, nr |-> k]
    BY FramePieces
  <2>3. stream'[g] = s \o d
    BY <1>2, <1>3
  <2> HIDE DEF s, d
  <2>4. /\ Len(s \o d) = Len(s) + PiecesPerFrame
        /\ \A k \in 1 .. Len(s) + PiecesPerFrame :
              (s \o d)[k] = IF k <= Len(s) THEN s[k] ELSE d[k - Len(s)]
    BY <2>1, ConcatElements
  <2>5. Len(s) \in Nat /\ PiecesPerFrame \in Nat
    BY <2>1, BoundsAssumption
  <2>6. ASSUME NEW k \in 1 .. Len(s) + PiecesPerFrame
        PROVE  \/ k \in 1 .. Len(s) /\ (s \o d)[k] = s[k]
               \/ /\ k - Len(s) \in 1 .. PiecesPerFrame
                  /\ (s \o d)[k].part = part /\ (s \o d)[k].file = f
    <3>0. /\ k \in Nat /\ k >= 1 /\ k <= Len(s) + PiecesPerFrame
          /\ Len(s) \in Nat /\ PiecesPerFrame \in Nat
      BY <2>5
    <3>1. CASE k <= Len(s)
      BY <2>4, <3>0, <3>1
    <3>2. CASE k > Len(s)
      <4>1. (s \o d)[k] = d[k - Len(s)]
        BY <2>4, <3>0, <3>2
      <4>2. k - Len(s) \in 1 .. PiecesPerFrame
        BY <3>0, <3>2
      <4>3. d[k - Len(s)] = [part |-> part, file |-> f, nr |-> k - Len(s)]
        BY <2>2, <4>2
      <4>4. (s \o d)[k].part = part /\ (s \o d)[k].file = f
        BY <4>1, <4>3
      <4>5. QED
        BY <4>2, <4>4, Zenon
    <3>3. k <= Len(s) \/ k > Len(s)
      BY <3>0
    <3>4. QED
      BY <3>1, <3>2, <3>3, Zenon
  <2>7. QED
    BY <2>3, <2>4, <2>6 DEF s
<1>4. QED
  BY <1>2, <1>3

(* recv() of the size takes the first pieces.                               *)
LEMMA ReadingConnections ==
    ASSUME TypeOK, Connections, PiecesPerFrame = 1 => InTurn, NEW g \in Getters, RecvSize(g)
    PROVE  Connections' /\ (PiecesPerFrame = 1 => InTurn')
<1>1. PICK m \in Takes(g) : stream' = [stream EXCEPT ![g] = SubSeq(@, m + 1, Len(@))]
  BY DEF RecvSize
<1>2. getter[g] = "size" /\ getter' = [getter EXCEPT ![g] = "data"] /\ UNCHANGED <<sender, backlog>>
  BY DEF RecvSize, AtGetter, GetterGoesTo
<1>3. stream[g] \in Seq(Pieces) /\ m \in 1 .. PiecesPerFrame /\ m <= Len(stream[g])
  BY DEF TypeOK, Takes
<1>4. /\ getter'[g] = "data" /\ stream'[g] = SubSeq(stream[g], m + 1, Len(stream[g]))
      /\ \A k \in Getters \ {g} : getter'[k] = getter[k] /\ stream'[k] = stream[k]
  BY <1>1, <1>2 DEF TypeOK
<1>5. \A k : (Queued(k)' <=> Queued(k)) /\ \A t : Serves(t, k)' <=> Serves(t, k)
  BY <1>2 DEF Queued, Serves
<1>6. ~Queued(g)
  <2>1. m >= 1 /\ Len(stream[g]) >= 1
    BY <1>3, BoundsAssumption
  <2>2. stream[g] # <<>>
    BY <1>3, <2>1
  <2>3. QED
    BY <1>2, <2>2 DEF Connections
<1>7. Connections'
  BY <1>2, <1>4, <1>5, <1>6 DEF Connections, QueuedOnce
<1>8. ASSUME PiecesPerFrame = 1
      PROVE  InTurn'
  <2>1. InTurn /\ m = 1
    BY <1>3, <1>8
  <2>2. /\ Len(stream[g]) <= 2
        /\ Len(stream[g]) = 2 => stream[g][2].part = "data"
        /\ \A t \in Senders : Serves(t, g) => Len(stream[g]) = 1
    BY <1>2, <2>1 DEF InTurn, TakesTurns
  <2>3. /\ Len(stream'[g]) = Len(stream[g]) - 1
        /\ Len(stream'[g]) = 1 => stream'[g][1] = stream[g][2]
    BY <1>3, <1>4, <2>1
  <2>4. Len(stream[g]) \in Nat
    BY <1>3
  <2>5. Len(stream'[g]) <= 1 /\ (Len(stream'[g]) = 1 => Len(stream[g]) = 2)
    BY <2>2, <2>3, <2>4
  <2>6. \A t \in Senders : Serves(t, g)' => Len(stream'[g]) = 0
    BY <1>5, <2>2, <2>3
  <2>7. TakesTurns(g)'
    BY <1>4, <2>2, <2>3, <2>5, <2>6 DEF TakesTurns
  <2>8. \A k \in Getters \ {g} : TakesTurns(k) => TakesTurns(k)'
    BY <1>4, <1>5 DEF TakesTurns
  <2>9. QED
    BY <2>1, <2>7, <2>8 DEF InTurn
<1>9. QED
  BY <1>7, <1>8

(* The first getter of the queue is accepted and sent the size.             *)
LEMMA ServingConnections ==
    ASSUME TypeOK, Named, Connections, PiecesPerFrame = 1 => InTurn,
           NEW t \in Senders, Serve(t)
    PROVE  Connections' /\ (PiecesPerFrame = 1 => InTurn')
<1> DEFINE h == Host(t)
<1>1. PICK g : /\ g = Head(backlog[h])
               /\ sender[t].pc = "select" /\ backlog[h] # <<>>
               /\ backlog' = [backlog EXCEPT ![h] = Tail(@)]
               /\ sender' = [sender EXCEPT ![t].pc = "data", ![t].peer = g]
               /\ Deliver(g, "size", sender[t].file)
               /\ UNCHANGED getter
  BY DEF Serve, AtSender
<1>2. h \in Hosts
  BY OwnerType
<1> HIDE DEF h
<1>3. /\ Tail(backlog[h]) \in Seq(Getters)
      /\ 1 \in 1 .. Len(backlog[h]) /\ g = backlog[h][1] /\ g \in Getters
      /\ \A i \in 1 .. Len(Tail(backlog[h])) :
            i + 1 \in 1 .. Len(backlog[h]) /\ Tail(backlog[h])[i] = backlog[h][i + 1]
  <2>1. backlog[h] \in Seq(Getters)
    BY <1>2 DEF TypeOK
  <2>2. QED
    BY <1>1, <2>1, TailElements
<1>4. Queued(g)
  BY <1>2, <1>3 DEF Queued
<1>5. /\ getter[g] \notin {"new", "sleep", "data"} /\ (getter[g] = "size" => stream[g] = <<>>)
      /\ \A u \in Senders : ~Serves(u, g)
  BY <1>3, <1>4 DEF Connections
<1>6. /\ sender'[t].pc = "data" /\ sender'[t].peer = g
      /\ \A u \in Senders \ {t} : sender'[u] = sender[u]
  BY <1>1 DEF TypeOK
<1>7. \A u \in Senders : \A k : Serves(u, k)' <=> (u = t /\ k = g) \/ (u # t /\ Serves(u, k))
  BY <1>6 DEF Serves
<1>8. \A u \in Senders : \A k : Serves(u, k)' => (u = t /\ k = g) \/ (Serves(u, k) /\ k # g)
  BY <1>5, <1>7
<1>9. ASSUME NEW k \in Hosts, NEW i \in 1 .. Len(backlog'[k])
      PROVE  /\ k # h => i \in 1 .. Len(backlog[k]) /\ backlog'[k][i] = backlog[k][i]
             /\ k = h => i + 1 \in 1 .. Len(backlog[k]) /\ backlog'[k][i] = backlog[k][i + 1]
  BY <1>1, <1>2, <1>3, <1>9 DEF TypeOK
<1>10. ASSUME NEW k \in Hosts, NEW i \in 1 .. Len(backlog'[k])
       PROVE  backlog'[k][i] # g
  <2>1. CASE k # h
    BY <1>2, <1>3, <1>9, <2>1 DEF Connections, QueuedOnce
  <2>2. CASE k = h
    <3>1. i + 1 \in 1 .. Len(backlog[h]) /\ backlog'[k][i] = backlog[h][i + 1] /\ i + 1 # 1
      BY <1>9, <2>2
    <3>2. QED
      BY <1>2, <1>3, <3>1 DEF Connections, QueuedOnce
  <2>3. QED
    BY <2>1, <2>2
<1>11. \A k : Queued(k)' => Queued(k) /\ k # g
  <2>1. ASSUME NEW k, NEW j \in Hosts, NEW i \in 1 .. Len(backlog'[j]), backlog'[j][i] = k
        PROVE  Queued(k) /\ k # g
    <3>1. k # g
      BY <1>10, <2>1
    <3>2. CASE j # h
      BY <1>9, <2>1, <3>1, <3>2 DEF Queued
    <3>3. CASE j = h
      BY <1>2, <1>9, <2>1, <3>1, <3>3 DEF Queued
    <3>4. QED
      BY <3>2, <3>3
  <2>2. QED
    BY <2>1 DEF Queued
<1>12. ASSUME NEW k \in Hosts, NEW j \in Hosts,
              NEW i \in 1 .. Len(backlog'[k]), NEW n \in 1 .. Len(backlog'[j]),
              backlog'[k][i] = backlog'[j][n]
       PROVE  k = j /\ i = n
  <2> DEFINE a == IF k = h THEN i + 1 ELSE i
             b == IF j = h THEN n + 1 ELSE n
  <2>1. a \in 1 .. Len(backlog[k]) /\ backlog'[k][i] = backlog[k][a]
    BY <1>9
  <2>2. b \in 1 .. Len(backlog[j]) /\ backlog'[j][n] = backlog[j][b]
    BY <1>9
  <2> HIDE DEF a, b
  <2>3. k = j /\ a = b
    <3>1. backlog[k][a] = backlog[j][b]
      BY <1>12, <2>1, <2>2
    <3>2. a \in 1 .. Len(backlog[k])
      BY <2>1
    <3>3. b \in 1 .. Len(backlog[j])
      BY <2>2
    <3>4. QED
      BY <3>1, <3>2, <3>3, OnceInQueue
  <2>4. k = j /\ (k = h <=> j = h)
    BY <2>3
  <2>5. QED
    BY <2>3, <2>4 DEF a, b
<1>13. sender[t].file \in Files
  BY <1>1 DEF Named
<1>14. /\ \A k \in Getters \ {g} : stream'[k] = stream[k]
       /\ getter[g] \in {"size", "data"} =>
             /\ Len(stream'[g]) = Len(stream[g]) + PiecesPerFrame
             /\ \A k \in 1 .. Len(stream'[g]) :
                   \/ k \in 1 .. Len(stream[g]) /\ stream'[g][k] = stream[g][k]
                   \/ stream'[g][k].part = "size"
  <2>1. Deliver(g, "size", sender[t].file)
    BY <1>1
  <2>2. QED
    BY <1>3, <1>13, <2>1, DeliveredPieces
<1>15. Connections'
  <2>1. \A k \in Getters : getter'[k] \in {"new", "sleep"} =>
            stream'[k] = <<>> /\ ~Queued(k)' /\ \A u \in Senders : ~Serves(u, k)'
    BY <1>1, <1>5, <1>8, <1>11, <1>14 DEF Connections
  <2>2. \A k \in Getters : Queued(k)' =>
            /\ getter'[k] # "data" /\ (getter'[k] = "size" => stream'[k] = <<>>)
            /\ \A u \in Senders : ~Serves(u, k)'
    BY <1>1, <1>8, <1>11, <1>14 DEF Connections
  <2>3. ASSUME NEW u \in Senders, sender'[u].pc = "data"
        PROVE  /\ sender'[u].peer \in Getters
               /\ \A w \in Senders : Serves(w, sender[u].peer)' => u = w
    <3>1. CASE u = t
      BY <1>3, <1>6, <1>8, <3>1
    <3>2. CASE u # t
      <4>1. sender'[u] = sender[u] /\ Serves(u, sender[u].peer)
        BY <1>6, <2>3, <3>2 DEF Serves
      <4>2. QED
        BY <1>5, <1>8, <2>3, <4>1 DEF Connections
    <3>3. QED
      BY <3>1, <3>2
  <2>4. QED
    BY <1>12, <2>1, <2>2, <2>3 DEF Connections, QueuedOnce
<1>16. ASSUME PiecesPerFrame = 1
       PROVE  InTurn'
  <2>1. ASSUME getter[g] = "size"
        PROVE  Len(stream'[g]) = 1 /\ stream'[g][1].part = "size"
    <3>1. Len(stream[g]) = 0
      BY <1>5, <2>1
    <3>2. Len(stream'[g]) = 1
      BY <1>14, <1>16, <2>1, <3>1
    <3>3. QED
      BY <1>14, <2>1, <3>1, <3>2
  <2>2. getter'[g] = getter[g] /\ getter[g] # "data"
    BY <1>1, <1>5
  <2>3. TakesTurns(g)'
    <3>1. CASE getter[g] = "size"
      <4>1. Len(stream'[g]) = 1 /\ stream'[g][1].part = "size"
        BY <2>1, <3>1
      <4>2. QED
        BY <2>2, <3>1, <4>1 DEF TakesTurns
    <3>2. CASE getter[g] # "size"
      BY <2>2, <3>2 DEF TakesTurns
    <3>3. QED
      BY <3>1, <3>2
  <2>4. \A k \in Getters \ {g} : TakesTurns(k) => TakesTurns(k)'
    BY <1>1, <1>8, <1>14 DEF TakesTurns
  <2>5. QED
    BY <1>3, <1>16, <2>3, <2>4 DEF InTurn
<1>17. QED
  BY <1>15, <1>16

(* The second send() goes to the getter the first one went to.              *)
LEMMA SendingConnections ==
    ASSUME TypeOK, Named, Connections, PiecesPerFrame = 1 => InTurn,
           NEW t \in Senders, SendData(t)
    PROVE  Connections' /\ (PiecesPerFrame = 1 => InTurn')
<1>1. PICK g : /\ g = sender[t].peer
               /\ sender[t].pc = "data" /\ sender' = [sender EXCEPT ![t].pc = "clear"]
               /\ Deliver(g, "data", sender[t].file)
               /\ UNCHANGED <<getter, backlog>>
  BY DEF SendData, AtSender, GoTo
<1>2. g \in Getters /\ Serves(t, g) /\ \A u \in Senders : Serves(u, g) => u = t
  BY <1>1 DEF Connections, Serves
<1>3. sender[t].file \in Files
  BY <1>1 DEF Named
<1>4. ~Queued(g) /\ getter[g] \notin {"new", "sleep"}
  BY <1>2 DEF Connections
<1>5. sender'[t].pc = "clear" /\ \A u \in Senders \ {t} : sender'[u] = sender[u]
  BY <1>1 DEF TypeOK
<1>6. \A u \in Senders : \A k : Serves(u, k)' => Serves(u, k) /\ k # g /\ u # t
  BY <1>2, <1>5 DEF Serves
<1>7. \A k : Queued(k)' <=> Queued(k)
  BY <1>1 DEF Queued
<1>8. /\ \A k \in Getters \ {g} : stream'[k] = stream[k]
      /\ getter[g] \in {"size", "data"} =>
            /\ Len(stream'[g]) = Len(stream[g]) + PiecesPerFrame
            /\ \A k \in 1 .. Len(stream'[g]) :
                  \/ k \in 1 .. Len(stream[g]) /\ stream'[g][k] = stream[g][k]
                  \/ k \notin 1 .. Len(stream[g]) /\ stream'[g][k].part = "data"
  <2>1. Deliver(g, "data", sender[t].file)
    BY <1>1
  <2>2. stream[g] \in Seq(Pieces)
    BY <1>2 DEF TypeOK
  <2>3. \A k : k - Len(stream[g]) \in 1 .. PiecesPerFrame => k \notin 1 .. Len(stream[g])
    BY <2>2, BoundsAssumption
  <2>4. QED
    BY <1>2, <1>3, <2>1, <2>3, DeliveredPieces
<1>9. Connections'
  <2>1. \A k \in Getters : getter'[k] \in {"new", "sleep"} =>
            stream'[k] = <<>> /\ ~Queued(k)' /\ \A u \in Senders : ~Serves(u, k)'
    BY <1>1, <1>4, <1>6, <1>7, <1>8 DEF Connections
  <2>2. \A k \in Getters : Queued(k)' =>
            /\ getter'[k] # "data" /\ (getter'[k] = "size" => stream'[k] = <<>>)
            /\ \A u \in Senders : ~Serves(u, k)'
    BY <1>1, <1>4, <1>6, <1>7, <1>8 DEF Connections
  <2>3. ASSUME NEW u \in Senders, sender'[u].pc = "data"
        PROVE  /\ sender'[u].peer \in Getters
               /\ \A w \in Senders : Serves(w, sender[u].peer)' => u = w
    <3>1. sender'[u] = sender[u]
      BY <1>5, <2>3
    <3>2. QED
      BY <1>6, <2>3, <3>1 DEF Connections
  <2>4. QED
    BY <1>1, <2>1, <2>2, <2>3 DEF Connections, QueuedOnce
<1>10. ASSUME PiecesPerFrame = 1
       PROVE  InTurn'
  <2>1. TakesTurns(g) /\ getter'[g] = getter[g]
    BY <1>1, <1>2, <1>10 DEF InTurn
  <2>2. ASSUME getter[g] = "size"
        PROVE  Len(stream'[g]) = 2 /\ stream'[g][1].part = "size" /\ stream'[g][2].part = "data"
    <3>1. Len(stream[g]) = 1 /\ stream[g][1].part = "size"
      BY <1>2, <2>1, <2>2 DEF TakesTurns
    <3>2. Len(stream'[g]) = 2
      BY <1>8, <1>10, <2>2, <3>1
    <3>3. stream'[g][1].part = "size"
      BY <1>8, <2>2, <3>1, <3>2
    <3>4. stream'[g][2].part = "data"
      BY <1>8, <2>2, <3>1, <3>2
    <3>5. QED
      BY <3>2, <3>3, <3>4
  <2>3. ASSUME getter[g] = "data"
        PROVE  Len(stream'[g]) = 1 /\ stream'[g][1].part = "data"
    <3>1. Len(stream[g]) = 0
      BY <1>2, <2>1, <2>3 DEF TakesTurns
    <3>2. Len(stream'[g]) = 1
      BY <1>8, <1>10, <2>3, <3>1
    <3>3. QED
      BY <1>8, <2>3, <3>1, <3>2
  <2>4. \A u \in Senders : ~Serves(u, g)'
    BY <1>6
  <2>5. TakesTurns(g)'
    <3>1. CASE getter[g] = "size"
      <4>1. Len(stream'[g]) = 2 /\ stream'[g][1].part = "size" /\ stream'[g][2].part = "data"
        BY <2>2, <3>1
      <4>2. QED
        BY <2>1, <2>4, <3>1, <4>1 DEF TakesTurns
    <3>2. CASE getter[g] = "data"
      <4>1. Len(stream'[g]) = 1 /\ stream'[g][1].part = "data"
        BY <2>3, <3>2
      <4>2. QED
        BY <2>1, <2>4, <3>2, <4>1 DEF TakesTurns
    <3>3. CASE getter[g] \notin {"size", "data"}
      BY <2>1, <3>3 DEF TakesTurns
    <3>4. QED
      BY <3>1, <3>2, <3>3
  <2>6. \A k \in Getters \ {g} : TakesTurns(k) => TakesTurns(k)'
    BY <1>1, <1>6, <1>8 DEF TakesTurns
  <2>7. QED
    BY <1>2, <1>10, <2>5, <2>6 DEF InTurn
<1>11. QED
  BY <1>9, <1>10

-----------------------------------------------------------------------------
(* What is under way, and what has arrived.                                 *)

(* Frames of the coordinator are only taken off the queues.                 *)
FramesKept ==
    \A c \in Clients : \A k \in 1 .. Len(inbox'[c]) :
        \E j \in 1 .. Len(inbox[c]) : inbox'[c][k] = inbox[c][j]

(* Threads that run were running, for the same file.                        *)
SendersKept ==
    \A t \in Senders : sender'[t].pc # "none" =>
        sender[t].pc # "none" /\ sender'[t].file = sender[t].file

(* Received frames are taken off the queue.                                 *)
LEMMA ReceivedKeepsFrames ==
    ASSUME TypeOK, NEW c \in Clients, NEW cmd, Received(c, cmd)
    PROVE  /\ FramesKept
           /\ c \in alive /\ 1 \in 1 .. Len(inbox[c]) /\ Head(inbox[c]) = inbox[c][1]
           /\ Head(inbox[c]) \in Frames /\ Head(inbox[c]).cmd = cmd
<1>1. /\ inbox \in [Clients -> Seq(Frames)] /\ inbox[c] # <<>> /\ c \in alive
      /\ inbox' = [inbox EXCEPT ![c] = Tail(@)] /\ Head(inbox[c]).cmd = cmd
  BY DEF TypeOK, Received
<1>2. /\ 1 \in 1 .. Len(inbox[c]) /\ Head(inbox[c]) = inbox[c][1] /\ Head(inbox[c]) \in Frames
      /\ \A k \in 1 .. Len(Tail(inbox[c])) :
            k + 1 \in 1 .. Len(inbox[c]) /\ Tail(inbox[c])[k] = inbox[c][k + 1]
  BY <1>1, TailElements
<1>3. ASSUME NEW d \in Clients, NEW k \in 1 .. Len(inbox'[d])
      PROVE  \E j \in 1 .. Len(inbox[d]) : inbox'[d][k] = inbox[d][j]
  <2>1. CASE d = c
    BY <1>1, <1>2, <1>3, <2>1
  <2>2. CASE d # c
    BY <1>1, <1>3, <2>2
  <2>3. QED
    BY <2>1, <2>2
<1>4. QED
  BY <1>1, <1>2, <1>3 DEF FramesKept

(* What is left in the queues is about what it was about.                   *)
LEMMA FramesStayAbout ==
    ASSUME TypeOK, NEW f, About(f), FramesKept, alive' \subseteq alive, UNCHANGED dlfile,
           NEW c \in alive', NEW k \in 1 .. Len(inbox'[c])
    PROVE  FrameAbout(c, inbox[c][k], f)'
<1>1. c \in alive /\ c \in Clients
  BY DEF TypeOK
<1>2. PICK j \in 1 .. Len(inbox[c]) : inbox'[c][k] = inbox[c][j]
  BY <1>1 DEF FramesKept
<1>3. FrameAbout(c, inbox[c][j], f)
  BY <1>1, <1>2 DEF About
<1>4. QED
  BY <1>2, <1>3 DEF FrameAbout

(* Nothing new gets under way in such steps.                                *)
LEMMA AboutKept ==
    ASSUME TypeOK, NEW f, About(f), Subsides, SendersKept, FramesKept,
           alive' \subseteq alive, UNCHANGED dlfile
    PROVE  About(f)'
<1>2. ASSUME NEW c \in alive', NEW k \in 1 .. Len(inbox'[c])
      PROVE  FrameAbout(c, inbox[c][k], f)'
  BY <1>2, FramesStayAbout
<1>3. \A t \in Senders : sender'[t].pc # "none" => sender'[t].file = f
  BY DEF About, SendersKept
<1>4. ASSUME NEW g \in Getters, getter'[g] \in {"sleep", "size", "data"}
      PROVE  /\ dlfile'[Owner(g)] = f
             /\ \A k \in 1 .. Len(stream'[g]) : stream'[g][k].file = f
  <2>1. getter'[g] = getter[g] /\ stream'[g] = stream[g]
    BY <1>4 DEF Subsides
  <2>2. QED
    BY <1>4, <2>1 DEF About
<1>5. QED
  BY <1>2, <1>3, <1>4 DEF About, Owner

(* The end of a process begins nothing.                                     *)
LEMMA ExitSubsides ==
    ASSUME TypeOK, NEW c \in Clients, NEW left, Exit(c, left)
    PROVE  Subsides /\ SendersKept /\ FramesKept /\ alive' \subseteq alive /\ UNCHANGED dlfile
<1>1. /\ alive' = alive \ {c} /\ UNCHANGED <<inbox, dlfile, stream>>
      /\ sender' = [t \in Senders |-> IF Owner(t) = c THEN IdleSender ELSE sender[t]]
      /\ getter' = [g \in Getters |-> IF Owner(g) = c THEN "done" ELSE getter[g]]
  BY DEF Exit
<1>2. \A h \in Hosts : backlog'[h] = <<>> \/ backlog'[h] = backlog[h]
  BY DEF Exit, ClosePorts
<1>3. Subsides
  BY <1>1, <1>2 DEF Subsides, IdleSender
<1>4. SendersKept
  BY <1>1 DEF SendersKept, IdleSender
<1>5. FramesKept
  BY <1>1 DEF FramesKept
<1>6. QED
  BY <1>1, <1>3, <1>4, <1>5

(* A sendFile() thread that sends nothing begins nothing either.            *)
LEMMA ThreadSubsides ==
    ASSUME TypeOK, NEW t \in Senders,
           \/ Bind(t) \/ SetupFails(t) \/ Listen(t) \/ ListenFails(t) \/ GiveUp(t)
           \/ SendDataFails(t) \/ ClearFlag(t) \/ CloseSockets(t)
    PROVE  /\ Subsides /\ SendersKept /\ FramesKept /\ alive' \subseteq alive
           /\ UNCHANGED <<dlfile, historyVars>>
<1>1. UNCHANGED <<alive, inbox, dlfile, getter, stream, historyVars>>
  BY DEF Bind, SetupFails, Listen, ListenFails, GiveUp, SendDataFails,
       ClearFlag, CloseSockets, tcpVars
<1>2. \A h \in Hosts : backlog'[h] = <<>> \/ backlog'[h] = backlog[h]
  <2>1. ClosePorts({t}) \/ UNCHANGED backlog
    BY DEF Bind, SetupFails, Listen, ListenFails, GiveUp, SendDataFails,
       ClearFlag, CloseSockets, tcpVars
  <2>2. QED
    BY <2>1 DEF ClosePorts
<1>3. /\ \A u \in Senders : sender'[u].pc # "data" \/ sender'[u] = sender[u]
      /\ SendersKept
  <2>1. CASE sender' = [sender EXCEPT ![t] = IdleSender]
    BY <2>1 DEF SendersKept, IdleSender, TypeOK
  <2>2. CASE sender[t].pc # "none" /\ \E pc \in {"listen", "select", "close"} : GoTo(t, pc)
    BY <2>2 DEF SendersKept, GoTo, TypeOK
  <2>3. QED
    BY <2>1, <2>2 DEF Bind, SetupFails, Listen, ListenFails, GiveUp, SendDataFails, ClearFlag,
       CloseSockets, EndCleared, EndUncleared, AtSender
<1>4. Subsides
  BY <1>1, <1>2, <1>3 DEF Subsides
<1>5. FramesKept
  BY <1>1 DEF FramesKept
<1>6. QED
  BY <1>1, <1>3, <1>4, <1>5

(* Nor does a getFile() thread that ends.                                   *)
LEMMA GetterSubsides ==
    ASSUME TypeOK, NEW g \in Getters, ConnectFails(g) \/ RecvData(g) \/ GetterGivesUp(g)
    PROVE  /\ Subsides /\ SendersKept /\ FramesKept
           /\ UNCHANGED <<alive, dlfile, calm>>
<1>1. /\ UNCHANGED <<alive, inbox, dlfile, sender, backlog, calm>>
      /\ getter' = [getter EXCEPT ![g] = "done"]
      /\ \A k \in Getters \ {g} : stream'[k] = stream[k]
  BY DEF ConnectFails, RecvData, GetterGivesUp, GetterGoesTo, tcpVars, historyVars, TypeOK
<1>2. Subsides
  BY <1>1 DEF Subsides, TypeOK
<1>3. SendersKept /\ FramesKept
  BY <1>1 DEF SendersKept, FramesKept
<1>4. QED
  BY <1>1, <1>2, <1>3

(* Steps that begin nothing and write nothing.                              *)
LEMMA SubsidingCalm ==
    ASSUME TypeOK, CalmKept, Subsides, SendersKept, FramesKept,
           alive' \subseteq alive, UNCHANGED <<dlfile, calm, downloads>>
    PROVE  CalmKept'
<1>1. ASSUME calm
      PROVE  \E f \in Files \cup {NoFile} : About(f)'
  <2>1. PICK f \in Files \cup {NoFile} : About(f)
    BY <1>1 DEF CalmKept
  <2>2. About(f)'
    BY <2>1, AboutKept
  <2>3. QED
    BY <2>2
<1>2. CalmDownloadsAreRight'
  BY DEF CalmKept, CalmDownloadsAreRight
<1>3. QED
  BY <1>1, <1>2 DEF CalmKept

(* A get typed in a quiet system is the one everything is about.            *)
LEMMA UserCalm ==
    ASSUME TypeOK, CalmKept, NEW c \in Clients, UserThread(c)
    PROVE  Subsides /\ CalmKept'
<1>1. PICK f \in Files : AskInVain(c, f) \/ \E o \in Clients : AskFile(c, f, o)
  BY DEF UserThread
<1>2. Type(c, f)
  BY <1>1 DEF AskInVain, AskFile
<1>3. /\ UNCHANGED <<alive, sender, getter, backlog, stream, downloads>>
      /\ c \in alive /\ dlfile' = [dlfile EXCEPT ![c] = f] /\ calm' = (calm /\ Quiet)
  BY <1>2 DEF Type, NewName, tcpVars
<1>4. Subsides
  BY <1>3 DEF Subsides
<1>5. CalmDownloadsAreRight'
  BY <1>3 DEF CalmKept, CalmDownloadsAreRight
<1>6. ASSUME Quiet
      PROVE  About(f)'
  <2>1. alive \subseteq Clients /\ inbox \in [Clients -> Seq(Frames)] /\ dlfile'[c] = f
    BY <1>3 DEF TypeOK
  <2>2. \A d \in alive : inbox[d] = <<>>
    BY <1>6 DEF Quiet
  <2>3. ASSUME NEW d \in alive, NEW k \in 1 .. Len(inbox'[d])
        PROVE  FrameAbout(d, inbox[d][k], f)'
    <3>1. CASE AskInVain(c, f)
      <4>1. inbox'[d] = <<>>
        BY <2>2, <3>1 DEF AskInVain
      <4>2. QED
        BY <2>3, <4>1
    <3>2. ASSUME NEW o \in Clients, AskFile(c, f, o)
          PROVE  FrameAbout(d, inbox[d][k], f)'
      <4> DEFINE getFrame == [cmd |-> "get", file |-> f]
                 ipFrame  == [cmd |-> "ip", host |-> HostOf[o]]
      <4>1. /\ o # c
            /\ inbox' = [inbox EXCEPT ![o] = Append(@, getFrame), ![c] = Append(@, ipFrame)]
        BY <3>2 DEF AskFile
      <4>2. CASE d = c
        <5>1. inbox'[d] = Append(<<>>, ipFrame)
          BY <2>1, <2>2, <4>1, <4>2
        <5>2. inbox'[d][k] = ipFrame
          BY <2>3, <5>1
        <5>3. QED
          BY <2>1, <4>2, <5>2 DEF FrameAbout
      <4>3. CASE d = o
        <5>1. inbox'[d] = Append(<<>>, getFrame)
          BY <2>1, <2>2, <4>1, <4>3
        <5>2. inbox'[d][k] = getFrame
          BY <2>3, <5>1
        <5>3. QED
          BY <5>2 DEF FrameAbout
      <4>4. CASE d \notin {c, o}
        <5>1. inbox'[d] = <<>>
          BY <2>1, <2>2, <4>1, <4>4
        <5>2. QED
          BY <2>3, <5>1
      <4>5. QED
        BY <4>2, <4>3, <4>4
    <3>3. QED
      BY <1>1, <3>1, <3>2
  <2>4. \A t \in Senders : sender'[t].pc = "none"
    BY <1>3, <1>6 DEF Quiet
  <2>5. \A g \in Getters : getter'[g] \notin {"sleep", "size", "data"}
    BY <1>3, <1>6 DEF Quiet
  <2>6. QED
    BY <1>3, <2>3, <2>4, <2>5 DEF About
<1>7. QED
  BY <1>3, <1>4, <1>5, <1>6 DEF CalmKept

(* The main thread starts threads for the file its frames are about.        *)
LEMMA MainCalm ==
    ASSUME TypeOK, Connections, CalmKept, NEW c \in Clients, GetCommand(c)
    PROVE  (Subsides \/ StartGetting(c)) /\ CalmKept'
<1>1. /\ UNCHANGED <<alive, dlfile, backlog, stream, downloads, calm>>
      /\ \E cmd \in {"get", "ip"} : Received(c, cmd)
  BY DEF GetCommand, StartSending, IgnoreGet, StartGetting, tcpVars, historyVars
<1>2. FramesKept
  BY <1>1, ReceivedKeepsFrames
<1>3. CASE IgnoreGet(c)
  <2>1. Subsides /\ SendersKept
    BY <1>1, <1>3 DEF IgnoreGet, Subsides, SendersKept
  <2>2. QED
    BY <1>1, <1>2, <2>1, SubsidingCalm
<1>4. CASE StartSending(c)
  <2>1. Received(c, "get") /\ UNCHANGED getter
    BY <1>4 DEF StartSending
  <2>2. PICK t \in Senders : /\ sender' = [sender EXCEPT ![t] = [pc   |-> "bind",
                                                              file |-> Head(inbox[c]).file,
                                                              peer |-> NoPeer]]
    BY <1>4 DEF StartSending
  <2>3. /\ sender'[t].pc = "bind" /\ sender'[t].file = Head(inbox[c]).file
        /\ \A u \in Senders \ {t} : sender'[u] = sender[u]
    BY <2>2 DEF TypeOK
  <2>4. Subsides
    BY <1>1, <2>1, <2>3 DEF Subsides
  <2>5. ASSUME NEW f \in Files \cup {NoFile}, About(f)
        PROVE  About(f)'
    <3>1. /\ c \in alive /\ 1 \in 1 .. Len(inbox[c]) /\ Head(inbox[c]) = inbox[c][1]
          /\ Head(inbox[c]).cmd = "get"
      BY <2>1, ReceivedKeepsFrames
    <3>2. Head(inbox[c]).file = f
      BY <2>5, <3>1 DEF About, FrameAbout
    <3>3. ASSUME NEW d \in alive', NEW k \in 1 .. Len(inbox'[d])
          PROVE  FrameAbout(d, inbox[d][k], f)'
      BY <1>1, <1>2, <2>5, <3>3, FramesStayAbout
    <3>4. \A u \in Senders : sender'[u].pc # "none" => sender'[u].file = f
      BY <2>3, <2>5, <3>2 DEF About
    <3>5. QED
      BY <1>1, <2>1, <2>5, <3>3, <3>4 DEF About
  <2>6. QED
    BY <1>1, <2>4, <2>5 DEF CalmKept, CalmDownloadsAreRight
<1>5. CASE StartGetting(c)
  <2>1. Received(c, "ip") /\ UNCHANGED sender
    BY <1>5 DEF StartGetting
  <2>2. PICK n \in 1 .. MaxGets : /\ getter[<<c, n>>] = "new"
                                 /\ getter' = [getter EXCEPT ![<<c, n>>] = "sleep"]
    BY <1>5 DEF StartGetting
  <2>3. ASSUME NEW f \in Files \cup {NoFile}, About(f)
        PROVE  About(f)'
    <3>1. /\ c \in alive /\ 1 \in 1 .. Len(inbox[c]) /\ Head(inbox[c]) = inbox[c][1]
          /\ Head(inbox[c]).cmd = "ip"
      BY <2>1, ReceivedKeepsFrames
    <3>2. dlfile[c] = f
      BY <2>3, <3>1 DEF About, FrameAbout
    <3>3. ASSUME NEW d \in alive', NEW k \in 1 .. Len(inbox'[d])
          PROVE  FrameAbout(d, inbox[d][k], f)'
      BY <1>1, <1>2, <2>3, <3>3, FramesStayAbout
    <3>4. Owner(<<c, n>>) = c
      BY DEF Owner
    <3>5. ASSUME NEW g \in Getters, getter'[g] \in {"sleep", "size", "data"}
          PROVE  /\ dlfile[Owner(g)] = f
                 /\ \A k \in 1 .. Len(stream[g]) : stream[g][k].file = f
      <4>1. CASE g = <<c, n>>
        <5>1. stream[g] = <<>>
          BY <2>2, <4>1 DEF Connections
        <5>2. QED
          BY <3>2, <3>4, <4>1, <5>1
      <4>2. CASE g # <<c, n>>
        BY <2>2, <2>3, <3>5, <4>2 DEF About, TypeOK
      <4>3. QED
        BY <4>1, <4>2
    <3>6. QED
      BY <1>1, <2>1, <2>3, <3>3, <3>5 DEF About, Owner
  <2>4. QED
    BY <1>1, <1>5, <2>3 DEF CalmKept, CalmDownloadsAreRight
<1>6. QED
  BY <1>3, <1>4, <1>5 DEF GetCommand

(* What is sent is the file of the thread that sends it.                    *)
LEMMA SendingAbout ==
    ASSUME TypeOK, NEW f, About(f), NEW t \in Senders, NEW g \in Getters,
           NEW part \in {"size", "data"}, sender[t].pc # "none", sender[t].file \in Files,
           Deliver(g, part, sender[t].file),
           SendersKept, FramesKept, UNCHANGED <<alive, dlfile, getter>>
    PROVE  About(f)'
<1>1. sender[t].file = f
  BY DEF About
<1>2. ASSUME NEW c \in alive', NEW k \in 1 .. Len(inbox'[c])
      PROVE  FrameAbout(c, inbox[c][k], f)'
  BY <1>2, FramesStayAbout
<1>3. \A u \in Senders : sender'[u].pc # "none" => sender'[u].file = f
  BY DEF About, SendersKept
<1>4. ASSUME NEW k \in Getters, getter[k] \in {"sleep", "size", "data"}
      PROVE  /\ dlfile[Owner(k)] = f
             /\ \A i \in 1 .. Len(stream'[k]) : stream'[k][i].file = f
  <2>1. dlfile[Owner(k)] = f /\ \A i \in 1 .. Len(stream[k]) : stream[k][i].file = f
    BY <1>4 DEF About
  <2>2. CASE k = g /\ getter[g] \in {"size", "data"}
    <3>1. \A i \in 1 .. Len(stream'[g]) :
             \/ i \in 1 .. Len(stream[g]) /\ stream'[g][i] = stream[g][i]
             \/ stream'[g][i].file = sender[t].file
      BY <2>2, DeliveredPieces
    <3>2. QED
      BY <1>1, <2>1, <2>2, <3>1
  <2>3. CASE k # g \/ getter[g] \notin {"size", "data"}
    <3>1. stream'[k] = stream[k]
      BY <2>3, DeliveredPieces
    <3>2. QED
      BY <2>1, <3>1
  <2>4. QED
    BY <2>2, <2>3
<1>5. QED
  BY <1>2, <1>3, <1>4 DEF About, Owner

(* accept() and the two send() calls.                                       *)
LEMMA SendingCalm ==
    ASSUME TypeOK, Named, Connections, CalmKept, NEW t \in Senders, Serve(t) \/ SendData(t)
    PROVE  CalmKept'
<1>1. PICK g \in Getters, part \in {"size", "data"} : Deliver(g, part, sender[t].file)
  <2>1. CASE Serve(t)
    <3>1. backlog[Host(t)] # <<>> /\ Deliver(Head(backlog[Host(t)]), "size", sender[t].file)
      BY <2>1 DEF Serve
    <3>2. backlog[Host(t)] \in Seq(Getters)
      BY OwnerType DEF TypeOK
    <3>3. Head(backlog[Host(t)]) \in Getters
      BY <3>1, <3>2, TailElements
    <3>4. QED
      BY <3>1, <3>3
  <2>2. CASE SendData(t)
    <3>1. sender[t].peer \in Getters /\ Deliver(sender[t].peer, "data", sender[t].file)
      BY <2>2 DEF SendData, AtSender, Connections
    <3>2. QED
      BY <3>1
  <2>3. QED
    BY <2>1, <2>2
<1>2. /\ sender[t].pc # "none" /\ UNCHANGED <<alive, inbox, dlfile, getter, downloads, calm>>
  BY DEF Serve, SendData, AtSender, historyVars
<1>3. SendersKept
  <2>1. CASE Serve(t)
    <3>1. PICK p : sender' = [sender EXCEPT ![t].pc = "data", ![t].peer = p]
      BY <2>1 DEF Serve
    <3>2. QED
      BY <1>2, <3>1 DEF SendersKept, TypeOK
  <2>2. CASE SendData(t)
    BY <1>2, <2>2 DEF SendData, GoTo, SendersKept, TypeOK
  <2>3. QED
    BY <2>1, <2>2
<1>4. FramesKept
  BY <1>2 DEF FramesKept
<1>5. sender[t].file \in Files
  BY <1>2 DEF Named
<1>6. ASSUME NEW f \in Files \cup {NoFile}, About(f)
      PROVE  About(f)'
  BY <1>1, <1>2, <1>3, <1>4, <1>5, <1>6, SendingAbout
<1>7. QED
  BY <1>2, <1>6 DEF CalmKept, CalmDownloadsAreRight

(* connect() and the first recv() leave the getter what it is to have.      *)
LEMMA GettingCalm ==
    ASSUME TypeOK, CalmKept, NEW g \in Getters, Connect(g) \/ RecvSize(g)
    PROVE  CalmKept'
<1>1. /\ UNCHANGED <<alive, inbox, dlfile, sender, downloads, calm>>
      /\ getter[g] \in {"sleep", "size"}
      /\ \A k \in Getters \ {g} : getter'[k] = getter[k] /\ stream'[k] = stream[k]
  BY DEF Connect, RecvSize, AtGetter, GetterGoesTo, historyVars, TypeOK
<1>2. \A i \in 1 .. Len(stream'[g]) : \E j \in 1 .. Len(stream[g]) : stream'[g][i] = stream[g][j]
  <2>1. CASE Connect(g)
    BY <2>1 DEF Connect
  <2>2. CASE RecvSize(g)
    <3>1. PICK m \in Takes(g) : stream' = [stream EXCEPT ![g] = SubSeq(@, m + 1, Len(@))]
      BY <2>2 DEF RecvSize
    <3>2. /\ stream[g] \in Seq(Pieces) /\ m \in Nat /\ m <= Len(stream[g])
          /\ stream'[g] = SubSeq(stream[g], m + 1, Len(stream[g]))
      BY <3>1, BoundsAssumption DEF TypeOK, Takes
    <3>3. \A i \in 1 .. Len(stream'[g]) :
             m + i \in 1 .. Len(stream[g]) /\ stream'[g][i] = stream[g][m + i]
      BY <3>2, RestElements
    <3>4. QED
      BY <3>3
  <2>3. QED
    BY <2>1, <2>2
<1>3. ASSUME NEW f \in Files \cup {NoFile}, About(f)
      PROVE  About(f)'
  <2>1. ASSUME NEW k \in Getters, getter'[k] \in {"sleep", "size", "data"}
        PROVE  /\ dlfile[Owner(k)] = f
               /\ \A i \in 1 .. Len(stream'[k]) : stream'[k][i].file = f
    <3>1. CASE k = g
      BY <1>1, <1>2, <1>3, <3>1 DEF About
    <3>2. CASE k # g
      BY <1>1, <1>3, <2>1, <3>2 DEF About
    <3>3. QED
      BY <3>1, <3>2
  <2>2. \A c \in alive : \A k \in 1 .. Len(inbox[c]) : FrameAbout(c, inbox[c][k], f)'
    BY <1>1, <1>3 DEF About, FrameAbout
  <2>3. QED
    BY <1>1, <1>3, <2>1, <2>2 DEF About, Owner
<1>4. QED
  BY <1>1, <1>3 DEF CalmKept, CalmDownloadsAreRight

(* What the second recv() brings is what was asked for.                     *)
LEMMA WritingCalm ==
    ASSUME TypeOK, PiecesPerFrame = 1 => InTurn, CalmKept, NEW g \in Getters, RecvData(g)
    PROVE  CalmKept'
<1>1. /\ Subsides /\ SendersKept /\ FramesKept /\ UNCHANGED <<alive, dlfile, calm>>
  BY GetterSubsides
<1>2. PICK m \in Takes(g) :
          downloads' = downloads \cup {[by      |-> g,
                                       name    |-> dlfile[Owner(g)],
                                       content |-> SubSeq(stream[g], 1, m)]}
  BY DEF RecvData
<1> DEFINE content == SubSeq(stream[g], 1, m)
           d == [by |-> g, name |-> dlfile[Owner(g)], content |-> content]
<1>3. getter[g] = "data" /\ stream[g] \in Seq(Pieces) /\ dlfile[Owner(g)] \in Files \cup {NoFile}
  BY OwnerType DEF RecvData, AtGetter, TypeOK
<1>4. m \in 1 .. PiecesPerFrame /\ m \in Nat /\ m <= Len(stream[g])
  BY BoundsAssumption DEF Takes
<1>5. /\ content \in Seq(Pieces) /\ Len(content) = m
      /\ \A i \in 1 .. m : i \in 1 .. Len(stream[g]) /\ content[i] = stream[g][i]
  BY <1>3, <1>4
<1>6. d.name = dlfile[Owner(g)] /\ d.content = content
  OBVIOUS
<1> HIDE DEF content, d
<1>7. ASSUME calm, NEW f \in Files \cup {NoFile}, About(f)
      PROVE  About(f)' /\ Right(d) /\ (PiecesPerFrame = 1 => Whole(d))
  <2>1. About(f)'
    BY <1>1, <1>7, AboutKept
  <2>2. d.name = f /\ \A i \in 1 .. m : content[i].file = f
    BY <1>3, <1>5, <1>6, <1>7 DEF About
  <2>3. Right(d)
    BY <1>5, <1>6, <2>2 DEF Right
  <2>4. ASSUME PiecesPerFrame = 1
        PROVE  Whole(d)
    <3>1. m = 1 /\ 1 \in 1 .. Len(stream[g]) /\ content[1] = stream[g][1]
      BY <1>4, <1>5, <2>4
    <3>2. Len(stream[g]) = 1 /\ stream[g][1].part = "data"
      <4>1. Len(stream[g]) <= 1 /\ (Len(stream[g]) = 1 => stream[g][1].part = "data")
        BY <1>3, <2>4 DEF InTurn, TakesTurns
      <4>2. Len(stream[g]) \in Nat
        BY <1>3
      <4>3. Len(stream[g]) >= 1
        BY <3>1
      <4>4. Len(stream[g]) = 1
        <5>1. Len(stream[g]) <= 1
          BY <4>1
        <5>2. \A n \in Nat : n >= 1 /\ n <= 1 => n = 1
          OBVIOUS
        <5>3. QED
          BY <4>2, <4>3, <5>1, <5>2, Zenon
      <4>5. QED
        BY <4>1, <4>4, Zenon
    <3>3. stream[g][1] \in Pieces
      BY <1>3, <3>1, ElementType
    <3>4. f \in Files /\ content[1] = [part |-> "data", file |-> f, nr |-> 1]
      <4>1. content[1].part = "data" /\ content[1].file = f /\ content[1] \in Pieces
        BY <2>2, <3>1, <3>2, <3>3
      <4>2. content[1].nr = 1
        BY <2>4, <4>1 DEF Pieces
      <4>3. QED
        BY <4>1, <4>2 DEF Pieces
    <3>5. /\ FrameOf("data", f) \in Seq(Pieces) /\ Len(FrameOf("data", f)) = 1
          /\ FrameOf("data", f)[1] = [part |-> "data", file |-> f, nr |-> 1]
      BY <2>4, <3>4, FramePieces
    <3>6. \A i \in 1 .. Len(content) : content[i] = FrameOf("data", f)[i]
      BY <1>5, <3>1, <3>4, <3>5
    <3>7. content = FrameOf("data", f)
      BY <1>5, <3>1, <3>5, <3>6, SameElements
    <3>8. QED
      BY <1>6, <2>2, <3>7 DEF Whole
  <2>5. QED
    BY <2>1, <2>3, <2>4
<1>8. downloads' = downloads \cup {d}
  BY <1>2 DEF d, content
<1>9. CalmDownloadsAreRight'
  <2>1. ASSUME calm
        PROVE  Right(d) /\ (PiecesPerFrame = 1 => Whole(d))
    BY <1>7, <2>1 DEF CalmKept
  <2>2. QED
    BY <1>1, <1>8, <2>1 DEF CalmKept, CalmDownloadsAreRight
<1>10. QED
  BY <1>1, <1>7, <1>9 DEF CalmKept

(* Nothing is under way at first.                                           *)
LEMMA InitCalm == Init => CalmInv
<1> SUFFICES ASSUME Init PROVE CalmInv
  OBVIOUS
<1>1. PeerInv
  BY InitPeer
<1>2. \A t \in Senders : sender[t].pc = "none"
  BY DEF Init, IdleSender
<1>3. \A g : ~Queued(g) /\ \A t \in Senders : ~Serves(t, g)
  BY <1>2 DEF Init, Queued, Serves
<1>4. Connections
  <2>1. /\ \A g \in Getters : getter[g] = "new" /\ stream[g] = <<>>
        /\ \A h \in Hosts : backlog[h] = <<>>
    BY DEF Init
  <2>2. QueuedOnce
    BY <2>1 DEF QueuedOnce
  <2>3. QED
    BY <1>2, <1>3, <2>1, <2>2 DEF Connections
<1>5. InTurn
  BY DEF Init, InTurn, TakesTurns
<1>6. About(NoFile)
  BY <1>2 DEF Init, About
<1>7. CalmDownloadsAreRight
  BY DEF Init, CalmDownloadsAreRight
<1>8. QED
  BY <1>1, <1>4, <1>5, <1>6, <1>7 DEF CalmInv, CalmKept

(* Every step of the clients keeps the invariant.                           *)
LEMMA StepCalm == CalmInv /\ [Next]_vars => CalmInv'
<1> SUFFICES ASSUME CalmInv, [Next]_vars PROVE CalmInv'
  OBVIOUS
<1>1. PeerInv /\ TypeOK /\ Named /\ Connections /\ (PiecesPerFrame = 1 => InTurn) /\ CalmKept
  BY DEF CalmInv, PeerInv
<1>2. PeerInv'
  BY <1>1, StepPeer
<1> DEFINE Kept == Connections' /\ (PiecesPerFrame = 1 => InTurn') /\ CalmKept'
<1>3. ASSUME NEW c \in Clients, NEW left, Exit(c, left), UNCHANGED historyVars
      PROVE  Kept
  BY <1>1, <1>3, ExitSubsides, SubsidingConnections, SubsidingCalm DEF historyVars
<1>4. ASSUME NEW c \in Clients, Leave(c) \/ UserThread(c) \/ GetCommand(c)
      PROVE  Kept
  <2>1. CASE Leave(c)
    BY <1>3, <2>1 DEF Leave
  <2>2. CASE UserThread(c)
    BY <1>1, <2>2, UserCalm, SubsidingConnections
  <2>3. CASE GetCommand(c)
    BY <1>1, <2>3, MainCalm, SubsidingConnections, WakingConnections
  <2>4. QED
    BY <1>4, <2>1, <2>2, <2>3
<1>5. ASSUME NEW t \in Senders, SendFile(t)
      PROVE  Kept
  <2>1. CASE MissingFile(t) \/ SendDataKills(t)
    BY <1>3, <2>1, OwnerType DEF MissingFile, SendDataKills
  <2>2. CASE Serve(t)
    BY <1>1, <2>2, ServingConnections, SendingCalm
  <2>3. CASE SendData(t)
    BY <1>1, <2>3, SendingConnections, SendingCalm
  <2>4. CASE \/ Bind(t) \/ SetupFails(t) \/ Listen(t) \/ ListenFails(t) \/ GiveUp(t)
             \/ SendDataFails(t) \/ ClearFlag(t) \/ CloseSockets(t)
    BY <1>1, <2>4, ThreadSubsides, SubsidingConnections, SubsidingCalm DEF historyVars
  <2>5. QED
    BY <1>5, <2>1, <2>2, <2>3, <2>4 DEF SendFile
<1>6. ASSUME NEW g \in Getters, GetFile(g)
      PROVE  Kept
  <2>1. CASE Connect(g)
    BY <1>1, <2>1, ConnectingConnections, GettingCalm
  <2>2. CASE RecvSize(g)
    BY <1>1, <2>2, ReadingConnections, GettingCalm
  <2>3. CASE RecvData(g)
    BY <1>1, <2>3, GetterSubsides, SubsidingConnections, WritingCalm
  <2>4. CASE ConnectFails(g) \/ GetterGivesUp(g)
    <3>1. UNCHANGED downloads
      BY <2>4 DEF ConnectFails, GetterGivesUp, historyVars
    <3>2. QED
      BY <1>1, <2>4, <3>1, GetterSubsides, SubsidingConnections, SubsidingCalm
  <2>5. CASE CannotWrite(g)
    BY <1>3, <2>5, OwnerType DEF CannotWrite
  <2>6. QED
    BY <1>6, <2>1, <2>2, <2>3, <2>4, <2>5 DEF GetFile
<1>7. ASSUME UNCHANGED vars
      PROVE  Kept
  <2>1. UNCHANGED <<alive, inbox, dlfile, sender, getter, backlog, stream, downloads, calm>>
    BY <1>7 DEF vars, processVars, tcpVars, historyVars
  <2>2. Subsides /\ SendersKept /\ FramesKept
    BY <2>1 DEF Subsides, SendersKept, FramesKept
  <2>3. QED
    BY <1>1, <2>1, <2>2, SubsidingConnections, SubsidingCalm
<1>8. Kept
  BY <1>4, <1>5, <1>6, <1>7 DEF Next
<1>9. QED
  BY <1>2, <1>8 DEF CalmInv

(* The invariant holds in every state.                                      *)
LEMMA CalmInvariant == Spec => []CalmInv
BY InitCalm, StepCalm, PTL DEF Spec

(* Gets that do not overlap bring the file they name, whole where frames    *)
(* arrive whole: no earlier get, whatever became of it, reaches a later one.*)
THEOREM CalmDownloads == Spec => []CalmDownloadsAreRight
<1>1. CalmInv => CalmDownloadsAreRight
  BY DEF CalmInv, CalmKept
<1>2. QED
  BY <1>1, CalmInvariant, PTL
=============================================================================
