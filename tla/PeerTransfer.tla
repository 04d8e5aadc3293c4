---------------------------- MODULE PeerTransfer ----------------------------
(***************************************************************************)
(* How the clients of the file distribution system fetch files from each   *)
(* other, src/5273/pa4/client.c.  The main thread obeys the coordinator's  *)
(* frames in getCommand(): "get" starts a sendFile() thread that listens   *)
(* on the fixed port 5050 of its machine, "ip" a getFile() thread that     *)
(* connects to that port of the machine named.  The user thread types get  *)
(* commands.  The three share alreadyTransferring, dlfile and whatever the *)
(* pointers into getCommand()'s dead stack frame still lead to.            *)
(*                                                                         *)
(* A sendFile() thread is at                                               *)
(*   "bind"   before bind()     (line 469)   "listen" before listen() (490)*)
(*   "select" waiting 30 s for a requester                          (509)  *)
(*   "data"   between the two send() calls                          (604)  *)
(*   "clear"  before the last clearing of the flag                  (635)  *)
(*   "close"  after it, its sockets still open                      (639)  *)
(* a getFile() thread is at                                                *)
(*   "sleep"  before connect()                                      (659)  *)
(*   "size"   in its first select(), "data" in its second     (708, 771)   *)
(*                                                                         *)
(* The coordinator is reduced to what it sends, TCP to what the calls      *)
(* return.  A failing system call has one outcome per place: GiveUp,       *)
(* SetupFails, ConnectFails and GetterGivesUp stand for every one of them.  *)
(***************************************************************************)
EXTENDS Integers, Sequences, FiniteSets

CONSTANTS
    Clients,        \* client processes, connected to the coordinator
    Hosts,          \* the machines they run on
    HostOf,         \* which machine each client runs on
    Files,          \* names of files
    Shares,         \* what the coordinator's list says each client shares
    NoFile,         \* dlfile before the first get
    NoHost,         \* the ip array before the first ip frame
    NoThread,       \* marks a port nobody listens on
    PiecesPerFrame, \* pieces of a frame that recv() may return separately
    MaxGets         \* bound: get commands typed in a behaviour

ASSUME HostsAssumption  == HostOf \in [Clients -> Hosts] /\ NoHost \notin Hosts
ASSUME SharesAssumption == Shares \in [Clients -> SUBSET Files] /\ NoFile \notin Files
ASSUME ThreadAssumption == NoThread \notin Clients \X (1 .. 2)
ASSUME BoundsAssumption == PiecesPerFrame \in Nat \ {0} /\ MaxGets \in Nat

MaxConnects == 50     \* MAX_CONNECTS

VARIABLES
    alive,               \* the processes still running
    inbox,               \* frames of the coordinator not yet received, per client
    alreadyTransferring, \* the global of that name, per client
    dlfile,              \* the global of that name, per client
    ipaddress,           \* what getCommand()'s array of that name holds, per client
    sender,              \* sendFile() threads: [pc, file, peer]
    getter,              \* place of each getFile() thread
    port,                \* the thread listening on port 5050, per machine
    backlog,             \* connections completed and not accepted, per machine
    stream,              \* pieces sent to a getter and not received
    atSender,            \* a getter's connection as the sending side has it
    gets,                \* get commands typed so far
    downloads,           \* files written: [by, name, content]
    calm                 \* was every get typed when nothing was under way?

processVars == <<alive, inbox, alreadyTransferring, dlfile, ipaddress, sender, getter>>
tcpVars     == <<port, backlog, stream, atSender>>
historyVars == <<gets, downloads, calm>>
vars == <<processVars, tcpVars, historyVars>>

(* Two threads per client are enough, see SenderSlotsSuffice. *)
Senders == Clients \X (1 .. 2)
Getters == Clients \X (1 .. MaxGets)

Owner(t) == t[1]

Frames == [cmd : {"get"}, file : Files] \cup [cmd : {"ip"}, host : Hosts]

(* The pieces of one 24K frame of a file's transfer: its size, or its data. *)
Pieces == [part : {"size", "data"}, file : Files, nr : 1 .. PiecesPerFrame]

FrameOf(part, f) == [i \in 1 .. PiecesPerFrame |-> [part |-> part, file |-> f, nr |-> i]]

NoPeer == <<>>

IdleSender == [pc |-> "none", file |-> NoFile, peer |-> NoPeer]

(* A thread that owns the flag; one that owns the port. *)
Transferring == {"bind", "listen", "select", "data", "clear"}
Listening    == {"select", "data", "clear", "close"}

Init ==
    /\ alive = Clients
    /\ inbox = [c \in Clients |-> <<>>]
    /\ alreadyTransferring = [c \in Clients |-> FALSE]
    /\ dlfile = [c \in Clients |-> NoFile]
    /\ ipaddress = [c \in Clients |-> NoHost]
    /\ sender = [t \in Senders |-> IdleSender]
    /\ getter = [g \in Getters |-> "new"]
    /\ port = [h \in Hosts |-> NoThread]
    /\ backlog = [h \in Hosts |-> <<>>]
    /\ stream = [g \in Getters |-> <<>>]
    /\ atSender = [g \in Getters |-> "open"]
    /\ gets = 0
    /\ downloads = {}
    /\ calm = TRUE

(* No frame is on its way and no transfer thread runs. *)
Quiet ==
    /\ \A c \in alive : inbox[c] = <<>>
    /\ \A t \in Senders : sender[t].pc = "none"
    /\ \A g \in Getters : getter[g] \in {"new", "done"}

-----------------------------------------------------------------------------
(* Leaving: what exit() or a signal closes.                                 *)

(* The listening sockets of the threads ts are closed, and with them the    *)
(* connections nobody accepted.  Their getters, and the one that was served,*)
(* find out in recv(): see GetterGivesUp.                                   *)
ClosePorts(ts) ==
    LET hs == {h \in Hosts : port[h] \in ts} IN
    /\ port' = [h \in Hosts |-> IF h \in hs THEN NoThread ELSE port[h]]
    /\ backlog' = [h \in Hosts |-> IF h \in hs THEN <<>> ELSE backlog[h]]

(* A getter's socket is closed: TCP resets when something is left unread.   *)
Hangup(g, left) ==
    IF atSender[g] # "open" THEN atSender[g]
    ELSE IF left = <<>> THEN "fin" ELSE "reset"

(* The process of c is gone, with all its threads and sockets.  What each   *)
(* getter had not read by then is in left.                                  *)
Exit(c, left) ==
    LET own == {g \in Getters : Owner(g) = c /\ getter[g] \in {"size", "data"}} IN
    /\ alive' = alive \ {c}
    /\ ClosePorts({t \in Senders : Owner(t) = c})
    /\ sender' = [t \in Senders |-> IF Owner(t) = c THEN IdleSender ELSE sender[t]]
    /\ getter' = [g \in Getters |-> IF Owner(g) = c THEN "done" ELSE getter[g]]
    /\ atSender' = [g \in Getters |-> IF g \in own THEN Hangup(g, left[g]) ELSE atSender[g]]
    /\ UNCHANGED <<inbox, alreadyTransferring, dlfile, ipaddress, stream>>

(* The user's exit command, the coordinator's end, or a signal. *)
Leave(c) ==
    /\ c \in alive
    /\ Exit(c, stream)
    /\ UNCHANGED historyVars

-----------------------------------------------------------------------------
(* The user thread and the coordinator's answer.                            *)

(* dlfile is overwritten before the command is even sent.  (The first form  *)
(* keeps the first name, the second never stores one.)                      *)
NewName_Kept(c, f) ==
    dlfile' = [dlfile EXCEPT ![c] = IF @ = NoFile THEN f ELSE @]

NewName_Forgotten(c, f) == UNCHANGED dlfile

NewName(c, f) == dlfile' = [dlfile EXCEPT ![c] = f]

Type(c, f) ==
    /\ c \in alive
    /\ gets < MaxGets
    /\ gets' = gets + 1
    /\ NewName(c, f)
    /\ calm' = (calm /\ Quiet)
    /\ UNCHANGED <<alive, alreadyTransferring, ipaddress, sender, getter, tcpVars, downloads>>

(* get: the coordinator tells an owner to send and the requester whence. *)
AskFile(c, f, o) ==
    /\ o # c /\ f \in Shares[o]
    /\ Type(c, f)
    /\ inbox' = [inbox EXCEPT ![o] = Append(@, [cmd |-> "get", file |-> f]),
                              ![c] = Append(@, [cmd |-> "ip", host |-> HostOf[o]])]

(* get of a file nobody shares, or one's own: a message, and no transfer. *)
AskInVain(c, f) ==
    /\ Type(c, f)
    /\ UNCHANGED inbox

-----------------------------------------------------------------------------
(* The main thread: getCommand().                                           *)

(* The flag (the first form forgets to test it). *)
Busy_Untested(c) == FALSE

Busy(c) == alreadyTransferring[c]

Received(c, cmd) ==
    /\ c \in alive
    /\ inbox[c] # <<>>
    /\ Head(inbox[c]).cmd = cmd
    /\ inbox' = [inbox EXCEPT ![c] = Tail(@)]

(* A get frame starts a sendFile() thread.  That thread reads the name      *)
(* through a pointer into the frame getCommand() has left; only another     *)
(* accepted get frame writes there, and none is accepted meanwhile, so it   *)
(* finds this name, or garbage: see MissingFile.                            *)
StartSending(c) ==
    /\ Received(c, "get")
    /\ ~Busy(c)
    /\ alreadyTransferring' = [alreadyTransferring EXCEPT ![c] = TRUE]
    /\ \E t \in Senders :
          /\ Owner(t) = c
          /\ sender[t].pc = "none"
          /\ sender' = [sender EXCEPT ![t] = [pc   |-> "bind",
                                              file |-> Head(inbox[c]).file,
                                              peer |-> NoPeer]]
    /\ UNCHANGED <<alive, dlfile, ipaddress, getter, tcpVars, historyVars>>

(* A client that is busy drops the frame and tells nobody. *)
IgnoreGet(c) ==
    /\ Received(c, "get")
    /\ Busy(c)
    /\ UNCHANGED <<alive, alreadyTransferring, dlfile, ipaddress, sender, getter,
                   tcpVars, historyVars>>

(* An ip frame starts a getFile() thread, with a pointer to an array that   *)
(* the next ip frame overwrites.                                            *)
StartGetting(c) ==
    /\ Received(c, "ip")
    /\ ipaddress' = [ipaddress EXCEPT ![c] = Head(inbox[c]).host]
    /\ \E n \in 1 .. MaxGets :
          /\ getter[<<c, n>>] = "new"
          /\ \A k \in 1 .. n - 1 : getter[<<c, k>>] # "new"
          /\ getter' = [getter EXCEPT ![<<c, n>>] = "sleep"]
    /\ UNCHANGED <<alive, alreadyTransferring, dlfile, sender, tcpVars, historyVars>>

-----------------------------------------------------------------------------
(* A sendFile() thread.                                                     *)

Host(t) == HostOf[Owner(t)]

GoTo(t, pc) == sender' = [sender EXCEPT ![t].pc = pc]

(* The thread ends: clearing the flag it owns, or forgetting to. *)
EndCleared(t) ==
    /\ sender' = [sender EXCEPT ![t] = IdleSender]
    /\ alreadyTransferring' = [alreadyTransferring EXCEPT ![Owner(t)] = FALSE]

EndUncleared(t) ==
    /\ sender' = [sender EXCEPT ![t] = IdleSender]
    /\ UNCHANGED alreadyTransferring

AtSender(t, pc) == sender[t].pc = pc

(* bind() with SO_REUSEADDR fails only while somebody listens there. *)
Bind(t) ==
    /\ AtSender(t, "bind")
    /\ port[Host(t)] = NoThread
    /\ GoTo(t, "listen")
    /\ UNCHANGED <<alive, inbox, alreadyTransferring, dlfile, ipaddress, getter,
                   tcpVars, historyVars>>

(* The port is taken, or getaddrinfo(), setsockopt() or pthread_create()    *)
(* failed: the get is lost, the requester not told.                         *)
SetupFails(t) ==
    /\ AtSender(t, "bind")
    /\ EndCleared(t)
    /\ UNCHANGED <<alive, inbox, dlfile, ipaddress, getter, tcpVars, historyVars>>

Listen(t) ==
    /\ AtSender(t, "listen")
    /\ port[Host(t)] = NoThread
    /\ port' = [port EXCEPT ![Host(t)] = t]
    /\ GoTo(t, "select")
    /\ UNCHANGED <<alive, inbox, alreadyTransferring, dlfile, ipaddress, getter,
                   backlog, stream, atSender, historyVars>>

(* Another process of the machine has bound the port as well and listens    *)
(* already.  The clearing of the flag comes after pthread_exit().           *)
ListenFails(t) ==
    /\ AtSender(t, "listen")
    /\ port[Host(t)] # NoThread
    /\ EndUncleared(t)
    /\ UNCHANGED <<alive, inbox, dlfile, ipaddress, getter, tcpVars, historyVars>>

Deliver(g, part, f) ==
    stream' = [stream EXCEPT ![g] = IF getter[g] \in {"size", "data"}
                                    THEN @ \o FrameOf(part, f) ELSE @]

(* A send() to a getter that has closed provokes a reset, which the next    *)
(* one may find, as SIGPIPE since the end of the connection came first.     *)
AfterSend(g) ==
    \/ UNCHANGED atSender
    \/ /\ atSender[g] = "fin"
       /\ atSender' = [atSender EXCEPT ![g] = "broken"]

(* Whoever connected first is served, requester or not: accept(), fopen(),  *)
(* fread() and the send() of the size, which finds no reset yet.            *)
Serve(t) ==
    /\ AtSender(t, "select")
    /\ backlog[Host(t)] # <<>>
    /\ LET g == Head(backlog[Host(t)]) IN
         /\ backlog' = [backlog EXCEPT ![Host(t)] = Tail(@)]
         /\ sender' = [sender EXCEPT ![t].pc = "data", ![t].peer = g]
         /\ Deliver(g, "size", sender[t].file)
         /\ AfterSend(g)
    /\ UNCHANGED <<alive, inbox, alreadyTransferring, dlfile, ipaddress, getter,
                   port, historyVars>>

(* fopen() fails, as the file is gone or the name garbage by now: memcpy()  *)
(* is given a char for a pointer, and SIGSEGV ends the process.             *)
MissingFile(t) ==
    /\ AtSender(t, "select")
    /\ backlog[Host(t)] # <<>>
    /\ Exit(Owner(t), stream)
    /\ UNCHANGED historyVars

(* select() times out or is interrupted, or accept() fails.  (The first     *)
(* form has no timeout, the second forgets to close the listening socket.)  *)
GiveUp_Never(t) == FALSE

GiveUp_Leaking(t) ==
    /\ AtSender(t, "select")
    /\ EndCleared(t)
    /\ UNCHANGED <<alive, inbox, dlfile, ipaddress, getter, tcpVars, historyVars>>

GiveUp(t) ==
    /\ AtSender(t, "select")
    /\ ClosePorts({t})
    /\ EndCleared(t)
    /\ UNCHANGED <<alive, inbox, dlfile, ipaddress, getter, stream, atSender, historyVars>>

SendData(t) ==
    /\ AtSender(t, "data")
    /\ LET g == sender[t].peer IN
         /\ atSender[g] \in {"open", "fin"}
         /\ Deliver(g, "data", sender[t].file)
         /\ AfterSend(g)
    /\ GoTo(t, "clear")
    /\ UNCHANGED <<alive, inbox, alreadyTransferring, dlfile, ipaddress, getter,
                   port, backlog, historyVars>>

(* The send() of the data returns -1: this error path leaves the flag set.  *)
SendDataFails(t) ==
    /\ AtSender(t, "data")
    /\ atSender[sender[t].peer] = "reset"
    /\ ClosePorts({t})
    /\ EndUncleared(t)
    /\ UNCHANGED <<alive, inbox, dlfile, ipaddress, getter, stream, atSender, historyVars>>

SendDataKills(t) ==
    /\ AtSender(t, "data")
    /\ atSender[sender[t].peer] = "broken"
    /\ Exit(Owner(t), stream)
    /\ UNCHANGED historyVars

(* The flag is cleared first and the port released after it. *)
ClearFlag(t) ==
    /\ AtSender(t, "clear")
    /\ alreadyTransferring' = [alreadyTransferring EXCEPT ![Owner(t)] = FALSE]
    /\ GoTo(t, "close")
    /\ UNCHANGED <<alive, inbox, dlfile, ipaddress, getter, tcpVars, historyVars>>

(* (The first form clears it once more.) *)
CloseSockets_Clearing(t) ==
    /\ AtSender(t, "close")
    /\ ClosePorts({t})
    /\ EndCleared(t)
    /\ UNCHANGED <<alive, inbox, dlfile, ipaddress, getter, stream, atSender, historyVars>>

CloseSockets(t) ==
    /\ AtSender(t, "close")
    /\ ClosePorts({t})
    /\ EndUncleared(t)
    /\ UNCHANGED <<alive, inbox, dlfile, ipaddress, getter, stream, atSender, historyVars>>

SendFile(t) ==
    \/ Bind(t) \/ SetupFails(t) \/ Listen(t) \/ ListenFails(t)
    \/ Serve(t) \/ MissingFile(t) \/ GiveUp(t)
    \/ SendData(t) \/ SendDataFails(t) \/ SendDataKills(t)
    \/ ClearFlag(t) \/ CloseSockets(t)

-----------------------------------------------------------------------------
(* A getFile() thread.                                                      *)

AtGetter(g, pc) == getter[g] = pc

GetterGoesTo(g, pc) == getter' = [getter EXCEPT ![g] = pc]

Hung(g, left) == atSender' = [atSender EXCEPT ![g] = Hangup(g, left)]

(* connect() to the port of the machine the array names by now. *)
Connect(g) ==
    /\ AtGetter(g, "sleep")
    /\ LET h == ipaddress[Owner(g)] IN
         /\ port[h] # NoThread
         /\ Len(backlog[h]) < MaxConnects
         /\ backlog' = [backlog EXCEPT ![h] = Append(@, g)]
    /\ GetterGoesTo(g, "size")
    /\ UNCHANGED <<alive, inbox, alreadyTransferring, dlfile, ipaddress, sender,
                   port, stream, atSender, historyVars>>

(* The connection is refused; or the array, or the uninitialised hints,     *)
(* hold garbage and getaddrinfo() fails.  (The first form tries again.)     *)
ConnectFails_Retrying(g) == AtGetter(g, "sleep") /\ UNCHANGED vars

ConnectFails(g) ==
    /\ AtGetter(g, "sleep")
    /\ GetterGoesTo(g, "done")
    /\ UNCHANGED <<alive, inbox, alreadyTransferring, dlfile, ipaddress, sender,
                   tcpVars, historyVars>>

(* recv() without MSG_WAITALL: any number of the pieces that are there.     *)
Takes(g) == {m \in 1 .. PiecesPerFrame : m <= Len(stream[g])}

RecvSize(g) ==
    /\ AtGetter(g, "size")
    /\ \E m \in Takes(g) :
          stream' = [stream EXCEPT ![g] = SubSeq(@, m + 1, Len(@))]
    /\ GetterGoesTo(g, "data")
    /\ UNCHANGED <<alive, inbox, alreadyTransferring, dlfile, ipaddress, sender,
                   port, backlog, atSender, historyVars>>

(* What one more recv() returns is written under the name dlfile holds now. *)
RecvData(g) ==
    /\ AtGetter(g, "data")
    /\ \E m \in Takes(g) :
          /\ downloads' = downloads \cup
                {[by      |-> g,
                  name    |-> dlfile[Owner(g)],
                  content |-> SubSeq(stream[g], 1, m)]}
          /\ Hung(g, SubSeq(stream[g], m + 1, Len(stream[g])))
    /\ stream' = [stream EXCEPT ![g] = <<>>]
    /\ GetterGoesTo(g, "done")
    /\ UNCHANGED <<alive, inbox, alreadyTransferring, dlfile, ipaddress, sender,
                   port, backlog, gets, calm>>

(* fopen() of that name fails (there is no download directory, or no right  *)
(* to write there) and is not looked at: fwrite() and fclose() are given a  *)
(* null pointer, and SIGSEGV ends the process.                              *)
CannotWrite(g) ==
    /\ AtGetter(g, "data")
    /\ \E m \in Takes(g) :
          Exit(Owner(g), [stream EXCEPT ![g] = SubSeq(@, m + 1, Len(@))])
    /\ UNCHANGED historyVars

(* recv() finds the connection ended, or a select() times out or fails. *)
GetterGivesUp(g) ==
    /\ getter[g] \in {"size", "data"}
    /\ Hung(g, stream[g])
    /\ stream' = [stream EXCEPT ![g] = <<>>]
    /\ GetterGoesTo(g, "done")
    /\ UNCHANGED <<alive, inbox, alreadyTransferring, dlfile, ipaddress, sender,
                   port, backlog, historyVars>>

GetFile(g) ==
    \/ Connect(g) \/ ConnectFails(g)
    \/ RecvSize(g) \/ RecvData(g) \/ CannotWrite(g) \/ GetterGivesUp(g)

-----------------------------------------------------------------------------
GetCommand(c) == StartSending(c) \/ IgnoreGet(c) \/ StartGetting(c)

UserThread(c) ==
    \E f \in Files : AskInVain(c, f) \/ \E o \in Clients : AskFile(c, f, o)

Next ==
    \/ \E c \in Clients : Leave(c) \/ UserThread(c) \/ GetCommand(c)
    \/ \E t \in Senders : SendFile(t)
    \/ \E g \in Getters : GetFile(g)

Spec == Init /\ [][Next]_vars

(* Transfer threads are scheduled and their select() calls time out.  Users *)
(* type and leave when they like.                                           *)
FairSpec ==
    /\ Spec
    /\ \A t \in Senders : WF_vars(SendFile(t))
    /\ \A g \in Getters : WF_vars(GetFile(g))

-----------------------------------------------------------------------------
(* Every variable holds what the code can put there; no file is written     *)
(* under the empty name dlfile has at first.                                *)
TypeOK ==
    /\ alive \subseteq Clients
    /\ inbox \in [Clients -> Seq(Frames)]
    /\ alreadyTransferring \in [Clients -> BOOLEAN]
    /\ dlfile \in [Clients -> Files \cup {NoFile}]
    /\ ipaddress \in [Clients -> Hosts \cup {NoHost}]
    /\ sender \in [Senders -> [pc   : Transferring \cup {"close", "none"},
                               file : Files \cup {NoFile},
                               peer : Getters \cup {NoPeer}]]
    /\ getter \in [Getters -> {"new", "sleep", "size", "data", "done"}]
    /\ port \in [Hosts -> Senders \cup {NoThread}]
    /\ backlog \in [Hosts -> Seq(Getters)]
    /\ stream \in [Getters -> Seq(Pieces)]
    /\ atSender \in [Getters -> {"open", "fin", "reset", "broken"}]
    /\ gets \in 0 .. MaxGets
    /\ \A d \in downloads : d.by \in Getters /\ d.name \in Files
    /\ calm \in BOOLEAN

(* "The client can handle only one file request at a time" (README.txt:22): *)
(* two sendFile() threads of one client are never both before their clearing*)
(* of alreadyTransferring, and that flag is set for the one that is.  The   *)
(* flag is tested outside the mutex, cleared by other threads than the one  *)
(* that sets it, and cleared on eight different paths.                      *)
OneTransferPerClient ==
    \A t \in Senders : sender[t].pc \in Transferring =>
        /\ alreadyTransferring[Owner(t)]
        /\ \A u \in Senders \ {t} :
              Owner(u) = Owner(t) => sender[u].pc \notin Transferring

(* Port 5050 of a machine is held by exactly one thread that has passed     *)
(* listen() and not yet close(): no exit path leaks it, whichever process   *)
(* of the machine takes it, is interrupted or dies.                         *)
PortsMatchListeners ==
    /\ \A t \in Senders : sender[t].pc \in Listening <=> port[Host(t)] = t
    /\ \A h \in Hosts : port[h] # NoThread => Host(port[h]) = h
    /\ \A h \in Hosts : port[h] = NoThread => backlog[h] = <<>>

(* Someone can always be started: a client has at most one thread that owns *)
(* the flag and one that is still closing, as the closing one holds the     *)
(* port and any later thread fails at bind() or listen().                   *)
SenderSlotsSuffice ==
    \A c \in Clients : ~alreadyTransferring[c] =>
        \E t \in Senders : Owner(t) = c /\ sender[t].pc = "none"

Right(d) == \A i \in 1 .. Len(d.content) : d.content[i].file = d.name

Whole(d) == d.content = FrameOf("data", d.name)

(* While every get is typed only when no transfer is under way anywhere,    *)
(* each file written is the one its name says, and whole if frames arrive   *)
(* whole: nothing left over from earlier gets, failed or not (the flag, the *)
(* port, dlfile, the address array, queued connections), reaches a later one*)
CalmDownloadsAreRight ==
    calm => \A d \in downloads : Right(d) /\ (PiecesPerFrame = 1 => Whole(d))

(* A getFile() thread ends, whatever happens to the thread it waits for:    *)
(* busy owner, refused or forgotten connection, death in between.           *)
GettersEnd == \A g \in Getters : (getter[g] = "sleep") ~> (getter[g] = "done")

(* A sendFile() thread ends, and with it the port is free again, although   *)
(* its requester may never come or may leave at any point.                  *)
SendersEnd ==
    \A t \in Senders : (sender[t].pc # "none") ~> (sender[t].pc = "none")

(* README.txt:24, "The server will correctly route all file requests and    *)
(* receive to the correct clients": what is written under a name is that    *)
(* file.                                                                    *)
DownloadsAreRight == \A d \in downloads : Right(d)
=============================================================================
