----------------------------- MODULE FileServer -----------------------------
(***************************************************************************)
(* The coordinator of the file distribution system, src/5273/pa4/server.c, *)
(* with the clients (client.c) as far as the server can tell them apart:   *)
(* they connect, announce a name and a list of files, send commands, read  *)
(* what they are sent, and leave.                                          *)
(*                                                                         *)
(* The server is one thread around select().  spc is the place in it:      *)
(*   "start"   before the loop: no socket listens yet   (lines 94 to 165)  *)
(*   "select"  blocked in select()                            (line 177)   *)
(*   "accept"  the listening socket was ready                 (line 186)   *)
(*   "scan"    in the loop over the slots, from idx on        (line 191)   *)
(*   "push"    in a loop of sendList() calls, from pos on  (252 and 387)   *)
(*   "send"    in a blocking send(), the first of todo  (498, 603 .. 648)  *)
(*   "dead"    the process has exited or was killed by a signal            *)
(* A message is one 24K frame; TCP is external and modelled by what the    *)
(* calls on a socket return.  A frame is in toSrv from its first byte on;  *)
(* that the server's recv() waits for the rest is a delay of its step.     *)
(***************************************************************************)
EXTENDS Integers, Sequences, FiniteSets

CONSTANTS
    Clients,      \* client processes; each connects once
    Files,        \* names of files that may be shared
    Names,        \* names clients may go by
    NameOf,       \* the name each client was started with
    NoName,       \* the empty name of a cleared slot
    NoClient,     \* marks a descriptor that is not open
    NumSlots,     \* places in clientArray; 4 in the code
    SockBuf,      \* frames a connection holds in each direction
    MaxSends,     \* bound: frames each client sends after its announcement
    SendsExit,    \* do clients send "exit"?  Not in client.c: line 215
    AlarmInMain   \* may SIGALRM be delivered to a client's main thread?

ASSUME NamesAssumption == NameOf \in [Clients -> Names] /\ NoName \notin Names
ASSUME NoClientAssumption == NoClient \notin Clients
ASSUME SlotsAssumption == NumSlots \in Nat \ {0}
ASSUME BufferAssumption == SockBuf \in Nat \ {0}
ASSUME SendsAssumption == MaxSends \in [Clients -> Nat]
ASSUME SwitchesAssumption == SendsExit \in BOOLEAN /\ AlarmInMain \in BOOLEAN

VARIABLES
    clientArray,  \* the slots: [valid, sock, name, files]
    fdTable,      \* which client an open descriptor of the server leads to
    backlog,      \* connections the kernel completed and accept() did not take
    spc,          \* place in the server, see above
    readfds,      \* the client sockets select() found ready
    idx,          \* i of the loop over the slots
    pos,          \* k of the loop that pushes the list to everybody
    todo,         \* the replies still to be sent: [fd, msg]
    crash,        \* what killed the server, if anything did
    conn,         \* state of each client's connection as the server's TCP has it
    toSrv,        \* frames the server has not received, per client
    toCli,        \* frames the client has not received, per client
    phase,        \* place in each client
    sends,        \* commands each client has sent
    shared,       \* files each client has ever announced
    seen          \* the last list each client was shown

serverVars == <<clientArray, fdTable, backlog, spc, readfds, idx, pos, todo, crash>>
clientVars == <<phase, sends, shared, seen>>
tcpVars    == <<conn, toSrv, toCli>>
vars == <<serverVars, tcpVars, clientVars>>

Slots == 0 .. NumSlots - 1
Fds   == 1 .. NumSlots

SlotSet == [valid : BOOLEAN, sock : Fds \cup {0}, name : Names \cup {NoName},
            files : SUBSET Files]

(* What bzero() makes of a slot. *)
EmptySlot == [valid |-> FALSE, sock |-> 0, name |-> NoName, files |-> {}]

(* The rows of the list: who shares what. *)
Tables == SUBSET ((Names \cup {NoName}) \X Files)
NoTable == {}

Requests ==
    [cmd : {"name"}, name : Names] \cup [cmd : {"sendmyfileslist"}, files : SUBSET Files]
    \cup [cmd : {"list", "exit"}] \cup [cmd : {"get"}, file : Files]

Replies ==
    [cmd : {"list"}, table : Tables] \cup [cmd : {"get", "own", "none"}, file : Files]
    \cup [cmd : {"ip"}, owner : Clients] \cup [cmd : {"full"}]

NoSlots == [i \in Slots |-> EmptySlot]
NoFds == [fd \in Fds |-> NoClient]

Init ==
    /\ clientArray = NoSlots
    /\ fdTable = NoFds
    /\ backlog = <<>>
    /\ spc = "start"
    /\ readfds = {}
    /\ idx = 0
    /\ pos = 0
    /\ todo = <<>>
    /\ crash = "none"
    /\ conn = [c \in Clients |-> "none"]
    /\ toSrv = [c \in Clients |-> <<>>]
    /\ toCli = [c \in Clients |-> <<>>]
    /\ phase = [c \in Clients |-> "start"]
    /\ sends = [c \in Clients |-> 0]
    /\ shared = [c \in Clients |-> {}]
    /\ seen = [c \in Clients |-> NoTable]

-----------------------------------------------------------------------------
(* The clients.                                                             *)

(* connect(), to the first address that takes it: the kernel of the server's *)
(* machine completes it as soon as the server listens.                       *)
Connect(c) ==
    /\ phase[c] = "start"
    /\ spc \notin {"start", "dead"}
    /\ phase' = [phase EXCEPT ![c] = "connected"]
    /\ conn' = [conn EXCEPT ![c] = "open"]
    /\ backlog' = Append(backlog, c)
    /\ UNCHANGED <<clientArray, fdTable, spc, readfds, idx, pos, todo, crash,
                   toSrv, toCli, sends, shared, seen>>

(* The arguments are not four, the host is not known, or no address of it   *)
(* gives a socket and a connection: the client exits.                       *)
ConnectFails(c) ==
    /\ phase[c] = "start"
    /\ phase' = [phase EXCEPT ![c] = "gone"]
    /\ UNCHANGED <<serverVars, tcpVars, sends, shared, seen>>

(* A blocking send() of one frame; it goes nowhere once the server is gone. *)
ClientSend(c, frame) ==
    \/ /\ conn[c] = "open"
       /\ Len(toSrv[c]) < SockBuf
       /\ toSrv' = [toSrv EXCEPT ![c] = Append(@, frame)]
    \/ /\ conn[c] = "closed"
       /\ UNCHANGED toSrv

SendName(c) ==
    /\ phase[c] = "connected"
    /\ ClientSend(c, [cmd |-> "name", name |-> NameOf[c]])
    /\ phase' = [phase EXCEPT ![c] = "named"]
    /\ UNCHANGED <<serverVars, conn, toCli, sends, shared, seen>>

(* sendFileList(), before the main loop. *)
FirstFileList(c) ==
    /\ phase[c] = "named"
    /\ phase' = [phase EXCEPT ![c] = "ready"]
    /\ \E files \in SUBSET Files :
          /\ ClientSend(c, [cmd |-> "sendmyfileslist", files |-> files])
          /\ shared' = [shared EXCEPT ![c] = @ \cup files]
    /\ UNCHANGED <<serverVars, conn, toCli, sends, seen>>

(* The user thread, and the alarm that it sets, start after the announcement.*)
MaySend(c) ==
    /\ phase[c] \in {"ready", "alarm"}
    /\ sends[c] < MaxSends[c]
    /\ sends' = [sends EXCEPT ![c] = @ + 1]

(* The commands of the user thread, and the list that the alarm sends again *)
(* when the user thread is the one it interrupts.                           *)
Command(c, frame) ==
    /\ MaySend(c)
    /\ ClientSend(c, frame)
    /\ UNCHANGED <<serverVars, conn, toCli, phase, seen>>

AskList(c) == Command(c, [cmd |-> "list"]) /\ UNCHANGED shared

AskFile(c) ==
    /\ \E f \in Files : Command(c, [cmd |-> "get", file |-> f])
    /\ UNCHANGED shared

SendFiles(c) ==
    \E files \in SUBSET Files :
        /\ Command(c, [cmd |-> "sendmyfileslist", files |-> files])
        /\ shared' = [shared EXCEPT ![c] = @ \cup files]

(* The frame the README's exit command would send before it closes. *)
SayExit(c) ==
    /\ SendsExit
    /\ Command(c, [cmd |-> "exit"])
    /\ UNCHANGED shared

(* SIGALRM interrupts the main thread, which receives nothing until the     *)
(* send() of its handler returns.                                           *)
AlarmRings(c) ==
    /\ AlarmInMain
    /\ phase[c] = "ready"
    /\ MaySend(c)
    /\ phase' = [phase EXCEPT ![c] = "alarm"]
    /\ UNCHANGED <<serverVars, tcpVars, shared, seen>>

AlarmSends(c) ==
    /\ phase[c] = "alarm"
    /\ phase' = [phase EXCEPT ![c] = "ready"]
    /\ \E files \in SUBSET Files :
          /\ ClientSend(c, [cmd |-> "sendmyfileslist", files |-> files])
          /\ shared' = [shared EXCEPT ![c] = @ \cup files]
    /\ UNCHANGED <<serverVars, conn, toCli, sends, seen>>

(* The main loop receives a frame and acts on it; a list is shown. *)
ClientReceive(c) ==
    /\ phase[c] = "ready"
    /\ toCli[c] # <<>>
    /\ toCli' = [toCli EXCEPT ![c] = Tail(@)]
    /\ seen' = IF Head(toCli[c]).cmd = "list"
               THEN [seen EXCEPT ![c] = Head(toCli[c]).table]
               ELSE seen
    /\ UNCHANGED <<serverVars, conn, toSrv, phase, sends, shared>>

(* What a client knows goes with its process. *)
Forget(c) ==
    /\ phase' = [phase EXCEPT ![c] = "gone"]
    /\ seen' = [seen EXCEPT ![c] = NoTable]
    /\ sends' = [sends EXCEPT ![c] = 0]

(* recv() returns 0: the server closed the connection, and the client exits. *)
ServerGone_Ignored(c) ==
    /\ phase[c] = "ready"
    /\ conn[c] = "closed"
    /\ toCli[c] = <<>>
    /\ UNCHANGED vars
ServerGone(c) ==
    /\ phase[c] = "ready"
    /\ conn[c] = "closed"
    /\ toCli[c] = <<>>
    /\ Forget(c)
    /\ UNCHANGED <<serverVars, tcpVars, shared>>

(* The user types exit or the process is killed, if only by a file of its   *)
(* own that sendFileList() cannot open.  A connection closed with           *)
(* frames unread is reset; the reset may also follow an orderly close, when *)
(* a frame meets the closed socket.                                         *)
Leave(c) ==
    /\ phase[c] \in {"connected", "named", "ready", "alarm"}
    /\ Forget(c)
    /\ toCli' = [toCli EXCEPT ![c] = <<>>]
    /\ IF conn[c] = "open"
       THEN \E s \in IF toCli[c] = <<>> THEN {"fin"} ELSE {"fin", "rst", "broken"} :
               conn' = [conn EXCEPT ![c] = s]
       ELSE UNCHANGED conn
    /\ UNCHANGED <<serverVars, toSrv, shared>>

(* What a client's program does by itself, and what its user makes it do. *)
ClientProgress(c) ==
    SendName(c) \/ FirstFileList(c) \/ AlarmSends(c) \/ ClientReceive(c) \/ ServerGone(c)
UserStep(c) ==
    \/ Connect(c) \/ ConnectFails(c) \/ Leave(c)
    \/ AskList(c) \/ AskFile(c) \/ SendFiles(c) \/ SayExit(c) \/ AlarmRings(c)

-----------------------------------------------------------------------------
(* The server.                                                              *)

(* main() before its loop.  A failing socket() or bind() has it try the next *)
(* of its own addresses; the first one bound is listened on.  The bzero() of *)
(* clientArray finds nothing to clear.                                       *)
Start ==
    /\ spc = "start"
    /\ spc' = "select"
    /\ UNCHANGED <<clientArray, fdTable, backlog, readfds, idx, pos, todo, crash,
                   tcpVars, clientVars>>

(* No port was given, no address can be bound, or setsockopt() or listen()  *)
(* fails: the process exits.                                                *)
StartFails ==
    /\ spc = "start"
    /\ spc' = "dead"
    /\ UNCHANGED <<clientArray, fdTable, backlog, readfds, idx, pos, todo, crash,
                   tcpVars, clientVars>>

Valid == {i \in Slots : clientArray[i].valid}

(* The loops over clientArray run upwards and stop at the first match. *)
IsFirst(x, S) == x \in S /\ \A y \in S : x <= y

(* The client at the other end of a slot's socket. *)
Peer(i) == fdTable[clientArray[i].sock]

(* Does select() report this descriptor?  It does for an end of the         *)
(* connection and for data, if only the first bytes of a frame.             *)
Readable(fd) ==
    LET c == fdTable[fd] IN toSrv[c] # <<>> \/ conn[c] \in {"fin", "rst", "broken"}

(* build_sock_set(): the sockets of the valid slots. *)
Watched_ButLastSlot == {clientArray[i].sock : i \in Valid \ {NumSlots - 1}}
Watched == {clientArray[i].sock : i \in Valid}

(* What select() leaves in readfds. *)
Ready_Unchecked == Watched
Ready == {fd \in Watched : Readable(fd)}

Select ==
    /\ spc = "select"
    /\ backlog # <<>> \/ Ready # {}
    /\ readfds' = Ready
    /\ spc' = IF backlog # <<>> THEN "accept" ELSE "scan"
    /\ UNCHANGED <<clientArray, fdTable, backlog, idx, pos, todo, crash, tcpVars,
                   clientVars>>

FreeFds == {fd \in Fds : fdTable[fd] = NoClient}

(* processNewConnection(), room left: the first invalid slot is cleared and *)
(* gets the new descriptor, which is the lowest free one.                   *)
NewSlot_Uncleared(i, fd) == [clientArray[i] EXCEPT !.valid = TRUE, !.sock = fd]
NewSlot(i, fd) == [EmptySlot EXCEPT !.valid = TRUE, !.sock = fd]

AcceptConnection ==
    /\ spc = "accept"
    /\ \E i \in Slots, fd \in Fds :
         /\ IsFirst(i, Slots \ Valid)
         /\ IsFirst(fd, FreeFds)
         /\ clientArray' = [clientArray EXCEPT ![i] = NewSlot(i, fd)]
         /\ fdTable' = [fdTable EXCEPT ![fd] = Head(backlog)]
    /\ backlog' = Tail(backlog)
    /\ spc' = "scan"
    /\ UNCHANGED <<readfds, idx, pos, todo, crash, tcpVars, clientVars>>

(* close() of a connection by the server: what it had not received is lost. *)
Closed(c) ==
    /\ conn' = [conn EXCEPT ![c] = "closed"]
    /\ toSrv' = [toSrv EXCEPT ![c] = <<>>]

(* processNewConnection(), no room: a message, then close().  The send() is *)
(* the first on its connection and neither blocks nor raises SIGPIPE.       *)
TurnAway ==
    /\ spc = "accept"
    /\ Valid = Slots
    /\ LET c == Head(backlog) IN
         /\ Closed(c)
         /\ toCli' = IF conn[c] = "open"
                     THEN [toCli EXCEPT ![c] = Append(@, [cmd |-> "full"])]
                     ELSE toCli
    /\ backlog' = Tail(backlog)
    /\ spc' = "scan"
    /\ UNCHANGED <<clientArray, fdTable, readfds, idx, pos, todo, crash, clientVars>>

-----------------------------------------------------------------------------
(* Sending.                                                                 *)

(* What a signal kills: the slots and descriptors are gone with the process, *)
(* and the kernel closes every connection.                                   *)
Die(cause) ==
    /\ spc' = "dead"
    /\ crash' = cause
    /\ clientArray' = NoSlots
    /\ fdTable' = NoFds
    /\ readfds' = {}
    /\ idx' = 0
    /\ pos' = 0
    /\ todo' = <<>>
    /\ backlog' = <<>>
    /\ conn' = [c \in Clients |-> IF conn[c] = "none" THEN "none" ELSE "closed"]
    /\ toSrv' = [c \in Clients |-> <<>>]
    /\ UNCHANGED <<toCli, clientVars>>

(* A blocking send() that returns, with or without an error: to an open     *)
(* connection with room; to one the client has closed, which answers with a *)
(* reset sooner or later; to one it has reset, which fails this once.       *)
Send(c, msg) ==
    \/ /\ conn[c] = "open"
       /\ Len(toCli[c]) < SockBuf
       /\ toCli' = [toCli EXCEPT ![c] = Append(@, msg)]
       /\ UNCHANGED conn
    \/ /\ conn[c] \in {"fin", "rst"}
       /\ \E s \in {"broken"} \cup (IF conn[c] = "fin" THEN {"fin"} ELSE {}) :
             conn' = [conn EXCEPT ![c] = s]
       /\ UNCHANGED toCli

(* Any further send() on such a connection raises SIGPIPE, which the server *)
(* neither handles nor ignores.                                             *)
SendKills(c) == conn[c] = "broken"

(* sendList() and printList() walk the files of every valid slot with       *)
(* strtok() and hand its result to strcat(): with no file in the slot that  *)
(* is a null pointer.                                                       *)
ListFails(slots) == \E i \in Slots : slots[i].valid /\ slots[i].files = {}

Table(slots) ==
    UNION {{<<slots[i].name, f>> : f \in slots[i].files} :
              i \in {j \in Slots : slots[j].valid}}

(* The loops of sendList() calls over the valid slots begin. *)
StartPush_FromOne ==
    /\ spc' = "push"
    /\ pos' = 1
StartPush ==
    /\ spc' = "push"
    /\ pos' = 0

ListMessage == [cmd |-> "list", table |-> Table(clientArray)]

(* The next slot of the pushing loop. *)
Pushable == {i \in Valid : i >= pos}

PushList(i) ==
    /\ spc = "push"
    /\ IsFirst(i, Pushable)
    /\ ~ListFails(clientArray)
    /\ Send(Peer(i), ListMessage)
    /\ pos' = i + 1
    /\ UNCHANGED <<clientArray, fdTable, backlog, spc, readfds, idx, todo, crash,
                   toSrv, clientVars>>

PushCrash ==
    /\ spc = "push"
    /\ Pushable # {}
    /\ ListFails(clientArray)
    /\ Die("segv")

PushSigpipe(i) ==
    /\ spc = "push"
    /\ IsFirst(i, Pushable)
    /\ ~ListFails(clientArray)
    /\ SendKills(Peer(i))
    /\ Die("sigpipe")

PushDone ==
    /\ spc = "push"
    /\ Pushable = {}
    /\ spc' = "scan"
    /\ pos' = 0
    /\ UNCHANGED <<clientArray, fdTable, backlog, readfds, idx, todo, crash,
                   tcpVars, clientVars>>

SendReply ==
    /\ spc = "send"
    /\ Send(fdTable[Head(todo).fd], Head(todo).msg)
    /\ todo' = Tail(todo)
    /\ spc' = IF Tail(todo) = <<>> THEN "scan" ELSE "send"
    /\ UNCHANGED <<clientArray, fdTable, backlog, readfds, idx, pos, crash,
                   toSrv, clientVars>>

SendSigpipe ==
    /\ spc = "send"
    /\ SendKills(fdTable[Head(todo).fd])
    /\ Die("sigpipe")

-----------------------------------------------------------------------------
(* The loop over the slots.                                                 *)

(* Slots whose socket select() found ready and that the loop has to come to.*)
Pending_ButLastSlot ==
    {i \in Valid : i >= idx /\ i < NumSlots - 1 /\ clientArray[i].sock \in readfds}
Pending == {i \in Valid : i >= idx /\ clientArray[i].sock \in readfds}

(* The loop ends; the next round clears readfds and counts from 0 again. *)
ScanDone ==
    /\ spc = "scan"
    /\ Pending = {}
    /\ spc' = "select"
    /\ readfds' = {}
    /\ idx' = 0
    /\ UNCHANGED <<clientArray, fdTable, backlog, pos, todo, crash, tcpVars,
                   clientVars>>

(* connection() is called for slot i. *)
Serve(i) ==
    /\ spc = "scan"
    /\ IsFirst(i, Pending)

(* recv() with MSG_WAITALL returns a frame that bears the command cmd, once *)
(* all of it is there: until then the server waits for the slowest sender.  *)
Receive(i, cmd) ==
    /\ Serve(i)
    /\ toSrv[Peer(i)] # <<>>
    /\ Head(toSrv[Peer(i)]).cmd = cmd

Frame(i) == Head(toSrv[Peer(i)])

Consumed_SkipsOne(i) ==
    /\ toSrv' = [toSrv EXCEPT ![Peer(i)] = Tail(@)]
    /\ idx' = i + 2
Consumed(i) ==
    /\ toSrv' = [toSrv EXCEPT ![Peer(i)] = Tail(@)]
    /\ idx' = i + 1

(* getCommand() and connection() find the slot again by its socket. *)
FindIndex(i) ==
    CHOOSE j \in Valid : IsFirst(j, {k \in Valid : clientArray[k].sock = clientArray[i].sock})

Reply(i, msg) == <<[fd |-> clientArray[i].sock, msg |-> msg]>>

HandleName(i) ==
    /\ Receive(i, "name")
    /\ Consumed(i)
    /\ clientArray' = [clientArray EXCEPT ![FindIndex(i)].name = Frame(i).name]
    /\ UNCHANGED <<fdTable, backlog, spc, readfds, pos, todo, crash, conn, toCli,
                   clientVars>>

(* sendmyfileslist: store the list, print it, push it to everybody. *)
Stored(i) == [clientArray EXCEPT ![FindIndex(i)].files = Frame(i).files]

HandleFiles(i) ==
    /\ Receive(i, "sendmyfileslist")
    /\ ~ListFails(Stored(i))
    /\ Consumed(i)
    /\ clientArray' = Stored(i)
    /\ StartPush
    /\ UNCHANGED <<fdTable, backlog, readfds, todo, crash, conn, toCli, clientVars>>

HandleFilesCrash(i) ==
    /\ Receive(i, "sendmyfileslist")
    /\ ListFails(Stored(i))
    /\ Die("segv")

HandleList(i) ==
    /\ Receive(i, "list")
    /\ ~ListFails(clientArray)
    /\ Consumed(i)
    /\ todo' = Reply(FindIndex(i), ListMessage)
    /\ spc' = "send"
    /\ UNCHANGED <<clientArray, fdTable, backlog, readfds, pos, crash, conn, toCli,
                   clientVars>>

HandleListCrash(i) ==
    /\ Receive(i, "list")
    /\ ListFails(clientArray)
    /\ Die("segv")

(* exit: the slot is freed and the socket closed; nobody is told. *)
Freed_StaysValid(i) == clientArray
Freed(i) == [clientArray EXCEPT ![FindIndex(i)].valid = FALSE]

HandleExit(i) ==
    /\ Receive(i, "exit")
    /\ clientArray' = Freed(i)
    /\ fdTable' = [fdTable EXCEPT ![clientArray[i].sock] = NoClient]
    /\ Closed(Peer(i))
    /\ idx' = i + 1
    /\ UNCHANGED <<backlog, spc, readfds, pos, todo, crash, toCli, clientVars>>

(* get: the first valid slot whose list names the file is its owner.  The   *)
(* owner is told to send, then the requester is told where to connect.  The *)
(* file of the replies "own" and "none" is not part of their text.          *)
Owners(f) == {k \in Valid : f \in clientArray[k].files}

NotShared(i, f) ==
    /\ Owners(f) = {}
    /\ todo' = Reply(i, [cmd |-> "none", file |-> f])

OwnFile(i, k, f) ==
    /\ clientArray[k].name = clientArray[i].name
    /\ todo' = Reply(i, [cmd |-> "own", file |-> f])

Route(i, k, f) ==
    /\ clientArray[k].name # clientArray[i].name
    /\ todo' = Reply(k, [cmd |-> "get", file |-> f])
                  \o Reply(i, [cmd |-> "ip", owner |-> Peer(k)])

ManageGet(i, f) ==
    \/ NotShared(i, f)
    \/ \E k \in Slots : IsFirst(k, Owners(f)) /\ (OwnFile(i, k, f) \/ Route(i, k, f))

HandleGet(i) ==
    /\ Receive(i, "get")
    /\ Consumed(i)
    /\ ManageGet(FindIndex(i), Frame(i).file)
    /\ spc' = "send"
    /\ UNCHANGED <<clientArray, fdTable, backlog, readfds, pos, crash, conn, toCli,
                   clientVars>>

(* recv() returns 0: the slot is freed, the socket closed, the list pushed. *)
HandleEof(i) ==
    /\ Serve(i)
    /\ toSrv[Peer(i)] = <<>>
    /\ conn[Peer(i)] \in {"fin", "broken"}
    /\ clientArray' = Freed(i)
    /\ fdTable' = [fdTable EXCEPT ![clientArray[i].sock] = NoClient]
    /\ Closed(Peer(i))
    /\ idx' = i + 1
    /\ StartPush
    /\ UNCHANGED <<backlog, readfds, todo, crash, toCli, clientVars>>

(* recv() returns -1: nothing is done; the next recv() will return 0. *)
HandleReset(i) ==
    /\ Serve(i)
    /\ toSrv[Peer(i)] = <<>>
    /\ conn[Peer(i)] = "rst"
    /\ conn' = [conn EXCEPT ![Peer(i)] = "broken"]
    /\ idx' = i + 1
    /\ UNCHANGED <<clientArray, fdTable, backlog, spc, readfds, pos, todo, crash,
                   toSrv, toCli, clientVars>>

Connection(i) ==
    \/ HandleName(i) \/ HandleFiles(i) \/ HandleFilesCrash(i)
    \/ HandleList(i) \/ HandleListCrash(i) \/ HandleExit(i) \/ HandleGet(i)
    \/ HandleEof(i) \/ HandleReset(i)

ServerStep ==
    \/ Start \/ StartFails
    \/ Select \/ AcceptConnection \/ TurnAway \/ ScanDone
    \/ \E i \in Slots : Connection(i) \/ PushList(i) \/ PushSigpipe(i)
    \/ PushCrash \/ PushDone
    \/ SendReply \/ SendSigpipe

Next == ServerStep \/ \E c \in Clients : ClientProgress(c) \/ UserStep(c)

Spec == Init /\ [][Next]_vars

(* The server is a running process; so is each client, whose main loop      *)
(* keeps receiving.  Nothing makes a user type or leave.                    *)
FairSpec ==
    /\ Spec
    /\ WF_vars(ServerStep)
    /\ \A c \in Clients : WF_vars(ClientProgress(c))

-----------------------------------------------------------------------------
(* Every variable holds a value of its type.                                *)
TypeOK ==
    /\ clientArray \in [Slots -> SlotSet]
    /\ fdTable \in [Fds -> Clients \cup {NoClient}]
    /\ backlog \in Seq(Clients)
    /\ spc \in {"start", "select", "accept", "scan", "push", "send", "dead"}
    /\ readfds \subseteq Fds
    /\ idx \in 0 .. NumSlots
    /\ pos \in 0 .. NumSlots
    /\ todo \in Seq([fd : Fds, msg : Replies])
    /\ crash \in {"none", "segv", "sigpipe"}
    /\ conn \in [Clients -> {"none", "open", "fin", "rst", "broken", "closed"}]
    /\ toSrv \in [Clients -> Seq(Requests)]
    /\ toCli \in [Clients -> Seq(Replies)]
    /\ phase \in [Clients -> {"start", "connected", "named", "ready", "alarm", "gone"}]
    /\ sends \in [Clients -> Nat] /\ \A c \in Clients : sends[c] <= MaxSends[c]
    /\ shared \in [Clients -> SUBSET Files]
    /\ seen \in [Clients -> Tables]

-----------------------------------------------------------------------------
(* Safety.                                                                  *)

(* The valid slots and the open descriptors correspond one to one: no two   *)
(* slots share a socket, though descriptors are reused and slots keep the   *)
(* socket of their last occupant; no slot holds a closed one, and no        *)
(* descriptor stays open without a slot.                                    *)
SocketsMatchSlots ==
    /\ \A i, j \in Valid : clientArray[i].sock = clientArray[j].sock => i = j
    /\ {fd \in Fds : fdTable[fd] # NoClient} = {clientArray[i].sock : i \in Valid}

(* A slot never shows what an earlier occupant announced: its name and its  *)
(* files are those of the client its socket leads to now.                   *)
SlotHoldsOwnData ==
    \A i \in Valid :
        LET c == Peer(i) IN
        /\ clientArray[i].name \in {NoName, NameOf[c]}
        /\ clientArray[i].files \subseteq shared[c]

(* A client is asked to send only a file it has announced itself, whoever   *)
(* came and went in its slot and on its descriptor before.                  *)
GetReachesAnnouncer ==
    \A c \in Clients : \A k \in 1 .. Len(toCli[c]) :
        toCli[c][k].cmd = "get" => toCli[c][k].file \in shared[c]

(* The bits that select() left in readfds stay true until the loop over the *)
(* slots comes to them: the slot's socket still has data, or an end, of the *)
(* client it belongs to, whatever was accepted, served, pushed and freed in *)
(* between.  With no such data recv() would wait for a client that has      *)
(* nothing to say, and everybody else with it.  (With some of a frame it    *)
(* waits for the rest of it, which is a delay of Receive.)                  *)
ReadyBitsStayTrue ==
    spc \in {"accept", "scan", "push", "send"} =>
        \A i \in Pending : Readable(clientArray[i].sock)

(* The list a client was sent last, in flight or shown. *)
LastTable(c) ==
    LET lists == {k \in 1 .. Len(toCli[c]) : toCli[c][k].cmd = "list"} IN
    IF lists = {} THEN seen[c]
    ELSE toCli[c][CHOOSE k \in lists : \A l \in lists : l <= k].table

(* Between two rounds of the server every client whose files are listed has *)
(* the current list, or has it on its way: each change is pushed to all.    *)
ListsAreCurrent ==
    spc = "select" =>
        \A i \in Valid :
            clientArray[i].files # {} /\ conn[Peer(i)] = "open"
                => LastTable(Peer(i)) = Table(clientArray)

-----------------------------------------------------------------------------
(* The directory that the coordinator keeps.                                *)

Members == {Peer(i) : i \in Valid}

Offers ==
    [c \in Clients |-> UNION {clientArray[i].files : i \in {j \in Valid : Peer(j) = c}}]

(* Requests in a reply still to be sent, or not yet received.               *)
GetFrame(f) == [cmd |-> "get", file |-> f]

AskedOnTheWay(c) == {f \in Files : \E k \in 1 .. Len(toCli[c]) : toCli[c][k] = GetFrame(f)}

AskedSoon(c) ==
    {f \in Files : \E k \in 1 .. Len(todo) :
        fdTable[todo[k].fd] = c /\ todo[k].msg = GetFrame(f)}

Asked == [c \in Clients |-> AskedOnTheWay(c) \cup AskedSoon(c)]

D == INSTANCE Directory WITH
        members <- Members, offers <- Offers, asked <- Asked, Capacity <- NumSlots

(* The coordinator implements the directory: through reuse of slots and     *)
(* descriptors, departures and pushes in the middle of a round, a client is *)
(* asked only for what it offers at the time, and who joins offers nothing. *)
DirectoryRefined == D!Spec

-----------------------------------------------------------------------------
(* Liveness under FairSpec.                                                 *)

(* The client that the server's send() is for.                              *)
SendsTo(c) ==
    \/ spc = "push" /\ \E i \in Valid : IsFirst(i, Pushable) /\ Peer(i) = c
    \/ spc = "send" /\ fdTable[Head(todo).fd] = c

(* Server and client are each in a send() that waits for the other to read. *)
HungInAlarm ==
    \E c \in Clients :
        /\ phase[c] = "alarm" /\ conn[c] = "open"
        /\ SendsTo(c)
        /\ Len(toSrv[c]) = SockBuf /\ Len(toCli[c]) = SockBuf

(* What a client sends is received, unless the server dies: no slot starves *)
(* behind the others, and the one send() that blocks for good is to a       *)
(* client that is "hung up in the sigalarm", as the README of pa4 has it.   *)
FramesAreServed ==
    \A c \in Clients :
        (conn[c] = "open" /\ toSrv[c] # <<>>)
            ~> (toSrv[c] = <<>> \/ conn[c] # "open" \/ spc = "dead" \/ HungInAlarm)

(* A client that left loses its slot, unless the server dies or hangs: also *)
(* after a reset, for which the first recv() removes nothing.               *)
LeaversAreRemoved ==
    \A c \in Clients :
        <>(phase[c] = "gone")
            => <>[](spc = "dead" \/ HungInAlarm \/ \A fd \in Fds : fdTable[fd] # c)

(* When the server dies all clients exit (README).                          *)
ServerDeathEndsClients ==
    spc = "dead" ~> \A c \in Clients : phase[c] \in {"start", "gone"}

-----------------------------------------------------------------------------
(* What the README says and the code does not do.                           *)

(* "clients are able to connect to the server via TCP and execute the list, *)
(* sendmyfileslist, get <filename>, and exit commands": no such command     *)
(* brings the server down.                                                  *)
CommandsAreExecuted == crash # "segv"

(* "if a client closes the socket with the server or exits, it will be      *)
(* removed from the servers connection list": a departure does not bring    *)
(* the server down.                                                         *)
DeparturesAreSurvived == crash # "sigpipe"
=============================================================================
