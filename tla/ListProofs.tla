------------------------------ MODULE ListProofs ------------------------------
(***************************************************************************)
(* Proof that between two rounds of the coordinator every client whose     *)
(* files are listed was sent the current list, for any number of clients   *)
(* and slots.                                                              *)
(*                                                                         *)
(* It needs what is true in the middle of a round: while the list is       *)
(* pushed the slots already passed are current (Pushed), what a client is  *)
(* answered is still the list of the moment it gets it (TodoCurrent), and  *)
(* a name, which is stored without a push, reaches its slot before the     *)
(* first file does (NamesComeFirst).  A client that says exit would take   *)
(* its rows with it without a push: client.c never does.                   *)
(***************************************************************************)
EXTENDS FileServerProofs

(* The list a client was sent last is t.                                    *)
Told(c, t) ==
    \/ /\ \A k \in 1 .. Len(toCli[c]) : toCli[c][k].cmd # "list"
       /\ seen[c] = t
    \/ \E k \in 1 .. Len(toCli[c]) :
          /\ toCli[c][k].cmd = "list" /\ toCli[c][k].table = t
          /\ \A l \in 1 .. Len(toCli[c]) : l > k => toCli[c][l].cmd # "list"

(* The client of slot i knows the list, if it is there and listed.          *)
Current(i) ==
    clientArray[i].files # {} /\ conn[Peer(i)] = "open"
        => Told(Peer(i), Table(clientArray))

Pushed == \A i \in Valid : (spc = "push" => i < pos) => Current(i)

TodoCurrent ==
    \A k \in 1 .. Len(todo) :
        todo[k].msg.cmd = "list" => todo[k].msg.table = Table(clientArray)

(* Has the server still to learn the client's name?                         *)
Nameless(c) ==
    \/ phase[c] \in {"start", "connected"}
    \/ \E k \in 1 .. Len(toSrv[c]) : toSrv[c][k].cmd = "name"

NamesComeFirst ==
    /\ \A c \in Clients :
          /\ phase[c] \in {"start", "connected"} => toSrv[c] = <<>>
          /\ \A k \in 1 .. Len(toSrv[c]) : toSrv[c][k].cmd = "name" => k = 1
    /\ \A i \in Valid : Nameless(Peer(i)) => clientArray[i].files = {}

NobodySaysExit ==
    ~SendsExit => \A c \in Clients : \A k \in 1 .. Len(toSrv[c]) : toSrv[c][k].cmd # "exit"

(* The inductive invariant.                                                 *)
ListInv ==
    ServerInv /\ NamesComeFirst /\ NobodySaysExit /\ (~SendsExit => Pushed /\ TodoCurrent)
-----------------------------------------------------------------------------
(* Lists sent, received and forgotten.                                      *)

(* The list a client was told last is the one the property speaks of.       *)
LEMMA ToldIsLast ==
    ASSUME TypeOK, NEW c \in Clients, NEW t, Told(c, t)
    PROVE  LastTable(c) = t
<1> DEFINE lists == {k \in 1 .. Len(toCli[c]) : toCli[c][k].cmd = "list"}
<1>1. CASE \A k \in 1 .. Len(toCli[c]) : toCli[c][k].cmd # "list"
  BY <1>1 DEF Told, LastTable
<1>2. CASE \E k \in 1 .. Len(toCli[c]) :
              /\ toCli[c][k].cmd = "list" /\ toCli[c][k].table = t
              /\ \A l \in 1 .. Len(toCli[c]) : l > k => toCli[c][l].cmd # "list"
  <2>1. PICK k \in 1 .. Len(toCli[c]) :
              /\ toCli[c][k].cmd = "list" /\ toCli[c][k].table = t
              /\ \A l \in 1 .. Len(toCli[c]) : l > k => toCli[c][l].cmd # "list"
    BY <1>2
  <2>2. toCli[c] \in Seq(Replies)
    BY DEF TypeOK
  <2>3. k \in lists /\ \A l \in lists : l <= k
    BY <2>1, <2>2
  <2>4. \A j \in lists : (\A l \in lists : l <= j) => j = k
    BY <2>2, <2>3
  <2>5. (CHOOSE j \in lists : \A l \in lists : l <= j) = k
    BY <2>3, <2>4
  <2>6. QED
    BY <2>1, <2>3, <2>5 DEF LastTable
<1>3. QED
  BY <1>1, <1>2 DEF Told

(* A message that is no list changes nothing, and a list is the last one.   *)
LEMMA ToldBySending ==
    ASSUME TypeOK, NEW c \in Clients, NEW m \in Replies,
           toCli' = [toCli EXCEPT ![c] = Append(@, m)], UNCHANGED seen
    PROVE  /\ m.cmd = "list" => Told(c, m.table)'
           /\ \A d \in Clients, t \in Tables :
                 (d # c \/ m.cmd # "list") /\ Told(d, t) => Told(d, t)'
<1> DEFINE n == Len(toCli[c])
<1>1. toCli[c] \in Seq(Replies) /\ n \in Nat
  BY DEF TypeOK
<1>2. /\ toCli'[c] = Append(toCli[c], m)
      /\ \A d \in Clients \ {c} : toCli'[d] = toCli[d]
  BY DEF TypeOK
<1>3. /\ Len(toCli'[c]) = n + 1 /\ toCli'[c][n + 1] = m
      /\ \A k \in 1 .. n : toCli'[c][k] = toCli[c][k]
  BY <1>1, <1>2
<1>4. ASSUME m.cmd = "list"
      PROVE  Told(c, m.table)'
  <2>1. n + 1 \in 1 .. Len(toCli'[c]) /\ \A l \in 1 .. Len(toCli'[c]) : ~(l > n + 1)
    BY <1>1, <1>3
  <2>2. QED
    BY <1>3, <1>4, <2>1 DEF Told
<1>5. ASSUME NEW d \in Clients, NEW t \in Tables, d # c, Told(d, t)
      PROVE  Told(d, t)'
  BY <1>2, <1>5 DEF Told
<1>6. ASSUME NEW t \in Tables, m.cmd # "list", Told(c, t)
      PROVE  Told(c, t)'
  <2>1. \A k \in 1 .. n + 1 : k \in 1 .. n \/ k = n + 1
    BY <1>1
  <2>2. CASE (\A k \in 1 .. n : toCli[c][k].cmd # "list") /\ seen[c] = t
    BY <1>3, <1>6, <2>1, <2>2 DEF Told
  <2>3. CASE \E k \in 1 .. n :
                /\ toCli[c][k].cmd = "list" /\ toCli[c][k].table = t
                /\ \A l \in 1 .. n : l > k => toCli[c][l].cmd # "list"
    <3>1. PICK k \in 1 .. n :
                /\ toCli[c][k].cmd = "list" /\ toCli[c][k].table = t
                /\ \A l \in 1 .. n : l > k => toCli[c][l].cmd # "list"
      BY <2>3
    <3>2. k \in 1 .. Len(toCli'[c])
      BY <1>1, <1>3
    <3>3. QED
      BY <1>3, <1>6, <2>1, <3>1, <3>2 DEF Told
  <2>4. QED
    BY <1>6, <2>2, <2>3 DEF Told
<1>7. QED
  BY <1>4, <1>5, <1>6

(* Receiving a list does not change what the last one was.                  *)
LEMMA ToldByReceiving ==
    ASSUME TypeOK, NEW c \in Clients, ClientReceive(c), NEW d \in Clients,
           NEW t \in Tables, Told(d, t)
    PROVE  Told(d, t)'
<1> DEFINE n == Len(toCli[c])
<1>1. toCli[c] \in Seq(Replies) /\ toCli[c] # <<>> /\ n \in Nat
  BY DEF TypeOK, ClientReceive
<1>2. /\ toCli'[c] = Tail(toCli[c])
      /\ \A e \in Clients \ {c} : toCli'[e] = toCli[e] /\ seen'[e] = seen[e]
  BY DEF TypeOK, ClientReceive
<1>3. /\ n >= 1 /\ Len(toCli'[c]) = n - 1 /\ Head(toCli[c]) = toCli[c][1]
      /\ \A k \in 1 .. n - 1 : toCli'[c][k] = toCli[c][k + 1]
  BY <1>1, <1>2
<1>4. seen'[c] = IF toCli[c][1].cmd = "list" THEN toCli[c][1].table ELSE seen[c]
  BY <1>3 DEF ClientReceive, TypeOK
<1>5. CASE d # c
  BY <1>2, <1>5 DEF Told
<1>6. CASE d = c /\ (\A k \in 1 .. n : toCli[c][k].cmd # "list") /\ seen[c] = t
  <2>1. 1 \in 1 .. n /\ \A k \in 1 .. n - 1 : k + 1 \in 1 .. n
    BY <1>1, <1>3
  <2>2. \A k \in 1 .. Len(toCli'[c]) : toCli'[c][k].cmd # "list"
    BY <1>3, <1>6, <2>1
  <2>3. seen'[c] = t
    BY <1>4, <1>6, <2>1
  <2>4. QED
    BY <1>6, <2>2, <2>3 DEF Told
<1>7. ASSUME d = c, NEW k \in 1 .. n, toCli[c][k].cmd = "list", toCli[c][k].table = t,
             \A l \in 1 .. n : l > k => toCli[c][l].cmd # "list"
      PROVE  Told(d, t)'
  <2>1. \A l \in 1 .. n - 1 : l + 1 \in 1 .. n
    BY <1>1, <1>3
  <2>2. CASE k = 1
    <3>1. \A l \in 1 .. n - 1 : l + 1 > k
      BY <1>1, <2>2
    <3>2. \A l \in 1 .. Len(toCli'[c]) : toCli'[c][l].cmd # "list"
      BY <1>3, <1>7, <2>1, <3>1
    <3>3. seen'[c] = t
      BY <1>4, <1>7, <2>2
    <3>4. QED
      BY <1>7, <3>2, <3>3 DEF Told
  <2>3. CASE k # 1
    <3>1. k - 1 \in 1 .. n - 1 /\ k - 1 + 1 = k
      BY <1>1, <2>3
    <3>2. toCli'[c][k - 1] = toCli[c][k]
      BY <1>3, <3>1
    <3>3. \A l \in 1 .. n - 1 : l > k - 1 => l + 1 > k
      BY <1>1
    <3>4. \A l \in 1 .. n - 1 : l > k - 1 => toCli'[c][l].cmd # "list"
      BY <1>3, <1>7, <2>1, <3>3
    <3>5. /\ k - 1 \in 1 .. Len(toCli'[c])
          /\ \A l \in 1 .. Len(toCli'[c]) : l > k - 1 => toCli'[c][l].cmd # "list"
      BY <1>3, <3>1, <3>4
    <3>6. QED
      BY <1>7, <3>2, <3>5 DEF Told
  <2>4. QED
    BY <2>2, <2>3
<1>8. QED
  BY <1>5, <1>6, <1>7 DEF Told

(* A slot without files adds no row.                                        *)
LEMMA TableDependsOnRows ==
    ASSUME NEW s, NEW t,
           \A j \in Slots : \/ ~s[j].valid /\ ~t[j].valid
                            \/ s[j].files = {} /\ ~t[j].valid
                            \/ t[j].files = {} /\ ~s[j].valid
                            \/ s[j].files = {} /\ t[j].files = {}
                            \/ s[j] = t[j]
    PROVE  Table(s) = Table(t)
<1>1. ASSUME NEW x
      PROVE  /\ x \in Table(s) <=> \E j \in Slots : /\ s[j].valid
                                                   /\ \E f \in s[j].files : x = <<s[j].name, f>>
             /\ x \in Table(t) <=> \E j \in Slots : /\ t[j].valid
                                                   /\ \E f \in t[j].files : x = <<t[j].name, f>>
  BY DEF Table
<1>2. QED
  BY <1>1

-----------------------------------------------------------------------------
(* Names before files, and no exit.                                         *)

(* The server only moves frames towards the head of their queue.            *)
FramesMoveUp ==
    \A c \in Clients : \A k \in 1 .. Len(toSrv'[c]) :
        \E l \in 1 .. Len(toSrv[c]) : l >= k /\ toSrv'[c][k] = toSrv[c][l]

(* What connection() leaves of the connections: all frames, or all but the  *)
(* first or none of those of the slot it is called for.                     *)
LEMMA CommandFrames ==
    ASSUME TypeOK, Descriptors, NEW i \in Slots, Connection(i)
    PROVE  \/ UNCHANGED toSrv
           \/ toSrv[Peer(i)] # <<>> /\ toSrv' = [toSrv EXCEPT ![Peer(i)] = Tail(@)]
           \/ toSrv' = [toSrv EXCEPT ![Peer(i)] = <<>>]
           \/ toSrv' = [c \in Clients |-> <<>>]
BY DEF Connection, HandleName, HandleFiles, HandleFilesCrash, HandleList, HandleListCrash,
       HandleExit, HandleGet, HandleEof, HandleReset, Receive, Consumed, Closed, Die

(* So does every other step of the server.                                  *)
LEMMA ServerMovesUp ==
    ASSUME TypeOK, Descriptors, Program, ServerStep
    PROVE  FramesMoveUp /\ UNCHANGED phase
<1> USE DEF tcpVars, clientVars
<1>1. toSrv \in [Clients -> Seq(Requests)] /\ \A c \in Clients : Len(toSrv[c]) \in Nat
  BY DEF TypeOK
<1>2. ASSUME UNCHANGED toSrv
      PROVE  FramesMoveUp
  <2>1. ASSUME NEW c \in Clients, NEW k \in 1 .. Len(toSrv[c])
        PROVE  \E l \in 1 .. Len(toSrv[c]) : l >= k /\ toSrv[c][k] = toSrv[c][l]
    BY <1>1
  <2>2. QED
    BY <1>2, <2>1 DEF FramesMoveUp
<1>3. ASSUME NEW d \in Clients, toSrv' = [toSrv EXCEPT ![d] = <<>>]
      PROVE  FramesMoveUp
  <2>1. ASSUME NEW c \in Clients, NEW k \in 1 .. Len(toSrv'[c])
        PROVE  k \in 1 .. Len(toSrv[c]) /\ k >= k /\ toSrv'[c][k] = toSrv[c][k]
    BY <1>1, <1>3
  <2>2. QED
    BY <2>1 DEF FramesMoveUp
<1>4. ASSUME toSrv' = [c \in Clients |-> <<>>]
      PROVE  FramesMoveUp
  BY <1>4 DEF FramesMoveUp
<1>5. ASSUME NEW d \in Clients, toSrv[d] # <<>>,
             toSrv' = [toSrv EXCEPT ![d] = Tail(@)]
      PROVE  FramesMoveUp
  <2>1. \A k \in 1 .. Len(Tail(toSrv[d])) :
            k + 1 \in 1 .. Len(toSrv[d]) /\ Tail(toSrv[d])[k] = toSrv[d][k + 1]
    BY <1>1, <1>5, TailElements
  <2>2. toSrv'[d] = Tail(toSrv[d]) /\ \A c \in Clients \ {d} : toSrv'[c] = toSrv[c]
    BY <1>1, <1>5
  <2>3. ASSUME NEW c \in Clients, NEW k \in 1 .. Len(toSrv'[c])
        PROVE  \E l \in 1 .. Len(toSrv[c]) : l >= k /\ toSrv'[c][k] = toSrv[c][l]
    <3>1. CASE c = d
      <4>1. k + 1 \in 1 .. Len(toSrv[c]) /\ toSrv'[c][k] = toSrv[c][k + 1]
        BY <2>1, <2>2, <3>1
      <4>2. k \in Int /\ k + 1 >= k
        BY <2>3
      <4>3. QED
        BY <4>1, <4>2
    <3>2. CASE c # d
      BY <1>1, <2>2, <3>2
    <3>3. QED
      BY <3>1, <3>2
  <2>4. QED
    BY <2>3 DEF FramesMoveUp
<1>6. CASE \/ Start \/ StartFails \/ Select \/ AcceptConnection \/ ScanDone \/ PushDone
           \/ SendReply \/ \E i \in Slots : PushList(i)
  BY <1>2, <1>6 DEF Start, StartFails, Select, AcceptConnection, ScanDone, PushDone,
                    SendReply, PushList
<1>7. CASE PushCrash \/ SendSigpipe \/ \E i \in Slots : PushSigpipe(i)
  BY <1>4, <1>7 DEF PushCrash, SendSigpipe, PushSigpipe, Die
<1>8. CASE TurnAway
  <2>1. Head(backlog) \in Clients
    BY <1>8, TailElements DEF TypeOK, Program, TurnAway
  <2>2. QED
    BY <1>3, <1>8, <2>1 DEF TurnAway, Closed
<1>9. ASSUME NEW i \in Slots, Connection(i)
      PROVE  FramesMoveUp /\ UNCHANGED phase
  <2>1. Serve(i) /\ UNCHANGED phase
    BY <1>9 DEF Connection, HandleName, HandleFiles, HandleFilesCrash, HandleList,
                HandleListCrash, HandleExit, HandleGet, HandleEof, HandleReset, Receive, Die
  <2>2. Peer(i) \in Clients
    BY <2>1, ServedSlot DEF Descriptors
  <2>3. QED
    BY <1>2, <1>3, <1>4, <1>5, <1>9, <2>1, <2>2, CommandFrames
<1>10. QED
  BY <1>6, <1>7, <1>8, <1>9 DEF ServerStep

(* What connection() leaves of the slots: their files, but for the list it  *)
(* has just taken off the connection.                                       *)
LEMMA CommandFiles ==
    ASSUME TypeOK, Descriptors, NEW i \in Slots, Connection(i), NEW j \in Valid'
    PROVE  /\ j \in Valid /\ Peer(j)' = Peer(j)
           /\ clientArray'[j].files # clientArray[j].files
                => j = i /\ Receive(i, "sendmyfileslist")
<1>1. Serve(i)
  BY DEF Connection, HandleName, HandleFiles, HandleFilesCrash, HandleList,
         HandleListCrash, HandleExit, HandleGet, HandleEof, HandleReset, Receive
<1>2. i \in Valid /\ FindIndex(i) = i
  BY <1>1, ServedSlot DEF Descriptors
<1>3. j \in Slots
  BY DEF Valid
<1>4. CASE HandleName(i) \/ HandleFiles(i)
  <2>1. /\ clientArray'[j].valid = clientArray[j].valid
        /\ clientArray'[j].sock = clientArray[j].sock
        /\ UNCHANGED fdTable
    <3>1. CASE HandleName(i)
      BY <1>2, <1>3, <3>1 DEF HandleName, TypeOK, SlotSet
    <3>2. CASE HandleFiles(i)
      BY <1>2, <1>3, <3>2 DEF HandleFiles, Stored, TypeOK, SlotSet
    <3>3. QED
      BY <1>4, <3>1, <3>2
  <2>2. j \in Valid /\ Peer(j)' = Peer(j)
    BY <2>1 DEF Valid, Peer
  <2>3. CASE HandleName(i)
    <3>1. clientArray'[j].files = clientArray[j].files
      BY <1>2, <1>3, <2>3 DEF HandleName, TypeOK, SlotSet
    <3>2. QED
      BY <2>2, <3>1
  <2>4. CASE HandleFiles(i)
    <3>1. j # i => clientArray'[j].files = clientArray[j].files
      BY <1>2, <1>3, <2>4 DEF HandleFiles, Stored, TypeOK
    <3>2. QED
      BY <2>2, <2>4, <3>1 DEF HandleFiles
  <2>5. QED
    BY <1>4, <2>3, <2>4
<1>5. CASE HandleFilesCrash(i) \/ HandleListCrash(i)
  BY <1>5, DieDescriptors DEF HandleFilesCrash, HandleListCrash
<1>6. CASE HandleList(i) \/ HandleGet(i) \/ HandleReset(i)
  BY <1>6 DEF HandleList, HandleGet, HandleReset, Valid, Peer
<1>7. CASE HandleExit(i) \/ HandleEof(i)
  <2>1. /\ clientArray' = Freed(i) /\ UNCHANGED backlog
        /\ fdTable' = [fdTable EXCEPT ![clientArray[i].sock] = NoClient]
    BY <1>7 DEF HandleExit, HandleEof
  <2>2. Valid' = Valid \ {i} /\ \A k \in Slots \ {i} : clientArray'[k] = clientArray[k]
    BY <1>2, <2>1, FreeDescriptors
  <2>3. j \in Valid /\ j # i /\ clientArray'[j] = clientArray[j]
    BY <1>3, <2>2
  <2>4. clientArray[j].sock # clientArray[i].sock /\ clientArray[j].sock \in Fds
    BY <1>2, <2>3, PeerType DEF Descriptors, SocketsMatchSlots
  <2>5. QED
    BY <2>1, <2>3, <2>4 DEF Peer, TypeOK
<1>8. QED
  BY <1>4, <1>5, <1>6, <1>7 DEF Connection

(* accept() leaves the slots in use alone and adds one without files.       *)
LEMMA AcceptFiles ==
    ASSUME TypeOK, Descriptors, AcceptConnection, NEW j \in Slots
    PROVE  \/ j \notin Valid /\ clientArray'[j].files = {}
           \/ clientArray'[j] = clientArray[j] /\ (j \in Valid => Peer(j)' = Peer(j))
<1>1. PICK i \in Slots, fd \in Fds :
          /\ i \notin Valid
          /\ fdTable[fd] = NoClient
          /\ clientArray' = [clientArray EXCEPT ![i] = NewSlot(i, fd)]
          /\ fdTable' = [fdTable EXCEPT ![fd] = Head(backlog)]
  BY DEF AcceptConnection, IsFirst, FreeFds
<1>2. CASE j = i
  BY <1>1, <1>2 DEF TypeOK, NewSlot, EmptySlot
<1>3. CASE j # i
  <2>1. clientArray'[j] = clientArray[j]
    BY <1>1, <1>3 DEF TypeOK
  <2>2. ASSUME j \in Valid
        PROVE  Peer(j)' = Peer(j)
    <3>1. clientArray[j].sock \in Fds /\ clientArray[j].sock # fd
      BY <1>1, <2>2, PeerType DEF Descriptors, SocketsMatchSlots
    <3>2. QED
      BY <1>1, <2>1, <3>1 DEF TypeOK, Peer
  <2>3. QED
    BY <2>1, <2>2
<1>4. QED
  BY <1>2, <1>3

(* A client the server still has to learn the name of was so before.        *)
LEMMA NamelessBefore ==
    ASSUME FramesMoveUp, UNCHANGED phase, NEW c \in Clients, Nameless(c)'
    PROVE  Nameless(c)
<1>1. CASE phase'[c] \in {"start", "connected"}
  BY <1>1 DEF Nameless
<1>2. ASSUME NEW k \in 1 .. Len(toSrv'[c]), toSrv'[c][k].cmd = "name"
      PROVE  Nameless(c)
  <2>1. PICK l \in 1 .. Len(toSrv[c]) : toSrv'[c][k] = toSrv[c][l]
    BY DEF FramesMoveUp
  <2>2. QED
    BY <1>2, <2>1 DEF Nameless
<1>3. QED
  BY <1>1, <1>2 DEF Nameless

(* The frame the server is about to receive names the client, or the server *)
(* knows its name.                                                          *)
LEMMA NamedByThen ==
    ASSUME TypeOK, Descriptors, NamesComeFirst, NEW i, NEW cmd, Receive(i, cmd)
    PROVE  Nameless(Peer(i)) <=> cmd = "name"
<1>1. Peer(i) \in Clients /\ toSrv[Peer(i)] # <<>> /\ Head(toSrv[Peer(i)]).cmd = cmd
  BY ServedSlot DEF Descriptors, Receive
<1>2. 1 \in 1 .. Len(toSrv[Peer(i)]) /\ Head(toSrv[Peer(i)]) = toSrv[Peer(i)][1]
  BY <1>1, TailElements DEF TypeOK
<1>3. phase[Peer(i)] \notin {"start", "connected"}
  BY <1>1 DEF NamesComeFirst
<1>4. \A k \in 1 .. Len(toSrv[Peer(i)]) : toSrv[Peer(i)][k].cmd = "name" => k = 1
  BY <1>1 DEF NamesComeFirst
<1>5. QED
  BY <1>1, <1>2, <1>3, <1>4 DEF Nameless

(* The server's steps keep the names in front.                              *)
LEMMA ServerNames ==
    ASSUME TypeOK, Descriptors, Program, NamesComeFirst, NobodySaysExit, ServerStep
    PROVE  NamesComeFirst' /\ NobodySaysExit'
<1> USE DEF tcpVars, clientVars
<1>1. FramesMoveUp /\ UNCHANGED phase
  BY ServerMovesUp
<1>2. ASSUME NEW c \in Clients
      PROVE  /\ phase'[c] \in {"start", "connected"} => toSrv'[c] = <<>>
             /\ \A k \in 1 .. Len(toSrv'[c]) : toSrv'[c][k].cmd = "name" => k = 1
  <2>1. toSrv' \in [Clients -> Seq(Requests)] /\ toSrv \in [Clients -> Seq(Requests)]
    BY ServerTypes DEF TypeOK, Descriptors
  <2>2. ASSUME phase[c] \in {"start", "connected"}
        PROVE  toSrv'[c] = <<>>
    <3>1. toSrv[c] = <<>>
      BY <2>2 DEF NamesComeFirst
    <3>2. \A k \in 1 .. Len(toSrv'[c]) : FALSE
      BY <1>1, <3>1 DEF FramesMoveUp
    <3>3. toSrv'[c] \in Seq(Requests)
      BY <2>1
    <3>4. QED
      BY <3>2, <3>3, TailElements
  <2>3. ASSUME NEW k \in 1 .. Len(toSrv'[c]), toSrv'[c][k].cmd = "name"
        PROVE  k = 1
    <3>1. PICK l \in 1 .. Len(toSrv[c]) : l >= k /\ toSrv'[c][k] = toSrv[c][l]
      BY <1>1 DEF FramesMoveUp
    <3>2. l = 1
      BY <2>3, <3>1 DEF NamesComeFirst
    <3>3. QED
      BY <3>1, <3>2
  <2>4. QED
    BY <1>1, <2>2, <2>3
<1>3. ASSUME NEW j \in Valid', NEW c, c = Peer(j)', Nameless(c)'
      PROVE  clientArray'[j].files = {}
  <2>1. ASSUME j \in Valid, Peer(j)' = Peer(j), clientArray'[j].files = clientArray[j].files
        PROVE  clientArray'[j].files = {}
    <3>1. c \in Clients /\ c = Peer(j)
      BY <1>3, <2>1, PeerType DEF Descriptors
    <3>2. Nameless(Peer(j))
      BY <1>1, <1>3, <3>1, NamelessBefore
    <3>3. QED
      BY <2>1, <3>2 DEF NamesComeFirst
  <2>2. CASE UNCHANGED <<clientArray, fdTable>>
    BY <2>1, <2>2 DEF Valid, Peer
  <2>3. CASE AcceptConnection
    BY <2>1, <2>3, AcceptFiles DEF Valid
  <2>4. ASSUME NEW i \in Slots, Connection(i)
        PROVE  clientArray'[j].files = {}
    <3>1. /\ j \in Valid /\ Peer(j)' = Peer(j)
          /\ clientArray'[j].files # clientArray[j].files
                => j = i /\ Receive(i, "sendmyfileslist")
      BY <2>4, CommandFiles
    <3>2. CASE clientArray'[j].files = clientArray[j].files
      BY <2>1, <3>1, <3>2
    <3>3. CASE j = i /\ Receive(i, "sendmyfileslist")
      <4>1. ~Nameless(c) /\ c \in Clients
        BY <1>3, <3>1, <3>3, NamedByThen, PeerType DEF Descriptors
      <4>2. QED
        BY <1>1, <1>3, <4>1, NamelessBefore
    <3>4. QED
      BY <3>1, <3>2, <3>3
  <2>5. ASSUME NEW cause, Die(cause)
        PROVE  clientArray'[j].files = {}
    BY <2>5, DieDescriptors
  <2>6. QED
    BY <2>2, <2>3, <2>4, <2>5
       DEF ServerStep, Start, StartFails, Select, TurnAway, ScanDone, PushList, PushSigpipe,
           PushCrash, PushDone, SendReply, SendSigpipe
<1>4. ASSUME NEW j \in Valid', Nameless(Peer(j))'
      PROVE  clientArray'[j].files = {}
  <2>1. PICK c : c = Peer(j)'
    OBVIOUS
  <2>2. Nameless(c)'
    BY <1>4, <2>1 DEF Nameless
  <2>3. QED
    BY <1>3, <2>1, <2>2
<1>5. NobodySaysExit'
  BY <1>1 DEF NobodySaysExit, FramesMoveUp
<1>6. QED
  BY <1>2, <1>4, <1>5 DEF NamesComeFirst

(* A client sends its name once, over a connection that carries nothing     *)
(* yet, and other frames after it.                                          *)
LEMMA NamesAfterSending ==
    ASSUME TypeOK, Descriptors, NamesComeFirst, NobodySaysExit, NEW c \in Clients,
           NEW frame \in Requests, ClientSend(c, frame),
           UNCHANGED <<clientArray, fdTable>>,
           frame.cmd = "name" => phase[c] = "connected",
           frame.cmd = "exit" => SendsExit,
           phase'[c] \notin {"start", "connected"},
           \A d \in Clients \ {c} : phase'[d] = phase[d]
    PROVE  NamesComeFirst' /\ NobodySaysExit'
<1>1. toSrv \in [Clients -> Seq(Requests)] /\ Len(toSrv[c]) \in Nat
  BY DEF TypeOK
<1>2. ASSUME NEW d \in Clients, NEW k \in 1 .. Len(toSrv'[d])
      PROVE  \/ k \in 1 .. Len(toSrv[d]) /\ toSrv'[d][k] = toSrv[d][k]
             \/ d = c /\ k = Len(toSrv[c]) + 1 /\ toSrv'[d][k] = frame
  <2>1. CASE toSrv' = toSrv
    BY <2>1
  <2>2. CASE toSrv' = [toSrv EXCEPT ![c] = Append(toSrv[c], frame)]
    <3>1. /\ toSrv'[c] = Append(toSrv[c], frame)
          /\ \A e \in Clients \ {c} : toSrv'[e] = toSrv[e]
      BY <1>1, <2>2
    <3>2. ASSUME NEW l \in 1 .. Len(Append(toSrv[c], frame))
          PROVE  \/ l \in 1 .. Len(toSrv[c]) /\ Append(toSrv[c], frame)[l] = toSrv[c][l]
                 \/ l = Len(toSrv[c]) + 1 /\ Append(toSrv[c], frame)[l] = frame
      BY <1>1
    <3>3. QED
      BY <3>1, <3>2
  <2>3. QED
    BY <2>1, <2>2, ClientSendType
<1>3. phase[c] = "connected" => Len(toSrv[c]) = 0
  BY DEF NamesComeFirst
<1>4. ASSUME NEW d \in Clients
      PROVE  /\ phase'[d] \in {"start", "connected"} => toSrv'[d] = <<>>
             /\ \A k \in 1 .. Len(toSrv'[d]) : toSrv'[d][k].cmd = "name" => k = 1
  <2>1. ASSUME phase'[d] \in {"start", "connected"}
        PROVE  toSrv'[d] = <<>>
    <3>1. d # c /\ toSrv[d] = <<>>
      BY <2>1 DEF NamesComeFirst
    <3>2. QED
      BY <1>1, <3>1 DEF ClientSend
  <2>2. QED
    BY <1>2, <1>3, <2>1 DEF NamesComeFirst
<1>5. ASSUME NEW d \in Clients, Nameless(d)'
      PROVE  Nameless(d)
  <2>1. CASE phase'[d] \in {"start", "connected"}
    BY <2>1 DEF Nameless
  <2>2. ASSUME NEW k \in 1 .. Len(toSrv'[d]), toSrv'[d][k].cmd = "name"
        PROVE  Nameless(d)
    BY <1>2, <2>2 DEF Nameless
  <2>3. QED
    BY <1>5, <2>1, <2>2 DEF Nameless
<1>6. Valid' = Valid /\ \A i \in Valid : Peer(i)' = Peer(i) /\ Peer(i) \in Clients
  BY PeerType DEF Descriptors, Valid, Peer
<1>7. ASSUME NEW i \in Valid', Nameless(Peer(i))'
      PROVE  clientArray'[i].files = {}
  <2>1. PICK d \in Clients : d = Peer(i)' /\ d = Peer(i)
    BY <1>6
  <2>2. Nameless(d)'
    BY <1>7, <2>1 DEF Nameless
  <2>3. QED
    BY <1>5, <1>6, <2>1, <2>2 DEF NamesComeFirst
<1>8. NobodySaysExit'
  BY <1>2 DEF NobodySaysExit
<1>9. QED
  BY <1>4, <1>7, <1>8 DEF NamesComeFirst

(* Nor do the other steps of a client bring a name behind a file.           *)
LEMMA NamesWithoutSending ==
    ASSUME TypeOK, Descriptors, NamesComeFirst, NobodySaysExit,
           UNCHANGED <<clientArray, fdTable, toSrv>>,
           \A d \in Clients : phase'[d] \in {"start", "connected"}
                                 => phase[d] \in {"start", "connected"}
    PROVE  NamesComeFirst' /\ NobodySaysExit'
<1>1. ASSUME NEW d \in Clients, Nameless(d)'
      PROVE  Nameless(d)
  BY <1>1 DEF Nameless
<1>2. Valid' = Valid /\ \A i \in Valid : Peer(i)' = Peer(i) /\ Peer(i) \in Clients
  BY PeerType DEF Descriptors, Valid, Peer
<1>3. ASSUME NEW i \in Valid', Nameless(Peer(i))'
      PROVE  clientArray'[i].files = {}
  <2>1. PICK d \in Clients : d = Peer(i)' /\ d = Peer(i)
    BY <1>2
  <2>2. Nameless(d)'
    BY <1>3, <2>1 DEF Nameless
  <2>3. QED
    BY <1>1, <1>2, <2>1, <2>2 DEF NamesComeFirst
<1>4. QED
  BY <1>3 DEF NamesComeFirst, NobodySaysExit

(* The clients' steps keep the names in front.                              *)
LEMMA ClientNames ==
    ASSUME TypeOK, Descriptors, NamesComeFirst, NobodySaysExit, NEW c \in Clients,
           ClientProgress(c) \/ UserStep(c)
    PROVE  NamesComeFirst' /\ NobodySaysExit'
<1> USE DEF serverVars, tcpVars, clientVars
<1>1. UNCHANGED <<clientArray, fdTable>> /\ phase \in [Clients -> {"start", "connected",
                                                 "named", "ready", "alarm", "gone"}]
  BY ClientLeavesServer DEF TypeOK
<1>2. CASE \/ Connect(c) \/ ConnectFails(c) \/ ClientReceive(c) \/ ServerGone(c) \/ Leave(c)
           \/ AlarmRings(c)
  <2>1. UNCHANGED toSrv
    BY <1>2 DEF Connect, ConnectFails, ClientReceive, ServerGone, Leave, AlarmRings
  <2>2. \A d \in Clients : phase'[d] \in {"start", "connected"}
                              => phase[d] \in {"start", "connected"}
    BY <1>1, <1>2
       DEF Connect, ConnectFails, ClientReceive, ServerGone, Leave, AlarmRings, Forget
  <2>3. QED
    BY <1>1, <2>1, <2>2, NamesWithoutSending
<1>3. CASE SendName(c)
  <2>1. [cmd |-> "name", name |-> NameOf[c]] \in Requests
    BY NamesAssumption DEF Requests
  <2>2. QED
    BY <1>1, <1>3, <2>1, NamesAfterSending DEF SendName
<1>4. CASE FirstFileList(c) \/ AlarmSends(c)
  <2>1. PICK files \in SUBSET Files : ClientSend(c, [cmd |-> "sendmyfileslist", files |-> files])
    BY <1>4 DEF FirstFileList, AlarmSends
  <2>2. [cmd |-> "sendmyfileslist", files |-> files] \in Requests
    BY DEF Requests
  <2>3. phase' = [phase EXCEPT ![c] = "ready"]
    BY <1>4 DEF FirstFileList, AlarmSends
  <2>4. phase'[c] = "ready" /\ \A d \in Clients \ {c} : phase'[d] = phase[d]
    BY <1>1, <2>3
  <2>5. QED
    BY <1>1, <2>1, <2>2, <2>4, NamesAfterSending
<1>5. ASSUME NEW frame \in Requests, Command(c, frame), frame.cmd # "name",
             frame.cmd = "exit" => SendsExit
      PROVE  NamesComeFirst' /\ NobodySaysExit'
  <2>1. ClientSend(c, frame) /\ UNCHANGED phase /\ phase[c] \in {"ready", "alarm"}
    BY <1>5 DEF Command, MaySend
  <2>2. QED
    BY <1>1, <1>5, <2>1, NamesAfterSending
<1>6. CASE AskList(c)
  <2>1. [cmd |-> "list"] \in Requests
    BY DEF Requests
  <2>2. QED
    BY <1>5, <1>6, <2>1 DEF AskList
<1>7. CASE SayExit(c)
  <2>1. [cmd |-> "exit"] \in Requests
    BY DEF Requests
  <2>2. QED
    BY <1>5, <1>7, <2>1 DEF SayExit
<1>8. CASE AskFile(c)
  <2>1. PICK f \in Files : Command(c, [cmd |-> "get", file |-> f])
    BY <1>8 DEF AskFile
  <2>2. [cmd |-> "get", file |-> f] \in Requests
    BY DEF Requests
  <2>3. QED
    BY <1>5, <2>1, <2>2
<1>9. CASE SendFiles(c)
  <2>1. PICK files \in SUBSET Files : Command(c, [cmd |-> "sendmyfileslist", files |-> files])
    BY <1>9 DEF SendFiles
  <2>2. [cmd |-> "sendmyfileslist", files |-> files] \in Requests
    BY DEF Requests
  <2>3. QED
    BY <1>5, <2>1, <2>2
<1>10. QED
  BY <1>2, <1>3, <1>4, <1>6, <1>7, <1>8, <1>9 DEF ClientProgress, UserStep

-----------------------------------------------------------------------------
(* Pushing the list.                                                        *)

(* A slot stays current as long as its client, the table and what the       *)
(* client was told last stay.                                               *)
LEMMA StaysCurrent ==
    ASSUME TypeOK, SocketsMatchSlots, NEW j \in Valid, Current(j),
           clientArray'[j].files = clientArray[j].files, Peer(j)' = Peer(j),
           Table(clientArray)' = Table(clientArray),
           conn'[Peer(j)] = "open" => /\ conn[Peer(j)] = "open"
                                      /\ \A t \in Tables : Told(Peer(j), t) => Told(Peer(j), t)'
    PROVE  Current(j)'
<1>1. PICK d : d = Peer(j) /\ d = Peer(j)'
  OBVIOUS
<1>2. PICK t \in Tables : t = Table(clientArray) /\ t = Table(clientArray)'
  BY TableType DEF TypeOK
<1>3. ASSUME clientArray'[j].files # {}, conn'[d] = "open"
      PROVE  Told(d, t)'
  <2>1. conn[d] = "open" /\ Told(d, t)
    BY <1>1, <1>2, <1>3 DEF Current
  <2>2. QED
    BY <1>1, <1>2, <1>3, <2>1
<1>4. QED
  BY <1>1, <1>2, <1>3 DEF Current, Told

(* Pushing has come no less far when nothing is sent and no slot changes.   *)
LEMMA PushedKept ==
    ASSUME TypeOK, SocketsMatchSlots, Pushed, UNCHANGED <<clientArray, fdTable>>,
           \A j \in Valid : (spc' = "push" => j < pos') => (spc = "push" => j < pos),
           \A d \in Clients : conn'[d] = "open" =>
              /\ conn[d] = "open"
              /\ \A t \in Tables : Told(d, t) => Told(d, t)'
    PROVE  Pushed'
<1>1. Valid' = Valid /\ \A j \in Valid : Peer(j)' = Peer(j) /\ Peer(j) \in Clients
  BY PeerType DEF Valid, Peer
<1>2. Table(clientArray)' = Table(clientArray)
  BY DEF Table
<1>3. ASSUME NEW j \in Valid, spc' = "push" => j < pos'
      PROVE  Current(j)'
  <2>1. Current(j)
    BY <1>3 DEF Pushed
  <2>2. QED
    BY <1>1, <1>2, <2>1, StaysCurrent
<1>4. QED
  BY <1>1, <1>3 DEF Pushed

(* A send() to a client that is there makes a list current, and harms none. *)
LEMMA SendKeepsTold ==
    ASSUME TypeOK, NEW c \in Clients, NEW m \in Replies, Send(c, m), UNCHANGED seen
    PROVE  /\ conn'[c] = "open" /\ m.cmd = "list" => Told(c, m.table)'
           /\ \A d \in Clients : conn'[d] = "open" =>
                 /\ conn[d] = "open"
                 /\ d # c \/ m.cmd # "list" => \A t \in Tables : Told(d, t) => Told(d, t)'
<1>1. CASE conn[c] = "open" /\ toCli' = [toCli EXCEPT ![c] = Append(@, m)] /\ UNCHANGED conn
  BY <1>1, ToldBySending
<1>2. CASE /\ conn[c] \in {"fin", "rst"}
           /\ \E s \in {"fin", "broken"} : conn' = [conn EXCEPT ![c] = s]
           /\ UNCHANGED toCli
  <2>1. conn'[c] # "open" /\ \A d \in Clients \ {c} : conn'[d] = conn[d]
    BY <1>2 DEF TypeOK
  <2>2. \A d \in Clients, t \in Tables : Told(d, t) => Told(d, t)'
    BY <1>2 DEF Told
  <2>3. QED
    BY <2>1, <2>2
<1>3. QED
  BY <1>1, <1>2 DEF Send

(* No reply to a get is a list.                                             *)
LEMMA GetAnswersNoList ==
    ASSUME NEW i \in Valid, NEW f \in Files, ManageGet(i, f)
    PROVE  \A n \in 1 .. Len(todo') : todo'[n].msg.cmd # "list"
<1>1. CASE NotShared(i, f) \/ \E k \in Slots : OwnFile(i, k, f)
  BY <1>1 DEF NotShared, OwnFile, Reply
<1>2. CASE \E k \in Slots : Route(i, k, f)
  <2>1. PICK k \in Slots : Route(i, k, f)
    BY <1>2
  <2> DEFINE ask == [fd |-> clientArray[k].sock, msg |-> [cmd |-> "get", file |-> f]]
             tell == [fd |-> clientArray[i].sock, msg |-> [cmd |-> "ip", owner |-> Peer(k)]]
  <2>2. todo' = <<ask>> \o <<tell>>
    BY <2>1 DEF Route, Reply
  <2>3. ask.msg.cmd # "list" /\ tell.msg.cmd # "list" /\ ask \in {ask, tell} /\ tell \in {ask, tell}
    OBVIOUS
  <2> HIDE DEF ask, tell
  <2>4. Len(todo') = 2 /\ todo'[1] = ask /\ todo'[2] = tell
    BY <2>2, <2>3, JoinedElements
  <2>5. \A n \in 1 .. Len(todo') : n = 1 \/ n = 2
    BY <2>4
  <2>6. QED
    BY <2>3, <2>4, <2>5
<1>3. QED
  BY <1>1, <1>2 DEF ManageGet

(* The server's own steps: what it starts to push it pushes to the end.     *)
LEMMA LoopPushes ==
    ASSUME TypeOK, Descriptors, Program, Pushed, TodoCurrent,
           \/ Start \/ StartFails \/ Select \/ AcceptConnection \/ TurnAway \/ ScanDone
           \/ PushDone \/ SendReply \/ \E i \in Slots : PushList(i)
    PROVE  Pushed' /\ TodoCurrent'
<1> USE DEF tcpVars, clientVars
<1>1. SocketsMatchSlots
  BY DEF Descriptors
<1>2. spc # "send" => todo = <<>>
  BY DEF Program
<1>3. CASE Start \/ StartFails \/ Select \/ ScanDone
  <2>1. UNCHANGED <<clientArray, fdTable, conn, toCli, seen, todo>>
    BY <1>3 DEF Start, StartFails, Select, ScanDone
  <2>2. spc # "push"
    BY <1>3 DEF Start, StartFails, Select, ScanDone
  <2>3. \A d \in Clients, t \in Tables : Told(d, t) => Told(d, t)'
    BY <2>1 DEF Told
  <2>4. Pushed'
    BY <1>1, <2>1, <2>2, <2>3, PushedKept
  <2>5. TodoCurrent'
    BY <2>1 DEF TodoCurrent, Table
  <2>6. QED
    BY <2>4, <2>5
<1>4. CASE PushDone
  <2>1. UNCHANGED <<clientArray, fdTable, conn, toCli, seen, todo>>
    BY <1>4 DEF PushDone
  <2>2. \A j \in Valid : j < pos
    <3>1. \A j \in Valid : ~(j >= pos)
      BY <1>4 DEF PushDone, Pushable
    <3>2. pos \in Int /\ \A j \in Valid : j \in Int
      BY SlotsAssumption DEF Valid, Slots, TypeOK
    <3>3. QED
      BY <3>1, <3>2
  <2>3. \A d \in Clients, t \in Tables : Told(d, t) => Told(d, t)'
    BY <2>1 DEF Told
  <2>4. Pushed'
    BY <1>1, <2>1, <2>2, <2>3, PushedKept
  <2>5. TodoCurrent'
    BY <2>1 DEF TodoCurrent, Table
  <2>6. QED
    BY <2>4, <2>5
<1>5. CASE AcceptConnection
  <2>1. UNCHANGED <<conn, toCli, seen>> /\ todo' = <<>> /\ spc # "push"
    BY <1>2, <1>5 DEF AcceptConnection
  <2>2. ASSUME NEW j \in Slots
        PROVE  \/ j \notin Valid /\ clientArray'[j].files = {}
               \/ clientArray'[j] = clientArray[j] /\ (j \in Valid => Peer(j)' = Peer(j))
    BY <1>5, AcceptFiles
  <2>3. Table(clientArray)' = Table(clientArray)
    <3>1. Table(clientArray') = Table(clientArray)
      BY <2>2, TableDependsOnRows DEF Valid
    <3>2. QED
      BY <3>1 DEF Table
  <2>4. \A d \in Clients, t \in Tables : Told(d, t) => Told(d, t)'
    BY <2>1 DEF Told
  <2>5. ASSUME NEW j \in Valid'
        PROVE  Current(j)'
    <3>1. CASE clientArray'[j].files = {}
      BY <3>1 DEF Current
    <3>2. CASE /\ j \in Valid /\ clientArray'[j] = clientArray[j] /\ Peer(j)' = Peer(j)
      <4>1. Current(j) /\ Peer(j) \in Clients
        BY <1>1, <2>1, <3>2, PeerType DEF Pushed
      <4>2. QED
        BY <1>1, <2>1, <2>3, <2>4, <3>2, <4>1, StaysCurrent
    <3>3. QED
      BY <2>2, <3>1, <3>2 DEF Valid
  <2>6. QED
    BY <2>1, <2>5 DEF Pushed, TodoCurrent
<1>6. CASE TurnAway
  <2>1. Head(backlog) \in Clients
    BY <1>6, TailElements DEF TypeOK, Program, TurnAway
  <2>2. /\ UNCHANGED <<clientArray, fdTable, seen>> /\ todo' = <<>> /\ spc # "push"
        /\ conn' = [conn EXCEPT ![Head(backlog)] = "closed"]
        /\ \/ toCli' = toCli
           \/ toCli' = [toCli EXCEPT ![Head(backlog)] = Append(@, [cmd |-> "full"])]
    BY <1>2, <1>6 DEF TurnAway, Closed
  <2>3. [cmd |-> "full"] \in Replies
    BY DEF Replies
  <2>4. \A d \in Clients, t \in Tables : Told(d, t) => Told(d, t)'
    <3>1. CASE toCli' = toCli
      BY <2>2, <3>1 DEF Told
    <3>2. CASE toCli' = [toCli EXCEPT ![Head(backlog)] = Append(@, [cmd |-> "full"])]
      BY <2>1, <2>2, <2>3, <3>2, ToldBySending
    <3>3. QED
      BY <2>2, <3>1, <3>2
  <2>5. \A d \in Clients : conn'[d] = "open" => conn[d] = "open"
    BY <2>2 DEF TypeOK
  <2>6. Pushed'
    BY <1>1, <2>2, <2>4, <2>5, PushedKept
  <2>7. QED
    BY <2>2, <2>6 DEF TodoCurrent
<1>7. CASE SendReply
  <2>1. todo # <<>> /\ todo' = Tail(todo) /\ UNCHANGED <<clientArray, fdTable, seen>>
    BY <1>7 DEF Program, SendReply
  <2>2. /\ Head(todo) \in [fd : Fds, msg : Replies] /\ 1 \in 1 .. Len(todo) /\ Head(todo) = todo[1]
        /\ \A k \in 1 .. Len(todo') : k + 1 \in 1 .. Len(todo) /\ todo'[k] = todo[k + 1]
    BY <2>1, TailElements DEF TypeOK
  <2>3. PICK c \in Clients, m \in Replies : c = fdTable[todo[1].fd] /\ m = todo[1].msg
    BY <2>2 DEF TypeOK, Program
  <2>4. Send(c, m) /\ spc # "push"
    BY <1>7, <2>2, <2>3 DEF SendReply
  <2>5. \A d \in Clients : conn'[d] = "open" => conn[d] = "open"
    BY <2>1, <2>4, SendKeepsTold
  <2>6. ASSUME m.cmd # "list"
        PROVE  Pushed'
    BY <1>1, <2>1, <2>4, <2>6, PushedKept, SendKeepsTold
  <2>7. ASSUME m.cmd = "list"
        PROVE  Pushed'
    <3>1. m.table = Table(clientArray)
      BY <2>2, <2>3, <2>7 DEF TodoCurrent
    <3>2. Valid' = Valid /\ \A j \in Valid : Peer(j)' = Peer(j) /\ Peer(j) \in Clients
      BY <1>1, <2>1, PeerType DEF Valid, Peer
    <3>3. Table(clientArray)' = Table(clientArray)
      BY <2>1 DEF Table
    <3>4. PICK t : t = Table(clientArray) /\ t = Table(clientArray)'
      BY <3>3
    <3>5. ASSUME NEW j \in Valid, Peer(j) = c
          PROVE  Current(j)'
      <4>1. conn'[c] = "open" => Told(c, t)'
        BY <2>1, <2>4, <2>7, <3>1, <3>4, SendKeepsTold
      <4>2. QED
        BY <3>2, <3>4, <3>5, <4>1 DEF Current, Told
    <3>6. ASSUME NEW j \in Valid, Peer(j) # c
          PROVE  Current(j)'
      <4>1. Current(j)
        BY <2>4 DEF Pushed
      <4>2. conn'[Peer(j)] = "open" => \A u \in Tables : Told(Peer(j), u) => Told(Peer(j), u)'
        BY <2>1, <2>4, <3>2, <3>6, SendKeepsTold
      <4>3. QED
        BY <1>1, <2>1, <2>5, <3>2, <3>4, <4>1, <4>2, StaysCurrent
    <3>7. QED
      BY <3>2, <3>5, <3>6 DEF Pushed
  <2>8. TodoCurrent'
    BY <2>1, <2>2 DEF TodoCurrent, Table
  <2>9. QED
    BY <2>6, <2>7, <2>8
<1>8. ASSUME NEW i \in Slots, PushList(i)
      PROVE  Pushed' /\ TodoCurrent'
  <2>1. /\ UNCHANGED <<clientArray, fdTable, seen, todo, spc>> /\ spc = "push" /\ pos' = i + 1
        /\ i \in Valid /\ Send(Peer(i), ListMessage)
        /\ \A j \in Valid : j >= pos => i <= j
    BY <1>8 DEF PushList, IsFirst, Pushable
  <2>2. Valid' = Valid /\ \A j \in Valid : Peer(j)' = Peer(j) /\ Peer(j) \in Clients
    BY <1>1, <2>1, PeerType DEF Valid, Peer
  <2>3. Table(clientArray)' = Table(clientArray)
    BY <2>1 DEF Table
  <2>4. PICK t \in Tables : t = Table(clientArray) /\ t = Table(clientArray)'
    BY <2>3, TableType DEF TypeOK
  <2>5. PICK c \in Clients, m \in Replies : /\ c = Peer(i) /\ m = ListMessage
                                            /\ m.cmd = "list" /\ m.table = t
    BY <2>1, <2>2, <2>4 DEF ListMessage, Replies
  <2>6. Send(c, m)
    BY <2>1, <2>5
  <2>7. ASSUME NEW j \in Valid, j < pos', Peer(j) = c
        PROVE  Current(j)'
    <3>1. conn'[c] = "open" => Told(c, t)'
      BY <2>1, <2>5, <2>6, SendKeepsTold
    <3>2. QED
      BY <2>2, <2>4, <2>7, <3>1 DEF Current, Told
  <2>8. ASSUME NEW j \in Valid, j < pos', Peer(j) # c
        PROVE  Current(j)'
    <3>1. j # i /\ j \in Int /\ i \in Int /\ pos \in Int
      BY <2>5, <2>8, SlotsAssumption DEF Valid, Slots, TypeOK
    <3>2. j < pos
      BY <2>1, <2>8, <3>1
    <3>3. Current(j)
      BY <3>2 DEF Pushed
    <3>4. conn'[Peer(j)] = "open" => /\ conn[Peer(j)] = "open"
                                     /\ \A u \in Tables : Told(Peer(j), u) => Told(Peer(j), u)'
      BY <2>1, <2>2, <2>6, <2>8, SendKeepsTold
    <3>5. QED
      BY <1>1, <2>1, <2>2, <2>4, <3>3, <3>4, StaysCurrent
  <2>9. Pushed'
    BY <2>1, <2>2, <2>7, <2>8 DEF Pushed
  <2>10. TodoCurrent'
    BY <2>1 DEF TodoCurrent, Table
  <2>11. QED
    BY <2>9, <2>10
<1>9. QED
  BY <1>3, <1>4, <1>5, <1>6, <1>7, <1>8

(* What a signal leaves has no slots and nothing to send.                   *)
LEMMA NothingToPush ==
    ASSUME NEW cause, Die(cause)
    PROVE  Pushed' /\ TodoCurrent'
<1>1. Valid' = {} /\ todo' = <<>>
  BY DieDescriptors DEF Die
<1>2. QED
  BY <1>1 DEF Pushed, TodoCurrent

(* connection(): what changes the list begins a push of it; a name changes  *)
(* no row, since no files are listed before it.                             *)
LEMMA CommandPushes ==
    ASSUME TypeOK, Descriptors, Program, NamesComeFirst, NobodySaysExit, ~SendsExit,
           Pushed, TodoCurrent, NEW i \in Slots, Connection(i)
    PROVE  Pushed' /\ TodoCurrent'
<1> USE DEF tcpVars, clientVars
<1>1. SocketsMatchSlots
  BY DEF Descriptors
<1>2. Serve(i)
  BY DEF Connection, HandleName, HandleFiles, HandleFilesCrash, HandleList,
         HandleListCrash, HandleExit, HandleGet, HandleEof, HandleReset, Receive
<1>3. /\ i \in Valid /\ FindIndex(i) = i /\ Peer(i) \in Clients
      /\ spc = "scan" /\ todo = <<>>
  BY <1>2, ServedSlot DEF Descriptors, Program, Serve
<1>4. ASSUME UNCHANGED <<toCli, seen>>
      PROVE  \A d \in Clients, t \in Tables : Told(d, t) => Told(d, t)'
  BY <1>4 DEF Told
<1>5. CASE HandleName(i)
  <2>1. UNCHANGED <<conn, toCli, seen, todo>>
    BY <1>5 DEF HandleName
  <2>2. \A j \in Slots \ {i} : clientArray'[j] = clientArray[j]
    BY <1>3, <1>5 DEF HandleName, TypeOK
  <2>3. clientArray[i].files = {}
    BY <1>3, <1>5, NamedByThen DEF HandleName, NamesComeFirst
  <2>4. clientArray'[i].files = clientArray[i].files
    BY <1>3, <1>5 DEF HandleName, TypeOK, SlotSet
  <2>5. Table(clientArray') = Table(clientArray)
    BY <2>2, <2>3, <2>4, TableDependsOnRows
  <2>6. Table(clientArray)' = Table(clientArray)
    BY <2>5 DEF Table
  <2>7. ASSUME NEW j \in Valid'
        PROVE  Current(j)'
    <3>1. j \in Valid /\ Peer(j)' = Peer(j) /\ clientArray'[j].files = clientArray[j].files
      BY <2>2, <2>4, CommandFiles DEF Valid
    <3>2. Current(j) /\ Peer(j) \in Clients
      BY <1>1, <1>3, <3>1, PeerType DEF Pushed
    <3>3. QED
      BY <1>1, <1>4, <2>1, <2>6, <3>1, <3>2, StaysCurrent
  <2>8. QED
    BY <1>3, <2>1, <2>7 DEF Pushed, TodoCurrent
<1>6. CASE HandleFiles(i) \/ HandleEof(i)
  <2>1. spc' = "push" /\ pos' = 0 /\ todo' = <<>>
    BY <1>3, <1>6 DEF HandleFiles, HandleEof, StartPush
  <2>2. \A j \in Slots : ~(j < 0)
    BY SlotsAssumption DEF Slots
  <2>3. QED
    BY <2>1, <2>2 DEF Pushed, TodoCurrent, Valid
<1>7. CASE HandleList(i) \/ HandleGet(i) \/ HandleReset(i)
  <2>1. UNCHANGED <<clientArray, fdTable, toCli, seen>>
    BY <1>7 DEF HandleList, HandleGet, HandleReset
  <2>2. \A d \in Clients : conn'[d] = "open" => conn[d] = "open"
    BY <1>7 DEF HandleList, HandleGet, HandleReset, TypeOK
  <2>3. Pushed'
    BY <1>1, <1>3, <1>4, <2>1, <2>2, PushedKept
  <2>4. Table(clientArray)' = Table(clientArray)
    BY <2>1 DEF Table
  <2>5. CASE HandleList(i)
    <3>1. todo' = <<[fd |-> clientArray[i].sock, msg |-> ListMessage]>>
      BY <1>3, <2>5 DEF HandleList, Reply
    <3>2. ListMessage.table = Table(clientArray)
      BY DEF ListMessage
    <3>3. TodoCurrent'
      BY <2>4, <3>1, <3>2 DEF TodoCurrent
    <3>4. QED
      BY <2>3, <3>3
  <2>6. CASE HandleGet(i)
    <3>1. Frame(i) \in Requests /\ Frame(i).cmd = "get"
      BY <1>3, <2>6, TailElements DEF HandleGet, Receive, Frame, TypeOK
    <3>2. ManageGet(i, Frame(i).file) /\ Frame(i).file \in Files
      BY <1>3, <2>6, <3>1, RequestFields DEF HandleGet
    <3>3. TodoCurrent'
      BY <1>3, <3>2, GetAnswersNoList DEF TodoCurrent
    <3>4. QED
      BY <2>3, <3>3
  <2>7. CASE HandleReset(i)
    BY <1>3, <2>3, <2>7 DEF HandleReset, TodoCurrent
  <2>8. QED
    BY <1>7, <2>5, <2>6, <2>7
<1>8. CASE HandleExit(i)
  <2>1. Head(toSrv[Peer(i)]).cmd = "exit" /\ toSrv[Peer(i)] # <<>>
    BY <1>8 DEF HandleExit, Receive
  <2>2. 1 \in 1 .. Len(toSrv[Peer(i)]) /\ Head(toSrv[Peer(i)]) = toSrv[Peer(i)][1]
    BY <1>3, <2>1, TailElements DEF TypeOK
  <2>3. QED
    BY <1>3, <2>1, <2>2 DEF NobodySaysExit
<1>9. CASE HandleFilesCrash(i) \/ HandleListCrash(i)
  BY <1>9, NothingToPush DEF HandleFilesCrash, HandleListCrash
<1>10. QED
  BY <1>5, <1>6, <1>7, <1>8, <1>9 DEF Connection

(* The clients' steps: only receiving a list changes what a client was told *)
(* last, and a client that leaves is no longer there to be told.            *)
LEMMA ClientPushes ==
    ASSUME TypeOK, Descriptors, Pushed, TodoCurrent, NEW c \in Clients,
           ClientProgress(c) \/ UserStep(c)
    PROVE  Pushed' /\ TodoCurrent'
<1> USE DEF serverVars, tcpVars, clientVars
<1>1. UNCHANGED <<clientArray, fdTable, spc, pos, todo>> /\ SocketsMatchSlots
  BY ClientLeavesServer DEF Descriptors
<1>2. TodoCurrent'
  BY <1>1 DEF TodoCurrent, Table
<1>3. ASSUME UNCHANGED <<toCli, seen>>
      PROVE  \A d \in Clients, t \in Tables : Told(d, t) => Told(d, t)'
  BY <1>3 DEF Told
<1>4. CASE ClientReceive(c)
  <2>1. \A d \in Clients, t \in Tables : Told(d, t) => Told(d, t)'
    BY <1>4, ToldByReceiving
  <2>2. QED
    BY <1>1, <1>2, <1>4, <2>1, PushedKept DEF ClientReceive
<1>5. CASE Leave(c) \/ ServerGone(c)
  <2>1. \A d \in Clients \ {c} : toCli'[d] = toCli[d] /\ seen'[d] = seen[d]
    BY <1>5 DEF Leave, ServerGone, Forget, TypeOK
  <2>2. conn'[c] # "open" /\ \A d \in Clients \ {c} : conn'[d] = conn[d]
    BY <1>5 DEF Leave, ServerGone, TypeOK
  <2>3. \A d \in Clients : conn'[d] = "open" =>
           /\ conn[d] = "open"
           /\ \A t \in Tables : Told(d, t) => Told(d, t)'
    BY <2>1, <2>2 DEF Told
  <2>4. QED
    BY <1>1, <1>2, <2>3, PushedKept
<1>6. CASE Connect(c)
  <2>1. UNCHANGED <<toCli, seen>> /\ phase[c] = "start"
    BY <1>6 DEF Connect
  <2>2. \A d \in Clients \ {c} : conn'[d] = conn[d]
    BY <1>6 DEF Connect, TypeOK
  <2>3. Valid' = Valid /\ Table(clientArray)' = Table(clientArray)
    BY <1>1 DEF Valid, Table
  <2>4. ASSUME NEW j \in Valid, spc' = "push" => j < pos'
        PROVE  Current(j)'
    <3>1. Current(j) /\ Peer(j) \in Clients /\ Peer(j)' = Peer(j) /\ clientArray[j].sock \in Fds
      BY <1>1, <2>4, PeerType DEF Pushed, Peer
    <3>2. Peer(j) # c
      BY <2>1, <3>1 DEF Descriptors, StartedNowhere, Peer
    <3>3. conn'[Peer(j)] = "open" => /\ conn[Peer(j)] = "open"
                                     /\ \A t \in Tables : Told(Peer(j), t) => Told(Peer(j), t)'
      BY <1>3, <2>1, <2>2, <3>1, <3>2
    <3>4. QED
      BY <1>1, <2>3, <3>1, <3>3, StaysCurrent
  <2>5. Pushed'
    BY <2>3, <2>4 DEF Pushed
  <2>6. QED
    BY <1>2, <2>5
<1>7. CASE \/ ConnectFails(c) \/ SendName(c) \/ FirstFileList(c) \/ AlarmSends(c)
           \/ AskList(c) \/ AskFile(c) \/ SendFiles(c) \/ SayExit(c) \/ AlarmRings(c)
  <2>1. UNCHANGED <<conn, toCli, seen>>
    BY <1>7 DEF ConnectFails, SendName, FirstFileList, AlarmSends, AskList, AskFile,
                SendFiles, SayExit, AlarmRings, Command
  <2>2. QED
    BY <1>1, <1>2, <1>3, <2>1, PushedKept
<1>8. QED
  BY <1>4, <1>5, <1>6, <1>7 DEF ClientProgress, UserStep

-----------------------------------------------------------------------------
(* The theorems.                                                            *)

(* The invariant holds at first: no slot is valid.                          *)
LEMMA ListInit ==
    ASSUME Init
    PROVE  ListInv
<1>1. Valid = {}
  BY DEF Init, Valid, NoSlots, EmptySlot
<1>2. NamesComeFirst /\ NobodySaysExit
  BY <1>1 DEF Init, NamesComeFirst, NobodySaysExit
<1>3. Pushed /\ TodoCurrent
  BY <1>1 DEF Init, Pushed, TodoCurrent
<1>4. QED
  BY <1>2, <1>3, ServerInit DEF ListInv

(* Every step keeps it.                                                     *)
LEMMA ListInvKept ==
    ASSUME ListInv, [Next]_vars
    PROVE  ListInv'
<1>1. /\ ServerInv /\ NamesComeFirst /\ NobodySaysExit
      /\ TypeOK /\ Descriptors /\ Program
  BY DEF ListInv, ServerInv
<1>2. ServerInv'
  BY <1>1, ServerInvKept
<1>3. CASE ServerStep
  <2>1. NamesComeFirst' /\ NobodySaysExit'
    BY <1>1, <1>3, ServerNames
  <2>2. ASSUME ~SendsExit
        PROVE  Pushed' /\ TodoCurrent'
    <3>1. Pushed /\ TodoCurrent
      BY <2>2 DEF ListInv
    <3>2. CASE PushCrash \/ SendSigpipe \/ \E i \in Slots : PushSigpipe(i)
      BY <3>2, NothingToPush DEF PushCrash, SendSigpipe, PushSigpipe
    <3>3. CASE \E i \in Slots : Connection(i)
      BY <1>1, <2>2, <3>1, <3>3, CommandPushes
    <3>4. CASE \/ Start \/ StartFails \/ Select \/ AcceptConnection \/ TurnAway \/ ScanDone
               \/ PushDone \/ SendReply \/ \E i \in Slots : PushList(i)
      BY <1>1, <3>1, <3>4, LoopPushes
    <3>5. QED
      BY <1>3, <3>2, <3>3, <3>4 DEF ServerStep
  <2>3. QED
    BY <1>2, <2>1, <2>2 DEF ListInv
<1>4. ASSUME NEW c \in Clients, ClientProgress(c) \/ UserStep(c)
      PROVE  ListInv'
  <2>1. NamesComeFirst' /\ NobodySaysExit'
    BY <1>1, <1>4, ClientNames
  <2>2. ~SendsExit => Pushed' /\ TodoCurrent'
    BY <1>1, <1>4, ClientPushes DEF ListInv
  <2>3. QED
    BY <1>2, <2>1, <2>2 DEF ListInv
<1>5. CASE UNCHANGED vars
  <2>1. UNCHANGED <<clientArray, fdTable, spc, pos, todo, conn, toSrv, toCli, phase, seen>>
    BY <1>5 DEF vars, serverVars, tcpVars, clientVars
  <2>2. NamesComeFirst' /\ NobodySaysExit'
    BY <1>1, <2>1, NamesWithoutSending
  <2>3. TodoCurrent => TodoCurrent'
    BY <2>1 DEF TodoCurrent, Table
  <2>4. Pushed => Pushed'
    BY <1>1, <2>1, PushedKept DEF Descriptors, Told
  <2>5. QED
    BY <1>2, <2>2, <2>3, <2>4 DEF ListInv
<1>6. QED
  BY <1>3, <1>4, <1>5 DEF Next

(* The inductive invariant holds in every state of every run.               *)
THEOREM ListInvHolds == Spec => []ListInv
BY ListInit, ListInvKept, PTL DEF Spec

(* Between two rounds of the coordinator every client whose files are listed *)
(* and whose connection stands was sent the current list last: no change of  *)
(* the slots escapes the pushes, as long as no client says exit, which       *)
(* client.c never does.                                                      *)
THEOREM ListsStayCurrent ==
    ASSUME ~SendsExit
    PROVE  Spec => []ListsAreCurrent
<1>1. ASSUME ListInv
      PROVE  ListsAreCurrent
  <2>1. TypeOK /\ SocketsMatchSlots /\ Pushed
    BY <1>1 DEF ListInv, ServerInv, Descriptors
  <2>2. ASSUME NEW i \in Valid, spc = "select",
               clientArray[i].files # {}, conn[Peer(i)] = "open"
        PROVE  LastTable(Peer(i)) = Table(clientArray)
    <3>1. Told(Peer(i), Table(clientArray)) /\ Peer(i) \in Clients
      BY <2>1, <2>2, PeerType DEF Pushed, Current
    <3>2. QED
      BY <2>1, <3>1, ToldIsLast
  <2>3. QED
    BY <2>2 DEF ListsAreCurrent
<1>2. QED
  BY <1>1, ListInvHolds, PTL
=============================================================================
