--------------------------- MODULE DirectoryProofs ---------------------------
(***************************************************************************)
(* The coordinator implements the directory, for any number of clients,    *)
(* slots, files and names.  What makes the mapping work is ServerInv: a    *)
(* client sits in one slot (Descriptors), nothing is left to be sent when  *)
(* a descriptor is closed (Program), and a slot found again by its socket  *)
(* is the one that was served.                                             *)
(***************************************************************************)
EXTENDS FileServerProofs, FiniteSetTheorems

(* A client sits in one slot at most, and offers what that slot says.       *)
OffersBySlot ==
    /\ Members \subseteq Clients
    /\ \A i, j \in Valid : Peer(i) = Peer(j) => i = j
    /\ \A i \in Valid : Offers[Peer(i)] = clientArray[i].files
    /\ \A c \in Clients \ Members : Offers[c] = {}

LEMMA OffersOfMembers == ServerInv => OffersBySlot
<1> SUFFICES ASSUME ServerInv PROVE OffersBySlot
  OBVIOUS
<1>1. TypeOK /\ SocketsMatchSlots /\ OnePlacePerClient
  BY DEF ServerInv, Descriptors
<1>2. \A i \in Valid : clientArray[i].sock \in Fds /\ Peer(i) \in Clients
  BY <1>1, PeerType
<1>3. \A i, j \in Valid : Peer(i) = Peer(j) => i = j
  BY <1>1, <1>2, NoClientAssumption DEF Peer, SocketsMatchSlots, OnePlacePerClient
<1>4. Members \subseteq Clients
  BY <1>2 DEF Members
<1>5. ASSUME NEW i \in Valid
      PROVE  Offers[Peer(i)] = clientArray[i].files
  <2>1. {j \in Valid : Peer(j) = Peer(i)} = {i}
    BY <1>3
  <2>2. QED
    BY <1>2, <2>1 DEF Offers
<1>6. ASSUME NEW c \in Clients \ Members
      PROVE  Offers[c] = {}
  <2>1. {j \in Valid : Peer(j) = c} = {}
    BY DEF Members
  <2>2. QED
    BY <2>1 DEF Offers
<1>7. QED
  BY <1>3, <1>4, <1>5, <1>6 DEF OffersBySlot

(* The register depends on validity, sockets and files only.                *)
LEMMA RegisterKept ==
    ASSUME UNCHANGED fdTable,
           \A j \in Slots : /\ clientArray'[j].valid = clientArray[j].valid
                            /\ clientArray'[j].sock = clientArray[j].sock
                            /\ clientArray'[j].files = clientArray[j].files
    PROVE  UNCHANGED <<Members, Offers>>
<1>1. Valid' = Valid /\ \A i \in Valid : Peer(i)' = Peer(i) /\ clientArray'[i].files = clientArray[i].files
  BY DEF Valid, Peer
<1>2. Members' = Members
  BY <1>1 DEF Members
<1>3. ASSUME NEW c \in Clients
      PROVE  UNION {clientArray'[i].files : i \in {j \in Valid' : Peer(j)' = c}}
                = UNION {clientArray[i].files : i \in {j \in Valid : Peer(j) = c}}
  BY <1>1
<1>4. Offers' = Offers
  BY <1>3 DEF Offers
<1>5. QED
  BY <1>2, <1>4

-----------------------------------------------------------------------------
(* Questions.                                                               *)

(* The two places a question can be in.                                     *)
LEMMA AskedOf ==
    ASSUME NEW c \in Clients
    PROVE  /\ Asked[c] = AskedOnTheWay(c) \cup AskedSoon(c)
           /\ Asked'[c] = AskedOnTheWay(c)' \cup AskedSoon(c)'
BY DEF Asked

(* With nothing to be sent, the questions are the frames on their way.      *)
LEMMA NothingAskedSoon ==
    ASSUME NEW c \in Clients
    PROVE  /\ todo = <<>> => AskedSoon(c) = {}
           /\ todo' = <<>> => AskedSoon(c)' = {}
BY DEF AskedSoon

(* Nobody is asked anything by a step that sends nothing.                   *)
LEMMA AskedKept ==
    ASSUME UNCHANGED toCli,
           \/ todo = <<>> /\ \A k \in 1 .. Len(todo') : todo'[k].msg.cmd # "get"
           \/ UNCHANGED <<todo, fdTable>>
    PROVE  UNCHANGED Asked
<1>1. ASSUME NEW c \in Clients
      PROVE  AskedOnTheWay(c)' = AskedOnTheWay(c) /\ AskedSoon(c)' = AskedSoon(c)
  <2>1. AskedOnTheWay(c)' = AskedOnTheWay(c)
    BY DEF AskedOnTheWay
  <2>2. CASE todo = <<>> /\ \A k \in 1 .. Len(todo') : todo'[k].msg.cmd # "get"
    <3>1. AskedSoon(c) = {}
      BY <2>2, NothingAskedSoon
    <3>2. \A f \in Files : GetFrame(f).cmd = "get"
      BY DEF GetFrame
    <3>3. AskedSoon(c)' = {}
      BY <2>2, <3>2 DEF AskedSoon, GetFrame
    <3>4. QED
      BY <2>1, <3>1, <3>3
  <2>3. CASE UNCHANGED <<todo, fdTable>>
    BY <2>1, <2>3 DEF AskedSoon
  <2>4. QED
    BY <2>2, <2>3
<1>2. QED
  BY <1>1 DEF Asked

(* Fewer questions for one client, and as many for the others.              *)
LEMMA Answered ==
    ASSUME NEW d \in Clients, UNCHANGED <<Members, Offers>>,
           Asked'[d] \subseteq Asked[d],
           \A c \in Clients \ {d} : Asked'[c] = Asked[c]
    PROVE  D!Answer(d)
<1>1. Asked' = [Asked EXCEPT ![d] = Asked'[d]]
  BY DEF Asked
<1>2. QED
  BY <1>1 DEF D!Answer

(* A frame for one client that is no question, or none.                     *)
LEMMA NoQuestionSent ==
    ASSUME TypeOK, NEW d \in Clients, NEW m \in Replies, m.cmd # "get",
           toCli' = [toCli EXCEPT ![d] = Append(@, m)] \/ toCli' = toCli,
           UNCHANGED <<todo, fdTable, clientArray>>
    PROVE  D!Answer(d)
<1>1. UNCHANGED <<Members, Offers>>
  BY RegisterKept
<1>2. \A c \in Clients : AskedSoon(c)' = AskedSoon(c)
  BY DEF AskedSoon
<1>3. toCli \in [Clients -> Seq(Replies)]
  BY DEF TypeOK
<1>4. \A c \in Clients \ {d} : AskedOnTheWay(c)' = AskedOnTheWay(c)
  BY <1>3 DEF AskedOnTheWay
<1>5. AskedOnTheWay(d)' \subseteq AskedOnTheWay(d)
  <2>1. CASE toCli' = toCli
    BY <2>1 DEF AskedOnTheWay
  <2>2. CASE toCli' = [toCli EXCEPT ![d] = Append(@, m)]
    <3>1. toCli'[d] = Append(toCli[d], m)
      BY <1>3, <2>2
    <3>2. \A k \in 1 .. Len(toCli'[d]) :
              toCli'[d][k] = m \/ (k \in 1 .. Len(toCli[d]) /\ toCli'[d][k] = toCli[d][k])
      BY <1>3, <3>1, AppendElements
    <3>3. \A f \in Files : m # GetFrame(f)
      BY DEF GetFrame
    <3>4. QED
      BY <3>2, <3>3 DEF AskedOnTheWay
  <2>3. QED
    BY <2>1, <2>2
<1>6. Asked'[d] \subseteq Asked[d]
  BY <1>2, <1>5, AskedOf
<1>7. \A c \in Clients \ {d} : Asked'[c] = Asked[c]
  BY <1>2, <1>4, AskedOf
<1>8. QED
  BY <1>1, <1>6, <1>7, Answered

-----------------------------------------------------------------------------
(* The steps.                                                               *)

(* accept() is a Join: there is room, and the client is not registered yet. *)
LEMMA AcceptJoins ==
    ASSUME ServerInv, ServerInv', AcceptConnection
    PROVE  D!Join(Head(backlog)) /\ Head(backlog) \in Clients
<1> DEFINE c == Head(backlog)
<1>1. TypeOK /\ Descriptors /\ Program /\ SocketsMatchSlots /\ OnePlacePerClient
  BY DEF ServerInv, Descriptors
<1>2. PICK i \in Slots, fd \in Fds :
          /\ i \notin Valid
          /\ fdTable[fd] = NoClient
          /\ clientArray' = [clientArray EXCEPT ![i] = NewSlot(i, fd)]
          /\ fdTable' = [fdTable EXCEPT ![fd] = c]
  BY DEF AcceptConnection, IsFirst, FreeFds
<1>3. c \in Clients /\ 1 \in 1 .. Len(backlog) /\ c = backlog[1]
  <2>1. backlog # <<>>
    BY <1>1 DEF Program, AcceptConnection
  <2>2. QED
    BY <1>1, <2>1, TailElements DEF TypeOK
<1>4. \A j \in Slots \ {i} : clientArray'[j] = clientArray[j]
  BY <1>1, <1>2 DEF TypeOK
<1>5. clientArray'[i].valid /\ clientArray'[i].sock = fd /\ clientArray'[i].files = {}
  BY <1>1, <1>2 DEF TypeOK, NewSlot, EmptySlot
<1>6. Valid' = Valid \cup {i}
  BY <1>4, <1>5 DEF Valid
<1>7. \A j \in Valid : clientArray[j].sock \in Fds /\ Peer(j) \in Clients
  BY <1>1, PeerType
<1>8. Peer(i)' = c
  BY <1>1, <1>2, <1>5 DEF TypeOK, Peer
<1>9. \A j \in Valid : clientArray'[j] = clientArray[j] /\ Peer(j)' = Peer(j) /\ Peer(j) # c
  <2> TAKE j \in Valid
  <2>1. j # i /\ clientArray'[j] = clientArray[j]
    BY <1>2, <1>4 DEF Valid
  <2>2. clientArray[j].sock # fd
    BY <1>1, <1>2 DEF SocketsMatchSlots
  <2>3. fdTable[clientArray[j].sock] # c
    BY <1>1, <1>3, <1>7 DEF OnePlacePerClient
  <2>4. QED
    BY <1>1, <1>2, <1>7, <2>1, <2>2, <2>3 DEF TypeOK, Peer
<1>10. c \notin Members /\ Members' = Members \cup {c}
  BY <1>6, <1>8, <1>9 DEF Members
<1>11. Cardinality(Members) < NumSlots
  <2> DEFINE peer == [j \in Valid |-> Peer(j)]
  <2>1. peer \in Surjection(Valid, Members)
    BY DEF Members, Surjection
  <2>2. IsFiniteSet(Slots) /\ Cardinality(Slots) = NumSlots
    BY FS_Interval, SlotsAssumption DEF Slots
  <2>3. Valid \in SUBSET Slots /\ Valid # Slots
    BY <1>2 DEF Valid
  <2>4. IsFiniteSet(Valid) /\ Cardinality(Valid) <= NumSlots /\ Cardinality(Valid) # NumSlots
    BY <2>2, <2>3, FS_Subset
  <2> HIDE DEF peer
  <2>5. IsFiniteSet(Members) /\ Cardinality(Members) <= Cardinality(Valid)
    BY <2>1, <2>4, FS_Surjection
  <2>6. Cardinality(Valid) \in Nat /\ Cardinality(Members) \in Nat
    BY <2>4, <2>5, FS_CardinalityType
  <2>7. QED
    BY <2>4, <2>5, <2>6, SlotsAssumption
<1>12. Offers' = Offers
  <2>1. ASSUME NEW d \in Clients
        PROVE  UNION {clientArray'[j].files : j \in {k \in Valid' : Peer(k)' = d}}
                  = UNION {clientArray[j].files : j \in {k \in Valid : Peer(k) = d}}
    <3>1. CASE d = c
      <4>1. {k \in Valid' : Peer(k)' = d} = {i} /\ {k \in Valid : Peer(k) = d} = {}
        BY <1>6, <1>8, <1>9, <3>1
      <4>2. QED
        BY <1>5, <4>1
    <3>2. CASE d # c
      <4>1. {k \in Valid' : Peer(k)' = d} = {k \in Valid : Peer(k) = d}
        BY <1>6, <1>8, <1>9, <3>2
      <4>2. QED
        BY <1>9, <4>1
    <3>3. QED
      BY <3>1, <3>2
  <2>2. QED
    BY <2>1 DEF Offers
<1>13. UNCHANGED Asked
  <2>1. todo = <<>> /\ todo' = <<>> /\ UNCHANGED toCli
    BY <1>1 DEF Program, AcceptConnection, tcpVars
  <2>2. QED
    BY <2>1, AskedKept
<1>14. QED
  <2>1. D!Cardinality(Members) = Cardinality(Members)
    BY DEF Cardinality, D!Cardinality
  <2>2. QED
    BY <1>3, <1>10, <1>11, <1>12, <1>13, <2>1 DEF D!Join

(* exit and the end of a connection are a Leave.                            *)
LEMMA FreedLeaves ==
    ASSUME ServerInv, NEW i \in Valid, clientArray' = Freed(i), UNCHANGED <<backlog, toCli>>,
           fdTable' = [fdTable EXCEPT ![clientArray[i].sock] = NoClient],
           todo = <<>>, todo' = <<>>
    PROVE  D!Leave(Peer(i))
<1>1. TypeOK /\ Descriptors /\ SocketsMatchSlots
  BY DEF ServerInv, Descriptors
<1>2. OffersBySlot
  BY OffersOfMembers
<1>3. Valid' = Valid \ {i} /\ \A j \in Slots \ {i} : clientArray'[j] = clientArray[j]
  BY <1>1, FreeDescriptors
<1>4. \A j \in Valid : clientArray[j].sock \in Fds /\ Peer(j) \in Clients
  BY <1>1, PeerType
<1>5. ASSUME NEW j \in Valid \ {i}
      PROVE  clientArray'[j] = clientArray[j] /\ Peer(j)' = Peer(j) /\ Peer(j) # Peer(i)
  <2>1. clientArray'[j] = clientArray[j] /\ clientArray[j].sock # clientArray[i].sock
    BY <1>1, <1>3 DEF Valid, SocketsMatchSlots
  <2>2. QED
    BY <1>1, <1>2, <1>4, <2>1 DEF Peer, OffersBySlot, TypeOK
<1>6. Peer(i) \in Members /\ Members' = Members \ {Peer(i)}
  BY <1>3, <1>5 DEF Members
<1>7. ASSUME NEW d \in Clients
      PROVE  UNION {clientArray'[j].files : j \in {k \in Valid' : Peer(k)' = d}}
                = IF d = Peer(i) THEN {}
                  ELSE UNION {clientArray[j].files : j \in {k \in Valid : Peer(k) = d}}
  <2>1. CASE d = Peer(i)
    <3>1. {k \in Valid' : Peer(k)' = d} = {}
      BY <1>3, <1>5, <2>1
    <3>2. QED
      BY <2>1, <3>1
  <2>2. CASE d # Peer(i)
    <3>1. {k \in Valid' : Peer(k)' = d} = {k \in Valid : Peer(k) = d} /\ i \notin {k \in Valid : Peer(k) = d}
      BY <1>3, <1>5, <2>2
    <3>2. QED
      BY <1>5, <2>2, <3>1
  <2>3. QED
    BY <2>1, <2>2
<1>8. Offers' = [Offers EXCEPT ![Peer(i)] = {}]
  BY <1>4, <1>7 DEF Offers
<1>9. UNCHANGED Asked
  BY AskedKept
<1>10. QED
  BY <1>6, <1>8, <1>9 DEF D!Leave

(* sendmyfileslist is an Announce.                                          *)
LEMMA StoredAnnounces ==
    ASSUME ServerInv, ServerInv', NEW i \in Valid, NEW files \in SUBSET Files,
           clientArray' = [clientArray EXCEPT ![i].files = files],
           UNCHANGED <<fdTable, toCli, todo>>
    PROVE  D!Announce(Peer(i))
<1>1. TypeOK /\ SocketsMatchSlots
  BY DEF ServerInv, Descriptors
<1>2. OffersBySlot
  BY OffersOfMembers
<1>3. i \in Slots /\ Peer(i) \in Clients
  BY <1>1, PeerType
<1>4. /\ clientArray'[i].files = files
      /\ \A j \in Slots \ {i} : clientArray'[j] = clientArray[j]
      /\ \A j \in Slots : /\ clientArray'[j].valid = clientArray[j].valid
                          /\ clientArray'[j].sock = clientArray[j].sock
  BY <1>1, <1>3 DEF TypeOK, SlotSet
<1>5. Valid' = Valid /\ \A j \in Valid : Peer(j)' = Peer(j)
  BY <1>4 DEF Valid, Peer
<1>6. Members' = Members /\ Peer(i) \in Members
  BY <1>5 DEF Members
<1>7. ASSUME NEW d \in Clients
      PROVE  UNION {clientArray'[j].files : j \in {k \in Valid' : Peer(k)' = d}}
                = IF d = Peer(i) THEN files
                  ELSE UNION {clientArray[j].files : j \in {k \in Valid : Peer(k) = d}}
  <2>1. {k \in Valid' : Peer(k)' = d} = {k \in Valid : Peer(k) = d}
    BY <1>5
  <2>2. CASE d = Peer(i)
    <3>1. {k \in Valid : Peer(k) = d} = {i}
      BY <1>2, <2>2 DEF OffersBySlot
    <3>2. QED
      BY <1>4, <2>1, <2>2, <3>1
  <2>3. CASE d # Peer(i)
    <3>1. \A j \in {k \in Valid : Peer(k) = d} : clientArray'[j] = clientArray[j]
      BY <1>4, <2>3 DEF Valid
    <3>2. QED
      BY <2>1, <2>3, <3>1
  <2>4. QED
    BY <2>2, <2>3
<1>8. Offers' = [Offers EXCEPT ![Peer(i)] = files]
  BY <1>3, <1>7 DEF Offers
<1>9. UNCHANGED Asked
  BY AskedKept
<1>10. QED
  BY <1>6, <1>8, <1>9 DEF D!Announce

(* A get that is routed is an Ask: the owner offers the file.               *)
LEMMA RouteAsks ==
    ASSUME ServerInv, NEW i \in Valid, NEW k \in Valid, NEW f \in Files,
           f \in clientArray[k].files, Route(i, k, f), todo = <<>>,
           UNCHANGED <<clientArray, fdTable, toCli>>
    PROVE  D!Ask(Peer(k))
<1>1. TypeOK /\ SocketsMatchSlots
  BY DEF ServerInv, Descriptors
<1>2. Offers[Peer(k)] = clientArray[k].files
  BY OffersOfMembers DEF OffersBySlot
<1>3. Peer(k) \in Clients /\ Peer(i) \in Clients
  BY <1>1, PeerType
<1>4. UNCHANGED <<Members, Offers>>
  BY RegisterKept
<1> DEFINE ask == [fd |-> clientArray[k].sock, msg |-> GetFrame(f)]
           tell == [fd |-> clientArray[i].sock, msg |-> [cmd |-> "ip", owner |-> Peer(k)]]
<1>5. todo' = <<ask>> \o <<tell>>
  BY DEF Route, Reply, GetFrame
<1>6. Len(todo') = 2 /\ todo'[1] = ask /\ todo'[2] = tell
  <2>1. ask \in {ask, tell} /\ tell \in {ask, tell}
    OBVIOUS
  <2> HIDE DEF ask, tell
  <2>2. QED
    BY <1>5, <2>1, JoinedElements
<1>7. \A g \in Files : tell.msg # GetFrame(g) /\ (ask.msg = GetFrame(g) <=> g = f)
  BY DEF GetFrame
<1>8. fdTable[ask.fd] = Peer(k) /\ UNCHANGED fdTable
  BY DEF Peer
<1> HIDE DEF ask, tell
<1>9. ASSUME NEW c \in Clients
      PROVE  AskedSoon(c)' = IF c = Peer(k) THEN {f} ELSE {}
  <2>1. \A n : n \in 1 .. Len(todo') <=> n = 1 \/ n = 2
    BY <1>6
  <2>2. ASSUME NEW g \in Files
        PROVE  (\E n \in 1 .. Len(todo') : fdTable'[todo'[n].fd] = c /\ todo'[n].msg = GetFrame(g))
                  <=> c = Peer(k) /\ g = f
    BY <1>6, <1>7, <1>8, <2>1
  <2>3. QED
    BY <2>2 DEF AskedSoon, GetFrame
<1>10. ASSUME NEW c \in Clients
       PROVE  AskedSoon(c) = {} /\ AskedOnTheWay(c)' = AskedOnTheWay(c)
  BY NothingAskedSoon DEF AskedOnTheWay
<1>11. \A c \in Clients : Asked'[c] = IF c = Peer(k) THEN Asked[c] \cup {f} ELSE Asked[c]
  BY <1>9, <1>10, AskedOf
<1>12. Asked' = [Asked EXCEPT ![Peer(k)] = @ \cup {f}]
  BY <1>3, <1>11 DEF Asked
<1>13. QED
  BY <1>2, <1>4, <1>12 DEF D!Ask

(* A reply that is sent or lost: one question fewer, or it is on its way.   *)
LEMMA ReplyAnswers ==
    ASSUME ServerInv, SendReply
    PROVE  \E d \in Clients : D!Answer(d)
<1>1. TypeOK /\ Program
  BY DEF ServerInv
<1>2. todo # <<>> /\ todo' = Tail(todo) /\ UNCHANGED <<clientArray, fdTable>>
  BY <1>1 DEF Program, SendReply
<1>3. /\ Head(todo) \in [fd : Fds, msg : Replies] /\ 1 \in 1 .. Len(todo) /\ Head(todo) = todo[1]
      /\ \A k \in 1 .. Len(todo') : k + 1 \in 1 .. Len(todo) /\ todo'[k] = todo[k + 1]
  BY <1>1, <1>2, TailElements DEF TypeOK
<1>4. PICK d \in Clients, m \in Replies : d = fdTable[todo[1].fd] /\ m = todo[1].msg
  BY <1>1, <1>3 DEF TypeOK, Program
<1>5. toCli' = [toCli EXCEPT ![d] = Append(@, m)] \/ toCli' = toCli
  BY <1>1, <1>3, <1>4, SendType DEF SendReply
<1>6. UNCHANGED <<Members, Offers>>
  BY <1>2, RegisterKept
<1>7. ASSUME NEW c \in Clients
      PROVE  AskedSoon(c)' \subseteq AskedSoon(c)
  BY <1>2, <1>3 DEF AskedSoon
<1>8. ASSUME NEW c \in Clients \ {d}
      PROVE  Asked'[c] = Asked[c]
  <2>1. AskedOnTheWay(c)' = AskedOnTheWay(c)
    BY <1>1, <1>4, <1>5 DEF TypeOK, AskedOnTheWay
  <2>2. AskedSoon(c) \subseteq AskedSoon(c)'
    <3> SUFFICES ASSUME NEW f \in Files, NEW k \in 1 .. Len(todo),
                        fdTable[todo[k].fd] = c, todo[k].msg = GetFrame(f)
                 PROVE  f \in AskedSoon(c)'
      BY DEF AskedSoon
    <3>1. k # 1
      BY <1>4
    <3>2. k - 1 \in 1 .. Len(Tail(todo)) /\ k - 1 + 1 = k
      BY <1>1, <1>2, <3>1 DEF TypeOK
    <3>3. todo'[k - 1] = todo[k]
      BY <1>2, <1>3, <3>2
    <3>4. QED
      BY <1>2, <3>2, <3>3 DEF AskedSoon, GetFrame
  <2>3. QED
    BY <1>7, <2>1, <2>2, AskedOf
<1>9. Asked'[d] \subseteq Asked[d]
  <2>1. AskedOnTheWay(d)' \subseteq AskedOnTheWay(d) \cup AskedSoon(d)
    <3>1. CASE toCli' = toCli
      BY <3>1 DEF AskedOnTheWay
    <3>2. CASE toCli' = [toCli EXCEPT ![d] = Append(@, m)]
      <4>1. toCli'[d] = Append(toCli[d], m) /\ toCli[d] \in Seq(Replies)
        BY <1>1, <1>4, <3>2 DEF TypeOK
      <4>2. \A k \in 1 .. Len(toCli'[d]) :
                toCli'[d][k] = m \/ (k \in 1 .. Len(toCli[d]) /\ toCli'[d][k] = toCli[d][k])
        BY <1>4, <4>1, AppendElements
      <4>3. \A f \in Files : m = GetFrame(f) => f \in AskedSoon(d)
        BY <1>3, <1>4 DEF AskedSoon
      <4>4. QED
        BY <4>2, <4>3 DEF AskedOnTheWay, GetFrame
    <3>3. QED
      BY <1>5, <3>1, <3>2
  <2>2. QED
    BY <1>4, <1>7, <2>1, AskedOf
<1>10. QED
  BY <1>4, <1>6, <1>8, <1>9, Answered

(* A signal closes the directory.                                           *)
LEMMA DeathCloses ==
    ASSUME NEW cause, Die(cause)
    PROVE  D!Close
<1>1. Valid' = {}
  BY DieDescriptors
<1>2. Members' = {} /\ Offers' = [c \in Clients |-> {}]
  BY <1>1 DEF Members, Offers
<1>3. \A c \in Clients : AskedSoon(c)' = {} /\ AskedOnTheWay(c)' = AskedOnTheWay(c)
  BY NothingAskedSoon DEF Die, AskedOnTheWay
<1>4. \A c \in Clients : Asked'[c] \subseteq Asked[c] /\ Asked'[c] \subseteq Files
  BY <1>3, AskedOf DEF AskedOnTheWay
<1>5. Asked' \in [Clients -> SUBSET Files]
  BY <1>4 DEF Asked
<1>6. QED
  BY <1>2, <1>4, <1>5 DEF D!Close

(* What a client does can only take a question off its connection.          *)
LEMMA ClientAnswers ==
    ASSUME ServerInv, NEW c \in Clients, ClientProgress(c) \/ UserStep(c)
    PROVE  D!Answer(c)
<1> USE DEF serverVars, tcpVars, clientVars
<1>1. TypeOK
  BY DEF ServerInv
<1>2. UNCHANGED <<clientArray, fdTable, todo>>
  BY ClientLeavesServer
<1>3. UNCHANGED <<Members, Offers>>
  BY <1>2, RegisterKept
<1>4. \A d \in Clients : AskedSoon(d)' = AskedSoon(d)
  BY <1>2 DEF AskedSoon
<1>5. \A d \in Clients \ {c} : toCli'[d] = toCli[d]
  <2>1. CASE ClientReceive(c) \/ Leave(c)
    BY <1>1, <2>1 DEF ClientReceive, Leave, TypeOK
  <2>2. CASE \/ Connect(c) \/ ConnectFails(c) \/ SendName(c) \/ FirstFileList(c)
             \/ ServerGone(c) \/ AlarmRings(c) \/ AlarmSends(c)
    BY <2>2 DEF Connect, ConnectFails, SendName, FirstFileList, ServerGone, AlarmRings,
                AlarmSends
  <2>3. CASE AskList(c) \/ AskFile(c) \/ SendFiles(c) \/ SayExit(c)
    BY <2>3 DEF AskList, AskFile, SendFiles, SayExit, Command
  <2>4. QED
    BY <2>1, <2>2, <2>3 DEF ClientProgress, UserStep
<1>6. \A d \in Clients \ {c} : AskedOnTheWay(d)' = AskedOnTheWay(d)
  BY <1>5 DEF AskedOnTheWay
<1>7. AskedOnTheWay(c)' \subseteq AskedOnTheWay(c)
  <2>1. \A k \in 1 .. Len(toCli'[c]) : \E l \in 1 .. Len(toCli[c]) : toCli'[c][k] = toCli[c][l]
    BY <1>1, ClientMessages
  <2>2. QED
    BY <2>1 DEF AskedOnTheWay, GetFrame
<1>8. QED
  BY <1>3, <1>4, <1>6, <1>7, AskedOf, Answered

(* Each command is a step of the directory, or changes nothing of it.       *)
LEMMA CommandRefines ==
    ASSUME ServerInv, ServerInv', NEW i \in Slots, Connection(i)
    PROVE  D!Next \/ UNCHANGED <<Members, Offers, Asked>>
<1> USE DEF tcpVars, clientVars
<1>1. TypeOK /\ Descriptors /\ Program /\ SocketsMatchSlots
  BY DEF ServerInv, Descriptors
<1>2. Serve(i)
  BY DEF Connection, HandleName, HandleFiles, HandleFilesCrash, HandleList,
         HandleListCrash, HandleExit, HandleGet, HandleEof, HandleReset, Receive
<1>3. i \in Valid /\ FindIndex(i) = i /\ Peer(i) \in Clients /\ todo = <<>>
  BY <1>1, <1>2, ServedSlot DEF Serve, Program
<1>4. CASE HandleName(i)
  <2>1. \A j \in Slots : /\ clientArray'[j].valid = clientArray[j].valid
                         /\ clientArray'[j].sock = clientArray[j].sock
                         /\ clientArray'[j].files = clientArray[j].files
    BY <1>1, <1>3, <1>4 DEF HandleName, TypeOK, SlotSet
  <2>2. UNCHANGED <<fdTable, todo, toCli>>
    BY <1>4 DEF HandleName
  <2>3. QED
    BY <2>1, <2>2, RegisterKept, AskedKept
<1>5. CASE HandleFiles(i)
  <2>1. Receive(i, "sendmyfileslist") /\ UNCHANGED <<fdTable, todo, toCli>>
    BY <1>5 DEF HandleFiles
  <2>2. Frame(i) \in Requests /\ Frame(i).cmd = "sendmyfileslist"
    BY <1>1, <1>2, <2>1, ConsumedType DEF Receive, Frame
  <2>3. Frame(i).files \in SUBSET Files
    BY <2>2, RequestFields
  <2>4. clientArray' = [clientArray EXCEPT ![i].files = Frame(i).files]
    BY <1>3, <1>5 DEF HandleFiles, Stored
  <2>5. D!Announce(Peer(i))
    BY <1>3, <2>1, <2>3, <2>4, StoredAnnounces
  <2>6. QED
    BY <1>3, <2>5 DEF D!Next
<1>6. CASE HandleFilesCrash(i) \/ HandleListCrash(i)
  BY <1>6, DeathCloses DEF HandleFilesCrash, HandleListCrash, D!Next
<1>7. CASE HandleList(i)
  <2>1. todo' = <<[fd |-> clientArray[i].sock, msg |-> ListMessage]>>
    BY <1>3, <1>7 DEF HandleList, Reply
  <2>2. \A k \in 1 .. Len(todo') : todo'[k].msg.cmd # "get"
    BY <2>1 DEF ListMessage
  <2>3. UNCHANGED <<clientArray, fdTable, toCli>>
    BY <1>7 DEF HandleList
  <2>4. UNCHANGED Asked
    BY <1>3, <2>2, <2>3, AskedKept
  <2>5. QED
    BY <2>3, <2>4, RegisterKept
<1>8. CASE HandleExit(i) \/ HandleEof(i)
  <2>1. /\ clientArray' = Freed(i) /\ UNCHANGED <<backlog, toCli>> /\ todo' = <<>>
        /\ fdTable' = [fdTable EXCEPT ![clientArray[i].sock] = NoClient]
    BY <1>3, <1>8 DEF HandleExit, HandleEof
  <2>2. D!Leave(Peer(i))
    BY <1>3, <2>1, FreedLeaves
  <2>3. QED
    BY <1>3, <2>2 DEF D!Next
<1>9. CASE HandleGet(i)
  <2>1. Receive(i, "get") /\ UNCHANGED <<clientArray, fdTable, toCli>>
    BY <1>9 DEF HandleGet
  <2>2. Frame(i) \in Requests /\ Frame(i).cmd = "get"
    BY <1>1, <1>2, <2>1, ConsumedType DEF Receive, Frame
  <2> DEFINE f == Frame(i).file
  <2>3. f \in Files
    BY <2>2, RequestFields
  <2>4. ManageGet(i, f)
    BY <1>3, <1>9 DEF HandleGet
  <2> HIDE DEF f
  <2>5. ASSUME NEW msg, todo' = Reply(i, msg), msg.cmd # "get"
        PROVE  UNCHANGED <<Members, Offers, Asked>>
    <3>1. \A k \in 1 .. Len(todo') : todo'[k].msg.cmd # "get"
      BY <2>5 DEF Reply
    <3>2. UNCHANGED Asked
      BY <1>3, <2>1, <3>1, AskedKept
    <3>3. QED
      BY <2>1, <3>2, RegisterKept
  <2>6. CASE NotShared(i, f)
    BY <2>5, <2>6 DEF NotShared
  <2>7. CASE \E k \in Slots : IsFirst(k, Owners(f)) /\ OwnFile(i, k, f)
    <3>1. todo' = Reply(i, [cmd |-> "own", file |-> f])
      BY <2>7 DEF OwnFile
    <3>2. QED
      BY <2>5, <3>1
  <2>8. CASE \E k \in Slots : IsFirst(k, Owners(f)) /\ Route(i, k, f)
    <3>1. PICK k \in Slots : IsFirst(k, Owners(f)) /\ Route(i, k, f)
      BY <2>8
    <3>2. k \in Valid /\ f \in clientArray[k].files
      BY <3>1 DEF IsFirst, Owners
    <3>3. D!Ask(Peer(k)) /\ Peer(k) \in Clients
      BY <1>1, <1>3, <2>1, <2>3, <3>1, <3>2, RouteAsks, PeerType
    <3>4. QED
      BY <3>3 DEF D!Next
  <2>9. QED
    BY <2>4, <2>6, <2>7, <2>8 DEF ManageGet
<1>10. CASE HandleReset(i)
  <2>1. UNCHANGED <<clientArray, fdTable, todo, toCli>>
    BY <1>10 DEF HandleReset
  <2>2. QED
    BY <2>1, RegisterKept, AskedKept
<1>11. QED
  BY <1>4, <1>5, <1>6, <1>7, <1>8, <1>9, <1>10 DEF Connection

(* So is each other step of the server's loop.                              *)
LEMMA LoopRefines ==
    ASSUME ServerInv, ServerInv', ServerStep
    PROVE  D!Next \/ UNCHANGED <<Members, Offers, Asked>>
<1> USE DEF tcpVars, clientVars
<1>1. TypeOK /\ Descriptors /\ Program /\ SocketsMatchSlots
  BY DEF ServerInv, Descriptors
<1>2. CASE Start \/ StartFails \/ Select \/ ScanDone \/ PushDone
  <2>1. UNCHANGED <<clientArray, fdTable, todo, toCli>>
    BY <1>2 DEF Start, StartFails, Select, ScanDone, PushDone
  <2>2. QED
    BY <2>1, RegisterKept, AskedKept
<1>3. CASE AcceptConnection
  BY <1>3, AcceptJoins DEF D!Next
<1>4. CASE TurnAway
  <2>1. Head(backlog) \in Clients
    BY <1>1, <1>4, TailElements DEF TypeOK, Program, TurnAway
  <2>2. [cmd |-> "full"] \in Replies
    BY DEF Replies
  <2>3. /\ \/ toCli' = [toCli EXCEPT ![Head(backlog)] = Append(@, [cmd |-> "full"])]
           \/ toCli' = toCli
        /\ UNCHANGED <<clientArray, fdTable, todo>>
    BY <1>4 DEF TurnAway
  <2>4. D!Answer(Head(backlog))
    BY <1>1, <2>1, <2>2, <2>3, NoQuestionSent
  <2>5. QED
    BY <2>1, <2>4 DEF D!Next
<1>5. ASSUME NEW i \in Slots, PushList(i)
      PROVE  D!Next
  <2>1. ListMessage \in Replies /\ ListMessage.cmd # "get"
    BY <1>1, TableType DEF ListMessage, Replies, TypeOK
  <2>2. Peer(i) \in Clients
    BY <1>1, <1>5, PeerType DEF PushList, IsFirst, Pushable
  <2>3. Send(Peer(i), ListMessage) /\ UNCHANGED <<clientArray, fdTable, todo>>
    BY <1>5 DEF PushList
  <2>4. toCli' = [toCli EXCEPT ![Peer(i)] = Append(@, ListMessage)] \/ toCli' = toCli
    BY <1>1, <2>1, <2>2, <2>3, SendType
  <2>5. D!Answer(Peer(i))
    BY <1>1, <2>1, <2>2, <2>3, <2>4, NoQuestionSent
  <2>6. QED
    BY <2>2, <2>5 DEF D!Next
<1>6. CASE SendReply
  BY <1>6, ReplyAnswers DEF D!Next
<1>7. CASE PushCrash \/ SendSigpipe \/ \E i \in Slots : PushSigpipe(i)
  BY <1>7, DeathCloses DEF PushCrash, SendSigpipe, PushSigpipe, D!Next
<1>8. QED
  BY <1>2, <1>3, <1>4, <1>5, <1>6, <1>7, CommandRefines DEF ServerStep

(* The coordinator implements the directory, for every instance: a client   *)
(* is asked only for a file it offers at the time, and joining, announcing, *)
(* asking and leaving each happen at once although the code takes many      *)
(* calls for them.                                                          *)
THEOREM CoordinatorIsDirectory == Spec => DirectoryRefined
<1>1. Init => D!Init
  <2> SUFFICES ASSUME Init PROVE D!Init
    OBVIOUS
  <2>1. Valid = {}
    BY DEF Init, NoSlots, EmptySlot, Valid
  <2>2. Members = {} /\ Offers = [c \in Clients |-> {}]
    BY <2>1 DEF Members, Offers
  <2>3. \A c \in Clients : AskedOnTheWay(c) = {} /\ AskedSoon(c) = {}
    BY DEF Init, AskedOnTheWay, AskedSoon
  <2>4. Asked = [c \in Clients |-> {}]
    BY <2>3 DEF Asked
  <2>5. QED
    BY <2>2, <2>4 DEF D!Init
<1>2. ServerInv /\ ServerInv' /\ [Next]_vars => [D!Next]_(D!directoryVars)
  <2> SUFFICES ASSUME ServerInv, ServerInv', [Next]_vars
               PROVE  D!Next \/ UNCHANGED <<Members, Offers, Asked>>
    BY DEF D!directoryVars
  <2>1. CASE ServerStep
    BY <2>1, LoopRefines
  <2>2. ASSUME NEW c \in Clients, ClientProgress(c) \/ UserStep(c)
        PROVE  D!Next
    BY <2>2, ClientAnswers DEF D!Next
  <2>3. CASE UNCHANGED vars
    <3>1. UNCHANGED <<clientArray, fdTable, todo, toCli>>
      BY <2>3 DEF vars, serverVars, tcpVars
    <3>2. QED
      BY <3>1, RegisterKept, AskedKept
  <2>4. QED
    BY <2>1, <2>2, <2>3 DEF Next
<1>3. QED
  BY <1>1, <1>2, ServerInvHolds, PTL DEF Spec, DirectoryRefined, D!Spec
=============================================================================
