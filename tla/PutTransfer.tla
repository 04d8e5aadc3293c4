----------------------------- MODULE PutTransfer -----------------------------
(***************************************************************************)
(* The UDP programs of src/5273/udp: a client that puts files, lists and   *)
(* stops a server, and the server.  Nothing is acknowledged but the put    *)
(* command itself, and the server tells what a datagram is by its first    *)
(* bytes only, so a datagram is what those bytes are (head):               *)
(*   "put", "ls", "exit"  commands, or data that begins like one           *)
(*   "e"                  the end marker, or data that begins with an e    *)
(*   "y"                  begins with a y (as the server's consent does)   *)
(*   "other"              anything else                                    *)
(* with the client it came from and, for a chunk of a file, its number and *)
(* whether it is padded: a last chunk shorter than the buffer is sent with *)
(* whatever bytes the buffer still holds behind it.                        *)
(*                                                                         *)
(* A client has not begun ("start"), never reaches the server ("lost"), is *)
(* at its prompt ("idle"), in recvfrom() after a put ("asked") or after    *)
(* another command ("waiting"), or between two sendto() of a file          *)
(* ("sending"). The server has not begun ("start"), has no socket that     *)
(* anything could reach ("deaf"), is in its outer loop ("command"), in the *)
(* loop that writes a file ("put"), in that loop although the file could   *)
(* not be opened ("null"), was told to exit ("done") or died ("crashed").  *)
(***************************************************************************)
EXTENDS Naturals, Sequences, SequencesExt

CONSTANTS
    Clients,      \* client programs talking to one server
    Files,        \* names of files that can be put
    ChunkHeads,   \* how each 1024-byte chunk of each file begins
    ShortFiles,   \* the files whose length is no multiple of 1024
    NoFile,       \* no file is open
    MaxCommands,  \* bound: commands typed in a behaviour
    MaxLosses     \* bound: datagrams lost in a behaviour

(* How data may begin; data that begins with a whole command line, "put x"  *)
(* or "ls" and a NUL, is left out.                                          *)
DataHeads == {"exit", "e", "y", "other"}

Heads == DataHeads \cup {"put", "ls"}

ASSUME ChunksAssumption ==
    ChunkHeads \in [Files -> Seq(DataHeads)] /\ NoFile \notin Files
ASSUME ShortAssumption == ShortFiles \subseteq Files
ASSUME BoundsAssumption == MaxCommands \in Nat /\ MaxLosses \in Nat

VARIABLES
    toServer,   \* datagrams in the server's socket
    toClient,   \* heads of the datagrams in each client's socket
    losses,     \* datagrams lost so far
    pc,         \* place in each client
    open,       \* the file each client is putting
    nread,      \* chunks fread() has returned of it
    commands,   \* commands typed so far
    mode,       \* place in the server
    name,       \* the file the server appends to, or died over
    disk,       \* what the server has written, per file
    expected,   \* what disk should come to hold: all chunks of all accepted puts
    clean       \* nothing lost or unheard, no Disturbs, no InBand data so far

channelVars == <<toServer, toClient, losses>>
clientVars  == <<pc, open, nread, commands>>
serverVars  == <<mode, name, disk, expected>>
vars == <<channelVars, clientVars, serverVars, clean>>

Datagrams == [from : Clients, head : Heads, file : Files \cup {NoFile}, nr : Nat,
              padded : BOOLEAN]

Command(c, head, f) == [from |-> c, head |-> head, file |-> f, nr |-> 0, padded |-> FALSE]

(* Does chunk n of f end in stale bytes?  Neither program clears or trims   *)
(* the buffer, nor tells the other how much of it counts.                   *)
Padded(f, n) == f \in ShortFiles /\ n = Len(ChunkHeads[f])

Chunk(c, f, n) ==
    [from |-> c, head |-> ChunkHeads[f][n], file |-> f, nr |-> n, padded |-> Padded(f, n)]

Init ==
    /\ toServer = <<>>
    /\ toClient = [c \in Clients |-> <<>>]
    /\ losses = 0
    /\ pc = [c \in Clients |-> "start"]
    /\ open = [c \in Clients |-> NoFile]
    /\ nread = [c \in Clients |-> 0]
    /\ commands = 0
    /\ mode = "start"
    /\ name = NoFile
    /\ disk = [f \in Files |-> <<>>]
    /\ expected = [f \in Files |-> <<>>]
    /\ clean = TRUE

-----------------------------------------------------------------------------
(* Is there a socket for the clients' datagrams? *)
Listening == mode \in {"command", "put", "null"}

(* A null pointer has killed the server, or is about to. *)
Doomed == mode \in {"null", "crashed"}

(* A datagram arrives, in the order sent, or is lost, or finds no socket.   *)
Sent(d) ==
    \/ Listening /\ toServer' = Append(toServer, d) /\ UNCHANGED losses
    \/ losses < MaxLosses /\ losses' = losses + 1 /\ UNCHANGED toServer
    \/ ~Listening /\ UNCHANGED <<toServer, losses>>

Replied(c, head) ==
    \/ toClient' = [toClient EXCEPT ![c] = Append(@, head)] /\ UNCHANGED losses
    \/ losses < MaxLosses /\ losses' = losses + 1 /\ UNCHANGED toClient

StaysClean(undisturbed) == clean' = (clean /\ undisturbed /\ losses' = losses)

(* A command typed while another client's put is under way. *)
Disturbs(c) == \E d \in Clients \ {c} : pc[d] \in {"asked", "sending"}

(* Data that the server takes for the end marker. *)
InBand(head) == head \in {"e", "exit"}

-----------------------------------------------------------------------------
(* The client.                                                              *)

(* main() before its loop: an address and a socket.                         *)
Begin(c) ==
    /\ pc[c] = "start"
    /\ pc' = [pc EXCEPT ![c] = "idle"]
    /\ UNCHANGED <<channelVars, open, nread, commands, serverVars, clean>>

(* Too few arguments end it.  An address that is none, or a missing socket, *)
(* is only complained of: the program prompts, and all it sends goes astray.*)
BeginsInVain(c) ==
    /\ pc[c] = "start"
    /\ pc' = [pc EXCEPT ![c] = "lost"]
    /\ UNCHANGED <<channelVars, open, nread, commands, serverVars, clean>>

(* What trimwhitespace() makes of a line.  It skips blanks before the text, *)
(* but looks for those after it from the last byte of the buffer, always a  *)
(* NUL, and removes none: "ls " is no ls to the server.  Of a line of       *)
(* blanks nothing is made and the command is what the buffer held: anything *)
(* the first time, later the empty text.                                    *)
Trimmed(text, trailing) ==
    CASE text = "blank"           -> Heads
      [] text = "ls" /\ trailing -> {"other"}
      [] OTHER                    -> {text}

Prompted(c) ==
    /\ pc[c] = "idle"
    /\ commands < MaxCommands
    /\ commands' = commands + 1

(* put of a file that exists: the command goes out, then the client blocks  *)
(* in recvfrom() until some datagram comes.                                 *)
TypePut(c, f) ==
    /\ Prompted(c)
    /\ Sent(Command(c, "put", f))
    /\ pc' = [pc EXCEPT ![c] = "asked"]
    /\ open' = [open EXCEPT ![c] = f]
    /\ nread' = [nread EXCEPT ![c] = 0]
    /\ StaysClean(Listening /\ ~Disturbs(c))
    /\ UNCHANGED <<toClient, serverVars>>

(* put of a file that does not exist, as none does under a name with a      *)
(* blank after it: nothing is sent.                                         *)
NotFound(c) ==
    /\ Prompted(c)
    /\ UNCHANGED <<channelVars, pc, open, nread, serverVars, clean>>

(* ls, exit and any other text are sent as they are and answered by one     *)
(* datagram, whatever it is.                                                *)
TypeOther(c, head) ==
    /\ Prompted(c)
    /\ Sent(Command(c, head, NoFile))
    /\ pc' = [pc EXCEPT ![c] = "waiting"]
    /\ StaysClean(Listening /\ ~Disturbs(c))
    /\ UNCHANGED <<toClient, open, nread, serverVars>>

(* One line typed at the prompt. *)
Enter(c, text, trailing) ==
    \E head \in Trimmed(text, trailing) :
        \/ head = "put" /\ NotFound(c)
        \/ head = "put" /\ ~trailing /\ \E f \in Files : TypePut(c, f)
        \/ head # "put" /\ TypeOther(c, head)

Received(c) ==
    /\ toClient[c] # <<>>
    /\ toClient' = [toClient EXCEPT ![c] = Tail(@)]
    /\ UNCHANGED <<toServer, losses, commands, nread, serverVars, clean>>

(* Only the first byte is looked at.  Without consent nothing is sent, not  *)
(* even the end marker.                                                     *)
GetConsent(c) ==
    /\ pc[c] = "asked"
    /\ Received(c)
    /\ IF Head(toClient[c]) = "y"
       THEN pc' = [pc EXCEPT ![c] = "sending"] /\ UNCHANGED open
       ELSE pc' = [pc EXCEPT ![c] = "idle"] /\ open' = [open EXCEPT ![c] = NoFile]

GetAnswer(c) ==
    /\ pc[c] = "waiting"
    /\ Received(c)
    /\ pc' = [pc EXCEPT ![c] = "idle"]
    /\ UNCHANGED open

(* fread() and sendto(), which sends 1024 bytes whatever fread() returned.  *)
SendChunk(c) ==
    LET chunk == Chunk(c, open[c], nread[c] + 1) IN
    /\ pc[c] = "sending"
    /\ nread[c] < Len(ChunkHeads[open[c]])
    /\ Sent(chunk)
    /\ nread' = [nread EXCEPT ![c] = @ + 1]
    /\ StaysClean(Listening /\ ~InBand(chunk.head))
    /\ UNCHANGED <<toClient, pc, open, commands, serverVars>>

(* The end marker.  (The first form forgets to send it.) *)
EndMark_Forgotten(c) == UNCHANGED <<toServer, losses>>

EndMark(c) == Sent(Command(c, "e", NoFile))

SendEnd(c) ==
    /\ pc[c] = "sending"
    /\ nread[c] = Len(ChunkHeads[open[c]])
    /\ EndMark(c)
    /\ pc' = [pc EXCEPT ![c] = "idle"]
    /\ open' = [open EXCEPT ![c] = NoFile]
    /\ StaysClean(Listening)
    /\ UNCHANGED <<toClient, nread, commands, serverVars>>

-----------------------------------------------------------------------------
(* The server.                                                              *)

(* main() before its loop: a socket, bound to the port.                     *)
Bind ==
    /\ mode = "start"
    /\ mode' = "command"
    /\ UNCHANGED <<channelVars, clientVars, name, disk, expected, clean>>

(* A wrong number of arguments ends it; socket() and bind() that fail are   *)
(* only complained of, and recvfrom() never returns a datagram.             *)
BindFails ==
    /\ mode = "start"
    /\ mode' = "deaf"
    /\ UNCHANGED <<channelVars, clientVars, name, disk, expected, clean>>

Take ==
    /\ toServer' = Tail(toServer)
    /\ UNCHANGED clientVars

(* All chunks of a put, as the server should have them. *)
ChunksOf(c, f) == [n \in 1 .. Len(ChunkHeads[f]) |-> Chunk(c, f, n)]

(* put: "y" goes back before the file is opened for appending.              *)
Consenting(d, place) ==
    /\ mode = "command"
    /\ Take
    /\ d.head = "put"
    /\ Replied(d.from, "y")
    /\ mode' = place
    /\ name' = d.file
    /\ expected' = [expected EXCEPT ![d.file] = @ \o ChunksOf(d.from, d.file)]
    /\ StaysClean(TRUE)
    /\ UNCHANGED disk

Consent(d) == Consenting(d, "put")

(* fopen() returns a null pointer, which nobody looks at: the name may be a *)
(* path that does not exist here, or a directory, or not writable.          *)
ConsentInVain(d) == Consenting(d, "null")

Dies ==
    /\ mode' = "crashed"
    /\ toServer' = <<>>
    /\ UNCHANGED <<toClient, losses, clientVars, name, disk, expected, clean>>

(* The next datagram, from whomever, is written through that pointer, or if *)
(* it ends the put the pointer is closed: SIGSEGV.                          *)
Crash(d) == mode = "null" /\ Dies

(* popen() fails, and pclose() is given its null pointer. *)
ListKills(d) == mode = "command" /\ d.head = "ls" /\ Dies

(* ls is answered by the list, other text by itself.  (The first form       *)
(* answers ls with what happens to be in the path array.)                   *)
AnswerTo_Garbage(head) == IF head = "ls" THEN "garbage" ELSE head

AnswerTo(head) == IF head = "ls" THEN "other" ELSE head

Answer(d) ==
    /\ mode = "command"
    /\ Take
    /\ d.head \notin {"put", "exit"}
    /\ Replied(d.from, AnswerTo(d.head))
    /\ StaysClean(TRUE)
    /\ UNCHANGED serverVars

(* The farewell begins with a capital E; what is still in the socket goes   *)
(* with it.                                                                 *)
Stop(d) ==
    /\ mode = "command"
    /\ toServer' = <<>>
    /\ d.head = "exit"
    /\ Replied(d.from, "other")
    /\ mode' = "done"
    /\ StaysClean(TRUE)
    /\ UNCHANGED <<clientVars, name, disk, expected>>

(* What ends the inner loop; "exit" begins with an e as well.  (The first   *)
(* form looks for the consent's character instead.)                         *)
EndsPut_AtConsent(head) == head = "y"

EndsPut(head) == head \in {"e", "exit"}

(* (The first form opens the file for writing, not for appending.)          *)
Written_Truncating(d) == [disk EXCEPT ![name] = IF d.nr = 1 THEN <<d>> ELSE Append(@, d)]

Written(d) == [disk EXCEPT ![name] = Append(@, d)]

(* Everything else is written, from whomever it comes.                      *)
Write(d) ==
    /\ mode = "put"
    /\ Take
    /\ ~EndsPut(d.head)
    /\ disk' = Written(d)
    /\ UNCHANGED <<toClient, losses, mode, name, expected, clean>>

EndPut(d) ==
    /\ mode = "put"
    /\ Take
    /\ EndsPut(d.head)
    /\ mode' = "command"
    /\ name' = NoFile
    /\ UNCHANGED <<toClient, losses, disk, expected, clean>>

-----------------------------------------------------------------------------
ClientStep(c) == GetConsent(c) \/ GetAnswer(c) \/ SendChunk(c) \/ SendEnd(c)

UserStep(c) ==
    \/ Begin(c) \/ BeginsInVain(c)
    \/ \E text \in Heads \cup {"blank"}, trailing \in BOOLEAN : Enter(c, text, trailing)

Serve(d) ==
    \/ Consent(d) \/ ConsentInVain(d) \/ Answer(d) \/ ListKills(d) \/ Stop(d)
    \/ Write(d) \/ EndPut(d) \/ Crash(d)

ServerStep ==
    \/ Bind \/ BindFails
    \/ toServer # <<>> /\ Serve(Head(toServer))

Next == ServerStep \/ \E c \in Clients : ClientStep(c) \/ UserStep(c)

Spec == Init /\ [][Next]_vars

(* Both programs run; users type when they like. *)
FairSpec ==
    /\ Spec
    /\ WF_vars(ServerStep)
    /\ \A c \in Clients : WF_vars(ClientStep(c))

-----------------------------------------------------------------------------
(* Every variable holds what the code can put there; a client between two   *)
(* sendto() has a file open, and the server in its inner loop a name.       *)
TypeOK ==
    /\ toServer \in Seq(Datagrams)
    /\ toClient \in [Clients -> Seq(Heads)]
    /\ losses \in 0 .. MaxLosses
    /\ pc \in [Clients -> {"start", "lost", "idle", "asked", "waiting", "sending"}]
    /\ open \in [Clients -> Files \cup {NoFile}]
    /\ \A c \in Clients : pc[c] \in {"asked", "sending"} <=> open[c] # NoFile
    /\ nread \in [Clients -> Nat]
    /\ commands \in 0 .. MaxCommands
    /\ mode \in {"start", "deaf", "command", "put", "null", "done", "crashed"}
    /\ name \in Files \cup {NoFile}
    /\ mode \in {"put", "null"} => name # NoFile
    /\ name # NoFile => mode \in {"put", "null", "crashed"}
    /\ disk \in [Files -> Seq(Datagrams)]
    /\ expected \in [Files -> Seq(Datagrams)]
    /\ clean \in BOOLEAN

(* As long as nothing was lost, no chunk began with an e and nobody spoke   *)
(* during somebody else's put: every file holds the chunks of what was put  *)
(* under its name, put after put, each once, in order and none of anybody   *)
(* else's, but for the file being put, which holds a prefix of that, and    *)
(* the one the server died over.  Not byte for byte: each put of a file     *)
(* that is no multiple of 1024 bytes leaves stale bytes behind its last     *)
(* chunk, and no other does.  The end marker in the data's own channel, the *)
(* consent, the appending and the unchecked fopen() all bear on it.         *)
CleanPutsAreWhole ==
    clean => \A f \in Files :
        /\ IsPrefix(disk[f], expected[f])
        /\ name = f \/ disk[f] = expected[f]
        /\ \A k \in 1 .. Len(disk[f]) :
              disk[f][k].file = f /\ disk[f][k].padded = Padded(f, disk[f][k].nr)

(* Under the same conditions no answer is left over when a client prompts   *)
(* again: what it reads next answers what it types next.  One answer too    *)
(* many (to a chunk that was taken for a command) shifts all later ones.    *)
CleanAnswersAreNotStale ==
    clean => \A c \in Clients : pc[c] = "idle" => toClient[c] = <<>>

(* Under fairness every command returns to the prompt as long as the run is *)
(* clean and the server was not told to exit and has not died of a file it  *)
(* could not open or a list it could not make.  recvfrom() has no timeout,  *)
(* so that everything hangs on the server's not missing or swallowing       *)
(* anything.                                                                *)
CleanCommandsReturn ==
    \A c \in Clients :
        pc[c] \in {"asked", "waiting", "sending"}
            ~> (pc[c] = "idle" \/ ~clean \/ mode \in {"done", "crashed"})
=============================================================================
