# A verification project for annegatchell/academicus

The repository holds course work: a sliding-window file transfer over a lossy
datagram service, a file distribution system with a coordinating server, and
several smaller programs. This directory models the parts with state and
concurrency in TLA+, checks them with TLC on small instances, and proves the
properties that matter most with TLAPS.

## 1. Inventory

### Sliding-window transfer, `src/5273/PA2`

| part | state | operations |
|---|---|---|
| `sendto_.h` | `p_threshold` | `init_net_lib()`, `sendto_()`: draw, drop or send |
| `client/SRPclient.c` | `LAR`, `LFS`, `newSend`, `sendQ[1]`, `read_fds` | one do-while loop: `fread()`, `sendNewFrame()`, `select()`, `recv()`, retransmission |
| `server/SRPserver.c` | `NFE`, `LFR`, `LAF`, `recvQ[1]`, the output file, `cliLen` | endless loop of `recvfrom()` and `receiveMsg()` |

The two programs share nothing but datagrams: frames `[seq, data]` one way,
acknowledgements the other. Hard: loss, duplication and delay; sequence numbers
that wrap at 256 in comparisons that do not; three `select()` calls with three
different timeouts, of which only the first is a real one; a blocking `recv()`
without any. Correct means: the output is a prefix of the input, the transfer
ends, and it ends with the whole file.

### File distribution, `src/5273/pa4`

| part | state | operations |
|---|---|---|
| `server.c` | `clientArray[4]` (valid, sock, name, files), `readfds` | accept or turn away, `name`, `sendmyfileslist`, `list`, `get`, `exit`, end of connection, pushing the list |
| `client.c`, main thread | the connection | connect, announce, receive and act |
| `client.c`, user thread | `dlfile` | `list`, `get`, `sendmyfileslist`, `exit`; the alarm sends the list again |
| `client.c`, transfer threads | `alreadyTransferring`, port 5050, the `ip` and file name arrays of `getCommand()`'s stack frame | `sendFile()`, `getFile()` |

Server and clients exchange 24K frames over TCP. The server is one thread around
`select()`; it blocks in `send()`. Hard: departures in the middle of a round,
slots and descriptors that are reused, a signal (SIGSEGV, SIGPIPE) that takes
everybody down, threads that share globals. Correct means: a slot always
speaks for the client its socket leads to, requests reach a client that
announced the file, lists are current, everybody is served, who left is removed.

Clients exchange the files themselves. The coordinator tells the owner (`get`)
and the requester (`ip`); the owner starts a thread that listens on port 5050
of its machine for 30 seconds, the requester one that connects to it after 5.
Hard: a flag tested outside its mutex, a port shared by all clients of a
machine, pointers into a dead stack frame, timeouts on both sides. Correct
means: one transfer per client at a time, the port is free when nobody uses
it, every thread ends, a file is what its name says.

`src/5273/asummer_PA3` and `src/5273/pa4/old` are earlier copies of the same
programs.

### The rest

* `src/5273/udp` (PA1): a UDP server and client with `put`, `ls` and `exit`.
  Only the put command is answered before the data; the end of a file is a
  datagram that begins with `e`; nothing has a timeout; the server opens whatever path
  the client names and does not look whether it could. Correct means: a file holds
  what was put, an answer belongs to the command before it, every command returns.
* `src/5448/homework3/sim`: a sequential simulation of a video store (customers,
  rentals, a population that draws who rents tonight). Hard: a loop that removes
  from the list it walks by index, another that removes from the list it
  iterates over, a draw that serves others than it draws. Correct means: videos
  are conserved, the two lists of active rentals agree, what is due goes back.
* `src/5273/j-k-timeout*.c`: the Jacobson/Karels timeout estimator as a loop.
* `src/5273/testProg`, `PA2/helper.c`: string trimming.
* `src/5454/ps1/SkipList` (stubs), `PA2-sample`, `Sample PA3 Code` (course
  skeletons), `showip.c`, scripts, certificates: no behaviour to model.

`PROJECT.json` lists every component with its status, and under `hazards` what
can go wrong in this code that a test would hardly reach, with the properties
that cover it.

## 2. Modules

| module | models |
|---|---|
| `SrpNet` | `sendto_()` and UDP: the two channels, loss, duplication, delay |
| `SrpClient` | the client's loop; `cpc` is the place in it |
| `SrpServer` | `receiveMsg()` |
| `SrpPipe` | abstract: a pipe that hands over pieces once each, in order |
| `Srp` | client, server and network composed; all properties |
| `SrpProofs` | the theorems about `Srp` |
| `MCSrp` | what TLC runs |
| `SeqLemmas` | what `Append`, `Tail`, `\o` and `SubSeq` do to the elements of a sequence |
| `FileServer` | the server of pa4 with its clients and TCP |
| `FileServerProofs` | the theorems about `FileServer` |
| `ListProofs` | that the lists clients see are current |
| `Directory` | abstract: a register of members and what they offer |
| `DirectoryProofs` | that `FileServer` implements `Directory` |
| `MCFileServer` | name functions, bounds per client and symmetry for TLC |
| `PeerTransfer` | the transfer threads of the pa4 clients |
| `PeerTransferProofs` | the theorems about `PeerTransfer` |
| `MCPeerTransfer` | who runs where and shares what, for TLC |
| `PutTransfer` | both programs of PA1 and the network between them |
| `PutTransferProofs` | the theorems about `PutTransfer` |
| `MCPutTransfer` | two files, one of which contains what looks like an end marker |
| `RentalStore` | the video store simulation |
| `Inventory` | abstract: a video is with one customer at a time |
| `RentalStoreProofs` | the theorems about `RentalStore` |
| `MCRentalStore` | four customers of the three kinds |

Operators whose names end in `_Something` next to the definition they vary
(`Expected_AnyInWindow`, `NewSlot_Uncleared` ...) are never used by the
specifications: they are plausible mistakes, and `PROJECT.json` names for each
property one that violates it.

### SrpNet, SrpClient, SrpServer, Srp

A datagram is a record or a sequence number in a channel. `sendto_()` takes its
random draw from `0 .. RndMax`, and drops when it is not above `PThreshold`: as
the comparison is strict, a threshold of 0 (error rate 0) still loses. UDP's own
faults, duplication and delay, are bounded by `MaxFaults`.

Each action of the client is the code between two points where it can block or
where the outcome of a call decides: `SendNewFrame` is `fread()` and
`sendNewFrame()` up to `select()`; `SelectReady` and `SelectTimeout` end that
`select()`; `RecvAck` is the blocking `recv()` with everything that follows
(the comparison `ack == LAR + 1` is one of `int`s); `Resend` and `WaitReady`
are the retransmission and the `select()` whose timeout is the time of day.
`newSend` is kept although nothing reads it.

`Receive` is one turn of the server's loop. The window test
`seq < LAF && seq >= LFR % 255` keeps its arithmetic, with `SeqMod` for 256.
`ServerInit` is `main()` up to the loop with `initializeState()`, whose `LFR = -1`
a `u_char` holds as the largest number. `cliLen` is uninitialised in the code; the
model starts it in each of the three classes of values `recvfrom()` tells apart.

A piece of the file is its number, and whether stale bytes follow its end
(`padded`). `fwrite()` is modelled as reaching the output; the buffer behind it,
which is flushed only by an `fclose()` after an endless loop, is not.

### FileServer

`spc` is the place in the server: before its loop, while nothing listens and
nobody can connect (`"start"`; it may also fail there and exit); in `select()`, before `accept()`, in the
loop over the slots, in a loop of `sendList()` calls, or in a blocking
`send()` of a reply. `readfds` is what `select()` returned and is deliberately
not updated within a round. Each command is one action up to its first
`send()`; each `send()` is an action of its own, since it may block, and others act meanwhile.

A frame is in `toSrv` from its first byte on. `select()` may report it before the rest
is there, and `recv(..., MAXBUFSIZE, MSG_WAITALL)` (server.c:234) then waits for
the rest in the middle of the scan. In the model that wait is a delay of the step
`Receive`: the server has not made it yet, nobody else is served meanwhile, and the
fairness of the server assumes that the rest of a frame arrives. A client that dies
in the middle of a frame is not modelled.

TCP is external: per client two queues of frames with `SockBuf` places and the
state `conn` of the connection as the server's kernel has it. `send()` appends,
or, when the client has closed, provokes a reset; one error is returned
(`ECONNRESET`) and from the second on there is SIGPIPE (`"broken"`).
What was sent to a client before the server closed is delivered before the end of the
connection; a reset that overtakes and discards it is left out, as no property is
about what a client reads of a server that is gone.

A list of files is a set; `ListFails` is the null pointer that `strtok()` returns
for a slot without files and `strcat()` is called with. Addresses are left out:
the reply to `get` names the client whose address it bears.

Clients are the environment: `Connect` and `ConnectFails` are what `main()` does
before its loop, `SendName` and `FirstFileList` as the main thread
does them, `Command` for the user thread and the alarm, `ClientReceive` for the
receiving loop, `Leave` for exit or death. client.c has the `send()` of its exit
command commented out, so `SayExit` is switched by `SendsExit`.

SIGALRM repeats the announcement. The kernel may deliver it to either thread:
to the user thread, where it is one more `SendFiles`, or, with `AlarmInMain`, to
the main thread, which then receives nothing between `AlarmRings` and
`AlarmSends`, the blocking `send()` of the handler.

`Directory` is what all this amounts to for someone who asks for files: clients
join, say what they offer, are asked for a file they offer at that moment, and
leave; who joins offers nothing. The mapping reads a client's offers off the slot
its descriptor leads to, and its questions off the frames on their way to it and
the replies still to be sent. Between `close()` and the next `accept()` on the
same descriptor nothing may be left that could be taken for the newcomer's.

### PeerTransfer

Per client one process with its inbox of coordinator frames and the three globals
the threads share; per client two `sendFile()` threads (`SenderSlotsSuffice`
shows that a third never starts) and one `getFile()` thread per get command. `pc`
of a thread is the blocking call, or the place between two accesses to shared
state, that it is at: the flag is cleared (`ClearFlag`) before the sockets are
closed (`CloseSockets`), as in the code. `getCommand()` hands `getFile()` a
pointer to an array on its own stack; the next call builds its frame in the same
place, so the thread finds the address of the last `ip` frame: `ipaddress` is
that array. `dlfile`, the name to write under, is overwritten by the next `get` the user
types. `SO_REUSEADDR` lets two clients of a machine `bind()`; one `listen()`
succeeds. A get that finds the client busy is dropped without a word.

A system call that may fail has one failing outcome per place. The two `fopen()` calls
are unchecked: a shared file that is gone (`MissingFile`) and a name that cannot be written
(`CannotWrite`) end the process with all its threads, ports and connections. `recv()` in
`getFile()` has no `MSG_WAITALL`: with `PiecesPerFrame` above 1 it may return any
part of a frame. `calm` records whether every get so far was typed while nothing
was under way.

### PutTransfer

Both programs check what they are started with, but only complain when an
address is none or a socket missing: such a server hears nothing (`"deaf"`), such a
client sends where nobody listens (`"lost"`). A line typed goes through
`trimwhitespace()`, which strips leading blanks but no trailing ones and, for a line of
blanks, leaves in the buffer what was there (`Trimmed`). A datagram is what its first bytes make of it. In `command` mode the server takes
`put`, `ls`, `exit` or anything else; in `put` mode everything is written, from
whatever client, until a datagram begins with `e`. Data that begins so ends the
transfer early and the rest is taken for commands (`InBand`).

The consent goes out before `fopen()`, whose result nobody looks at. `ConsentInVain` is
the call that fails: the server is in its inner loop with a null pointer (`"null"`),
and the next datagram, written or taken for the end marker, kills it (`Crash`,
`"crashed"`), with what was in its socket. `ListKills` is the same for `popen()` and
`pclose()`. `Doomed` names both states. `SendChunk` sends 1024 bytes whatever `fread()`
returned, and `Write` writes as many: the last chunk of a file whose length is no
multiple of 1024 (`ShortFiles`) is `padded` with stale bytes on the wire and on the disk.

`clean` records that no datagram was lost, no chunk began so and nobody spoke during another
client's put: what the properties promise, they promise for these runs, and
the model contains the others.

### RentalStore

A day in steps of the loops: `NewDay`, `IndexStep` and `IterateStep` for the two
loops of `returnDueRentals()`, `Draw`, `RentStep`, `EndOfDay`. A for-each over a list
that was changed is Java's: `hasNext()` compares the position with the size, and `next()`
throws after a change. `IterateDone` is a step of its own because a removal of the last
but one element ends the loop without an exception. The generators in the
behaviors are made with a fixed seed at each call, so that a customer always asks for the
same (`Request`); those of the population are not, so the draw is arbitrary. The
store's test for three videos compares a counter nobody updates and is left out,
as the module's header says.

## 3. Runs

| run | instance | shows |
|---|---|---|
| `srp_faults` | 5 pieces, 4 numbers, 2 UDP faults, any loss | output is a prefix, the write limit, dead acknowledgements, at most 3 datagrams in flight, refinement of the pipe, and the inductive invariant (`FlightInv`) |
| `srp_live` | 4 pieces, 5 numbers, any loss, no UDP fault, fair | a lossless transfer completes; the first timeout repairs what was lost before it |
| `srp_single_loss` | 3 pieces, 8 numbers, fair | violated: one loss stops the transfer |
| `server_turnover` | 3 clients, 2 slots (692k states) | reuse of slots and descriptors, a client turned away; the bits `select()` left in `readfds` stay true through the round; lists are current; the inductive invariant (`ListInv`); the directory is implemented |
| `server_live` | 2 clients, exit frames, alarm, one-frame buffers, fair (97k) | frames are served, leavers removed, the server's death ends all, unless a client hangs in its alarm |
| `server_commands` | 2 clients | violated: a `list` with an empty slot kills the server |
| `server_departures` | 2 clients | violated: SIGPIPE kills the server |
| `peer_safe` | 3 clients on 2 machines, 2 files, 2 gets (440k) | one transfer per client, the port follows the threads, two thread slots suffice, gets that do not overlap are right |
| `peer_live` | 2 clients on one machine, 2 pieces per frame, 2 gets, fair (67k) | every transfer thread ends |
| `peer_routing` | as `peer_safe` | violated: overlapping gets are written under each other's names |
| `put` | 2 clients, 3 commands, 1 loss, one of two files short, fair (728k) | clean puts hold every chunk once and in order, but for the file the server died over; clean answers match; clean commands return unless the server stopped or died; the inductive invariant (`PutInv`) |
| `rental` | 8 videos, 4 customers, 10 days, every draw (164k) | the books agree, what is due goes back, no exception, the last customer never rents, the inventory is implemented |

Bounds. Sequence numbers: what can go wrong with them goes wrong when a counter
wraps, so a file longer than `SeqMod` matters and the size of `SeqMod` does not;
5 pieces over 4 numbers wrap every counter. Faults: two, so that a duplicate can
itself be overtaken. Slots: two are enough for one to be freed and reused while
the other is being served, and a third client makes reuse and refusal happen. `SockBuf` is
2, so that frames can queue; in `server_live` it is 1, which is enough for server
and client to block each other and makes every second frame wait. `MaxSends` bounds what each
client sends after its announcement: one frame, so three in all, and
two for one client of `server_live`, which can then ring twice or type and ring.
Transfers: two gets by the same or by different clients, three clients of which
two share a machine, are what it takes for a port, a name or an address to be
used by the wrong one; a third get repeats that. Puts: two clients and three
commands let one speak during the other's put and leave one command to
read a stale answer. Rentals: ten days are longer than the longest rental
(seven), so that every customer can have rentals of each age and returns begin
while others go on; eight videos are fewer than the four customers can hold.

Deadlock is not checked in any run: all these systems rightly come to rest (a
server in `select()` or `recvfrom()`, all clients gone, every get ended, the last
day over).

Fairness. `Srp`: weak fairness of each program; they are processes, and
`select()` timers expire. Nothing is assumed of the network: a property that
needs datagrams to survive says so in its premise. `FileServer`: weak fairness
of the server, which includes that the rest of a frame follows its first bytes, and of each client's own loop (announce, receive, send from the
alarm, notice that the server is gone). Users type or leave when they like, and
alarms ring or not. `PeerTransfer`: weak fairness of each transfer thread, whose
`select()` calls have timeouts; none of the main thread, the users or the coordinator. `PutTransfer`: weak
fairness of both programs between two prompts; none of the users.

The pa4 README grants "a very very small chance that the client will get hung up
in the sigalarm". `HungInAlarm` says when: the handler runs in the main thread
with the connection to the server full, while the server is in a `send()` to that
client with the connection to it full. Then neither moves again, and nobody else is
served. `FramesAreServed` and `LeaversAreRemoved` hold up to this state: it is
the only way in which the server's blocking `send()` blocks for good. They say nothing of
a client that never falls silent: `MaxSends` bounds what each one says.

What `clean` excludes is not caught but excluded: `CleanPutsAreWhole`,
`CleanAnswersAreNotStale` and `CleanCommandsReturn` say that a lost datagram, a chunk that begins
with the end marker and a command during another's put are, with the unchecked
pointers, all that can go wrong with a put. The failing runs are in the model; `PROJECT.json` notes it
at the hazards.

## 4. Proofs

All theorems hold for every value of the constants that satisfies the named
assumptions (`SeqModAssumption`, `LossAssumption`, `FaultsAssumption`,
`FileAssumption`; `NamesAssumption`, `NoClientAssumption`, `SlotsAssumption`,
`BufferAssumption`, `SendsAssumption`, `SwitchesAssumption`; `HostsAssumption`,
`SharesAssumption`, `ThreadAssumption`, `BoundsAssumption`; `ChunksAssumption`, `ShortAssumption` and
the `BoundsAssumption` of `PutTransfer`; `SizesAssumption`, `RequestAssumption`). They say that bounds are numbers, that functions are defined
where they are applied and that markers differ from what they are not.

`SrpProofs`. `InOrder` alone is not inductive: that the next frame to be written
carries the right piece depends on what is in flight, and that on no number
having been used twice. `IInv` adds: the client's counters are functions of
`nread`, and it stops before `nread` exceeds `SeqMod`; every frame in flight
bears a number below `nread` and the piece of that number; the server's
counters are functions of `Len(written)`. From it follow `OutputIsPrefix`,
`OutputIsLimited`, `AcksAreDead`, `RetransmissionIsOfFrameZero` and, step by step,
the refinement `TransferIsPipe`. `FlightIsBounded` counts: `FlightInv` gives for each
place of the client how many datagrams it accounts for (the frame it waits for, the
second copy of frame 0, the acknowledgement that `WaitReady` leaves in the
socket), the faults coming on top. It is three at the place where the bound is tight,
after `select()` has announced an acknowledgement and before it is read.

`FileServerProofs`. That a slot speaks for its client (`SlotHoldsOwnData`), that a
`get` reaches a client which announced the file (`GetReachesAnnouncer`) and that what
`select()` reported is still so when the scan comes to it (`ReadyBitsStayTrue`) depend on each other's
surroundings, so one inductive invariant, `ServerInv`, carries them all:

* `Descriptors`: slots and descriptors correspond one to one
  (`SocketsMatchSlots`); a client is reached through one descriptor at most and is
  not also in the backlog (`OnePlacePerClient`); who has not connected is nowhere
  (`StartedNowhere`, without which `connect()` could put a client there twice);
* `Program`: what each place in the loop goes with: `accept()` has something to
  take and `readfds` holds sockets of valid slots only, so that the descriptor
  it hands out is not among them; replies are pending exactly in `"send"`, on
  open descriptors, since nothing is closed while any is pending;
* `Contents`: frames in flight bear their sender's name and files, slots repeat
  them, pending and sent requests name files of the slot they were found in;
* `ReadyBitsStayTrue` itself: a handler closes or empties only the connection it
  came over and the loop moves past it; other peers differ by `Descriptors`.

Each part has one lemma for the server's steps and one for the clients'
(`ServerDescriptors`, `ClientDescriptors`, ...); `ServerInvKept` puts them together,
and `ServerTypeCorrect`, `SocketsAlwaysMatch`, `SlotsHoldOwnData`,
`GetsReachAnnouncers` and `ReadyBitsHold` follow.

`ListProofs` proves `ListsStayCurrent`: for clients that do not say exit, as those of
client.c, every client whose files are listed was sent the current list whenever the
server is between two rounds. In a round it is not: while the list is pushed, only the
slots already passed know it (`Pushed`); an answer to `list` waits in `todo`
while its receiver's socket is full, and must not be overtaken by a change (`TodoCurrent`); and a
name, which is stored without a push, must have arrived before the first file is, or the
row would change unannounced (`NamesComeFirst`). `ListInv` joins these with `ServerInv`.
With exit frames the property fails, as `exit` clears a slot without a push: the premise
`~SendsExit` is the code's, where that `send()` is commented out.

`DirectoryProofs` shows that every step of the server and its clients is one of
`Directory` or changes nothing of it (`CoordinatorIsDirectory`). The mapping goes
from slots to clients, so each step needs `Descriptors`: a client sits in one
slot, so that filling, changing or freeing a slot joins, changes or
removes one member. A question leaves a client's slot (`HandleGet`), waits in
`todo`, and travels; that none waits when a descriptor is closed is part of
`Program`, so that freeing a descriptor loses no question and reusing one
finds none.

`PeerTransferProofs`. `OneTransferPerClient` holds although the flag is tested
outside the mutex, because only the main thread tests and sets it and every
thread clears it at most once before its sockets are closed: while a thread is
before that point the flag is its own. `PortsMatchListeners` follows the port
through all exits. With `TypeOK` and `Named` (a thread's file, and `dlfile` from the
first get on, are names of files) they are inductive: `PeerInv`. `SlotsSuffice` follows:
with the flag down all threads of a client are past it, hold the same port, and
so are one at most.

`CalmDownloads` is about what gets leave behind. `CalmInv` adds to `PeerInv`:
`Connections`, that a getter connects once, is queued once and is served by one
thread; `InTurn`, that where frames arrive whole a getter receives a size and then
data, each once; and `About(f)`, that in a calm system every `get` frame, sender, piece under
way and the `dlfile` of everyone who is to receive is the one file `f`. A get typed when
all is quiet makes everything be about its file, and no step of a thread, an exit or a
failure brings another one in. TLC checked `CalmInv` on the instances of `peer_safe` and
`peer_live` before.

`PutTransferProofs`. In a clean run the server tells data from commands by order alone,
so the invariant describes the queue in its socket. `Between` puts it holds commands,
each of a client that still waits for its answer, none behind a put. During a put it holds
the next chunks of the file: all that were sent so far, while the client still has some
to send (`Coming`), or all that remain, then the end marker, then commands (`Ended`).
With one answer at most per client (`AnswersAwaited`), one putting client (`OnePutter`) and
the disk a prefix of what it should become (`DiskFollows`) this is inductive, up to the
moment when a null pointer gets the server (`Doomed`): from then on nothing is said of
the queue, but the files stay as they are, and only the one it died over may lack its end.
`PaddingIsLast` holds in every run: of what is expected of a file, only last chunks of a
short one are padded. Together they are `PutInv`.
`CleanPutsArrive` and `AnswersStayFresh` follow; `PutTypeCorrect` holds in every run.

`RentalStoreProofs`. That the books agree (`Books`) is inductive by itself. That the
loops return everything and throw nothing is not: with two rentals due on one
day the first loop would skip one and the second would find it, remove it and
might throw. That cannot be, as a customer's rentals always last equally long and are
made on different days: `Spaced` and `Calendar` count the days left, by the
place in the day, and `RentalInv` joins both with the loop variables. The
refinement `StoreIsInventory` maps each customer to the videos of his active rentals.

`SeqLemmas` holds what several proofs need about sequences.

Only model-checked: the properties under fairness (`LosslessDelivery`,
`FirstFrameRecovers`, `FramesAreServed`, `LeaversAreRemoved`,
`ServerDeathEndsClients`, `GettersEnd`, `SendersEnd`, `CleanCommandsReturn`), as liveness and
`ENABLED` are out of the prover's reach. Every safety property of a passing run, and
every refinement, is proved.

## 5. Disagreements met

Each violated run is a place where the code does not do what a README or a comment
says; `PROJECT.json` quotes the lines. Further ones, without a run:

* PA2: a file of 256 pieces or more is cut off without a loss, as `LAF` wraps
  and the window test does not (`WriteLimit` is the limit, and proved); the client's
  loop may end with frames unacknowledged (line 365); the
  client's window is never consulted (`newSend`, the semaphore); the server
  acknowledges frames it drops; a short last piece is followed by stale bytes; error rate 0
  loses datagrams; the tail of the output stays in a stdio buffer; a second
  client run finds the server in the first one's state.
* pa4, server: a client of the same name as the owner is told that it already owns the
  file; the exit frame is commented out in the client; the alarm may hang both
  sides (section 3).
* pa4, transfers: when `listen()` fails (client.c:490) or the second `send()`
  (606) the flag stays up, and the client serves no file again, against the
  comment at 372; a file that has disappeared kills the client that shares it (552),
  and a download directory that has, the one that gets (785); a
  busy client messages nobody, against README.txt:22.
* PA1: a put under a path the server cannot open kills it after its consent
  (udp_server.c:151), and so does a failing `popen()` (199); each put of a file that
  is no multiple of 1024 bytes leaves stale bytes behind its last chunk
  (udp_client.c:235); data that begins with the end marker ends a transfer; a lost marker leaves the
  server writing commands into the file; one answer too many shifts all later
  ones; a lost answer hangs the client.
* Video store: the limit of three videos is never enforced, as nobody calls
  `incrementRented()` (Customer.java:51, 94); the customer drawn is asked and the customer
  at the loop's position is served (CustomerPopulation.java:56), so that the last
  customer of the list never rents (`LastNeverRents`); the loops of
  `returnDueRentals()` would skip and throw if two rentals were due on one day.

## 6. Not modelled, and the plan

Not modelled, and why:

* logging, lengths of buffers and of formatted text, and the start-up of the PA2
  client: straight-line code, or layout;
* failing system calls of the pa4 server (`accept()`, `select()`), and frames of the
  coordinator's connections that arrive in pieces (client.c:150, server.c:234): the
  model's frames are whole once received. What the code would do with half a frame
  depends on the bytes in it, and a client that sends half of one and no more stops the server;
* files larger than the 24K buffer in `sendFile()`, whose overflow is undefined;
* PA1: data that begins with a whole command line, what the stale bytes behind a last
  chunk are, and a directory whose listing overflows `path` (udp_server.c:194);
* the timeout estimator (`j-k-timeout*.c`): floating-point arithmetic on a fixed table;
* string trimming: characters only;
* `src/5273/asummer_PA3`, `src/5273/pa4/old` and `src/5273/udp/untitled folder`: copies
  of modelled programs, which the modules describe as well;
* prices in the video store; the skeletons, stubs, scripts and certificates listed above.

Left to do: a restart of the PA2 client, which finds the server in the first one's
state; framing on the coordinator's connections.
