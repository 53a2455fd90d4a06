# WIMP in TLA+

Specifications of the core of WIMP, the C library in `src/wimp/src` that lets
processes of one program exchange instructions and share memory, with TLC
models and TLAPS proofs. The code is the reference: every definition is
translated from the lines that `PROJECT.json` ("map") names for it.

## The system

A **process** (an executable or a thread) owns a **server**: a listening
socket, a **process table** of the processes it is connected to, and two
**instruction queues**. For every connected process a **reciever** thread
reads the instructions that process sends and adds them to the incoming queue.
The process's own thread runs a loop that pops the incoming queue, handles what
is for it, moves what is for others to the outgoing queue and sends that queue
to the neighbours. Apart from this, processes may share memory through a table
of named slots.

| part | code | state | operations | made hard by | correct when |
|---|---|---|---|---|---|
| queue locks | `wimp_instruction.c` 10-45 | three mutexes per queue | low and high priority lock and unlock | recievers and the server's thread taking three mutexes in turn | one thread inside, no mutex left locked, the holder of `_nextmutex` is next, callers get in |
| queue list | `wimp_instruction.c` 47-162 | linked nodes, two end pointers | add, add_existing, pop, prepend, node_free, queue_free | pointers updated in several steps, drain to empty, `malloc` failure | FIFO, no dangling pointer, no lost or doubly owned node |
| codec | `wimp_instruction.c` 164-335, `wimp_server.c` 271-315 | none | bundle, get_from_buffer, string packing | byte sizes, terminators | what is packed is unpacked |
| reciever | `wimp_reciever.c` | packet buffer, offset, instruction being built | next_packet, header and data loops, add | TCP cuts the stream anywhere, pings in between, the peer dies, the server is freed | every instruction once, whole and in order; the thread ends |
| handshake | `wimp_reciever.c` 51-184, `wimp_server.c` 17-229 | sockets, accept count, active entries | create, listen, accept, connect, exchange | retries, timeouts, strangers, instructions that arrive with the reply | it ends, both sides agree who is connected, nothing is read with the reply |
| routing and sending | `wimp_server.c` 231-432 | outgoing queue, process table | add, routed, send, ping | several queues and threads on the way, processes that have left | no loops, order kept, delivery |
| leaving | `wimp_server.c` 434-475 | `active`, both queues, table | is_parent_alive, free | crash, exit, closing with work left | children are told, nobody stays behind, no freed memory used |
| wait_response | `wimp_server.c` 323-367 | temporary queue | wait | swaps two queues, mutexes included, under running recievers | order kept, the awaited instruction returned |
| process table, hash table | `wimp_process_table.c`, `utility/HashString.c` | chains per bucket | add, get, remove, iterate | collisions, last bucket | the table is a map |
| shared data | `wimp_data.c`, `utility/simple_arena.c` | table of slots, arenas, caches per process | init, link, reserve, access, alloc, unlink, free | processes linking, unlinking and accessing at once, slots reused | one accessor, same memory for all, every location handed out once |
| library start | `wimp_process.c` 220-252 | reference counter | init, shutdown | threads testing and counting in two steps, a shutdown that overtakes an init | up while somebody uses it, down after the last one |
| processes | `wimp_process.c` 138-216, 254-363 | argument lists | get_entry, free_entry, launch, port choice | `malloc` failure half way, blanks, a port taken meanwhile | arguments arrive, each allocation is freed once |
| log | `wimp_log.c` | a zeroed buffer | format, log | widths worked out by hand, a full buffer | the parent gets what `printf` would print, nothing is written behind the buffer |

The parts meet as follows. Recievers call the queue (shared memory, mutexes);
the server's thread calls the queue and the process table; servers talk to
recievers over TCP; `wimp_server_free` signals recievers through
`server->active` and children through exit instructions; the shared data space
touches none of this.

## Modules

| module | models | built on |
|---|---|---|
| `QueueLock` | the triple mutex, every mutex call one step | - |
| `FifoQueue` | what a queue or a connection promises: put at the back, take from the front | - |
| `InstrQueue` | add, pop and free on the linked list, pointer by pointer, inside the locks | `QueueLock`, implements `FifoQueue` |
| `InstrQueueProofs` | theorems on the locks and on the list | `InstrQueue` |
| `Loopback` | `wimp_server_send_instructions` to the server itself | `InstrQueue` |
| `Reciever` | a peer, the byte stream and the reciever thread | `Header`, implements `FifoQueue` |
| `Header` | the digits of a number in a buffer and their value, as functions | - |
| `HashString` | the hash table, as operators | - |
| `ServerTree` | tables, routing, recievers and leaving in a tree of processes | `HashString` |
| `SharedData` | the shared data space and its arenas | - |
| `Mailbox` | what a wait promises: the first awaited instruction is taken out, the others keep their order | - |
| `WaitResponse` | `wimp_server_wait_response` against recievers, with the identities of mutexes | implements `Mailbox` |
| `Handshake` | a server that creates its socket and accepts, and the recievers that connect | - |
| `LibInit` | `wimp_init` and `wimp_shutdown` on several threads | - |
| `InstrCodec` | bundle, parse and string packs, as operators | `Header` |
| `LogFormat` | `format_string` and the log instruction of a child, as operators | `Header` |
| `Launch` | argument lists, directory and command line, as operators | - |
| `Startup` | what happens before a process does its work: the last five side by side | `Handshake`, `LibInit`, `InstrCodec`, `LogFormat`, `Launch` |
| `RecieverProofs`, `WaitResponseProofs`, `HandshakeProofs`, `SharedDataProofs`, `ServerTreeProofs`, `StartupProofs` | theorems on the module of that name; `ServerTreeProofs` also on `HashString`, `StartupProofs` on the parts of `Startup` other than `Handshake` | that module |
| `InductionLemmas` | induction and recursion over numbers, digits of numbers, flattened sequences | `Header` |
| `MCRecieving`, `MCProcess` | the instances for TLC of `InstrQueue` and `Reciever`, and of `Startup` and `WaitResponse`: each two systems that share no state, of which a behaviour runs one (`part`, `scene`) | `MCProcess`: `MCStartup`, `MCWaitResponse` |
| `MCServerTree`, `MCSharedData`, `MCStartup`, `MCWaitResponse`, `MCLoopback` | the instances of the module of that name | |

A definition introduced by *Slip* is the definition next to it with a mistake
a programmer could have made; `PROJECT.json` ("mutants") says which property
notices it. No next-state relation uses one.

### QueueLock

`owner` is who holds each of `_lowpriomutex`, `_nextmutex`, `_datamutex`; `pc`
is where a thread is in the lock or unlock function. `LowPrioCall` and
`HighPrioCall` enter `wimp_instr_queue_low_prio_lock` and
`..._high_prio_lock`; each `p_mutex_lock` and `p_mutex_unlock` is an action.

### InstrQueue

The heap is a set of nodes with `nextnode` and `instr`; `front` and `back` are
the queue's `nextnode` and `backnode`. Every assignment to a pointer is an
action, between a lock and an unlock of `QueueLock`. `queued` and `handled` are
history: the order of the adds still in the list, and what was popped.
Recievers add, the server's thread drains the queue and frees each node after
it was handled, as the loops in `tests/` do. `AddNoMemory` is a failed
`malloc`.

### Loopback

Adds the thread that executes `wimp_server_send_instructions` with an
instruction to itself: it calls `wimp_instr_queue_add` on the incoming queue
without that queue's mutexes, with a pointer into the outgoing node, and then
frees that node.

### Reciever

The stream is a sequence of cells; a header is `HDR` digits in base `BASE` (4
bytes in the code), a packet buffer `BUF` cells (512). `NextPacket` is
`p_socket_receive`: any part of what has arrived, 0 from a closed peer, -1 after
a reset, and otherwise it blocks. The other actions are the rounds of the
thread's loops. `Events` selects what may happen besides sending: the peer
sends an exit, closes, dies in the middle of an instruction (`truncate`) or
resets, and the server clears `active`. `wimp_reciever_next_packet` sets
`rec_offset` to 0; actions that go on to use a byte of the new packet in the same
step set it accordingly. `loc` is `crashed` where the code would touch memory it must not: a
read behind the packet buffer (`Overrun`), a size smaller than its header, a comparison with NULL.

### HashString and ServerTree

`HashString` translates insertion at the head of a chain, the removal that
passes by the second entry, and the cursor arithmetic of `HASH_STRING_ITER`
with buckets numbered from 0. In `ServerTree` every process has a table of its
parent and children, the two queues, a channel to each neighbour and a reciever
for each. `Send` is one instruction of `wimp_server_send_instructions`, `Recieve` a
reciever's add, `Handle` one instruction of the main loop of
`tests/5_SHARED_DATA_SPACE`, `ParentGone` a failed
`wimp_server_is_parent_alive`, `TellChildren` and `Close` the two halves of
`wimp_server_free`. `mode` is where the process is in all this; `draining` is
the rest of the inner loop after an exit was found.

### SharedData

The table's columns are `share_counter`, `size`, `name` and `data_arena`; the
thread local statics of a process are `linked`, `cache` and `cachemap`.
Functions that work under the table's lock are one action. An access is three:
`Access` up to `p_shm_lock`, `AccessLocked` behind it, and `StopAccess`, with
any number of `Alloc` and `AllocRefused` in between; they use the arena without the table's lock.
A segment carries the number of the reservation that created it, so that
different segments under one name stay apart.

Three failures go unnoticed by the code and are actions of their own.
`LinkToDataUnopened`: the result of `p_shm_new` is not looked at, the process is
counted and has NULL for the segment (`missed` remembers which); its accesses ignore
the lock that they then fail to take (`AccessUnlocked`). `AllocRefused`: a request that
reaches the end of the arena gets 0, the first location; `refused` remembers the
requests that the assertion in front of the test lets pass, because they fit exactly.
`UnlinkFromDataCrashes`: with more than one name in the cache map the removal may
follow NULL (see `HashString`), and the process dies with the table's lock
(`stuck`); from then on nobody gets past the table.

Programs are assumed to do what
`wimp_data.h` asks of them and the tests do: link before access or unlink,
neither in the middle of an access, no reservation of a name that is in the
table, and the master frees the table last. Assertions are assumed to be compiled out (`NDEBUG`): where they are not, a
request that is too large ends the process inside its access. A segment stays until it is
removed by a fresh reservation or by `wimp_data_free`.

### Mailbox and WaitResponse

`incoming` and `tmpqueue` are the two `WimpInstrQueue` structures: a list and the
number of the triple of mutexes its pointers lead to. `ReadPointer` and
`LockMutex` are the two halves of `p_mutex_lock(queue->_m)`: a thread that has
read its pointer waits for that mutex whatever becomes of the queue. `Scan`
is a round of the inner loop, `PutAside` is `wimp_instr_queue_add_existing`,
`JoinAppend` and `JoinSwap` are `append_queue` and `prepend_queue`, and
`FreeTmpQueue` is `wimp_instr_queue_free`. Once two threads are in
the list or a thread waits for a freed mutex (`Undefined`) the model stops:
C promises nothing from there. The contents of the
mailbox are what was put aside followed by the incoming list, which makes every step of the joining a
stutter of `Mailbox`.

### Handshake

`server` and `client` are where the threads are, `backlog` the connections TCP
has taken and nobody has accepted, `con` the connection at hand, `down[c]` what
the server sent to `c` and `c` has not read. A round of the loop of
`wimp_server_process_accept` is `AcceptTimeout`, or `Accept` followed by one of
`RefuseNoHandshake`, `RefuseStranger`, `RefuseNotInTable`, `AcceptProcess`, which
differ in whether they count a round, set the reason for failure and log. `Logged` is
the log instruction to a parent that is already connected, which may reach a
reciever together with the reply; lines that follow each other count as one. Clients in `Foreign` send anything, hang up, say nothing, or
connect again once they were turned down (`ConnectAgain`). `Listen` has the two failures in front of the loop: no memory for
the names, no listening.
`HandshakeInit` lets the program forget a name in the process table.

### LibInit

`InitTest`, `InitCount`, `ShutdownCount` and `ShutdownTest` are the reads and
atomic changes of the reference counter. Nothing in `wimp_shutdown` waits: a process
may shut down while one it has started is on its way through `wimp_init`, as the error paths of
`examples/hello-wimp.c` do. `hasty` remembers that one did, that is, that it shut down without having accepted
(`HasAccepted`) all it started.

### InstrCodec, LogFormat, Launch

Pure functions, checked over one initial state for each input. `InstrCodec` has
offsets where the code has pointers; `FormatString` writes and advances as the code does,
so that a wrong width overwrites or leaves a gap, and remembers whether anything was written behind the buffer (`overrun`); `GetEntry` numbers its allocations and fails
any one of them.

## Runs

| run | instance | shows |
|---|---|---|
| `recieving` | queue: 1 server thread, 2 recievers, 2 heap cells, 2 adds each | `MutualExclusion`, no mutex left locked (`OwnersMatchPlaces`), `NoOvertaking`, callers get in; the list is well formed, nothing dangles or leaks, order of handling, `ImplementsFifo`, every instruction is handled |
| | stream: 2 instructions of 3 or 5 cells, 1 ping, packets of 1 to 5 cells, all events | connection is a `FifoQueue`, no cell lost, damage only at the end, nothing after exit, at most one instruction after the server's signal, delivery, termination |
| `loopback_freed` | 1 server thread, 1 reciever, 3 cells | **violated**: the looped back instruction is freed while queued |
| `reciever_round_size` | sizes 3 and 4, base 4 | **violated**: a size whose lowest byte is 0 is taken for a ping |
| `process` | startup: a parent, a child and a foreign program; 3 threads; inputs of the pure functions | accepting ends and finds whom it says, both sides agree, nothing is lost with the reply, recievers decide; the library is up while used, unless somebody leaves in haste, and down at the end; instructions, packs, log lines, arguments and command lines come out as they went in |
| | waiting: 2 recievers with 2 and 1 instructions, 2 waits | the wait implements `Mailbox`, ends once its instruction is there, and is exclusive up to the first swap |
| `wait_response_swapped` | the same recievers, 1 wait | **violated**: recievers are left with freed mutexes, or share the list |
| `library_overtaken` | the same 3 threads | **violated**: a shutdown overtakes an init, and a process is left without the library |
| `log_overrun` | the same log lines, a buffer of 28 | **violated**: a directive near the end is written behind the buffer |
| `tree` | 4 processes; 2 instructions of work, or of exit to a child | no round trips, send order kept, what an ancestor can reach arrives |
| | the same processes, any of which may quit or crash | children are told to exit, nobody is left behind |
| `leaving_last_bucket` | one child's name in the last bucket | **violated**: it is not told to exit |
| `shared_data` | 2 processes, 2 names, 2 slots, size 3, requests of 1, 2 reservations, 1 segment that is not opened | counter covers links, one segment for all, one accessor, allocations disjoint, access granted |
| `shared_data_reused` | the same, sizes 1 and 3 | **violated**: a reused slot keeps its arena, allocations leave the segment |
| `shared_data_refused` | the same, sizes 1 and 3 | **violated**: a request that fits exactly is refused with a location that is in use |

**Bounds.** Two recievers are needed for contention on `_lowpriomutex` and suffice for
it; two heap cells and four adds reuse every cell, run out of memory and drain
the list to empty in between. In the stream, a size of 5 does not fit into one packet together with
another header, and with packets of any length from 1 every cut inside a header and inside data
occurs; base 4 with two digits makes header digits of zero possible (size 4), as a size of 256
does with bytes. The tree has siblings that share a bucket and a grandchild, the least that has
routes up and down, and through a parent that is not the destination. Two
names on two slots let a slot be reused under another name; of three locations two can be handed out
one by one and the third request fits exactly, which is refused. Sizes 1 and 3, with
which a smaller reservation follows a larger one, are in the two violated runs only.
In `process` the second wait runs on the queue the
first one left behind, with a reciever in any place of its lock function; two names are expected
of three clients, so that a stranger, a timeout or a broken connection costs a
round somebody needs; two attempts to connect tell the first from the last. Behaviours
of startup have one `subject` each, since the five parts share no state. Numbers take
2 digits of base 5, so that sizes use the second digit; the integers
of the log lie on both sides of the powers at which a width changes, and its buffer
of 28 characters is filled by two directives. `MaxAdds`, `MaxSent`, `MaxPings`,
`MaxSends`, `MaxReserves`, `MaxCount`, `MaxMissed` (how often a segment is not opened), `MaxCalls`, `MaxDirectives` and
`MaxArgs` bound what programs do and what fails; the code has no such limits, and no property depends on reaching them.

Where one run has two systems, a behaviour is about one of them: `part` in `recieving` and `scene` in `process` say which, and the
other one stays in an initial state. In `tree` the two scenes are of one system and only limit its programs: in a behaviour they
send to each other, or they quit and crash, but not both, and they send an exit to a child only, as `wimp_server_free`
does. Without these bounds the state space is five times as large. The theorems on the tree have neither.

**Deadlock** is checked in `recieving`, where it says that the queue never comes to a stop (a stream may, so that its part
may also stand still), and in `loopback_freed`. The other systems end: the
processes leave, the table is freed, the waits are over, the
server is gone; and a pure function has no next step.

**Fairness.** A thread that can take a step of code takes it (weak fairness).
The holder of `_nextmutex` gets in with no more than that (`NextHolderGetsIn`); `EveryCallerGetsIn` and
`EveryInstructionHandled` assume mutexes that do not starve a waiter (`StarvationFree`,
strong fairness), which plibsys does not promise and which is therefore the premise of
both properties. `EveryInstructionHandled` also needs the server's thread to come back
to its queue, as every main loop does. The reciever is fair as a whole because
the thread has one next step; it is not assumed to get anything from a peer, but
`EverythingArrives` assumes that TCP delivers what it has taken from a peer that
stays. `AccessGranted` assumes that accesses end and that the segment's semaphore
starves nobody. In `ServerTree` the main loop looks at its parent in every round; programs that poll are
the premise of `NobodyIsLeftBehind`. In a wait the server's thread and the
recievers run when they can; `AwaitedEndsWait` needs no fair mutex because the
server's thread waits for one mutex at a time that recievers hold briefly while they
have instructions left to add. In a handshake the server's thread runs, and each reciever's. Nothing is
assumed of foreign programs. The receive of `wimp_server_process_accept` has no timeout and a stranger costs no round, so
a program that connects and says nothing, or programs that come again and again, keep the server from ending:
`HandshakeEnds` is what holds but for them (`HeldUpByStrangers`). `MCRecieving` and `MCProcess` repeat the fairness of the
systems they are made of, each in its own part.

`PauseSuffices` is the one assumption on time: the 100 ms at the end of
`wimp_server_process_accept` are enough for the accepted recievers to read their
reply. `NoInstructionLost` has it as its premise; without it instructions
are read as part of the handshake and thrown away.

## What is proved

The theorems hold for any number of threads, clients, processes, names, slots, instructions
and sizes. They assume what the modules assume of their constants (`ThreadsAssumption`,
`QueueAssumption`, `WaitAssumption`, `RecieverAssumption`, `HandshakeAssumption`, `LibAssumption`,
`DataAssumption`, `HashAssumption`, `TreeAssumption`, `CodecAssumption`, `LaunchAssumption`, `LogAssumption`): threads are of one kind, `NULL` is no node, a header has room
for every size it is given, the sets of processes and of expected names are finite, and a process's
parent is nearer to the master than the process is, names and texts have no terminator in them, a path has no blank, and an
`int` to be logged is one that can be negated. Every component has one inductive invariant
and a lemma per action; what the theorems state is read off it.

* **Locks** (`InstrQueueProofs`): `LockTypeCorrect`, `OwnersCorrect`, `LockExcludes`, `LowPrioContention`,
  `NobodyOvertakes`. The invariant is `LockInv`:
  types together with `OwnersMatchPlaces`. Exclusion is not inductive alone: a
  thread that takes `_datamutex` excludes others only because the mutex's owner is
  known to be where its place says, so ownership carries the proof and
  exclusion, contention and overtaking are read off it. `OneLowPrioContender` is proved and
  not checked by a run of its own: it follows from `OwnersMatchPlaces`, which is.
* **List** (`InstrQueueProofs`): `QueueTypeCorrect`, `ListCorrect`, `NothingDangles`, `NodesOwned`, and
  `QueueIsFifo`: `QueueSpec` implements `FifoQueue`. The invariant is `QueueInv`:
  `LockInv`; types; the nodes of `queued` are allocated and distinct; each links to the
  next one; `back` is the last of them except between the two writes of an add or
  of a pop; and for each thread what it knows at its step (`AddInv`, `PopInv`).
  Mutual exclusion gives that only one thread is past its first step, so that a step
  disturbs no other thread's knowledge. The
  refinement follows because the list changes for the abstract queue in `AddLinkFront`,
  `AddLinkBack` and `PopAdvance` only. `NodesOwned` adds `NoLeak`: whatever is allocated is in the list or in the
  hands of a thread, and `OneHolder` says of which.
* **Reciever** (`RecieverProofs`): `TypeCorrect`, `DamageIsLast`, `FaultlessPeerIsSafe`, `ExitIsLast`,
  `OneMoreAtMost`, and `InOrder`: the connection implements `FifoQueue`. The invariant is
  `StreamInv`. As long as the stream goes on (`Intact`) there are frames (those sent and, after a death, the
  one begun) such that what is pending, the instruction being built, the rest of the packet and the wire, is cut out
  of them: each cell stands in its frame (`InFrame`), frames come in order and without a gap, with pings
  between them (`Stream`), and the thread is where its place in the first of them says (`Reading`). When a peer has
  died or reset inside a frame the thread runs out of it, and only zeroes are left (`Ended`); this half
  is what bounds the damage. The refinement then says that the instruction added is the first of the
  frames. `HeaderReads` (`InductionLemmas`) is the fact about numbers under it: a header of any length and base gives back the size that was
  written. `NothingLost` (`StreamConserved`) is read off the same invariant: by induction over the length of the stream, a frame or a ping taken off its front at a time, what is pending
  without the pings is the frames on their way. `FaultlessPeerIsSafe` has the premise that no size is a multiple of the base:
  `reciever_round_size` shows what happens otherwise.
  `ExitIsLast` and `OneMoreAtMost` need small invariants of their own: the thread that has read its exit is between
  `parse` and the head of its loop, and after the signal the thread has added nothing or is past its addition.
* **wait_response** (`WaitResponseProofs`): `WaitCorrect`, and `WaitImplementsMailbox`: the call implements
  `Mailbox`, after a swap too, up to the point (`Undefined`) where two threads are in the list or one waits for a freed mutex. The invariant `CallInv` says where the server's thread may be in each
  phase, that an instruction put aside ends no wait, that the two queues have different mutexes until the swap and (`GuardInv`)
  that as long as the first ones are in use each is relied on by one thread. The refinement does not rest on `GuardInv`: it needs
  that each list operation is one step, which the model, stopping at `Undefined`, gives: of what the code does beyond
  that point nothing is proved, and `wait_response_swapped` shows that it is reached.
* **Handshake** (`HandshakeProofs`): `HandshakeTypeCorrect`, `HandshakeInvariant`, `SidesAgree`, `PauseIsEnough`. `HandshakeInv`
  has a client in one place only, the backlog, at hand, turned down (`UnclosedInv`) or in the table (`LineInv`), `accepted_count` as the number of
  entries (`TableInv`), and what a client may find in its stream, given where it is and where the server has
  it (`ClientInv`, `DownInv`, `PauseInv`). `BothSidesAgree` is the case of a server that is done.
* **Library** (`StartupProofs`): `LibTypeCorrect`, `LibraryCorrect`. In `LibInv` the counter is the number of processes between init and
  shutdown, which is all that the end of the library needs: the last one who leaves finds it zero. That it is up while in use
  holds as long as nobody is `hasty`. Then what makes the pair of test and count safe is `Awaited`: a process on its way in
  has been started by one that is in and
  stays in until it has counted, or it is the first of all. `library_overtaken` is what happens without that. `StartupTypeCorrect` (`StartupTypeOK`) joins the types of the library and of the handshake.
* **Pure functions** (`StartupProofs`): their inputs do not change, so the invariant says what they are, and the rest is a statement on functions, for
  inputs of any length.
  `CodecCorrect` (`UnpackedAsPacked`): an instruction is cut into parts (`Parts`), each lies in the buffer at its offset (`Lies`), and the parser that stands at a part
  finds it and the offset of the next. Its search for a terminator is a least element and its numbers are `HeaderReads`; the same holds for the strings of a pack, which
  `FlattenConcat` cuts at any of them.
  `ArgumentsCorrect` (`ArgumentsArrive`): whichever allocation fails, what is freed is what was allocated before it, once (`EntryIsFreedOnce`), and nothing stays allocated
  but, after `wimp_free_entry`, the array of the arguments, of which the property says nothing: the code forgets it (see below), and one that frees it is as good; and the command line is put together from
  pieces, the executable and each argument with a blank behind it but for the last, one behind the other (`PiecesLie`, `PiecesAt`). Words begin where pieces begin,
  and since their places rise the n-th word is the n-th piece (`CountRising`, `WordsAreFound`).
  `LogCorrect` (`LogArrives`): a number reaches m times the k-th power of the base when m is left of it without its k lowest digits (`Reaches`), so the powers that
  `get_char_width_*` counts are the digits `sprintf` prints (`CountIs`), up to the top one, which 32 bits cut (`TopDigits`). Then, directive by directive, the
  buffer holds what has been printed and zeroes behind it (`WriteHolds`, `BufferIs`). When what is printed is shorter than the buffer, nothing is written behind it either;
  when it is not, `log_overrun` shows that the code goes on writing.
* **Shared data** (`SharedDataProofs`): `DataInvariant`, `DataTypeCorrect`, `CounterCorrect`, `OneSegmentShared`, `AllocationsNeverOverlap`, `InBoundsWhereArenasFit`.
  `DataInv` adds to what the runs check: a slot in use is the only one of its name and that name has a segment (`SlotsInv`); nothing is cached
  after unlinking (`CachesInv`); an access inside has the lock of its segment, and alone (`AccessInv`);
  the arena's pointer has passed all that was handed out, in the table or in the copy of the one access that
  is inside (`ArenaInv`). The last is why allocations from private copies do not overlap. `AllocationsNeverOverlap` is about the requests that are
  granted, and holds until a process works without the segment it failed to open and so without its lock (`missed`); what a refused request is given
  is the finding `shared_data_refused`. `InBoundsWhereArenasFit` is the other half of the finding
  `shared_data_reused`: in behaviours in which no slot comes into use with an arena of another size left in it (`Fits`), the arena, in the table and
  in the hands of an access, is as large as the segment (`BoundsInv`), and nothing handed out leaves it.
* **Hash table and tree** (`ServerTreeProofs`): `ServerInvariant`, `RoutedOnce`, `SentOrderKept`, `ChildrenTold`. The first part has a
  lemma per operation of the table: which names it has after `AddIs`, `FilledIs`, `RemoveIs`, and what the iterator points to
  (`ScanIs`, `NextIs`). In `ServerInv` a table holds all children and only neighbours, each once and in its own bucket, and an instruction is
  *climbing*: the places it has been at are no nearer to the master than where it is, until it takes the one
  step down to its destination. So it never comes back (`RoutedOnce`). For `SentOrderKept`, `OrderInv` looks at all queues, channels and histories at once (`Lines`). Two
  instructions of one sender to one destination take the same way (`Fits`: each step is `Toward` the destination, which the tables
  cannot change), so places on it have a `Rank`, and at a time there is one place per rank (`OnePlace`): what is further on,
  or in front of the other in the same place, was sent earlier (`Ordered`). For `ChildrenTold`, `ToldInv` says that the names the loop of
  `wimp_server_free` has behind it have been told, and that what was told stays so: the exit moves from the queue to the
  channel to the child's queue, and the child leaves its loop on it. Its premise `NoChildInLastBucket`
  excludes the children that the finding `leaving_last_bucket` shows forgotten.

Recursive functions (headers, tables filled one by one, flattened sequences, powers, a buffer filled directive by directive) are reasoned about with `InductionLemmas`: induction over
a set of numbers and the existence of a function defined by recursion on `0..N`, stated about sets and functions instead of operators and
derived from the well-foundedness of the natural numbers.

The proofs changed the models in a few places. `HeaderRead` of `Reciever` was a `CASE` whose guards overlapped, so that its value was not determined; it is now
a disjunction. `Init` of `ServerTree` fills its tables with `Filled`, and `TreeAssumption` says that the tree is finite and has no cycles, which
the code's way of starting processes gives and the instances always had. `Header` has the digits that `Reciever`, `InstrCodec` and `LogFormat` had each on their own.
`CodecAssumption`, `LaunchAssumption` and `LogAssumption` say what the sets of inputs always were: strings of C without a terminator, sizes that a header holds, ints
that `format_string` does not overflow on. `FormatString` and the powers of its widths are recursive functions, one directive and one power at a time as in the code; `Joined` is a flattened
sequence, and the words the shell finds are defined by where they start. `Startup` is apart from its instance, so that theorems can be stated about it.

Model-checked only: the liveness properties (`EveryInstructionHandled`, `CallersGetIn`, `EverythingArrives`, `StopsWhenAbandoned`, `AwaitedEndsWait`, `AccessGranted`,
`HandshakeEnds`, `InstructionsArrive`, `NobodyIsLeftBehind`), since fairness and ENABLED are beyond the prover; and the eight findings, which are counterexamples. Every
invariant, action property and refinement of the passing runs is a theorem.

## What the code does otherwise than it says

`loopback_freed`, `reciever_round_size`, `wait_response_swapped`, `leaving_last_bucket`,
`shared_data_reused`, `shared_data_refused`, `library_overtaken` and `log_overrun` are findings of `PROJECT.json`. Met
on the way and not the subject of a run:

* A reciever whose peer died inside an instruction gets 0 bytes forever in the data loop
  (`wimp_reciever.c` 321) and never looks at `active` again, though 243 says that it stops
  when the server does and `wimp_server.c` 448 sleeps to let it. `StopsWhenAbandoned` names the exception (`CutOff`).
* The instruction a reciever is in the middle of when its server is freed is still added, to
  a queue that has been freed (`AtMostOneMore` counts it).
* `wimp_server_wait_response` ignores its timeout, which `wimp_server.h` documents, polls without a pause, and swallows the exit instruction
  that ends it: the main loop does not see it.
* The receive in `wimp_server_process_accept` (135) has no timeout, though 121 says "Ensures won't
  block for too long", and a connection from a stranger takes its round back (168) as often as one comes: `HandshakeEnds` excepts both
  (`HeldUpByStrangers`). Connections that are turned down are neither answered nor closed, so that their recievers
  wait as long as the server lives; `HandshakeEnds` excepts these recievers too.
* A program that connects twice under one name would be counted twice
  (`HandshakeAssumption` has distinct names, as the starting functions give them).
* `wimp_create_server` logs its failure by way of the local server it has not filled in, and leaves
  that set; a reciever whose handshake fails reports an `err` that nothing has set.
* Two last processes may both call `p_libsys_shutdown` (`ShutdownTest`).
* Empty names shift every later part of an instruction, since the parser searches from the second byte of a name.
* `format_string` is off for `%d` of the smallest int and `%u` from 2^31, writes `%X` in lower case, and
  prints the `.2` of its own notation `%f.2` twice instead of reading a precision.
* `wimp_free_entry`, of which `wimp_process.h` 126 says "Frees the entry arguments", frees the arguments and the
  entry but not the array between them (`wimp_process.c` 315-324): it leaks once for every process started as an executable. The failing paths of
  `wimp_get_entry` do free it. `EntryFreedOnce` demands neither.
* Arguments with blanks, or empty ones, do not arrive at an executable as they were given.
* `wimp_data_unlink_from_data` calls `HashString_remove` (`wimp_data.c` 307) with the table's lock held since 294. A process
  with several names in its cache map may die there (`UnlinkFromDataCrashes`), and nobody gets past the table any more; `AccessGranted`
  excepts that.
* `wimp_data_link_to_data` does not look at the result of `p_shm_new` (264-278). A process that failed has NULL in its cache and is
  counted as linked; the lock it then fails to take (353) is not looked at either.
* A reset in the middle of an instruction makes the thread fill it up with the zeroes
  of the buffer and queue it (`wimp_reciever.c` 326: -1 compared as unsigned).
  `DamagedAtEndOnly` bounds the damage, and properties about intact delivery are stated for
  `PeerFaultless`.
* The loopback also races with recievers (`wimp_server.c` 394); `LinkedNodesReachable` of
  `Loopback` is false.
* `HashString_remove` passes by the second entry of a chain and follows NULL at its end.
  `ServerTree` crashes the process there.
* Routing looks for a destination upwards only: a process's instruction to a grandchild is dropped by the master,
  though README.md 19 of the repository says that instructions to destinations without a
  direct connection can be routed. `InstructionsArrive` says `WithinReach`.
* On POSIX systems the creator of a plibsys segment removes its name when it closes it; a creator that
  unlinks first would leave the others with a segment that later processes do not find. The
  library's source is not part of the repository, so `SharedData` keeps the segment.

## Not modelled, and the plan

Next, in this order:

1. Proofs. Exclusion in `WaitResponse` after a swap as far as it goes.
2. `wimp_server_free` against several recievers, with the memory it frees. `Reciever` has the
   signal to one of them, `ServerTree` what is sent.

Assumed of TCP, the shell, `sprintf` and plibsys: what the external definitions say.

Left out:

* `wimp_instr_get_instruction_count`, which nothing calls; the text of a port number; `CreateProcess`
  and the rest of the Windows branches of `wimp_process.c`.
* Connections that are neither parent nor child in `ServerTree`: no program of the repository has one.
* The retry of a send that fails (`wimp_server.c` 423): -1 is added to an unsigned count, so the loop
  ends when the sum has wrapped around, with the instruction dropped as `ServerTree` drops it.
* A failed `malloc` of the instruction in `wimp_reciever.c`, which nothing checks, and a failed `wimp_instr_queue_add` there, whose
  result is ignored (the instruction is gone); failures of `access` and `readlink` in the search for an executable; in `wimp_data.c` the failures of
  `wimp_data_init` and `wimp_data_link_to_process`, and of the allocation of a segment's name. The link inside
  `wimp_data_free` is assumed to succeed.
* A crash inside an access of the shared data, for which the code has no recovery; a reservation under a name in use.
* The master's log, which is a call of `vprintf`; `sds`, a vendored string library; macros, examples
  other than the main loops, and generated documentation.
