# TLA+ models of the System V and socket examples

The repository is a collection of C programs for a course on concurrent systems and
programming: processes, signals, pipes, System V IPC and sockets. Each program is
small; what is hard in them is not data but interleaving: two to seven processes that
meet at kernel semaphores, signal handlers that run between any two instructions,
children that end before their parent has counted them, datagrams that get lost. The
models here keep every control point at which another process, a signal or the network
can come in between, and abstract the data.

## 1. The system

### Components, their state and how they interact

| Component (sources) | State | Operations | Interaction |
|---|---|---|---|
| Dining philosophers (`Sysv/DiningPhilosophers{,2,3}.c`) | one semaphore per chopstick, SEM_UNDO adjustments, `alarm_flag` per process | fork, take, eat, give, SIGUSR1, wait, IPC_RMID | parent and NPHIL children through semaphores and signals |
| Bounded buffer (`Sysv/prodconsumer0.c`, `prodconsumer2.c`) | ring in shared memory, semaphores FULL, EMPTY, MUTEX, `in`, `out` | read and put, get and print, wait for zero, SIGTERM, waitpid, IPC_RMID | parent produces, child consumes |
| Variable size pool (`Sysv/ProdConsumer.c`) | work area, `ptrs[]`, `sizes[]`, `last`, semaphores LOCK, NITEMS, FREESPACE | push an item, pop an item, IPC_RMID, SIGINT to the group | one producer, two consumers |
| Sleeping barber (`Sysv/barber-procsV{1,2}.c`) | four semaphores, `allDone`, `pid[]` | customer's and barber's cycle, start and stop by `main()` | customers, barber, main |
| Forking TCP echo servers (`Socket/TCPEchoServer-Fork{,-SIGCHLD}.c`) | `childProcCount`, the kernel's table of children | accept, fork, count, clean up zombies | main, children, handler of SIGCHLD |
| UDP echo (`Socket/UDPEchoClient{,-Timeout}.c`, `UDPEchoServer{,-SIGIO}.c`) | `tries`, the alarm, datagrams on the way and in the socket, a pending SIGIO | send, receive, retry, give up, echo in a loop or in a handler | client, its signal handler, network, server, its signal handler |
| TCP echo (`TCPEchoClient.c`, `HandleTCPClient.c`, `TCPEchoServer{,-ForkN,-Thread,-Select}.c`) | socket buffers, the descriptor set, `running` | connect, send, echo, close; accept, fork, create a thread, select | clients and server processes over TCP |
| Sum and sort servers (`sclient.c`, `sserver*.c`, `sort*.c`) | `running`, `maxspawn`, `temp`, an argument vector | spawn, reap, send, `bubble()`, answer | clients, server, children |
| Semaphore tools, `pv.c` | a semaphore under a fixed key | initialise, P, V, remove | unrelated processes sharing a key |
| Message queue (`msg_send.c`, `msg_recv.c`) | a queue under a fixed key | send, receive, remove | senders, receivers |
| Shared memory examples (`shmexample*.c`) | a segment, two semaphores | write, hand over, print | parent and child |
| Pipes and FIFOs (`Pipe/`) | pipe buffers, who holds which end | write, read, open, close | parent and child, FIFO clients and servers |
| Shells (`Process/shell.c`, `Pipe/FakeShell.c`) | argument vector | parse, fork, exec, wait | shell and its children |
| Process and signal examples (`Process/`, `Signal/`) | process table, pending signals | fork, wait, kill, handle | parent and children |
| Files, lists, trees, sorting, midterms (`File/`, `SamplePrograms/`, `Midterm*/`) | lists, trees, arrays, files | insert, sort, count, copy | none: sequential |
| Raw sockets, sniffer, multicast, broadcast, names (`Socket/`) | none between packets | print packets | none |

`PROJECT.json` lists the same components with every source file and what is modelled of
each; its "hazards" give the line at which each hard behaviour bites.

### What is hard, and what correctness means

* **Philosophers.** A circle of waiting; a crash between two `semop()` calls; SIGUSR1
  before, within or after a blocked `semop()`; removing semaphores still in use.
  Correct: neighbours never eat at once; a chopstick is on the table or with exactly one
  neighbour whatever ends whom; the parent ends.
* **Bounded buffer.** Two processes in one ring; the initial values of the semaphores; a
  child killed at any point; the end, when the parent waits for FULL to be zero.
  Correct: mutual exclusion, no token lost or made, characters come out once, in order.
* **Variable size pool.** Semaphores that count bytes and items of different sizes; the
  stack pointers; the end by removal and SIGINT. Correct: no item overwritten, mixed or
  taken twice, and no process blocked for ever by a large item.
* **Barber.** Four semaphores, each changed by different processes; the last wake-up
  against the news of the end; failed forks. Correct: limits of room and chair, no lost
  wake-up, the barber cuts only when somebody sits there, the program ends.
* **Forking servers.** Merged SIGCHLDs, a handler within `childProcCount++`, children
  faster than their parent. Correct: no zombie out of reach, `waitpid()` never without a
  child.
* **UDP echo.** Late, lost and duplicated answers, an alarm between `alarm()` and
  `recvfrom()`; SIGIOs that merge, or come too early. Correct: as many tries as promised,
  no datagram left in a socket that nobody looks at, and an end.
* **TCP echo.** A client that sends all before it receives any, buffers that fill up in
  both directions, `send()` and `recv()` that pass any part, resets that end a process
  with other connections. Correct: no byte lost or made; exactly the words that cannot
  fit may wait for ever, and exactly the clients behind them.
* **Programs that share a key.** Strangers that set, use and remove the same semaphore or
  queue in any order. Correct: what holds of an instance that is alone; a queue removed
  once; everybody ends who is not waiting for something that can still come.
* **Pipes and FIFOs.** Ends held by processes that do not use them, an end of file that
  does not come, SIGPIPE, clients that share one FIFO. Correct: messages whole and in
  order, a reader that has everything when it ends, SIGPIPE only after a death.
* **Counting children.** Merged SIGCHLDs with one `wait()` each, a loop bound that a
  handler changes, `kill(pid, 0)` on zombies. Correct: counters in line with the children,
  a `wait()` in a handler that never blocks, an end when everybody is gone.
* **Sort service.** Buffers that are not terminated, lengths, a server that dies at any
  point, a client that takes the end of file for an answer. Correct: what is printed is
  what was sent, sorted, in all cases but the named ones.

## 2. Plan

Done, in this order: philosophers (with the abstract table), bounded buffer (with the
abstract queue), sleeping barber, variable size pool (with the abstract pool), forking
servers, UDP echo, TCP echo (with the abstract channel), objects shared by key, pipes and
FIFOs, counting children, the sort service; and the proofs of the safety invariants and
refinements of all of them.

Left, most important first:

1. pure algorithms against reference definitions: `bubbleSort.c`, `SimpleSort.c`,
   `List.c`, `Tree.c`, the unique lines of `Midterm1.c`;
2. the handshake of `shmexample1.c` beside the examples that sleep instead of
   synchronising.

## 3. The models

Programs that are variants of one another share a module. Which of them runs is a
variable (`program`, `drain`, `version`) chosen in `Init` from a constant set and never
changed, so that a run or a theorem covers all the variants at once, and a property may
name the ones it is about.

### DiningPhilosophers, Dining

`pc[p]` is where philosopher `p` is: `start` (until `set_sig_handler()` returns), `loop`
(the test of `alarm_flag`), `take` and `give` (about to call `semop()` number `k[p]` of
the meal). `Grips(p)` is the list of the `semop()` calls of a meal, the only thing in
which the three programs differ. `sem` and `semadj` are the kernel's: the value of each
semaphore and what SEM_UNDO will add at exit. Every way to end (`LoopExit`,
`SemopInterrupted`, `KilledAtStart`, `Crash`) goes through `Exit`, which applies the
adjustments. SIGUSR1 has three effects depending on where it arrives: the default action
before `signal()`, the handler alone, or the handler and EINTR (a blocked `semop()` is
never restarted), after which `error()` exits. The parent is `ForkPhilosopher`,
`SleepEnds`, `KillChild`, `WaitChild`, `RemoveChopsticks`, one action for each turn of its loops.

`Dining` is the abstract table: who holds each chopstick, who eats. `TableSpec` says that
the programs implement it, with the holder of a chopstick read off the adjustments.

### BoundedBuffer, DelayLine, MCBoundedBuffer

One action for each semaphore operation and each access to the ring, for parent (`pcP`)
and child (`pcC`). `InitSem` keeps the test of the code (`semget() > 0` initialises,
`< 0` ends, 0 goes on uninitialised); `GetSeg` the result that `main()` ignores, whose
price `ProducerPut` and `ConsumerGet` pay. `put`, `got` and `printed` are history.
Upper casing is a function on characters, so the output is compared with the input.

`DelayLine` is what both ends see: a FIFO queue that starts *full* of NULs, because
`initsem()` sets FULL to BUFSIZE and EMPTY to 0. `LineSpec` is the refinement.

### SleepingBarber

Customers, barber and `main()` as control points between semaphore operations. `pid[]`
keeps the -1 of a failed fork, which `waitpid()` takes for any child (`WaitAnyone`). The
versions differ in how the barber is stopped: `StopBarberV1` (wake, then SIGUSR1, whose
handler sets the barber's own `allDone`), `StopBarberV2` (shared flag, then wake).

### StackBuffer, ItemPool

Bytes of the work area hold the number of the item they belong to; `ptrs`, `sizes` and
`last` are those of the code, `ptrs` in bytes and `sizes` in ints. The random size is any
size from 1 int to one int less than the area. `removed` is IPC_RMID, after which every
semaphore operation fails with EIDRM. The four statements of a push happen under LOCK and
are one action; `OneInArea` shows that nobody else is there. `ItemPool` is a pool from
which each item is taken once.

### ForkServer

`childOf[c]` is the kernel's view of the child of connection `c`. `LoadCount` and
`StoreCount` are the two halves of `childProcCount++`: the `Makefile` compiles with `-g`
and without optimisation, so the increment of the global is a load, an addition and a
store, and the handler of SIGCHLD may run in between. `handler` says that it does, on top
of `main()`; its mask (`sigfillset`) keeps it from nesting. `sigchld` is one bit, as
signals do not queue. What a child echoes is left out.

### EchoTimeout

Two clients and two servers, in all four combinations. All datagrams of one run carry the
same word, so a direction of the network is the number of datagrams on the way, at most
`InFlight`, and so is the server's socket. `CatchAlarm` is the handler: it adds one to
`tries` and, only if `recvfrom()` is asleep, makes it return EINTR. `missed` is history:
an alarm came between `alarm()` and the sleep in `recvfrom()`. The SIGIO server is `bound`
before it sets FASYNC, `idle` in `UseIdleTime()`, and `handler` or `reply` in
`SIGIOHandler()`, whose mask holds back a SIGIO that comes meanwhile; `sigio` is one bit.
`early` is history: a datagram came before FASYNC, and the handler has not run since.

### EchoStream, EchoChannel, MCEchoStream

TCP keeps bytes in order, so each stage of a connection is the number of bytes that have
passed it: `sent`, `taken` (by the handler's `recv()`), `echoed`, `got`. A direction holds
at most SOCKBUF bytes; `send()` goes on as there is room, `recv()` takes any part of what
is there up to its buffer. `fin` is what the server knows of the client's end: closed,
closed and written to (`late`, which brings a reset), or reset. `HandleTCPClient()` is the
same for all servers; `process` and `servedBy` say who runs it. `DieWithError()` and
SIGPIPE end the process and cut what it serves (`Ends`); in the thread server that is
every connection. `SelectReturns`, `ServePort` and `RoundEnds` are one turn of the loop of
`TCPEchoServer-Select.c`. `EchoChannel` is what a client relies on: a channel of
2 * SOCKBUF + RCVBUFSIZE bytes that gives back what was put in, in order.

### KeyedObject

A semaphore and a queue of like messages are both a counter in the kernel. A key leads to
a *generation* of it: IPC_CREAT makes a new one when the key has none, IPC_RMID ends the
current one, and whoever holds the identifier of an old generation gets EIDRM. Thus the
same operators (`GetOrCreate`, `Find`, `Take`, `Remove`) serve `pv.c`, the message queue
and the three semaphore tools. `zero` keeps the test of `initsem()` (an identifier of 0 is
not initialised), `disturbed` is history: a generation was set while somebody was inside.

### Pipes

The nine programs differ in the order of their system calls and in who holds which end of
which pipe, and in little else. So each process is a sequence of calls (`Pipe3Child ==
<<Close(1, "w"), ReadToEnd(...), Close(1, "r")>>`), and the actions are the kernel's
calls. `held` is the ends each process has open: an end of file is an empty pipe with no
holder of a write end, SIGPIPE a write with no holder of a read end. A write of at most
PIPE_BUF bytes goes in one piece. A byte carries its writer and the number of the message
it belongs to. `open()` of a FIFO waits for its other side and wakes it. The shell is one
script of fourteen calls, two turns of its loop; whether it waits for a command is
`background`, chosen for both commands at the start, and tested by `WaitsFor`, `WaitsAny`
and `GoesOn`. To be used beside `SortService` in the proofs, its specification is called
`PipesSpec`, with `PipesInit`, `PipesNext`, `PipesFairSpec` and `PipesTypeOK`.

### Children, MCForking

Eight programs that fork and wait. `child` is the kernel's table. `Handler` runs between
any two steps of `main()`; `pending` is one bit. In `signal0.c` the loop that forks is
bounded by `processes`, which the handler changes: `Limit`. `peak` is history, for
`maxspawn`. `SpawnCounted` is about the accept loop of `sserverP.c` and `sortserverP.c`.

`MCForking` puts `ForkServer` and `Children` in one model: the first state says which kind
of parent runs, and the other kind never moves. One run then checks both.

### SortService, MCSortService

One client and the child that serves it. Words are sequences of characters, `temp` is an
array that keeps what was in it, `CString` what C sees of it, so that `strncpy()` without
a terminator does what it does. `up` and `down` are the messages on the way. `Compare` is
one turn of the inner loop of `bubble()`. `end` is what the client's kernel knows of the
server: after `fin` its `read()` returns 0, which the client does not test.

## 4. The runs

| Run | Instance | What it shows |
|---|---|---|
| `dp` | 3 philosophers, all three programs, crashes, failing forks | SEM_UNDO in line with the meal and with the table (`CrashRestoresTable`), exclusion, a parent that counts right and removes only what is unused (`ParentReapsAll`), no circle of waiting in the second and third program, refinement of `Dining`; after the signals everybody ends but for one named circle in the first program (`KilledChildrenExit`); with FIFO semaphores nobody starves in the second |
| `pc` | ring of 3, 7 characters, both programs, any result of `semget()`, `shmat()`, `fork()` | exclusion, tokens and no overrun (`RingGuarded`), order, and printed exactly as far as the child has got (`Output`), refinement of `DelayLine`, the end but where a process blocks for want of semaphores or segment (`Termination`) |
| `last_char` | ring of 3, 7 characters, second program, nothing fails | **violated**: the wait for the child "to have consumed all chars" ends one character too early (`AllConsumed`) |
| `barber` | up to 4 customers, 2 chairs, both programs, failing forks | room, chair and wake-ups (`SemaphoresAccounted`); the second cuts only customers; both end but for the named cases (`StopsBarber`); nobody left when the semaphores go |
| `pool` | area of 4 ints of 2 bytes, 4 items of any size, 2 consumers, failing forks | bytes and items accounted for and the stack intact (`WorkAreaIntact`), items whole and taken once (`ItemPool`), the end |
| `forking` | both forking servers, 4 connections, failing forks; 8 programs, 0 to 4 children, failing forks | the servers' count exact in the first (`CountSafe`), never too small in `accept()` in both (`CountNeverShort`), no zombie left by the loop (`CleansAll`); the other parents' counts (`ChildrenCounted`) and end (`ParentsEnd`) |
| `sigchld_dies` | 3 connections, second program | **violated**: the server that should "run forever" dies of `waitpid()` |
| `udp` | 2 clients, 2 servers, 5 tries, 3 datagrams per direction, a server that may stop | `tries` counts the words, exactly MAXTRIES before giving up; the handler of SIGIO leaves nothing behind (`HandlerDrains`); an end but in the named cases |
| `echo` | 2 clients, one of them mortal, 4 servers, words of 0, 1 and 6 bytes, buffers of 2, failing forks and threads | every byte once and in order, a server that closes only what is echoed (`StreamsWhole`), what may end a server process and when a client fails for it (`FailuresExplained`), who may wait for ever (`ServiceEnds`), refinement of `EchoChannel` |
| `keys` | 2 instances of `pv.c` with 2 children of 2 rounds; 4 users of queue or semaphore; an object left over or not; failing forks | the mutex holds and work is finished unless instances meet, and then no more are inside than instances; a queue is removed once (`SharedByKey`); who may wait for ever (`AllEnd`) |
| `pipes` | 9 programs, pipes of 6 bytes, outputs of 0, 5, 9 and 14 bytes, 2 servers and 2 clients of the FIFOs, a mortal parent and child, failing forks | `PipesDeliver`, `PipesEnd` |
| `sort` | 1 to 5 words, each empty, short or longer than the buffer of 3; room for 4 items; a mortal server | `SortServed`, `BothEnd` |

**Bounds.** Three philosophers are the smallest odd table, the hard case for an order by
parity: two neighbours, the last and the first, take their chopsticks the same way round.
The source has five, and the theorems hold for every number. A ring of 3 with 7 characters wraps round
more than twice for either index. Four customers with two chairs fill chair and room and
leave somebody outside. A work area of four ints takes up to four items at once and lets
one item fill nearly all of it; four items make the stack grow, shrink and grow again; two
consumers are those of the code. Four connections let two children end within one
increment while others are being forked and cleaned up. MAXTRIES is that of the source;
three datagrams per direction allow for a late answer, a duplicate and a current one.
A word of 6 bytes is one more than two buffers of 2 and one byte in the handler's hand can
hold, and two words of a client in the same server meet; two clients are the least of whom
one can be behind the other. Two instances of `pv.c` meet in every order of their
`initsem()`, `p()` and `removesem()`; four users make two receivers with two messages.
Pipes of 6 bytes are filled by an output of 14, with 5 read by the reader, and are not by
9. Four children give two pairs whose SIGCHLDs merge. Five words are one more than the
server of the instance has room for.
Runs say `CHECK_DEADLOCK FALSE` because all the programs come to an end, and some of them
block on purpose or by mistake; that nothing stops elsewhere is the liveness properties'
part.

**Fairness.** Each `FairSpec` is weak fairness of each process: one that can take a step
for ever takes it. The kernel's scheduler does that, system calls that can proceed
return, a pending signal is delivered, and a reset on the way arrives, which is weak
fairness of the delivery. Nothing fair is assumed of users, kills, crashes, failing forks, the network, an end of input, who
among several waiters gets a semaphore. One property needs more: `NoStarvation` is an
implication whose premise is strong fairness of each philosopher's `semop()`, which is
what Linux's queue of sleepers gives; with weak fairness alone a philosopher may starve.

**Liveness with exceptions.** These programs have real ways to hang. Their liveness
properties therefore name every way to hang as a state (`CircleOfTheFlagged`,
`Blocked`, `NoBarber`, `WaitsForBarber`, `SleptThrough`, `missed`, `Stuck`, `HeldUp`, `Excused`,
`ZombieForgotten`) and claim an end
in all other cases: what is claimed is that these are all of them.

## 5. The proofs

TLAPS proves the following for all values of the constants that satisfy the named
assumptions of the modules.

**DiningPhilosophersProofs** (`NPHIL >= 2`, any of the three programs, with and without
faults). The inductive invariant is `TypeOK /\ UndoMatchesMeal /\ ChopstickAccounting`,
together with `ParentCounts`. Accounting alone is not inductive: that `Exit` gives back
the right chopsticks, and that `give` makes no adjustment negative, follows from the
adjustments being a function of the control point (`UndoMatchesMeal`). `ParentCounts` is
needed because `ForkPhilosopher` must find its philosopher unborn. From these:

* `Exclusion`: eating is holding both chopsticks (`EatingHoldsBoth`) and a chopstick has
  one holder (`OneHolder`);
* `Cleared`: NPHIL children reaped are all of them, and no adjustment is left;
* `NoCircle`: suppose somebody is blocked and all who hold anything are blocked. Each of
  them has his first chopstick and waits for his second, which is somebody's first. In
  the third program there is no second. In the second, a chopstick is the second of one
  and the first of another only if the former is philosopher 0 (`SecondThenFirst`: odd
  and even alternate except where the circle closes), so everybody who holds one is
  philosopher 0, who would wait for himself;
* `ImplementsTable`: initial states map to an empty table, each step to `PickUp`,
  `PutDown` or a stutter.

**BoundedBufferProofs** (any ring, input and upper-case function). While the semaphores
are not initialised nobody passes one (`Idle`); from `InitSem` on the three semaphores
and the two control points add up (`Balance`). A parent that a failed `shmat()` kills
keeps its tokens, so `Balance` has inequalities at its end. `Guarded`, which is exclusion,
tokens and no overrun at once, follows by arithmetic. With the characters the invariant is
`Flow`: the k-th of them, counted from the NULs of the start, is in slot `k % BUFSIZE`
from its put to its get (`Ring`), and what is printed is what was got but for the one in
hand (`Shown`). A put does not disturb the others because characters less than a lap
apart are in different slots (`Apart`); the provers know little of remainders, so this and
`NextIndex` are derived from quotient and remainder. `InOrder` follows. `Drained` (past
`p0()` FULL is zero, and stays so, because the parent puts nothing more) joins the
invariant for `LastOneOnly`: of what was put at most the character whose token the child
has just taken is left in the ring. With `Queue` read off the ring so does `ImplementsLine`: every step of the two processes
appends, takes the first, or leaves the queue alone.

**SleepingBarberProofs** (any number of customers and chairs, both programs, failing
forks). A customer's step moves one element of the sets that `SeatsAccounted` and
`WakeUpsKept` count (`Counted`), and with the semaphores the sums stay. The end needs
`Attendance`: when `main()` stops the barber it has waited for everybody, so no customer
is there, so by `WakeUpsKept` no wake-up is left for a barber who would cut nobody; and
`Stopping`, which ties flag and signal to where `main()` is. `Accounted`, `CutsCustomers`
and `AllGone` are the three properties.

**StackBufferProofs** (any work area, word size, number of items and set of consumers).
`WorkAreaIntact` counts bytes (those of items on the stack, those an item in some hand will
take or has not given back, FREESPACE) and items, but says little of where the items are,
without which neither a push nor a pop keeps it. `Layout` says that the items lie one after
the other from the first byte on, in the order of the stack, and that the bytes in use are
exactly those below `CurPos`: a push then writes behind all of them and, as FREESPACE is
counted, within the area; a pop takes the last and leaves the rest a stack. `Numbering`
says that an item is there once; `LockAccounted` that LOCK is 0 as long as somebody copies,
so that `last` is not stale when it is used. Bytes are counted as the cardinality of a set
of positions, and those in the hands of processes as one of pairs, since a sum over a set
is a fold, of which the provers know nothing. `Intact` is `WorkAreaIntact`, and
`ImplementsPool` maps a push to `Add`, a pop to `Take`, and every other step to a stutter.

**ForkProofs**, on `ForkServer` (any finite set of connections). `NeverShort` strengthens
`CountNeverShort` with what `main()` has in hand: at `load` one child is not yet counted,
at `store` the count is what the register will make of it. A decrement by the handler
only makes the register too large. With a count never too small `AllCleaned` follows: a
loop that ends with a count of 0 leaves no child, and one that ends with `waitpid()`
returning 0 leaves no zombie. For the first program, in which no handler runs, the same
argument with equality gives `ForkCounts`.

**ForkProofs**, on `Children` (any number of children, all eight programs). `Accounted`: the
children forked so far are waited for, refused, or still there, and add up to `i`. `Points`:
which program may be where. `Counting`: what the counter of the second loop says of the
children. `HandlerFindsZombie` and `SpawnCounted` are inductive with these, and `Counted`
is all of `ChildrenCounted`.

**EchoProofs**, on `EchoTimeout` (any number of tries and of datagrams, all clients and
servers). `AlarmPerTry` with what holds at each control point; at `eintr` no alarm is set,
hence `sends = tries`, and the test of `tries` is a test of the words sent. `Drained` needs
no strengthening beyond the types: the handler leaves only on an empty socket, and whatever
arrives later raises SIGIO again.

**EchoProofs**, on `EchoStream` (any clients, words, processes and buffer sizes, all four
servers). The invariant has a part for each connection, `Bytes` (the order of the four
counts, what each buffer holds, that a handler sends exactly when it has something in hand,
that a connection is closed with everything echoed or cut) and `Serving` (whoever is served
is served by a live process), and one for pairs, `OneEach`: but for the thread server a
process serves one connection at a time. Without it a process that ends could cut a
connection that another action has in hand. `Whole` follows. For `Explained`, `CauseInv`
adds `Causes` (for each connection: an end that is not open is that of a client who is done
or was killed; nobody is served by a dead process; a connection is cut under a client who
is still at it only with the last process) and `ProcessKinds` (which server may be at which
point, and that all but ForkN have one process): a process that ends is then one whose
client was killed, and its other clients, in the thread server, have no process left.
`ImplementsChannel` maps each step to a step of the channel of one client, or to a stutter.

**KeyedObjectProofs** (any number of instances, children, rounds and users; users are no
processes of `pv.c`, `UserAssumption`). Each process makes an object at most once, so the
generations of the model suffice (`Creations`). `Family` ties a child to the generation of
its parent, who does not remove the mutex before it has ended. `MutexHolds` is kept
because a P takes one from the value and adds one to those inside, and a V does the
reverse (`ChildSums`). `OnePerInstance` needs in addition only what `SetVal` does: if it finds
somebody inside, his parent has been through `initsem()` before (`BoundSet`), so the bound grows
by one and the value is 1. `AloneWorks` strengthens `AloneUndisturbed` with where an instance that is alone
may be, and that its mutex is there: an identifier never changes once it is found, so whoever is
alone now has been alone all the time and nobody else can have set or removed the mutex.
`Shared` is all of `SharedByKey`.

**StreamProofs**, on `SortService` (any arguments, any sizes of `temp` and `ptr`, a server
that may be killed at any point). `Upstream` says what is on the way to the server: the count, and then
the words sent that are not in `ptr`. From the last of them on `ptr` is a rearrangement of
the first words sent (`Rearranged`: the exchange of two neighbours composes one more with
it, `Exchanged`). `bubble()` needs no induction over the array, nor anything of `strcmp()`,
not even that it orders words: while `sorted` holds, the pass has exchanged nothing, so the
neighbours it has gone over are in order (`Ordered(ptr, i)`), and a pass that ends so has
gone over all of them. That the passes come to an end does depend on the order, and is part
of `BothEnd`. `Downstream` says that count, words on the way and words printed are what
`ptr` holds, and `Buffer` what is in `temp`: a NUL from the first word on (`Holds`: a word
that arrives is printed as it is), the last word sent while nothing has arrived, which the
client of a server that died of one word prints again, and NULs behind the longest word so
far if there were NULs at the start. `Faulted` and `end = "fin" => Len(sent) <= MAXITEMS`
are for the exceptions: a client with more words than the server has room for never finds
the end of file where it expects the count, because what the server leaves unread resets
the connection. `Served` is all of `SortServed`. The first NUL of a buffer exists because the
order of the naturals is well-founded (`Least`, `Terminated`).

**StreamProofs**, on `Pipes` (all nine programs, any sizes of messages, buffers, pipes and
outputs that respect `PipeSizeAssumption`, any set of processes that may be killed, failing
forks). The sizes are related where the programs rely on it: what is written in one piece
by `Pipe1.c` and `Pipe4.c` fits in PIPE_BUF, and PIPE_BUF in the pipe. The invariant is
`Delivering`:

* `Alive` (theorem `PipesTyped`) is about everybody in every program. `Holding` says that
  what a process has open is a function of its place in its script (`Owned`), or, between
  strangers, one of the ends it may open; `Births` that a child lives when and only when
  its parent is past the call that forks it (a reader of the shell may be missing);
  `Deaths` how a process may have ended where; `InTurn` that nobody has written more than
  his script has told him to so far; `Partial` that only a long `write()` is ever half
  done. What a script says at each place is proved once (`Calls`, `MessageCalls`,
  `FullCalls`), and what follows uses these facts rather than the scripts.
* `InOrder`: in `Pipe1.c`, `Pipe2.c` and `PipeSample.c`, what the reader has got followed
  by what the pipe holds is the messages written so far, in order, and what it has got is
  a whole number of them, one for each `read()` unless somebody was killed. This is what a
  `read()` needs to find either a whole message or none; it holds for the bytes of these
  programs because each message goes in one piece and has the size of a `read()`.
  `WholeMessages` follows.
* `Drained`: in `Pipe3.c`, `Pipe4.c` and `Pipe5.c` a reader past its `read()` has an empty
  pipe into which nobody can write any more; in `PipeWriteBlock.c`, where nobody closes
  anything, the bytes read and those in the pipe are the bytes written, and a reader goes
  on only with all of them. `ReadToTheEnd` follows.
* `SigpipeOnlyWhenGone` is inductive with `Alive`, `Drained` and `Met`: a relative who
  writes holds a pipe whose reader is still before its last `read()`, unless it was killed
  (`FamilySigpipe`); a stranger who writes has met a reader in `open()` (`Met`), who has
  since ended or still holds the end.
* `Waited` and `Foreground` follow the parent of `Pipe2.c` and the shell past their waits;
  who was waited for has ended, and stays so.
* `Answers`: in the FIFOs of `PipeServer2.c` travel only words that clients have said, and
  the garbage of a server that read nothing. `Ready` and `Dialogue` are about a client
  that is alone with a server: the server is past its `open()` only if the client holds its
  end or has ended (`Meeting`), past its `read()` only with a word or without the client
  (`Hearing`), and the client has got its own word, at most once, and not more is on its
  way than the server has written (`Answered`). `OwnAnswer` follows.

`Delivered` is all of `PipesDeliver`.

**Only model-checked:** liveness (`KilledChildrenExit`, `NoStarvation`, `Termination`,
`StopsBarber`, `EndsUnlessMissed`, `ServiceEnds`, `AllEnd`, `PipesEnd`, `ParentsEnd`,
`BothEnd`), which the provers do not handle. Every safety invariant, type invariant and
refinement that a run checks is also proved.

## 6. What the runs found

Two disagreements between a comment of the source and what the program does have runs of
their own.

* `TCPEchoServer-Fork-SIGCHLD.c` says "run forever", but a decrement lost within
  `childProcCount++` leaves the count too large; the handler then calls `waitpid()` with no
  child and the server exits (`sigchld_dies`).
* `prodconsumer2.c` waits for FULL to be zero, "until child has consumed all chars". FULL
  is zero as soon as the child has passed p(FULL) for the last character; the parent goes
  on, kills the child, and the character is never taken (`last_char`). `AtMostOneLeft`,
  which is proved, says that it cannot be more than this one.

The others are named exceptions in properties of passing runs, which show that they are
the only ones:

* `DiningPhilosophers.c` may hang after it has signalled everybody: a SIGUSR1 that comes
  before `semop()` only sets the flag, and philosophers who then wait in a circle never
  test it (`CircleOfTheFlagged`).
* `prodconsumer0.c` and `prodconsumer2.c` set FULL to BUFSIZE and EMPTY to 0: the consumer
  prints BUFSIZE NULs before the producer may put anything (`Stream`, `DelayLine`). A
  character that the child has got and not yet printed when it is killed is lost, too
  (`InHand`). An identifier of 0 is a success of `semget()` for which the semaphores are not
  initialised, here and in `pv.c`.
* `barber-procsV1.c`: if the barber uses up the last wake-up and tests `allDone` before
  SIGUSR1 comes, he sleeps for ever and so does `main()` (`SleptThrough`); and he may cut
  the hair of nobody, since the wake-up comes before the signal. In both barber programs a
  failed fork of a customer makes `main()` wait for the barber before it stops him
  (`WaitsForBarber`), and one of the barber leaves a customer in the chair (`NoBarber`).
* `UDPEchoClient-Timeout.c`: an alarm between `alarm()` and `recvfrom()` is counted and
  lost; nothing wakes the client afterwards (`missed`). `UDPEchoServer-SIGIO.c`: a datagram
  that comes before FASYNC waits for the next one (`early`).
* `TCPEchoClient.c` and every server: a word longer than what the two buffers and one byte
  in the handler's hand can hold blocks both for ever (`Stuck`), and all but the thread
  server keep other clients waiting behind it (`HeldUp`).
* `pv.c`: a second instance under the same key sets the mutex while it is taken, so that
  two processes are inside, though never more than there are instances
  (`disturbed`, `OnePerInstance`), and the first to finish removes it under the other (`Alone`).
* `FakeShell.c`: the shell waits for the reader, which reads once; a command with more to
  say than reader and pipe take never ends, not even by SIGPIPE, since it holds the read end
  itself (`Gushes`). `PipeWriteBlock.c` does not notice a death. Clients of
  `PipeServer2.c` may read each other's answers (`OwnAnswer`).
* `signal0.c` and `signal1.c`: of two children that end close together one is never waited
  for, and the parent never ends (`ZombieForgotten`); in `signal0.c` a child that ends early
  lowers the bound of the loop that forks (`ForkedTooFew`).
* `sortclient.c` prints what it has sent when the server dies, or the last word again, and
  sends what an earlier, longer word has left in `temp`; `sortserverP.c` dies of one word
  alone, and writes past `ptr` with 1024 or more (`SortedAnswer`, `SentAsGiven`).

Smaller ones: the comment "Round Robin index to arrays" in `ProdConsumer.c` describes what
is a stack; a child that ends before `TCPEchoServer-Fork-SIGCHLD.c` has counted it stays a
zombie until another child ends.

## 7. What is not modelled

Of the modelled programs: messages and formatting, IPC calls that fail before anything is
shared (they only end the program), `kill(-1, ...)` on processes outside of the program, and time: timeouts
and sleeps are control points at which anything else may happen first. The abstraction of
each program is stated in the comment at the head of its module.

Whole components:

* the shared memory examples: one parent and one child, a few steps each, in one order;
* the algorithms in `File/`, `SamplePrograms/` and `Midterm1` (lists, trees, sorting, words):
  sequential, planned as operators against reference definitions;
* `sclient.c` and `sserver.c`, which add two numbers once; `SigAction.c` and the signal
  examples other than `signal0.c` and `signal1.c`, which print that a signal was caught;
  the process examples that wait for nobody; the splitting of a line into arguments in the
  shells;
* the raw socket, sniffer, multicast, broadcast and name resolution programs, which keep no
  state between packets; the single system call examples of `File/`; the random matrix of
  `Midterm3`. They have no behaviour for a model to find.

## 8. Running

    tlc -config dp.cfg DiningPhilosophers.tla
    tlc -config pc.cfg MCBoundedBuffer.tla
    tlc -config forking.cfg MCForking.tla
    tlc -config echo.cfg MCEchoStream.tla
    tlapm DiningPhilosophersProofs.tla

`PROJECT.json` maps every definition to the lines it models, and pairs each property of a
passing run with a mutated definition under which that run fails. Mutants stand beside
the definitions they change and are not used by the specifications.
