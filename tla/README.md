# Specifications of the Linux system programming exercises

The repository is a course in Linux system programming in C: some eighty small
programs, from `open` and `fork` to a thread pool. There is no documentation but
the (Chinese) comments in the code; where this text says "a comment says", it
means those. The parts below are the ones with state and with behaviour that is
hard to test: threads, processes and sockets that share something.

## Inventory

| part | state | operations | interacts through | hard about it |
|---|---|---|---|---|
| thread pool `013threadPoll` | ring of tasks, thread slots, counters, one mutex, two conditions | create, add, worker loop, adjust, destroy | shared memory under the mutex, `shutdown` without it | lost wakeups, growth and shrinking, destruction under load, reused slots |
| echo servers `012_network_IO/01select`, `02poll`, `03epoll` | table of connected descriptors, the kernel's descriptor table | accept, read, echo, close | stream sockets, readiness events | descriptor numbers reused, events that went stale, table full |
| forking server `011network/03TCP_FORK` | children, reaper threads, descriptors | accept, fork, serve, reap | fork, wait | children that do not end, reapers and children, descriptors of both processes |
| producer and consumer `010_thread_sync/04` | linked list, mutex, condition | push, pop | shared memory | signal after unlock, LIFO order |
| semaphore ring `010_thread_sync/05` | ring of 20 numbers, two semaphores | produce, consume | semaphores | slots overwritten or read twice |
| locks `010_thread_sync/01`, `02`, `03`, `06`, `07` | counters under no lock, a mutex, a read-write lock, a process-shared mutex, a file lock | increment, read | shared memory, files | lost updates, destruction while in use |
| signals `007singnal` | masks, pending sets, dispositions | block, catch, show, `pause`, `mysleep` | signals | a signal between unblocking and waiting, handlers that are interrupted, signals pending once |
| pipes and shared mappings `005_process_IPC` | pipe buffers, mapped structures | read, write, map | kernel buffers, shared pages | end of file, non-blocking reads, torn reads |
| datagrams `011network/02UDP`, `012_network_IO/04` | one buffer, ports, group membership | send, receive, answer, join | datagrams | loss, copies, a restarted server, a bind that fails unnoticed |
| local sockets `012_network_IO/05` | the names of the sockets, one connection | bind, listen, connect, accept | names in a directory, local sockets | names that outlive their process, a rival server, error paths |
| sequential server `011network/01TCP` | one connection | accept, echo, close | stream sockets | short reads |
| processes `004_process`, `008process_Relation` | process table, sessions, descriptors | fork, wait, setsid, daemon | wait, adoption by init, the terminal | who ends first, zombies, a terminal that is closed |
| threads `009_thread` | thread states | create, join, detach, cancel, exit | pthread calls | joining twice, cancelling a loop without cancellation points, a `main` that ends first |
| files `002_file`, `003_fileSystem`, libraries `001_so`, shell `006shell` | - | system call demonstrations | - | nothing concurrent |

What makes them correct:

* pool: tasks are handed out once, in order, while there is room; nobody sleeps
  while there is something to do; args live as long as their task; the number
  of threads stays in its range; destruction ends, and after the last user;
* servers: table, watched set and kernel agree; no read blocks the loop; only
  connections whose client has ended are ended, and all of those; whoever
  connects is served as soon as descriptors allow; children are waited for;
* locks, list, ring: one at a time inside, no update, node or slot lost, no
  wakeup missed, everyone finishes;
* datagrams and names: a client prints a whole answer, to its own question or to
  that of a client which had its port before, or waits because a datagram was
  lost; who fails for a name fails for a rival;
* processes and threads: what ends is waited for by its parent or by init; a
  thread is joined once and ends before its process;
* sleep, pipes, mappings: no signal is waited for in vain and nothing is left
  armed; the end of a pipe is seen when and only when the writers are gone; a
  reader of a mapped record knows what mixture of bytes it may meet.

How the parts depend on each other: hardly at all. Each program stands alone;
the clients of the TCP servers are one program copied five times, and the
counting programs of `010_thread_sync` are variations of one loop. The modules
follow that: one base module for what is copied, one module per program.

## Modules

| module | models | extends or instantiates |
|---|---|---|
| `ThreadPool` | `013threadPoll/threadpool.c` | refines `TaskQueue` |
| `TaskQueue` | what the pool and the semaphore ring promise: a bounded FIFO queue, each task handed out at most once, until it is closed | |
| `EchoNet` | the clients (`client.c` of `01select`, `02poll`, `03epoll`, and the TCP ones) and the kernel's stream sockets as the servers use them | |
| `EchoTable` | the servers' array `client[]` and `maxi`, against the kernel's table | `EchoNet` |
| `SelectServer`, `PollServer`, `EpollServer` | the three `server.c` | `EchoTable` |
| `SequentialServer`, `ForkServer`, `LocalServer` | `011network/01TCP`, `03TCP_FORK`, `012_network_IO/05unix_socket_domain` | `EchoNet`; the forking server serves a connection itself when `fork` fails, by the sequential server's step; the local server accepts as the sequential one does |
| `CriticalSections` | load, store and lock around a shared number | |
| `SharedCounter`, `ReadWriteLock`, `ProcessMutex`, `FileLock` | `010_thread_sync/01` and `02`, `03`, `06`, `07` | `CriticalSections` |
| `ProducerConsumer` | `010_thread_sync/04` | |
| `SemaphoreRing` | `010_thread_sync/05` | refines `TaskQueue` |
| `PoolCreate` | `threadpool_create` when its calls fail, `threadpool_free` | |
| `ThreadLives` | the thread of `009_thread/02`, `03`, `04`, `06` and the `main` that starts it | |
| `ProcessFamily` | parent and child of `004_process/07*.c`, `008process_Relation/02session.c`, `03daemon.c` | |
| `MySleep` | `mysleep` of `007singnal/08sigsuspend.c` | |
| `SignalCatch` | `007singnal/03sigprocmask.c`, `04SIG*_sigaction.c`, `05signal.c`, `08pause.c` | |
| `Datagrams` | `011network/02UDP` | |
| `Multicast` | `012_network_IO/04udp_broadcast` | |
| `LocalNames` | `serv_listen`, `serv_accept`, `cli_conn` of `012_network_IO/05unix_socket_domain` | |
| `PipePair` | `005_process_IPC/01pipe.c`, `01pipe_nonblock.c`, `03fifo_*.c` | |
| `SharedRecord` | `005_process_IPC/07mmap_IPC`, `08mmap_process` | |
| `MCEcho`, `MCStreams`, `MCSync`, `MCIpc` | nothing: they put programs of a kind into one run, chosen by the variable `kind` at the start | the modules above |
| `QueueLemmas` | lemmas: indices of a ring, the sequence in it, sequences without repetitions | |
| `ThreadPoolProofs` | theorems about the pool and its queue | `ThreadPool`, `QueueLemmas` |
| `EchoProofs` | theorems about the three echo servers | `MCEcho`, `QueueLemmas` |
| `ForkServerProofs` | theorems about the forking, sequential and local servers | `MCStreams`, `QueueLemmas` |
| `CounterProofs`, `ProducerConsumerProofs` | theorems about the counting programs, with lemmas on sums over finite sets, and about the list | `SharedCounter`, `ReadWriteLock`, `ProcessMutex`, `FileLock`; `ProducerConsumer` |
| `SyncProofs` | theorems about the ring and about the composition `MCSync` | `MCSync`, instances of the two before |
| `IpcProofs` | theorems about the composition `MCIpc`, with lemmas on names and their lengths | `MCIpc`, `QueueLemmas` |

Comments of the form *(if ...)* stand over alternative forms of the next
definition: what a mistake at that place would make of it. They are not part
of the model; `PROJECT.json` lists them as mutants, each of which some property
refutes.

### The thread pool

State. `slot`, `front`, `rear`, `size` are `task_queue[].args` and the three
queue fields; `alive`, `busy`, `waitExit` the three counters; `lock`, `waitNE`,
`waitNF` the mutex and the two wait sets; `pc` and `task` say where each worker
is and what it runs; `cpc`, `cur`, `seen` the same for callers of
`threadpool_add` and `threadpool_destroy`; `apc`, `aq`, `aa`, `sig` are
`adjust_thread` and its local copies. `freed`, `begun`, `next` are history. A
task is identified with its `args`; the function pointer is always stored and
copied with it.

Atomicity. What is done with `pool->lock` held is one step, because everything
else that touches those fields takes the lock too. Four places are finer,
because the code lets something in:

* a worker between the test of its loop and `pthread_cond_wait`
  (`threadpool.c:159-161`): `threadpool_destroy` sets `shutdown` and broadcasts
  without the lock, so `WIdle` and `WWait` are two steps, with `lock = w`
  between them;
* a client that finds the pool shut down unlocks and goes on
  (`threadpool.c:122-140`): `AddLateStore`, `AddLateAdvance`, `AddLateUnlock`,
  whose increments may start from stale values. Its second unlock may release the
  mutex of a worker that has just been woken, which goes on without it (`AtLoop`);
* `adjust_thread` decides on samples (`threadpool.c:210-216`): `ASample`, then
  `AGrow` or `ANoGrow`, then `ABusy` and `AShrink`;
* its signals and the counter `pthread_busy_num`, which has a lock of its own.

The bounds of `adjust_thread`'s growth are in the code 3 tasks of slack and 10
threads at a time; here they are `GrowSlack` and `BatchThreads`.
`pthread_kill(tid, 0)` on a thread that has ended and was not joined may say
either, and only the first `tid` of the array is zeroed: `Vacancies` is any set
of slots without a live thread.

`pthread_create` may fail there: the slot stays empty and the thread is counted
all the same, in the local copy (`Filled`, `AGrow`).

`PoolCreate` is the beginning and the end: every allocation, initialisation and
thread creation of `threadpool_create` may fail. `misused` collects what is then
freed, destroyed or joined without having been set: `threadpool_free` looks at
`task_queue` and at the locks when `threads` could not be allocated, and
`pthread_create` (98) is not checked, so that `threadpool_destroy` joins threads
that are not there. `CleanUpFrees` says that nothing is left allocated and
bounds what can be misused.

Outside the model: a pool that goes on with fewer threads than it counts;
`threadpool_get_all_pthread_num` and `threadpool_get_busy_pthread_num` (they
read one field each).
After `threadpool_free` no step touches the pool; what a thread left behind
would read is undefined.

### Echo servers

A stream is a count of pieces: a line is `LinePieces` of them, and a read may
return any number of those that arrived. `peer` is the other end as the
server's kernel sees it: `open`; `fin` after an orderly close; `rst` when the
client closed with unread input; `broken` when the next write raises SIGPIPE
(after a reset has been reported, or after data was sent to a client that had
closed). `fdt` maps the server's descriptors to connections, lowest first, as
the kernel gives them out. `accept` fails when `NumFds` are in use.

Every pass over the ready descriptors is one step per descriptor, and clients
move between any two. After a failed `accept` the select server calls
`FD_SET(-1)` (`01select/server.c:71`), which is undefined; on the usual machines it
sets the bit of descriptor 63, and the model takes it as without effect. `SelectServer` keeps `rset` and `nready` from the call to
select to the end of the scan; `PollServer` starts with arbitrary `revents`,
for the array is an uninitialised local variable; `EpollServer` keeps the batch
of events in `events` and their running number in `i`, because the code uses
that number as an index of its table (`03epoll/server.c:114`).

The ways a server ends are in `pc`: `full` (the table is full and the program
exits; for epoll also a failed accept), `failed` (a read error it takes for
fatal), `killed` (SIGPIPE). Promises about connections are made while it runs.

Outside the model: failures of `socket`, `bind`, `listen`; the contents of
lines (the upper case is a function of one read and does not change what is
sent when).

### Forking and sequential servers

`child` is what has become of the child of each connection, `reapers` the
number of threads in `wait(NULL)`. A connection stays in `fdt` until parent and
child have both closed it. `Reap` may return any child that has ended, as
`wait` does. `fork` may fail, `pthread_create` does not. A child writes after each
read, at the end of the input too, where it writes nothing: if the connection was
reset in the meantime, that write kills it (`ChildWrites`). Nothing else ends it.

`LocalServer` is the same kind of loop over a local socket: it accepts once and
ends with its client. There a write to a client that has gone raises SIGPIPE at
once, and a reset is reported by one failed read, which the code lets fall
through to a write of -1 bytes (`server.c:114-126`).

### Sleep, pipes, mappings

`MySleep` has one step per call of `mysleep`; `at` names the next one. SIGALRM
is generated by the timer or by somebody else (`02kill.c`), and at any point:
it is handled, or stays pending while it is blocked, or ends the process when
the disposition is the default one. `sigsuspend` lets it through and waits in
one step.

`PipePair` counts who has which end of a pipe open (`readEnd`, `writeEnd`);
whether a read blocks, returns 0 or a write raises SIGPIPE follows from that.
Either process may be killed. A FIFO differs in how it is opened and in that
nobody waits for the reader. The loop of the reader that does not block is
no step: it changes nothing.

In `SharedRecord` nothing keeps the writer and the readers of a record apart. `id`
and `sex` are integers, written and read in one piece. The name is what `sprintf`
makes of "zhang-" and the number of the turn, and the model writes and reads it
byte by byte: `WriterWrites` stores one byte; a reader first looks for the byte that
ends the name (`FindsByte`), then reads again those before it (`CopiesByte`), and
only then prints its line. The value of a byte is the turn in which it was written,
and whether it ends a name follows from that turn's `Length`. So a reader can print
"zhang-1" between "zhang-9" and "zhang-10", and the two passes of `%s` may see
different names. The writer may be killed once, between any two bytes, and started
again; `cut` has the turn it did not finish. It then counts from 0 again, and the
digits its longer names have left behind the shorter ones are found where a name is
being overwritten. A file is told from its name in the directory (`link`), because the
readers of `08mmap_process` unlink it. The reader's check for an empty file does
nothing, see below; access to a mapped file that nobody has extended is a SIGBUS.

### Signals

`SignalCatch` is one process and its signal state: `mask`, the pending set
(a signal is pending once, however often it came), the stack of masks that
running handlers give back (`frames`), and whether it runs, is stopped or was
killed. The kernel's part (`Generate`, `Take`, `Return`) is the same for the
five programs; `Caught`, `SaMask` and the set-up tell them apart. Signals come
from the start, so that one may arrive before the handler is installed. `by` is the
signal that has stopped or killed the process; SIGCONT takes it back.

### Datagrams and names

`Datagrams` has the sets of datagrams on their way. The network loses one,
delivers one twice, or delivers later ones first; the server may be killed
between `recvfrom` and `sendto` and started again; a client that waits may be
interrupted, after which the kernel may give its port to another client, for
whom the answer then is. `readBuf` is the server's buffer with the size it
received: a datagram of the buffer's size makes it write a newline behind it. That
write is undefined behaviour; the model takes the newline to be there or not when
the answer is sent, and nothing else to be hit.

`Multicast` follows who has the port (`ears`) and who has joined (`joined`),
since the two come apart: a second client on a host does not notice that its
`bind` failed, and still makes its host a member of the group. A datagram is under
way to each host for any time (`flying`), may come twice or not at all, and goes to
the sockets that have the port when it arrives (`Arrive`): a client hears lines that
were sent before its own `bind`, if they were still under way. `missed` has those
that were not.

`LocalNames` is about `foo.socket` and the clients' own names. Any number of
servers unlink and bind the name, one after the other or mixed; a client may be
killed between its `bind` and its `connect`, and leaves its name there. The
server unlinks the client's name after accepting it.

### Processes and threads

In `ProcessFamily` the child is running, a zombie, or gone; `ppid` changes to
init when the parent ends. Either may be killed at any time and the terminal may
be closed. For the daemon, `fds` are its three standard descriptors: it closes 0,
relies on `open` to return that number for `/dev/null`, and duplicates it to 1
and 2.

In `ThreadLives` a thread is running, ended (and can be joined) or gone. The
second `pthread_join` of `03pthread_detach.c` fails, and the loop of
`04pthread_testcancel.c` ends through `pthread_testcancel` only. A `main` that
returns ends the process and whatever threads run; `main` of
`06pthread_attr_init.c` leaves by `pthread_exit`, and the process ends with its
last thread.

### Locks, list and ring

A thread is `out`, or inside before its load, its store, or its unlock. The
lock is the set of `holders`. `ProcessMutex` adds what the child does at its
end: it destroys the mutex although the parent may be using it, after which a
lock may let anyone pass. `FileLock` adds a kill at any time. In
`ProducerConsumer` the consumer holds the mutex between its test and its wait;
the producer signals without it. In `SemaphoreRing` nothing but the two
semaphores keeps the two threads apart.

## Runs

Every run explores all its reachable states.

| run | checks | shows |
|---|---|---|
| `PoolGrow` | `TypeOK`, `IInv`, `NoSleepOverBacklog`, `PendingArgsIntact`, `AtLeastMinThreads`, `ImplementsTaskQueue` | with 1 to 3 workers, two slots, four tasks and one client that then destroys: growth, with threads that cannot be created, shrinking, spurious wakeups; the pool is a bounded FIFO queue until shutdown |
| `PoolFair` | `BlockedClientsSeeFullRing`, `TasksBegin`, `CallsReturn`, `OnlyMissedBroadcastHangs` | with two clients on one slot: wakeups of clients, a destroy under another client's add, which goes on after shutdown and partly without the mutex; tasks begin, calls return, and the join of `threadpool_destroy` hangs for no reason but the missed broadcast of `PoolDestroyHangs` |
| `PoolFreeEarly` | `FreedAfterLastWorker` violated | a grown pool is released under its workers |
| `PoolRunningArgs` | `RunningArgsIntact` violated | args are freed while the task runs |
| `PoolDestroyHangs` | `DestroyReturns` violated | the broadcast is lost and the join does not return |
| `EchoServers` | `TypeOK`, `ReadsDoNotBlock`, `ReportsCounted`, `ServersMatchKernel`, `OthersStayConnected`, `ClientsServed`, `EndedIsClosed` | three clients over two descriptors, so that numbers are reused and accepts fail, and over full tables; for epoll with and without resets |
| `PollAcceptAndData` | `ScanIsForClients` violated | the poll server reads from its listening socket and exits |
| `EpollReset` | `ClosesOnlyEnded` violated | the epoll server closes a connection whose client did not end it |
| `StreamServers` | `StreamTypeOK`, `ReaperForEachChild`, `ConnectionsHeld`, `ChildrenServe`, `ConnectionsMove` | three connections at the forking, the sequential and the local server, with failing forks, resets and children killed by SIGPIPE |
| `ForkChildSpins` | `ChildrenExit` violated | a child whose client has closed in order never exits |
| `ThreadSync` | `MCTypeOK`, `OneInside`, `CountIsRight`, `ListHolds`, `RingSlotsKept`, `LivesInOrder`, `CleanUpFrees`, `ImplementsTaskQueue`, `Finishes` | the seven programs of `010_thread_sync`; threads that are joined twice, cancelled, or outlive `main`; parents and children that end in any order; a pool whose creation fails at any call |
| `IpcPrograms` | `MCTypeOK`, `SleepsCleanly`, `HandlersUndisturbed`, `NothingMeansKilled`, `RecordsHold`, `DatagramsAccounted`, `NamesFound`, `PendingStays`, `Ends` | a sleep with two SIGALRMs from outside leaves no timer, mask or handler and ends; handlers are disturbed by no signal they keep out; a reader of a pipe gets the message unless the writer is killed, and neither hangs; each byte of a name that a reader of the shared record prints was written for a name, not before the fields the reader has taken already, but for what a killed writer left, and readers that find the file with its size do not fault; a datagram's answer is whole, goes to a client that has the port of the one that asked, and comes unless a datagram is lost; a member of a group hears nothing that had passed before its `bind`; local servers and clients fail for a rival's name only |

Some promises are made only where the code keeps them. In `EchoServers` those
about connections leave out the epoll server with resets, whose failure is the
run `EpollReset`; there the table, the set watched and the reads are still
checked as far as they hold. `FreedAfterLastWorker` is stated of a pool that can
grow, where it fails (`PoolFreeEarly`): without growth the workers that are joined
are all there are. `OnlyMissedBroadcastHangs` is the converse of the failure
`PoolDestroyHangs` shows: if at some time between the setting of `shutdown` and the
broadcast no worker is between its test and its wait, `threadpool_destroy` comes to
its end, whatever late adds do to the ring and to the mutex meanwhile.
`PendingArgsIntact` speaks of waiting tasks and holds; `RunningArgsIntact` of
running ones and does not.

In `MCIpc` and `MCEcho` liveness is stated as one leads-to for all processes
together, "if one waits, there will be a time when none does", in place of one
formula for each: no process asks more than a bounded number of times, so the two
say the same, and TLC needs one tableau in place of many. The readers of `MCIpc`'s record are alike and
start in their order (`InOrder`); which of them is which makes no difference to
the writer.

`RingSlotsKept` has the order of the numbers beside the slots. `CountIsRight`
has the sum under each lock, and the bounds between which it stays without one.

Deadlock is not checked: all the programs come to rest, when the clients have
said what they had to say, the bound of a loop is reached or the pool is gone.
What must not stop is stated by the liveness properties.

### Bounds

* Pool: `MaxTasks` 4 over `QueueMax` 2 reuses each slot after a full turn;
  `MaxThreads` 3 over `MinThreads` 1 lets `adjust_thread` grow (it wants
  `alive + 1 < max`), by two threads at once, with `GrowSlack` 0 since a ring
  of two could never hold more than 3 tasks above the threads.
  `BatchThreads` 3 asks more threads to leave than may.
* Echo: two descriptors and three clients make a third accept fail or wait for
  a close, and the number closed first is given out again; a table of three
  entries never fills with two descriptors, the instances `SelectFull`,
  `PollFull` have one client's entry. One line each, of one piece; a reset
  needs a client that quits before it has read its answer.
* Streams: three descriptors, lines of two pieces, since short reads decide how
  often a child goes round.
* Locks: two or four threads, three rounds: enough for the sum without a lock
  to fall to 2. The ring has three slots and seven numbers, the list three
  nodes.
* Threads: a loop of two turns, four joins, one more than `main` needs to meet
  the error twice. Families: one child, three waits. Pool creation: two workers
  and the adjusting thread, so that some of them can be missing.
* Signals: four, enough to interrupt a handler, to have one more pending, and to
  stop and continue the process. Datagrams: two clients, two ports, a buffer of
  one byte with arguments below, at and above it; one copy, one restart; the
  second client can get the first one's port. Multicast: two clients on one host
  or two, two lines. Names: two servers, one of which may take the other's
  name, three clients over a queue of one, so that one has to wait.
* Sleep, pipes, mappings: two SIGALRMs, since one can end a sleep early and the
  second meet the process at any later call. One reader of the record sees five
  turns, of which one may be cut short by a kill; names get longer with the second and
  the third (`Longer`; in the program with the 11th and the 101st), and of their fixed
  beginning, which each turn writes with the same bytes, none is kept (`Fixed` 0).
  That is enough for a torn name, for a second lengthening over a torn one, and for
  left-over digits of a killed writer to be printed in its successor's name. Two
  readers see two turns (`TurnsForAll`): they matter to each other by what they do to
  the file's name, at the start. There are as many files as two readers and a writer
  can have open. The runs start without a file: one that an earlier run left is
  there after the kill. In `07mmap_IPC` nobody unlinks, so one reader will do.

### Fairness

* Pool: every worker, client and the adjusting thread goes on when it can (weak
  fairness), and gets the mutex if it is free again and again (strong
  fairness). Pthreads do not promise the latter; it is justified here because
  nobody keeps asking: the adjusting thread sleeps 10 seconds between two
  rounds, clients come to an end, and a worker that asks is one that has just
  finished a task or was woken. A task's function returns, as `process` in
  `main.c` does. No client has to call anything, and no spurious wakeup occurs.
* Echo servers: the one thread goes on when the call it is in can return.
  Clients may stop at any point, also with an answer unread; so
  `ClientsServed` promises an accept up to "or no descriptor is free", and
  nothing depends on a client's next line.
* Streams: parent, the waiting threads together, and each child go on when they
  can.
* Sleep and pipes: processes go on when they can and a timer that runs down
  does so; nobody has to send a signal or be killed.
* Signals: the process takes what it can take (`SignalsHandled` holds unless it
  is stopped or killed). Datagrams: the server and the clients that have
  something to receive go on; the network may lose anything, and nobody has to
  start a server again, which is why `Answered` ends in "or the server is down".
  Names: each server and client goes on, and a client comes to the end of its
  input.
* Families and threads: `wait`, the end of the parent and the child's steps
  happen when they can (the child of 07child.c, which prints for ever, is
  promised no end); both threads of `ThreadLives` go on. Nobody has to be
  killed, nor the terminal closed.
* Synchronisation: each thread goes on when it can. Weak fairness is enough,
  since rounds are bounded and so each lock is in the end free.

## Findings

Each has a run with `expect: violation` that quotes the comment; see
`findings` in `PROJECT.json`.

1. `threadpool_destroy` joins the first `pthread_min_num` threads and releases
   the pool under the others (`threadpool.c:265`).
2. `threadpool_add` frees the args of a task that may be running
   (`threadpool.c:128`).
3. `threadpool_destroy` can hang: the broadcast is not under the mutex
   (`threadpool.c:259`).
4. The poll server treats the report for its listening socket as a client's
   (`02poll/server.c:78`).
5. The epoll server closes the wrong connection after a reset
   (`03epoll/server.c:114`).
6. The forking server's children never leave their loop
   (`03TCP_FORK/src/01server.c:53`).

### Comments the code does not keep

These are plain from one place of the code, and no run is spent on them. The
models do what the code does.

* `pthread_alive_num` is "the number of live threads" (`threadpool.c:27`), but
  `adjust_thread` counts the threads it starts in its own copy only (227). So
  it is always `MinThreads` while the pool is in use, requests to leave are
  never honoured, and a pool that has grown does not shrink. This is the part
  `FirstThreadsLive` of the invariant.
* `pthread_busy_num` is "the number of busy threads" (28), but is never
  decremented (197).
* `threadpool_add` frees args "not released after the last execution" (126),
  but `task_queue` comes from `malloc` and is not cleared (82): the first round
  frees whatever is there. `Init` has both kinds of memory.
* When there is no memory for `threads`, `threadpool_create` "releases the
  space" (109) by `threadpool_free`, which frees `task_queue` before anything was
  stored in it; when there is none for `task_queue`, it destroys locks that were
  not initialised. `CleanUpFrees` says exactly which.
* After shutdown `threadpool_add` unlocks and goes on with the insertion
  (122-140): `queue_size` may pass `queue_max_size`, and the second unlock may
  release somebody else's lock.
* "Block until the queue has room" (117): nobody wakes a blocked client when
  the pool is destroyed (263).
* `shutdown`: "true means not to destroy the pool" (34); it is the other way
  round. `MIN_WAIT_TASK_NUM` (4) is not used; the code has 3 in its place.
* The select server looks for the end of the input only (`01select/server.c:88`):
  when `read` fails it goes on to write -1 bytes (98).
* The readers of `03thread_sync_lock_rwlock.c` take the write lock under a
  comment "read lock" (25-26).
* In `06thread_process_mutexattr_init.c` the child destroys the shared mutex
  (83) while the parent may still lock it.
* The readers of the shared mappings "make sure the size is not 0"
  (`07mmap_IPC/process_mmap_read.c:15`), but swap two arguments of `lseek`
  (16), which always returns 2. A reader that comes first maps an empty file and
  is killed; in `08mmap_process` it has taken the file's name away as well, so
  that the writer then makes another file.
* "Block SIGALRM first, to prevent the race" (`08sigsuspend.c:19`): it prevents
  the one between `alarm` and `sigsuspend`. The old disposition comes back
  before the old mask (29-30), so that a second SIGALRM that arrives after
  `sigsuspend` ends the process.

## Proofs

TLAPS proves, for every value of the constants that the named assumptions allow,
all the safety invariants and action properties the passing runs check, and both
refinements of `TaskQueue`.
The argument has the same shape everywhere: an inductive invariant, checked by
TLC first; a lemma that the start has it, one lemma or step per action that the
action keeps it, and the property as what follows from it. `PROJECT.json` names
the property each theorem states.

### The pool

| theorem of `ThreadPoolProofs` | statement |
|---|---|
| `TypeCorrect` | `Spec => []TypeOK` |
| `InductiveInvariant` | `Spec => []IInv` |
| `SignalsSuffice` | `Spec => []NoSleepOverBacklog` |
| `BroadcastSuffices` | `Spec => []BlockedClientsSeeFullRing` |
| `KeepsMinThreads` | `Spec => []AtLeastMinThreads` |
| `WaitingArgsKept` | `Spec => []PendingArgsIntact` |
| `PoolIsTaskQueue` | `Spec => ImplementsTaskQueue` |

They hold for all numbers of threads, clients, slots and tasks that
`SizesAssumption` and `ClientsAssumption` allow (at least one thread and one
slot, not more threads at the least than at the most).

The promise that matters is `NoSleepOverBacklog`: while somebody sleeps on
`queue_not_empty`, no more tasks wait than workers are on their way to the
ring. It is not inductive by itself. A worker goes to sleep, so it has to be
known that the ring is still empty then: `LoopUnderLock`, which says that a
worker on its way to `pthread_cond_wait` holds the mutex and has seen an empty
ring. A worker may leave instead of taking its task, so that one fewer is on
its way: `FirstThreadsLive`, by which no request to leave is honoured. A
signalled worker is on its way because it was blocked: `SleepersWait`. And the
ring is not touched without the mutex: `LateAfterShutdown`, which makes
unlocked insertions a matter of after shutdown. `RingConsistent` is there for
the indices: `rear = (front + size) % QueueMax` needs the facts about `%` of
`QueueLemmas`. All of it is promised until shutdown; afterwards only the types
are, and `AfterShutdown` says so once. `HeadingGrows` is the argument common to
all actions that leave `size` alone and take nobody off the way. These parts are
`SyncInv`.

`ArgsKept` is the other half of `IInv`: the args a slot holds beside the ring's
used part were begun or are garbage from `malloc`, and those a caller is about to
store are nobody else's. So what `threadpool_add` frees does not wait.

For the refinement, `Pending`, the contents of the ring read from `front`, is the
queue: `RingSeqAppend` and `RingSeqTail` of `QueueLemmas` say that storing at
`rear` appends and advancing `front` takes the first one. Every step that does
neither leaves `Pending` alone, and shutdown closes the queue.

### The echo servers

| theorem of `EchoProofs` | statement |
|---|---|
| `InvariantHolds` | `FairSpec => []IInv` |
| `CountedReports` | `FairSpec => []ReportsCounted` |
| `ReadsReturn` | `FairSpec => []ReadsDoNotBlock` |
| `TablesAgree` | `FairSpec => []ServersMatchKernel` |
| `OthersKept` | `FairSpec => OthersStayConnected` |
| `TypesKept` | `FairSpec => []TypeOK` |

For any clients, descriptors, lines and pieces, and any table of the select and
epoll servers; the table of the poll server has the four entries of the instance
`Poll`. The invariants are next to the servers, `Select!IInv`, `Poll!IInv`,
`Epoll!IInv` with resets and `Epoll!OrderlyIInv` without. What makes them
inductive: a report that was true stays true until it is handled, for a client
can add input and end its side but never take either back (`Ready` in
`ClientKeeps`); the report for the listening socket is handled first, so that the
descriptor `accept` returns is one that no report left in the scan is about; and
each connection has one descriptor and each descriptor one entry, over all
reuses (`ConnectionsOnce`, `TableMatchesKernel`). For the number of reports in
the select server, entries and descriptors are matched one to one (`EntriesOf`),
so that their sets have the same size. For the poll server the report for entry
0, which nobody clears, is met first and ends the program before a stale one is.

`OthersKept` covers the instances with a full table too. It reduces each step of
each server to `Harmless`: what it closes is nothing, or one connection whose
client has ended it, or everything as the program ends.

`TypesKept` is about all six compositions. `SelectTypes` and `PollTypes` take the
size of the table as a parameter and are shown for both; that `nready` does not
become negative needs a report left wherever one is handled, and the table of a
full server no more than that. Each step of a server does one of four things to
the net (`NetMoves`), and none makes a client's pieces more than it had to send
(`Traffic`). The number of an event stays within the table because it and the
events left are together no more (`EventTaken`).

### The forking server

| theorem of `ForkServerProofs` | statement |
|---|---|
| `InvariantHolds` | `MCSpec => []MCInv` |
| `StreamTypesKept` | `MCSpec => []StreamTypeOK` |
| `ReapersSuffice` | `MCSpec => []ReaperForEachChild` |
| `ConnectionsAreHeld` | `MCSpec => []ConnectionsHeld` |

Here a wait may return any child, so that the count has to be over all of them:
`ReapersCount` relates the waiting threads to the children that are running or
zombies, with the one place, between `fork` and `pthread_create`, where it is one
behind. `ParentHolds`, `OpenBelongs` and `ChildKeepsConnection` say who has which
connection open. `TableAssumption` is that the clients are finitely many and no
more than the descriptors: `accept` does not fail in this model.

The sequential server keeps the same invariant: each of its steps is one of the
parent's without children, or nothing to it (`SequentialStep`). The local server
has `LocalInv`: no descriptor is open while it waits for its client. For the types
the pieces of a client are summed up: those it has still to send, those in the
server's buffer and those on their way back never exceed `MaxLines * LinePieces`
(`Traffic` of `EchoNet`), for no step adds one and what a server reads it writes at
most once.

### List, counters and ring

| theorem | statement | where |
|---|---|---|
| `ListIsKept` | nodes have one owner and are freed once, no consumer sleeps over a list with no signal to come | `ProducerConsumerProofs` |
| `MutexCounts` | with the mutex: exclusion, no stale load, the exact sum | `CounterProofs` |
| `OpenCounts` | without: the sum is between its bounds, for every number of rounds | `CounterProofs` |
| `ProcessesCount` | parent and child, and the early destruction | `CounterProofs` |
| `WritersCount` | the read-write lock, any number of readers and writers | `CounterProofs` |
| `FileLockedOnce` | the file lock under kills | `CounterProofs` |
| `RingInvariant`, `RingKept` | slots and order of the semaphore ring | `SyncProofs` |
| `RingIsTaskQueue` | the ring implements `TaskQueue` | `SyncProofs` |

The list is for any producers and consumers (disjoint, at least one consumer) and
any nodes. The signal comes after the unlock, so between the two there is a node
in the list and nobody awake; the invariant counts such producers as about to
signal (`NoSleepOverNodes`), and `EmptyUntilWait` keeps the
list empty between the consumer's test and its wait, by the mutex.

Under a lock a thread between load and store is the only one inside, so its value
is current (`LoadIsCurrent`). The sum of a set of writers is over a set of any
size; it is shown to grow by one with each store by induction over the subsets of
`Threads` (`NoUpdateLostIsSum`), which asks for `IsFiniteSet(Threads)`. Without a
lock the invariant says of each thread what the number can be at least, from its
own stores and the value the other one carries; 2 at the end is the worst. The
hypotheses `TwoThreads` and `TwoProcesses` are what those programs start.

In the ring the two semaphores count what is free and what is filled, each up to
the post that is still to come (`SlotsAccounted`), and the slots from the
consumer's index on hold consecutive numbers (`NumbersInOrder`). The producer's
index is then `(First + Stored) % RingSize`, and not the consumer's while both are
inside, which is all there is in place of a lock.

### The composition of the thread and process programs

`SyncProofs` carries this over to what `ThreadSync` runs: `SyncInvariant`,
`TypesKept`, `OneIsInside`, `CountsAreRight`, `ListIsHeld`, `RingStaysKept`
(which has the refinement of `TaskQueue` too), `LivesAreInOrder`,
`CleanUpIsComplete`, each `MCSpec => []P` for the property of the run. The
invariant is `KindInv`, that of the program that runs, taken from instances of
`CounterProofs` and `ProducerConsumerProofs` in which `Threads` is `{1, 2}` or all
of them, and the invariants of `ThreadLives` (`LivesInv`), `ProcessFamily`
(`FamilyInv`) and `PoolCreate` (`PoolInv`), which have variables of their own and
hold whichever program runs. `LivesInv` says which joins the thread's state
allows; `FamilyInv` ties the child's parent to whether the first one has ended;
`PoolInv` has, for each call of `threadpool_create` that can fail, what exists at
each place of the clean-up. `SyncAssumption` asks for two threads at least,
finitely many.

### Sleep, signals, datagrams, names, pipes and mappings

| theorem of `IpcProofs` | statement |
|---|---|
| `IpcInvariant` | `MCSpec => []IpcInv` |
| `IpcTypesKept` | `MCSpec => []MCTypeOK` |
| `SleepsAreClean` | `MCSpec => []SleepsCleanly` |
| `EndMeansKilled` | `MCSpec => []NothingMeansKilled` |
| `HandlersRunAlone` | `MCSpec => []HandlersUndisturbed` |
| `PendingIsShown` | `MCSpec => PendingStays`, an action property |
| `DatagramsAreAccounted` | `MCSpec => []DatagramsAccounted` |
| `NamesAreFound` | `MCSpec => []NamesFound` |
| `RecordsAreMixedForwards` | `MCSpec => []RecordsHold` |

`IpcInv` has one part for each program, all kept by the steps of all:

* sleep: handler, mask and timer are those of the place in `mysleep`
  (`SleepPlaces`), and without others' signals the one pending signal is the
  timer's, so that `sigsuspend` finds either it or a timer still to run down;
* pipe: the writer has its end until the message is in, so that an end without
  the message needs a writer that was killed (`PipeInv`);
* signals: each program catches one signal and keeps it out while its handler
  runs, so that there is one frame at most and what interrupts it is none of
  those (`SignalMasks`, `SignalEnds`); what was shown pending is blocked for good
  in `03sigprocmask.c` (`SignalShown`);
* datagrams: everything under way carries the port of the client it is of or was
  sent from (`Underway`), clients that wait have different ports (`OwnPorts`), so
  that an answer that is received by another than its owner is received by one
  whose owner is done, and each waiting client is owed something or its datagram
  was lost (`Owed`);
* multicast: what was not under way any more when a member called `bind` does not
  come later, neither to it nor into its socket's buffer (`GroupInv`);
* names: a client is in one queue once, or with one server (`OnePlace`), and its
  own name exists all that time (`NamesThere`); whoever finds the server's name
  taken finds one that was started after everyone's (`FooStarted`);
* record: in every file a byte that belongs to a name goes with the id and the sex
  around it (`MemInv`, `Fits`), and what the writer has stored in its turn is there
  (`WriteInv`). A reader's line asks the same of the bytes it has printed and of
  those it may still find (`Line`), against the id and sex it has taken. What makes
  this inductive is about lengths: a byte behind the end of a turn's name that
  belongs to a name all the same is of a longer one, so of a later turn or of the
  killed writer (`LongerIsLeft`): what a reader may still find behind a name that
  is being overwritten is left over. Both programs are shown to take steps of one kind
  (`RecordStep`), so the invariant is proved once, for any number of turns and any
  numbers at which names get longer.

`IpcAssumption` has the bounds as natural numbers, 0 and -1 as nobody's names,
and more files than readers: an opener finds a file that nobody has open, as in a
file system it would. `Unlinking` is what makes the instance named there
`08mmap_process`; the other one, `Text`, sets it to FALSE.

### Only model-checked

Liveness: what the specifications promise under fairness (`TasksBegin`,
`CallsReturn`, `OnlyMissedBroadcastHangs`, `ClientsServed`, `EndedIsClosed`, `ChildrenServe`,
`ConnectionsMove`, `Finishes`, `Ends`). TLAPS 1.4.5 does not reason about ENABLED,
and so not about weak or strong fairness.

## Not modelled

`PROJECT.json` lists every part with its status. Not modelled for good:

* files, file system, libraries, debugging exercises, address look-ups, signal
  calls of one line (`06system.c` among them), `exec`, redirection and `fork` in
  straight lines, thread attributes and stack addresses: demonstrations of single
  system calls in one process, without state that outlives the call;
* `05maxThreadNum.c` and `02pipe_buffer_max.c`, which ask for a limit of the
  system;
* failures of the calls that set a program up (`socket`, `bind` and `listen` of
  the TCP servers, `pipe`, `mmap`, most `fork`s): the programs do not look at
  them or exit at once.

Left out so far, of what is modelled:

* a second run of `06thread_process_mutexattr_init.c` over the same file, which
  would initialise a mutex that is in use;
* a pool that goes on although some of its threads could not be created
  (`threadpool.c:98`): `PoolCreate` has the creation and the join only;
* which line the piece of an answer belongs to that a client of an echo server
  prints: `01select/client.c` takes one read for the whole answer (22), so the
  rest is printed after the next line. `EchoNet` counts the pieces only;
* a client that is blocked in `threadpool_add` when the pool is destroyed
  (`threadpool.c:119`): it stays blocked, and `CallsReturn` promises nothing to it.

## Plan

Order of work, the most important behaviour first:

1. Done: the pool, its queue, its inductive invariant and proofs; the echo
   servers; the forking, sequential and local servers; the synchronisation
   programs; sleep, pipes and mappings.
2. Done: failing creation of the pool and of its threads; signal handlers and
   masks; parents, children, sessions and daemons; the calls of `009_thread`;
   datagrams, the multicast group and the names of local sockets; restarts of
   the datagram server and of the writer of the shared record. They are in the
   runs `ThreadSync` and `IpcPrograms`.
3. Done: the inductive invariants of all of these and the theorems of the section
   on proofs, which state every safety property of the passing runs.
4. To do: the poll server's invariant for a table of any size, as `PollTypes` has
   it for the types.
