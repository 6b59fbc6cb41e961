# TLA+ models of sysopyAll

The repository holds ten sets of exercises (`cw01` … `cw10`) in C for a course on
operating systems. Each `cwNN/zadM` is a program, or a few programs that talk to each
other, of its own; nothing is shared between directories except by copying. The
exercise texts (`tresc.txt`, in Polish) say what each program should do. This
directory models the programs in which processes or threads interact, and the libraries
they or their users call. File names below are relative to `src/`.

## 1. Inventory

| component | state | operations | interaction | what is hard |
|---|---|---|---|---|
| `cw07` `my_queue.c` (two copies) | ring buffer of pids in shared memory: `head`, `tail`, `max`, `tab`, the barber's `chair` | `push`, `pop`, `is_empty`, `is_full` | called with the queue semaphore held | wrap-around; empty and full told apart by `head = -1` |
| `cw07/zad2` barber shop, POSIX | the queue, semaphores `/barber`, `/queue`, `/check`, `/wait`, each client's count of cuts | `work`, `take_client_from_queue`, `cut`; `get_cut`, `enter_barber_shop`; SIGINT | semaphores, shared memory, SIGRTMIN | the barber falling asleep against a client looking at him; a signal sent before its `sigsuspend`; SIGINT with a semaphore taken |
| `cw07/zad1` barber shop, System V | the queue, a set of three semaphores | the same | the same | a double post in place of the fourth semaphore; the set removed under blocked clients |
| `cw09/zad1/v1` readers and writers | mutex, condition, counters `checker`, `writing`, `actual_readers`, the array | reader and writer loops, `threads_run`, `clean_memory` | mutex, condition variable, join | exclusion, lost wakeups, writers' preference, teardown with threads running |
| `cw09/zad1/v2` readers and writers | two semaphores, `curr_readers`, start flag | the same | semaphores, a plain flag | first reader in, last one out; who waits holding what |
| `cw08/zad1/v1`–`v3` record search | file offset, mutex, each thread's buffers | `start_routine`, cancellation | mutex, `pthread_cancel` | threads cancelling each other, cancellation with the mutex held, end of file |
| `cw10/zad1` cluster | table of descriptors, its counter, sockets | accept, read, error and end of file; type, pick, write, `check_doubles` | two threads and a table with no lock; TCP | the data race on the table; reuse of descriptors; a client's death at any moment |
| `cw10/zad2` cluster | the same, and names | registers in the read loop | the same | names that are never freed, registrations that pile up |
| `cw06/zad1` message queue server, System V | the common queue, one queue per client, the number of clients | register, request, reply, terminate, SIGINT | one queue for requests and replies, all received with type 0 | who takes whose message; queues removed under those that wait |
| `cw06/zad2` message queue server, POSIX | the server's queue of names, one queue per client | the same | one queue in both directions | the server's own reply read back as a request |
| `cw04/zad2` permission requests | the parent's count and table of children | request, permit, answer | SIGUSR1, SIGUSR2, real-time signals | `pause()` after the signal has come; answers in the middle of a handler |
| `cw04/zad3` counted signals | a counter on each side | send `L` signals three ways, answer, end | standard and real-time signals | standard signals merge; either side may have ended |
| `cw05/zad1` pipelines | two pairs of descriptors, the programs of a line | split, pipe, fork, exec, wait | pipes and inherited descriptors | who holds which end, line after line |
| `cw08/zad2a`, `zad2b` signals at threads | the action of a signal, file offset, mutex | the record search under one signal | `kill`, `pthread_kill`, cancellation | the signal before the handler; cancellation with the mutex held |
| `cw01` address book (five copies of `list.c`) | doubly linked list, search tree | make, add, delete, search, sort, remove | calls only | `prev` after a sort, deletion with two children |
| `cw02/zad1` record file | the file, the file position | generate, sort, shuffle; system calls or library | calls only | seeks between reads; a file that is too short |
| `cw02/zad3` lock menu | the kernel's record locks | lock, unlock, look, read, write | `fcntl` between processes | the look and the act are two calls |
| `cw01` main programs, `cw02/zad2`, `cw03`, `cw04/zad1`, `cw05/zad2` | – | timing, walking directories, batch files, letters, Mandelbrot points | the kernel | little of their own |

`PROJECT.json` lists every component with its status, and the hazards of the code, each
at its line, with the properties that would catch it going wrong, or with a note
where the code does go wrong and a property can only say that nothing else does.

## 2. Modules

| module | models | extends or instantiates |
|---|---|---|
| `MyQueue` | `my_queue.c`: the queue as a record, the C functions as operators | |
| `MyQueueCalls` | any sequence of calls on one queue | `MyQueue`; refines `WaitingRoom` |
| `WaitingRoom` | what a bounded FIFO queue promises | |
| `MyQueueLemmas` | lemmas about the ring and a client's place in it | `MyQueue` |
| `BarberShop` | `cw07/zad2/barber.c` and `clients.c` | `MyQueue`; refines `SleepingBarber` |
| `BarberShopSysV` | `cw07/zad1/barber.c` and `clients.c` | `MyQueue`; refines `SleepingBarber` until the barber quits |
| `SleepingBarber` | the shop of `cw07/tresc.txt` | |
| `BarberShopProofs` | proofs about `BarberShop`, its refinement of `SleepingBarber` among them | `BarberShop`, `MyQueueLemmas` |
| `BarberShopSysVProofs` | proofs about `BarberShopSysV`, its refinement of `SleepingBarber` until the barber quits among them | `BarberShopSysV`, `MyQueueLemmas` |
| `ReadersWritersMonitor` | `cw09/zad1/v1/main.c` | refines `ReadersWriters` |
| `ReadersWritersSem` | `cw09/zad1/v2/main.c` | refines `ReadersWriters` |
| `ReadersWriters` | readers share, a writer is alone | |
| `MCReadersWriters` | both versions for the same threads, and the run of the second | extends `ReadersWritersMonitor`, instantiates `ReadersWritersSem` as `Sem` |
| `ReadersWritersProofs` | proofs about both versions | `MCReadersWriters` |
| `RecordSearch` | `cw08/zad1`, the three versions | |
| `RecordSearchProofs` | proofs about `RecordSearch` | `RecordSearch` |
| `ClusterServer` | `cw10/zad1/server.c` and `inet_client.c` | |
| `ClusterServerProofs` | proofs about `ClusterServer` | `ClusterServer` |
| `MsgQueueSysV` | `cw06/zad1/server.c` and `client.c` | |
| `MsgQueuePosix` | `cw06/zad2/server.c` and `client.c` | |
| `PermissionSignals` | `cw04/zad2/parent.c` and `child.c` | |
| `SignalCounts` | `cw04/zad3/parent.c` and `child.c` | |
| `Pipeline` | `cw05/zad1/pipes.c` | |
| `ThreadSignals` | `cw08/zad2a/main.c`, `cw08/zad2b/main.c` | |
| `MCProcesses` | one run for these six | extends `SignalCounts`, instantiates the others |
| `ProcessProofs` | proofs about `SignalCounts`, `MsgQueuePosix`, `Pipeline` and `MsgQueueSysV` | `MCProcesses` |
| `AddressList`, `AddressTree` | `cw01/zad4/list.c`: list and tree | |
| `RecordSort` | `cw02/zad1/files.c`, `bubbleSort.c` | |
| `FileLocks` | `cw02/zad3/locks.c` | |
| `LibraryParts` | the three of these parts that use no recursive operator, for the run and for the proofs | extends `MyQueueCalls` and `FileLocks`, instantiates `RecordSort` as `Sort` |
| `LibraryProofs` | proofs about `MyQueueCalls`, `FileLocks` and `RecordSort` | `LibraryParts`, `MyQueueLemmas` |
| `MCLibraries` | one run for these four and `MyQueueCalls` | extends `LibraryParts`, instantiates the others |

Common conventions. A step is one call that synchronizes (semaphore, mutex, condition,
signal, read, accept) together with the local work after it; where memory is shared
without a lock, a step is one access. A program counter (`pc`, `cpc`, `bpc`, …) names the
call that comes next. Variables keep the names of the code. Comments that start "Mutant"
mark operators no specification uses: each is a definition with one plausible bug, and
shows that the property it is paired with in `PROJECT.json` can be broken.

### The waiting room

`Push` and `Pop` map a queue record to the one the C function leaves; `Popped`, `IsFull` and
`IsEmpty` are the results. `Contents(q)` is what the ring stands for: the sequence of
waiting pids. Pids are model values; `NoPid` stands for the 0 of fresh memory and the -1
that `my_queue_pop` returns, neither of which is a client.

### The barber shops

One action per semaphore call of `work()`, `take_client_from_queue()`, `cut()`, `get_cut()` and
`enter_barber_shop()`; the functions are in line, because they are called from one place
each. `sem` holds the semaphores' values; `sem_wait` is an action that is disabled at 0.
`sigsuspend` is the only place where SIGRTMIN is not blocked, so a signal sent earlier waits
in `pending`, and real-time signals are counted. The refinement mapping to `SleepingBarber`
takes `waiting` from the ring buffer, and `inChair` and `asleep` from where the barber and
the waking client are: the client that wakes him is in the chair once it has written its
pid there.

In `BarberShop` SIGINT may end a client of `Interruptible`, or the barber if `BarberMayQuit`, at
any step: the handler calls `exit`, which unmaps memory and leaves semaphores as they are.
In `BarberShopSysV` the barber's exit removes the semaphore set, after which every `semop`
fails and its caller ends (`Fail`).

Left out: checks of arguments, output and time stamps, failing calls at start-up, and a
client started without a barber (it fails in `semget` or `sem_open`).

### Readers and writers

`CondWait` gives up the mutex and blocks in one step; `Wakeup` may come without a broadcast
(POSIX allows spurious wakeups); a thread that has been woken takes the mutex again
(`Relock`) before it tests. The contents of the array are not modelled: the properties are
about who is in it. Main's end is: it joins the readers only, frees the array and returns,
and the return ends the process.

### The record search

`version` and `matches` are chosen in `Init` and never change: one run covers the three programs
and every set of records that hold the word. `cancelled` is the set of threads with a
request pending; `Die` acts on it, anywhere in v1 and v3 and at cancellation points in v2 –
`usleep`, `pthread_testcancel`, `read` and the output of `printf`.

### The cluster

A connection is named by its client, messages are counted only. `Accept` is one turn of the
accept loop, `ErrorEvent` and `DataEvent` are what the thread does first with an event that
`epoll_wait` reports, `Read` one `read()`, `ClearSlot` and `Close` the end of a connection.
`check_doubles` is modelled access by access, because it races with `Accept`: the loads of
`arr[i]` and `arr[j]` and the store are three steps. A client may end at any time; one that
ends with data unread resets the connection, a write to one that has gone is answered by a
reset, and a write after a reset raises SIGPIPE.

### The message queue servers

System V: one queue, `queue`, carries registrations, requests, replies and terminations, and
every `msgrcv` on it has type 0, so it is a sequence from which whoever comes first takes the
head. `numbers[q]` are the numbers on the queue a client made for itself; its key comes from
an uninitialised structure, so `Open`, which comes a step after the client has found the
server's queue, chooses between a queue of its own and one that it shares
with others that found the same garbage. `exists` is the set of queues, and `shutdown_server` –
the handler of SIGINT, which the server raises itself after a termination – takes two out.
POSIX: the server opens the queue of the first name it receives and serves it to the end of
its life; `queue[n]` carries both directions. A message is its first character, which is all
the server looks at, and the date it answers a 3 with begins with the month.

### The signals

`PermissionSignals` and `SignalCounts`: a handler is an action, or several where another signal
may come in between; a standard signal is pending once, a real-time signal is counted.
`child_sigusr2_handler` may interrupt the other handler of the child, whose counting and
answering are therefore two steps. `rand()` is unseeded in the child of `cw04/zad2`, so every
child answers with the same signal, SIGRTMIN+7. `ThreadSignals` has the action of one signal
as a variable of the process, which is what it is, and the record search around it at the
grain of a batch.

### The pipelines

A pair of descriptors that the interpreter opens and closes together is a slot; `slot` says
which pipe is there, and `write_pipe` and `read_pipe` keep slots after they have been closed, as
the arrays of the code keep numbers. `child[k]` is what the `k`-th program starts with.

### The libraries

`AddressList` has `next` and `prev` of every node of a heap, and each operation changes the links
the C function changes; `order` remembers what the caller did last, because a delete after a
sort follows stale links. After such a delete, or after `remove_list`, the list is only
followed as far as it is intact. `AddressTree` is the tree as a value with the recursive
functions as they are. `RecordSort` keeps the file position, which `swap_records` restores.
`FileLocks` splits every option that looks first into the look and the act; `since` is a
history variable, the locks that others got on the character in between.

## 3. Runs

| run | checks | bounds |
|---|---|---|
| `barber_shop` | `QueueExclusion`, `DozeNeverBlocks`, `VisitAccounted`, `ImplementsSleepingBarber`, no deadlock | three clients, two chairs, two cuts: one in the chair and two waiting fill the room, a client comes back while others wait, and the ring goes round |
| `barber_shop_sigint` | `IInv`, `CutsClientsOnly`, `OnlyLockHoldersHarm`, `AllServed` | three clients, one chair, one client and the barber may be interrupted |
| `barber_shop_deadlock` | `OthersServed`, violated | two clients, one may be interrupted |
| `barber_shop_sysv` | `ImplementsShopUntilQuit`, `AllServedOrQuit`, `QuitUnblocksClients` | two clients, one chair, two cuts, the barber may quit |
| `monitor` | `CountersExact`, `SomebodyWillBroadcast`, `ImplementsReadersWriters`, `WritersPreferred`, `ReadersFinish` | two readers that read twice, two writers that write once |
| `semaphores` | `OneOwner`, `ReadersDoNotWait`, `SemaphoresImplementReadersWriters`, `SemaphoresReadersFinish` | three readers (first in, last out, and one between), two writers |
| `monitor_write_after_free` | `WritesOnlyTheArray`, violated | one reader, one writer |
| `record_search` | `BatchesAreWhole`, `ReportedOnce`, `Ends` | two threads, batches of two, three records: a batch the end of the file cuts short |
| `search_cancelled_reading` | `NotCancelledWhileReading`, violated | two threads, one record a turn |
| `cluster` | `ForgottenOnlyIfHit`, `StaleOnlyAfterReset`, `GoneAreClosed` | two clients, so that a descriptor is used twice; a table of three; two operations, so that one can be written to a client that was reset |
| `libraries` | `NobodyLost`, `EverybodyFound`, `TreeLosesNobody`, `SortsInPlace`, `LocksHold`, `ImplementsWaitingRoom` | four list nodes: a node between two others and one more to add after a delete; five contacts, with equal surnames and equal names among them: a node with two children whose successor is not its child; files of up to four records, more asked for than there are, three values of the first byte; two users and two characters; two pids and five chairs, the least the barber accepts: every wrap of `head` and `tail` |
| `processes` | `CountsAddUp`, `EndsMeet`, `OneMessage`, `AnsweredOrStopped`, `ParentExits`, `EveryWaitEnds`, `ServerEndEndsClients`, `RunsToTheEnd` | three children of whom two are let through; three signals; three lines of up to four programs, each of which may be blank: every swap is followed by another line; two clients of each server, who may share a queue; three threads, batches of two of three records: one finds the end while others wait |

`libraries` and `processes` put several small modules that share nothing into one run: `Init`
chooses the program, the variables of the others keep one initial state, and the properties of
a module that does not run hold in it or are stated for the program that runs. Deadlock
is not checked in them: every program ends or, where a property says so, leaves somebody
waiting.

The number of chairs is a constant; the code accepts 5 to 1000. The runs of the shops use
one or two, which fill up with few clients; nothing in the shops depends on the number, and
`MyQueue` is checked with five and proved for all.

What the runs show beyond "no error":

* The barber's second `sem_wait` on his own semaphore, made with the queue locked, never
  blocks (`DozeNeverBlocks`), and that is what keeps a client from finding him "awake" when
  he is about to sleep.
* In System V the waker's double post does the same: `BARBER` may stand at 2 while the
  barber has not yet woken, and the mapping to `SleepingBarber` counts him awake from there.
* A client interrupted in the waiting room or in the chair harms nobody: its cut is a signal
  to nobody. One interrupted with `/check` taken blocks all others for ever
  (`barber_shop_deadlock`).
* In v2 of the record search two finders cannot cancel each other in the middle of their
  loops; in v1 they can, and with two threads that is harmless. With three it is not: two
  finders may go before either reaches the third, which then searches for ever.
* In v3 no record is reported twice, but one may not be reported at all: a last batch whose
  last read got nothing is dropped.
* A cluster client drops out of the table only if it is stored in the slot that
  `check_doubles` is just comparing. That happens: two empty slots compare equal, and the
  second is "cleared" after a client has been stored in it.
* System V server: although clients take each other's messages, the messages that are not
  registrations are always at least as many as those who wait for one (`EnoughAnswers` in
  `MsgQueueSysV`), so every wait in the request loop ends. A registration taken by another
  client is never answered, and its sender waits for its number for ever. The server ends
  with requests still queued, and the clients' queues are never removed but for one.
* POSIX server: it serves exactly one client in its life, and stops when it reads the date it
  has just sent as a request and the month's digit is a 0. A client may take its own
  termination back and leave while the server waits for ever.
* `cw04/zad2`: a request after the `K`-th is answered with SIGKILL, though `tresc.txt` asks to
  let it through; a child that is answered before its `pause()` waits for ever; a SIGUSR1 that
  comes before the handler is installed kills the parent.
* `cw04/zad3`: with type 3 the child is sent SIGRTMIN+1 for the end as well, counts it and goes
  on; the parent does not wait for the child.
* `cw05/zad1`: a blank first or last segment leaves a pipe open or uses numbers of closed
  descriptors; `EndsMeet` is about lines that begin and end with a program. The last program
  of a line is not waited for.
* `cw02/zad3`: a read lock is refused to a second reader, because the look is for a write lock;
  a character is written under another's read lock, read under its write lock, and the look
  that allows a write may be as old as the user's typing.
* `cw08/zad2a`: in options 4 and 5 the signal may come before the thread has prepared for it.
* `cw01`: the root of a new tree is not initialised; after `List_sort` `prev` is stale, and a
  delete loses nodes; `remove_list` leaves `head` on freed memory.

### Fairness

Shops: weak fairness of every process, since a process that can run is scheduled, and
strong fairness of the waits on `/queue` and `/check`, which are contended: the kernel wakes
a blocked process on a post, and processes blocked on a semaphore are woken in turn. A
client that is turned away comes back in a loop, so without that the loop could starve the
others in the model. Readers and writers, record search: strong fairness of each thread,
for the same reason (futex waiters are queued). No fairness is assumed of SIGINT, spurious
wakeups, or the programs' input. Message queues and signals (`MCProcesses`): weak
fairness of every process or thread, and strong fairness of a client's `msgrcv` or
`mq_receive`, because the kernel serves those that wait on a queue in order; none of the
user's SIGINT at the server. The libraries have no liveness. Cluster: weak fairness of the
network thread; strong
fairness of reporting each descriptor, since `epoll_wait` moves a reported descriptor to the
end of its ready list. No promise is made to the writers of
`v1` and `v2` that they finish: `main` joins the readers only.

## 4. Proofs

All proofs are for every value of the constants, under the named assumptions of the modules:
`NoPid` is no client, there is at least one chair, `Cuts` is positive, the set of clients is
finite and the barber is none of them, and who may be interrupted is arbitrary; readers and
writers are finite and disjoint sets; batches and files have any size; the cluster's table
has at least two slots, and one for every client, because the code does not check.

| module | proves |
|---|---|
| `MyQueueLemmas` | `Push` and `Pop` keep `head` and `tail` in range; `Contents` of a pushed queue is `Append(Contents, x)`, of a popped one `Tail(Contents)`; the C tests for empty and full are `Length = 0` and `Length = MaxChairs` |
| `LibraryProofs` | `QueueTypeCorrect`, `OnlyClientsWait`, and `QueueRefinement`: `MyQueueCalls` implements `WaitingRoom` for every capacity; `RacesOnly`: `LocksHold` for any users and characters; `SortKeepsAndOrders`: `SortsInPlace` for files of any length |
| `BarberShopProofs` | `TypeCorrect`, `InductiveInvariant`, and from it `Exclusion`, `NoBlockInDoze`, `SleepsWhenEmpty`, `CutsOnlyClients`; `EveryVisitAccounted`; `OnlyInterruptibleDie`; `Refinement`: without interrupted clients `BarberShop` implements `SleepingBarber` |
| `BarberShopSysVProofs` | `InductiveInvariant`, and from it `TypeCorrect`, `SleepsWhenEmpty`, `NoBlockInDoze`; `EveryVisitAccounted`; `Refinement`: `BarberShopSysV` implements `SleepingBarber` until the barber quits |
| `ReadersWritersProofs` | monitor: `InductiveInvariant`, and from it `TypeCorrect`, `CountersAlwaysExact`, `NoWakeupLost`, `PreferWriters` (an action property) and `Refinement`; semaphores: `SemInductiveInvariant`, and from it `SemTypeCorrect`, `SemOneOwnerAlways`, `SemNoReaderWaits` and `SemRefinement`: each implements `ReadersWriters` |
| `RecordSearchProofs` | `InductiveInvariant`, and from it `TypeCorrect`, `BatchesAlwaysWhole`, `NeverReportedTwice` |
| `ClusterServerProofs` | `InductiveInvariant`, and from it `TypeCorrect`, `ForgottenOnlyByTheRace`, `StaleOnlyByReset` |
| `ProcessProofs` | `NothingMiscounted`: `CountsAddUp` for any number of signals; `OneMessageOnly`: `OneMessage` for any clients and names; `PipelinesMeet`: `EndsMeet` for lines of any length and number; `AnswersSuffice`: `EnoughAnswers` of the System V queue for any finite set of clients |

Each inductive invariant was checked by TLC on the constants of the module's run before it
was proved; that of the POSIX shop is checked by `barber_shop_sigint`.

### The waiting room

The lemmas hold for each way `head`, `tail` and `max` can lie to each other, which SMT decides
by arithmetic.

### The POSIX barber shop

`QueueExclusion` alone is not inductive: after `Wake` the client waits for `/wait` with the queue
taken, and nothing says where the barber is. `IInv` adds `Handshake`, which says for each call
of the barber what `/barber` and `/wait` hold and where the waking client can be;
`EmptyWhenAsleep`, which says the ring is empty from the moment he decides to sleep until he
has admitted a client; and `ChairIsClient`, which says that the chair has been written when
he reads it. The theorem `InductiveInvariant` has one step per action, and under it one per
conjunct the action can disturb.

`VisitAccounted` counts the places a client is in. The proof goes by `VisitInOnePlace`, which
says the same without counting: a living client is in the waiting room, at one index, or in
the chair, or has its signal pending, and in no two of them. Only four calls move a client
(`SitEffect`, `PushEffect`, `PopEffect`, `CutEffect`); the others leave it where it is
(`BarberEffect`, `ClientEffect`). The same lemmas give the refinement: sitting down, finding a
place, being taken from the room and the end of a cut are the steps of `SleepingBarber`, and all
else is a stutter. `Refinement` has the hypothesis `Interruptible = {}`, as the run that checks the
property has: a client that dies in the waiting room is cut all the same, though it never
comes back for the cuts it wanted. Whether the barber quits does not matter to it.

### The System V barber shop

Here `BARBER` alone has to say what two semaphores say in the other program. The waker posts it in
two separate calls and the barber may take the first post before the second is made, so
`Handshake` ties its value to the client that is between the two: until the barber has taken it,
it is 0, 1 or 2, and 1 exactly when the waker has posted once. From it follow `DozeNeverBlocks`
and that the chair has been written when it is read (`ChairIsClient`). In the abstract shop the
barber sleeps until the waker has sat down, though he may have returned from his call before.

Only the types and the link of `removed` to the barber's exit hold to the end. The rest holds
until the set is removed: after that clients fail wherever they are, also between two calls that
belong together. `removed` is never reset, so each lemma about a step assumes only that the set
exists after it (`OpenStep`). The refinement has the same form, `[][Shop!Next \/ removed']`: every
step before the barber quits is a step of `SleepingBarber` or a stutter. SIGINT of a client is not
part of this model.

### Readers and writers

`OneOwner` of the semaphores is not inductive: it does not say why a reader that finds
`curr_readers` above 0 may go in. The invariant adds that `reader_sem` is a lock (`ReaderLock`),
that `curr_readers` is the number of readers between `++` and `--`, and that a reader which waits
for `writer_sem` or gives it back is alone (`Counter`). So another counted reader, seen by the one
that holds `reader_sem`, is past `sem_wait(&writer_sem)`, which gives `WriterLock` and `Alone`; the
number of counted readers is handled with the library's theorems on `Cardinality`.

In the monitor the counters decide, and `CountersExact` is the invariant's centre. It needs the
mutex to have one owner (`MutexOwned`), and a thread on the condition variable to be before its
test and without the mutex (`BlockedTest`); a writer is `Alone` because it went in when the
counters of those inside were 0. `SomebodyWillBroadcast` is inductive only together with the
counters: a thread goes to sleep because a counter is above 0, so there is somebody that is
counted, and the last one of them broadcasts before it leaves the mutex. One lemma, `NextEffect`,
sums up what a step does to the three sets the counters stand for; the invariant, the writers'
preference and the refinement all follow from it.

### The record search

That a batch is whole when it is searched follows from what a turn has read so far
(`TurnSoFar`): the slots before `index` hold neighbouring records and the last of them is the
shared offset, since the mutex keeps others from reading (`MutexOwned`, which a cancelled thread
keeps for ever). `ReportedOnce` needs `ReportsToCome`: a record that is still in the file, or in a
slot of this turn that has not been searched, has not been reported and is in one place
only. `Pending` says which slots those are. Slots that were filled in an earlier turn are not
among them, which is why a batch cut short by the end of the file is dropped by v3.

### The cluster

`ForgottenOnlyIfHit` is not inductive: it says nothing of the slot `check_doubles` is about to
clear. `DoubleIsSpare` does: while `arr[j]` may be found equal, or has been, and holds an open
descriptor, another slot holds the same one, or the connection was stored there under the
comparison, or it is being unregistered. It survives that the network thread clears the slot
which was loaded first, closes the descriptor and gives its number to another client: all
slots of a descriptor are cleared before it is closed, and after an error, when they are not,
the new entry is the spare one. `RoomLeft` says that slots are taken in order and by as many
connections as there were clients, so `accept` overwrites nobody and the table is not left.

### Signals and locks

`LocksHold` needs types only: `since` was made to remember what its second part speaks of, and
a step of one user is told from a step of another. `CountsAddUp` is inductive once it is known
that type 3 uses real-time signals only (`RealTimeOnly`), since a pending SIGUSR1 is counted in
the same step as a real-time signal, and that there is no child before `fork()`. The two proofs
use no assumption about the constants.

### The POSIX message queue

`OneMessage` is about a client that is alone on its queue, and being alone is not stable: a client
that starts may make up the same name. It is lost only, never regained, since a name is made up
once; so the invariant (`PosixInv`) keeps what it says of every client that is still alone.
`Exchange` says it by what the client does next: after its registration there is at most one
message, which the server has sent or is about to send; before a request there is none; while it
waits there is one, unless the server has exited. Its last line says where the name may still be
in the server's queue, without which the server could come to serve the same queue twice. A
client that starts finds its queue empty because nobody has heard of a name that no client has
made up (`NamesAreMadeUp`). Steps of others do not touch the queue (`ServerApart`, `ClientApart`), and no
step of the client or of the server at its queue changes the number of messages there but as
`Exchange` allows. The number of clients and names does not matter, nor what a request says.

### The System V message queue

`EnoughAnswers` is the safety half of `EveryWaitEnds`. Registrations, requests and answers share one
queue, everybody takes the oldest message, and a client may get another's answer or its own
request back. What is left is a balance: a request adds a message for the client that starts to
wait, the server puts back what it takes, a client that receives stops waiting. `Enough` adds
the types, that the server never puts back a registration, and that nobody waits before the queue
exists. The lemmas `AppendAnswers` and `TailAnswers` count the messages of a sequence, by a
bijection for `Tail`. The hypotheses are that the clients are finitely many and that the identifiers
of queues and clients differ (`MsgQueueAssumption`). That each wait ends needs fairness and is what
the run checks; `EnoughAnswers` is in no run.

### Sorting a record file

`SortsInPlace` says what is in order between two passes, and that no record is lost or made. It is
inductive with `LoopBounds`, which keeps the indices of the two loops inside the file, and
`Carried`, which says that the record in memory is the one before the one read next and the
largest the pass has met. The loops are steps of the state machine, so this is induction over
steps, which the prover can do; a recursive definition would be another matter. The assumption is
that bytes and numbers of records are natural numbers (`RecordsAssumption`).

### The pipelines

Two things are proved together (`PipeInv`). `SlotsLeft` bounds the interpreter's descriptors: a line
leaves at most one slot behind and uses two, so the model, which has two slots more than lines,
never lacks one where the code would still find a descriptor; the proof counts occupied slots
with the library's theorems on `Cardinality`. `LineInv` is about a line that begins with a program:
until its last segment (`HalfLine`) the slot to read from and the slot to write to differ and hold
the two newest pipes, all other slots hold pipes of earlier lines, and pipes are numbered in the
order of the programs. That order is what makes a joint unique, so nothing has to be said about
pairs of programs but of neighbours. A blank segment inside the line keeps both slots where they
are; after the last segment (`WholeLine`) the last program also holds the pipe that was made for its
output and is not used, which is newer than every joint. The assumption is
that both bounds of the model are positive (`PipelineAssumption`).

### Model-checked only

* Liveness (`AllServed`, `AllServedOrQuit`, `QuitUnblocksClients`, `OthersServed`, `OnlyLockHoldersHarm`,
  `ReadersFinish`, `SemaphoresReadersFinish`, `Ends`, `GoneAreClosed`, `ParentExits`, `EveryWaitEnds`, `ServerEndEndsClients`,
  `AnsweredOrStopped`, `RunsToTheEnd`), which needs fairness and `ENABLED`.
* `NobodyLost`, `EverybodyFound` and `TreeLosesNobody`: they are about `RECURSIVE` operators on lists
  and trees, which need induction over data.
* The properties that runs find violated.

The type invariants of the modules under `MCProcesses` and `MCLibraries` are in no run: they document
the state and are where proofs start. Nor are the invariants stated beside the properties of
`BarberShopSysV` and `MsgQueueSysV`: `DozeNeverBlocks`, `SleepsOnlyWhenEmpty` and `VisitAccounted` of the
first and `EnoughAnswers` of the second are proved.

## 5. Not modelled

Whole components: the timing programs of `cw01`, the directory walk of `cw02/zad2` and the batch
interpreters of `cw03` keep no state between two calls and share none; `cw04/zad1` is one flag in
one process; `cw05/zad2` is floating-point arithmetic around a FIFO; `cw10/zad2` is a second
version of the cluster. The reasons are with the components in `PROJECT.json`. Inside the
modelled programs: parsing of arguments, formatting and printing, the contents of the array,
of the records and of the messages, failing calls at start-up, and memory that is never
freed. The cluster's table overflows at the 21st connection of a server's life; the model has
no more clients than slots (`ClientsAssumption`). The ten entries of `client_ids` in `cw06/zad1` are
written and never read, and the model has fewer clients. A line for the interpreter of `cw05/zad1` that is
empty or begins with a blank segment is left out until both arrays of descriptors have been set. In
`cw08/zad2a` a `pthread_cancel` of a thread that has ended does nothing: a thread could cancel one that `main`
has joined only with a cancellation of its own pending, on which it acts when its `read` returns.

Of the five copies of `list.c` only `cw01/zad4` is mapped, of the two of `my_queue.c` that of
`cw07/zad2`: the others differ in nothing the model keeps.

## 6. Plan

1. `ClusterServer` for `zad2`: registration in the read loop, names, and the growth of
   `client_count`; the unix client.
