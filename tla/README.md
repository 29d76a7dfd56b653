# Formal models of iocp-portfolio

The repository is a C++ server library for Windows: an I/O completion port
scheduler with C++20 coroutines, an actor system and a TCP layer on top of it,
and a template library of lock-free structures below. Two echo programs use it.
This directory holds TLA+ models of the library and of the applications, the TLC
configurations that check them, and TLAPS proofs of the safety of those parts in
which several threads meet and of whatever owns something.

`PROJECT.json` is the index: components, runs, the code lines each definition
stands for, the hazards of the code and which property watches each of them, and
for every property a mutation of the code that breaks it.

To repeat everything: `tlc -config X.cfg M` for the runs below, `tlapm M.tla` for
each of the eight modules named `...Proofs`.

## 1. The system

### 1.1 Components

State and operations are given with the names of the code. Properties in
**bold** are checked here; those in *italics* are not.

| Component | Code | State | Operations | What must hold |
|---|---|---|---|---|
| Tagged stacks | `library/pool.h` `lockfree::pool`, `lockfree::fixed_pool`, bucket stack of `_thread_local::pool` | `_head` (address and 17-bit tag), `_next` of the nodes | allocate, deallocate, destructor | **no node to two threads, none lost; no ABA** |
| Thread-local pool | `library/pool.h` `_thread_local::pool` | per thread `_size`, `_head`, `_break`; the bucket stack; chunks | allocate, deallocate, end of a thread | **every node in one place; the split point is right** |
| Lock-free queue | `library/queue.h` `lockfree::queue` | `_head`, `_tail` with counts, `_next`, `_value` | constructor, destructor, emplace, pop (two forms), empty | **FIFO, each value once; no link or read through a recycled node counts; calls end** |
| Handle table | `library/grc/arena.h`, `grc/handle.h` | per slot `_key`, `_reference` (dead bit and count) | allocate, attach, get, acquire (two forms), release, deallocate | **a handle opens its own object or is refused; an object in use is not destroyed; none leaks** |
| Actor system | `library/iocp/actor/system.h`, `entity.h` | per entity `_queue`, `_queue_flag`, `_destroy_flag`, its coroutine; posted tasks | entity_attach, entity_enqueue, entity_destroy, task_execute, entity_loop, wait | **one runner at a time, mail in order and once, no lost wakeup, exact references, the end after destroy** |
| Share and weak pointers | `library/pointer.h` 14–318 | `_use`, `_weak`, the object, the memory of the counts | copy, move, drop, `weak_pointer::lock` | **object and counts live exactly long enough** |
| Thread locks | `library/lock.h`, `synchronize.h` | the lock word, the sleepers | lock, unlock | **mutual exclusion, no lost wakeup, progress** |
| Sequence lock | `library/lock.h` 28–60, `iocp/monitor.h` | `_sequence`, the guarded words | write_start/end, read_start/end | **accepted copies are whole and current** |
| TCP sessions | `iocp/tcp/network.h`, `session.h`, `overlap.h` | `_send_queue`, `_send_time`, `_cancel_flag`, references, what is in flight | session_send, completions, receive, cancel, timeout | **one send in flight, in order, none stuck; the session outlives its I/O; a cancelled one ends** |
| Scheduler, completion port | `iocp/scheduler.h`, `inputoutput.h`, `thread.h` | the port's packets, the workers | post, execute, stop | **a task is executed once; the workers end** (as part of actors, sessions, timer) |
| Coroutines, fork | `iocp/promise.h`, `coroutine.h`, `iocp/lock.h` | `_start`, `_parent`, the frame; `_count` | call, await, yield, end, destruction; join | **each frame freed once, at its end, and nobody woken twice** |
| Timer | `iocp/timer.h`, `time.h` | `_insert_queue`, `_insert_size`, the heap | sleep, insert, execute, destructor | **nobody wakes early, everybody wakes, the thread ends** |
| Coroutine locks | `iocp/lock.h` | mutexes, their queues, the proxies | lock of several mutexes, unlock | **exclusion, no circle of waiters, no lost wake** |
| Intrusive pointers | `library/pointer.h` 319–549 | counts in the object | share, lock, reset, set, destruction | **exact counts, no resurrection** |
| Hash table | `library/hash_table.h` over `list.h`, `vector.h`, `bit.h` | one ring of nodes, first and last of every bucket | emplace, erase, find, equal_range, rehash, clear | **the set or map it stands for; equal keys together; iterators stay valid** |
| Sequential queues | `library/queue.h` 17–384 | arrays, a heap in a vector | emplace, pop, top, reserve | **first in, first out over growth and wrap-around; the least first** |
| Other containers | `array.h`, `vector.h`, `list.h`, `bit.h`, `pool.h` 1–120 | blocks, rings, words | construct, copy, move, insert, erase, swap; set, reset, shift | **the sequence or set they stand for; every block one owner** |
| Strings | `string.h` | `_size`, `_capacity`, buffer or heap | construct, assign, append, insert, erase, resize, ... | **the text, with its terminator** |
| System handles | `socket.h`, `handle.h`, `thread.h`, `synchronize.h` | a number | open, move, close, destroy | **each number one owner, closed once** |
| Messages | `iocp/message.h`, `serialize.h` | bytes, `_front`, `_rear`, users of a buffer | write, read, seek, copy, slice | **what is written is read back; buffers are shared exactly** |
| Commands | `*/command.h` | the line, the table of tokens | parse, execute | **the commands of a line with their arguments** |
| Echo client | `echo-dummy/*.cpp` | dummies, sessions, mails, the loops | the mails of a dummy, start, stop, wake_loop, destructor | **echoes in order, rounds end, the program ends** |
| Servers | `echo-server/*.cpp`, `login-server/*` | sessions, monitor | echo, destructor | **the echo and the end of the program** |
| Wrappers, templates, counters | the rest | none of their own | | |

### 1.2 How they interact

* A thread that calls `entity_enqueue` opens the entity's slot in the **handle
  table** (`acquire`), inserts the mail in the entity's **queue**, and calls
  `flag_ready`, which exchanges `_queue_flag`. The thread that wins posts the
  entity as a task to the **scheduler** and leaves its reference with the task.
  A worker executes the task, which resumes the coroutine `entity_loop`; that
  drains the queue and awaits `wait`, which clears the flag (`flag_finish`) and
  looks at the queue again, since a mail may have come in between.
* The mailbox is itself a coroutine: it may await I/O, a timer, a lock; the
  entity then keeps its flag and its reference and is continued by whatever
  worker gets the completion.
* The queue takes its nodes from the **thread-local pool**, one for all queues of
  a type. A node given back by one thread may thus be in another queue while a
  third thread still holds its address, and the queue must survive that. The
  thread-local pool keeps full buckets on a **tagged stack** whose headers come
  from another tagged stack; the handle table takes its slots from a third kind.
* Sessions sit in a second handle table and send through a queue of the same
  class. Their references are held by the threads that work on them, by their
  coroutine and by every send in flight.
* Coroutines sleep by the **timer**: `iocp::sleep` hands itself to the thread of
  the timer, which posts it to the scheduler when its time has come. They take
  **coroutine locks**, which post them in the same way.
* The echo client is actors (dummies) with one session each; a loop coroutine
  wakes them, and the destructor of the application waits for the loops, then
  clears the sessions, before `main` ends the timer and the scheduler.

### 1.3 What is hard about it

Everything that matters happens between two interlocked operations: memory read
after its owner has gone (pools and queue), a count that answers a stale handle
before the key is compared (handle table), a flag cleared while a mail arrives
(actors), a coroutine resumed while its suspension is still running, a lock word
released between a failed exchange and a sleep, a session cancelled between a look
at its flag and the send that is posted next. In the containers, which one thread
uses at a time, it is long sequences of legal calls: copies that go through a
temporary, growth while elements wrap around, counts of owners over moves. There
is nothing persistent, so no crash recovery, and messages between actors are not
lost or repeated; connections break and time out. `PROJECT.json` lists 40 hazards
by line; one of them no property covers, for the reason its note gives.

### 1.4 Code that exists only compiled

The bodies of `iocp/actor/*` and `iocp/tcp/*`, and of scheduler, timer, promise,
lock, message pool and monitor, are in the repository as `library/iocp.lib` with
their headers only. What the headers define (`entity_attach`, `entity_enqueue`,
the members and their types) is mapped to the headers. The bodies were read from
the object code of that library; a definition that models one is mapped to the
declaration it belongs to, or carries `"external": true` with the symbol's name
where there is none.

## 2. The modules

| Module | Models | Depends on |
|---|---|---|
| `HandleTable` | abstract: a table of objects and handles | |
| `Arena` | `grc::arena`, a step per interlocked operation; implements `HandleTable` | |
| `LockfreePool` | the three tagged stacks | |
| `ThreadLocalPool` | contexts, buckets and chunks over one of the stacks | the pop and push of `LockfreePool` as one step |
| `LockfreeQueue` | `lockfree::queue`, both forms of `pop` | the pool as a set of free nodes that overwrites links |
| `Mailbox` | abstract: mail one at a time, in order, once | |
| `ActorSystem` | `actor::system`, `entity`, `wait`; implements `Mailbox` | `acquire`/`release` as `HandleTable` promises, the queue as `LockfreeQueue` promises |
| `SharePointer` | `share_pointer`, `weak_pointer` | |
| `WaitLock` | `wait_on_address_lock`, `spin_lock` | |
| `SeqLock` | `seq_lock` with the copying loop of `monitor` | |
| `Elements` | abstract: elements with keys, in nodes that do not move | |
| `HashTable` | `hash_table` with the list and vector below it; implements `Elements` | |
| `Fifo` | abstract: first in, first out | |
| `CircleQueue` | `circle_queue`, growing and fixed; the growing one implements `Fifo` | |
| `Session` | one `tcp::session`: sends, receive coroutine, cancellation, references | a handle table node as `HandleTable` promises |
| `CoroutineLock` | `iocp::lock`, `unlock` over several `mutex`es | |
| `Coroutine` | `iocp::coroutine`, its promise, `iocp::fork` | |
| `Timer` | `iocp::timer`, `sleep`, the end of timer and scheduler | the queue and the heap as what they promise |
| `EchoDummy` | the dummies of the echo client against an echo server | actors as `Mailbox` and sessions as `Session` promise |
| `Shutdown` | the destructors of the applications, the loops, `session_clear` | the timer as `Timer` promises |
| `Handles` | `socket`, `handle` and its heirs | |
| `Text` | `detail::string` | |
| `Vector`, `PriorityQueue` | `vector`; the heap in it | |
| `Lists` | `list`, with temporaries | |
| `Blocks` | `array` of any size, `pool` | |
| `Bits` | `bit_set`, `bit_grid`, `bit_ceil`, `bit_floor` | |
| `Pointers`, `Hooks` | every operation of share, weak and intrusive pointers, one thread | |
| `Commands` | `parser`, `command`, the console loop | |
| `Serialize`, `Messages` | `serialize_buffer`; `serialize_view`, `message`, `message_pool` | |
| `MCPools` | `LockfreePool`, `ThreadLocalPool` | |
| `MCQueues` | `LockfreeQueue`, `CircleQueue` | |
| `MCOwners` | `SharePointer`, `Pointers`, `Hooks`, `Handles`, `Blocks`, `Messages`, `Serialize` | |
| `MCLocks` | `WaitLock`, `SeqLock`, `CoroutineLock` | |
| `MCApplications` | `EchoDummy`, `Shutdown`, `Coroutine`, `Timer` | |
| `MCSequential` | the containers and parsers of one thread: hash table to commands | |
| `MCArena` | the symmetry set of `Arena` for TLC | |
| `ArenaProofs`, `ActorSystemProofs`, `SessionProofs` | theorems and proofs about the module they are named for | that module |
| `PoolProofs`, `QueueProofs`, `OwnersProofs`, `LocksProofs`, `ApplicationsProofs` | theorems and proofs about the modules gathered by the module they extend | `MCPools`, `MCQueues`, `MCOwners`, `MCLocks`, `MCApplications` |

The six modules that gather others choose one of them at the start (`which`);
the others stay where they start. They share a run, not state: the parts of a run
are independent systems, and its properties hold of each.

Conventions. `pc[t]` is where thread `t` is inside a call; an action is named
for the method and the access it performs (`AttachAnd` is the interlocked and of
`attach`). A step is one access to memory that another thread may touch; plain
accesses of one thread are merged into the step next to them only when nobody
else can look at those fields in between. Interlocked operations are full
barriers on the platform of the repository (x64, MSVC), and the plain loads and
stores around them keep their order there except a store before a load: where a
store to shared memory is followed by a load of other shared memory an
interlocked operation stands between the two in the code. Variables marked
*history* exist for the properties only, and no guard of the code depends on
them. An operator whose name extends that of the definition below it (such as
`AcquireCompareNoKey` before `AcquireCompare`) is a deliberately wrong version of
it, used to see that a property can fail.

### 2.1 Arena

`_reference` is split into its top bit (`dead`) and the 31 bits below
(`count`), `_key` into slot and generation. A life of a slot is `Allocate`,
`AttachWrite` (key, deleter and object), `AttachIncrement`, `AttachAnd` (clears
the dead bit), any number of `Get`, `AcquireIncrement`, `AcquireCompare`,
`ReleaseDecrement`, then `ReleaseMark` (compare-exchange of 0 with the dead bit),
`Delete`, `Deallocate`. The protocol is unusual in that a refused `acquire` has
counted the caller and must be released like a granted one, which the callers in
`actor/system.h` do; hence stray references on slots that are dead, being
constructed or in use by another object. `Get(t, h)` starts a call with any
handle ever returned by `attach`, however stale.

`ImplementsTable` maps a live slot to its handle and each caller to what it was
last told; every step of the arena is then a step of `HandleTable` or a
stutter.

### 2.2 LockfreePool

One algorithm in three classes (variable `class`): which of the two operations
advances the tag, and what an empty stack answers. `Write` lets the owner of a
node, and the header pool for the bucket stack, put any address in `_next` at any
moment: with `compress = true` the value of a node lies over its link.
`NotLapped` is an assumption the code makes: no thread sleeps between a load of
`_head` and its exchange while the tag goes all the way round (131072 changes).
Without it the properties are false, and nothing in the code excludes it.

### 2.3 ThreadLocalPool

The linked lists are kept as links (`next`) and sizes, as in the code: a bucket
is an address and a count, and the links of its last node may lead on into other
lists. Nodes may be freed by another thread than the one that allocated them, as
queue nodes are.

### 2.4 LockfreeQueue

A node at count `c` links to the node at count `c + 1` or, if last, to the
*queue's own address* with count `c + 1`. That is how `emplace` notices that the
node it is about to link behind was recycled: the address is another queue's or
the count is another. The module keeps exactly these words. `Pooled` is the
pool's overwriting of the link of a node that is given back. With `MultiPop`
FALSE `pop` stores to `_head` without an exchange and breaks on an empty queue;
`Consumer` calls it after `empty()` has said no. In both forms anyone may call
`empty()` at any time, as `flag_ready` and the sessions do; its answer is a promise
only to the one consumer.

### 2.5 ActorSystem

The composition: arena, queue, coroutine, scheduler. A thread is a worker and a
caller at the same time; a mailbox may call the system while it handles a mail
(`Acquire` from `"mailbox"`). `pc = "ready_*"` is `flag_ready`, which is called by
`entity_enqueue`, `entity_destroy` and `await_suspend`. In the last case the
coroutine is already suspended and may be resumed by another worker while this
thread is still inside. The queue's answers are those that `LockfreeQueue`
justifies: `empty()` by a thread that is not the consumer is two reads, of which
the second may be stale in either direction.

### 2.6 SharePointer, WaitLock, SeqLock, CoroutineLock

`SharePointer` counts the pointers each thread has and gives `lock()` a step per
access. `WaitLock` covers both thread locks with the variable `sleeps`;
`WaitOnAddress` may return without a wake. `SeqLock` writes and copies word by
word, in any order.

`CoroutineLock` takes the spin locks of the requested mutexes one by one in the
order of their addresses, grants or queues the request at each, and lets go of the
spin locks when it has seen all. Unlocking a mutex hands it to the head of its
queue, or to all that share it there; a coroutine goes on when the count of what
it waits for is zero, whether the last grant comes before or after it has stopped
counting. A coroutine that is resumed while the `await_suspend` that suspended it
still releases its last spin locks destroys the object that call reads from; the
model keeps the object readable, so what such a read returns is not covered. A
request names a mutex once: a call that named one twice would spin on its own
spin lock, and nobody writes one.

### 2.7 HashTable, CircleQueue

Containers used by one thread at a time (echo-dummy holds `_dummy_lock` round its
`unorder_set` of handles), so that a call is one step. What is hard in them is
their data: `HashTable` keeps both links of every node, because all buckets stand
in one ring and each operation must keep the ends of its own bucket right while
it moves nodes about; `rehash` is the loop itself, folded over the nodes in the
order in which it meets them. The `ring` of links, the keys and the pairs
`first`/`last` are the list and the vector of the code. `Find` and `EqualRange`
walk the links. A call whose assertion would stop it (`erase` of an absent key,
list.h:128) is not taken. `equal_range` (hash_table.h:191) has no test for the end: of a
key that stands last it walks on to the sentinel and compares it, of an absent key it
starts there. The sentinel was allocated without a value, so what the comparison reads
is a parameter of `EqualRange` (`KeyRead`, `behind`), any key or none, and the walk goes
on past the sentinel when that is equal. What is promised of the range
(`LookupIsRight`) is what the code gives: the elements with the key, when another
element stands behind them or what is read there differs. Nothing in the repository
calls it. `CircleQueue` keeps the cells of the array,
with `Raw` in those where no element is constructed. Its second class, which does
not grow, is `FixedSpec`.

### 2.8 The other parts of one thread

Each module keeps the memory of its component beside the value it stands for
(`text`, `content`, `waiting`, `members`, `pending`, `unread`, `elements`, `taken`
are such histories) and relates the two. Copies, moves and swaps of several
variables are actions, since that is where owners are confused. What reading the
code for them brought up, modelled as it is:

* `Text`: copies and comparisons go through the C string and stop at the first
  terminator, so a string that a resize filled with terminators is shorter to its
  copy. The hash of wide strings reads `size()` bytes, not characters. A string
  inserted into its own middle is copied with `memcpy` over its own cells
  (string.h:246, memory.h:99), which is undefined: the cells that may be overwritten
  before they are read are `Unknown` in the model (`Overlapped`), and so is the text.
* `Bits`: `bit_ceil` does not return for a number above the highest power of two of
  its type, and `bit_floor` not from that power on, since the shift leaves zero; the
  model gives 0 for a call that does not return, and the property speaks of the
  other numbers only. `operator==` of `bit_set` returns what `memcmp` does and so the
  opposite of equality (bit.h:132); nothing uses it, and it is not modelled. Nothing
  calls the two searches either.
* `Blocks`: `array<type, 0>::fill` iterates over a pointer, which compiles only as
  long as nobody calls it; it is not modelled.
* `Handles`: `create` and `thread::begin` overwrite a number without closing it
  (history `lost`). Every use in the repository calls them on fresh objects.
* `Hooks`: `reset` and `set` carry a pointer through an operation of the system
  without counting, as sockets and sessions do with `OVERLAPPED`s. A weak pointer
  may be locked while the object is being destroyed, and refuses.
  `share_pointer_this` (pointer.h:541) does not look: it raises the count of users from
  zero, in `destruct` or as long as a weak pointer keeps the memory, while the weak
  count that stands for the users is gone or about to go. The end of such a pointer
  destructs the object once more and lowers the weak count once too often, so the
  memory goes back while others still name it. The model takes all these steps
  (`raised` counts the raises, `destructs` the calls of `destruct` that run) and ends
  where memory that is not in use is named (`Sound`), since what follows is undefined.
  `HooksAreCounted` is the law that holds throughout: the weak count falls short by
  exactly the number of raises, and everything is in order as long as there was none.
  Nothing in the repository calls it.
* `Commands`: the commands of one line are executed in the order of an
  `unordered_map`, which the model leaves open. A command that reads `arg[0]` of a
  line without arguments reads past a span.
* `Messages`: a thread cuts messages from one buffer until the next does not fit; a
  buffer returns to its pool with the last message.

### 2.9 Session

A thread calls `session_send` (acquire, `send_enqueue`, `send_ready`, `send_post`,
release), or works off a packet of the port (a send finished, a receive finished,
either failed), or cancels (`session_timeout`, `session_clear`). `send_ready` looks
at the queue, claims the one send by exchanging `_send_time`, and looks again;
whoever gives the claim back, because there was nothing to send or because
`send_finish` is done, looks at the queue afterwards. `send_post` takes all messages
there are, `send_finish` removes as many as were posted. A cancellation sets the
flag and then ends what is in flight; a thread that has posted a send or a receive
reads the flag once more (`Stray`, `StrayReceive`), at which time the session may
already be gone and what it reads is left to chance (`CancelFlagRead`).
`session_send` and `session_cancel` do not destroy a session whose last reference
they drop but post a packet of key "destroy", which `worker_execute` answers with a
`__debugbreak`: then the program stops (`DestroyPacket`), and `SessionEnds` names that
outcome beside the destruction. `accepted` and `wire` are histories. The network's
arena, listening and the DNS are outside; the module starts when the session has
been attached.

### 2.10 Coroutine, Timer, EchoDummy, Shutdown

`Coroutine` distinguishes frames by `status`; `Destruct` of an object that was never
awaited starts the frame on its own, which then frees itself. A coroutine that
yields and is then let go is never freed; `FramesEndOnce` says so.

`Timer` follows the count `_insert_size`, which is raised before the sleeper is in
the queue and lowered after it left. Times are relative to now and stop at zero,
so the clock needs no bound; the 32 bits of `timeGetTime` are taken not to wrap
during a sleep (the system has been up for less than 49 days): across the wrap a
sleeper would wake at once, or 49 days late. The assumption `NoEarlyRead` is that the
constructor has stored `_insert_size` before the new thread reads it; the members
stand in the other order (timer.h:23–25), so the code does not guarantee it.

`EchoDummy` composes the promises below it: a dummy takes its mails one at a time,
sends its round, compares each echo with the oldest number it waits for, and stops
the program on a mail its state does not expect. A round of no numbers
(`Over_Send` 0) leaves a dummy in `interact` for good, where ticks are ignored: it
waits for an echo that nobody sends (dummy.cpp:56, :75). `RoundEnds` speaks of rounds
with something in them.

`Shutdown` is the destructor of the client with its two loops, and of the server with
one and without sessions: stop requested, wait on the counter, then `session_clear`,
whose one pass over the slots misses sessions connected behind it; they end by their
timeout. A loop tests the token and runs its body in two steps, so a last round of
ticks may come after the request, and a tick makes a dummy connect at any later time,
also when `session_clear` has returned (`Connect`). The destructor destroys no dummy. A
session that ends therefore sends `session_disconnect` to a living one (`End`), and
every state a dummy can then be in answers it with a `__debugbreak` (dummy.cpp:66, :88;
`TakeDisconnect`); a session whose last reference is that of a `session_send` or
`session_cancel` stops the program as well (`LastRelease`, see 2.9). So **a client that
is left with connected dummies is in a race between its end and the breakpoint**, and
`ShutdownEnds` says what is true of the code: the program ends in one of the two ways,
never hangs, and it ends properly when no dummy has a session or is about to get one
(`Quiet`), as after the command `Stop` and the end of the sessions.

## 3. The runs

| Run | Instance | Shows |
|---|---|---|
| `arena` | 2 slots, 3 threads, 2 generations per slot | `CountIsExact`, `UseIsSafe`, `NoLeak`, refinement `ImplementsTable` |
| `pools` | tagged stacks: 2 nodes, 3 threads, a tag of 3 values, all three classes; thread-local pool: buckets of 2, 2 chunks, 2 threads | `ChainIsFree`, `OneOwner`, `NoStalePop`; `NodesAreKept`: each node once, the split where it should be |
| `queue_multi` | 1 queue, 3 nodes, 2 values, 2 threads, 3 insertions | `WordsAreTheQueue`, `PopIsFirst`, liveness `CallsEnd` |
| `queue_single` | 2 queues, 4 nodes, 2 threads, 2 insertions each; circle queue: capacity up to 7, 2 values | `OneOwner`, `CallsActOnTheirQueue`, action property `EmptyIsRight`, refinement `CircleImplementsFifo` |
| `actor` | 1 entity, 3 threads, 2 mails | `RunnersAreRight`, `CountKeepsEntity`, refinement `ImplementsMailbox`, liveness `MailIsTaken`, `DestroyEnds` |
| `network` | 1 session, 1 caller, 2 workers, 3 messages | `QueueIsSent`, `IoKeepsSession`, liveness `SessionEnds` |
| `locks` | 5 threads at both thread locks; 2 words, 2 readers, 3 writes; 3 coroutines, 2 mutexes, 4 requests | `GuardedIsWhole`, `GrantsAreRight`, liveness `ThreadsGetThrough`, `SuspendedEnters` |
| `owners` | 3 threads, 5 pointers; of one thread: 2 share and 2 weak pointers of either kind to 2 objects, 2 raises from zero per life, 5 objects over 3 handles, 2 arrays and 2 pools over 3 blocks, 2 messages over 3 buffers of 2 bytes, 1 fixed and 2 growing buffers over 2 blocks | `PointersAreSafe`, `NoLeak`, `OwnersAreExact` |
| `sequential` | 7 parts, see below | `ContainersKeepContents`, `CommandsAreRight`, refinement `TableImplementsElements` |
| `applications` | 1 dummy, rounds of 0, 1 and 3; 3 frames, forks of up to 2; 2 loops, 2 dummies with a session each; 2 sleepers, 3 workers, times 0 to 2 | `EchoIsRight`, `FramesEndOnce`, `LoopsEndFirst`, `SleepersAreKept`, liveness `RoundEnds`, `ShutdownEnds`, `SleepersWake` |
| `fixed_circle_queue` | capacity up to 7, 2 values, class of fixed size | finds `AssertionSaysFull` violated |

Every run passes but the last, which shows a bug of the code: `emplace` of the
`circle_queue` that does not grow asserts `full() && "called on full"`
(queue.h:320), the opposite of what the message says. A debug build stops at the
first insertion into a queue with room left; one into a full queue goes through
and leaves the queue looking empty. No program of the repository uses that class.

**Bounds and why they are enough.** Each is a constant named in the module.
`KeyLimit` = 2 gives every slot a second life, which is what a stale handle needs;
two slots let a handle be stale in one while the other is in use; three threads
are a user, a stale user and one that destroys and constructs. Two pool nodes let
a node leave and return on top of another successor; the tag of three values goes
round many times, and two would leave no room for a change besides `NotLapped`.
Buckets of two are the smallest whose `_break` differs from `_head`, and two
chunks let a context reach the four nodes at which it hands a bucket over. Three
queue nodes are a dummy, a value and one more, so that a stale node can be
recycled; two queues with four nodes let it reappear at the end of the *other*
queue. `EmplaceLimit` and `MailLimit` bound histories: two mails are one that is
being handled and one that arrives meanwhile. `PointerLimit` bounds the counts,
`WriteLimit` the sequence; three writes let one start before, one during and one
after a copy. Five threads at a lock are one inside, two asleep, one on its way to
sleep and one that barges in. Three coroutines over two mutexes can stand in a
circle, share, and have one queue behind both; the requests name the mutexes in
either order. Three messages over a session are one in flight, one behind it in
the queue, and one that comes when the claim is given back; two workers finish a
send and a receive at once. The two loops are those of the client, and two slots are
one behind the scan of `session_clear` and one before it. Two raises (`RaiseLimit`) of an
intrusive count are one while `destruct` runs and one after it. Four characters are all
strings of a run together (`SizeLimit` of `Text`): a string of two inserted into its own
middle, or one that outgrows the small buffer and grows again. Three frames are a parent, a child and a grandchild, or
two children. Two sleepers give the timer a least time among two, and three workers
let two of them be late with their wake while a third resumes a sleeper. The hash table starts at 2 buckets instead of 8 and
doubles up to 4 (`FirstCount`, `Growth`, `SmallCount`), so that four nodes of
three keys go through both rules of growth; `KeysHash` lets two keys share a
bucket at every size the run reaches and separates the third when it grows. The circle queue passes through the
capacities 1, 2, 3, 4, 5 and 6 with its front at every position (`CapacityLimit`).
The other parts of `sequential` have two or three variables of each kind, one
element more than fits without growth, and words of three bits. Two owners of each
kind are what a copy, a move or a swap needs, and one block or number more than
they have lets each be given back while the others are in use. A message of two bytes
fills a buffer of two, and two of one byte share it.

`actor`, `owners`, `network`, `locks` and `applications` do not check deadlock:
an entity may be deleted, all pointers dropped, a session destroyed, the requests
used up and a program ended, after which nothing is left to happen.

**Fairness.** Weak fairness of each thread's steps inside a call: the operating
system runs every thread that is not blocked. For the actors in addition strong
fairness of `Execute` and `MailboxResume`: the completion port is a FIFO queue, so
a packet is not passed over for ever by workers that keep coming back to it; and
of `MailboxReturn`: user code ends, however often it awaits or calls the system on
its way. Nothing is assumed of the threads that start calls, of spurious wakes,
or of user code that destroys an entity. `ReaderGetsThrough` assumes that readers
try again, as the loops in `monitor` do, and that a write that has begun ends.
`CallsEnd` holds because `EmplaceLimit` lets the interference of other threads
end: the queue is lock-free and not wait-free, and `emplace` and `pop` help a slow
thread's tail forward instead of waiting. `SessionEnds` needs that threads go on
with their calls, that a send or receive of a cancelled or broken connection fails
(the kernel's promise), and that packets are taken. `SuspendedEnters` assumes that
whoever is inside a coroutine lock leaves it. `SleepersWake` assumes that threads
run, that a coroutine sleeps again or ends, that time passes, and that a wait whose
time is over returns; nobody may count on `WaitOnAddress` returning without a
reason. `RoundEnds` is fair to the mailbox of a dummy, the echo of the server and
the delivery of a session that is open, `ShutdownEnds` to the loops, which the timer
resumes, to the destructor, and to the end of sessions by cancellation or timeout, all
as long as no breakpoint stopped the program; nothing is assumed of commands,
connections and the mailboxes of dummies.

## 4. The proofs

Eight modules prove for every instance what the runs check on small ones: no
limit on threads, slots, nodes, values, messages, frames, sleepers, dummies or
owners beyond the assumptions below. Of the 26 invariants that the passing runs
check, 24 are theorems, and so are the refinements by `Arena`, `ActorSystem` and
`CircleQueue` and the action property `EmptyIsRight`.

| Theorem | States |
|---|---|
| `ArenaProofs!CountCorrect` | `CountIsExact` |
| `ArenaProofs!UseCorrect` | `UseIsSafe` |
| `ArenaProofs!NoLeakCorrect` | `NoLeak` |
| `ArenaProofs!DestroyCorrect` | `DestroyOnce`: one thread alone destroys an object, once |
| `ArenaProofs!TypeCorrect` | `TypeOK`: counts never below zero |
| `ArenaProofs!HandlesCorrect` | what the refinement needs of handles and generations |
| `ArenaProofs!TableImplemented` | `ImplementsTable`: the refinement of `HandleTable` |
| `PoolProofs!ChainCorrect` | `ChainIsFree` |
| `PoolProofs!OwnerCorrect` | `OneOwner` |
| `PoolProofs!StalePopFails` | `NoStalePop` |
| `PoolProofs!TypeCorrect` | `TypeOK` |
| `PoolProofs!NodesCorrect` | `NodesAreKept` |
| `QueueProofs!WordsCorrect` | `WordsAreTheQueue` |
| `QueueProofs!OwnersCorrect` | `OneOwner` |
| `QueueProofs!PopCorrect` | `PopIsFirst` |
| `QueueProofs!CallsCorrect` | `CallsActOnTheirQueue` |
| `QueueProofs!EmptyCorrect` | `EmptyIsRight`, an action property |
| `QueueProofs!CircleCorrect` | `CircleImplementsFifo`: the refinement of `Fifo` |
| `ActorSystemProofs!RunnersCorrect` | `RunnersAreRight` |
| `ActorSystemProofs!CountCorrect` | `CountKeepsEntity` |
| `ActorSystemProofs!MailboxImplemented` | `ImplementsMailbox`: the refinement of `Mailbox` |
| `ActorSystemProofs!TypeCorrect` | `TypeOK` |
| `OwnersProofs!PointersCorrect` | `PointersAreSafe` |
| `OwnersProofs!NoLeakCorrect` | `NoLeak` |
| `OwnersProofs!OwnersCorrect` | `OwnersAreExact` |
| `LocksProofs!Correct` | `GuardedIsWhole` |
| `LocksProofs!GrantsCorrect` | `GrantsAreRight` |
| `SessionProofs!IoCorrect` | `IoKeepsSession` |
| `SessionProofs!QueueCorrect` | `QueueIsSent` |
| `ApplicationsProofs!EndCorrect` | `LoopsEndFirst` |
| `ApplicationsProofs!FramesCorrect` | `FramesEndOnce` |
| `ApplicationsProofs!SleepersCorrect` | `SleepersAreKept` |
| `ApplicationsProofs!EchoCorrect` | `EchoIsRight` |

Each proof has the same outline: the invariant, in named parts (`IInv`, or
`...Kept` where a module proves about several systems); a lemma that the initial
states have it; lemmas that each action keeps each part; the theorem that it is
one; and from that the theorems of the table. A theorem about one of several
gathered systems is stated for the specification of that system
(`Local!Spec => []NodesAreKept`) or for the gathered one.

**Assumptions.** Only these, each named in the module that declares the constants
and evaluated by TLC in a run: the numbers are natural numbers, and those that
must be are positive (a tag has two values, the share pointers begin with one);
sets that are counted are finite (threads of `Arena`, `ActorSystem`,
`SharePointer`, `Session` and `WaitLock`, nodes of the queue, loops, sleepers, workers of
the timer, coroutines, pointers, hooks and messages of one thread);
the names of different things differ (`None` from entities and nodes, queues from
nodes, callers from workers, the destructor's packet from sleepers, the values of
nothing, of nullptr and of what does not exist from those of what does); the
consumer of the queue is a thread; a coroutine asks for mutexes that there are,
each once in a request; there is a buffer and a value of a byte, a message asks for no
more than a buffer holds, and no buffer is both fixed and growing; rounds of the echo client have a length, and its numbers are
no ticks. The finite sets are those of a process, which
has finitely many threads and nodes at any time. The bounds of histories
(`KeyLimit`, `EmplaceLimit`, `MailLimit`, `MessageLimit`, `WriteLimit`,
`PointerLimit`) may have any value in the proofs. Two assumptions are guards of
the models and hold in the theorems as in the runs: `NotLapped` of the tagged
stacks (2.2), and the counts of the queue, which have 17 bits in the code and do
not come round in the model.

**The arguments, and why the properties are not inductive by themselves.**

*Arena.* `CountIsExact` is nearly inductive. What it lacks is who may touch a dead
slot (`SlotOwner`: the pool or one thread that builds or destroys), when attach's
own reference exists (`AttachOwner`), that a granted acquire holds a slot that is
not dead and, after the comparison, of its own generation (`CallerSafe`), that a
count of zero is always seen by some thread on its way to the compare-exchange
(`ZeroIsSeen`), and the bookkeeping of what was deleted. A thread that succeeds
in that exchange then knows from the exact count that nobody is between
`acquire` and `release`. For the refinement, `HandlesAreRight` adds that a handle
once returned is of a generation its slot has reached; each action is then a step
of `HandleTable` or leaves its variables alone.

*Tagged stacks.* `ChainIsFree` and `OneOwner` need `Fresh`: while the tag has not
advanced since a thread's load, its node, if it is on the stack, has the
successor the thread has read. For the classes whose pops advance the tag the
node has not even left the stack; for the class whose pushes do, it may have left
but has not come back. `TagStep` is the arithmetic of a tag that wraps under
`NotLapped`. The property is the reason that either place for the increment is
right, which the code relies on without saying so.

*Thread-local pool.* The memory has links and sizes only. The invariant says that
there are lists of nodes: one of each thread, which its head and size lead through
and whose part behind `_break` is a bucket's worth, and one of each bucket on the
stack, no node in two of them or twice in one; the nodes in use are the rest. The
lists differ from what links say only behind their ends, where a bucket's last node
may still lead into a list it was cut from, and sizes are what keeps everybody from
walking there.

*Queue.* The runs look at the words in memory through `Chain`, which walks the
links. The invariant turns this round: there are sequences of nodes `c`, one for
each queue, such that the words are as they must be for these (`QueueIs`), no node
is at two places (`Apart`), and every word that a thread has read is either still
the one of a place in `c` or `Old`, its count behind that of the head
(`WordIsRight`). `Old` is for good, since heads only go up. What makes an exchange
with an old word fail is that its node, if it is at the end of the same queue
again, has a greater count there, and at the end of another queue has another
address in its link. A node comes back by being marked with the count it will
have while its inserting thread is still on its own; `MarksAreNew` says that
nobody has read that node with this count before. `LinkIsRight` and `PopIsRight` are
what the threads know at each further step; the pop by a single consumer needs
that nobody else moves its head. `ChainOf` shows that the walk finds the chain,
by the least place at which it would not.

*Circle queue.* The array `Holds` a sequence: the cell `j` behind `front`, round the
end, has its element `j`, and all others are `Raw`. Each operation makes it hold the
sequence that `Fifo` says; the growth of a queue that wraps round moves its first
part to the start of the new array, and `Moved` is shown to hold the same sequence
from there.

*Actors.* The flag is a token (`TokenIsOne`): a thread that runs an entity, a task that
was posted and a mailbox that is suspended exclude each other, so the head of the
queue is moved by one thread (`MailIsRight`). The count is an equation
(`CountIsExact`). `WakeupIsPending` is the lost wakeup: while an entity waits with mail
in its queue or a request to end, some thread is at a point of `flag_ready` from
which it cannot miss it. The proof follows the thread that clears the flag
(`flag_finish`) and the one that inserts: whichever is later sees the other.

*Share pointers.* `_use` is the number of share pointers, `_weak` that of weak pointers
and one more for all share pointers together (`UseIsExact`, `WeakIsExact`), which is
why each reaches zero once and one thread destroys. The `lock` of a weak pointer is
safe by the weak pointer its caller holds meanwhile.

*Owners of one thread.* Handles are inductive as stated. For the pointers, counts are
compared with the names that hold a reference (`PointersKept`, `HooksKept`); a copy,
a move or a swap is a change of one or two names, and `HeldNamed` and its kin say what
that does to the numbers. What makes the intrusive ones different is that an object
that is being destroyed may be locked or ask for a pointer to itself, and that pointers
are carried through the system without being counted (`carried`). The weak count is the
one of a balance (`HookLaw`) in which every raise from zero is a weak count that is
missing. For blocks (`BlocksKept`), arrays, lists and
users are three sets that do not meet and together are what was taken from the heap
(`OwnedApart`), no block is in two arrays, no node twice in the lists; each operation
moves a block from one of the sets to another, and what an array holds is what its
own block does, since nobody else has that block. For messages (`MessagesKept`) two
views of a buffer are the same one or apart (`ApartIn`), and all are before what the
pool cuts next (`Before`), so a byte that a message writes while it is alone with its
bytes is read by no other message (`OthersRead`); the users of a buffer are its messages and the pool
(`UsersRight`), so what the pool takes next is free (`UncountedIsFree`). For
serialized buffers (`BuffersKept`) a block is of one growing buffer
(`OneOwnerEach`), and the cells from front to rear are what is pending (`WindowIs`).

*Locks of threads.* The word is 1 exactly while one thread is inside; who takes it
from 1 to 0 wakes a sleeper next, so `NoLostWakeup` is inductive once it is known
that a spin lock has no sleepers. *Sequence lock.* Between two writes all words are
of the last one (`WordsAreRight`), and while the sequence stands where a reader found
it, what it has copied is what the words hold (`CopyIsRight`). *Locks of coroutines.* A
coroutine has seen its request up to a place; of the mutexes up to there it has been
given each or is in its queue, once, and not both (`PlacesAreRight`, `QueueIsRight`).
Its count is that of the mutexes where it is in the queue and of the news it has not
been told yet, of mutexes that are its own already (`DependencyIsRight`); whoever
brings it to zero resumes it, once. A mutex is held by one who excludes, or is counted
by those who share it, and nobody queues at a free one (`MutexIsRight`).

*Sessions.* `IoKeepsSession` is an equation for the references: each thread inside,
each send in flight or finished, and the receive or the coroutine behind it has
one. It needs `RolesAreRight`: the receive and the coroutine that follows it are
one. `QueueIsSent` needs that `_send_time` is on while a send is in hand
(`OneSend`), that what is on the wire and what has left the queue differ by the send
in hand (`MessagesAreRight`), and that bytes are counted before a message is in the
queue, so that a zero means an empty one (`BytesAreRight`).

*The end of a program.* The counter is the number of loops that have not counted
down, and whoever is past the wait has seen zero, so nobody sends ticks any more;
a session is cancelled by the scan only, and the spin lets none through. *Coroutines.* Who may run, free
or resume a frame is a function of its state (`FrameIsRight`), and a parent is
waited for by one (`ParentsAreRight`). *Timer.* A sleeper is in one place
(`LinesAreRight`), the count `_insert_size` is the number of those on their way, and
the thread of the timer sleeps only when it has seen all of them or somebody is
going to wake it (`ThreadIsRight`). *Echo client.* The numbers a dummy expects
are one sequence, oldest first: the echoes in its mailbox, and while its session is
open those on the way back and the numbers on the way there (`OnTheWay`); each step
moves the border between two of these. After the end of a session the echoes in the
mailbox are still the oldest.

**Model-checked only, and why.**

* Liveness under fairness (`CallsEnd`, `MailIsTaken`, `DestroyEnds`, `SessionEnds`,
  `ThreadsGetThrough`, `SuspendedEnters`, `RoundEnds`, `ShutdownEnds`, `SleepersWake`)
  and whatever speaks of ENABLED are out of the reach of the proof system.
* Induction over data cannot be cited, since the provers do not instantiate the
  operator parameter of the induction theorems. Where the proofs of the queue need
  it, they take the least counterexample (`LeastOf`, by well-foundedness of the
  natural numbers), which works for a walk of known length. `ContainersKeepContents`
  and `CommandsAreRight` are about folds over elements (the rehash of a table, the
  copy of a list, the characters of a line), heaps, rings and the words of `Bits`,
  whose community module the provers cannot use, and stay with TLC, as does the
  refinement `TableImplementsElements`.

## 5. What is not modelled, and the plan

Not modelled, and why:

* The linked `library::queue` and the `priority_queue` of nodes: neither compiles
  when it is instantiated (members that do not exist), and nothing does.
* The in-place arena `arena<type, true>`: the same protocol as `Arena` with the object
  in the slot. The destructor of `grc::arena` at the end of a program.
* The network around a session: listening, `AcceptEx` and `ConnectEx` of a socket, the
  arena of sessions, the resolver, whose bodies are compiled; the timeout sweep
  appears in `Session` as a cancellation at any time.
* Conversions of intrusive weak pointers and `use_count`, `unique_pointer`, iterator
  arithmetic, the fixed `array`, formatting and conversions of strings.
* The templates without state (`pair`, `tuple`, `span`, `function`, `template.h`): one
  expression each, computed at compile time. `minimum` of three or more arguments
  calls `maximum` on the rest (function.h:118), which nothing calls with three.
* `echo-server/command.h` is the same text as `echo-dummy/command.h`, which is mapped.
* The performance counters and what the monitors print: input and output. The login
  server, which handles nothing yet.

What a next step would be: the parts of `sequential` that have no fold over data
(`Vector`, whose resize is one, and `Text`) in a run of their own, so that proofs can
reach them, and the refinement by the hash table for the calls that do not rehash.

Abstractions to keep in mind: 32- and 64-bit widths are bounded counters (a
capacity above 65536 would give two slots the same key; the 31-bit count and the
48-bit generation are taken not to overflow); the destructor of `grc::arena` and
of the schedulers at the end of a program are left out; memory allocation does
not fail, as the code never checks it.
