# A verification project for xlibc

xlibc is a C library of small services for programs on Linux: an asynchronous
queue, an event loop, a hash table, traced allocation, a heap, arrays, messages
between processes, commands, locks, a log, and many helpers. This directory has
TLA+ models of its parts, TLC configurations that check them on small instances,
and proofs, checked by TLAPS, that hold for instances of any size.

Paths below are relative to the repository (`src/xqueue.c` is the file in its
directory `src`). `PROJECT.json` lists the components, the runs, the hazards, the
findings and the theorems, and it maps every definition to its lines of code.
The definitions whose comment begins with "Mutant:" are deliberately wrong
versions of the code. Each property was checked once with one of them in the
place of the right definition, and it fails: it does depend on that line.


## 1. The system

Most of the library is independent parts; a program combines them. What they have
in common is the way they are called: by several threads with the part's own
mutex (queue, hash table, table of allocations), or by the one thread that owns
the object (the rest). Few interactions cross parts: `xalloc` calls the hooks of
`xtrace2`, which stores its records in an `xhash`; the event loop calls the program's
callbacks, which call the event loop; the queue and the loop link their objects in the
lists; the wrappers call each other; and all parts may write to the log.

| Part | State | Operations | What is hard |
|---|---|---|---|
| Queue, `xqueue.c` | list, its length, mutex, counting semaphore | enqueue, dequeue, handle, dump, traverse | the limit is tested without the mutex; tokens and nodes do not correspond; several handlers |
| Event loop, `eloop/eloop.c` | three tables of sockets, `fd_table`, the epoll instance, the list of timeouts, the signals with their notes, the loop | register and unregister sockets; register, cancel, deplete, replenish timeouts; register signals; terminate; run | callbacks change what the loop is working on; signal handlers between any two statements; reallocations that fail; a sleep that must not be too long |
| Hash table, `xhash.c` | chains of buckets, a count, a read-write lock | get, lookup, set, delete, release, clean | who frees an item; reading after the unlock; colliding keys |
| Allocation, `xalloc.c`, `xtrace2.c` | the heap; records of live addresses per site | malloc, calloc, strdup, realloc, free, report | a block is freed before it is forgotten, so that other threads meet its address |
| Heap, `xheap.c` | slots, size, items in use | push, pop, destroy | bounds with one child, two or none; ties; growth that fails |
| Array, `xarray.c` | places, size, count | append, set, remove | grows and shrinks by itself; some indices and sizes go outside of its block |
| Messages, `xipcmsg.c` | a connection, or a socket with clients | send and receive, TCP and UDP | partial transfers, broken sends, lost and mixed datagrams |
| Commands, `xexccmd.c` | pipe, children, handler of SIGCHLD | xspipe_cmd | signals merge; children that leave processes behind; when the handler is installed |
| Locks, `xfile.c` | descriptors; the kernel's locks | xflock, xfunlock | the descriptor is not returned |
| Log, `xdebug.c` | destination, limit, level, file and swap file | xlogfile, xlogfsize, xloglevel, log | redirection while a file is full, a reopen that fails |
| Transfers, `xfile.c` | bytes moved so far | xread, xwrite, xfile_read | short, interrupted and failing system calls |
| Wrappers of system calls, `xsocket.c`, `xnetif.c`, `xfile.c`, `xexccmd.c`, `xsystem.c`, `xscript.c`, `os_unix.c` | what a call holds: descriptors, streams, memory, files | sockets, routes, interfaces, commands, temporary files, daemons | any call within may fail |
| Sums, `xsha1.c`, `xcrc32.c`, `xcrc8.c` | the context of a digest; the loop over a file | init, update, final, HMAC, PRF, stream; buffer, file | a counter of bits in two words, ends of blocks, short reads |
| Bitmaps, `xbitmap.c` | words | zero, fill, set, unset, copy, find, text | the bits of the last word |
| Conversions, `base64.c`, `xurl.c`, `xmac.c` | one buffer; a MAC address | encode, decode, escape, parse, count | sizes of targets, padding, carries |
| Strings and options, `xcharstr.c`, `xarray.c`, `xfcfg.c` | one buffer; the options | copies, words, tokens, lines to options | room that is just short; lines of every form |
| Random numbers, `xrandom.c` | a box and the places of eight generators | draws, ranges | a box that all generators share |
| Lists, `xlist.h`, `xlist.c`, `eloop/list.h` | links | add, delete, cut, splice, get, walk | links in two directions; nodes that leave under a walk |
| State machines, addresses, epoll, ioctl, time, cJSON | none of their own | macros, wrappers, third-party code | see section 7 |

What makes each part correct:

- Queue: a bounded first-in, first-out queue. Nothing is lost, nothing is handled
  twice, nobody sleeps while there is work.
- Event loop: a registered socket's events reach its handler and no other's;
  timeouts are called in order and in time; a signal reaches its callback;
  `eloop_terminate` ends the loop.
- Hash table: a store with one item per key, which owns exactly what it stores.
- Allocation: the table has exactly the live blocks.
- Heap: a bag from which the least item is taken. Array: a list with holes,
  which stays within its block but for the calls that are known not to.
- Messages: whole messages, in order, from the sender that is named.
- Commands: the whole output, no zombies. Locks: exclusion, and an unlock that
  unlocks. Log: the latest messages without a gap, and less than one
  message beyond the limit.
- Transfers: no byte is lost or moved twice. Wrappers: on every path, what a call
  acquires is released once or given to the caller.
- Sums, conversions, bitmaps, strings, options: each function is what its
  definition says, at every boundary of its buffers. Random numbers: the box stays
  an arrangement of its values. Lists: sequences that read the same both ways.


## 2. Modules and code

| Module | Models | Remarks |
|---|---|---|
| `FifoQueue` | what the queue promises | Accept, Take, Finish on a bounded sequence |
| `XQueue` | `src/xqueue.c`: `xqueue_init`, `_enqueue`, `_dequeue`, `_handle` | one action per step that another thread can see between |
| `XQueueView` | `xqueue_dump`, `xqueue_traverse`, with `XQueue` | the walk is one node a step |
| `XQueueProofs` | the theorems about `XQueue` | |
| `ELoopSocks` | sockets of `src/eloop/eloop.c` | a call is a step; an action for each step of a registration that may fail |
| `ELoopTimeouts` | its timeouts and the clock | a time is a number of microseconds, cut at the largest `os_time_t` |
| `ELoopSignals` | its signals | one action for every statement that touches what the handler writes |
| `ELoop` | `eloop_run`, composed of the three, with callbacks, kernel and clock | `pc` is the statement of the loop |
| `ELoopPartsProofs`, `ELoopProofs` | the theorems about the three parts, and about `eloop_run` | |
| `KeyedStore` | what the hash table promises | |
| `XHash` | `src/xhash.c` | a critical section is a step; the read after the unlock is another one |
| `AllocTrace` | `src/xalloc.c` and the hooks of `src/xtrace2.c` | the C library's call and the hook are two steps |
| `PriorityBag`, `XHeap`, `XHeapProofs` | `src/xheap.c`, its promise, its proofs | the two sift loops step by step |
| `TablesProofs` | the theorems about `XHash` and `AllocTrace`, and about their composition with `XList` in `MCTables` | |
| `HoleyList`, `XArray` | `src/xarray.c` and its promise | |
| `IpcTcp`, `IpcUdp` | `src/xipcmsg.c` | the stream and the datagrams are variables |
| `XExecCmd` | `src/xexccmd.c`: `xspipe_cmd` and its handler | the child and what it leaves behind are actions |
| `XFileLock` | `src/xfile.c`: `xflock`, `xfunlock` | descriptors and locks as the kernel keeps them |
| `XLog` | `src/xdebug.c`: the log | a message is a number and a length |
| `XTransfer` | `src/xfile.c`: `xread`, `xwrite`, `xfile_read` | a step is a system call, which moves any part, is interrupted, or fails |
| `XCalls` | what the wrappers of system calls hold, in nine files | a function is a script: at each label the set of outcomes of the next call; calls nest |
| `XSha1` | `src/xsha1.c` | the compression of a block is a term: two digests are equal exactly if their blocks are |
| `XCrc` | `src/xcrc32.c`, `src/xcrc8.c` | tables of a small polynomial, against the division bit by bit |
| `XBitmap` | `src/xbitmap.c` | a word is a set of bits |
| `XCodes` | `src/base64.c`, `src/xurl.c`, `src/xmac.c` | a unit of `Unit` bits stands for two; every text up to a length is converted |
| `XTexts` | `src/xcharstr.c`, `src/xfcfg/xfcfg.c`, the texts of `src/xarray.c`, `hash_buffer`, `os_strlcpy` | every text up to a length is copied, cut, split and read as lines of options |
| `XRandom` | `src/xrandom.c` | the box with any order of the generators; what C leaves undefined may end a program (`wrecked`) |
| `ListStore`, `XList` | `include/xlist.h`, `src/xlist.c`, `src/eloop/list.h`, and what they promise | a function is its assignments to next and prev, in their order; `call` has its name and arguments, and the promise of a call is about the same name and arguments |
| `XListProofs` | the theorems about `XList` | rings of memory, one lemma for what each call does to them |
| `ServicesProofs` | the theorems about `XArray`, `XFileLock`, `XExecCmd`, `XLog`, `IpcTcp`, `IpcUdp`, `XTransfer`, `XBitmap`, `XCodes`, `XRandom` | |
| `SequenceLemmas` | the lemmas about sequences that the proofs share | inserting, removing, least elements |
| `MC...` | instances for TLC | `MCELoopParts`, `MCTables`, `MCAlgorithms` and `MCParts` put modules that share no variable into one run: every behaviour uses one of them |

Values are abstracted to what the code compares: a pointer is a model value, the
counter of a signal a Boolean (it is only compared with 0), a message a sequence
of words that tell their place, a hash function a map with chosen collisions.
Control is not abstracted: early returns, the steps after a failure, and reads
and writes outside of a lock are there.

Some variables (the *ghosts* `accepted`, `stale`, `serial`, `fired`, `owed`, `lost`, `asked`,
`slept`, `missed`, `intact`, `order`, `logged`, `answer`, `call` of the lists, `lastCall`, and
likewise `moved`, `owner`, `inside`) record the past for a property. Those of the algorithms (`fed`, `bits`, `seed`, `draws`, `told`,
`moves`, `met`, `due`, `spent`) do too. No guard of the library's own steps reads them; those that
tell what a *caller* does may: it unregisters, unlocks or stores only what it has
registered, has locked or owns. Three others mark that C no longer says what the program does,
or that it has crashed: `overrun` (array), `wrecked` (random numbers) and `crashed` (log).
Their part has no step after that, and nothing is claimed of it.

### The queue

`list` is the linked list, `content` what malloc has handed out, `qnode` and `pc`
the local variable and the place of a thread. `EnqueueStep` is `xqueue_enqueue` in
eight actions (test of the limit, malloc, its failure, lock, link, count, unlock,
post). `HandleStep` is `xqueue_handle` with `xqueue_dequeue` in nine. The
semaphore saturates at `SemMax`, as `sem_post` fails at `SEM_VALUE_MAX` and its
result is ignored.

### The event loop

The loop is single-threaded and therefore an operation on a socket or a timeout is
a step; the signal handler is the exception, and every statement of
`eloop_process_pending_signals` that it can meet is one. In `ELoop` a callback is a
state (`timeout_call`, `sock_call`, or a signal's) in which any number of calls are
made before it returns.

The realloc of `eloop_register_signal` and its publication are two actions, for a
signal may come between. The handler then writes its note into the array, or, if
realloc has moved it, into the block that was freed: the ghost `lost` has the entries
whose only note went there.

Reading the clock (`ReadClock`) and calling `epoll_wait` (`Sleep`) are two actions,
between which time passes and signals come. The ghosts `asked` and `slept` are their
times. The number of milliseconds is converted to an `int` of `IntMax`.

### The services

`XArray` has every index and every size. A call that reads or writes outside of the
block sets `overrun`: an index of exactly twice the size, for which the block is doubled
and one place more is written (`xarray.c:198`), and what meets a `count` that is larger than the size,
as it is when a place behind the last element was removed from the end (`:338` compares the
index with the size only) or the array was made shorter than its elements. `StaysContained` says
that no other call leads there. `lastCall` is the name and the arguments of a call, and
`HoleyList` says for each what it does to the list.

`XLog` keeps for each log file its messages and its size (`st_size`). The size is
compared with the limit before a message of any length is written, so what can be promised is
that a log was below its limit before its last message (`PassesLimitOnce`).

`IpcTcp` lets `recv` return any part of what is there, and `send` break off
anywhere. `IpcUdp` may lose any datagram and keeps the order of the others (one
host). `XExecCmd` has a second child that the program has forked itself, and
processes that a command leaves in the background and that hold the pipe open.
`XFileLock` has the rule of `fcntl` that closing any descriptor of a file drops the
process's lock of it.

### The algorithms

The modules from `XSha1` to `XRandom` have the functions as operators, in the order of
their assignments and with the bounds of their buffers, and a state machine that
feeds them: a text that grows by a character, a context that grows by a piece, two
bitmaps under any calls. Each property compares them, in every state, with a
reference definition that does not use them (the standard's padding, the division
of polynomials, the set of offsets, base64 read from its alphabet, the options read
from the last line that gives a value). In `XCalls` the wrappers are tables of outcomes; a
path of the C function is a path through its labels.

### The lists

`XList` has the memory as two functions, next and prev; a node that is in no list
has NULL in both. A list whose nodes were given away by a splice without init is
`spent` until it is made again or cut into: its head still points into the other list.
`call` is the name and the arguments of the last call: `ListStore` has an action of its own
for each (`Add` and `AddTail`, `Move` and `MoveTail`, `Splice` and `SpliceTail`), so one that does
nothing, or what another one should, is no step of it.
A walk (`dl_list_for_each_safe`) keeps its node and the next one; its body takes out the
node it is called for, and may link it again before or in another list, which is
what the loops over timeouts do.


## 3. Runs

| Run | Instance | States | Shows |
|---|---|---|---|
| `xqueue` | 2 producers, 2 handlers, 3 nodes, limit 1, semaphore saturating at 1 | 129,232 | types, the overrun is at most producers - 1 (`BoundedOverrun`), `NoLostWakeup`, `SingleOwner`, refinement of `FifoQueue`, and every node in the list is handled |
| `eloop_parts` | 3 types, 3 descriptors, tables that start with 2 and 1 places; 3 timeouts of 3 keys; 3 signals | 249,328 | `SocksFit` (`CountsFit`, `IndicesFit`), `SocksAreServed` (`RegisteredIsServed`, `ServedIsRegistered`), `TimeoutsInOrder`, `TimeoutsAreKept` (`CalledInOrder`, `OthersUntouched`), `SignalsAreKept` (`NoSignalLost`, `AlarmIsCalledOff`) |
| `eloop_events` | 2 sockets and a timeout, callbacks that do anything | 384,284 | a handler is called for an event of its own registration, from results that are still allocated |
| `eloop_live` | one socket, a termination signal, and timeouts near or too far away for an `int`, two registrations of either kind in all; a clock of half milliseconds | 565,409 | `WakesForFirstTimeout`, and the liveness of the loop |
| `tables` | 2 threads, 3 keys with a collision, all in a chain, 5 items; 3 threads, 3 addresses, 2 sites; 2 lists, 3 nodes | 200,301 | the hash table (`ChainsAreSound`, `OwnsItsItems`, refinement of `KeyedStore`), the table of allocations (`BlocksAreRecorded`: `RecordsBalance`, `FreesAreFound`), the lists (`ListsHold`, and `CallsChangeSequences`, the refinement of `ListStore`) |
| `parts` | 6 items with ties; 3 elements; 4 messages; 2 commands; 2 processes; 4 log messages of 2 lengths; and the algorithms | 638,288 | fifteen parts: the heap, the array (`ListIsKept`), TCP, UDP, the commands (`ExecIsClean`), the locks, the log (`LogIsKept`), sums (`SumsAreStandard`), wrappers (`NothingLeftBehind`), `TransfersAreWhole`, `BitmapsAreSets`, `CodesAreInverse`, `TextsKeepTheirWords`, `BoxKeepsItsValues` |
| `xqueue_view_lock`, `eloop_killed`, `eloop_many_fds`, `xhash_stale_answer`, `udp_sender`, `file_unlock` | | | the findings of section 6: each has one property, which TLC finds violated |

### Why these bounds

- Queue: two producers are what it takes to pass the test of the limit together,
  two handlers to find the list empty after a wakeup; a limit of 1 is overrun by
  the second node, and a third node comes when a handler is freeing. The semaphore
  saturates with the second token. The theorems of section 5 lift all of these.
- `eloop_parts`: `fd_table` grows at the third descriptor and the array of results
  at each of the first registrations. With three timeouts one is inserted between
  two, with the same time as either. Delays include 0, ties, and one that overflows
  `MaxSec`. Three signals of which two terminate, so that one is scanned while
  another comes.
- `eloop_events`: with two sockets the callback of the first invalidates the result
  of the second. `MaxCount` bounds the registrations that fail and stay in the table.
- `eloop_live`: `Milli` is 2, so that what is left of a delay may be no multiple of a
  millisecond and is rounded; `IntMax` is 2, so that the 3 milliseconds of the longer delay
  (6) are negative in an `int`; a unit of time may pass between reading the clock and
  `epoll_wait` (`MaxPause`). The second timeout may be registered by the callback of the
  first. `MaxRegistered` is 2: two timeouts, or a signal and a timeout, since a
  program that has a signal and two timeouts is beyond five minutes.
- `tables`: a chain of three has a first, a middle and a last bucket; a key has
  items that are equal and items that differ, for the three branches of `hash_set`.
  Three threads and three blocks let an address be freed, given away, recorded and
  freed again before it is forgotten.
- `parts`: six items make a heap of three levels that has been doubled twice (the first
  array has two slots). A chain of four messages has one that is too long for the
  receiver, and lengths on either side of a header's. The log reaches its limit and
  is swapped with messages on both sides; a message may be longer than its limit (3, with
  limits of 2 and 3), or be one of several below it. An array of 3 elements has indices up to
  3 and sizes up to 4, which has every order of index, count, size and twice the size.
- Lists, in `tables`: three nodes are a first, a middle and a last; a second list
  to cut into and to splice from.
- Sums, in `parts`: blocks of 4 bytes, and 10 bytes at most, so that a message ends just
  before, at and after the end of a block, and the padding needs a block of its
  own or not; a counter whose low word overflows after 8 bytes (`WordValues`); keys
  shorter than a block, as long, and longer. A stream of two full reads and a byte.
- Bitmaps: 1 to 5 bits in words of 2, so that the last word has one bit, or all.
- Texts: all of up to 5 characters of 6 kinds (digit, unit, space, equals, comment,
  newline), which has every order of the delimiters in a line with name and
  value; a second line before and behind; the line buffer holds 5; a joined text has room for 4
  characters, so that some fit, some do not, and some are written beyond. Conversions: all
  texts of 5 of 7 characters: a full group of base64 with a character more.
- Wrappers: no bound; every path through every function is followed once.
- Random numbers: three draws of eight generators on a box of 4 with all values or
  with ties. Transfers: 5 bytes, chunks of 2, two failures.

In `eloop_parts`, `tables` and `parts` symmetric model values are declared as
such. None of these runs has a liveness property.

Deadlock is checked in `xqueue`, `eloop_parts` and `tables`. The others really may
stop: eloop_run returns or the program is killed, a connection is closed, a heap
has lost its slots, a program has crashed in its log.

Bounds that are guards are named: `MaxCount`, `MaxTimeouts`, `MaxNow`,
`MaxCallbacks`, `MaxPause`, `MaxRegistered`, `MaxPlace`, `MaxLength`, `Calls`, `MaxChunks`, `MaxFd`,
`MaxMessages`, `MaxFed`, `MaxBits`, `MaxTyped`, `MaxMoves`,
`MaxText`, `MaxDraws`, `MaxErrors`. `Nodes`, `Items`, `Buckets` and `Addrs` are bounds of memory.


## 4. What is assumed

### Fairness

- Queue: weak fairness of each thread's next step once it has begun a call (a
  handler never ends). This is no more than that the scheduler runs every thread
  that can run: `pthread_mutex_lock` and `sem_wait` are *not* assumed to be strongly
  fair, a thread may lose the mutex as long as others take it. The limit of the
  queue, or memory, makes producers leave it alone in the end.
- Event loop: weak fairness of `Run` (the program calls `eloop_run`), of `LoopStep`
  (the process is scheduled and callbacks return), of `Clock` (time passes), and of
  the second half of `eloop_register_signal` (a call that was begun ends). Sockets
  and signals need not come, and a callback need not terminate anything.

The other modules have safety properties only.

### What the code leaves to its callers

These preconditions are constants or guards of the models. Each was found
necessary: without it the property named does not hold.

- Event loop: a descriptor is registered for one type of event at a time
  (`OneType`; `RegisteredIsServed`), because epoll has one entry per descriptor, its
  removal removes both, and a second `EPOLL_CTL_ADD` fails. Descriptors are fewer
  than twice the size of `fd_table` (`FewFds`; `IndicesFit`, see the findings). A
  signal has one callback (`OncePerSignal`; `NoSignalLost`). Seconds do not overflow by the carry of the microseconds
  alone, which the code adds after its test (`TypeOK`). The growth of the table of
  sockets does not fail in the runs of `eloop_run` (`MayFail`): a failure after the
  array of results was reallocated, with no `changed` flag set, leaves the loop with
  results that are gone (`ResultsAreAlive`).
- Hash table: the functions of the user are pure, and `malloc` succeeds
  (`hash_set` does not test it).
- Array: nothing; every index and size is in the model. From the first call that goes
  outside of the block on nothing is claimed (`overrun`).
- TCP: the magic number is in no payload and no payload is empty; a sender whose
  call failed closes the connection. UDP: one client, and nothing is lost, for
  `ServedAsSent`.
- Locks: one file, for `LockExcludes` (`xfunlock(0)` may close a descriptor of
  another file, and so drop that file's lock).
- Lists: a node is added when it is in none; the list that is cut into holds
  nothing; after a splice without init the list that was given is not used.
- Texts: a copy in one memory goes towards the front or behind the text, lines fit the buffer, items are no longer than a
  step of `hash_buffer`. Bitmaps: offsets below the length, and a `long` that has the 32 bits of
  the header. Base64: room for a byte more when the text is padded.
- Random numbers: nothing; after a division by zero or a harmful store nothing is claimed
  (`wrecked`).

### Facts that no property states

- Sockets: a registration whose `epoll_ctl` fails returns -1 and stays in the table.
  `eloop_replenish_timeout` with two timeouts of one key may leave the last of them
  earlier. `timeout_ms` keeps the value of an earlier iteration when no timeout is
  left: with 0 the loop is busy.
- Allocation: after a free and a malloc of the same address by two threads, a
  record may name the site of the other one. `xfree(NULL)` prints "shouldn't
  happen".
- TCP: 0 is returned for the end of the connection between two messages and within
  one. UDP: after a loss the server may take data for a header, and stay out of step.
- Commands: a child that exits before the first call has installed the handler
  stays a zombie (`missed`). The handler waits for all children of the program,
  and the program stands still as long. A `fork` that fails leaks the pipe.
- Locks: an `xflock` that fails leaks a descriptor.
- Array: `xarray.c` writes behind the block for an index of exactly twice the size, and
  loses count of its places when one behind the last element is removed or when it is
  shrunk below its elements (`overrun`, `Contained`). No comment promises limits for these calls.
- Log: `xdebug.c:42-44` calls the limit that of the size of the file, but the last message may pass
  it, by all but one byte of its length. `xlogfile(NULL)` and `xlogfile("syslog")` leave a stream in use that was
  there before; a full standard error makes the last log *file* be swapped;
  `xlogfsize` tests the old limit (once it is 0 or less than 512, it never changes
  again); a reopen that fails ends in `fprintf(NULL, ...)`, after which the model has
  no step (`crashed`).
- Wrappers: the paths of `Forgotten` in `XCalls` leave something behind: the socket when a
  `bind` fails, the pipe when a `fork` fails, the output that could not grow, the route
  that was found, the temporary file whose name cannot be read, descriptor 0 (taken
  for a failure in `xrand_rc4_init`). `get_default_gw` may crash without memory.
- Transfers: `xfile_read` keeps the result of `read` in an unsigned variable: an error is a
  length, and the copy of it does not end well (`XTransfer` gives it a result of its own).
- Event loop: a signal that comes between the realloc of `eloop_register_signal` and the
  assignment of `eloop.signals` writes its note into the block that was freed if realloc has moved
  the array; that note is lost (`lost`), and `NoSignalLost` is about all others. When the first timeout is
  farther away than an `int` of milliseconds holds (some 25 days), `epoll_wait` may get a negative
  number and sleep until something else happens, although eloop.h:176 says the handler is called
  after the given time; `WakesForFirstTimeout` names exactly that case. `eloop_destroy` leaves the handlers of the signals installed and
  `signal_count` as it was, and `eloop_init` forgets an alarm that is running.
- Bitmaps: with a `long` of 64 bits, offsets from 32 on are written behind the end of a
  map whose words are counted by 32; a text whose length is no multiple of 8 is
  written to word -1.
- Hash table: `hash_buffer` writes an item that is longer than a step beyond its buffer, and with no
  item it calls `free` for the address of the caller's variable (`xhash.c:403`) and loses the buffer.
- Strings: `xarray2str` may write three characters behind its buffer; `xstrcpy` does not end if
  its target lies within its source, although `xcharstr.c:18` says it "can do overlapping copys"; `xstrcmp` orders NULL above a text that begins
  with a character above 127. `xurl_unescape` reads behind a text that ends within an escape.
- Base64: without a target, bits that are left over are not refused; with one they are.
- Options: a number may be no number (the value is 0 then), a long line is read as two.
- Random numbers: `xrand_range` divides by zero for the range of all numbers, although `xrandom.c:635`
  says "random choice a value in [min, max]"; `xrand_rc44` to `xrand_rc48` store 24 bytes beyond their
  result on the stack. Either may end the program: both set `wrecked`, the second one or not.


## 5. Proofs

All constants are arbitrary but for the named assumptions of the modules, which TLC
evaluates in the runs that use the module. They say what the constants are
(`ThreadsAssumption`: producers are finitely many, at least one, and no handlers;
`FdsAssumption`: descriptors are finitely many numbers; `HashAssumption`: the
function of the user gives a number; `LoopAssumption`: a unit of time
has milliseconds, `Never` is no time; `TcpAssumption`: no payload is empty;
`LinksAssumption`: heads, nodes and NULL differ, and nodes are finitely many;
`RandomSizes`: a box is filled with values of a byte), never
how many threads, items, descriptors, messages or bytes there are.

Some theorems have a hypothesis. Each is a condition that the code leaves to its
callers, or to the allocator (section 4), and some values of the constants satisfy it:
those of the runs do.

| Hypothesis | Says | Needed for |
|---|---|---|
| `FewFds` | one doubling of `fd_table` is enough for every descriptor | `IndicesFit`; without it, finding 3 |
| `OneType` | a descriptor is registered for one type of event at a time | `SocksAreServed`, `CalledForItsOwnEvent` |
| `NoCarry` | no time overflows by the carry of the microseconds alone | the types of the times, `CalledInOrder` |
| `OncePerSignal` | a signal has one callback | `NoSignalLost` |
| `TablesGrow` | the array of a table can grow whenever the array of results can | `ResultsAreAlive` |
| `OneFile` | there is one file to lock | `LockExcludes` |
| `OneClient` | one client sends to the server | `ServedAsSent` |
| `OneLong` | a `long` has the bits of the header | `BitmapsAreSets` |

### `XQueueProofs`

`SectionInv` is inductive: `TypeOK`, `HoldInv` (a thread has a node exactly at the
places where its local variable is used), `LockInv` (the owner of the mutex is
exactly the thread in a critical section) and `CountInv` (outside of critical
sections `qnode_num` is the length of the list; within one it differs by the
statement that is missing). `TypeOK` alone is not inductive: `qnode_num` stays natural
because the list is not empty when it is decremented, which is `CountInv`, which
needs that nobody else is between the same two statements, which is `LockInv`;
and that what is linked is a node and not NULL is `HoldInv`.

| Theorem | Establishes | Argument |
|---|---|---|
| `SectionInvariant` | `[]SectionInv`, with it `[]TypeOK` | one step per action |
| `WakeupNeverLost` | `[]NoLostWakeup` | only `LinkNode` makes the list longer, and its producer is about to post; a handler leaves only when it has seen an empty list under the mutex |
| `OverrunBounded` | `[]BoundedOverrun` | `OverrunInv` counts the producers that passed the test but have not counted their node: they and the nodes are at most limit + producers - 1 |
| `NodesHaveOneOwner` | `[]SingleOwner` | a node goes from malloc to a thread, to one place of the list, to one thread, and back |
| `QueueIsFifo` | `Spec => ImplementsFifo` | `QueuedItems` and `Working` are the mapping: `LinkNode` is Accept, `UnlinkNode` is Take, `Handle` is Finish, and the rest are stutters; `BoundedOverrun` gives Accept its guard |

### `XHeapProofs`

`HeapInv` is inductive: `HeapTypeOK`, `HoleInv` (where the hole may be in each loop),
`DistinctInv` (no item is twice in the heap), and `OrderInv` (every active slot is in
order with its active children, *and* the parent of the hole with the hole's
children, so that the order survives when the hole moves over them).

| Theorem | Establishes | Argument |
|---|---|---|
| `HeapInvariant` | `[]HeapInv` | one lemma per action |
| `HeapTypeCorrect` | `[]HeapTypeOK` | part of it: no index outside of the slots |
| `HeapIsOrdered` | `[]HeapOrder` | between the calls every slot is active |
| `HeapIsBag` | `HeapSpec => ImplementsBag` | `Held` is the mapping; that the top is least is proved by a least counterexample (its parent would be a smaller one) |

### `ELoopPartsProofs`

The sockets have two inductive invariants. `ArraysInv` is `SockTypeOK`, `EntriesInv`
(`count` is the cardinality of the set of places that are taken in all tables, and
fits in the array of events) and `SizeInv` (`fd_table` has its first size once it is
there, so that doubling it makes room). That `count` is a *number of entries* is
what makes the decrement of an unregistration right after any registration that
failed half-way. `ServedInv` adds that a socket is in one table (`OneTableInv`, the
use of `OneType`) and that what the kernel watches was registered with success
(`WatchedInv`): the entry that a failed registration leaves behind is then neither
watched nor dispatched, and removing it does not disturb another table.

The list of timeouts has `ListInv`: it is in order and nothing in it is younger than
the last registration, which is why a new timeout goes behind its equals. It holds
also when times overflow. `FiredInv` is about the time that has passed: what was
called last comes before all that is listed and before all that may yet be
registered.

The signals have `ScanInv` (the index of the scan points to an entry wherever it is
used; `PendingInv`: between `alarm(0)` and `pending_terminate = 0` a termination is
pending, so that a handler that comes there does not start the alarm again) and
`NotesInv` (one entry per signal; what is owed is marked, and the scan is still to
pass it or `signaled` is set).

| Theorem | Establishes | Argument |
|---|---|---|
| `CountsAreKept` | `[](SockTypeOK /\ CountsFit)`, whatever fails | `ArraysInv`; one lemma for entering a socket, one for removing it, one for each way a registration ends |
| `SocksAreInBounds` | `FewFds => ... []SocksFit` | `ArraysInv` and that a watched socket has its place in `fd_table` |
| `RegisteredAreServed` | `OneType => ... []SocksAreServed` | `ServedInv` |
| `TimeoutsSorted` | `[]TimeoutsInOrder` | `ListInv`; each call is removals followed by at most one insertion |
| `OtherTimeoutsUntouched` | `OthersUntouched` | what does not match stays: removing and inserting commute with leaving out the key |
| `TimeoutsTyped` | `NoCarry => ... []TimeoutTypeOK` | `FiredInv` |
| `TimeoutsKept` | `NoCarry => ... TimeoutsAreKept` (`CalledInOrder`, `OthersUntouched`) | `FiredInv` |
| `SignalsAreTyped` | `[](SignalTypeOK /\ AlarmIsCalledOff)` | `ScanInv`, for every order of the statements of the handler and the scan |
| `SignalsKept` | `OncePerSignal => ... []SignalsAreKept` | `ScanInv` and `NotesInv`; `NoSignalLost` is about all notes but those in `lost` |

### `ELoopProofs`

Every step of `eloop_run`, of a callback and of the environment is a step or a
stutter of each of the three parts (`RunsItsParts`), and so the theorems above
hold of `Spec` (`RunKeepsSocksInBounds`, `RunServesRegistered`, `RunKeepsOrder`,
`RunKeepsTimeouts`, `RunKeepsSignals`). What the loop adds has invariants of its own.
`EventsInv`: unless a `changed` flag is set, every result is of a socket that is
still watched and was not closed since; it is what makes `eloop_sock_table_dispatch`,
which looks for the flag after every callback, right. `AliveInv` is the same for the
array the results are in. `AskedInv`: at the call of `epoll_wait` the milliseconds
are still those until the first timeout, from when the clock was read.

| Theorem | Establishes | Argument |
|---|---|---|
| `RunTyped` | `NoCarry => ... []TypeOK` | the parts and `LoopTypeOK` |
| `CalledForOwnEvents` | `OneType => ... CalledForItsOwnEvent` | `ServedInv` and `EventsInv` |
| `CallsForTheirEvents` | `OneType /\ TablesGrow => ... CallsAreForTheirEvents` | `AliveInv` |
| `RunWakesInTime` | `[]WakesForFirstTimeout`, for any delays | `AskedInv`; the division rounds down, and an `int` holds no more of a natural number than the number, and all of it if it fits (`ToIntBound`) |

### `TablesProofs`

`HashInv` of the hash table is inductive: `HashTypeOK`, `ChainsInv` (a bucket is in the chain of its
key, there once, exactly if it is allocated), `CountInv` (`hash.count` is the number
of allocated buckets), `OnePerKey` and `OwnsItsItems`. `ChainsAreSound` alone is
not: that looking through one chain finds a key that *any* bucket has needs
`ChainsInv`, and that `hash_set` makes no second bucket needs that finding.

| Theorem | Establishes | Argument |
|---|---|---|
| `TableIsSound`, `TableOwnsItsItems` | `[](HashTypeOK /\ ChainsAreSound /\ OwnsItsItems)` | `HashInv`; lemmas for a bucket put in front of a chain, taken out, or given another item |
| `TableIsStore` | `HashSpec => ImplementsStore` | `StoreOf` maps the buckets to the store; it changes for one key when one bucket changes |

`AllocInv` of the table of blocks is `AllocTypeOK`, `RecordingInv` (a block that is to be recorded is live
and one thread's) and `Balanced` for every address: its records and the threads that
are to record it are as many as the threads that are to forget it and the block
itself, if it is live. The balance is an equation of cardinalities of sets, because
`FreesAreFound` follows from a *count*: a thread is to forget the address, hence there
is a record. `alloc_hash_remove` moves the last record of a site to the place of
the one it removes, which keeps the number of the other addresses.

| Theorem | Establishes | Argument |
|---|---|---|
| `BlocksRecorded` | `[](AllocTypeOK /\ BlocksAreRecorded)` | `AllocInv`; one lemma for the effect of a step on one thread's counts, one each for insertion and removal |

The run `tables` checks both tables and the lists in one specification,
`TablesSpec`. `TablesCompose` proves that it implies the three specifications, since
a step of one part leaves the variables of the others alone; what the run checks
of the lists and of the types follows from the theorems about the parts.

| Theorem | Establishes | Argument |
|---|---|---|
| `TablesKeepTheirTypes` | `TablesSpec => []TablesTypeOK` | `TablesCompose`, `TableIsSound`, `BlocksRecorded` |
| `TablesListsHold`, `TablesCallsChange` | `TablesSpec => []ListsHold`, `TablesSpec => CallsChangeSequences` | `TablesCompose`, and the two theorems of `XListProofs` |

### `XListProofs`

What the runs check of the lists is said in terms of `ListOf`, which follows the
links of one head until it is back. That is not inductive: after an assignment in
the middle of one ring nothing is known of where the links of any ring lead.
`ListsInv` says it the other way round. `HoldsLists(m, gone, L)`: the memory `m`
holds the lists `L`, a sequence of nodes for each head. Every ring has next and prev
between neighbours of its sequence (`IsRing`), no node is at two places of them
(`Distinct`), and a node at none has no links. Each call is then one lemma about a ring
(`InsertRing`, `RemoveRing`, `SpliceRing`, `CutRing`, `HeadReset`), which says what
sequence it holds after a change of the links of four cells at most, and one that
the assignments of the C function, in their order, are that change
(`AddedLinks`, `DeletedLinks`, `SplicedLinks`, `CutLinks`); both cover the cases in
which neighbours are the same cell. `RoundIs` proves that
following the links reads the sequence, by the least place where it would not:
hence `L` is `AsSequences`, the refinement mapping.

`WalkInv` is what a walk needs: the list of its head ends with what it has still to
come to, its next node is the first of these, and the node that its body may take out
is none of them. So a body may take its node out and link it in front, or
into another list, and the walk loses nothing and comes to nothing twice. What
is linked behind would be met again: the model's body does not do it, as the
loops over timeouts do not.

| Theorem | Establishes | Argument |
|---|---|---|
| `ListsLinked` | `ListSpec => []ListsAreLinked` | `ListsInv`; `ListsRead` gives both directions and the tests of a list from its sequence |
| `ListsAreSequences` | `ListSpec => ImplementsLists` | each call maps to the step of `ListStore` that has its name and its arguments (`call`); only the steps of a walk map to stutters |

### `ServicesProofs`

| Theorem | Establishes | Argument |
|---|---|---|
| `ArrayIsList` | `ArraySpec => ListIsKept`: `[]ElementsFit`, `StaysContained`, and the refinement of `HoleyList` until the block is overrun | `ElementsFit` is inductive; `ListOf` with `lastCall` is the mapping, so that each call does what its name and arguments say, and `ResizedIs` what growing and shrinking leave of the places; `ContainedStep` goes through the calls for the ones that leave the block |
| `LocksExclude` | `OneFile => ... []LockExcludes` | `InsideHolds`: who is inside is the holder that the kernel knows; there is one holder |
| `ExecLeavesNothing` | `[]ExecIsClean` | `ReturnedInv`: when a call has returned, its child has ended and nobody has the pipe open, so the output is what was written and stays so |
| `LogKeepsTheLatest` | `LogSpec => LogIsKept` | `LogInv`: swap file and file together are the end of what was logged; the end of a sequence stays one when both grow by the same message, or when its front is dropped; a message goes to a file that is below its limit, or was just emptied (`LimitStep`) |
| `MessagesKept` | `[]MessagesAreKept` | `TcpInv`, below |
| `ServedInOrder` | `OneClient => ... []ServedAsSent` | `UdpInv`: until something is lost, the datagrams that were sent and not taken are in the socket, each at its place of header, data, header, data, ...; the parity of what was taken is whether the server waits for data |
| `TransfersWhole` | `[]TransfersAreWhole` | `TransferInv`: what a call has in its buffer is as long as it counts, and what `xfile_read` has so far is the beginning of the file |
| `BitmapsHoldSets` | `OneLong => ... []BitmapsAreSets` | `BitmapInv`: a bit of a word is one when its offset is in the set (`Holds`); the bits behind the length may be anything. `OffsetsInOrder` and `BitmapLayout` are the arithmetic of words and bits; each test has a lemma of its own |
| `EscapesFit` | each write of `xurl_escape`, and the zero at its end, is within what is allocated, for every text and any sizes that do not wrap | `HasRoom`: the length counted so far is that of the text written, of what is still to come and of the zero, and is no more than is allocated; one doubling is enough, since at least two bytes are allocated. `LoopExists` and `LoopKeeps` take it along the text |
| `BoxStaysShuffled` | `[]BoxKeepsItsValues`, which is about a program that has not come to harm | `RandomInv`: every generator's places are places of the box, and box and seed have each value equally often (`Arranges`); `SwapArranges` gives a bijection for one exchange, `StirredTimesIs` takes it through the bytes of a call |

`TcpInv` says that the words in the stream follow each other (`Follows`): each is
behind the one before it in its message, or the first of the next message behind a
last one, up to the word that the sender would send next. A send that breaks off ends
the sequence within a message, after which nothing is sent. `Reading`: what
the receiver has of a payload is the beginning of the message of the next word, and
`nleft` is the rest. `Counted`: the messages before that of the next word were
received, or there was an error for them; also for this one if its beginning was
skipped. One lemma (`SkipStep`) covers the three errors that take one or two words
at any place, also within the payload of a message that was refused: two words never
skip more than what one error counts, since a message has at least three.

### Only model-checked

- Liveness (`EveryNodeHandled`, and the four of `eloop_live`): out of the prover's reach.
- What a recursive definition computes: sums (`SumsAreStandard`), conversions
  (`CodesAreInverse`), texts (`TextsKeepTheirWords`). The provers cannot use a
  scheme of induction over data; where a proof needed one (the first match in a
  list, the top of the heap, a walk along links, the bytes of a draw) it takes a
  least counterexample: `LoopExists` and `LoopKeeps` do that for a loop that runs a
  known number of times. Of the conversions, only the escapes of `xurl.c` are proved
  to fit (`EscapesFit`); the folds of the others and of the texts are not in that
  form, and the checksums use the exclusive or of bits, of which the provers know nothing.
- `NothingLeftBehind` of `XCalls`: the module has no constants, so the run is
  exhaustive and a proof would say nothing more.


## 6. Findings

1. `src/xqueue.c:62` and `:79`: `return` without a semicolon. `xqueue_dump` and
   `xqueue_traverse` lock and never unlock without a callback, and with one walk
   the list unlocked and release a mutex of somebody else (`xqueue_view_lock`).
2. `src/eloop/eloop.c:684`: SIGTERM between the last test for signals and
   `epoll_wait` is not seen, and two seconds later the sleeping program is killed
   by the alarm that is meant for busy loops (`eloop_killed`).
3. `src/eloop/eloop.c:173`: `fd_table` is doubled once; a larger descriptor is
   written behind its end and 0 is returned (`eloop_many_fds`).
4. `src/xhash.c:108`: the item is read from the bucket after the unlock
   (`xhash_stale_answer`).
5. `src/xipcmsg.c:173`: the second datagram of a message is taken from anybody
   (`udp_sender`).
6. `src/xfile.c:55`: `xflock` returns 0 and not the descriptor: `xfunlock` closes
   standard input and the lock stays (`file_unlock`).


## 7. Not modelled

- `eloop_destroy` and `eloop_wait_for_read_sock`; the functions of the hash table
  that iterate; the report of the leaks (it prints what `AllocTrace` has, and takes
  only one of the two locks, see the hazards).
- A copy of every log message to standard error (`XLOG_WITH_PRINT`), dumps, colours
  and time stamps.
- State machines: `state_machine.h` is macros that a program fills with its own
  states; the repository has one in a test.
- `xipaddr`, `xepoll`, `xioctl`, `xtime`: each function is one system call or one
  line of formatting. What the other wrappers hold is in `XCalls`; what they read is not.
- `os_mktime`, `os_gmtime` (the C library's calendar) and the allocator for tests in `os_unix.c`. cJSON
  comes from another project.
- The part of `xlist.h` that is not compiled.


## 8. Plan

Done: every part of section 1 but those of section 7; with their proofs the queue, the
heap, the event loop, the hash table, the table of allocations, the array, the
locks, the commands, the log, the messages, the transfers, the bitmaps, the lists
and the random numbers.

Models to come: `eloop_destroy` and a second `eloop_init`, with the handlers and the alarm that stay;
the report of leaks as steps of its own, under the one lock while the other one
guards insertions.
