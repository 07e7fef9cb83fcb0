# Application_demo_code in TLA+

TLA+ specifications of the programs in this repository, the TLC configurations
that check them, and proofs that TLAPS checks.

    tlc -config SdTwo.cfg MCSdCard.tla         # one run
    tlapm SdCard_proofs.tla                    # one module's proofs

## 1. The system

The repository is a collection of C programs. Two groups hold logic of their
own that is hard to test: the SD card stack of an embedded board, and the
programs that synchronize threads over a small API. The others are libraries of
containers, programs that share memory or sockets, and a command line; each is
small, and each has a limit, a restart or a shared variable that a test would
hardly reach.

| Part | State | Operations | Interaction | What is hard | Correct when |
|---|---|---|---|---|---|
| SD card driver, `SD_CARD/src/device/sd_card_core.c` | `sdcard->mutex`, status, kind, sectors, one static `internal_buffer`, chip select | write, read, erase, clean, command, register read | tasks call it; it drives the SPI bus and the card | several tasks, error paths that unlock early, every kind of fault of the card, two buses | success means stored or delivered; mutex, buffer and heap are returned |
| Card start, same file | `sd_detect_flag`, status, `type_`, the card's own state | `sdcard_init`, `sd_card_detect_init`, interrupt callback | the file system calls it, an interrupt runs beside it, other tasks may use the card | lost commands, removal, retries, loops without bound | enabled means ready; the flag follows the pin; the call ends |
| Files, `sdcard_fs_core.c`, `sd_card_fs_demo.c` | `g_pxDisk_ptr`, the mount, total sectors, open handles, files | mount, stat, size, write, read, delete, format, self-test | calls FreeRTOS+FAT, which calls the driver | partial writes and reads, failed closes, resets, status codes of two conventions | `QAPI_OK` means done; no handle is lost |
| SPI bus, `spi_bb_core.c` | pins | send and receive bytes | called by the driver | a failed transfer looks like data | - |
| Thread API, `IPC/IPC/pthreads/threadApi.c` | condition variable, flags and tickets per thread; pool of blocked threads | wait, signal, add, remove, search | used by the next three | a signal is not remembered | a sleeper is woken by a signal |
| Producer and consumer | slots, `resrc_mutex` | produce, consume | threads, wait and signal | unlock before wait | bounded buffer; no hang |
| Barrier | count, pool, two mutexes | CS | threads | lost signals, double unlock, pool read without its mutex | at most LIMIT inside; the section stays in use |
| Readers and writer | count, two mutexes | read, write | threads | count read without its mutex | readers exclude the writer; all end |
| Master and slaves, `Mutexes/Master_slave_threads.c` | pool of blocked threads with its mutex, flags and conditions per thread | block, resume, exit; look, write, wait | threads; the master asks, the slaves look for themselves in a copy | a resume between look and sleep; a mutex copied while held; cancellation in `wait()`; what they wait on is destroyed | a blocked slave stops, a resumed one runs, all end on exit |
| Alternation and ring, `Alternation.c`, `sequence.c` | a flag and a condition per thread | print, signal, wait | threads, each signals the next | a turn signalled too early is gone | turns pass round, none is doubled |
| Watcher, `conditionalVariables.c` | `count` | increment, watch | threads over one condition variable | the threshold of the wait is not that of the signal | the watcher ends |
| Queue, stack, list, tree, `GENERIC_SHM_LOCAL/` | arrays with counters, linked nodes | insert, remove, find | called by programs and by the map | limits, moved and freed nodes | FIFO, LIFO, sequence, set of keys |
| Shared-memory map, `shm_ds.c`, `map.c` | private containers, shared objects by name | add, look up | processes that use the same names | objects created anew under a name in use; keys compared as text or as four bytes | a lookup gives what was added |
| Routing table, `ITC/rt.c` | doubly linked entries | insert, delete, update | called by the routing manager | first, inner, last and only entry | one route per destination, nothing leaked |
| IGMP and PIM, `SHM/igmp_pim_synchronisation/` | a named region with a mutex in it | create, add, dump | processes; either may be killed, restarted | restart under a held mutex, truncation, unlink | a dump is the region's content at one moment |
| Select server, `Network_socket_select_add/` | table of sockets, result of `select()` | accept, echo, close | clients connect, send, leave, break off | full table, places reused, writes to a socket that is gone, a `select()` that fails | every client in the table gets its own echo |
| Threaded server, `Code/server.c`, `create_c.c`, `file_read.c` | descriptor variable, static variable name, file | accept, serve, dictate, search | a thread per client | threads read one variable and count on another, descriptors closed twice or never | a thread serves its own client; the file is what was dictated |
| Command line, `Commad_line/cli.c` | tree of groups, mutex | find a command, help | the user | three lists numbered through, parameters counted by depth | the help is the one the path names |
| Samples, the linked-list exercise, variants of the thread programs | - | - | - | do not compile, or keep no state | - |

`PROJECT.json` lists each part, the ones that are not modelled with the reason,
and the hazards at their lines with the properties that cover them.

## 2. The modules

    SdCard  <- MCSdCard, SdCard_proofs            driver
    SdInit  <- MCSdInit, SdInit_proofs            start of the card
    ThreadApi                                     wait() and signal()
      <- ProducerConsumer  <- MCProducerConsumer, ProducerConsumer_proofs
           refines BoundedBuffer
      <- ReadersWriter     <- MCReadersWriter, ReadersWriter_proofs
      <- Barrier           <- MCBarrier, Barrier_proofs
           refines Semaphore
    MasterSlave, Turns, Watcher                   the programs of Mutexes/
      these and ReadersWriter  <- MutexPrograms  <- MutexPrograms_proofs
    SdFs    <- SdFs_proofs                        files
    Queue                                         containers
           refines Fifo
    Stack, LinkedList, Tree
    ShmMap, SharedRegion                          shared memory
    RoutingTable                                  routing table
           refines RouteMap
    SelectServer, ChatServer, CFile               servers
    Cli                                           command line
      all twelve <- Programs <- MCPrograms, Programs_proofs

**SdCard.** A task's call goes through the locations of `pc`: `lock`, `cmd` and
`resp` for `sdcard_command()`, `fill`/`send`/`accept` for a written block,
`token`/`data`/`crc` for a read one, `done` just before a successful return, and
`fail`/`deselect`/`stray` for the error paths, on which the code releases the
mutex before it raises the chip select and clocks one more byte. The order of
these three is why a task can disturb another one's frame: `shifted` holds the
tasks in whose frame or block a byte of another task has gone out. A shifted
command carries any sector; a cut or shifted block is rejected, or stored and
then answered with an error. A block of data is `[val, blk, n]`: which buffer,
which block of it, how many bytes before the zeros. `heap` follows the buffers
of the peripheral bus. `corrupt` is where the code uses or frees a freed buffer;
what the program then does is undefined and the task stops there. `spi_bus` is chosen once, in
`Init`. The register read looks at no CRC: once another task has cut it, the size
it stores is made of whatever was on the line, and `total_sectors` is any number.
`disturbed` is a history variable, which no step of the code reads: the
tasks during whose call another one was on the bus without the mutex.

**SdInit.** `sdcard_init()` step by step, with the card's own state (`off`,
`idle`, `ready`), the detect pin, the callback of its interrupt and a task that
sends a command meanwhile. `response` is what the card still has to send when
`sdcard_command()` returns: that function raises the chip select behind the first
byte, and after any command but CMD8 clocks one byte more, so that line 263 reads
the second byte of the OCR (`ReadsOcrByte`). What the caller reads comes from a card
that still drives the line, or is the 0xFF of an idle one (`Line`); a command of the
other task in between takes the bytes away. `faults` is what may go wrong in a
behaviour: a command may be lost, the card may release the line as soon as it is
deselected, or be swapped. It is chosen in `Init` and never changes, so that one run
says both what holds with every fault and what holds without some of them. Where
the code calls `set_system_reset_reason()` the board resets; the statements behind
these calls are not reached.

**SdFs.** One action per library call inside each operation, so that every
call can fail on its own. Files are sequences of bytes; `Hole` fills a gap
behind the end. `sdcard_fs_test()` is a user of the operations like any other.
FreeRTOS+FAT is external and modelled from how the code uses it, including that
it refuses to delete a file that is open. `faults` is chosen as in SdInit. The module
is one of those of Programs, in which the other programs have no faults.

**ThreadApi.** `wait()` is four steps, lock, record and sleep, wake, unlock;
`signal()` wakes a sleeper if there is one and is forgotten otherwise. Its
operators take the mutex as a parameter: each program defines where it is taken.
A thread may also wake spuriously, as POSIX allows.

**ProducerConsumer, ReadersWriter, Barrier.** One action per step between two
operations on shared state. Counts that are loaded and stored are two steps
where the code's mutex is meant to protect them. The threads of the barrier run
for ever, those of readers_writer.c run once, in MutexPrograms and by themselves.

**MasterSlave.** The master takes a request, locks the pool, changes it, unlocks,
and after a resume signals; a slave copies the pool, locks the copy's mutex,
looks, and writes a line or sleeps. Because the copy includes the mutex, its lock excludes
nobody, and a copy made while the master is in the pool can never be locked (`stuck`). `wait()`
may take effect of a cancellation while it holds the mutex; that is the step
after which `MutexIsLost`. After exit `main()` cancels each slave (`CancelSlave`),
destroys each condition (`DestroyCond`) and at last the mutex (`DestroyMutex`), one
call at a time, while detached slaves may be anywhere in `wait()`. glibc decides
what comes of that: it does not destroy a mutex that is in use, a destroyed one
cannot be locked, which `wait()` ignores, and a wait on what was destroyed fails or
goes on as before. `lines` and `missed` are histories.

**Turns** is both programs, which differ in their number of threads and in where
thread 1 starts; `who_am_i` chooses. `ahead` counts the prints of a thread against
those of the one before it. **Watcher** has the constants of the source, and a run of its
own for what the comments of its program say of the end.

**MutexPrograms** and **Programs** put modules that share nothing side by side:
`program` is chosen in `Init` and only that one moves, so that their states add
up and do not multiply. One run then checks them all. A program of Programs that
does not move keeps its first state.

**Queue** keeps the ring as the code does, filled downwards, told full from empty
by its counter. **Stack** keeps the array with one slot more than it has: pushing
there overwrites the two counters behind it (`overrun`), and whatever is counted
on that memory afterwards is `Garbage`. **LinkedList** has the removal by value as
the loop it is, a function of the turn: a turn that removes a node moves the
successor into it, and the next turn looks at the node after that.
**Tree** names nodes by the order of their arrival. **RoutingTable** has `next` and
`prev` of each entry, so that an entry linked from one side only would show; the
list is the least set of entries that holds the head and is closed under `next`.

**ShmMap.** Two processes, each with a list and a tree of its own, whose values
are shared objects named by the process's own counter. A key is a sequence of bytes.
The list compares keys as texts, up to the first zero, and finds the newest node;
the tree compares the first four bytes and finds the oldest: `Matching` has the
elements whose key is taken for the one looked up. Opening, resizing and copying
are steps of their own, between which the other process may look, truncate or copy.
The first two may fail, and leave a node without its value; a copy into an object
that was truncated since is a bus error and ends the process (`Fault`); two
processes that copy into one object leave a mixture (`Mixed`).

**SharedRegion.** The region outlives the processes: its `size` (empty after
`O_TRUNC`, until `ftruncate()`), entries, the state of its mutex, and `contended`,
which is set when somebody waits and tells the unlock to wake. igmp may be
killed and started again at any step, and then truncates the region and
initialises the mutex that pim may hold.
The name may be removed while the region is mapped.

**SelectServer.** The server's loop is one step per system call on a socket;
clients connect, send, leave and reset between any two of them, before they are
accepted too; the greeting of such a client may use up the error of its socket.
What is unread may be read in one piece or several, and the echo of what holds a
zero byte ends there. `readfds` is the answer of `select()` by which the whole table
is served, stale from the first step on; where `select()` fails it is the set that
was given, and the server may then wait in `read()` or `accept()`.

**ChatServer** has the descriptors: `client_socketfd` is one variable, each thread
reads it when it first runs, and a descriptor that is closed may be given out
again before its old thread closes it a second time. An `accept()` that fails starts
a thread with -1, which counts like any other. The files of the services take
descriptors too (`OpenFile`, `CloseFile`), and the list of libraries is never
closed (`LeakFile`). The last thread may run until `main()` has returned and the
process has ended.

**CFile** is what is said in one conversation, beside the threads of the others:
the file is a sequence of pieces, the client's lines are chosen freely, the searches
of Library.txt and commands.txt are functions over sequences. The name of a
variable is a static character of eight bits, which all threads load, count on and
store, two steps each, without a lock; `overwritten` records that one has undone
what another had counted. `strtok()` has one place for all threads: once another
one has called it (`OtherLine`, `OtherToken`) our next word is one of theirs, or
none.

**Cli** chooses the lists of subgroups in `CliInit`: every group stands in one
place and the root leads to all of them, which are the trees that registration
can build, up to the bounds of the two lists of a group. A path of words
or numbers is followed by `Display_Help`, a function of the parameter it has come
to, to a help text, or to an error with its depth. A word is a string without the
byte zero, as in C.

`BoundedBuffer`, `Semaphore`, `Fifo` and `RouteMap` are the abstract specifications: a
level between zero and the capacity; a set of at most LIMIT threads inside; a
sequence of bounded length; a function from destinations to routes. The
refinement mappings are the number of filled slots; the set of threads between
the test of the limit and the step that leaves; the filled slots read downwards
from `front`; the entries reachable from `head`.

## 3. The runs

A run that passes shows what holds; a run marked V shows where the program
differs from its own words, and `findings` quotes the line.

| Run | Checks |
|---|---|
| `pc` | a bounded buffer; the program hangs only with the store full or empty and both threads asleep; a signal to a sleeper is not lost |
| `pc_hang` V | "resumes as it recieves the signal": the signal can be sent too early |
| `sd_two` | two tasks, every fault: buffer and mutex belong to one task, the card is not left selected, success means stored or delivered unless another task was on the bus without the mutex, and every call returns |
| `sd_one` | one task, both buses, every operation, length and fault: the same (`OkMeansDone`), `sdcard_clean()` erases everything unless it was told a wrong size, mutex and buffers are given back (`ReturnsClean`) |
| `sd_stray` V | the byte clocked after the unlock damages another task's successful write |
| `si` | every set of faults of the bus and the board: enabled means ready, and a card that answers CMD8; the call ends if the card stays and hears; a stale flag comes from `sd_card_detect_init()` only |
| `si_kind` V | a standard card is taken for an SDHC card, with nothing lost and nobody else on the bus |
| `rw_exclusion` V | a reader beside the writer |
| `ba` | a counting semaphore, somebody is awake, the pool has room, the section is used for ever |
| `mutexes` | three readers with a writer, master with two slaves, two threads in alternation, a ring of three, two counters with a watcher: a reader signals, the readers end; a blocked slave writes one line at most and sleeps before long; a slave asleep outside the pool has missed its signal; turns are conserved but for the lost ones; the watcher ends only by chance; cancelled slaves end unless one took the mutex with it |
| `watcher` V | the watcher sleeps for ever after the threads have counted to the end |
| `programs` | twelve programs and libraries, one at a time: the queue is a FIFO, the table a map; what stack, list, tree and map give back; the region under restarts; who the servers serve; the file a client dictates; the help; on the card, a self-test that passes has moved the whole buffer, `QAPI_OK` means written unless a transfer was short, no handle is lost unless a seek failed or a transfer was short |

The conditions in the properties of the passing runs are where the program does
not keep the plain promise, and most are in the names:

* `OkMeansDone` is `QuietWriteIsStored`, `QuietReadIsContent` and
  `OkCleanErasesCard`. It leaves out the disturbed tasks of `sd_stray`, and writes of
  several blocks whose last is a whole one (below). `OkCleanErasesCard` excepts a size
  in `total_sectors` between none and the card's: a register read that was disturbed
  stores any (below). Zero is not excepted, nor a size that is too large.
  `QuietReadIsContent` and `ReturnsUnlocked` are about the bit-banged bus.
* `CardIsAsReported` excepts cards that were swapped, and says nothing of the kind,
  which is `si_kind`; `InitReturns` is about a card that stays and hears.
* `SleepsOutsideOnlyIfMissed`, `TurnsPassOrAreLost`, `EndsOnlyByChance` and
  `CancelledEndOrMutexIsLost` say exactly how much a forgotten signal, or a mutex
  that went with its holder, costs.
* `RegionExactUnlessRestarted`, `ExactUnlessOverrun`, `FindsOwnUnlessRecreated` and
  `OwnClientUnlessOvertaken` each name the events after which nothing is promised,
  and promise everything before them. `FindsOwnUnlessRecreated` promises the element
  the container's own comparison of keys leads to, not the one with the same key.
* `ServesExactly` promises the order and the whole of texts; a piece with a zero byte
  comes back cut. `WritesAndFindsRightly` promises two variables two names unless an
  increment was lost or the names have come round, whatever else the threads share.
* `OnlyTailsLeak` and `RemovesEveryOther` say what the code does instead of what one
  expects: which entries leak, which stay.

### Other differences the models show

Each of these is a behaviour of a model above, without a run of its own:

* sd_card_core.c:605, 808, 814: a failed `buff_alloc()` returns with the mutex held, and
  every other call then waits for ever (why `ReturnsUnlocked` excepts that bus).
* 665, 886: the buffers of the peripheral bus are freed after the first block, and
  the next block uses them (`corrupt`, with a length above `BLOCK_SIZE` only).
* 884: on that bus a read copies whole blocks into the caller's buffer, always to
  its start, whatever length was asked for.
* 496: the register read changes `internal_buffer` between another task's copy and
  its send. Disturbed itself, it stores a size made of what was on the line, since
  nothing checks its CRC (511-517), and `sdcard_clean()` then erases a part of the card and reports success.
* 211: a first generation card, to which CMD8 is illegal, is refused; the branch
  for it (222) is not reached. An answer to the 255th CMD8 counts as a failure (214).
* 233: a wrong check pattern returns an error and leaves `SD_INITIALIZING_E`, which
  the other calls take for usable (574), during the handshake too.
* 197, 253: the loops for CMD0 and ACMD41 have no bound if the card is taken out.
* 1185: the flag may be overwritten with a pin that has changed since.
* 635: in a write of several whole blocks the last one is stored as zeros, although 570 promises the data.
* sdcard_fs_core.c:243 and 304: a short write or read returns `QAPI_OK`, although
  210 promises it for data that is written. 178: `sdcard_fs_stat()` returns
  pdPASS and pdFAIL. 320: a format without a disk reads through NULL. 226: a write at
  a position empties the file first. 156: the number of sectors becomes that of the
  partition, with which `sdcard_clean()` erases.
* readers_writer.c:33 and barrier.c:79: as in `pc_hang`, a signal may come before the
  sleep; the writer then never ends, a thread of the barrier sleeps too long.
* Mutexes/Master_slave_threads.c:318: the slave looks in a copy of the pool, and
  waits for ever if the copy was made while the master had it locked. 169: a slave
  cancelled in `wait()` ends with the mutex; another one then waits for it for ever,
  and the process, of which `main()` has only left by `pthread_exit()`, stays.
* Mutexes/Master_slave_threads.c:386, 390: the conditions and the mutex are destroyed
  while detached slaves may be in `wait()`, whose calls then fail, or go on as if
  nothing had happened.
* Stack/stack.c:70: one push too many is accepted, and overwrites both counters.
* LinkedListApi.c:89: removal by value skips the neighbour that moved into the
  removed node, and frees data that two nodes share twice.
* LinkedListApi.c:214: two keys that are the same text up to their first zero byte
  are one key to the list: 256 and 512, as integers. tree.c:87: two texts with the
  same first four bytes are one key to the tree.
* GENERIC_SHM_LOCAL/map.c:15: a second process truncates the object of the first, whose
  copy then ends it by SIGBUS, or whose value is lost.
* ITC/rt.c:130: deleting the last of several entries unlinks and does not free it.
* SHM/igmp_pim_synchronisation/igmp.c:26: a restart initialises a mutex that may be
  held; the unlock of the earlier holder then releases it for somebody else.
* Network_socket_select_add/server.c:128: with a full table a connection is
  accepted, greeted, and never watched or closed. 102: after a `select()` that failed
  every socket counts as ready, and the server waits for the first that is not.
* Code/server.c:75: two threads may serve one client and none another. 72: an
  `accept()` that fails starts a thread with the descriptor -1, which asks nobody
  for ever, or takes an input that was never set for a service.
* Code/create_c.c:26: the list of libraries is opened for each word and never closed,
  until no descriptor is left and every word passes.
* 132: `check_string()` accepts any word whose letters occur in Library.txt in this
  order, with others between them, where the comments at 4 and 132 say that it is
  there. 275: two threads may give one name twice, or skip one, as the counter is
  not locked. 120: `strtok()` is shared, and a thread may read words of another's line.
  89: the file's name is one of a hundred, drawn by `rand()`, so that two conversations
  may write one file; that is not in the model, where each file is its conversation's.
* Commad_line/cli.c:409: the test of the lock is inverted; the help is displayed
  only if the mutex could not be taken, and the mutex is kept if it could.

### Bounds

| Bound | Value | Why it is enough |
|---|---|---|
| tasks of the driver | 2 | every disturbance is one task's error path in another's call |
| `NSectors` | 2, in `sd_two` 1 | first, last and next sector for the transfers of two blocks (`sd_one`); with two tasks the question is who is on the bus |
| `Lengths` | 1, 512, 513, 1024; in `sd_two` 1 | short, whole, uneven and even, with the real `BLOCK_SIZE` |
| `UINT32` | 16, in `sd_two` 3 | above every sector; `total_sectors - 1` wraps at zero; a size may be none, too small, right or too large |
| `MaxTries` | 3 instead of 255 | the loop only counts |
| `MaxHandles` | 2 | a second handle is enough to leak one and open again |
| bytes per buffer | 2 or none | short means one or none |
| slots | 3 | as in the source |
| readers | 3 | as in the source |
| threads of the barrier | 3 instead of 10, limit 2 instead of 4 | inside, in the pool, and on the way between them |
| pool | as large as the threads | `init_blocked_pool()` is called so |
| `THREAD_NUM` of the slaves | 3 instead of 7: the master's number and two slaves | one holds or takes what the other needs |
| `RING_SIZE` | 3 instead of 10 | next and previous differ |
| `MAX_SPURIOUS`, `MAX_WAKES` | 1, 2 | a turn may be doubled once; the watcher wakes before and after the count is large enough |
| `TCOUNT`, `COUNT_LIMIT`, `UPDATE` | 10, 15, 125 | as in the source |
| queue, stack | 3 slots, 2 elements | empty, one, full, and a wrap |
| list | 4 nodes of 3 data | runs of equal data at either end and inside, with one more |
| tree | 6 nodes, 3 keys | equal keys on both sides of a parent |
| routing table | 4 entries, 3 destinations, 2 routes | first, inner, last and only entry; the rest may leak |
| map | 2 processes, 2 adds each; the keys 256 and 225.1, and for lookups also 512 and 225.2 | one name in use twice, one key twice; two integers that are one text, two texts that begin with one integer |
| region | 2 entries, 2 regions, 3 starts | a dump half way, the old and the new region, a restart of each |
| select server | 3 clients, 2 places, 2 pieces in all | a full table and a place used again; two pieces of one client at once or one after the other, or one of each of two |
| threaded server | 2 accepts instead of 10, 3 descriptors | a descriptor used by two, or by a client and a file; none left |
| dictated file | 6 pieces, 3 variables in one declaration and 5 in all, 2 words in a line, one other thread; 3 letters of 4 characters | every part of a file; an increment undone by another; the names run past the letters and wrap |
| command line | 2 groups of at most one command | siblings, and one below the other |

No state space is cut otherwise: each run is complete. `programs` has about 700 000
distinct states, `mutexes` about 143 000.

### Fairness

* pthreads programs: each runnable thread is scheduled (WF); a thread that asks
  for a mutex again and again gets it (SF in `ProducerConsumer`, whose threads
  never end). No fairness on spurious wake-ups, and none that a signal arrives.
* Driver: a task inside a call is scheduled and gets the mutex it waits for
  without limit, `QURT_TIME_WAIT_FOREVER` (SF). No task has to call anything.
  The card ends its busy periods; it need not answer a command.
* Start: a started `sdcard_init()` runs (WF), and a card asked by ACMD41 for ever
  becomes ready (SF), which the SD standard requires. Nobody brings a card back.
* `mutexes`, `watcher`: threads that can run are scheduled (WF), and slaves, and the master in
  `signal()`, get a mutex that is free again and again (SF). Nobody makes the master
  choose, and nothing wakes a sleeper.
* `programs` checks safety only: its callers and clients owe nobody a step.

`CHECK_DEADLOCK FALSE` stands where the system may stop: readers_writer.c, the
programs of `mutexes` and the watcher's end, on the peripheral bus a leaked mutex or
a use of freed memory stops the tasks, nobody calls an `sdcard_init()` again that has
enabled the card (`si_kind`, where nobody else moves), and the programs of `programs` end, or come to
the bound of their calls.

## 4. What is proved

Every invariant and every refinement that a passing run checks is a theorem, for
every value of the constants that satisfies the modules' assumptions. The
argument of each is an invariant that is inductive where the property is not:

| Theorem | Property | Argument |
|---|---|---|
| **`SdCard_proofs`** | | |
| `LockOwnedHolds` | `LockOwned` | `LockInv` adds that each location has its operation: only the register read reaches its own steps, and reaches `cmd` without the mutex |
| `BufferIsOwnHolds` | `BufferIsOwn` | inductive with `LockInv`: whoever writes `internal_buffer` owns the mutex, so that no other task is between the copy and the send, or it reads the register, which puts every other task in a call among the disturbed |
| `DeselectedWhenIdleHolds` | `DeselectedWhenIdle` | `SelectedByHolder`: while the card is selected some task is at a location between its first command and its deselect; needs `LockInv` for the operation each location belongs to |
| `ReturnsCleanHolds` | `ReturnsClean` | `CallInv` says for each location of a call whether its buffer is allocated and how far the call is; `BitBangInv` that on the bit-banged bus nothing is allocated and the holder of the mutex is inside |
| `OkMeansDoneHolds` | `OkMeansDone`, with its exceptions | `QuietInv`: an undisturbed call has done, up to the block it has got to, what it is to have done at its end, with its own frames and on its own sectors; the mutex keeps the others from the card, or they disturb |
| **`SdInit_proofs`** | | |
| `CardIsAsReportedHolds` | `CardIsAsReported` | `HandshakeInv`: what the card has become by each step of the handshake, if it was not taken out meanwhile; nothing is claimed of the byte that tells the kind |
| `StaleFlagIsFromInitHolds` | `StaleFlagIsFromInit` | `DetectInv`: a callback that no edge has overtaken has read what the pin still shows |
| **`SdFs_proofs`** | | |
| `TestOkIsTrueHolds` | `TestOkIsTrue` | `TestInv`: from its write on the self-test works on its own file with its own buffer, and no read moves more than the write said |
| `WriteOkIsWholeHolds` | `WriteOkIsWholeUnlessShort` | `WriteInv`: a write finds an empty file and leaves what it has transferred |
| `HandlesReturnedHolds` | `HandlesReturned` | `OpenInv` and `HandlesInv`: the file in use is open once, and without the two faults no other is |
| **`ProducerConsumer_proofs`** | | |
| `LockDisciplineHolds` | `LockDiscipline` | inductive with the types |
| `StuckOnlyAtLimitHolds` | `StuckOnlyAtLimit`: both asleep, the store is full or empty | inductive with the mutex and `SleeperIsFlagged`: who scans holds the mutex, so that the other cannot change the slots between the look and the decision, and who fills or empties one wakes the other |
| `ImplementsBoundedBufferHolds` | `ProducerConsumer` implements `BoundedBuffer` | the cardinality of the filled slots before and after a step that fills or empties one; no other step touches a slot |
| **`ReadersWriter_proofs`** | | |
| `LockDisciplineHolds` | `LockDiscipline` | inductive with the types of the locations |
| `CountIsExactHolds` | `CountIsExact` | a reader between load and store has loaded the current count, because it holds the mutex; cardinalities of the set of counted readers |
| `SomeReaderSignalsHolds` | `SomeReaderSignals`, of `RwSpec` | if all have left without a signal, some reader is still to look at a count of zero |
| **`Barrier_proofs`** | | |
| `ImplementsSemaphoreHolds` | `Barrier` implements `Semaphore` | the count is the size of the set inside, and is below the limit at the step that enters |
| `LockDisciplineHolds` | `LockDiscipline` | the count's mutex; nothing is claimed of `CS_mutex`, which the code releases twice |
| `SomeoneRunsHolds` | `SomeoneRuns` | a thread goes to sleep only while the section is full, and the last one inside is awake |
| `PoolAddSucceedsHolds` | `PoolAddSucceeds` | each slot holds another thread, and the one that is added is in none; needs `Cardinality(Threads) <= POOL_SIZE` |
| **`MutexPrograms_proofs`** | | |
| `MsTypedHolds`, `ListedOnceHolds` | types; no slave in two slots | the master tests the pool before it adds, and nobody else adds |
| `BlockedWritesOnceHolds` | `BlockedWritesOnce` | `NothingYet`: a slave in the pool that is about to write, or one just woken, has not written since |
| `SleepsOutsideOnlyIfMissedHolds` | `SleepsOutsideOnlyIfMissed` | `GoesOnlyIfListed` extends the property to the whole way from the look to the sleep; `WaitingHolds`: who is about to sleep holds the mutex of `wait()`, so that `signal()` finds it before or after, or the mutex is gone, and then the master has left |
| `TurnsPassOrAreLostHolds` | `TurnsPassOrAreLost` | `NeverFarAhead` from thread to thread; the balance is one of cardinalities of the sets of threads with a turn |
| `EndsOnlyByChanceHolds` | `EndsOnlyByChance` | `WatchInv`: there is one signal, at the limit, since `LimitsAssumption` leaves no other multiple of it in reach, and the watcher sleeps after the update that followed |
| `MutexProgramsHold` | `BlockedWritesOnce`, `SleepsOutsideOnlyIfMissed`, `TurnsPassOrAreLost` and `EndsOnlyByChance`, of the specification the run checks | `EachProgram`: the composed specification implies that of each program |
| **`Programs_proofs`** | | |
| `QueueInvHolds` | counter, front and rear agree | `EndsMeet`: the distance from front to rear is the counter, modulo the size |
| `ImplementsFifoHolds` | `Queue` implements `Fifo` | `SlotFacts`: which slot each position of the abstract sequence is, before and after a step |
| `ExactUnlessOverrunHolds` | `ExactUnlessOverrun` | `StackInv`: each slot below the top holds the node pushed at its height, or `Garbage` |
| `FindsOwnUnlessRecreatedHolds` | `FindsOwnUnlessRecreated` | `OwnValues`: an object that nobody else has touched since holds what it was created for, unless that is still to be copied; `FoundIsTheEnd`: the lookup stops at the newest or oldest of the elements whose key compares equal |
| `OnlyTailsLeakHolds` | `OnlyTailsLeak` | `RtInv`; what is linked after a change is the least set closed under the new links, compared with the least one under the old |
| `ImplementsRouteMapHolds` | `RoutingTable` implements `RouteMap` | `KeysDiffer`: no two entries of the list have one destination, so that the table is a function and each step changes it at one point |
| `RegionExactHolds` | `RegionExactUnlessRestarted` | `HoldsMutex` (who is inside holds the mutex of a region nobody disturbed), `MappedByName`, `EntriesAreKept` |
| `ServesExactlyHolds` | `ServesExactly` | `TableInv`: the table names the sockets that are open, each in one place; `ExactFor`: what was echoed and what is still unread are what was sent |
| `OwnClientUnlessOvertakenHolds` | `OwnClientUnlessOvertaken` | `Handed`: a descriptor is that of the client it was accepted for, in `main()`'s variable and then in the thread's own; `Threads`: each accepted client has a thread, the last one once it is created; `FilesHeld`: the file of a service is its thread's alone |
| `RemovesEveryOtherHolds` | `RemovesEveryOther` | `Swept`: after each turn of the loop the first nodes of the new list are those that stay of the first ones of the old list; `CountKept` tells how many |
| `TreeFindsFirstHolds` | `TreeFindsFirst` | `OnItsWay`: every set of nodes that holds the root and is closed under going down for a node's key holds that node; a child is younger than its parent |
| `WritesAndFindsRightlyHolds` | `WritesAndFindsRightly` | `FileInv`: what the file may hold at each place of the conversation (`Layout`), which names were given (`Numbered`) and how far the counter is (`Counted`), as long as no increment was undone; `FoundStands` says what the search has found when it ends |
| `HelpFollowsTheListHolds` | `HelpFollowsTheList` | `FindsTheLine`: the number or word of a parameter finds the entry whose line it means, in three lists numbered through; `HelpIs` follows two of them |
| `ProgramsHold` | the properties and refinements above and those of SdFs, of the specification the run checks | `EachProgram`, as above |

Each strengthening is proved for `Init` and for each action of `Next`; the temporal
step is PTL's. The types and locks of the programs over the thread API (`LockDiscipline`,
`CountIsExact`) are proved and not run.

No operator of the modules is recursive; loops and walks are recursive functions.
That such a function exists, and so satisfies its definition, is proved first:
`LoopExists` for a loop of so many turns, `WalkExists` for a walk that always
comes nearer to its end, both by taking the least number of turns for which it
would fail (`AllUpTo`, `LeastExists`).

### What the proofs assume

Each assumption is an `ASSUME` of the module it is about, which TLC evaluates in
the runs. Most say that a bound is a number, or that a constant which stands for
"none" is none of the values (`NoTask`, `NIL`, `NoFd`, `Garbage`, ...). The others:

* `BuffersAssumption` of SdFs, `TextAssumption` of CFile and `CliAssumption`: buffers,
  texts and words are sequences of bytes or characters, and the test's buffer is
  not empty. A word of the command line has no byte 0, which in C would end it.
* `LimitsAssumption` of Watcher: the counters end before ten times the limit, and
  after the update no count they reach is a multiple of the limit. The numbers of
  the source, 10, 15 and 125, satisfy it; with others the watcher may end.
* `CFileAssumption`: the names go on after the letters before they wrap.
* `MapAssumption`: a key is a sequence of at least four bytes and holds a zero one, or
  the list's `strcmp()` and the tree's integer would read beyond it.
* `NoFaultsAssumption` of Programs: that nothing fails is one of the cases.
* The pool of the barrier has a place for every thread, as `init_blocked_pool()`
  is called.

A path of the command line has at most two parameters, in the proof as in the run:
a bound of the model that is no constant.

### What is only model-checked

Every liveness property: `CallsReturn`, `InitReturns`, `SleeperResumed`,
`ReadersComplete`, `SectionIsUsed`, `BlockTakesEffect` and
`CancelledEndOrMutexIsLost`. They rest on fairness, and so on ENABLED, which is out
of the prover's reach.

## 5. What is left out

* Of the driver: wording, counters of bytes and speeds, the bytes of a command.
  CRC16 is assumed to detect damage; a damaged block that passes is not modelled.
* Of the bus: `spi_bb_send()` returns `QAPI_ERROR` for a failed transfer and no
  caller looks (spi_bb_core.c:217 says so): in the models it is a lost command or a
  lost block like any other.
* Of the file system: FreeRTOS+FAT itself, and that its sector writes go through
  `SdCard`: each side is checked against what it expects of the other.
* `sdcard_init()` returns 1 on success where its comment promises `QAPI_OK`; the
  models use "ok". `type_` is never used for addressing: sectors are addressed as
  on SDHC cards, whichever kind was found.
* Of the thread API: the operations no program calls.
* Of the map: `mmap()` that fails, the list's copy of 32 bytes of a shorter key, the
  process that main.c forks to look. Of the region: `shm_open()` or `mmap()` that fail,
  after which the process ends. Of the servers: `pthread_create()` that fails.
* Of `read_content()`: what it copies, which is counted by a variable that is never
  set (file_read.c:113). Of the command line: the
  handlers, which only print; the numbers that the search writes into the
  parameters (cli.c:230, 251, 274), the message indexed by the depth (418-425) and
  `QCLI_STATUS_USAGE_E` (427).
* Of the bus: the bits on the pins; the registers of the hardware.

### Not modelled

* Shared-memory samples: each makes one segment, uses it once and ends. What they
  exercise is in ShmMap and SharedRegion.
* The linked-list exercise (`Link_List/link_list.c`) does not compile.
* Message queue, pipe, signal, fork and mmap samples: one system call each.
* Language samples: no state outlives a statement.
* Variants in `Mutexes/`: template.c is the master and slave program again;
  SharedResource.c stores through a null pointer (320) and ends;
  sequence_using_api.c and mythread_api.c do not compile; api_template.c returns at
  once.

Four hazards in `PROJECT.json` have no property, each with a note: busy loops
without a bound, speeds divided by zero, the mutex that a second `sdcard_init()`
makes anew, the format without a disk.

## 6. Plan

Done: the driver, its start and the files; producer and consumer, readers and
writer, barrier; the programs of `Mutexes/`; containers, map, table and region;
both servers; the command line; a proof of every safety property and of every
refinement that the passing runs check.

What is left, in this order:

1. **SdStack**: SdInit and SdCard composed, with the status and the mutex that the
   start makes anew while a call may hold it (sd_card_core.c:161).
2. CRC7 and CRC16 of the driver as functions, against the polynomial's definition.
3. The file system over the driver: `SdFs` with the sector writes of FreeRTOS+FAT
   going through `SdCard`, if a part of the library's behaviour can be pinned down
   from how the code uses it.
