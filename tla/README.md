# SP_and_OS: specifications, model checks and proofs

The repository holds the programs of a system programming course (an `ls`, a web
server that serves its output, and the concurrent versions of that server) and of
an operating systems course (system call hooks, process and thread exercises, CPU
and page replacement simulators, a FAT file system). There is no shared library:
every program is one C file with its own state, and programs interact only through
signals, pipes of exit codes, sockets and small files.

## 1. Inventory

| Component | Source | State it keeps | Operations | Hard parts |
|---|---|---|---|---|
| FAT file system | `Assignment5-2/fat.c` | `myfat`: `fat_table`, `directory`, `data_area`; image `fs_state.dat` | create, write, read, delete, list; load, save | long sequences of legal commands; block 0 doubles as "free"; stale bytes; a write that fails half way; a save that truncates first |
| Preforked server | `Web3_1/..preforked_server.c` | parent's `pids`, each worker's `client_num`, `start`, `ci_array` | fork the pool, serve, SIGALRM tick, SIGUSR1 report, SIGINT shutdown | signals between any two statements; a worker that leaves its loop falls into the fork loop; orphans |
| Fork-per-connection server | `Web2_3/..adv_server.c` | `client_num`, `start`, `ci_array`, open descriptors | accept, fork, wait, alarm report | parent waits for each child; descriptors never closed; the alarm handler reorders the records it interrupts |
| Single-process server | `Web2_2/..web_server.c` | current directory, open sockets | accept, list or send, 404 | a 404 ends the server; listing changes the directory while others change its contents |
| HTML `ls` | `Web2_1/..html_ls.c` | arrays of names, current directory, open streams, the page | a branch for each combination of options; patterns; tables with links | names opened relative to a directory that the loop changes; streams that `continue` leaves open |
| `ls` family | `Web1_1`, `Web1_2`, `Web1_3` | arrays of names, current directory | options a, l, r, S, h; wildcards; sort | two passes see different directories; leaving a directory by an early return |
| Sum over processes | `Assignment 3-2/fork.c`, `numgen.c` | `temp.txt`, exit codes | fork tree, wait, append | which child a `wait` returns; 8-bit exit codes; a file that grows past the array |
| Sum over threads | `Assignment 3-2/thread.c` | `temp_num`, `temp.txt` | create, join | results of threads that are joined in another order than they end |
| CPU schedulers | `Assignment 3-3/cpu_scheduler.c` | process table, ready queue, clock | FCFS, SJF, RR, SRTF | idle gaps, ties, zero bursts, queue bounds |
| Page replacement | `Assignment4-2/page_replacement_simulator.c` | frames, use bits, the hand | optimal, FIFO, LRU, clock | ties, empty frames, a hand that stays where it loaded, array limits |
| System call hooks | `Assignment 2-2`, `2-3`, `3-1`, `4-1` | slot of `sys_call_table`, its saved pointer, page permission, I/O counters | module init, exit, hooked calls, start and end of a trace | order of loads and unloads; calls between them; calls that span the start of a trace |
| Kernel fork | `Assignment 3-1/fork.c`, `sched.h` | tasks, what they share, reference counts, the lists of tasks and children | `_do_fork`, `copy_process` and its ways back | failure at any step; the parent may end meanwhile; threads count differently |
| Process tracer | `Assignment 3-1/Process_tracer.c` | kernel task lists (read only) | find, walk siblings and children | no lock; where a circular list ends |
| Memory map printer | `Assignment4-1/file_varea.c` | none (reads `mm_struct`) | hook, walk of the areas | the hook protocol |
| Kernel log message | `OS_Assignment1/backend.c` | | | Linux source with a message added |
| Small programs | `kw_hello.c`, `os_ftrace_test.c` | none | print, call | none |

Interactions: `adv_server.c` and `preforked_server.c` embed the listing code of
`web_server.c`, which goes back to that of the `ls` programs; the two hook modules of 2-3
share the table's page permission, `current_pid` and the counters; the tracer walks the
lists that `fork.c` builds; `fork.c` and `thread.c` of 3-2 read the `temp.txt` that
`numgen.c` writes and append to it; runs of `fat` share `fs_state.dat`.

### What makes each component correct

* FAT: no two files share a block, every used block belongs to a file, a file reads
  back as what was written to it, reads stay inside the data area, commands end.
* Preforked server, processes: after SIGINT no process of the server is left and the
  parent ends; the parent knows its pool.
* Preforked server, a worker: a report shows records of connections that took place,
  whenever it comes; who is not listed is not served; every descriptor that is taken is
  given back; who sends a request gets an answer.
* The other servers: the links of a page lead to what the page describes; a request does
  not end the server and does not use up a descriptor; the history of 2-3 is that of the
  last clients, whenever the alarm comes.
* `ls` and HTML `ls`: a listing is sorted and has each entry that the options show once,
  every operand is listed, links lead to their entries, no stream stays open, and the
  process returns to the directory it started in.
* Sums: the result is the sum of the input, whatever the schedule, and every wait and
  join finds its child.
* Kernel fork: an object is counted once for each task that has it, wherever forks fail;
  a process is in the list of its parent, who lives. The tracer counts what is there and
  ends.
* Schedulers: waiting and turnaround times are those of the Gantt chart, nobody waits
  long under RR, SRTF is optimal.
* Page replacement: the frames hold distinct pages, those that the name of the policy
  promises; OPT has the fewest faults of all choices.
* Hooks: unloading restores the table and its permission, whatever was loaded when, no
  call ever leads to code that is gone, and a trace counts the calls of the traced process.

The hazards behind these properties, each at its line, are listed in `PROJECT.json`
under `hazards`.

## 2. Plan

| Order | Modules | Composes, implements | State |
|---|---|---|---|
| 1 | `Fat`, `FileStore`, `StorageProofs` | `Fat` implements `FileStore` (proved) | done |
| 2 | `Prefork`, `PreforkProofs` | the proofs also cover `Worker`, the other view of the same program | done |
| 3 | `SyscallHooks`, `KernelProofs` | instantiated for the pair of modules of 2-3 | done |
| 4 | `ConnectionHistory`, `Worker`, `HistoryProofs` | `Worker` extends `ConnectionHistory`; lemmas about the history are shared by `PreforkProofs` and `ServersProofs` | done |
| 5 | `CpuSchedulers`, `Assignment3Proofs` | SRTF against the best of all schedules (proved) | done |
| 6 | `NameOrder`, `Listing`, `ListingProofs` | `Listing` sorts by `NameOrder` | done but for patterns, which `HtmlListing` has |
| 7 | `Page`, `Servers`, `ServersProofs` | `Servers` composes `Page` and `ConnectionHistory` into both servers | done |
| 8 | `HtmlListing`, `HtmlListingProofs` | | done |
| 9 | `PageReplacement`, `StorageProofs` | OPT against the best of all replacements (proved); its proofs and those of `Fat` share a module, nothing else | done |
| 10 | `Sums`, `Assignment3Proofs` | fork tree and thread tree over the same file; its proofs share lemmas with those of `CpuSchedulers` | done |
| 11 | `TaskLists`, `KernelProofs` | forks of the kernel with the walk of the tracer | done for what the tracer and the counts depend on |
| 12 | `IoTrace` | implements `SyscallHooks` (proved in `KernelProofs`) | done |
| 13 | the image of the FAT tool and concurrent runs | `Fat` between a load and a save | not done, see section 8 |

Every safety property that a run checks has its theorem; what would come next is row 13.

## 3. Modules and the code they model

### Fat, FileStore

`fat_table`, `directory`, `data_area` are the fields of `myfat` (fat.c 19-24). A byte is
represented by the name of the file that wrote it; zero bytes are left out, so the
length of an element of `data_area` is what `strlen` finds. The command line is the
choice of an action and its arguments. `CreateFile`, `CreateRefused`, `NotFound` and
`Uninitialized` are whole commands; `Enter` finds the slot and goes into one of the three loops, of which
`WriteBlock`, `WriteLast`, `WriteNoSpace`, `ReadBlock`, `ReadDone`, `ReadFault`,
`DeleteBlock` and `DeleteSlot` are the iterations and the ways out. A search for the
first free block or slot is a guard. Both ends of chain of the code are there: `EOF`
(0xFFFF, written by `create_file`) and `EOC` (-1, written by `write_file`).

`taint` records the irregular events after which the promises below end: a link to
block 0, which reads as "free"; the replacement of a link; a block whose new owner
finds bytes of a deleted file in it; and a command other than `create` with the empty
name, which is also that of an unused slot: `write`, `read` and `delete` take the first such slot
for a file that starts at block 0, or once it was deleted refuse it (`Uninitialized`).
Properties name the events they do not survive; none survives the empty name, so `MCFat` does
not explore what follows it (the constraint `Named`). `TypeCorrect` is about all of it.

`FileStore` is what a user sees: files that are created, grow and are removed as a
whole. The refinement mapping `FilesView` reads every file the way `read_file` does.

### Prefork

A process is a number in the order of creation; `pc` says where it is between `main`,
`child_make`, `child_main` and its handlers, `pids` is its copy of the global array (a
fork copies it), `pend` its pending signals. A signal is handled in a step between any
two steps of the process. A worker whose `child_main` returns falls back into the fork
loop of `main` (line 175) and becomes a parent with its own copy of `pids`, holding what
it inherited. A client that hangs up or sends a request without a method ends its
worker at once (`Perish`). `ctime` and `localtime` are not reentrant: a handler that interrupts one of
them and calls one itself is `stuck`. `plan` says which SIGINT the run is about (to the
parent, or Ctrl-C to the group), whether the alarm ticks, and how many processes there
may be.

### SyscallHooks

A module is a sequence of entries it hooks (`Hooks`), whether it changes the permission
of the page (`Flips`), whether its hooks call what they replaced (`Wraps`) and which
modules export symbols to it (`Needs`): these constants make it 2-2, 2-3, 3-1 or 4-1.
`insmod` and `rmmod` are taken apart into their accesses to the table, `saved` holds the
module's pointers. A write to a read-only table kills the `insmod` or `rmmod` (`dead`).
A system call reads the entry (`Enter`), may call the original function from a hook
(`CallOriginal`) and returns; a caller may be inside a hook for any time.

### IoTrace

Extends `SyscallHooks` by what 2-3 counts: `cur_pid` and the numbers are variables of
`ftracehooking`, fresh when it is loaded (`LoadTrace`). A caller whose hook is that of
entry 336 starts a trace of a process (`Start`) or asks for the numbers (`End`); a call
that returns through a hook of `iotracehooking` is counted (`Hooked`) if its process is
the traced one at that moment. `base`, `whole` and `inside` are history: the numbers at
the start of the trace, the calls that began and ended in it, and who is in such a call.

### ConnectionHistory, Worker

The array of records is four functions from the index to a field, because the main
program writes field by field and the handler may run between any two writes; `log`
(what really happened) and `torn` (a report came while a record had no time) are history
variables. `Worker` is `child_main` from `accept` to `close`: one action for every
system call or early exit, `fds` for the descriptors by kind and `lost` for the rounds
that kept one. `Report` is `child_handler`, enabled everywhere; where it interrupts a `ctime`
or `localtime` and calls one itself, it may wait for its own lock for ever (`ReportStuck`). The
code has no bound for `client_num` (226): the client behind the last entry is `Overrun`, and what
follows is undefined. `Crash` is a request in which `strtok` finds no method, or no URL after `GET`
(282-287). The client may not read, so that a write waits (`Stall`, `ReadOn`), or close the
connection, so that SIGPIPE ends the worker (`HangUp`). SIGINT and SIGTERM are in `Prefork`.

### CpuSchedulers

One action is one iteration of a policy's main loop: the choice of a process and its
turn, or one idle unit. `pc_queue` is the Gantt chart of the code, and `at` the history
of the units its elements stand for. The helpers that choose (`Shortest`, `Candidates`,
`Enqueue`, `Quantum`) follow the code's order of ties. Arrays of 1000 entries are
sequences. The count of context switches and the CPU utilisation are left out.

### Listing

The `main` of the last `ls` (Web1_3) has one copy of the same loop for every combination
of flags; `Short`, `Here` and `Handled` are its three-way split, `Long` and `All` what the
copies differ in. `Access`, `Open`, `CountPass`, `StorePass` and the sort, `Total`,
`SizeOrder`, `PrintLong` or `PrintName` are one directory's way through the loop, with
one step for every file that is looked at. `Change` and `RemoveDir` are other processes.
The names a pass reads are those at one moment (a small directory is one `getdents`), in
any order. When the second pass finds more, fewer or longer names than the first, the
code writes outside its array or sorts what was never written: the model stops there, in
`undefined`, as it does when `opendir` fails after `access` succeeded. `option_s` is one
step: its calls of `lstat` see one state of the directory. `Nameless` are the names of files
whose owner or group has no name: `option_l` prints an error in place of their row (1072-1084).

### Page, Servers

`Page` is `print_option` and what it calls: the two passes over a directory and the rows,
one step for every entry, between which `Disturb` creates and deletes files and removes
directories. A URL is the sequence of its names. `Servers` has `accept`, `read` and the
loop of both servers, with the same clients as `Worker`: `reading` says whether the one that is
being answered reads, `AnsweredHangsUp` ends who writes to one that has gone (the server of 2-2,
the child of 2-3), `RefusedHangsUp` the server of 2-3 itself, which writes the 403 (167-168).
`Overrun` is the client behind the last entry of `ci_array` (136). A URL that leads out of the server's
directory has any outcome (`LeadOut`), since what lies there is not modelled. In 2-3 (`forks`) the history is filled a field a step, the child has
descriptors of its own (`fds`, while `parent_fds` keeps those of the parent), and `Alarm`
sorts and prints the history at any step of the parent.

### HtmlListing

The command line decides which branch of `main` is taken (`Short..`, `All..`, `Long..`,
`Plain..`), operands are a list of `jobs`, and a pattern goes through `Match..` and
`Wild..`, the two loops over what `fnmatch` finds. A path is the sequence of its names; each
row says which name it has, where its link leads and which file it was made from. How
the system calls resolve a path is modelled in `Go` and `ResolveIn`, name by name from the
root; of a file system is assumed that the directories form a tree and have `.` and `..`
(`FileSystem`). Sorts are functions of the set of names (`Ordered`); `ListingProofs`
proves that the loops of the last `ls`, which are the same, sort. An operand with a `]`
and no other such character is a pattern among several arguments (482, 526) and a plain
name alone (122). The row of an operand that is a file stands from the action that makes
its table to `FileEnd`, so that `LinksLead` judges it like any other.

### PageReplacement, Sums

`PageReplacement` takes one reference a step, under the four policies one after the
other; `Outside` are the inputs with which the reading loop leaves its arrays.
In `Sums` a process or thread is named for the half it adds; `calls` is the stack of
the calls of `fork_sum` it is in, `zombies` the exit statuses that no `wait` has fetched. A
`fork` that fails (-1, which is not 0) sends the caller into the parent's branch without a child
(`ForkFails`); if it has none when it comes to `wait`, `child_sum` is garbage (`WaitFails`). A
thread that could not be created is joined by a name that was never set (`CreateFails`).

### TaskLists

A fork is at a step `at` between `dup_task_struct` and the linking into the lists, and
every other task may do something in between. `users` are the reference counts, `own` the
object each pointer points to. `exit` and `wait` are external: what they do to counts
and lists. The walk of the tracer takes one element a step, without a lock; `calm` tells
whether the lists have stayed as they are since it began, and what it has found is
judged until they change.

## 4. Runs

| Run | Shows | Bounds, and why they are enough |
|---|---|---|
| `fat` | chains stay disjoint and whole, no block is lost until the first irregular link; reads, writes, deletes as a user sees them; every command ends | 2 names, 3 blocks of 2 bytes, data up to 5: a file can use all blocks, two files compete, block 0 is freed and found again; partly and exactly filled blocks, a disk that fills up in a write |
| `fat_free_means_unused` | violated: a link to block 0 | as above, smaller |
| `prefork` | the pool is known; a shutdown leaves nobody unless a worker has left its loop before; the parent ends; Ctrl-C ends all | pool of 2; a SIGINT to the parent with ticks and 4 processes (a worker may fall out and fork two more), Ctrl-C with 3 and no ticks |
| `hooks_pair` | load and unload of `ftracehooking` and `iotracehooking` in any order while two processes call and trace | 3 entries: one of `ftracehooking`, two of `iotracehooking` instead of five (`close`, which is counted if it succeeds, and another), which suffices for a half-hooked table; 2 calls counted for each entry: one too many and one right |
| `worker` | the history, admission, descriptors and answers of one worker | 2 clients, each of which may send nothing, something without a method, stall or hang up; 3 descriptors (the third is the first that may be missing); room for 3 records with a window of 2 (so the window moves and a fourth client does not fit); clock 1-2 |
| `servers` | what a page links to, descriptors, why a server ends, the history under alarms, that a request is answered | a server directory with a directory of up to 2 entries besides `.` and `..`, one of them hidden, a file that may not be read, an entry without an owner, one too large; every kind of request, one without a method and one for `/..` among them, from clients that may stall or hang up; 4 descriptors and 4 rows, which are used up; 2 changes by others; a history of 3 entries with a window of 2, so a fourth client does not fit |
| `html_listing` | links, each entry once, streams left | every branch: no options and 7 combinations of options with 25 lists of operands (relative, `.`, absolute, missing, hidden, with a `]`, patterns in the current directory, in a directory below the root, in the root itself, cut, without a match), a directory in a directory of the same name |
| `listing` | what is listed is sorted and belongs to the second pass; all operands are listed, `ls` finds its way back | 12 command lines, each branch of `main` and each flag; three directories with up to 4 entries, two with the same key, hidden ones; two changes, so that a file may vanish at any point, the passes differ, or one file replace another between them |
| `cpu_schedulers` | sums, waiting time and optimality of the policies | 3 processes, arrivals 0, 1, 3 (ties, gaps, a file out of order), bursts 1-3, slices 1-2 (with and without a rest) |
| `page_replacement` | OPT has the fewest faults; each policy keeps the pages of its name | every string of up to 7 references to at most 4 pages, numbered as they appear, 1-3 frames: hits, empty frames, full turns of the hand, ties; and inputs at the limits of the arrays |
| `sums` | the printed sums, and that every program ends, also when forks fail | 0 to 6 numbers, so three levels of the tree, uneven halves; sums below, at and above 256; two programs one after the other, so that the second reads what the first appended, also more than the array holds |
| `task_lists` | reference counts, the process tree, what the tracer finds and that it ends | 5 tasks, of which init, one process and two more may fork once: a process, a thread, a sibling; limits that are reached, a failure at every step |

Every property has a mutant: a definition with a plausible bug (marked by its comment or
name, e.g. `RestoreForgetsLast`), under which TLC finds the property violated. The types
of `Fat`, `SyscallHooks` and `Worker`, and `NoWriteFaults` and `PermissionReturned`, are
proved (section 6) and have no run.

## 5. Fairness

* `Fat`: `FairSpec` is weak fairness of the running command only; nobody has to start one.
* `Prefork`: `FairSpec` has weak fairness of `Run(q)`: a process that is not blocked is
  scheduled, and a pending signal that ends it is delivered. Clients, clock and user owe
  nothing.
* `Worker`: weak fairness of `Work`, the steps that wait for nobody, again the scheduler.
  A client need not connect or send (`Wait`), nor read (in `denying` and `sending` no step of `Work`
  is enabled); a worker that is stuck in `ctime`, has crashed or was killed takes no step.
* `Servers`: weak fairness of `reading /\ Work`, what the server and its child do by themselves while
  the client they answer reads. `Client`, the alarm and the keys are not in it, and nobody has to
  begin to read again.
* `Sums`: weak fairness of the steps of a running program; nobody has to start one, and
  that `fork` and `pthread_create` succeed is not assumed.
* `TaskLists`: weak fairness of the walk of the tracer; forks and exits owe nothing.
* `CpuSchedulers`: weak fairness of `Next`, the loop that runs; no property needs it now.
* The others state safety only.

## 6. Proofs

All theorems hold for every value of the constants that satisfies the named assumption
of the module.

* `StorageProofs`, on `Fat`. `TypeCorrect`: types, and no block holds more than `BLOCK_SIZE` bytes.
  `Named`: until a command takes an unused slot for a file, one without a name changes
  nothing, so the rest is about commands with names.
  `ChainsIntact`: `LiveInv` holds then, `ChainInv` until a block is linked to block 0.
  `ChainInv` is inductive together with the types: heads are allocated and not pointed
  to, links are injective and lead to allocated blocks (`Structure`); a chain that still
  ends in 0xFFFF is one block whose size fits (`SizeOfSingle`); the running loop stands
  on a block of its file (`LoopInv`). From the last two follows `ReadsInBounds`, although
  the read loop tests for -1 only.
  `BlocksKept`, until the first link to block 0 or replaced link: a chain is what a walk of
  at most `NUM_BLOCKS` steps reaches, a block is reached at one place of one walk
  (`ReachedApart`), and a write stands on its own chain (`OnItsChain`), so what a step adds is
  reached and what it leaves is still reached. Facts about walks of any length come from
  `Climb`, which replaces induction by a smallest counterexample among finite intervals.
  `StoreImplemented`: the initial state is an empty store and each step is one step of
  `FileStore` or none, seen through `FilesView`. It needs that no two files have a name
  (`NamesOnce`), that a block with a successor is full and a file as long as the blocks
  before its last and what that one holds (`Contents`): then appending to the last block
  appends to what a reader gets.
* `KernelProofs`, on the hooks. `TypeCorrect` and `PermissionGivenBack` hold for any set of
  modules. `NoFaults`, `TableGivenBack` and `EntriesThere` need `Separate` as a
  hypothesis: no entry belongs to two modules, and all others need the one that changes
  the permission. The invariant says for each module and entry, depending on how far
  its init or exit is, what the entry and the saved pointer hold (`Ownership`), and that
  the page is writable while anybody may write (`Permission`). `CallsReachOriginal` adds
  that every pointer a module keeps is that of the kernel, loaded or not
  (`PointersOriginal`), so a call that sleeps in a hook while the module is unloaded and
  loaded again still goes on to the kernel.
  For the modules of 2-3 with their numbers, `TraceImplements`: every step of `IoTrace` is one of `SyscallHooks` or
  changes none of its variables, so what is proved there holds while calls are traced
  (`TraceKeepsTable`). `TraceCounted`: the numbers exceed the calls of the trace by one
  call at most. The invariant is that after a call that began too early has been counted
  the traced process is in none but later ones (`EarlyIsOver`): it returns to no hook
  until it has called again.
* `PreforkProofs`. `PoolKept` and `NobodyLeft`, for any number of workers, as long as no
  process has fallen out of `child_main`: only the parent forks then, each worker is at
  its entry of `pids` or in the fork that has not been stored yet (`Known`), no two have
  an index (`OwnIndex`), and the handler that waits `h` times has at most that many
  children left (`Waits`).
  `Worker` shares no variable with `Prefork`; its theorems stand in the same module.
  `WorkerTypes` needs `Held` (which descriptors a point of the loop
  holds); it says that the index of the history stays in the array, since the client that does not fit
  leads to the end `undefined`, and that this end is met with the last entry used and not before.
  No theorem says that the array is never overrun: it is. `DescriptorsBalanced` and `LeavesForAReason` rest on `Balance` being
  inductive with it; `OnlyListedServed` on what `is_match` says at the test;
  `RowsCorrect` on the last record being filled in the order of the code. For
  `TimesCorrect` the invariant adds that access times are in order; a report then sorts
  sorted times, which leaves them alone: a permutation p of an interval takes some j >= i
  to a place <= i and some k <= i to a place >= i (the pigeonhole principle,
  `FS_PigeonHole`), so the i-th smallest value is the i-th (`SortedStays`).

* `ServersProofs`. `DescriptorsAccounted` and `EndsForAReason` rest on one invariant for
  both servers: at each point of a round a process holds what earlier rounds have lost
  and the one or two descriptors of this one (`Account`), a client in the history has
  cost one (`Recorded`), only a server in its round or a child with a waiting parent
  answers (`Answering`), and a page that failed still has the status it failed with
  (`Failed`). The list of reasons is complete for the clients described in section 3: SIGPIPE and the
  overrun of `ci_array` are ends of their own. The parent's descriptors are those it forked with, since its child's are
  copies. `WindowCorrect`: all entries but the one that is being made are complete
  (`Entries`), times are in order unless a report was early (`Clock`), and `start` has moved
  once for each client behind the first `HISTORY` that has a pid (`Moves`). `RowsCorrect`:
  while a page is made its URL leads to the directory of the first pass, unless
  that is removed; the model removes no other one meanwhile (`Leads`); the sorted array is a bijection between
  places and names (`SortHiddenSorts`: the place of a name is the number of smaller
  ones); after j entries the rows are the wanted ones of them in that order (`RowsOf`).
* `HistoryProofs` has no theorem of its own: the lemmas about `ConnectionHistory` that the
  proofs of both servers use, `SortedStays` among them.
* `KernelProofs`, on `TaskLists`, for any number of tasks and any flags. `CountsRight`: a step changes
  what one task has taken, so each count changes by one at most, as the set it counts
  does (`Recount`); for this a new task must have one maker (`Makers`), and nobody else
  may point to what a fork has just made (`Owners`). `TreeKept`: with `Leaders` (a group
  has one, linked until the last of the group has ended) the lists are those of the
  linked leaders. `TracerCounts`: from its start to the first change of the lists a walk
  is at a place of the list of processes or of the circle of siblings or children, and
  its counters say how far it has come (`WalkInv`); past the head of the siblings it may
  be one ahead. It needs that nobody is his own parent (`Ancestry`), or a child would be left
  out where the code leaves out the parent.
* `Assignment3Proofs`, on the schedulers, for any number of processes, any file, all four
  policies. The invariant `Inv` ties the simulation to its Gantt chart: the chart has no unit twice, its units lie
  between arrival and clock, what remains of a burst is the burst less the units of the process
  (`Chart`), under FCFS and SJF a burst is all or nothing (`Bursts01`), and the ready queue of
  RR holds the processes that are there once each, the running one excepted (`Queue`).
  `SumsOfTheChart`: a step that completes a process adds to each sum the units that the chart shows for it
  (`Accounts` is inductive with the rest). `RRWaits`: a process that waits at place m of the
  queue has been ready for at most the time that m places leave of N - 1 slices (`Waits`).
  `SRTFBest`: `Best` is a recursive function of the time over all states of the work left; its equation is
  proved from the end backwards by a least counterexample. The exchange argument says that
  in any state it is best to run a ready process with the least work left (a best schedule
  that runs another one is at least as good with the two exchanged until the shorter one is done), so what a
  run of SRTF has spent and the best that remains always make the best of all (`OnTheBest`).
  On `Sums`, for any numbers (`SumsKept`): a prefix sum in place of an induction gives what
  `Sum` is of a part, of its halves and of a list that loses or gains a number. The processes of
  fork.c form a `Family` of nested parts; what each of them holds (`HoldsOf`: what it has
  added or has still to add, and the statuses it may fetch) makes together the sum modulo 256, and
  the sum itself while nothing has been cut (`Keeps`), all as long as no fork has failed (`failed`). A fork hands a half on, a wait and an exit cut
  a value, which changes the total by a multiple of 256 (`KeepsCut`); which child a wait returns
  does not matter. Each call but the outermost of a process has a child that runs or a
  status that waits (`Counted`), so a process that ends has neither (`AloneIs`) and each wait finds one
  (`NoWaitFails`), and when the root ends it is alone (`RootAlone`) and holds all. For thread.c a value is the sum of its part (`ThreadState`); of
  two threads one is below a half of the other, or they are apart (`Under`, `Apart`).
* `StorageProofs`, on `PageReplacement`, for any number of frames and any references. `PagesKept`: in a
  sequence of references or loads each page in a frame comes once more after the last of
  each that is not (`Behind`), which makes them the `Recent` ones. A replacement keeps that
  when the page it takes out is behind the others (`BehindOn`): under LRU by its last use,
  under FIFO since the frames behind `oldest` hold pages in the order of their loads
  (`InOrder`). While a frame is empty, FIFO's next frame and the one behind the hand of the
  clock are the first empty ones (`FilledTo`, `Filling`).
  `OptimalBest` is Belady's argument. `LeastFaults` is a recursive function over the string;
  that it exists and has the value its equation says is proved from the last reference
  backwards by a least counterexample (`LeastExists`, `LeastSteps`), since induction is out
  of the prover's reach. So are the facts it needs of the faults left with given pages in the frames:
  one more page saves a fault at most and costs none (`Mono`), saves none if it is not used
  any more (`Dead`), and a page that is used sooner is as good as one that is used later
  (`Exchange`). Then for a policy that runs, the faults it has had and the fewest that are left with
  the pages in its frames are no less than the fewest of all, and for the optimal one
  just that many (`FaultInv`). `Dead` is what justifies the code's throwing out a page that is
  not needed any more while a frame is empty.

* `ListingProofs`, for any directories, names, flags and operands. The sort (`Exchanged`): its
  result is a permutation of its argument, and if no comparison fails and the order is one
  (`Orders`), no pair is left that ought to be swapped. Both loops are followed by a least
  counterexample (`Upward`): what is in front of p is in order with all that is behind it
  (`Done`), and a swap at p and q moves something to q that was behind p already.
  `ListingsSorted` carries this through the passes: what has been stored is the second
  pass, sorted (`Stored`), as the total and `SizeOrder` leave it; after each name the
  output is what the options show of the names so far, in the direction of the loop
  (`Printing`). `SizeOrder` orders by size because while the directory is undisturbed no
  `lstat` in it fails. `AllListed`: what is listed, what is being listed and what is still
  to be listed make together the sorted operands, less directories that are gone
  (`AllOf`, `Operands`); an operand is found because ls is in `Home` whenever it asks for
  one (`AtHome`): `total_blockSize` may stay elsewhere, but each directory has an entry
  (`Dots` is not empty), so `option_l` is called after it and goes back. Of the command
  lines it assumes that `argc` counts at least the operands and a word of flags.

* `HtmlListingProofs`, for any file systems, names, options and operands. The invariant `HtmlInv` has
  six parts. `Types`; `AtHome`: the process is in `Home` except where `wild` has gone to an
  absolute pattern; `Reading`: what is still to be read of the directory are names of it, once
  each, and the path that was built leads to it, unless it is one of those below; then one
  part for each property. `Linked` is `LinksLead` for the rows so far, and for the row of a file that
  is an operand (`FileTableKept`); a path that leads to a directory
  leads with one more name to the entry of that name (`ResolveAppend`), or to the directory itself
  or its parent, which needs that the directories form a tree. `RowsSoFar`
  is `EntriesOnce` for the names behind those that are still to be looked at; of a match the
  first loop makes the rows of what is no directory in `Home` and the second those of
  what is. `Streams` says how many are open at every point: those the point itself closes
  later (`Own`) and the part of `LeftOpen` that the loops have walked (`Left`); each step of a loop
  adds one element to that set if and only if it leaves a stream. `LeftOpen` is a set,
  not a sum, so that this is a step of a cardinality. The
  jobs that are left tell how many patterns are done (`Remaining`).

Only model-checked: liveness (`CommandTerminates`, `ParentEnds`, `CtrlCEndsAll`, `Answered`,
`Finishes`, `TracerEnds`), which is out of the prover's reach.

## 7. Where the code differs from what it says

With a run:

* `fat.c:139` gives an entry the value 0 when the next block is block 0; 0 means "not
  used" (comment at 127), so the block is handed out again (`fat_free_means_unused`).

Without a run, seen while modelling:

* The parent of the preforked server exits before workers it does not know, against its
  comment at line 75 and the loop at 83; or it does not exit, because a
  worker waits for its own lock: `signalHandler_child` calls `ctime` (line 108) and may
  have interrupted one (the exception `SomeStuck` in `ParentEnds`).
* `iotracehooking` may be unloaded under a process inside it: the hook is entered, the
  original call sleeps, `rmmod` restores the entries (110-117), the original returns into
  freed code. The README of the repository (line 39) has the exit leave the kernel as it was.
* The trace of 2-3: `my_ftrace` does not set the numbers back when a trace starts, and
  `cur_pid` stays when it ends, so the numbers of a second trace contain those of the
  first and of what its process did afterwards; a call that was in the kernel when the
  trace began is counted.
* Tracer: the walk over siblings goes through the list head of the parent and takes
  it for a task (line 76: the comment has the parent excepted, which is never in the list),
  so it may count one too many. It holds no lock, and a task it stands on may be freed.
* Kernel fork: `fork_count` counts calls, also those that are refused (2383), and is set to
  0 in each copy (1880).
* `fork.c` of 3-2: 256 exits as 0, more is cut to eight bits once in the child and again
  on the way up, so the result is right modulo 256 only; `temp.txt` grows with each run
  and is read into an array of fixed length without a test.
* Page replacement: the reading loop stores a reference before it tests the count, so one
  more than MAX goes behind the array (265); the first three policies clear the frame behind the next when
  there are fewer than MAX, so MAX - 1 frames go behind the array and MAX do not (124). A page is loaded
  behind an existing empty frame under OPT if some page is not needed any more.
* 2-2 ends with the first page it cannot make; a request that is empty or blank, or `GET` without
  a URL, ends it too, as `strtok` returns `NULL` and `strcpy` copies from it (in 2-3 that ends the
  child, in 3-1, lines 282-287, the worker). No server ignores SIGPIPE: a client that closes the
  connection before it has been sent its page ends the server of 2-2, the child of 2-3 and the worker of 3-1,
  and one that is refused and hangs up ends the server of 2-3 (167-168). A client that does not
  read holds up its server for as long as it likes.
  2-3 keeps the connection of each client open in the parent and stops at the limit of
  descriptors, if `ci_array` has not been overrun before (136; 100 entries): with the usual limit of 1024
  descriptors the array is the first to end. Of a listing each keeps the stream of the directory, in
  2-3 until the child ends.
* HTML `ls`: below an absolute pattern `wild` opens names relative to the directory that
  the first row changed to (1639, 1653), so an entry may get no row or two, against
  the comment at 1586; hidden entries and matches leave streams open; an argument that is
  no directory, or an absolute one with `-a`, makes links to nowhere (155-163, 622), and so
  does every absolute operand that is a file: its name is written behind the directory the
  program runs in (575-578, 601-604, 1428-1431, 1450-1452) or behind itself (1153, 1164-1166). A
  pattern `/*`, and among several arguments any in the root, is looked for in the directory
  `""`, which `opendir` does not open, and `readdir` gets `NULL` (134-149, 1030-1047). With `-r`
  alone each link leads to the directory and not to the entry (214); with `-a` and operands the
  link of `..` leads to where the program was started, also in a listing of that very
  directory (`ls -a .`, line 658). The arrays of operands have rows as long as the longest
  operand, without room for the end of the string (509-519), so its copy writes one character
  behind the row; the model takes the allocator's rounding to absorb that, which is so
  for most lengths.
* FAT: `./fat delete ""` on a fresh image never ends: the empty name is that of the first
  unused slot (205), whose start block is 0, and the loop at 208-214 clears entry 0 and stays there.
  With a file at block 0 it frees that file's chain; `write ""` writes into its block
  (92-119). `execute_cmd` refuses no name (266-270).
* FAT: `fat.c:139` overwrites the link of a full first block although it has a successor;
  the README of the repository says a write moves to the next block.  `create_file` ends a chain with 0xFFFF, `write_file` with -1; README line 59 knows
  -1 only. The new owner of a block appends behind the bytes of a deleted file.
* Preforked server: a worker that leaves `child_main` forks more workers, README line 28
  has five.
* Worker: the array `ci_array` is overrun by the client that no longer fits (226), and
  `child_handler` may interrupt the `ctime` or `localtime` of lines 269, 351 and 716 and wait for the lock of its
  own process with the `ctime` of line 406 (the exception `stuck` in `Answered`). The window of the history moves with each report, not with each client, so
  it may show more than ten records, or none (README line 28: at most ten). Only the last
  line of `accessible.usr` decides, and an empty file admits everybody. A report in the
  middle of a record moves its zero time to another record for good.
* Hooks: with several modules of entry 336 the permission is given back, but unloading in
  another order than last in, first out restores pointers to unloaded modules, and the
  exit of one module takes the permission from the others (explored with three such
  modules: 493,000 states; `TableRestored` and `NoWriteFaults` fail).
* `ls`: with operands, `-r`, `-S` or `-h` without `-a` or `-l` print nothing, and so do
  `-a -l` as two words without operands (line 733 has no further branch); the manual in
  src/README.md line 8 has these options. `-S` without `-l` sorts by name. An operand that
  does not exist lists the current directory if it is the only one. A file that vanishes
  resets the total. With `-l` a file whose owner or group has no name gets no row (1072-1084). `wild` opens directories it does not close, by names relative to
  another directory.
* CPU schedulers: FCFS serves in the order of the file, not of arrival; a burst or slice
  of 0, or under SJF a burst above 1000, makes the loop endless. `CpuAssumption`
  excludes these inputs. `pc_queue` has 1000 entries and is filled without a test;
  the model's Gantt chart has no end, so what follows an overrun is not modelled.

## 8. Not modelled

* Servers: `accept` that fails for another reason than the lack of descriptors (a connection
  that was closed meanwhile ends a server or sends a worker out of its loop as well); a method of more
  than 19 characters, which is copied to `method[20]` (3-1: 283), and texts longer than the
  buffers for requests and links.
* Sums: an `fopen` that fails.

* The image of the FAT tool: a run loads it, executes one command and saves it, each with
  one call. What can go wrong (a crash after `fopen` has emptied the file, two runs that
  overlap) is at lines 40 and 287, and a model of it would say no more than this.
* The earlier `ls` programs (1-1, 1-2): the program `Listing` models without some of its
  options. `option_l` of 1-2 stays in the directory when a lookup fails (608).
* Patterns, plain files and absolute names as operands of the last `ls`: `HtmlListing` has
  them in the version that grew out of it.
* Of the kernel's fork: I/O contexts, namespaces, cgroups, ptrace, `vfork`, pidfds, `unshare`,
  `clone3`, slab caches. They are in the Linux file and nothing of the assignment touches them.
* The memory map printer beyond its hook (it changes nothing), `backend.c` (a Linux file
  with a message added), `kw_hello.c`; the text that programs print; slides and pictures.
