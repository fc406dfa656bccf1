# Verification of evilos

evilos is a small 32-bit x86 kernel in C: GRUB loads it, `init()` sets up the
tables of the processor, and from then on a timer interrupt switches between a
few tasks. This directory holds TLA+ models of its parts, the TLC
configurations that check them on small instances, and TLAPS proofs. Every
definition is translated from the source under `src/evilos`; `PROJECT.json`
(`map`) gives the lines.

Run a check with `tlc -config MCSched.cfg MCSched.tla`, a proof with
`tlapm SchedProofs.tla`.

## Inventory

| Component | State | Operations | Interacts with |
|---|---|---|---|
| Scheduler (`task.c`, `timer.c`) | list of `task_struct` (`state`, `priority`, `next`), `current`, the TSS slot of the GDT | `scheduler`, `do_timer`, `new_task` | called by the timer interrupt, and from tasks through `sleep_on_queue` |
| Task list surgery (`task.c` 131-155) | the same list | `remove_task`, `insert_task` | only `test_task_op` |
| Semaphores (`sem.c`, `mutex.h`, `task.c` 156-178) | `count`, `mutex`, wait queue | `sem_init`, `sem_wait`, `sem_post`, `sleep_on_queue`, `wake_up_queue`, `sleep_on`, `wake_up` | scheduler, allocator; used by pipes |
| Allocator (`mm.c`, `kmalloc.c`) | static `blocks[]`, chained by address | `mem_init`, `mem_malloc`, `mem_free`, `mem_get_size`, `kmalloc`, `kfree` | memory map of GRUB; used by semaphores, pipes, canvas |
| Heap interface (`malloc.c`) | none | `malloc`, `free`, `realloc` | allocator |
| Paging (`page.c`) | page directory and tables at 4 MiB | `page_init`, `page_map_all`, `map_page`, `get_physaddr` | MMU and TLB |
| Pipes (`eeos_pipe.c`) | `g_mgr`: ring buffers `bq[]`, semaphores `fg[]` | `init`, `deinit`, `create`, `read`, `write`, `close`, `select`, `isset` | allocator, semaphores |
| Canvas (`gui/`) | blocks with pipelines of drawings, `total_last` | `canvas_create`, `canvas_draw`, `canvas_update`, `canvas_redraw`, `box_draw` | `malloc`, `realloc`, graphics |
| Console (`screen.c`, `kprintf.c`) | two cursors, text memory, `buf` of `kprintf` | `putchar`, `print_c`, `scroll`, `kprintf` | tasks and interrupt handlers |
| Input (`kb.c`, `mouse.c`) | modifier flags; `mousecount`, `mouse_byte` | `do_kb`, `do_mouse`, `mouse_install` | console; keyboard, mouse and their controller |
| Interrupts (`interrupt.c`, `isr.S`, `exceptions.c`, `syscall.c`) | IDT, GDT | fill the tables; handlers that print and halt | everything |
| Boot (`boot.S`, `kernel.c`, `init.c`) | none of its own | one straight line | everything |
| C library (`lib/`, `libcc.c`) | mostly none | sorting, searching, copying, calendar, numbers in text, strings, formats | used everywhere |
| Graphics (`vesa.c`, `vbe.c`), VFS (`vfs.c`) | frame buffer | pixel loops, dispatch | |

Vendored and left aside: `tools/grub-vbe-patch`, `grub_0.97-64.diff`,
`lib/getopt.c`.

What is hard here. There is one processor, and all concurrency comes from
interrupts: `do_timer` runs behind an interrupt gate and is atomic, but a task
runs at privilege level 3 with interrupts enabled and can lose the processor
between any two instructions, also in the middle of `sem_wait`, `sleep_on`,
`new_task` or `scheduler()` itself. `current` and the task the processor
executes are two things, which the code takes for one. The allocator and `create` of
pipes have no locks. The full list is `hazards` in `PROJECT.json`.

What makes each part correct:

- scheduler: the list stays a chain from `TASK0`; one RUNNING task, which is
  `current` and has the processor; no better task waits after a tick; nobody
  starves; priorities do not overflow;
- allocator: blocks are disjoint and cover the memory exactly; what a client
  holds is used, and is found again by its address; nothing is lost;
- semaphores: the mutex protects count and queue; a queued task sleeps until it
  is posted; a caller returns only with a unit of the count;
- paging: the frame used for a page is the one the tables give, and `map_page`
  changes the page it is called for;
- pipes: bytes come out in order, once, and not more than went in; a read waits
  exactly when there is nothing;
- canvas: the screen shows the last frame although only dirty blocks are
  repainted; writes stay in the buffer;
- console: the cursor stays on the screen, which shows the end of what was
  printed; input: modifiers and packets follow the events, and the one-byte
  buffer of the controller never stays full;
- C library: an algorithm computes what its name says, for every input that is
  not excluded by name, and comes to an end.

One thing to know when reading the rest: `init()` at this commit contains
`int $0x08` (`init.c` 173), whose handler halts the machine, before it creates
a task. The models describe the code after that line, as it runs without it,
and the test programs (`sem_test1`, `do_task3`, `test_map_page`) whose calls
are commented out.

## Modules

| Module | Models | Extended or used by |
|---|---|---|
| `Sched` | `task.c` list, `scheduler`, `new_task`; `timer.c`; task creation in `init.c` | `MCSched`, `Sem`, `SchedProofs` |
| `TimeSharing` | what the scheduler promises | `MCSched` (refinement), `SchedProofs` |
| `Sem` | `sem.c`, `mutex.h`, `sleep_on`, `wake_up`, `scheduler()` in a task, over `Sched` | `MCSem`, `SemProofs` |
| `MemBlocks` | `mm.c`, `kmalloc.c` | `MCMemBlocks`, `MemProofs` |
| `Heap` | what an allocator promises | `MemBlocks` (refinement) |
| `Paging` | `page.c` with the MMU | `PagingProofs` |
| `Canvas` | `gui/canvas.c`, `gui/box.c` | `MCCanvas`, `CanvasProofs` |
| `Picture` | what a canvas promises | `Canvas` (refinement) |
| `Pipe` | `eeos_pipe.c`, `mutex.h` | `MCPipe`, `PipeProofs` |
| `Fifo` | what a pipe promises | `Pipe` (refinement) |
| `Console` | `print_c`, `scroll` of `screen.c` | `Input` |
| `Teletype` | what a text console promises | `Console` (refinement) |
| `Input` | `kb.c`, `mouse.c`, with the devices and both controllers, over `Console` | `MCInput`, `InputProofs` |
| `Sorting` | `qsort`, `bsearch` | `MCLibc`, `LibcProofs` |
| `Copying` | `memcpy`, `memmove`, `bcopy` | `MCLibc`, `LibcProofs` |
| `Dates` | leap years, days before a year and carries of `time.c` | `Calendar`, `LibcProofs` |
| `Calendar` | `gmtime_r`, `mktime`, one action per round of their loops, over `Dates` | `MCLibc`, `LibcProofs` |
| `Almanac` | the Gregorian calendar | `Calendar` (refinement) |
| `Numerals` | `number` of `vsprintf.c`, `itoa`, `parse_num`, `atoi` as operators | `Numbers`, `Formats` |
| `Numbers` | one call of `number` | `MCLibc` |
| `Formats` | `vsprintf` and then `vsscanf`, with `simple_strtoul`, `simple_strtol` | `MCLibc` |
| `SchedProofs`, `SemProofs`, `MemProofs`, `PagingProofs`, `CanvasProofs`, `PipeProofs`, `InputProofs`, `LibcProofs` | proofs | |

**Sched.** `tasks` is the list from `TASK0` through `next`; `current` is the C
variable, `cpu` the task whose TSS the task register designates. `DoTimer` is
the whole handler: acknowledge, age every task (`Aged`, with the missing `else`
of `timer.c` 25), call `scheduler`. `Base`, `Candidate`, `Picked` are the three
parts of `scheduler`'s loop, `SwitchTo` its switch. `new_task` is two steps,
`NewTask` up to the linking and `PublishTask` for the last assignment, since a
tick can come between. `Sti` is the `sti()` of `init()`. `SliceTooShort` is a
timing assumption: a task that was interrupted between those two steps executes
one store within its next millisecond.

**Sem.** A program counter per task; a step touches shared state once, except
that the loop of `scheduler()` over the list is one step. `GetCurrent` and
`SleepSet` read `current`, which after a tick need not be the task that runs.
The `ljmp` of a task is a general protection fault, `halted`: the descriptor
`set_tss` writes has privilege level 0. The count, the mutex, the wait queue
and the allocation failure of the queue item are there; `data` and the pointer
of the item are not. `QueuedSleeps` excepts two tasks. `TASK0` is queued in the place
of a task that a tick has marked asleep; and `Jumped`: `scheduler()`, called from a
task, chooses in one step and makes its choice current in another, and a tick between
the two may let the chosen task run, wait and sleep, so that its choice revives a
sleeper that is still queued. With three semaphores all initially 0 and two tasks, one of
which waits on the first, posts the third and waits on the second while the other
waits on the third and posts the first, this happens; `sem_test1` has too few
semaphores for it. That `kfree(t)` in `sleep_on_queue` is given a task, whose
address no block has, makes it do nothing.

**MemBlocks.** The chain is a sequence of records, in list order, of the
entries of `blocks[]`; `mem_nr` is its length. Arithmetic is modulo `WORD`.
`Allocate` is the first-fit loop with its three outcomes, `OutOfEntries` the
branch marked `fix me`, where the machine dies (`fault`). `held` is what the
clients have; they free only what they hold. `zeroed` is the range of the last
`memset`. Calls are atomic: the allocator has no lock, and two tasks in it at
once are outside this model (listed as a hazard).

**Paging.** `Walk` is the MMU's walk, `tlb` what it cached, `Access` and
`Evict` what it may do at any time. `Slot` is the entry `map_page` and
`get_physaddr` compute: it is that of the table one below the one
`page_map_all` gave the page. `IdentityBelow` states what that amounts to.

**Canvas.** `canvas_draw` and `canvas_update` with their blocks; a node keeps the
object, not its look, as the C code does. `Change` and `Draw` are the client:
`do_task3` marks all its objects each frame; the model's client may leave out an
object that the last frame had unchanged, in the same order. `overrun` records a
write beyond the lines of the buffer.

**Pipe.** `bq` and `fg` are the two arrays of `g_mgr`. A read is the steps
`CallRead`, `SemWait`, `Lock`, `CopyOut`, `Advance`, `SemPost`, `Unlock`, a write
the same with `CopyIn` and without `SemWait`; any step of another task can come
between two of them, a close of the other end too. A copy loop and the update of
the positions are one step each: both run with the mutex held. `Create`,
`Close` and `Deinit` are one step; that two of them do not overlap and that
nobody closes an end a call is using (`MayClose`) are what the clients of the
file do. `eeos_pipe_init` returns -1 at once, because `g_mgr` starts with
`inited` at 0xff. What sleeping in `sem_wait` does is in `Sem`; here only the
count of the semaphore is kept, and a task that never takes another step stands
for one that sleeps for ever. Also in the code and visible in the module: the
semaphore of a descriptor is `fg[fd]` although `create` initialises `fg[i]`;
`deinit` frees one pipe and returns; `select` posts the semaphore that has the
index of the descriptor *in the set*. Of the leaks (the mutex is never freed)
and of the positions, which overflow after 2 GiB, the module says nothing.

**Console.** `video` is the text memory as one array, without attributes. The
characters are values of their own except the four that `print_c` interprets.
`Settle` is the end of `print_c`: wrap, advance or scroll, set the cursor.
`putchar`, which writes the same memory with a cursor of its own, is not
modelled.

**Input.** `full` and `data` are the output buffer of the keyboard controller,
`kbq` and `mq` what the devices have still to send, `irr` and `in_service` the
interrupt controllers; all these are external and act at any time. `boot` is the
place in `mouse_install` (from `mouse_write(0xF6)`) and `init()`. `MouseRead` is
a `mouse_read` whose wait may have timed out: it takes what is there. `DoKb`
and `DoMouseEmpty`, `DoMouseTest`, `DoMouseRead` are the two handlers; they run
behind interrupt gates, so only the devices act between the two accesses of
`do_mouse`. `slip` is a history variable: it notes that a byte went to someone it
was not meant for, or that a held modifier repeated its make code. The two
properties that speak about state being in step hold only without such a slip,
and both slips are reachable: a key hit while the mouse is installed, and
typematic repeat of a held shift.

**Sorting, Copying, Dates, Calendar, Numbers.** The loops of `qsort`, `bsearch`, the
copying functions, `gmtime_r` and `mktime` are actions, one per round, because their
invariants are worth proving. Only the conversions (`number`, `itoa`, `atoi`) are
operators that follow the C text. A time is a day number and the seconds of the day,
since 2^32 seconds do not fit TLC's integers; -1 is the second before the epoch.
Integers are unbounded in `Calendar`: the tests of `mktime` for products that do
not fit all end in -1, as the test of the result does. A program that moves the month or
the year of a date means as many days as the months in between have (`Begins`). Three results are excluded by name: `bsearch` of an array
of one element always answers NULL (its loop does not run); `qsort` of an empty
array goes round 2^32 times before it stops (the model has `M` for 2^32), which
is slow and not wrong; `memmove` copies forward whatever the overlap (`Usable`).

**Formats.** A format is a sequence of directives; each is what both functions make
of one `%...`, or a character. `PrintNext` is one round of the loop of `vsprintf`, `Scan`
one of `vsscanf`. A digit is its value, other characters are
values of their own; one letter stands for all that are no digit in any base. An
integer is kept as the word that is stored. `Readable` says under which conditions
the two formats correspond: what follows a conversion must not continue it, `%x`
does not accept the `0x` that `%#x` prints while `%i` does, `%i` takes a leading zero
for octal, no conversion accepts a plus. Without a width, `%s` of
`sscanf` takes four characters (`sizeof(int)`) and not the word. A `*` for a width or
a precision is left out: `vsprintf` takes the argument but never passes over the `*`,
and prints the directive instead. `l`, `L` and `z` change nothing for one word.

## What the runs show

| Run | Instance | Shows |
|---|---|---|
| `sched` | 3 tasks at boot, a fourth later (3337 states) | list, `current`, `cpu`, state and priority stay consistent; best task after each tick; no starvation; refinement of `TimeSharing` with at most 6 ticks of wait |
| `mem` | 3 map entries, 64-byte words, pages of 4, requests of 1, 4 and 9, 8 entries (1636 states) | disjoint, conserved, findable, not leaked; refinement of `Heap`, also when `blocks[]` is full |
| `sem` | `sem_test1`: 2 tasks, 2 semaphores (about 800 000 states) | the mutex protects the semaphore; a queue is never longer than the count says; a queued task sleeps, but for `TASK0` and `Jumped` |
| `sem_token` | same | **violation**: both tasks get the one token |
| `canvas` | 4 x 4 pixels, blocks of 2 x 2, 2 objects (about 160 000 states) | repainting dirty blocks shows the whole frame (refinement of `Picture`) |
| `canvas_edge` | 3 x 3 pixels | **violation**: writes beyond the buffer |
| `paging` | 2 tables of 2 entries (17604 states) | `get_physaddr` remembers `map_page`; what `map_page` can change |
| `paging_tlb` | same | **violation**: a stale translation survives `map_page` |
| `pipe` | 2 tasks, 1 pipe of 3 bytes, 7 bytes through it, calls of up to 2 (about 600 000 states) | mutual exclusion; positions and byte count agree and never exceed the buffer; the buffer is there while a call is; refinement of `Fifo` |
| `pipe_ready` | same | **violation**: an empty pipe is reported as ready |
| `input` | screen of 2 x 4, 5 keys, 2 strokes, 1 mouse packet (about 270 000 states) | types and cursor; modifiers and packets in step without a slip; the buffer never stays full; refinement of `Teletype` |
| `libc` | arrays of up to 4, memories of 5 bytes with words of 2, 800 days in a row and about 120 more up to the end of `time_t`, each with 16 changes of its fields, words of 4 bits, formats of up to 3 of 15 directives (308 396 states) | the algorithms compute what they should; `sscanf` reads back what `sprintf` printed and never looks behind the end of the text; `bsearch` ends; refinement of `Almanac` |

### Bounds

- `sched`: priorities are finite by themselves with three tasks or more
  (`PriorityBounded`, proved for any number of them), so nothing is cut off. A fourth task exercises creation
  after boot, from any task and at any moment; with five (tried: 434 793
  states) only the longest wait changes, to 24 ticks. With two tasks the
  priorities drift upwards for ever.
- `mem`: the map starts at address 0 (the `NULL` block), has a reserved hole and
  an extent that is no whole number of pages. The three requests give exact
  fits, splits and refusals; `NR_BLOCKS` is small enough to fill, which also
  bounds the state space.
- `sem`: `MaxDrift` cuts off behaviours in which a priority leaves 160..240,
  `MaxCount` those in which a count leaves -2..2. Within them every step of
  every task meets a tick. Deadlock is not checked: the machine may halt, and a
  task may sleep with a mutex held.
- `canvas`: the looks are one inside a block, one across four blocks, one off
  the corner, one as high as the canvas, one outside, one empty.
- `mem` does not check deadlock either: after `fault` nothing happens.
- `pipe`: 7 bytes take the positions twice around a ring of 3 (`MaxPos` is a
  constraint on the state, so steps beyond it are still checked). Three slots of
  `maxcount` against calls of 2 give partial writes and partial reads. The counts
  of `fg[]` grow for ever and decide nothing of what `read` and `write` do, so the
  view leaves them out; `pipe_ready`, which looks at them, has no view. A second
  pipe shares nothing with the first (the proof has any number).
- `input`: two strokes are a press and a release, a press and its repeat, or two
  keys at once, at any moment of the installation and of the handlers; a packet
  is three interrupts. Longer histories add no new overlap, because each device
  has one byte at a time in the buffer. 2 lines of 4 columns with tabs of 2 reach
  every border of `print_c`; the digits `do_mouse` prints reach the scroll.
  Deadlock is not checked: the bounds on strokes and packets run out.
- `libc`: arrays of 0 to 4 have every case of `middle` of `bsearch`; the memory
  has every overlap of two areas; 4-bit words have every sign, radix, flag, width
  and precision at every value, the smallest included; three directives give a
  conversion, a separator and a conversion, two conversions that touch, and `%n`
  between two; 800 days pass a leap year and every border of months; the days asked of
  `mktime` are the borders of years, leap or not, of centuries and of `time_t`, and
  the changes carry each field in both directions, months and years too (the
  theorems have every day and every change). Deadlock is not checked: a call ends.

### Fairness

`Sched!Fairness`: the PIT raises ticks for ever (weak fairness of `DoTimer`), a
task inside `new_task` goes on with it when it has the processor
(`PublishTask`), and `init()` gets to its `sti()`, since nothing interrupts it.
No fairness is assumed for creating tasks after boot.

`Input!Spec`: weak fairness of `Fill` (the controller takes a waiting byte when
its buffer is free), of `Install` (`init()` goes on, interrupts are disabled) and
of `Handlers` (a requested interrupt is delivered and a handler, which runs with
interrupts disabled, ends). Keys and mouse moves are not forced. `MCLibc!Spec`:
weak fairness of the rounds of `bsearch`, for a program that goes on. `Pipe`,
`Sem`, `MemBlocks`, `Paging` and `Canvas` state safety only: a task in
`mutex_lock` spins, and whether the holder ever runs again is not decided by the
code of these modules but by `Sem`, where it may not.

### Findings

Four disagreements between the code and what its comments or its tests say, in
`findings` of `PROJECT.json`: the lost token of `sem_test1`, the canvas that
writes behind its buffer, the TLB entry `map_page` does not flush, and the pipe
that is reported as ready while it is empty. The first one in short: the task
that has to wait is marked asleep, a tick makes `TASK0` current while the task
still has the processor, `scheduler()` finds nobody better than `TASK0` and does
not switch, and `sem_wait` returns.

## What is proved

`SchedProofs`, for every set `Task` that contains `TASK0` and every `BootTasks`:

- `SchedInv` is `TypeOK /\ ListOK /\ CurrentRuns`. It is inductive: `CurrentRuns`
  makes `Base` equal `current` (`BaseIsCurrent`), so that a switch hands RUNNING
  from exactly one task to exactly one other; `ListOK` needs `CurrentRuns`
  because `new_task` links behind `current`, and the type of `tasks` because an
  insertion must be at an existing position (`InsertAtProperties`).
- `TypeCorrect`, `ListIntact`, `OneRunning` follow from it; `BestRuns` is the
  action property that the loop of `scheduler` leaves no better task waiting: it
  shows that a last best candidate exists in any list.
- `PrioritiesStay`: for any finite number of tasks, at least three of them at boot,
  no priority leaves `-(31 + 10 * Cardinality(Task)) .. 220`, in whatever order
  tasks are created and interrupted. Above: of three tasks what one pays the two
  others get, so the sum of three stays at most 600, the best costs at most 200 and a
  penalty leads to 220 at most (`ThreeCheap`, `HighOK`); the clamp only helps. Below: a
  priority below -11 belongs to a task that was passed over, and at every tick the
  deepest one leaves that region; so there are the fewer tasks the deeper
  (`FewOK`). The count has to leave out the tasks that cannot run yet or
  were published since the last tick (`FreshOK`), of which one at most has
  been aged (`LateOK`): a task that is linked while its creator waits sinks with it and
  ends at most 30 below it (`CreatorOK`), and 10 more before it is charged (`LowOK`).
  That is where the 30 come from: a bound without them, which TLC does not refute
  with four or five tasks, is exceeded with 26 (by one of them created before the first tick). `PriceInv` was checked by
  TLC with four and with five tasks first.
- `TimeIsShared`: for any finite number of tasks, `MCSpec` implements the initial state
  and the steps of `TimeSharing` for every `Patience` from `Cardinality(Task) + 26` on:
  `priority + 10 * waited <= 230` (`WaitedInv`) against the lower bound of
  `PrioritiesStay`.
- `DeployedSharing`: for the three tasks of `init()` the same holds for every
  `Patience` from 4 on: no ready task is
  passed over more than four ticks in a row, however long the system runs. What
  a task has waited and what is left of its penalty have a common bound (`WaitInv`),
  while the sum of the three stays 600, none is more than 30 above the running one
  (`DeployedInv`) and one that does not run never gets below 190 (`ThreePrices`). Four is the least: TLC refutes 3.

`MemProofs`, for every memory map without overlaps below 4 GiB, every page size
and every set of requests (`MMapAssumption`, `SizeAssumption`,
`RequestAssumption`): `MemInv` is `TypeOK /\ Disjoint /\ Conserved /\
HeldAreUsed`. Disjointness of non-empty blocks is what makes addresses unique,
which `mem_free` relies on; a split replaces an interval by two that partition
it. `MemTypeCorrect`, `BlocksDisjoint`, `MemoryConserved` and `HeldBlocks`
follow.

A used block nobody holds can only be the one at address 0
(`NothingLeaks`): a block becomes used in the same step in which its address is
handed out, a free makes exactly the block of that address free
(`UniqueAddr`), and a split marks at most the block that is handed out
(`UsedAfterAllocate`). `HeapImplemented` is the refinement of `Heap`: the block
`kmalloc` hands out has the size asked for, lies in usable memory and meets no
live one, `kfree` ends exactly one (`KmallocHeap`, `KfreeHeap`); the block at
address 0 never counts as live, since nobody holds NULL (`NullFree`), and a full
`blocks[]` changes nothing that is live (`OutOfEntriesHeap`).

`SemProofs`, for every set of tasks and semaphores and every program of waits and
posts: `SemInv` adds to the types and to `MutexHeld` that a step that has not
queued its task yet, or has taken a task off the count and not yet off the queue,
leaves the queue one shorter or lets it be one longer than the count says
(`Allowed`). Only the holder of the mutex can be at such a step, so every other
action keeps the bound. `SemTyped`, `MutexExclusive` and `NoPostInVain` follow. The
ticks in between come from `SchedProofs`: a step of `Sched` keeps its types.

`SleepersQueued` (`QueuedSleeps`) needs more, since the step that queues a task and the
one that puts it to sleep can lie several ticks apart (`SleepInv`): a task is in one queue
and once (`Once`); between the two assignments of `sleep_on_queue` it is asleep and in
no queue yet (`Entering`, `Marking`); what `sleep_on_queue` read from `current` is
the task itself or `TASK0`, because a tick that switches away from a sleeping task
makes `TASK0` current for it (`Known`, `Running`); and a task that calls
`scheduler()` in its own name is awake (`Awake`). So whoever is made runnable or running
while it sleeps in a queue is `TASK0`, was discounted by a `sem_post`, or is a
`Jumped` one. TLC checked `SleepInv` before, on `MCSem` and on the instance with
three semaphores (17.6 million states).

`PagingProofs`, for every size of directory and tables: `PagingInv` adds that after
`page_init` the directory refers to the tables in order, whatever `map_page` does
(`DirOK`). Two pages have different entries (`SlotsDiffer`), so a `map_page`
changes the memory of one page only, and what `get_physaddr` and the MMU read for
the others stays. `MappingsRemembered` and `IdentityKept` follow.

`CanvasProofs`, for every size of canvas and of block, every set of objects and
looks: `CanvasInv` has the types; that a frame draws no object twice (`Once`);
that an object not marked looks as it did in the last frame (`LookOK`); that one
drawn without a mark was in the last frame, in the same order among its like
(`CleanOK`); that each block has as many nodes as objects of the frame touch it
(`NodesOK`) and would be painted as the frame is (`PaintOK`); that a block a marked
object touches will be repainted (`MarkOK`); and that the screen shows the last
frame (`ScreenOK`). The point of the code, that a block with no marked object and
as many objects as before need not be repainted, is `Shown`: its objects are all
among those before, in the same order, and equally many, so they are the same
ones, and the first over each pixel is too. `CanvasCorrect` gives `TypeOK` and
`CountsShown`, `PictureShown` the
refinement of `Picture`.

`PipeProofs`, for any number of callers and pipes, any buffer size and length of
calls (`PipeAssumption`: within `fg[]`): `PipeInv` has the types, `MutexHeld` and
`NeverOverfull`; that an open pipe has its buffer and a closed one is zeroed
(`OpenOK`); that a call keeps its own end open, from which `BufferThere` follows
although the other end closes (`CallOK`); and that what was copied still fits when
the position is advanced (`AdvanceOK`), which needs the mutex. `PipeTyped`,
`PipeExclusive`, `NoOverrun` and `BuffersStay` follow. `PipeIsFifo` is the
refinement of `Fifo`. A read and a write take effect when the position advances
(`AdvanceSeen`); it needs that what was copied is still what the ring holds
(`CopiedOK`), and that the bytes a writer copies in go to cells no unread byte is in,
which is arithmetic modulo the size (`SameCell`, `CopyInSeen`). Every other step
is one that clients do not see, or opens or closes a pipe.

`InputProofs`, for every screen, keyboard and bound: `InputTyped`. The interesting
part is `print_c`: whatever it is given, the cursor ends on the screen, and the
cell it writes is in the text memory, also after a wrap, a tab, a scroll and a
backspace over the start of a line (`PrintTyped`, `CursorCell`). `ConsoleIsTeletype`
is the refinement of `Teletype`. The rows of the sheet are the cells in groups of
`MAX_COLUMNS` (`View`), and the cells are ordered as rows and columns are (`RowOrder`);
so blanking a range of cells erases part of one row (`ViewBlanked`), `scroll` drops
the first row and adds a blank one (`ViewScrolled`), the end of `print_c` is a move of
the teletype (`SettleMoves`), and the rounding in case `'\t'` finds the next tab stop,
never past the edge because the width of a tab divides the columns (`StopOfTab`).

`KeysInStep` (`ModifiersInStep`) is inductive with `QueuesTyped`, which says that each
device queues its own bytes only: a byte that moves from the device to the controller
to the driver stays counted once, and only `Toggled` moves it from the bytes on their way
to `pressed`. `PacketsStayWhole` (`PacketsInStep`) needs to know what comes after the
byte that is next: `PacketInv` says that the bytes on their way finish the packet
that has been begun and begin none they do not finish (`Train`), with the late
acknowledgement of the installation only between packets (`Follows`).

`LibcProofs`: `CopyCorrect` from the invariant that the part of the destination
already written holds the source as it was and the rest is untouched
(`PartlyCopied`); it needs that a copy never reads what it has written, which is
where the direction comes in. `QsortSorts` and `BsearchFinds` from: the array is
a permutation of what was given, the first `i` elements are in place, `swap` is the least of those
seen, and during a search the key, if it is there, lies between `top` and
`bottom`. `LeapDaysCounted`: what `mktime` computes by three divisions with their
corrections grows, from every year to the next, by the length of the
year as the loop of `gmtime_r` has it. `FieldsCarried`: a field out of its range,
below zero too, is carried without a loss.

`MkTimeCorrect` (`MkTimeInverts`), for every day, every time of day, every change of
the fields and every `TIME_MAX`: `mktime` undoes `gmtime_r`, normalises the fields, and
answers -1 exactly for what `time_t` cannot hold. `CalInv` says of each loop what it
has left to do: `gmtime_r` has subtracted the days of whole years (`YearLoop`), then of
whole months (`MonthLoop`); the date it ends with is that of the day (`DateFound`);
the carries of `mktime` move no day (`Changed`, `Carried`); and the last loop has
counted the days of the months passed (`Counting`). That the month found is the right one,
and that a year before 1970 is a time before the epoch, needs that years and months
neither overlap nor leave a gap (`YearsInOrder`, `MonthsInOrder`), which comes from a
closed form of the leap days (`DaysToClosed`) and the table (`TableAgrees`).
TLC checked `CalInv` first. `DatesAreCivil` is the refinement of `Almanac`: a day has
one date (`DayIs`, `DateIs`), and that of the day after is its successor inside a month,
at the end of one, and at the end of a year (`CivilStep`).

Only model-checked: `NoStarvation`, `NeverWedged`, `SearchEnds` and that the ticks of
`TimeSharing` go on, which are liveness and beyond the prover; `PrintsNumber`, `ReadsBack`
and `StaysInText`, which are about recursive operators. The waits of 6 and 24
ticks with four and five tasks are TLC's; the theorem's bound is coarser.

## Not modelled

- `remove_task`, `insert_task` (`task.c` 131-155): called by `test_task_op` only,
  which nothing calls. `insert_task(remove_task())` links the removed task behind
  itself, since `current` still names it.
- `realloc`: `memcpy` is called without its length, so what is copied is whatever
  the stack holds. `Canvas` takes the growth of a pipeline to succeed.
- Two callers in the allocator or in `eeos_pipe_create` at a time: no lock is there,
  so there is nothing to show but the damage; they are hazards without a property.
- Boot (`boot.S`, `kernel.c`, the rest of `init.c`), the descriptor tables and
  exception handlers: straight lines that run once, and handlers that print and
  halt.
- String functions, `strftime` and the loop of `kprintf`: text formatting without
  state. `simple_strtoull` and `simple_strtoll` repeat their 32-bit twins. The stubs of `stdlib.c`, `time.c` and `stdio.c`
  return uninitialised values.
- Graphics (`vesa.c`, `vbe.c`): pixel arithmetic without control state. `vfs.c`: six
  indirect calls, no file system behind them. `vmalloc.c` is empty.
- `tools/grub-vbe-patch` and `lib/getopt.c`: vendored (GRUB 0.97 with its network
  drivers and file systems; glibc). They make up more than four fifths of the lines
  of the repository, which is why the definitions here stand for a small part of
  it although they cover most of the kernel's own control code.

## What could follow

A stepwise allocator with two callers; the loop of `number` as actions, one per digit, so
that its invariant can be proved as that of `mktime` is.
