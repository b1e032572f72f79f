# Verification of riscv-step-by-step

TLA+ models, TLC runs and TLAPS proofs about the operating system kernel that
this repository builds up in thirteen steps. The last step, `src/steps/13`, is
modelled in most detail: a kernel in machine mode (`m/`) with preemptive
multitasking on one RISC-V hart, system calls, paging and an ELF loader, and a
user program (`u/`) with threads, a futex mutex and condition variables. The
kernels of steps 4 to 12, and the prototype they came from (`src/src`), are
modelled more coarsely against one common promise.

## The system

### Components

| Component | Code (`src/steps/13` unless said) | State | Operations | Modelled in |
|---|---|---|---|---|
| Scheduler | `m/sched.c` | `task[]`, `curr_task_num` | `schedule`, `pickup_next_task`, `block_current_task`, `ready_task`, `create_task`, `clone_current_task`, idle | `Kernel` |
| System calls | `m/syscall.c`, `u/syscall.h`, `u/syscall.S` | the saved registers | read, write, exit, clone, waitpid, futex, unknown | `Kernel` |
| Exit and wait | `m/sched.c` | `wait_queue`, `exitcode` | `terminate_current_task`, `handle_waitpid` | `Kernel` |
| Futex | `m/futex.c` | `queue` | `FUTEX_WAIT`, `FUTEX_WAKE` | `Kernel`, `TaskList` |
| Console input | `m/read.c`, `m/main.c` | `queue` | `handle_read`, `receive_read_data`, external interrupt | `Kernel` |
| Wait queue lists | `m/task.h` | three roots, `prev`, `next` | enqueue, dequeue, the search loops | `FifoQueue`, `WaitQueues`, `TaskList` |
| Page tables | `m/vm.c` | first and second level entries | `init_pte`, `setup_pte`, `va_to_pa` | `Sv32`, `Paging` |
| Page faults, loading | `m/main.c`, `m/elfldr.c` | frames handed out, valid bits, RAM | `setup_va`, `allocate_pa`, `handle_page_fault`, `load_program_segment` | `Paging`, `UserMemory` |
| ELF checks | `m/elfldr.c` | none | `check_elf`, `load_elf`, `get_phdr_from_va` | `Elf` |
| PMP | `m/main.c` | PMP entries | `setup_pmp` | `Paging` |
| User memory access | `m/task.c` | pages | `store_32`, `load_32`, `store_8`, `load_8` | `Kernel` (words), `Paging` (cells) |
| Trap entry | `m/crt.S` | `trap_context` | save, restore | `Kernel` (`frame`), `Prototype` |
| Timer | `m/main.c` | `mtimecmp` | timer interrupt | `Kernel`, `Machine` (`mtip`) |
| Mutex, atomics | `u/mutex.c`, `u/atomic.S` | the mutex word, the reservation | lock, trylock, unlock, lr/sc | `Mutex`, `GuardedCounter` |
| Condition variables | `u/condvar.c` | the sequence word | wait, signal, broadcast | `CondVar`; the count of broadcast in `Kernel` |
| Threads | `u/thread.c`, `u/main.c` | stacks, the counter | create, join, increment | `Kernel`, `Mutex` |
| Boot | `m/main.c` | all of the above | `main` with its errors, `start_schedule` | `Paging`, `Kernel` |
| Step 12: threads | `src/steps/12/m` | tasks, two queues | clone, exit, waitpid, read | `Step12` |
| Step 11: blocked tasks | `src/steps/11/m` | tasks, one queue | read, console interrupt, idle | `Step11` |
| Step 10: task states | `src/steps/10/m` | tasks | exit of one program, idle | `Step10` |
| Steps 9, 9-xonly | `src/steps/9/m`, `9-xonly/m` | valid bits | page fault, alternate | `Step9`, `Lazy` |
| Step 8: two programs | `src/steps/8/m` | two contexts | `switch_task` | `Step8` |
| Steps 4 to 7, 7-4mpage | `src/steps/4/m` to `7-4mpage/m` | one program | modes, calls, page tables | `OneProgram` |
| Prototype | `src/src/m` | task pointers, one reader | `sched_schedule`, `trap_handler` | `Prototype` |
| Steps 1 to 3, PLIC and UART set-up, loader | `src/steps/1` to `3`, `m/plic.c`, `m/setup.c`, `src/mk` | device registers | set-up, claim, complete | not modelled |

### How they interact

The hart runs user code with interrupts enabled and every trap handler with
interrupts disabled, so a handler is atomic and user code is interleaved between
any two instructions. `crt.S` saves the registers in `trap_context`, calls
`handler()` in `main.c`, and restores them. The timer interrupt and every system
call but write call `schedule()`, which copies the frame to the task structure,
picks the next runnable task and copies its registers to the frame. A task that
waits is in one of three queues with the state *blocked*; all three use the same
`prev`/`next` pair in the task structure. Whoever wakes it (an exit, a futex wake,
a character) reads the *saved* registers of the sleeper to find what it waits for
and where its result goes, and writes that result into the sleeper's memory
while another address space is current. The user's mutex builds on lr/sc, whose
reservation is lost by a context switch, and on the futex calls. (The kernel does
not clear it with an sc of its own: that `mret` drops it is what the version of the
ISA says to which the repository's README refers, and what the model assumes.)

### What is hard, and what makes the parts correct

* **Interleaving.** A task can be preempted anywhere. There must be exactly one
  running task, and none in the idle loop; a blocked task must be in exactly one
  queue; the saved registers of a sleeper must be those of the call it sleeps in.
* **Order.** exit and waitpid may come in either order, and the exit code must
  arrive in both. Readers and waiters of a futex word are served in order.
* **Lost wakeups.** An exit, a wake or an unlock that precedes the sleep it is
  meant for must not leave the sleeper behind.
* **Lists changed in a loop.** `handle_futex_wake` removes the node it stands on
  from the list whose root is its end condition.
* **Liveness.** A ready task must get the processor, also after idling, and no
  thread may wait for ever for the mutex.
* **Address spaces.** A page is read from the image at its first access, while ticks
  switch to another program that may fault at the same address. Frames must not be
  given twice, every frame needs a PMP entry, a page must be loaded once, from its
  own segment, and the kernel's own stores must land in the right space.
* **Switches.** Registers, program counter, page table and privilege mode must change
  together, also out of and into the idle loop.
* **Copies.** clone copies a task structure whose registers are older than the
  call; the child must still get its own stack.
* **Limits.** The table has 16 slots which are not used again; pids, addresses and
  sizes meet range checks with 32-bit arithmetic.

`PROJECT.json` lists these hazards line by line.

## The modules

* `FifoQueue` represents a queue by the relation "is ahead of": a function from
  its members to the sets of members ahead of them. That makes "remove these
  members" and "the first member that ..." single expressions without recursion,
  usable in proofs. It also says what a futex walk does: whom it wakes
  (`WalkWakes`) and when it never ends (`WalkNeverEnds`).
* `WaitQueues` is the abstract specification of the queues: sleep, pop, remove
  the first with a key, walk. It uses the operators of `FifoQueue`.
* `TaskList` is the pointer code of `task.h` with the loops of `read.c`, `sched.c`
  and `futex.c`, statement by statement on `prev`, `next` and the roots. It
  implements `WaitQueues`: `FifoOf` is the refinement mapping. A loop is a recursive
  function of the number of its turns, and one that takes `MaxTurns` turns counts as
  endless: a walk that ends passes each task at most once, and `TaskListAssumption`
  asks for more turns than two rounds.
* `Kernel` is the kernel: one action per system call outcome and interrupt. Its
  variables and the code:

  | Variable | Code |
  |---|---|
  | `state`, `exitcode`, `space`, `regs` | fields of `task[t]` (`space` stands for `pte`) |
  | `curr` | `curr_task_num`, -1 in the idle loop |
  | `frame` | `trap_context`, which equals the live registers between traps |
  | `readq`, `waitq`, `futexq` | the queues of `read.c`, `sched.c`, `futex.c` |
  | `mem` | words of user memory by address space |
  | `power` | on, off after `exit()`, hung in a handler that never returns |

  Of the registers only a0, a1, a2 and sp are kept, the ones the kernel reads
  and writes after the call that set them (a3, the value of futex and the argument
  of clone, is used only within its call). A system call action stands for the
  user code that loads the arguments, the ecall, the handler and the restore;
  other user instructions are a store to a futex word (`UserStore`), an access
  that ends the program (`UserFault`) and steps that change nothing the model
  keeps. What lies behind `task[]`, read by waitpid with pid `USER_NUM_MAX`, is
  any state. Programs are assumed to give a new thread a stack no living thread
  of the program uses, and, unless `SharedJoin`, not to let two threads wait for
  one pid at a time, as `u/main.c` does.
* `MCKernel`, `MCTaskList`, `MCPaging` and `MCSteps` hold the input bursts, the symmetry
  and the images for TLC.
* `Mutex` is the user program of threads that increment a counter under the mutex,
  by instruction; futex calls are one step. The reservation is a variable: sc
  succeeds only for the thread that holds it, may fail without a reason, and a
  preemption drops it. `GuardedCounter` is what it implements: `increment_count` in three
  steps, `thread_mutex_lock`, an `increment` of the counter all at once, and
  `thread_mutex_unlock`, of which only the holder of the mutex does the last two, in turn.
* `CondVar` is `condvar.c` by instruction, on top of a lock (which `Mutex` implements)
  and the kernel's futex queue. The repository has no program that uses condition
  variables; the client is the one they are made for, consumers that wait in a loop
  until there is an item and producers that add one and signal before or after they
  unlock. The sequence word is taken modulo `SeqMod`, which is assumed larger than the
  number of signals.
* `Elf` has the checks of `elfldr.c` and the search for a segment, as operators with
  wrapping addition; `Sv32` the page table operations, the hart's translation and
  the copy of a page.
* `Paging` is address space management: `main()` turn by turn of its loops, then user
  code as a sequence of accesses. An access is issued and retried until the hart
  performs it or the handler ends the machine; a page fault and the retry are two
  steps, and the timer may come between them. A frame is a page of RAM from
  `USER_PA`; a cell is the unit of access. The kernel's stores on behalf of a sleeper
  go through the sleeper's table while any program is current; they are to
  addresses of variables whose page the program has touched.
* `UserMemory` is what `Paging` implements: the image was copied before the program
  started, and no one but the program and its kernel calls changes it. The refinement
  mapping (`VirtualMemory`) reads a valid page in RAM and any other one in the image.
* `Machine` is what the kernels of steps 4 to 12 share: the hart with translation, PMP
  and pending timer, one cell for a page, the registers pc, a0, a1, a2 and sp. Each
  step extends it: `OneProgram` (4, 5, 6, 7, 7-4mpage), `Step8`, and with `Lazy`, the
  demand loading of step 9, `Step9` (9 and 9-xonly), `Step10`, `Step11`, `Step12`. An
  action is a handler; what a step changed against its predecessor is what its
  module says anew.
* `Programs` is what every one of these kernels promises: a program's registers and
  memory change by its own instructions one after another, and by what it asked the
  kernel for; faults and switches cannot be seen. Each step's `Promise` is the
  refinement mapping.
* `Prototype` is the kernel of `src/src`: two programs in one page table, one reader at
  a time, a trap frame in which s4 is missing.
* `Steps` runs all of them side by side: `version` is chosen at the start.
* `FifoQueueProofs`, `KernelProofs`, `KernelJoinProofs`, `CondVarProofs`, `MutexProofs`,
  `PagingProofs`, `TaskListProofs` and `StepsProofs` hold the lemmas and theorems.

Definitions whose comment begins with "Mutant of" are plausible bugs; no specification
uses them. Each property is checked to fail when one of them replaces its original.

## The runs

| Run | Instance | Shows |
|---|---|---|
| `calls` | 3 tasks, 1 program, 3 stacks, 2 futex words; read, write, exit, clone, waitpid and futex with an unmapped address and a bad pid, wake counts 0 and 2, bursts of 1 and 2 characters with control-C | types, queues, one running task, readers and waiters in order |
| `threads` | 3 tasks, 1 futex word, fair timer; clone, exit, read, waitpid, futex with count 1 and waits that find another value, unknown number | nobody waits for a dead task; the exit code arrives; stacks are not shared; slots are final; the processor goes round; a ready task runs |
| `lists` | 4 tasks, 3 queues, 2 keys, walks for 1, 2 and 9 | pointer code implements the queues |
| `mutex` | 3 threads, 2 rounds, fair scheduler | exclusion, no lost wakeup, exact count, implements `GuardedCounter`, no deadlock, all threads end |
| `condvar` | 2 consumers, 2 producers, 2 items each, fair scheduler | no lost signal, everything is taken |
| `paging` | 2 programs, 5 images (2 and 3 segments; wrong machine, truncated, a segment of 2 pages), 4 page table entries, 6 frames | disjoint and open frames, implements `UserMemory`, every access ends |
| `steps` | steps 4 to 12 and the prototype, 1 or 2 programs, enough and too few PMP entries | implements `Programs`, user mode for programs, sleepers in queues, one reader |
| `shared_join` | 3 tasks, two joiners of one | **violated**: the second joiner is never woken |
| `illegal_pid` | 3 tasks, pid 3 | **violated**: a caller sleeps for a task beyond the table |
| `broadcast_hangs` | 3 tasks, count 9 | **violated**: the wake loop never ends |
| `broadcast_wakes` | 3 tasks, count 9 | **violated**: one of two waiters is woken |
| `prototype` | 2 programs | **violated**: a program finds another one's s4 |

The five violated properties are the findings of `PROJECT.json`, with the lines
of the code and of the texts that disagree.

**Bounds.** Three tasks, each with a stack, are enough for one that runs, one that sleeps at the
head of a queue and one behind it, waiting for the same word or for the other one, or for
one of two joiners; two waiters of one word behind one of another need four, which
`lists` has and `ServedInOrder` does not limit; in `lists` four let a queue
have a member in the middle, which is where the removal from a circular list
differs from the simple cases. `USER_NUM_MAX` is 16 in the code and 3 here, so the
full table is reached after two clones. Values of futex words and exit codes: what
matters is equal or unequal, so one or two. A character is 0, what memory holds at the start, or control-C, as no
property looks at it. In `condvar` two items for each of two
producers let a signal of the first overtake the wait of a consumer that comes for
the second, and SeqMod = 5 is just above the number of signals. In `paging` a page
has two cells, which is enough for an offset, and the word is wide enough for the
images; addresses are the first of the text, one in the data (also of another
segment in the image with three) and one beyond or in the third. All images lie in
the first 4 MiB, which one page table maps, as the linker scripts place them. `PmpSlots` = 6
is exactly what two programs of three segments need. In `steps` a page is one cell and
the program a loop of two instructions (`PcNum`; one in step 12 and in the prototype,
`ShortPcNum`), which tells an instruction that is left out, repeated or of the other
program from the right one. The entry is 0, where `u-va.ld` puts `_start`. Programs lie three pages apart (`Offset`): text, data and a page
of nobody, which an unchecked address of `write()` can reach. `PmpEntries` of 16 open all
of the RAM there, and 1 too little of it, so that a fault ends the machine or is retried.

All kernel runs set `CHECK_DEADLOCK FALSE`, because the machine may be switched off or
hang; in `threads`, `ReadyRuns` says that it otherwise goes on. `lists` also stops, when
a walk is endless, and `condvar` when all threads are done, which `Termination` says
they are. `mutex` does check deadlock: only the end of all threads may stutter.
`lists` declares the tasks symmetric, which is sound as neither the module nor what
it implements tells them apart.

**Fairness.** `Kernel!FairSpec` has weak fairness of the timer interrupt alone:
`handle_timer_interrupt` sets the next tick at each one, so ticks go on for as
long as the machine does. Nothing is assumed of user code. `Mutex!FairSpec` has
weak fairness of each thread's steps, which is what `ReadyRuns` of the kernel
gives, and strong fairness of the successful sc: a tick comes once in a
millisecond, lr and sc are two instructions apart, so sc cannot fail in every
one of its attempts. `CondVar!FairSpec` has weak fairness of each thread's steps;
that is enough although the lock may be taken by another thread first, as every
thread takes it a bounded number of times. `Paging!FairSpec` has weak fairness of boot and
of the timer, and strong fairness of the execution of each program's access: the
program is current again and again, and a time slice is longer than an instruction.

## The proofs

TLAPS proves, for every value of the constants that meets the assumptions of the
modules:

| Theorem | Says |
|---|---|
| `KernelProofs!TypeCorrect` | `Spec => []TypeOK` |
| `KernelProofs!QueuesAreDisciplined` | `Spec => []QueueDiscipline` |
| `KernelProofs!OneTaskRuns` | `Spec => []CurrentIsRunning` |
| `KernelProofs!ProcessorGoesRound` | `Spec => RoundRobin` |
| `KernelProofs!TerminatedStaysFinal` | `Spec => TerminatedIsFinal` |
| `KernelProofs!ServedInOrder` | `Spec => NoOvertaking` |
| `KernelJoinProofs!StacksAreIsolated` | `Spec => []StackIsolation` |
| `KernelJoinProofs!NoJoinerIsOrphaned` | `Spec => []NoOrphanWaiter`, if `~ SharedJoin` |
| `KernelJoinProofs!StatusIsDelivered` | `Spec => []JoinDelivers`, if `NumTasks < WAITPID` |
| `CondVarProofs!CondVarTypeCorrect` | `Spec => []TypeOK` of `CondVar` |
| `CondVarProofs!NoSignalIsLost` | `Spec => []NoLostSignal` |
| `MutexProofs!MutexTypeCorrect` | `Spec => []TypeOK` of `Mutex` |
| `MutexProofs!MutexIsExclusive` | `Spec => []MutualExclusion` |
| `MutexProofs!NoWakeupIsLost` | `Spec => []NoLostWakeup` |
| `MutexProofs!MutexImplementsGuardedCounter` | `Spec => ImplementsGuardedCounter` |
| `MutexProofs!NoIncrementIsLost` | `Spec => []CountIsExact` |
| `TaskListProofs!ListsAreWellLinked` | `Spec => []WellLinked` |
| `TaskListProofs!ListsImplementWaitQueues` | `Spec => ImplementsWaitQueues` |
| `PagingProofs!TypeCorrectness` | `Spec => []TypeOK` of `Paging` |
| `PagingProofs!FramesAreDisjoint` | `Spec => []FramesDisjoint` |
| `PagingProofs!MappedFramesAreOpened` | `Spec => []MappedIsOpened` |
| `PagingProofs!PagingImplementsUserMemory` | `Spec => ImplementsUserMemory` |
| `StepsProofs!StepsTypes` | `Spec => []TypesOK` |
| `StepsProofs!ProgramsInUserMode` | `Spec => []UserModeForPrograms` |
| `StepsProofs!SleepersStayQueued` | `Spec => []SleepersInQueues` |
| `StepsProofs!BlockedStaysReader` | `Spec => []BlockedIsReader` |

**Kernel.** The invariant `IInv` is the conjunction of the three properties. None is
inductive alone: that a task leaves a queue when it wakes needs the order of the
queue, that the current task may be enqueued needs that it is running and so in
no queue, and the register arguments of a sleeper need its type. All handlers end in
`schedule()`, so the main lemma (`ScheduleKeepsDiscipline`) is about it: from states
in which blocked tasks are those in queues and only the current task may be
running, it leads to one running task and leaves the queues and the registers
of sleepers alone. Each action has a lemma that its handler reaches such states.
`FifoQueueProofs` has what the queue operators preserve.

The action properties follow from `IInv` and from what a step does to states and to
`curr_task_num`: it either leaves the current task alone or hands states to
`schedule()` in which every ready and every terminated task is still so
(`StepReschedules`). *Round robin*: the picked task is at most as far from the
current one as any ready task, hence every other ready task is nearer to it
(`NearerTurn`, cyclic arithmetic). *Final slots*: only ready and running tasks are
picked, and a clone takes a slot that was never used. *Order of service*: if t stands
ahead of u, no more members stand ahead of t than of u (`AheadIsFewer`), so a walk
that serves u serves t as well (`WalkIsInOrder`).

`StackIsolation` is inductive on top of `IInv`: no handler changes the stack pointer in
the context of a task that lives, and a context switch moves whole contexts
(`ContextAfterSchedule`); only `clone` makes a task live, with a stack that no
living thread of the space has. `NoOrphanWaiter` is not inductive: `exit` wakes one
joiner, so it needs that there is at most one for each pid. `JoinInv` adds that; it
holds as long as programs do not share a join, and the run `shared_join` shows
that without this assumption the conclusion is false.

`JoinDelivers` rests on `StackIsolation`: the status is written to the stack of the
caller of `waitpid()`, by its own call or by the exit it waits for, and no other thread
has that stack, so neither a character for a reader nor a later status can overwrite
it. `DeliverInv` adds that the address a sleeper has passed is on its own stack or
bad, and, for each thread that has come back, that the one it waited for has ended and
its code stands there; slots that are final never change that code.

**Mutex.** The inductive invariant `Inv` of `MutexProofs` adds to the types: who owns
the reservation while it stands between lr and sc has in `reg` what is in the word
(so that a successful sc is atomic with its lr), and a held mutex is not marked
free. `NoLostWakeup` follows with the case that unlock found the word contended.
`CountIsExact`
is about the end of all threads; the invariant that leads to it (`CountInv`) says
that the counter is at any time the number of pairs of a thread and a round whose
sum is stored, and that the holder's copy between load and store is still the value
of the counter, which mutual exclusion keeps so. The refinement of `GuardedCounter`
maps the thread between lock and unlock to the holder, and the part of it after the
store to `stored`. It needs both invariants: that the sc that takes the mutex finds it
free and the sc of unlock is the holder's is `Inv`; that the store adds one to what the
counter is by then, and not to an older value, and that who takes the mutex has an
increment to do, is `CountInv`.

**Condition variables.** `IInv` of `CondVarProofs` adds to the property: who holds the
mutex is where only a holder can be (`LockInv`); a consumer that has found nothing and
still holds the mutex finds no item, and one that gave it back and whose remembered
number is still current has behind it only producers that have not counted their
signal yet, one for every item (`BoundInv`). For this a remembered number must never
come back: `CountInv` says that the sequence word is the number of signals counted so
far, as a set of pairs of a producer and a round, of which there are fewer than
`SeqMod`, and `OldInv` that a remembered number is at most that.

**Address spaces.** `Inv` of `PagingProofs` says that every frame in a page table lies
below the counter of `allocate_pa()`, so that a new one differs from all of them
(`OneTableChanges`); a page fault changes no frame (`ValidatedKeepsFrames`). `PmpInv`
says that entry i of the PMP opens frame i, and that `main()` has given out no more
frames than it has had turns in `setup_va()`, of which there are `USER_NUM` times the
number of segments. `PmpAssumption` makes that no more than there are entries (16 on a
hart; 2 are needed). With fewer, `setup_pmp()` prints an error that nobody looks at, and
the first access to the page ends the machine.

`MemoryInv` leads to the types and to the refinement. `main()` loads nothing and has checked the
headers its loop has passed (`BootLoadsNothing`, `Checked`). At any time a page that has a
frame is the page of a segment and has its flags (`Layout`), only such a page is ever
valid (`LoadedHasFrame`), and as long as it is not, its frame holds what RAM held before
(`NotLoadedYet`). The mapped memory of a program changes only by its own stores: two entries
never share a cell, as frames are disjoint and pages do not overlap (`CellsAreSeparate`,
division with remainder), so a store changes one cell of one program (`StoreEffect`).
Loading a page changes nothing the program could see, because the copy of
`load_program_segment()` leaves in the frame what the image says of these addresses
(`ContentOfPage`, `LoadEffect`); here the wrap of `PAGE_ALIGN_UP` at the last page is met
(`OnePageOfMemory`). Two assumptions on the constants are about what the code does not check:
`LinkAssumption`, that segments start on pages of their own and have no more content
in the file than in memory, which `u-va.ld` takes care of, and `RamAssumption`, that RAM has a
page for each PMP entry (it has 32768).

**Wait queue lists.** `ListsInv` says of the links of each queue that they *represent* an
order of its members (`Represents`): the root is the oldest one, `next` leads from each
member to the one right behind it and from the last back to the root, and `prev` is its
inverse. Members of different queues are different, and together they are the blocked
tasks. `EnqueuedRepresents` and `DequeuedRepresents` show that the functions of `task.h`
take a list that represents an order to one that represents the order with a member
appended or removed, and `OneQueueChanges` that the other two queues, which share the
links, are left alone. `OrderOfList` says that a list stands for one order only: the i-th task
of a walk is the one with i members ahead of it (`NthRank`), so that `FifoOf` is that order.
With this the loops can be followed. The loops of `sched.c` and `futex.c` are recursive functions
of the number of turns; that there are such functions (`Iteration`) is derived from the
well-foundedness of the naturals. The search of
`terminate_current_task()` stops at the first member it looks for (`SearchStops`,
`FoundIsFirst`). The loop of `handle_futex_wake()` has the invariant `LoopInv` with its four
places: at the start, inside the list, back at the root, and at a root that was moved on because
its task was woken; after i turns it has met the first i members of the order it started with. Inside the list the number of turns is the rank of the
task it is at, so it either ends in fewer than `MaxTurns` turns with the members woken
that `WaitQueues` says, or goes round for ever where `WalkNeverEnds` says so (`WalkOfRing`).

**The earlier steps.** The kernels of steps 4 to 12 have most of their definitions in common,
so what they share is proved once, of the kernel of step 11 with its numbers of programs,
tasks and instructions as parameters (`K`); the lemmas `Same7` to `Same12` say which
definitions of each step are those of `K`. `StepsInv` has one invariant for each of them.
Steps 4 to 7 (`SingleInv`) have one task, and its mode is fixed. Steps 8 and 9 (`TurnsInv`)
never idle, and a task is switched whole (`SwitchedKeepsTurns`). In step 10 (`SchedInv`) the mode is user mode
exactly if a task is current, and that task is running. Steps 11 and 12 (`SleepInv`) add that
the queues hold exactly the blocked tasks, each once. As in `Kernel` all handlers end in
`schedule()`: from a table in which every running task is about to be, or to stay,
scheduled, it leads to one running task or to the idle loop and leaves sleepers alone
(`ScheduleEffect`, `Rescheduled`); each handler has a lemma that it leaves such a table. The
external interrupt empties the queue of readers one character after another
(`InterruptServes`), and a task is blocked only when it is current, hence running and in
no queue. `ReaderInv` of the prototype says that nobody but `read_task` is blocked, and that a task that blocks
is not a reader already. The parameters may be any numbers that meet `StepsAssumption`: there is
at least one program and one instruction, and RAM has the pages in which programs are put,
and, as `write()` up to step 8 does not check its address, one more.

## Only model-checked

Liveness (`ReadyRuns`, `Termination`, `EveryAccessEnds`) is out of the prover's reach.
So far `ImplementsPrograms` of `Steps` is only model-checked; the invariants its proof needs
are the ones that are proved. `NeverHung`
is false (run `broadcast_hangs`) and not stated anywhere else: that a walk ends unless it
wakes the only member of its queue and has more to wake is part of what
`ListsImplementWaitQueues` proves of the pointers. `JoinDelivers` can be stated only of a table
with fewer than 34 tasks: a successful `waitpid` leaves the call number 34 in a0, so
that in a larger one it could not be told from a pid or a count of woken tasks.

## Not modelled, and why

* Steps 1 to 3 have no kernel: they print, take an exception, or count ticks.
* The set-up of PLIC and UART is a fixed sequence of register writes; claim and complete
  bracket the drain loop of an atomic handler, which is an action of `Kernel`.
* The writes to `mtimecmp` are not split: interrupts are off between them.
* A user word that crosses a page (FIXME in `task.c`) would need cells smaller than
  words in `Kernel`; the encoding of PMP regions and page table entries is abstracted
  to frames, so that the 16 MiB region of 7-4mpage is only "all frames".
* `Kernel`, `Mutex`, `CondVar` and `Paging` are composed by assumption: the mutex takes
  from the kernel that futex calls are atomic and that ready threads run, the
  condition variable takes the lock, and the kernel takes from paging that a word has
  a page or not. A model of all four with two programs would have too many states.
* The loader and the page tables of the prototype, which the steps have in revised form.
* Formatting and printing, the libfemto library (a submodule that is not part of the
  repository), the build files, the loader stub and `u/atomic_test.c`, a sequential test.
