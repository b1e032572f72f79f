-------------------------------- MODULE Kernel --------------------------------
(***************************************************************************)
(* The scheduler and the system calls of the machine-mode kernel           *)
(* (src/steps/13/m: sched.c, syscall.c, futex.c, read.c, task.c, main.c).  *)
(*                                                                         *)
(* A trap handler runs with interrupts disabled on the only hart, so each  *)
(* handler is one action.  Between two traps the current task runs in      *)
(* U-mode; the model keeps of it the registers that the kernel reads or    *)
(* writes and the memory words that system calls read or write.  A system  *)
(* call action stands for the user code that loads the argument registers, *)
(* the ecall and the whole handler up to the mret.                         *)
(***************************************************************************)
EXTENDS Integers, FiniteSets, Sequences, FifoQueue

CONSTANTS
    NumTasks,       \* USER_NUM_MAX, the length of task[]
    UserNum,        \* USER_NUM, the programs (address spaces) started by main()
    Stacks,         \* stack addresses; the word there stands for a local variable
    MainStack,      \* the stack of the first thread of every program
    Futexes,        \* addresses of the words that futex calls name
    Unmapped,       \* addresses va_to_pa() finds no page for
    Calls,          \* the system call numbers user code uses
    FutexValues,    \* values user code stores to a futex word, and compares with
    WakeCounts,     \* the val argument of FUTEX_WAKE
    ExitCodes,      \* arguments of exit()
    PidArgs,        \* arguments of waitpid()
    Bursts,         \* characters found by one external interrupt
    SharedJoin      \* may two tasks wait for the same pid?

Task == 0 .. NumTasks - 1
Idle == -1                      \* curr_task_num of an idle kernel
Space == 0 .. UserNum - 1
Words == Stacks \cup Futexes

ASSUME TasksAssumption ==
    /\ NumTasks \in Nat \ {0}
    /\ UserNum \in 1 .. NumTasks
ASSUME AddressAssumption ==
    /\ Stacks \subseteq Int /\ Futexes \subseteq Int /\ Unmapped \subseteq Int
    /\ MainStack \in Stacks
    /\ Stacks \cap Futexes = {} /\ Unmapped \cap Words = {}
ASSUME ArgumentAssumption ==
    /\ FutexValues \subseteq Int /\ WakeCounts \subseteq Int
    /\ Calls \subseteq Int /\ ExitCodes \subseteq Int /\ PidArgs \subseteq Nat
    /\ Bursts \subseteq Seq(Int)
    /\ SharedJoin \in BOOLEAN

VARIABLES
    state,      \* task[t].state
    curr,       \* curr_task_num
    exitcode,   \* task[t].exitcode
    space,      \* task[t].pte
    regs,       \* task[t].regs, the saved registers
    frame,      \* trap_context: the live registers of the current task
    readq,      \* queue of read.c
    waitq,      \* wait_queue of sched.c
    futexq,     \* queue of futex.c
    mem,        \* user memory, by address space and address
    power       \* "on", "off" after exit(), "hung" in a handler that never ends

queues == <<readq, waitq, futexq>>
vars == <<state, curr, exitcode, space, regs, frame, readq, waitq, futexq,
          mem, power>>

States == {"created", "ready", "running", "blocked", "terminated"}

\* Registers a0 .. a2 and sp.
Registers == [a0 : Int, a1 : Int, a2 : Int, sp : Int]
Zeroed == [a0 |-> 0, a1 |-> 0, a2 |-> 0, sp |-> 0]

(* System call numbers and errors of src/steps/13/u/syscall.h. *)
READ == 0
WRITE == 1
EXIT == 32
CLONE == 33
WAITPID == 34
FUTEX == 35
FUTEX_WAIT == 0
FUTEX_WAKE == 1
EAGAIN == 11
EFAULT == 14
ENOSYS == 38
CtrlC == 3

-----------------------------------------------------------------------------
(* The scheduler. *)

\* How far task t is from the task after c in the cyclic order of task[].
Dist(c, t) == IF t > c THEN t - c - 1 ELSE t - c - 1 + NumTasks

Runnable(st) == {t \in Task : st[t] \in {"ready", "running"}}

\* Mutant of Picked: the search always starts at task[0].
PickedFromStart(st) ==
    IF Runnable(st) = {} THEN {Idle}
    ELSE {t \in Runnable(st) : \A u \in Runnable(st) : t <= u}

\* pickup_next_task(): the first runnable task after the current one.
Picked(st) ==
    IF Runnable(st) = {}
    THEN {Idle}
    ELSE {t \in Runnable(st) : \A u \in Runnable(st) : Dist(curr, t) <= Dist(curr, u)}

\* Mutant of Dispatched: the preempted task is not put back to ready.
KeptRunning(st, next) ==
    [t \in Task |-> IF next # Idle /\ t = next THEN "running" ELSE st[t]]

\* The states after next was picked: a preempted task goes back to ready.
Dispatched(st, next) ==
    [t \in Task |-> IF next \in {Idle, curr} THEN st[t]
                    ELSE IF t = next THEN "running"
                    ELSE IF t = curr /\ st[t] = "running" THEN "ready"
                    ELSE st[t]]

\* The registers of all tasks after schedule() saved those of the current one.
Saved(rg, fr) == [t \in Task |-> IF t = curr THEN fr ELSE rg[t]]

\* schedule(): save the context, pick a task, restore its context.
Schedule(st, rg, fr) ==
    \E next \in Picked(st) :
        /\ curr' = next
        /\ state' = Dispatched(st, next)
        /\ regs' = Saved(rg, fr)
        /\ frame' = IF next = Idle THEN Zeroed ELSE Saved(rg, fr)[next]

-----------------------------------------------------------------------------
(* Access to user memory: va_to_pa() fails for an address without a page. *)

IsMapped(va) == va \in Words

Stored(m, t, va, val) ==
    IF IsMapped(va) THEN [m EXCEPT ![space[t]][va] = val] ELSE m

Loaded(t, va) == mem[space[t]][va]

-----------------------------------------------------------------------------
(* System calls.  The current task is in U-mode and executes ecall. *)

InUser == power = "on" /\ curr # Idle

Calling(number) == InUser /\ number \in Calls

\* The live registers with the number and arguments of a system call.
Call(number, x, y) == [frame EXCEPT !.a0 = number, !.a1 = x, !.a2 = y]

Return(fr, value) == [fr EXCEPT !.a0 = value]

\* Mutant of Block: the caller is put in a queue but not blocked.
NotBlocked(st) == st

Block(st) == [st EXCEPT ![curr] = "blocked"]

\* The tasks of W become ready: ready_task().
Readied(st, W) == [t \in Task |-> IF t \in W THEN "ready" ELSE st[t]]

(* read(): the task sleeps until a character arrives. *)
SysRead ==
    /\ Calling(READ)
    /\ \E va \in {frame.sp} \cup Unmapped :
        /\ readq' = Enqueue(readq, curr)
        /\ Schedule(Block(state), regs, Call(READ, 0, va))
    /\ UNCHANGED <<exitcode, space, waitq, futexq, mem, power>>

(* write() puts one character and does not reschedule; a system call with an
   unknown number does nothing at all. *)
SysWrite ==
    /\ Calling(WRITE)
    /\ frame' = Call(WRITE, 1, frame.sp)
    /\ UNCHANGED <<state, curr, exitcode, space, regs, queues, mem, power>>

SysUnknown ==
    /\ InUser
    /\ \E number \in Calls \ {READ, WRITE, EXIT, CLONE, WAITPID, FUTEX} :
        frame' = Call(number, 0, 0)
    /\ UNCHANGED <<state, curr, exitcode, space, regs, queues, mem, power>>

\* Mutant of Joiner: only the head of wait_queue is looked at.
HeadJoiner == {t \in FirstOf(waitq, Members(waitq)) : regs[t].a1 = curr}

\* The first task in wait_queue that waits for the current task.
Joiner == FirstOf(waitq, {t \in Members(waitq) : regs[t].a1 = curr})

\* The status address a joiner passed to waitpid() is not mapped.
FailedJoiner(t) == ~ IsMapped(regs[t].a2)

\* Mutant of DeliveredStatus: the exit code is read before it is set.
EarlierStatus(code) ==
    [s \in Space |-> [va \in Words |->
        IF \E t \in Joiner : space[t] = s /\ regs[t].a2 = va
        THEN exitcode[curr] ELSE mem[s][va]]]

\* terminate_current_task() writes the status for the joiner it wakes ...
DeliveredStatus(code) ==
    [s \in Space |-> [va \in Words |->
        IF \E t \in Joiner : space[t] = s /\ regs[t].a2 = va
        THEN code ELSE mem[s][va]]]

\* ... and its saved a0 tells whether that worked.
JoinerRegs ==
    [t \in Task |-> IF t \in Joiner /\ FailedJoiner(t)
                    THEN Return(regs[t], -1) ELSE regs[t]]

(* exit(): wakes the first joiner. *)
SysExit ==
    /\ Calling(EXIT)
    /\ \E code \in ExitCodes :
        /\ exitcode' = [exitcode EXCEPT ![curr] = code]
        /\ mem' = DeliveredStatus(code)
        /\ waitq' = Dequeue(waitq, Joiner)
        /\ Schedule(Readied([state EXCEPT ![curr] = "terminated"], Joiner),
                    JoinerRegs, Call(EXIT, code, 0))
    /\ UNCHANGED <<space, readq, futexq, power>>

\* Mutant of FreeSlots: the slot of a terminated task is used again.
ReusedSlots == {t \in Task : state[t] \in {"created", "terminated"}}

\* The first slot of task[] that was never used.
FreeSlots == {t \in Task : state[t] = "created" /\ \A u \in Task : u < t => state[u] # "created"}

\* The registers of task t: live ones when it is current, saved ones otherwise.
Context(t) == IF t = curr THEN frame ELSE regs[t]

Live(t) == state[t] \notin {"created", "terminated"}

\* User code gives each thread a stack no living thread of the program uses,
\* going through its array of stacks in order (u/main.c:43).
UnusedStacks ==
    {s \in Stacks : \A t \in Task :
        Live(t) /\ space[t] = space[curr] => Context(t).sp # s}
FreshStacks == {s \in UnusedStacks : \A r \in UnusedStacks : s <= r}

\* Mutant of Cloned: the child keeps the stack pointer of its parent.
ClonedStack(child, stack) == [regs EXCEPT ![child] = Return(regs[curr], 0)]

\* memcpy() of the task structure, then a0 and sp are set: the rest of the
\* child's registers are those its parent had at its last schedule().
Cloned(child, stack) ==
    [regs EXCEPT ![child] = [Return(regs[curr], 0) EXCEPT !.sp = stack]]

(* clone(): the child runs in the address space of its parent. *)
SysClone ==
    /\ Calling(CLONE)
    /\ \E stack \in FreshStacks :
        \/ \E child \in FreeSlots :
            /\ exitcode' = [exitcode EXCEPT ![child] = exitcode[curr]]
            /\ space' = [space EXCEPT ![child] = space[curr]]
            /\ Schedule([state EXCEPT ![child] = "ready"], Cloned(child, stack),
                        Return(Call(CLONE, 0, stack), child))
        \/ /\ FreeSlots = {}
           /\ Schedule(state, regs, Return(Call(CLONE, 0, stack), -1))
           /\ UNCHANGED <<exitcode, space>>
    /\ UNCHANGED <<queues, mem, power>>

\* What handle_waitpid() reads of task[pid].  pid = NumTasks passes its range
\* check, and what lies behind the array is anything.
StateRead(pid) == IF pid \in Task THEN {state[pid]} ELSE States
ExitCodeRead(pid) == IF pid \in Task THEN {exitcode[pid]} ELSE ExitCodes

\* A program that joins each thread once, unless SharedJoin.
MayJoin(pid) == SharedJoin \/ \A t \in Members(waitq) : regs[t].a1 # pid

(* waitpid() on a pid beyond the table, or on a task that cannot be waited for. *)
WaitpidFails(pid, st) == pid > NumTasks \/ st \in {"created", "running"}

SysWaitpidError ==
    /\ Calling(WAITPID)
    /\ \E pid \in PidArgs : \E st \in StateRead(pid) :
        /\ MayJoin(pid)
        /\ WaitpidFails(pid, st)
        /\ Schedule(state, regs, Return(Call(WAITPID, pid, frame.sp), -1))
    /\ UNCHANGED <<exitcode, space, queues, mem, power>>

(* waitpid() on a terminated task: the status is there, a0 stays as it is. *)
SysWaitpidDone ==
    /\ Calling(WAITPID)
    /\ \E pid \in PidArgs, va \in {frame.sp} \cup Unmapped :
        LET fr == Call(WAITPID, pid, va) IN
        /\ MayJoin(pid)
        /\ ~ WaitpidFails(pid, "terminated") /\ "terminated" \in StateRead(pid)
        /\ \E code \in ExitCodeRead(pid) : mem' = Stored(mem, curr, va, code)
        /\ Schedule(state, regs, IF IsMapped(va) THEN fr ELSE Return(fr, -1))
    /\ UNCHANGED <<exitcode, space, queues, power>>

(* waitpid() on a living task: the caller sleeps. *)
SysWaitpidBlock ==
    /\ Calling(WAITPID)
    /\ \E pid \in PidArgs, va \in {frame.sp} \cup Unmapped : \E st \in StateRead(pid) :
        /\ MayJoin(pid)
        /\ ~ WaitpidFails(pid, st) /\ st \in {"ready", "blocked"}
        /\ waitq' = Enqueue(waitq, curr)
        /\ Schedule(Block(state), regs, Call(WAITPID, pid, va))
    /\ UNCHANGED <<exitcode, space, readq, futexq, mem, power>>

(* futex(FUTEX_WAIT): compare and sleep, or an error. *)
SysFutexWait ==
    /\ Calling(FUTEX)
    /\ \E uaddr \in Futexes, val \in FutexValues :
        LET fr == Call(FUTEX, uaddr, FUTEX_WAIT) IN
        IF Loaded(curr, uaddr) = val
        THEN /\ futexq' = Enqueue(futexq, curr)
             /\ Schedule(Block(state), regs, Return(fr, 0))
        ELSE /\ UNCHANGED futexq
             /\ Schedule(state, regs, Return(fr, -EAGAIN))
    /\ UNCHANGED <<exitcode, space, readq, waitq, mem, power>>

SysFutexFault ==
    /\ Calling(FUTEX)
    /\ \E uaddr \in Unmapped :
        Schedule(state, regs, Return(Call(FUTEX, uaddr, FUTEX_WAIT), -EFAULT))
    /\ UNCHANGED <<exitcode, space, queues, mem, power>>

\* An operation that is neither FUTEX_WAIT nor FUTEX_WAKE.
SysFutexOther ==
    /\ Calling(FUTEX)
    /\ \E uaddr \in Futexes :
        Schedule(state, regs, Return(Call(FUTEX, uaddr, 2), -ENOSYS))
    /\ UNCHANGED <<exitcode, space, queues, mem, power>>

Waiters(uaddr) == {t \in Members(futexq) : regs[t].a1 = uaddr}

\* Mutant of Woken: the newest waiter is woken first.
WokenLast(uaddr, val) ==
    IF val <= 0 THEN {} ELSE LastOf(futexq, Waiters(uaddr))

\* The tasks that one FUTEX_WAKE readies, and the case in which it hangs.
Woken(uaddr, val) == WalkWakes(futexq, Waiters(uaddr), val)
NeverEnds(uaddr, val) == WalkNeverEnds(futexq, Waiters(uaddr), val)

(* futex(FUTEX_WAKE). *)
SysFutexWake ==
    /\ Calling(FUTEX)
    /\ \E uaddr \in Futexes, val \in WakeCounts :
        LET W == Woken(uaddr, val) IN
        /\ ~ NeverEnds(uaddr, val)
        /\ futexq' = Dequeue(futexq, W)
        /\ Schedule(Readied(state, W), regs,
                    Return(Call(FUTEX, uaddr, FUTEX_WAKE), Cardinality(W)))
    /\ UNCHANGED <<exitcode, space, readq, waitq, mem, power>>

SysFutexWakeHangs ==
    /\ Calling(FUTEX)
    /\ \E uaddr \in Futexes, val \in WakeCounts :
        /\ NeverEnds(uaddr, val)
        /\ futexq' = Dequeue(futexq, Woken(uaddr, val))
        /\ state' = Readied(state, Woken(uaddr, val))
        /\ frame' = Call(FUTEX, uaddr, FUTEX_WAKE)
    /\ power' = "hung"
    /\ UNCHANGED <<curr, exitcode, space, regs, readq, waitq, mem>>

-----------------------------------------------------------------------------
(* Interrupts, and what user code does between two traps. *)

(* The timer interrupt preempts the current task, or ends the idle loop. *)
Timer ==
    /\ power = "on"
    /\ Schedule(state, regs, frame)
    /\ UNCHANGED <<exitcode, space, queues, mem, power>>

\* The readers that get a character of a burst of n characters.
Readers(n) == {t \in Members(readq) : Position(readq, t) < n}

\* retrieve_read_data(), in the order of the queue: a later store to the same
\* address overwrites an earlier one.
Received(b) ==
    [s \in Space |-> [va \in Words |->
        LET hits == {t \in Readers(Len(b)) : space[t] = s /\ regs[t].a2 = va}
            last == LastOf(readq, hits)
        IN IF last = {} THEN mem[s][va]
           ELSE b[1 + Position(readq, CHOOSE t \in last : TRUE)]]]

\* A control-C that no reader takes ends the program.
Interrupted(b) ==
    \E i \in 1 .. Len(b) : b[i] = CtrlC /\ i > Cardinality(Members(readq))

(* The external interrupt drains the console; it does not reschedule. *)
ExternalInterrupt ==
    /\ power = "on"
    /\ \E b \in Bursts :
        LET W == Readers(Len(b)) IN
        /\ readq' = Dequeue(readq, W)
        /\ state' = Readied(state, W)
        /\ regs' = [t \in Task |-> IF t \in W THEN Return(regs[t], 1) ELSE regs[t]]
        /\ mem' = Received(b)
        /\ power' = IF Interrupted(b) THEN "off" ELSE "on"
    /\ UNCHANGED <<curr, exitcode, space, frame, waitq, futexq>>

(* An access outside of the segments of the program ends everything. *)
UserFault ==
    /\ InUser
    /\ power' = "off"
    /\ UNCHANGED <<state, curr, exitcode, space, regs, frame, queues, mem>>

(* User code writes to a futex word. *)
UserStore ==
    /\ InUser
    /\ \E uaddr \in Futexes, val \in FutexValues :
        mem' = Stored(mem, curr, uaddr, val)
    /\ UNCHANGED <<state, curr, exitcode, space, regs, frame, queues, power>>

-----------------------------------------------------------------------------
(* main() created one task per program and start_schedule() entered the first;
   u/crt.S of each program has set its stack pointer. *)
Init ==
    /\ state = [t \in Task |-> IF t = 0 THEN "running"
                               ELSE IF t \in Space THEN "ready" ELSE "created"]
    /\ curr = 0
    /\ exitcode = [t \in Task |-> 0]
    /\ space = [t \in Task |-> IF t \in Space THEN t ELSE 0]
    /\ regs = [t \in Task |-> IF t \in Space THEN [Zeroed EXCEPT !.sp = MainStack]
                              ELSE Zeroed]
    /\ frame = [Zeroed EXCEPT !.sp = MainStack]
    /\ readq = Empty /\ waitq = Empty /\ futexq = Empty
    /\ mem = [s \in Space |-> [va \in Words |-> 0]]
    /\ power = "on"

Next ==
    \/ SysRead \/ SysWrite \/ SysUnknown \/ SysExit \/ SysClone
    \/ SysWaitpidError \/ SysWaitpidDone \/ SysWaitpidBlock
    \/ SysFutexWait \/ SysFutexFault \/ SysFutexOther
    \/ SysFutexWake \/ SysFutexWakeHangs
    \/ Timer \/ ExternalInterrupt \/ UserFault \/ UserStore

Spec == Init /\ [][Next]_vars

\* The timer keeps interrupting: mtimecmp is advanced at every tick.
FairSpec == Spec /\ WF_vars(Timer)

-----------------------------------------------------------------------------
(* Properties. *)

IsQueue(q) == Members(q) \subseteq Task /\ q \in [Members(q) -> SUBSET Members(q)]

\* The type of every variable; a queue holds tasks, and nothing but members of
\* it is ahead of a member (dequeue unlinks a task on both sides).
TypeOK ==
    /\ state \in [Task -> States]
    /\ curr \in Task \cup {Idle}
    /\ exitcode \in [Task -> Int]
    /\ space \in [Task -> Space]
    /\ regs \in [Task -> Registers]
    /\ frame \in Registers
    /\ IsQueue(readq) /\ IsQueue(waitq) /\ IsQueue(futexq)
    /\ mem \in [Space -> [Words -> Int]]
    /\ power \in {"on", "off", "hung"}

Sleepers == Members(readq) \cup Members(waitq) \cup Members(futexq)

\* Each task has one pair of prev/next links, used by three queues: a task is
\* blocked exactly while it is in a queue, is never in two of them, every queue
\* keeps an order, and the saved registers of a sleeper are the arguments of the
\* call it sleeps in, which is what its waker reads (sched.c:107, futex.c:40).
QueueDiscipline ==
    /\ \A t \in Task : state[t] = "blocked" <=> t \in Sleepers
    /\ Members(readq) \cap Members(waitq) = {}
    /\ Members(readq) \cap Members(futexq) = {}
    /\ Members(waitq) \cap Members(futexq) = {}
    /\ IsFifo(readq) /\ IsFifo(waitq) /\ IsFifo(futexq)
    /\ \A t \in Members(readq) : regs[t].a0 = READ
    /\ \A t \in Members(waitq) : regs[t].a0 = WAITPID
    /\ \A t \in Members(futexq) : regs[t].a0 = 0 /\ regs[t].a1 \in Futexes

\* At every moment between two handlers the task in curr_task_num is the one and
\* only running task; none runs while the kernel idles (sched.c:27).
CurrentIsRunning ==
    power = "on" => \A t \in Task : state[t] = "running" <=> t = curr

\* No task waits for a task that has already terminated: its wakeup is in the
\* past and will not be repeated (sched.c:92, sched.c:130).
NoOrphanWaiter ==
    \A t \in Members(waitq) : regs[t].a1 \in Task => state[regs[t].a1] # "terminated"

\* A task that came back from a successful waitpid(pid, &status) finds pid
\* terminated and its exit code in status, whichever of the two was first: the
\* call (sched.c:138) or the exit (sched.c:110).
JoinDelivers ==
    power = "on" =>
        \A t \in Task :
            LET c == Context(t) IN
            Live(t) /\ state[t] # "blocked" /\ c.a0 = WAITPID /\ c.a1 \in Task =>
                /\ state[c.a1] = "terminated"
                /\ c.a2 \in Words /\ mem[space[t]][c.a2] = exitcode[c.a1]

\* No two living threads of a program run on one stack: clone() gives the child
\* its own although it copies the structure of the parent (sched.c:72), and a
\* context switch never mixes two contexts up (sched.c:157).
StackIsolation ==
    \A t, u \in Task :
        t # u /\ Live(t) /\ Live(u) /\ space[t] = space[u]
            => Context(t).sp # Context(u).sp

\* The machine-mode handlers come to an end (futex.c:37).
NeverHung == power # "hung"

\* A sleeping joiner waits for a task of the table: "illegal pid" (sched.c:134).
WaitpidRejectsIllegalPid == \A t \in Members(waitq) : regs[t].a1 \in Task

\* A terminated task stays so and its exit code is kept for a later waitpid():
\* no slot of task[] is used twice (sched.c:70).
TerminatedIsFinal ==
    [][\A t \in Task : state[t] = "terminated" =>
          state'[t] = "terminated" /\ exitcode'[t] = exitcode[t]]_vars

\* Round robin: whenever the processor changes hands, every task that goes on
\* being ready comes nearer to its turn (sched.c:29).
RoundRobin ==
    [][\A t \in Task :
          state[t] = "ready" /\ state'[t] = "ready" /\ curr' # curr
              => Dist(curr', t) < Dist(curr, t)]_vars

Overtakes(q, qNext, u, t) ==
    t \in q[u] /\ u \notin Members(qNext) /\ t \in Members(qNext)

\* Tasks that wait for the same thing are served in the order they came: a
\* reader, and a futex waiter of the same word, is never overtaken.
NoOvertaking ==
    [][/\ \A t, u \in Members(readq) : ~ Overtakes(readq, readq', u, t)
       /\ \A t, u \in Members(futexq) :
             regs[t].a1 = regs[u].a1 => ~ Overtakes(futexq, futexq', u, t)]_vars

\* A wake with a count that covers all waiters of a word, as that of
\* thread_cond_broadcast (u/condvar.c:40), leaves none of them asleep.
BroadcastWakesAll ==
    [][\A t, u \in Members(futexq) :
          regs[t].a1 = regs[u].a1 /\ t \notin Members(futexq')
              => u \notin Members(futexq')]_vars

\* A task that becomes ready gets the processor, unless the machine stops.
ReadyRuns ==
    \A t \in Task : state[t] = "ready" ~> (state[t] = "running" \/ power # "on")

=============================================================================
