-------------------------------- MODULE Step11 --------------------------------
(***************************************************************************)
(* Step 11, blocked tasks (src/steps/11/m): read() sleeps until the        *)
(* console interrupts, and the kernel leaves its idle loop again.          *)
(***************************************************************************)
EXTENDS Lazy

\* get_current_task(): the empty set stands for NULL.
get_current_task == {curr} \ {Idle}

Dist(t) == IF t > curr THEN t - curr - 1 ELSE t - curr - 1 + TaskNum
Runnable(tasks) == {t \in Task : tasks[t].state \in {"ready", "running"}}

pickup_next_task(tasks) ==
    {t \in Runnable(tasks) : \A u \in Runnable(tasks) : Dist(t) <= Dist(u)}

\* Mutant of UserMode: mstatus.MPP is not set, as in step 10.
ModeKept == mode

UserMode == "U"

\* enter_idle(): the hart waits in machine mode, with the last page table.
enter_idle == curr' = Idle /\ mode' = "M" /\ UNCHANGED satp

\* schedule() knows an idle kernel now, and sets mstatus.MPP.
schedule(tasks, regs) ==
    LET saved == [t \in Task |-> IF t \in get_current_task
                                THEN [tasks[t] EXCEPT !.regs = regs] ELSE tasks[t]]
        picked == pickup_next_task(saved) IN
    IF picked = {}
    THEN enter_idle /\ task' = saved /\ hart' = regs
    ELSE \E next \in picked :
         /\ curr' = next
         /\ task' = [t \in Task |->
                IF t = next THEN [saved[t] EXCEPT !.state = "running"]
                ELSE IF t \in get_current_task /\ saved[t].state = "running"
                THEN [saved[t] EXCEPT !.state = "ready"] ELSE saved[t]]
         /\ hart' = saved[next].regs /\ satp' = saved[next].space
         /\ mode' = UserMode

handle_timer_interrupt == mtip' = FALSE

\* handle_intr(): interrupts and exceptions are told apart now.
Timer ==
    /\ power = "on" /\ mtip
    /\ handle_timer_interrupt /\ schedule(task, hart)
    /\ Quiet /\ UNCHANGED <<power, spaces, ram, queues>>

\* task_dequeue() of the top, n times; task_is_single() ends the queue.
task_dequeue(q, n) == SubSeq(q, n + 1, Len(q))

\* The readers that n characters are enough for, in the order of the queue.
Served(n) == {i \in DOMAIN readq : i <= n}

\* Mutant of dequeue: the reader that came last is served first.
dequeue_last(i) == readq[Len(readq) + 1 - i]

\* dequeue(): the i-th reader that is served.
dequeue(i) == readq[i]

ReadiedBy(n) ==
    [t \in Task |-> IF \E i \in Served(n) : dequeue(i) = t
                    THEN [task[t] EXCEPT !.state = "ready", !.regs.a0 = 1]
                    ELSE task[t]]

BufferOf(t) == task[t].regs.a2

\* retrieve_read_data() stores the character for the sleeping reader ...
retrieve_read_data(b) ==
    [f \in Frames |->
        LET hits == {i \in Served(Len(b)) : LET t == dequeue(i) IN
                        BufferOf(t) \in Va /\ va_to_pa(t, BufferOf(t)) = f}
        IN IF hits = {} THEN ram[f] ELSE b[CHOOSE i \in hits : \A j \in hits : j <= i]]

\* ... without a check of the address: a store to a wild one may end the machine.
WildStore(n) == \E i \in Served(n) : BufferOf(dequeue(i)) \notin Va

\* A control-C that finds no reader ends the machine.
Interrupted(b) == \E i \in DOMAIN b : b[i] = CtrlC /\ i > Len(readq)

\* handle_intr(): the console is drained, character by character.
ExternalInterrupt ==
    /\ power = "on"
    /\ \E b \in Bursts :
        /\ task' = ReadiedBy(Len(b))
        /\ ram' = retrieve_read_data(b)
        /\ readq' = task_dequeue(readq, Len(b))
        /\ power' \in IF Interrupted(b) THEN {"off"}
                      ELSE IF WildStore(Len(b)) THEN {"on", "off"} ELSE {"on"}
    /\ Quiet /\ UNCHANGED <<hart, mtip, curr, mode, satp, spaces, waitq>>

PageFault ==
    /\ \E va \in Va \cup {NoVa}, kind \in Kinds :
        PageFaults(va, kind) /\ handle_page_fault(va, kind)
    /\ Quiet

\* handler(): access faults end the machine.
UnknownException ==
    /\ \/ AccessFaults(Text, "X")
       \/ \E kind \in {"R", "W"} : AccessFaults(Data, kind)
    /\ Quiet /\ PowerOff

block_current_task == [task EXCEPT ![curr].state = "blocked"]

\* task_enqueue(): the new element stands before the top of the ring, at its end.
task_enqueue(q, t) == Append(q, t)

enqueue == readq' = task_enqueue(readq, curr)

\* handle_read().
SysRead ==
    /\ Executes /\ enqueue
    /\ \E va \in Buffers : schedule(block_current_task, Stepped(Call(READ, 0, va)))
    /\ Quiet /\ UNCHANGED <<power, mtip, spaces, ram, waitq>>

\* handle_syscall().
SysWrite ==
    /\ Executes
    /\ \E va \in Buffers : hart' = Stepped(Call(WRITE, 0, va)) /\ handle_write(va)
    /\ UNCHANGED <<power, mtip, sched, spaces, ram, queues>>

SysUnknown ==
    /\ Executes /\ hart' = Stepped(Call(CLONE, 0, 0))
    /\ Quiet /\ UNCHANGED <<power, mtip, sched, spaces, ram, queues>>

terminate_current_task == [task EXCEPT ![curr].state = "terminated"]

SysExit ==
    /\ Executes
    /\ schedule(terminate_current_task, Call(EXIT, 0, 0))
    /\ Quiet /\ UNCHANGED <<power, mtip, spaces, ram, queues>>

\* create_task() takes the first slots; it sets entry but not mepc.
create_task(t) ==
    [regs |-> Zeroed, exitcode |-> 0, space |-> SpaceOf(t),
     state |-> IF t \in Space THEN "ready" ELSE "created"]

start_schedule ==
    /\ curr = 0 /\ satp = 0 /\ mode = "U"
    /\ hart = [Zeroed EXCEPT !.pc = Entry]
    /\ task = [[t \in Task |-> create_task(t)] EXCEPT ![0].state = "running"]

\* setup_va() and setup_pmp() of this step, which are those of Lazy.
PageTables == [s \in Space |-> setup_va(s)]
PmpRegions == {setup_pmp(n) : n \in PmpEntries}

\* main().
Init ==
    /\ Booted /\ start_schedule
    /\ pte = PageTables /\ pmp \in PmpRegions
    /\ ram = [f \in Frames |-> 0]

Next == \/ UserLoad \/ UserStore \/ Expire \/ Timer \/ ExternalInterrupt \/ PageFault
        \/ UnknownException \/ SysRead \/ SysWrite \/ SysUnknown \/ SysExit

Promise == INSTANCE Programs WITH
    ctx <- Context, space <- [t \in Task |-> task[t].space],
    live <- Runnable(task), reading <- {readq[i] : i \in DOMAIN readq},
    joining <- {}, mem <- VirtualMemory

=============================================================================
