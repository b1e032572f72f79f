-------------------------------- MODULE Step10 --------------------------------
(***************************************************************************)
(* Step 10, task states (src/steps/10/m): exit() ends one program, the     *)
(* others go on, and the kernel idles when all have ended.                 *)
(***************************************************************************)
EXTENDS Lazy

Dist(t) == IF t > curr THEN t - curr - 1 ELSE t - curr - 1 + TaskNum
Runnable(tasks) == {t \in Task : tasks[t].state \in {"ready", "running"}}

\* Mutant of pickup_next_task: a program that ended is chosen like any other.
PickupAny(tasks) ==
    LET R == {t \in Task : tasks[t].state # "created"}
    IN {t \in R : \A u \in R : Dist(t) <= Dist(u)}

\* pickup_next_task(): the first runnable task after the current one, if any.
pickup_next_task(tasks) ==
    {t \in Runnable(tasks) : \A u \in Runnable(tasks) : Dist(t) <= Dist(u)}

\* enter_idle(): the hart waits in machine mode, with the last page table.
enter_idle == curr' = Idle /\ mode' = "M" /\ UNCHANGED satp

\* schedule(): once idle nothing is ever runnable again, so that mstatus.MPP
\* stays as enter_idle() left it.
schedule(tasks, regs) ==
    LET saved == [tasks EXCEPT ![curr].regs = regs]
        picked == pickup_next_task(saved) IN
    IF picked = {}
    THEN enter_idle /\ task' = saved /\ hart' = regs
    ELSE \E next \in picked :
         /\ curr' = next
         /\ task' = IF next = curr THEN saved
                    ELSE [saved EXCEPT ![next].state = "running",
                             ![curr].state = IF @ = "running" THEN "ready" ELSE @]
         /\ hart' = saved[next].regs /\ satp' = saved[next].space
         /\ UNCHANGED mode

handle_timer_interrupt == mtip' = FALSE

\* handler(): a store access fault is taken for the timer.  The idle loop is
\* interrupted too: schedule() saves nothing and enters it again.
Timer ==
    /\ \/ power = "on" /\ mtip
       \/ AccessFaults(Data, "W")
    /\ handle_timer_interrupt
    /\ IF curr = Idle THEN UNCHANGED <<sched, hart>> ELSE schedule(task, hart)
    /\ Quiet /\ UNCHANGED <<power, spaces, ram, queues>>

PageFault ==
    /\ \E va \in Va \cup {NoVa}, kind \in Kinds :
        PageFaults(va, kind) /\ handle_page_fault(va, kind)
    /\ Quiet

UnknownException ==
    /\ AccessFaults(Text, "X") \/ AccessFaults(Data, "R")
    /\ Quiet /\ PowerOff

\* handle_syscall().
SysWrite ==
    /\ Executes
    /\ \E va \in Buffers : hart' = Stepped(Call(WRITE, 0, va)) /\ handle_write(va)
    /\ UNCHANGED <<power, mtip, sched, spaces, ram, queues>>

SysUnknown ==
    /\ Executes /\ hart' = Stepped(Call(READ, 0, 0))
    /\ Quiet /\ UNCHANGED <<power, mtip, sched, spaces, ram, queues>>

terminate_current_task == [task EXCEPT ![curr].state = "terminated"]

\* The saved mepc is that of the ecall.
SysExit ==
    /\ Executes
    /\ schedule(terminate_current_task, Call(EXIT, 0, 0))
    /\ Quiet /\ UNCHANGED <<power, mtip, spaces, ram, queues>>

\* create_task() takes the first slots; it sets entry but not mepc.
create_task(t) ==
    [regs |-> Zeroed, exitcode |-> 0, space |-> SpaceOf(t),
     state |-> IF t \in Space THEN "ready" ELSE "created"]

start_schedule ==
    /\ curr = 0 /\ satp = 0 /\ mode = "U"
    /\ hart = [Zeroed EXCEPT !.pc = Entry]
    /\ task = [[t \in Task |-> create_task(t)] EXCEPT ![0].state = "running"]

\* setup_va() and setup_pmp() of this step, which are those of Lazy.
PageTables == [s \in Space |-> setup_va(s)]
PmpRegions == {setup_pmp(n) : n \in PmpEntries}

\* main().
Init ==
    /\ Booted /\ start_schedule
    /\ pte = PageTables /\ pmp \in PmpRegions
    /\ ram = [f \in Frames |-> 0]

Next == \/ UserLoad \/ UserStore \/ Expire \/ Timer \/ PageFault \/ UnknownException
        \/ SysWrite \/ SysUnknown \/ SysExit

Promise == INSTANCE Programs WITH
    ctx <- Context, space <- [t \in Task |-> task[t].space],
    live <- Runnable(task), reading <- {}, joining <- {}, mem <- VirtualMemory

=============================================================================
