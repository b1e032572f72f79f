-------------------------------- MODULE Step12 --------------------------------
(***************************************************************************)
(* Step 12, threads (src/steps/12/m): clone() starts a thread in the       *)
(* memory of its parent, waitpid() sleeps until a thread ends.             *)
(***************************************************************************)
EXTENDS Lazy

\* get_current_task(): the empty set stands for NULL.
get_current_task == {curr} \ {Idle}

Dist(t) == IF t > curr THEN t - curr - 1 ELSE t - curr - 1 + TaskNum
Runnable(tasks) == {t \in Task : tasks[t].state \in {"ready", "running"}}

pickup_next_task(tasks) ==
    {t \in Runnable(tasks) : \A u \in Runnable(tasks) : Dist(t) <= Dist(u)}

\* enter_idle(): the hart waits in machine mode, with the last page table.
enter_idle == curr' = Idle /\ mode' = "M" /\ UNCHANGED satp

schedule(tasks, regs) ==
    LET saved == [t \in Task |-> IF t \in get_current_task
                                THEN [tasks[t] EXCEPT !.regs = regs] ELSE tasks[t]]
        picked == pickup_next_task(saved) IN
    IF picked = {}
    THEN enter_idle /\ task' = saved /\ hart' = regs
    ELSE \E next \in picked :
         /\ curr' = next
         /\ task' = [t \in Task |->
                IF t = next THEN [saved[t] EXCEPT !.state = "running"]
                ELSE IF t \in get_current_task /\ saved[t].state = "running"
                THEN [saved[t] EXCEPT !.state = "ready"] ELSE saved[t]]
         /\ hart' = saved[next].regs /\ satp' = saved[next].space
         /\ mode' = "U"

handle_timer_interrupt == mtip' = FALSE

\* handle_intr().
Timer ==
    /\ power = "on" /\ mtip
    /\ handle_timer_interrupt /\ schedule(task, hart)
    /\ Quiet /\ UNCHANGED <<power, spaces, ram, queues>>

Mapped(t) == task[t].regs.a2 \in Va

\* RAM after each task of a sequence was given the value at its place in vals;
\* the address is the third argument of the call the task sleeps in.
StoredFor(q, vals) ==
    [f \in Frames |->
        LET hits == {i \in DOMAIN q : Mapped(q[i]) /\ va_to_pa(q[i], task[q[i]].regs.a2) = f}
        IN IF hits = {} THEN ram[f] ELSE vals[CHOOSE i \in hits : \A j \in hits : j <= i]]

Served(n) == SubSeq(readq, 1, IF n < Len(readq) THEN n ELSE Len(readq))

\* receive_read_data() for every character; retrieve_read_data() does not check
\* the address, and a store to a wild one may end the machine.
ExternalInterrupt ==
    /\ power = "on"
    /\ \E b \in Bursts :
        LET W == {Served(Len(b))[i] : i \in DOMAIN Served(Len(b))} IN
        /\ task' = [t \in Task |-> IF t \in W
                THEN [task[t] EXCEPT !.state = "ready", !.regs.a0 = 1] ELSE task[t]]
        /\ ram' = StoredFor(Served(Len(b)), b)
        /\ readq' = SubSeq(readq, Len(b) + 1, Len(readq))
        /\ power' \in IF \E i \in DOMAIN b : b[i] = CtrlC /\ i > Len(readq) THEN {"off"}
                      ELSE IF \A t \in W : Mapped(t) THEN {"on"} ELSE {"on", "off"}
    /\ Quiet /\ UNCHANGED <<hart, mtip, curr, mode, satp, spaces, waitq>>

PageFault ==
    /\ \E va \in Va \cup {NoVa}, kind \in Kinds :
        PageFaults(va, kind) /\ handle_page_fault(va, kind)
    /\ Quiet

UnknownException ==
    /\ \/ AccessFaults(Text, "X")
       \/ \E kind \in {"R", "W"} : AccessFaults(Data, kind)
    /\ Quiet /\ PowerOff

-----------------------------------------------------------------------------
(* System calls. *)

block_current_task == [task EXCEPT ![curr].state = "blocked"]

\* The root of a queue points to the task that came first.
task_enqueue_to_root(q) == Append(q, curr)
task_dequeue_from_root(q, i) == SubSeq(q, 1, i - 1) \o SubSeq(q, i + 1, Len(q))

\* handle_read().
SysRead ==
    /\ Executes
    /\ readq' = task_enqueue_to_root(readq)
    /\ \E va \in Buffers : schedule(block_current_task, Stepped(Call(READ, 0, va)))
    /\ Quiet /\ UNCHANGED <<power, mtip, spaces, ram, waitq>>

SysWrite ==
    /\ Executes
    /\ \E va \in Buffers : hart' = Stepped(Call(WRITE, 0, va)) /\ handle_write(va)
    /\ UNCHANGED <<power, mtip, sched, spaces, ram, queues>>

SysUnknown ==
    /\ Executes /\ hart' = Stepped(Call(2, 0, 0))
    /\ Quiet /\ UNCHANGED <<power, mtip, sched, spaces, ram, queues>>

Free == {t \in Task : task[t].state = "created"}

\* clone_current_task(): the child starts with the registers its parent had at
\* its last switch, but for mepc, sp and a0.
clone_current_task(child, fn, stack) ==
    [task EXCEPT ![child] = [task[curr] EXCEPT !.regs.pc = fn, !.regs.sp = stack,
                                !.regs.a0 = 0, !.state = "ready"]]

\* handle_clone(): the call returns the number of the first free slot, if any.
SysClone ==
    /\ Executes
    /\ \E fn \in Pc, stack \in StoreValues :
        LET regs == Stepped(Call(CLONE, fn, stack)) IN
        IF Free = {}
        THEN schedule(task, [regs EXCEPT !.a0 = -1])
        ELSE LET child == CHOOSE t \in Free : \A u \in Free : t <= u
             IN schedule(clone_current_task(child, fn, stack), [regs EXCEPT !.a0 = child])
    /\ Quiet /\ UNCHANGED <<power, mtip, spaces, ram, queues>>

\* Mutant of Joiners: any sleeping joiner will do.
AnyJoiner == DOMAIN waitq

\* The places in wait_queue of the tasks that wait for the current one.
Joiners == {i \in DOMAIN waitq : task[waitq[i]].regs.a1 = curr}

\* terminate_current_task(): the first joiner gets the exit code and is ready.
SysExit ==
    /\ Executes
    /\ \E code \in StoreValues :
        LET ended == [task EXCEPT ![curr].state = "terminated", ![curr].exitcode = code] IN
        IF Joiners = {}
        THEN /\ schedule(ended, Call(EXIT, code, 0))
             /\ UNCHANGED <<waitq, ram>>
        ELSE LET first == CHOOSE i \in Joiners : \A j \in Joiners : i <= j
                 w == waitq[first]
                 a0 == IF Mapped(w) THEN task[w].regs.a0 ELSE -1 IN
             /\ waitq' = task_dequeue_from_root(waitq, first)
             /\ ram' = StoredFor(<<w>>, <<code>>)
             /\ schedule([ended EXCEPT ![w].state = "ready", ![w].regs.a0 = a0],
                         Call(EXIT, code, 0))
    /\ Quiet /\ UNCHANGED <<power, mtip, spaces, readq>>

\* What handle_waitpid() reads of task[pid]: the check lets the pid just past
\* the table through, and what lies there is anything.
TaskRead(pid) ==
    IF pid \in Task THEN {[state |-> task[pid].state, exitcode |-> task[pid].exitcode]}
    ELSE [state : States, exitcode : StoreValues]

SysWaitpid ==
    /\ Executes
    /\ \E pid \in 0 .. TaskNum + 1, va \in Buffers : \E p \in TaskRead(pid) :
        LET regs == Stepped(Call(WAITPID, pid, va)) IN
        \/ /\ pid > TaskNum \/ p.state \in {"created", "running"}
           /\ schedule(task, [regs EXCEPT !.a0 = -1])
           /\ UNCHANGED <<ram, waitq>>
        \/ /\ pid <= TaskNum /\ p.state = "terminated"
           /\ schedule(task, IF va \in Va THEN regs ELSE [regs EXCEPT !.a0 = -1])
           /\ ram' = IF va \in Va THEN [ram EXCEPT ![va_to_pa(curr, va)] = p.exitcode] ELSE ram
           /\ UNCHANGED waitq
        \/ /\ pid <= TaskNum /\ p.state \in {"ready", "blocked"}
           /\ waitq' = task_enqueue_to_root(waitq)
           /\ schedule(block_current_task, regs)
           /\ UNCHANGED ram
    /\ Quiet /\ UNCHANGED <<power, mtip, spaces, readq>>

-----------------------------------------------------------------------------
\* create_task() takes the first slots; it sets entry but not mepc.
create_task(t) ==
    [regs |-> Zeroed, exitcode |-> 0, space |-> SpaceOf(t),
     state |-> IF t \in Space THEN "ready" ELSE "created"]

start_schedule ==
    /\ curr = 0 /\ satp = 0 /\ mode = "U"
    /\ hart = [Zeroed EXCEPT !.pc = Entry]
    /\ task = [[t \in Task |-> create_task(t)] EXCEPT ![0].state = "running"]

\* setup_va() and setup_pmp() of this step, which are those of Lazy.
PageTables == [s \in Space |-> setup_va(s)]
PmpRegions == {setup_pmp(n) : n \in PmpEntries}

\* main().
Init ==
    /\ Booted /\ start_schedule
    /\ pte = PageTables /\ pmp \in PmpRegions
    /\ ram = [f \in Frames |-> 0]

Next == \/ UserLoad \/ UserStore \/ Expire \/ Timer \/ ExternalInterrupt \/ PageFault
        \/ UnknownException \/ SysRead \/ SysWrite \/ SysUnknown
        \/ SysClone \/ SysExit \/ SysWaitpid

Promise == INSTANCE Programs WITH
    ctx <- Context, space <- [t \in Task |-> task[t].space],
    live <- Runnable(task), reading <- {readq[i] : i \in DOMAIN readq},
    joining <- {waitq[i] : i \in DOMAIN waitq}, mem <- VirtualMemory

=============================================================================
