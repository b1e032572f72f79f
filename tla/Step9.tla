--------------------------------- MODULE Step9 ---------------------------------
(***************************************************************************)
(* Step 9, loading on demand (src/steps/9/m; 9-xonly/m differs by a        *)
(* message only): two programs that the timer alternates between.          *)
(***************************************************************************)
EXTENDS Lazy

\* Mutant of switch_task: satp is not written.
SwitchWithoutSatp(regs) ==
    LET next == (curr + 1) % UserNum IN
    /\ task' = [task EXCEPT ![curr].regs = regs]
    /\ curr' = next /\ hart' = task'[next].regs
    /\ UNCHANGED <<satp, mode>>

switch_task(regs) ==
    LET next == (curr + 1) % UserNum IN
    /\ task' = [task EXCEPT ![curr].regs = regs]
    /\ curr' = next /\ hart' = task'[next].regs
    /\ satp' = task[next].space /\ UNCHANGED mode

handle_timer_interrupt == mtip' = FALSE

\* handler(): a store access fault is taken for the timer, as in step 8.
Timer ==
    /\ \/ power = "on" /\ mtip
       \/ AccessFaults(Data, "W")
    /\ handle_timer_interrupt /\ switch_task(hart)
    /\ Quiet /\ UNCHANGED <<power, spaces, ram, queues>>

PageFault ==
    /\ \E va \in Va \cup {NoVa}, kind \in Kinds :
        PageFaults(va, kind) /\ handle_page_fault(va, kind)
    /\ Quiet

UnknownException ==
    /\ AccessFaults(Text, "X") \/ AccessFaults(Data, "R")
    /\ Quiet /\ PowerOff

\* handle_syscall().
SysWrite ==
    /\ Executes
    /\ \E va \in Buffers : hart' = Stepped(Call(WRITE, 0, va)) /\ handle_write(va)
    /\ UNCHANGED <<power, mtip, sched, spaces, ram, queues>>

SysUnknown ==
    /\ Executes /\ hart' = Stepped(Call(READ, 0, 0))
    /\ Quiet /\ UNCHANGED <<power, mtip, sched, spaces, ram, queues>>

SysExit == Executes /\ Quiet /\ PowerOff

\* setup_va() and setup_pmp() of this step, which are those of Lazy.
PageTables == [s \in Space |-> setup_va(s)]
PmpRegions == {setup_pmp(n) : n \in PmpEntries}

\* main().
Init ==
    /\ Booted
    /\ curr = 0 /\ satp = 0 /\ mode = "U"
    /\ hart = [Zeroed EXCEPT !.pc = Entry]
    /\ task = [t \in Task |-> [regs |-> Zeroed, state |-> "created", exitcode |-> 0,
                               space |-> SpaceOf(t)]]
    /\ pte = PageTables /\ pmp \in PmpRegions
    /\ ram = [f \in Frames |-> 0]

Next == \/ UserLoad \/ UserStore \/ Expire \/ Timer \/ PageFault \/ UnknownException
        \/ SysWrite \/ SysUnknown \/ SysExit

Promise == INSTANCE Programs WITH
    ctx <- Context, space <- [t \in Task |-> task[t].space],
    live <- Space, reading <- {}, joining <- {}, mem <- VirtualMemory

=============================================================================
