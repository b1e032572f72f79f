--------------------------------- MODULE Step8 ---------------------------------
(***************************************************************************)
(* Step 8, two programs (src/steps/8/m): each is copied to memory before   *)
(* it starts, the timer alternates between them, exit() ends the machine.  *)
(***************************************************************************)
EXTENDS Machine

\* Mutant of switch_task: the interrupted program counter is not kept.
SwitchWithoutMepc(regs) ==
    LET next == (curr + 1) % UserNum IN
    /\ task' = [task EXCEPT ![curr].regs = [regs EXCEPT !.pc = task[curr].regs.pc]]
    /\ curr' = next
    /\ hart' = task'[next].regs
    /\ satp' = task[next].space

\* switch_task(): the programs take turns.
switch_task(regs) ==
    LET next == (curr + 1) % UserNum IN
    /\ task' = [task EXCEPT ![curr].regs = regs]
    /\ curr' = next
    /\ hart' = task'[next].regs
    /\ satp' = task[next].space

\* handle_timer_interrupt() moves mtimecmp on by one period.
handle_timer_interrupt == mtip' = FALSE

\* handler(): the timer is recognised by the low bits of mcause, which are those
\* of a store access fault too.
Timer ==
    /\ \/ power = "on" /\ mtip
       \/ AccessFaults(Data, "W")
    /\ handle_timer_interrupt /\ switch_task(hart)
    /\ Quiet /\ UNCHANGED <<power, mode, spaces, ram, queues>>

\* Any other exception ends the machine, a page fault too.
UnknownException ==
    /\ \/ AccessFaults(Text, "X") \/ AccessFaults(Data, "R")
       \/ \E va \in Va \cup {NoVa}, kind \in Kinds : PageFaults(va, kind)
    /\ Quiet /\ PowerOff

\* handle_write() does not check the address: beyond the segments lies RAM.
handle_write(va) == out' = ram[Offset * curr + va]

\* handle_syscall(): the number in a0 stays there.
SysWrite ==
    /\ Executes
    /\ \E va \in Buffers : hart' = Stepped(Call(WRITE, 0, va)) /\ handle_write(va)
    /\ UNCHANGED <<power, mtip, sched, spaces, ram, queues>>

SysUnknown ==
    /\ Executes /\ hart' = Stepped(Call(READ, 0, 0))
    /\ Quiet /\ UNCHANGED <<power, mtip, sched, spaces, ram, queues>>

SysExit == Executes /\ Quiet /\ PowerOff

-----------------------------------------------------------------------------
(* main(). *)

\* The frames of a program follow each other from USER_PA + USER_PA_OFFSET * i.
FrameOf(s, va) == Offset * s + va

\* setup_pte() with the flags main() gives.
setup_pte(s, va) == [valid |-> TRUE, flags |-> Flags[va], frame |-> FrameOf(s, va)]

\* load_elf() copies the segments of the image one after another.
load_elf(f) ==
    LET here == {s \in Space : f - FrameOf(s, 0) \in Va}
    IN IF here = {} THEN 0 ELSE Image[f - FrameOf(CHOOSE s \in here : TRUE, 0)]

\* setup_pmp(): one entry for both pages of a program, while there is one.
setup_pmp(n) == {FrameOf(s, va) : s \in {i \in Space : i < n}, va \in Va}

Init ==
    /\ Booted
    /\ curr = 0 /\ satp = 0 /\ mode = "U"
    /\ hart = [Zeroed EXCEPT !.pc = Entry]
    /\ task = [t \in Task |-> [regs |-> Zeroed, state |-> "created", exitcode |-> 0,
                               space |-> SpaceOf(t)]]
    /\ pmp \in {setup_pmp(n) : n \in PmpEntries}
    /\ pte = [s \in Space |-> [va \in Va |-> setup_pte(s, va)]]
    /\ ram = [f \in Frames |-> load_elf(f)]

Next == UserLoad \/ UserStore \/ Expire \/ Timer \/ UnknownException \/ SysWrite \/ SysUnknown \/ SysExit

-----------------------------------------------------------------------------
Promise == INSTANCE Programs WITH
    ctx <- [t \in Task |-> IF t = curr THEN hart ELSE task[t].regs],
    space <- [t \in Task |-> task[t].space],
    live <- Space, reading <- {}, joining <- {},
    mem <- [s \in Space |-> [va \in Va |-> ram[pte[s][va].frame]]]

=============================================================================
