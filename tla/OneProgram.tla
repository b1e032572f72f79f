------------------------------ MODULE OneProgram ------------------------------
(***************************************************************************)
(* Steps 4 to 7 (src/steps/4/m to 7/m, 7-4mpage/m): one program, loaded    *)
(* before it starts.  It runs in machine mode (4), in user mode (5), with  *)
(* system calls (6), and in virtual memory, with pages of 4 KiB (7) or of  *)
(* 4 MiB (7-4mpage, here 74).                                              *)
(***************************************************************************)
EXTENDS Machine

CONSTANT Step       \* 4, 5, 6, 7 or 74

\* Up to step 6 the program uses physical addresses.
Bare == Step \in {4, 5, 6}

\* handler(): the timer interrupt changes nothing the program could see.
handle_timer_interrupt == mtip' = FALSE

Timer ==
    /\ power = "on" /\ mtip /\ handle_timer_interrupt
    /\ Quiet /\ UNCHANGED <<power, hart, sched, spaces, ram, queues>>

\* An access outside of RAM or of the PMP region: the cause of a store is
\* taken for the timer, and the store is retried; a load ends the machine.
StoreFault ==
    /\ Bare /\ PageFaults(NoVa, "W") /\ handle_timer_interrupt
    /\ Quiet /\ UNCHANGED <<power, hart, sched, spaces, ram, queues>>

LoadFault == Bare /\ PageFaults(NoVa, "R") /\ Quiet /\ PowerOff

\* handler() knows no page fault.
PageFault ==
    /\ ~ Bare /\ \E va \in Va \cup {NoVa}, kind \in Kinds : PageFaults(va, kind)
    /\ Quiet /\ PowerOff

\* handler() knows no ecall of user mode yet, and ends the machine at one of
\* machine mode.
Ecall == Step \in {4, 5} /\ Executes /\ Quiet /\ PowerOff

-----------------------------------------------------------------------------
(* The layout of memory. *)

\* The frame of a segment, counted from USER_PA or from the address it is
\* linked to; Offset is the number of pages in 4 MiB.
FrameOf(va) == IF Step = 74 THEN Offset * va ELSE va

\* setup_pte() of step 7 and of 7-4mpage, where PPN[1] of the address is used.
setup_pte(va) == [valid |-> TRUE, flags |-> Flags[va], frame |-> va]

\* Mutant of setup_pte_4MiB: the page number is taken from PPN[0].
MisalignedSuperpage(va) == [valid |-> TRUE, flags |-> Flags[va], frame |-> va]

setup_pte_4MiB(va) == [valid |-> TRUE, flags |-> Flags[va], frame |-> Offset * va]

\* What a program may do at an address: anything without a page table.
UserFlags == [va \in Va |-> IF Bare THEN Kinds ELSE Flags[va]]
Untranslated(va) == [valid |-> TRUE, flags |-> Kinds, frame |-> va]

PageTable ==
    [va \in Va |-> CASE Bare -> Untranslated(va)
                     [] Step = 7 -> setup_pte(va)
                     [] Step = 74 -> setup_pte_4MiB(va)]

\* setup_pmp(): three regions of 1 GiB in step 5, 32 KiB at the program in 6 and
\* 7; the one of 7-4mpage spans 16 MiB, as USER_PA is no multiple of 8 MiB.
setup_pmp_3GiB == Frames
setup_pmp_32KiB == {f \in Frames : f < 8}
setup_pmp_8MiB == Frames

Regions ==
    CASE Step \in {4, 5} -> setup_pmp_3GiB
      [] Step \in {6, 7} -> setup_pmp_32KiB
      [] Step = 74 -> setup_pmp_8MiB

\* load_elf() up to step 6 copies to p_vaddr ...
load_elf_at_vaddr(f) == IF f \in Va THEN Image[f] ELSE 0

\* ... and later to an offset from USER_PA.
load_elf(f) ==
    LET here == {va \in Va : FrameOf(va) = f}
    IN IF here = {} THEN 0 ELSE Image[CHOOSE va \in here : TRUE]

-----------------------------------------------------------------------------
(* System calls. *)

Calls == Step \in {6, 7, 74} /\ Executes

\* handle_write() adds USER_PA to a virtual address and checks nothing.
handle_write(va) == out' = ram[FrameOf(va)]

SysWrite ==
    /\ Calls
    /\ \E va \in Buffers : hart' = Stepped(Call(WRITE, 0, va)) /\ handle_write(va)
    /\ UNCHANGED <<power, mtip, sched, spaces, ram, queues>>

SysUnknown ==
    /\ Calls /\ hart' = Stepped(Call(READ, 0, 0))
    /\ Quiet /\ UNCHANGED <<power, mtip, sched, spaces, ram, queues>>

SysExit == Calls /\ Quiet /\ PowerOff

-----------------------------------------------------------------------------
\* The mode main() enters the program in.
EntryMode == IF Step = 4 THEN "M" ELSE "U"

\* main().
Init ==
    /\ Booted
    /\ curr = 0 /\ satp = 0 /\ mode = EntryMode
    /\ hart = [Zeroed EXCEPT !.pc = Entry]
    /\ task = [t \in Task |-> [regs |-> Zeroed, state |-> "created", exitcode |-> 0,
                               space |-> 0]]
    /\ pmp = Regions
    /\ pte = [s \in Space |-> PageTable]
    /\ ram = [f \in Frames |-> IF Bare THEN load_elf_at_vaddr(f) ELSE load_elf(f)]

Next == \/ UserLoad \/ UserStore \/ Expire \/ Timer \/ StoreFault \/ LoadFault
        \/ PageFault \/ Ecall \/ SysWrite \/ SysUnknown \/ SysExit

Promise == INSTANCE Programs WITH
    ctx <- [t \in Task |-> hart], space <- [t \in Task |-> 0],
    Flags <- UserFlags, live <- Space, reading <- {}, joining <- {},
    mem <- [s \in Space |-> [va \in Va |-> ram[pte[s][va].frame]]]

=============================================================================
