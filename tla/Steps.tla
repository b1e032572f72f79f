-------------------------------- MODULE Steps --------------------------------
(***************************************************************************)
(* The kernels of the steps side by side: version says which one runs, and *)
(* what it is configured with.                                             *)
(***************************************************************************)
EXTENDS Integers, Sequences

CONSTANTS
    UserNum,        \* USER_NUM of steps 8 to 11 and of the prototype
    TaskNum,        \* USER_NUM_MAX of step 12
    PcNum,          \* instructions of the user program of steps 4 to 11
    ShortPcNum,     \* of that of step 12 and of the prototype
    Entry,          \* for the others see Machine
    Offset, RamPages, PmpEntries, StoreValues, Bursts

\* RAM has a page for each segment of each program, and up to step 8 for an address
\* beyond the last one, which write() does not check.
ASSUME StepsAssumption ==
    /\ UserNum \in Nat \ {0} /\ TaskNum \in Nat \ {0}
    /\ PcNum \in Nat \ {0} /\ Entry \in 0 .. PcNum - 1
    /\ ShortPcNum \in Nat \ {0} /\ Entry < ShortPcNum
    /\ Offset \in Nat /\ Offset >= 2
    /\ RamPages \in Nat /\ RamPages > 2 * Offset /\ RamPages > UserNum * Offset
    /\ PmpEntries \subseteq Nat
    /\ StoreValues \subseteq Int /\ Bursts \subseteq Seq(Int)

\* Steps 4 to 7 and 7-4mpage (74) run one program; steps 9 and 9-xonly (91) alternate
\* between two; 0 is the prototype.
Single == {4, 5, 6, 7, 74}
Alternating == {9, 91}
Version == Single \cup {8} \cup Alternating \cup {10, 11, 12, 0}

VARIABLES
    version,    \* 4 to 12, 74 for 7-4mpage, 91 for 9-xonly, 0 for the prototype
    power, curr, hart, mode, mtip, satp, task, pmp, pte, ram, readq, waitq, out,
    status, regs, readTask, memory, left    \* the prototype's own state

machine == <<mode, mtip, satp, task, pmp, pte, ram, readq, waitq, out>>
own == <<status, regs, readTask, memory, left>>
vars == <<version, power, curr, hart, machine, own>>

\* Up to step 11 the length of task[] is USER_NUM.
S7(Step) == INSTANCE OneProgram WITH UserNum <- 1, TaskNum <- 1, XOnly <- FALSE
S8 == INSTANCE Step8 WITH TaskNum <- UserNum, XOnly <- FALSE
S9(XOnly) == INSTANCE Step9 WITH TaskNum <- UserNum
S10 == INSTANCE Step10 WITH TaskNum <- UserNum, XOnly <- FALSE
S11 == INSTANCE Step11 WITH TaskNum <- UserNum, XOnly <- FALSE
S12 == INSTANCE Step12 WITH UserNum <- 1, PcNum <- ShortPcNum, XOnly <- FALSE
P == INSTANCE Prototype WITH PcNum <- ShortPcNum

\* Step 9-xonly links the text segment without the right to read it.
LinkedXOnly(n) == n = 91

Init ==
    \/ /\ \/ \E n \in Single : version = n /\ S7(n)!Init
          \/ version = 8 /\ S8!Init
          \/ \E n \in Alternating : version = n /\ S9(LinkedXOnly(n))!Init
          \/ version = 10 /\ S10!Init
          \/ version = 11 /\ S11!Init
          \/ version = 12 /\ S12!Init
       /\ status = 0 /\ regs = 0 /\ readTask = 0 /\ memory = 0 /\ left = 0
    \/ /\ version = 0 /\ P!Init
       /\ mode = 0 /\ mtip = 0 /\ satp = 0 /\ task = 0 /\ pmp = 0 /\ pte = 0
       /\ ram = 0 /\ readq = 0 /\ waitq = 0 /\ out = 0

Next ==
    \/ /\ \/ \E n \in Single : version = n /\ S7(n)!Next
          \/ version = 8 /\ S8!Next
          \/ \E n \in Alternating : version = n /\ S9(LinkedXOnly(n))!Next
          \/ version = 10 /\ S10!Next
          \/ version = 11 /\ S11!Next
          \/ version = 12 /\ S12!Next
       /\ UNCHANGED <<version, own>>
    \/ /\ version = 0 /\ P!Next
       /\ UNCHANGED <<version, machine>>

Spec == Init /\ [][Next]_vars

\* Every variable of the kernels of steps 4 to 12 has its type.
TypesOK ==
    /\ \A n \in Single : version = n => S7(n)!TypeOK
    /\ version = 8 => S8!TypeOK
    /\ \A n \in Alternating : version = n => S9(LinkedXOnly(n))!TypeOK
    /\ version = 10 => S10!TypeOK
    /\ version = 11 => S11!TypeOK
    /\ version = 12 => S12!TypeOK

\* No program runs in machine mode and the idle loop not in user mode.
UserModeForPrograms == version \notin {0, 4} => S12!ProgramsRunInUserMode

\* Steps 11 and 12: a task sleeps exactly while it is in one queue, once.
SleepersInQueues ==
    /\ version = 11 => S11!SleepersAreQueued
    /\ version = 12 => S12!SleepersAreQueued

\* The prototype: the task that blocks is the reader that read_task points to.
BlockedIsReader == version = 0 => P!SleeperIsReader

\* Each of the steps 4 to 12 runs its programs as if each were alone.
ImplementsPrograms ==
    /\ \A n \in Single : version = n => S7(n)!Promise!Init
    /\ version = 8 => S8!Promise!Init
    /\ \A n \in Alternating : version = n => S9(LinkedXOnly(n))!Promise!Init
    /\ version = 10 => S10!Promise!Init
    /\ version = 11 => S11!Promise!Init
    /\ version = 12 => S12!Promise!Init
    /\ [][/\ \A n \in Single : version = n => [S7(n)!Promise!Next]_(S7(n)!Promise!vars)
          /\ version = 8 => [S8!Promise!Next]_(S8!Promise!vars)
          /\ \A n \in Alternating : version = n => [S9(LinkedXOnly(n))!Promise!Next]_(S9(LinkedXOnly(n))!Promise!vars)
          /\ version = 10 => [S10!Promise!Next]_(S10!Promise!vars)
          /\ version = 11 => [S11!Promise!Next]_(S11!Promise!vars)
          /\ version = 12 => [S12!Promise!Next]_(S12!Promise!vars)]_vars

=============================================================================
