-------------------------------- MODULE Machine --------------------------------
(***************************************************************************)
(* What the kernels of the earlier steps (src/steps/8 to 12) have in       *)
(* common: the hart, the image, RAM and the tables of the kernel.  The     *)
(* kernel of each step is a module of its own that extends this one.       *)
(*                                                                         *)
(* A page is one cell.  The image has two segments, text and data, a page  *)
(* each (mk/u-va.ld).  The instructions of user code are a store to        *)
(* memory, and a system call at which the arguments are loaded.            *)
(***************************************************************************)
EXTENDS Integers, Sequences, FiniteSets

CONSTANTS
    UserNum,        \* USER_NUM, programs started by main()
    TaskNum,        \* the length of task[], at least UserNum
    PcNum,          \* instructions of the user program, which is a loop
    Entry,          \* e_entry of the image
    Offset,         \* USER_PA_OFFSET, in pages; at least the size of a program
    XOnly,          \* the text segment is not readable (mk/u-va-xonly.ld)
    RamPages,       \* pages of RAM from USER_PA on; they hold the programs
    PmpEntries,     \* the numbers of PMP entries a hart may have
    StoreValues,    \* values of user code
    Bursts          \* characters found by one external interrupt

Task == 0 .. TaskNum - 1
Idle == -1
Space == 0 .. UserNum - 1
Pc == 0 .. PcNum - 1
Frames == 0 .. RamPages - 1

\* The segments of the image: their addresses, flags and content.
Text == 0
Data == 1
Va == {Text, Data}
NoVa == 2           \* an address outside of the segments
Kinds == {"R", "W", "X"}
Flags == [va \in Va |-> IF va = Data THEN {"R", "W"}
                       ELSE IF XOnly THEN {"X"} ELSE {"R", "X"}]
Image == [va \in Va |-> 100 + va]

VARIABLES
    power,      \* "on", or "off" after exit()
    curr,       \* curr_task_num
    hart,       \* the registers of the hart
    mode,       \* its privilege mode outside of the handler: "U" or "M"
    mtip,       \* the timer interrupt is pending
    satp,       \* the program whose page table is in use
    task,       \* task[]: regs (with mepc), state, exitcode and space (pte)
    pmp,        \* the frames user code may access
    pte,        \* page table entries of a program
    ram,        \* content of the frames
    readq,      \* queue of read.c
    waitq,      \* wait_queue of sched.c
    out         \* the character this step prints or the value it loads, if any

sched == <<curr, mode, satp, task>>
spaces == <<pmp, pte>>
queues == <<readq, waitq>>
vars == <<power, hart, mtip, sched, spaces, ram, queues, out>>

NoChar == -1
Quiet == out' = NoChar

\* The state of the kernel before its first program: static variables, and the
\* timer started.
Booted ==
    /\ power = "on" /\ mtip = FALSE /\ out = NoChar
    /\ readq = <<>> /\ waitq = <<>>

\* The program a task belongs to; a slot nobody took names the first.
SpaceOf(t) == IF t \in Space THEN t ELSE 0

Registers == [pc : Pc, a0 : Int, a1 : Int, a2 : Int, sp : Int]
Zeroed == [pc |-> 0, a0 |-> 0, a1 |-> 0, a2 |-> 0, sp |-> 0]

READ == 0
WRITE == 1
EXIT == 32
CLONE == 33
WAITPID == 34
CtrlC == 3

-----------------------------------------------------------------------------
(* The hart. *)

InUser == power = "on" /\ curr # Idle /\ ~ mtip

Translates(va, kind) ==
    va \in Va /\ pte[satp][va].valid /\ kind \in pte[satp][va].flags
Opened(va) == pte[satp][va].frame \in pmp
Reaches(va, kind) == Translates(va, kind) /\ Opened(va)

\* The next instruction is fetched.
Executes == InUser /\ Reaches(Text, "X")

Access(va, kind) ==
    \/ InUser /\ va = Text /\ kind = "X"
    \/ Executes /\ va \in Va \cup {NoVa} /\ kind \in {"R", "W"}
PageFaults(va, kind) == Access(va, kind) /\ ~ Translates(va, kind)
AccessFaults(va, kind) ==
    Access(va, kind) /\ Translates(va, kind) /\ ~ Opened(va)

Stepped(c) == [c EXCEPT !.pc = (@ + 1) % PcNum]

\* The registers at an ecall.
Call(number, x, y) == [hart EXCEPT !.a0 = number, !.a1 = x, !.a2 = y]

UserStore ==
    /\ Executes /\ Reaches(Data, "W")
    /\ \E v \in StoreValues : ram' = [ram EXCEPT ![pte[satp][Data].frame] = v]
    /\ hart' = Stepped(hart)
    /\ Quiet /\ UNCHANGED <<power, mtip, sched, spaces, queues>>

\* The register a load changes is none of those the kernel looks at.
UserLoad ==
    /\ Executes
    /\ \E va \in {v \in Va : Reaches(v, "R")} : out' = ram[pte[satp][va].frame]
    /\ hart' = Stepped(hart)
    /\ UNCHANGED <<power, mtip, sched, spaces, ram, queues>>

\* mtime reaches mtimecmp.
Expire ==
    /\ power = "on" /\ ~ mtip /\ mtip' = TRUE
    /\ Quiet /\ UNCHANGED <<power, hart, sched, spaces, ram, queues>>

\* exit() of the kernel.
PowerOff == power' = "off" /\ UNCHANGED <<hart, mtip, sched, spaces, ram, queues>>

\* Buffers of user code: a variable in a loaded page, or no address at all.
Buffers == {NoVa} \cup {va \in {Data} : Translates(va, "W")}

-----------------------------------------------------------------------------
(* Properties. *)

States == {"created", "ready", "running", "blocked", "terminated"}
Entries == [valid : BOOLEAN, flags : SUBSET Kinds, frame : Frames]

\* The type of every variable.
TypeOK ==
    /\ power \in {"on", "off"}
    /\ curr \in Task \cup {Idle}
    /\ hart \in Registers
    /\ mode \in {"U", "M"}
    /\ mtip \in BOOLEAN
    /\ satp \in Space
    /\ task \in [Task -> [regs : Registers, state : States, exitcode : Int, space : Space]]
    /\ pmp \subseteq Frames
    /\ pte \in [Space -> [Va -> Entries]]
    /\ ram \in [Frames -> Int]
    /\ readq \in Seq(Task) /\ waitq \in Seq(Task)
    /\ out \in Int

\* A program never runs in machine mode, where it could do anything, and the
\* idle loop never in user mode (enter_idle, schedule: sched.c).
ProgramsRunInUserMode == mode = "U" <=> curr # Idle

\* A task sleeps exactly while it is in a queue, and is there once.
SleepersAreQueued ==
    LET q == readq \o waitq IN
    /\ {t \in Task : task[t].state = "blocked"} = {q[i] : i \in DOMAIN q}
    /\ \A i, j \in DOMAIN q : q[i] = q[j] => i = j

=============================================================================
