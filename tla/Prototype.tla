------------------------------- MODULE Prototype -------------------------------
(***************************************************************************)
(* The prototype of the kernel (src/src/m: main.c, sched.c, crt.S): two    *)
(* programs in one page table at different addresses, one reader at a time.*)
(***************************************************************************)
EXTENDS Integers, Sequences

CONSTANTS
    UserNum,    \* USER_NUM
    PcNum,      \* instructions of the user program, which is a loop
    Bursts      \* characters found by one external interrupt

Task == 0 .. UserNum - 1
Idle == -1      \* the task pointers curr_task and read_task are NULL
Pc == 0 .. PcNum - 1

VARIABLES
    power,      \* "on", or "off" after exit()
    curr,       \* curr_task
    status,     \* g_uctx[t].status
    regs,       \* g_uctx[t].regs and epc
    hart,       \* registers of the hart: pc, a0, a2 and s4
    readTask,   \* read_task
    memory,     \* what lies at an address: the buffer of task t is at t + 1
    left        \* s4 as the instructions of a program left it

vars == <<power, curr, status, regs, hart, readTask, memory, left>>

READ == 0
WRITE == 1
EXIT == 32
CtrlC == 3

Zeroed == [pc |-> 0, a0 |-> 0, a2 |-> 0, s4 |-> 0]
Buffer(t) == t + 1
Addresses == 0 .. UserNum       \* 0 stands for any address that is no buffer
Values == 0 .. 1                 \* what user code keeps in s4

\* Mutant of TrapFrame: every register in its own slot.
WholeFrame(h) == h

\* trap_vector saves x10, which is a0, a second time in the place of s4 ...
TrapFrame(h) == [h EXCEPT !.s4 = h.a0]

\* ... and loads x10 from there last; x20, which is s4, is not touched.
Restored(frame) == [frame EXCEPT !.a0 = frame.s4, !.s4 = hart.s4]

Ring(t) == IF curr = Idle THEN t ELSE (t - curr - 1 + UserNum) % UserNum

\* sched_schedule(): the next task of the ring that is neither blocking nor
\* terminated; if that is the current one, or the kernel idles already, nothing
\* is saved and nothing restored.
sched_schedule(st, frame) ==
    LET R == {t \in Task : st[t] \in {"ready", "running"}}
        next == {t \in R : \A u \in R : Ring(t) <= Ring(u)}
        saved == IF curr # Idle /\ st[curr] # "terminated"
                 THEN [regs EXCEPT ![curr] = frame] ELSE regs IN
    /\ status' = st
    /\ \/ /\ (next = {} /\ curr = Idle) \/ curr \in next
          /\ hart' = Restored(frame) /\ UNCHANGED <<curr, regs>>
       \/ /\ next = {} /\ curr # Idle
          /\ curr' = Idle /\ regs' = saved /\ hart' = Restored(frame)
       \/ \E t \in next \ {curr} :
          /\ curr' = t /\ regs' = saved /\ hart' = Restored(saved[t])

InUser == power = "on" /\ curr # Idle

Stepped(h) == [h EXCEPT !.pc = (@ + 1) % PcNum]

\* The frame at an ecall, with mepc + 4.
Call(number, a2) == Stepped(TrapFrame([hart EXCEPT !.a0 = number, !.a2 = a2]))

(* User code uses a2 and s4 for whatever it likes. *)
Compute ==
    /\ InUser
    /\ \E a2 \in {0, Buffer(curr)}, s4 \in Values :
        /\ hart' = Stepped([hart EXCEPT !.a2 = a2, !.s4 = s4])
        /\ left' = [left EXCEPT ![curr] = s4]
    /\ UNCHANGED <<power, curr, status, regs, readTask, memory>>

\* Mutant of ReadBusy: a second reader takes the place of the first.
NeverBusy == FALSE

\* One task reads at a time.
ReadBusy == readTask # Idle

SysRead ==
    /\ InUser
    /\ LET frame == Call(READ, Buffer(curr)) IN
       IF ReadBusy
       THEN /\ hart' = Restored([frame EXCEPT !.a0 = -1])
            /\ UNCHANGED <<curr, status, regs, readTask>>
       ELSE /\ readTask' = curr
            /\ sched_schedule([status EXCEPT ![curr] = "blocking"], frame)
    /\ UNCHANGED <<power, memory, left>>

SysWrite ==
    /\ InUser /\ hart' = Restored(Call(WRITE, Buffer(curr)))
    /\ UNCHANGED <<power, curr, status, regs, readTask, memory, left>>

SysExit ==
    /\ InUser
    /\ sched_schedule([status EXCEPT ![curr] = "terminated"], Call(EXIT, hart.a2))
    /\ UNCHANGED <<power, readTask, memory, left>>

(* An illegal call number, and any other exception, ends the machine. *)
Fatal ==
    /\ InUser /\ power' = "off"
    /\ UNCHANGED <<curr, status, regs, hart, readTask, memory, left>>

Timer ==
    /\ power = "on" /\ sched_schedule(status, TrapFrame(hart))
    /\ UNCHANGED <<power, readTask, memory, left>>

(* The console interrupts: the reader gets what is there, up to the size of its
   buffer, which is one; the address is taken from the registers of the
   interrupted task. *)
ReaderInterrupt ==
    /\ power = "on" /\ readTask # Idle
    /\ \E b \in Bursts : memory' = [memory EXCEPT ![hart.a2] = b[1]]
    /\ regs' = [regs EXCEPT ![readTask].a0 = 1]
    /\ status' = [status EXCEPT ![readTask] = "ready"]
    /\ readTask' = Idle
    /\ hart' = Restored(TrapFrame(hart))
    /\ UNCHANGED <<power, curr, left>>

(* Without a reader the console is drained; a control-C ends the machine. *)
DrainInterrupt ==
    /\ power = "on" /\ readTask = Idle
    /\ \E b \in Bursts : power' = IF CtrlC \in {b[i] : i \in DOMAIN b} THEN "off" ELSE "on"
    /\ hart' = Restored(TrapFrame(hart))
    /\ UNCHANGED <<curr, status, regs, readTask, memory, left>>

\* main() and sched_init().
Init ==
    /\ power = "on" /\ curr = 0 /\ readTask = Idle
    /\ status = [t \in Task |-> "ready"]
    /\ regs = [t \in Task |-> Zeroed]
    /\ hart = Zeroed
    /\ memory = [a \in Addresses |-> 0]
    /\ left = [t \in Task |-> 0]

Next == \/ Compute \/ SysRead \/ SysWrite \/ SysExit \/ Fatal
        \/ Timer \/ ReaderInterrupt \/ DrainInterrupt

Spec == Init /\ [][Next]_vars

\* A task that blocks is the one read_task points to, so that the next character
\* will wake it; a second read() must not replace it (main.c:82).
SleeperIsReader == {t \in Task : status[t] = "blocking"} = {readTask} \ {Idle}

\* s2 to s11 are saved registers (regs.h:16): a program finds s4 as it left it,
\* whatever ran in between.
SavedRegistersKept == InUser => hart.s4 = left[curr]

=============================================================================
