------------------------------ MODULE StepsProofs ------------------------------
(***************************************************************************)
(* Proofs about the kernels of the steps, for any number of programs,      *)
(* tasks and pages.                                                        *)
(*                                                                         *)
(* The kernels have most definitions in common.  What they share is proved *)
(* once, of K, which is the kernel of step 11 with parameters; a lemma for *)
(* each step (Same...) says which of its definitions are those of K.       *)
(***************************************************************************)
EXTENDS Steps, SequenceTheorems, WellFoundedInduction, TLAPS

\* u programs, t tasks, programs of p instructions; x is XOnly.
K(u, t, p, x) == INSTANCE Step11 WITH
    UserNum <- u, TaskNum <- t, PcNum <- p, XOnly <- x

\* What StepsAssumption says of the parameters of each step.
Fits(u, t, p, x) ==
    /\ u \in Nat \ {0} /\ t \in Nat /\ t >= u
    /\ p \in Nat \ {0} /\ x \in BOOLEAN
    /\ Entry \in 0 .. p - 1
    /\ RamPages \in Nat /\ 2 * u <= RamPages
    /\ StoreValues \subseteq Int /\ Bursts \subseteq Seq(Int)

\* RAM reaches past u programs that are Offset pages apart.
Reaching(u) == Offset \in Nat /\ Offset >= 2 /\ u * Offset < RamPages

LEMMA StepsFit ==
    ASSUME StepsAssumption
    PROVE  /\ \A x \in BOOLEAN : Fits(UserNum, UserNum, PcNum, x)
           /\ Fits(UserNum, UserNum, PcNum, FALSE)
           /\ Fits(1, TaskNum, ShortPcNum, FALSE) /\ Fits(1, 1, PcNum, FALSE)
           /\ Reaching(UserNum) /\ Reaching(2)
<1>1. UserNum * Offset >= 2 * UserNum
    BY DEF StepsAssumption
<1>2. 2 * UserNum <= RamPages /\ 2 * 1 <= RamPages
    BY <1>1 DEF StepsAssumption
<1>3. /\ \A x \in BOOLEAN : Fits(UserNum, UserNum, PcNum, x)
      /\ Fits(1, TaskNum, ShortPcNum, FALSE) /\ Fits(1, 1, PcNum, FALSE)
    BY <1>2 DEF StepsAssumption, Fits
<1>4. QED
    BY <1>3 DEF StepsAssumption, Reaching

LEMMA ModBound == \A a \in Int, b \in Nat \ {0} : a % b \in 0 .. b - 1
    OBVIOUS

\* A set of naturals has a least element, and a bounded one a greatest.
LEMMA Least ==
    ASSUME NEW S \in SUBSET Nat, S # {}
    PROVE  \E m \in S : \A k \in S : m <= k
<1>1. PICK m \in S : \A k \in S : ~ (<<k, m>> \in OpToRel(<, Nat))
    BY NatLessThanWellFounded, WFMin
<1>2. ASSUME NEW k \in S, k < m PROVE FALSE
    BY <1>1, <1>2 DEF OpToRel
<1>3. QED
    BY <1>2

LEMMA Greatest ==
    ASSUME NEW n \in Nat, NEW S \in SUBSET (0 .. n), S # {}
    PROVE  \E m \in S : \A k \in S : k <= m
<1> DEFINE Rest == {n - k : k \in S}
<1>1. Rest \in SUBSET Nat /\ Rest # {}
    <2>1. \A k \in S : n - k \in Nat
        OBVIOUS
    <2>2. QED
        BY <2>1
<1>2. PICK r \in Rest : \A k \in Rest : r <= k
    BY <1>1, Least
<1>3. PICK m \in S : r = n - m
    OBVIOUS
<1>4. ASSUME NEW k \in S PROVE k <= m
    <2>1. n - k \in Rest
        OBVIOUS
    <2>2. n - m <= n - k
        BY <1>2, <1>3, <2>1
    <2>3. QED
        BY <2>2
<1>5. QED
    BY <1>4

-----------------------------------------------------------------------------
(* The types of what the kernels share. *)

TaskTable(u, t, p, x) ==
    [K(u, t, p, x)!Task ->
        [regs : K(u, t, p, x)!Registers, state : K(u, t, p, x)!States,
         exitcode : Int, space : K(u, t, p, x)!Space]]

LEMMA SteppedType ==
    ASSUME NEW u, NEW t, NEW p, NEW x, Fits(u, t, p, x),
           NEW c \in K(u, t, p, x)!Registers
    PROVE  K(u, t, p, x)!Stepped(c) \in K(u, t, p, x)!Registers
<1> DEFINE n == c.pc + 1
<1>1. n \in Int /\ p \in Nat \ {0}
    BY DEF K!Registers, K!Pc, Fits
<1> HIDE DEF n
<1>2. n % p \in 0 .. p - 1
    BY <1>1, ModBound
<1>3. K(u, t, p, x)!Stepped(c) = [c EXCEPT !.pc = n % p]
    BY DEF K!Stepped, n
<1>4. QED
    BY <1>2, <1>3 DEF K!Registers, K!Pc

\* The registers of the hart, a0 to a2 apart, one instruction later.
GoesOn(p, c) == c.pc = (hart.pc + 1) % p /\ c.sp = hart.sp

LEMMA CallType ==
    ASSUME NEW u, NEW t, NEW p, NEW x, Fits(u, t, p, x), K(u, t, p, x)!TypeOK,
           NEW number \in Int, NEW y \in Int, NEW z \in Int
    PROVE  LET call == K(u, t, p, x)!Call(number, y, z)
               next == K(u, t, p, x)!Stepped(call)
           IN  /\ call \in K(u, t, p, x)!Registers /\ next \in K(u, t, p, x)!Registers
               /\ GoesOn(p, next) /\ next.a0 = number /\ next.a1 = y /\ next.a2 = z
<1>1. K(u, t, p, x)!Call(number, y, z) \in K(u, t, p, x)!Registers
    BY DEF K!Call, K!TypeOK, K!Registers
<1>2. QED
    BY <1>1, SteppedType DEF GoesOn, K!Stepped, K!Call, K!TypeOK, K!Registers

LEMMA UserStoreTypes ==
    ASSUME NEW u, NEW t, NEW p, NEW x, Fits(u, t, p, x), K(u, t, p, x)!TypeOK,
           K(u, t, p, x)!UserStore
    PROVE  K(u, t, p, x)!TypeOK'
<1>1. hart' \in K(u, t, p, x)!Registers
    BY SteppedType DEF K!TypeOK, K!UserStore
<1>2. ram' \in [K(u, t, p, x)!Frames -> Int]
    BY DEF K!TypeOK, K!UserStore, Fits
<1>3. QED
    BY <1>1, <1>2 DEF K!TypeOK, K!UserStore, K!Quiet, K!NoChar, K!sched, K!spaces, K!queues

LEMMA UserLoadTypes ==
    ASSUME NEW u, NEW t, NEW p, NEW x, Fits(u, t, p, x), K(u, t, p, x)!TypeOK,
           K(u, t, p, x)!UserLoad
    PROVE  K(u, t, p, x)!TypeOK'
<1>1. hart' \in K(u, t, p, x)!Registers
    BY SteppedType DEF K!TypeOK, K!UserLoad
<1>2. out' \in Int
    BY DEF K!TypeOK, K!UserLoad, K!Entries
<1>3. QED
    BY <1>1, <1>2 DEF K!TypeOK, K!UserLoad, K!sched, K!spaces, K!queues

LEMMA ExpireTypes ==
    ASSUME NEW u, NEW t, NEW p, NEW x, K(u, t, p, x)!TypeOK, K(u, t, p, x)!Expire
    PROVE  K(u, t, p, x)!TypeOK'
BY DEF K!TypeOK, K!Expire, K!Quiet, K!NoChar, K!sched, K!spaces, K!queues

LEMMA PowerOffTypes ==
    ASSUME NEW u, NEW t, NEW p, NEW x, K(u, t, p, x)!TypeOK,
           K(u, t, p, x)!Quiet, K(u, t, p, x)!PowerOff
    PROVE  K(u, t, p, x)!TypeOK'
BY DEF K!TypeOK, K!PowerOff, K!Quiet, K!NoChar, K!sched, K!spaces, K!queues

\* A call that changes nothing but the registers of the hart.
LEMMA ReturnTypes ==
    ASSUME NEW u, NEW t, NEW p, NEW x, K(u, t, p, x)!TypeOK,
           hart' \in K(u, t, p, x)!Registers, out' \in Int,
           UNCHANGED <<power, mtip, curr, mode, satp, task, pmp, pte, ram, readq, waitq>>
    PROVE  K(u, t, p, x)!TypeOK'
BY DEF K!TypeOK

-----------------------------------------------------------------------------
(* Loading on demand. *)

\* The page tables and the PMP regions of the steps that load on demand.
LEMMA LazyTypes ==
    ASSUME NEW u, NEW t, NEW p, NEW x, Fits(u, t, p, x)
    PROVE  /\ K(u, t, p, x)!PageTables
                \in [K(u, t, p, x)!Space -> [K(u, t, p, x)!Va -> K(u, t, p, x)!Entries]]
           /\ \A regions \in K(u, t, p, x)!PmpRegions : regions \subseteq K(u, t, p, x)!Frames
<1>1. \A s \in K(u, t, p, x)!Space, va \in K(u, t, p, x)!Va :
        /\ K(u, t, p, x)!allocate_pa(s, va) \in K(u, t, p, x)!Frames
        /\ K(u, t, p, x)!Flags[va] \in SUBSET K(u, t, p, x)!Kinds
    BY DEF K!Space, K!Va, K!Text, K!Data, K!allocate_pa, K!Frames, K!Flags, K!Kinds, Fits
<1>2. K(u, t, p, x)!PageTables = [s \in K(u, t, p, x)!Space |-> [va \in K(u, t, p, x)!Va |->
        [valid |-> FALSE, flags |-> K(u, t, p, x)!Flags[va],
         frame |-> K(u, t, p, x)!allocate_pa(s, va)]]]
    BY DEF K!PageTables, K!setup_va, K!setup_pte
<1>3. \A n : K(u, t, p, x)!setup_pmp(n) \subseteq K(u, t, p, x)!Frames
    BY <1>1 DEF K!setup_pmp
<1>4. QED
    BY <1>1, <1>2, <1>3 DEF K!Entries, K!PmpRegions

\* Who executes is in user code.
LEMMA ExecutesIsTask ==
    ASSUME NEW u, NEW t, NEW p, NEW x, Fits(u, t, p, x), K(u, t, p, x)!TypeOK,
           K(u, t, p, x)!InUser
    PROVE  /\ curr \in K(u, t, p, x)!Task /\ curr # -1
           /\ power = "on" /\ mtip = FALSE
BY DEF K!TypeOK, K!InUser, K!Task, K!Idle

LEMMA PageFaultTypes ==
    ASSUME NEW u, NEW t, NEW p, NEW x, Fits(u, t, p, x), K(u, t, p, x)!TypeOK,
           K(u, t, p, x)!PageFault
    PROVE  K(u, t, p, x)!TypeOK' /\ UNCHANGED <<curr, mode, satp, task, readq, waitq>>
<1>1. PICK va \in K(u, t, p, x)!Va \cup {K(u, t, p, x)!NoVa}, kind \in K(u, t, p, x)!Kinds :
        /\ K(u, t, p, x)!PageFaults(va, kind)
        /\ K(u, t, p, x)!handle_page_fault(va, kind)
    BY DEF K!PageFault
<1>2. K(u, t, p, x)!Quiet /\ K(u, t, p, x)!InUser
    BY <1>1 DEF K!PageFault, K!PageFaults, K!Access, K!Executes
<1>3. CASE K(u, t, p, x)!PowerOff
    BY <1>2, <1>3, PowerOffTypes DEF K!PowerOff, K!sched, K!queues
<1>4. CASE K(u, t, p, x)!HasPhdr(va, kind)
    <2>1. /\ K(u, t, p, x)!load_program_segment(curr, va)
          /\ UNCHANGED <<power, hart, mtip, curr, mode, satp, task, pmp, readq, waitq>>
        BY <1>1, <1>4 DEF K!handle_page_fault, K!sched, K!queues
    <2>2. va \in K(u, t, p, x)!Va /\ K(u, t, p, x)!Image[va] \in Int
        BY <1>4 DEF K!HasPhdr, K!Image, K!Va, K!Text, K!Data
    <2>3. ram' \in [K(u, t, p, x)!Frames -> Int]
        BY <2>1, <2>2 DEF K!load_program_segment, K!TypeOK
    <2>4. pte' \in [K(u, t, p, x)!Space -> [K(u, t, p, x)!Va -> K(u, t, p, x)!Entries]]
        <3> DEFINE s == task[curr].space
                   e == [pte[s][va] EXCEPT !.valid = TRUE]
        <3>1. pte' = [pte EXCEPT ![s] = [@ EXCEPT ![va] = e]]
            BY <2>1 DEF K!load_program_segment
        <3>2. s \in K(u, t, p, x)!Space
            BY <1>2, ExecutesIsTask DEF K!TypeOK
        <3>3. pte[s][va] \in K(u, t, p, x)!Entries
            BY <2>2, <3>2 DEF K!TypeOK
        <3>4. e \in K(u, t, p, x)!Entries
            BY <3>3 DEF K!Entries
        <3> HIDE DEF e, s
        <3>5. QED
            BY <3>1, <3>2, <3>4 DEF K!TypeOK
    <2>5. QED
        BY <1>2, <2>1, <2>3, <2>4 DEF K!TypeOK, K!Quiet, K!NoChar
<1>5. QED
    BY <1>1, <1>3, <1>4 DEF K!handle_page_fault

LEMMA SysWriteTypes ==
    ASSUME NEW u, NEW t, NEW p, NEW x, Fits(u, t, p, x), K(u, t, p, x)!TypeOK,
           K(u, t, p, x)!SysWrite
    PROVE  K(u, t, p, x)!TypeOK' /\ UNCHANGED <<curr, mode, satp, task, readq, waitq>>
<1>1. PICK va \in K(u, t, p, x)!Buffers :
        /\ hart' = K(u, t, p, x)!Stepped(K(u, t, p, x)!Call(K(u, t, p, x)!WRITE, 0, va))
        /\ K(u, t, p, x)!handle_write(va)
    BY DEF K!SysWrite
<1>2. va \in Int /\ K(u, t, p, x)!WRITE \in Int
    BY DEF K!Buffers, K!NoVa, K!Data, K!WRITE
<1>3. hart' \in K(u, t, p, x)!Registers
    BY <1>1, <1>2, CallType
<1>4. curr \in K(u, t, p, x)!Task
    BY ExecutesIsTask DEF K!SysWrite, K!Executes
<1>5. out' \in Int
    BY <1>1, <1>4 DEF K!handle_write, K!va_to_pa, K!TypeOK, K!Entries, K!NoChar
<1>6. QED
    BY <1>3, <1>5, ReturnTypes DEF K!SysWrite, K!sched, K!spaces, K!queues

-----------------------------------------------------------------------------
(* The scheduler. *)

\* A runnable task is picked, if there is one.
LEMMA PickupFinds ==
    ASSUME NEW u, NEW t, NEW p, NEW x, Fits(u, t, p, x), curr \in K(u, t, p, x)!Task \cup {-1},
           NEW tasks, K(u, t, p, x)!Runnable(tasks) # {}
    PROVE  K(u, t, p, x)!pickup_next_task(tasks) # {}
<1> DEFINE R == K(u, t, p, x)!Runnable(tasks)
           Dist(i) == K(u, t, p, x)!Dist(i)
           Dists == {Dist(i) : i \in R}
<1>1. \A i \in R : Dist(i) \in Nat
    BY DEF K!Runnable, K!Task, K!Dist, Fits
<1> HIDE DEF R, Dist
<1>2. Dists \in SUBSET Nat /\ Dists # {}
    BY <1>1 DEF R
<1>3. PICK d \in Dists : \A e \in Dists : d <= e
    BY <1>2, Least
<1>4. PICK i \in R : d = Dist(i)
    OBVIOUS
<1>5. \A j \in R : Dist(i) <= Dist(j)
    BY <1>3, <1>4
<1>6. QED
    BY <1>4, <1>5 DEF K!pickup_next_task, R, Dist

\* A task that can run, or the states of one that can.
Runs(s) == s \in {"ready", "running"}

\* The registers a task finds when it goes on.
ContextOf(c, h, tasks, i) == IF i = c THEN h ELSE tasks[i].regs

\* What schedule() does, given the task table tasks and the registers rs.
Rescheduled(u, t, p, x, tasks, rs) ==
    /\ task' \in TaskTable(u, t, p, x) /\ hart' \in K(u, t, p, x)!Registers
    /\ curr' \in K(u, t, p, x)!Task \cup {-1}
    /\ satp' \in K(u, t, p, x)!Space
    /\ mode' \in {"U", "M"} /\ (mode' = "U" <=> curr' # -1)
    /\ \A i \in K(u, t, p, x)!Task :
          /\ task'[i].space = tasks[i].space
          /\ \/ task'[i].state = tasks[i].state
             \/ Runs(task'[i].state) /\ Runs(tasks[i].state)
          /\ ContextOf(curr', hart', task', i) = ContextOf(curr, rs, tasks, i)
    /\ curr' # -1 => task'[curr'].state = "running" /\ satp' = task'[curr'].space
    /\ curr' = -1 => \A i \in K(u, t, p, x)!Task : ~ Runs(tasks[i].state)

LEMMA ScheduleEffect ==
    ASSUME NEW u, NEW t, NEW p, NEW x, Fits(u, t, p, x),
           curr \in K(u, t, p, x)!Task \cup {-1}, satp \in K(u, t, p, x)!Space,
           NEW tasks \in TaskTable(u, t, p, x), NEW rs \in K(u, t, p, x)!Registers,
           K(u, t, p, x)!schedule(tasks, rs)
    PROVE  Rescheduled(u, t, p, x, tasks, rs)
<1> DEFINE T == K(u, t, p, x)!Task
           saved == [i \in T |-> IF i \in {curr} \ {-1}
                                THEN [tasks[i] EXCEPT !.regs = rs] ELSE tasks[i]]
           picked == K(u, t, p, x)!pickup_next_task(saved)
<1>1. saved \in TaskTable(u, t, p, x)
    BY DEF TaskTable
<1>2. \A i \in T : /\ saved[i].state = tasks[i].state
                   /\ saved[i].space = tasks[i].space
                   /\ saved[i].regs = IF i = curr THEN rs ELSE tasks[i].regs
    <2>1. -1 \notin T
        BY DEF K!Task, Fits
    <2>2. QED
        BY <2>1 DEF TaskTable
<1>3. \/ /\ picked = {} /\ K(u, t, p, x)!enter_idle /\ task' = saved /\ hart' = rs
      \/ \E next \in picked :
         /\ curr' = next
         /\ task' = [i \in T |->
                IF i = next THEN [saved[i] EXCEPT !.state = "running"]
                ELSE IF i \in {curr} \ {-1} /\ saved[i].state = "running"
                THEN [saved[i] EXCEPT !.state = "ready"] ELSE saved[i]]
         /\ hart' = saved[next].regs /\ satp' = saved[next].space
         /\ mode' = "U"
    BY DEF K!schedule, K!get_current_task, K!Idle, K!UserMode
<1>4. -1 \notin T /\ picked \subseteq T
    BY DEF K!Task, Fits, K!pickup_next_task, K!Runnable
<1>5. \A i \in picked : Runs(saved[i].state)
    BY DEF K!pickup_next_task, K!Runnable, Runs
<1>6. picked = {} => \A i \in T : ~ Runs(saved[i].state)
    BY PickupFinds DEF K!Runnable, Runs
<1> HIDE DEF saved, picked
<1>7. CASE picked = {} /\ K(u, t, p, x)!enter_idle /\ task' = saved /\ hart' = rs
    <2>1. curr' = -1 /\ mode' = "M" /\ satp' = satp
        BY <1>7 DEF K!enter_idle, K!Idle
    <2>2. \A i \in T : ContextOf(curr', hart', task', i) = ContextOf(curr, rs, tasks, i)
        BY <1>2, <1>4, <1>7, <2>1 DEF ContextOf
    <2>3. QED
        BY <1>1, <1>2, <1>6, <1>7, <2>1, <2>2 DEF Rescheduled
<1>8. ASSUME NEW next \in picked,
             curr' = next,
             task' = [i \in T |->
                IF i = next THEN [saved[i] EXCEPT !.state = "running"]
                ELSE IF i \in {curr} \ {-1} /\ saved[i].state = "running"
                THEN [saved[i] EXCEPT !.state = "ready"] ELSE saved[i]],
             hart' = saved[next].regs, satp' = saved[next].space, mode' = "U"
      PROVE  Rescheduled(u, t, p, x, tasks, rs)
    <2>1. next \in T /\ next # -1 /\ Runs(saved[next].state)
        BY <1>4, <1>5
    <2>2. task' \in TaskTable(u, t, p, x)
        BY <1>1, <1>8 DEF TaskTable, K!States
    <2>3. hart' \in K(u, t, p, x)!Registers /\ satp' \in K(u, t, p, x)!Space
        BY <1>1, <1>8, <2>1 DEF TaskTable
    <2>4. ASSUME NEW i \in T
          PROVE  /\ task'[i].space = saved[i].space /\ task'[i].regs = saved[i].regs
                 /\ \/ task'[i].state = saved[i].state
                    \/ Runs(task'[i].state) /\ Runs(saved[i].state)
        BY <1>1, <1>8, <2>1 DEF TaskTable, Runs
    <2>5. task'[next].state = "running"
        BY <1>1, <1>8, <2>1 DEF TaskTable
    <2>6. ASSUME NEW i \in T
          PROVE  ContextOf(curr', hart', task', i) = ContextOf(curr, rs, tasks, i)
        BY <1>2, <1>8, <2>1, <2>4 DEF ContextOf
    <2>7. QED
        BY <1>2, <1>8, <2>1, <2>2, <2>3, <2>4, <2>5, <2>6 DEF Rescheduled
<1>9. QED
    BY <1>3, <1>7, <1>8

-----------------------------------------------------------------------------
(* Queues. *)

Mem(q) == {q[i] : i \in DOMAIN q}
\* The first n of them.
First(q, n) == {q[k] : k \in {j \in DOMAIN q : j <= n}}
Once(q) == \A i, j \in DOMAIN q : q[i] = q[j] => i = j

LEMMA AppendMembers ==
    ASSUME NEW T, NEW q \in Seq(T), NEW e \in T
    PROVE  /\ Append(q, e) \in Seq(T)
           /\ Mem(Append(q, e)) = Mem(q) \cup {e}
           /\ Once(q) /\ e \notin Mem(q) => Once(Append(q, e))
<1> DEFINE r == Append(q, e)
           n == Len(q)
<1>1. /\ n \in Nat /\ DOMAIN q = 1 .. n
      /\ r \in Seq(T) /\ DOMAIN r = 1 .. n + 1
      /\ \A i \in 1 .. n : r[i] = q[i]
      /\ r[n + 1] = e
    BY AppendProperties, LenProperties
<1> HIDE DEF r, n
<1>2. DOMAIN r = DOMAIN q \cup {n + 1} /\ n + 1 \notin DOMAIN q
    BY <1>1
<1>3. Mem(r) = Mem(q) \cup {e}
    BY <1>1, <1>2 DEF Mem
<1>4. ASSUME Once(q), e \notin Mem(q) PROVE Once(r)
    BY <1>1, <1>2, <1>4 DEF Once, Mem
<1>5. QED
    BY <1>1, <1>3, <1>4 DEF r

\* The first n members leave.
LEMMA TailMembers ==
    ASSUME NEW T, NEW q \in Seq(T), NEW n \in Nat
    PROVE  /\ SubSeq(q, n + 1, Len(q)) \in Seq(T)
           /\ Once(q) => /\ Once(SubSeq(q, n + 1, Len(q)))
                         /\ Mem(SubSeq(q, n + 1, Len(q)))
                              = Mem(q) \ First(q, n)
<1> DEFINE r == SubSeq(q, n + 1, Len(q))
           m == Len(q)
<1>1. m \in Nat /\ DOMAIN q = 1 .. m /\ \A i \in 1 .. m : q[i] \in T
    BY LenProperties, ElementOfSeq
<1>2. \A i \in n + 1 .. m : q[i] \in T
    BY <1>1
<1>3. /\ r \in Seq(T)
      /\ Len(r) = IF n + 1 <= m THEN m - n ELSE 0
      /\ \A i \in 1 .. m - n : r[i] = q[n + i]
    <2>1. /\ r \in Seq(T)
          /\ Len(r) = IF n + 1 <= m THEN m - (n + 1) + 1 ELSE 0
          /\ \A i \in 1 .. m - (n + 1) + 1 : r[i] = q[(n + 1) + i - 1]
        BY <1>1, <1>2, SubSeqProperties
    <2> HIDE DEF r, m
    <2>2. m - (n + 1) + 1 = m - n /\ \A i \in 1 .. m - n : (n + 1) + i - 1 = n + i
        BY <1>1
    <2>3. QED
        BY <2>1, <2>2
<1> HIDE DEF r, m
<1>4. DOMAIN r = 1 .. m - n
    <2>1. DOMAIN r = 1 .. Len(r)
        BY <1>3, LenProperties
    <2>2. QED
        BY <1>1, <1>3, <2>1
<1>5. ASSUME Once(q)
      PROVE  Once(r) /\ Mem(r) = Mem(q) \ First(q, n)
    <2>1. \A i \in DOMAIN r : n + i \in DOMAIN q /\ r[i] = q[n + i]
        BY <1>1, <1>3, <1>4
    <2>2. \A k \in DOMAIN q : k > n => k - n \in DOMAIN r /\ q[k] = r[k - n]
        BY <1>1, <1>3, <1>4
    <2>3. Once(r)
        BY <1>1, <1>4, <1>5, <2>1 DEF Once
    <2>4. Mem(r) \subseteq Mem(q) \ First(q, n)
        <3>1. SUFFICES ASSUME NEW i \in DOMAIN r
                       PROVE  r[i] \in Mem(q) /\ \A j \in DOMAIN q : j <= n => r[i] # q[j]
            BY DEF Mem, First
        <3>2. \A j \in DOMAIN q : j <= n => r[i] # q[j]
            BY <1>1, <1>4, <1>5, <2>1 DEF Once
        <3>3. QED
            BY <2>1, <3>2 DEF Mem
    <2>5. Mem(q) \ First(q, n) \subseteq Mem(r)
        BY <1>1, <2>2 DEF Mem, First
    <2>6. QED
        BY <2>3, <2>4, <2>5
<1>6. QED
    BY <1>3, <1>5 DEF r, m

LEMMA ConcatMembers ==
    ASSUME NEW T, NEW q \in Seq(T), NEW r \in Seq(T)
    PROVE  /\ q \o r \in Seq(T)
           /\ Mem(q \o r) = Mem(q) \cup Mem(r)
           /\ Once(q \o r) <=> Once(q) /\ Once(r) /\ Mem(q) \cap Mem(r) = {}
<1> DEFINE s == q \o r
           m == Len(q)
           n == Len(r)
<1>1. /\ m \in Nat /\ n \in Nat /\ DOMAIN q = 1 .. m /\ DOMAIN r = 1 .. n
      /\ s \in Seq(T) /\ DOMAIN s = 1 .. m + n
      /\ \A i \in 1 .. m + n : s[i] = IF i <= m THEN q[i] ELSE r[i - m]
    BY ConcatProperties, LenProperties
<1> HIDE DEF s, m, n
<1>2. /\ \A i \in DOMAIN q : i \in DOMAIN s /\ s[i] = q[i]
      /\ \A i \in DOMAIN r : m + i \in DOMAIN s /\ s[m + i] = r[i]
      /\ \A i \in DOMAIN s : \/ i \in DOMAIN q
                             \/ i - m \in DOMAIN r /\ i = m + (i - m)
    <2>1. \A i \in DOMAIN r : m + i \in DOMAIN s /\ ~ (m + i <= m) /\ (m + i) - m = i
        BY <1>1
    <2>2. QED
        BY <1>1, <2>1
<1>3. Mem(s) = Mem(q) \cup Mem(r)
    <2>1. Mem(s) \subseteq Mem(q) \cup Mem(r)
        BY <1>2 DEF Mem
    <2>2. Mem(q) \subseteq Mem(s) /\ Mem(r) \subseteq Mem(s)
        BY <1>2 DEF Mem
    <2>3. QED
        BY <2>1, <2>2
<1>4. ASSUME Once(s) PROVE Once(q) /\ Once(r) /\ Mem(q) \cap Mem(r) = {}
    <2>1. Once(q)
        BY <1>2, <1>4 DEF Once
    <2>2. Once(r)
        <3>1. ASSUME NEW i \in DOMAIN r, NEW j \in DOMAIN r, r[i] = r[j] PROVE i = j
            <4>1. m + i = m + j
                BY <1>2, <1>4, <3>1 DEF Once
            <4>2. QED
                BY <1>1, <4>1
        <3>2. QED
            BY <3>1 DEF Once
    <2>3. ASSUME NEW i \in DOMAIN q, NEW j \in DOMAIN r, q[i] = r[j] PROVE FALSE
        <3>1. i = m + j
            BY <1>2, <1>4, <2>3 DEF Once
        <3>2. QED
            BY <1>1, <3>1
    <2>4. QED
        BY <2>1, <2>2, <2>3 DEF Mem
<1>5. ASSUME Once(q), Once(r), Mem(q) \cap Mem(r) = {} PROVE Once(s)
    <2>1. ASSUME NEW i \in DOMAIN s, NEW j \in DOMAIN s, s[i] = s[j] PROVE i = j
        <3>1. CASE i \in DOMAIN q /\ j \in DOMAIN q
            BY <1>2, <1>5, <2>1, <3>1 DEF Once
        <3>2. CASE i \notin DOMAIN q /\ j \notin DOMAIN q
            <4>1. i - m = j - m
                BY <1>2, <1>5, <2>1, <3>2 DEF Once
            <4>2. QED
                BY <1>2, <3>2, <4>1
        <3>3. CASE i \in DOMAIN q /\ j \notin DOMAIN q
            <4>1. s[i] \in Mem(q) /\ s[j] \in Mem(r)
                BY <1>2, <3>3 DEF Mem
            <4>2. QED
                BY <1>5, <2>1, <4>1
        <3>4. CASE i \notin DOMAIN q /\ j \in DOMAIN q
            <4>1. s[j] \in Mem(q) /\ s[i] \in Mem(r)
                BY <1>2, <3>4 DEF Mem
            <4>2. QED
                BY <1>5, <2>1, <4>1
        <3>5. QED
            BY <3>1, <3>2, <3>3, <3>4
    <2>2. QED
        BY <2>1 DEF Once
<1>6. QED
    BY <1>1, <1>3, <1>4, <1>5 DEF s

\* The member at place i leaves.
LEMMA RemoveMembers ==
    ASSUME NEW T, NEW q \in Seq(T), NEW i \in DOMAIN q, Once(q)
    PROVE  LET r == SubSeq(q, 1, i - 1) \o SubSeq(q, i + 1, Len(q)) IN
           r \in Seq(T) /\ Once(r) /\ Mem(r) = Mem(q) \ {q[i]}
<1> DEFINE m == Len(q)
           a == SubSeq(q, 1, i - 1)
           b == SubSeq(q, i + 1, m)
<1>1. m \in Nat /\ DOMAIN q = 1 .. m /\ i \in 1 .. m /\ \A j \in 1 .. m : q[j] \in T
    BY LenProperties, ElementOfSeq
<1>2. b \in Seq(T) /\ Once(b) /\ Mem(b) = Mem(q) \ First(q, i)
    <2>1. i \in Nat
        BY <1>1
    <2>2. QED
        BY <2>1, TailMembers
<1>3. a \in Seq(T) /\ DOMAIN a = 1 .. i - 1 /\ \A j \in 1 .. i - 1 : a[j] = q[j]
    <2>1. \A j \in 1 .. i - 1 : q[j] \in T
        BY <1>1
    <2>2. /\ a \in Seq(T)
          /\ Len(a) = IF 1 <= i - 1 THEN (i - 1) - 1 + 1 ELSE 0
          /\ \A j \in 1 .. (i - 1) - 1 + 1 : a[j] = q[1 + j - 1]
        BY <1>1, <2>1, SubSeqProperties
    <2>3. DOMAIN a = 1 .. Len(a)
        BY <2>2, LenProperties
    <2> HIDE DEF a
    <2>4. QED
        BY <1>1, <2>2, <2>3
<1> HIDE DEF a, b, m
<1>4. Once(a)
    BY <1>1, <1>3 DEF Once
<1>5. Mem(a) = {q[k] : k \in {j \in DOMAIN q : j < i}}
    <2>1. DOMAIN a = {j \in DOMAIN q : j < i}
        BY <1>1, <1>3
    <2>2. \A j \in DOMAIN a : a[j] = q[j]
        BY <1>3
    <2>3. QED
        BY <2>1, <2>2 DEF Mem
<1>6. Mem(a) \cap Mem(b) = {} /\ Mem(a) \cup Mem(b) = Mem(q) \ {q[i]}
    <2>1. Mem(a) \subseteq Mem(q) \ {q[i]}
        BY <1>1, <1>5 DEF Mem, Once
    <2>2. Mem(b) \subseteq Mem(q) \ {q[i]}
        BY <1>1, <1>2 DEF First
    <2>3. ASSUME NEW k \in DOMAIN q, q[k] # q[i] PROVE q[k] \in Mem(a) \cup Mem(b)
        <3>1. CASE k < i
            BY <1>5, <3>1
        <3>2. CASE k > i
            <4>1. \A j \in DOMAIN q : j <= i => q[k] # q[j]
                BY <1>1, <3>2 DEF Once
            <4>2. QED
                BY <1>2, <4>1 DEF Mem, First
        <3>3. QED
            BY <1>1, <2>3, <3>1, <3>2
    <2>4. Mem(a) \cap Mem(b) = {}
        BY <1>1, <1>2, <1>5 DEF First
    <2>5. QED
        BY <2>1, <2>2, <2>3, <2>4 DEF Mem
<1>7. a \o b \in Seq(T) /\ Once(a \o b) /\ Mem(a \o b) = Mem(q) \ {q[i]}
    BY <1>2, <1>3, <1>4, <1>6, ConcatMembers
<1>8. QED
    BY <1>7 DEF a, b, m

\* SleepersAreQueued of given tasks and queues.
Queued(T, tasks, rq, wq) ==
    /\ Once(rq) /\ Once(wq) /\ Mem(rq) \cap Mem(wq) = {}
    /\ \A i \in T : tasks[i].state = "blocked" <=> i \in Mem(rq) \cup Mem(wq)

LEMMA SleepersQueued ==
    ASSUME NEW T, NEW tasks, NEW rq \in Seq(T), NEW wq \in Seq(T)
    PROVE  LET q == rq \o wq IN
           (/\ {i \in T : tasks[i].state = "blocked"} = {q[i] : i \in DOMAIN q}
            /\ \A i, j \in DOMAIN q : q[i] = q[j] => i = j)
           <=> Queued(T, tasks, rq, wq)
<1> DEFINE q == rq \o wq
<1>1. /\ Mem(q) = Mem(rq) \cup Mem(wq)
      /\ Once(q) <=> Once(rq) /\ Once(wq) /\ Mem(rq) \cap Mem(wq) = {}
      /\ Mem(q) \subseteq T
    <2>1. q \in Seq(T)
        BY ConcatMembers
    <2>2. Mem(q) \subseteq T
        BY <2>1, LenProperties, ElementOfSeq DEF Mem
    <2>3. QED
        BY <2>2, ConcatMembers
<1>2. Mem(q) = {q[i] : i \in DOMAIN q}
    BY DEF Mem
<1>3. Once(q) <=> \A i, j \in DOMAIN q : q[i] = q[j] => i = j
    BY DEF Once
<1> HIDE DEF q
<1>4. {i \in T : tasks[i].state = "blocked"} = Mem(q)
        <=> \A i \in T : tasks[i].state = "blocked" <=> i \in Mem(q)
    BY <1>1
<1>5. QED
    BY <1>1, <1>2, <1>3, <1>4 DEF Queued, q

-----------------------------------------------------------------------------
(* The invariant of the kernels that have task states. *)

\* Only programs run in user mode, and the current task is the running one.
SchedInv(u, t, p, x) ==
    /\ K(u, t, p, x)!TypeOK
    /\ mode = "U" <=> curr # -1
    /\ curr # -1 => task[curr].state = "running"

SleepInv(u, t, p, x) ==
    SchedInv(u, t, p, x) /\ Queued(K(u, t, p, x)!Task, task, readq, waitq)

LEMMA SleepInvIsQueued ==
    ASSUME NEW u, NEW t, NEW p, NEW x, K(u, t, p, x)!TypeOK
    PROVE  K(u, t, p, x)!SleepersAreQueued
              <=> Queued(K(u, t, p, x)!Task, task, readq, waitq)
BY SleepersQueued DEF K!SleepersAreQueued, K!TypeOK

\* Whatever leaves the tasks and queues alone.
LEMMA SchedInvKept ==
    ASSUME NEW u, NEW t, NEW p, NEW x, SchedInv(u, t, p, x), K(u, t, p, x)!TypeOK',
           UNCHANGED <<curr, mode, task>>
    PROVE  SchedInv(u, t, p, x)'
BY DEF SchedInv

LEMMA SleepInvKept ==
    ASSUME NEW u, NEW t, NEW p, NEW x, SleepInv(u, t, p, x), K(u, t, p, x)!TypeOK',
           UNCHANGED <<curr, mode, task, readq, waitq>>
    PROVE  SleepInv(u, t, p, x)'
BY SchedInvKept DEF SleepInv

LEMMA SchedInvRescheduled ==
    ASSUME NEW u, NEW t, NEW p, NEW x, Fits(u, t, p, x), K(u, t, p, x)!TypeOK,
           NEW tasks, NEW rs, Rescheduled(u, t, p, x, tasks, rs),
           power' \in {"on", "off"}, mtip' \in BOOLEAN, out' \in Int,
           ram' \in [K(u, t, p, x)!Frames -> Int],
           readq' \in Seq(K(u, t, p, x)!Task), waitq' \in Seq(K(u, t, p, x)!Task),
           UNCHANGED <<pmp, pte>>
    PROVE  SchedInv(u, t, p, x)'
BY DEF Rescheduled, SchedInv, K!TypeOK, TaskTable, K!Idle

LEMMA SleepInvRescheduled ==
    ASSUME NEW u, NEW t, NEW p, NEW x, Fits(u, t, p, x),
           NEW tasks, NEW rs, Rescheduled(u, t, p, x, tasks, rs), SchedInv(u, t, p, x)',
           Queued(K(u, t, p, x)!Task, tasks, readq', waitq')
    PROVE  SleepInv(u, t, p, x)'
<1>1. \A i \in K(u, t, p, x)!Task : task'[i].state = "blocked" <=> tasks[i].state = "blocked"
    BY DEF Rescheduled, Runs
<1>2. QED
    BY <1>1 DEF SleepInv, Queued, K!Task

-----------------------------------------------------------------------------
(* The handlers of step 11. *)

LEMMA TaskTyped ==
    ASSUME NEW u, NEW t, NEW p, NEW x, Fits(u, t, p, x), K(u, t, p, x)!TypeOK
    PROVE  /\ task \in TaskTable(u, t, p, x) /\ hart \in K(u, t, p, x)!Registers
           /\ curr \in K(u, t, p, x)!Task \cup {-1} /\ satp \in K(u, t, p, x)!Space
           /\ -1 \notin K(u, t, p, x)!Task
           /\ power \in {"on", "off"} /\ mtip \in BOOLEAN
           /\ ram \in [K(u, t, p, x)!Frames -> Int]
           /\ readq \in Seq(K(u, t, p, x)!Task) /\ waitq \in Seq(K(u, t, p, x)!Task)
BY DEF K!TypeOK, TaskTable, K!Idle, K!Task, Fits

LEMMA TimerReschedules ==
    ASSUME NEW u, NEW t, NEW p, NEW x, Fits(u, t, p, x), SchedInv(u, t, p, x),
           K(u, t, p, x)!Timer
    PROVE  /\ Rescheduled(u, t, p, x, task, hart)
           /\ SchedInv(u, t, p, x)'
           /\ UNCHANGED <<power, pmp, pte, ram, readq, waitq>> /\ out' = -1
<1>1. K(u, t, p, x)!TypeOK
    BY DEF SchedInv
<1>2. /\ UNCHANGED <<power, pmp, pte, ram, readq, waitq>> /\ out' = -1 /\ mtip' = FALSE
      /\ K(u, t, p, x)!schedule(task, hart)
    BY DEF K!Timer, K!Quiet, K!NoChar, K!spaces, K!queues, K!handle_timer_interrupt
<1>3. Rescheduled(u, t, p, x, task, hart)
    BY <1>1, <1>2, TaskTyped, ScheduleEffect
<1>4. SchedInv(u, t, p, x)'
    <2>1. mtip' \in BOOLEAN
        BY <1>2
    <2>2. out' \in Int
        BY <1>2
    <2>3. QED
        BY <1>1, <1>2, <1>3, <2>1, <2>2, TaskTyped, SchedInvRescheduled
<1>5. QED
    BY <1>2, <1>3, <1>4

\* The current task with another state.
WithState(s) == [task EXCEPT ![curr].state = s]

LEMMA WithStateTyped ==
    ASSUME NEW u, NEW t, NEW p, NEW x, Fits(u, t, p, x), K(u, t, p, x)!TypeOK,
           curr # -1, NEW s \in K(u, t, p, x)!States
    PROVE  /\ WithState(s) \in TaskTable(u, t, p, x)
           /\ \A i \in K(u, t, p, x)!Task :
                 /\ WithState(s)[i].state = IF i = curr THEN s ELSE task[i].state
                 /\ WithState(s)[i].space = task[i].space
                 /\ WithState(s)[i].regs = task[i].regs
                 /\ WithState(s)[i].exitcode = task[i].exitcode
BY TaskTyped DEF WithState, TaskTable

LEMMA SysExitReschedules ==
    ASSUME NEW u, NEW t, NEW p, NEW x, Fits(u, t, p, x), SchedInv(u, t, p, x),
           K(u, t, p, x)!SysExit
    PROVE  /\ curr # -1 /\ power = "on"
           /\ \E rs \in K(u, t, p, x)!Registers :
                 Rescheduled(u, t, p, x, WithState("terminated"), rs)
           /\ SchedInv(u, t, p, x)'
           /\ UNCHANGED <<power, pmp, pte, ram, readq, waitq>> /\ out' = -1
<1> DEFINE rs == K(u, t, p, x)!Call(K(u, t, p, x)!EXIT, 0, 0)
<1>1. K(u, t, p, x)!TypeOK /\ curr # -1 /\ power = "on"
    BY ExecutesIsTask DEF SchedInv, K!SysExit, K!Executes
<1>2. /\ UNCHANGED <<power, mtip, pmp, pte, ram, readq, waitq>> /\ out' = -1
      /\ K(u, t, p, x)!schedule(WithState("terminated"), rs)
    BY DEF K!SysExit, K!Quiet, K!NoChar, K!spaces, K!queues, K!terminate_current_task, WithState
<1>3. rs \in K(u, t, p, x)!Registers
    BY <1>1, CallType DEF K!EXIT
<1>4. WithState("terminated") \in TaskTable(u, t, p, x)
    BY <1>1, WithStateTyped DEF K!States
<1> HIDE DEF rs
<1>5. Rescheduled(u, t, p, x, WithState("terminated"), rs)
    BY <1>1, <1>2, <1>3, <1>4, TaskTyped, ScheduleEffect
<1>6. SchedInv(u, t, p, x)'
    BY <1>1, <1>2, <1>5, TaskTyped, SchedInvRescheduled
<1>7. QED
    BY <1>1, <1>2, <1>3, <1>5, <1>6

LEMMA SysReadReschedules ==
    ASSUME NEW u, NEW t, NEW p, NEW x, Fits(u, t, p, x), SleepInv(u, t, p, x),
           K(u, t, p, x)!SysRead
    PROVE  /\ curr # -1 /\ power = "on"
           /\ \E rs \in K(u, t, p, x)!Registers :
                 GoesOn(p, rs) /\ Rescheduled(u, t, p, x, WithState("blocked"), rs)
           /\ SleepInv(u, t, p, x)'
           /\ UNCHANGED <<power, pmp, pte, ram, waitq>> /\ out' = -1
           /\ Mem(readq') = Mem(readq) \cup {curr}
<1> DEFINE T == K(u, t, p, x)!Task
<1>1. K(u, t, p, x)!TypeOK /\ curr # -1 /\ curr \in T /\ power = "on"
    BY ExecutesIsTask DEF SleepInv, SchedInv, K!SysRead, K!Executes
<1>2. /\ UNCHANGED <<power, mtip, pmp, pte, ram, waitq>> /\ out' = -1
      /\ readq' = Append(readq, curr)
    BY DEF K!SysRead, K!Quiet, K!NoChar, K!spaces, K!enqueue, K!task_enqueue
<1>3. PICK va \in K(u, t, p, x)!Buffers :
        K(u, t, p, x)!schedule(WithState("blocked"),
            K(u, t, p, x)!Stepped(K(u, t, p, x)!Call(K(u, t, p, x)!READ, 0, va)))
    BY DEF K!SysRead, K!block_current_task, WithState
<1> DEFINE ss == K(u, t, p, x)!Stepped(K(u, t, p, x)!Call(K(u, t, p, x)!READ, 0, va))
<1>4. ss \in K(u, t, p, x)!Registers /\ GoesOn(p, ss)
    <2>1. va \in Int
        BY DEF K!Buffers, K!NoVa, K!Data
    <2>2. QED
        BY <1>1, <2>1, CallType DEF K!READ
<1>5. WithState("blocked") \in TaskTable(u, t, p, x)
    BY <1>1, WithStateTyped DEF K!States
<1>6. K(u, t, p, x)!schedule(WithState("blocked"), ss)
    BY <1>3
<1> HIDE DEF ss
<1>7. Rescheduled(u, t, p, x, WithState("blocked"), ss)
    BY <1>1, <1>4, <1>5, <1>6, TaskTyped, ScheduleEffect
<1>8. /\ readq \in Seq(T) /\ waitq \in Seq(T) /\ readq' \in Seq(T)
      /\ Mem(readq') = Mem(readq) \cup {curr}
    BY <1>1, <1>2, AppendMembers DEF K!TypeOK
<1>9. SchedInv(u, t, p, x)'
    BY <1>1, <1>2, <1>7, <1>8, TaskTyped, SchedInvRescheduled
<1>10. Queued(T, WithState("blocked"), readq', waitq')
    <2>1. curr \notin Mem(readq) /\ curr \notin Mem(waitq)
        BY <1>1 DEF SleepInv, SchedInv, Queued
    <2>2. Once(readq')
        BY <1>1, <1>2, <1>8, <2>1, AppendMembers DEF SleepInv, Queued
    <2>3. ASSUME NEW i \in T
          PROVE  WithState("blocked")[i].state = "blocked" <=> i \in Mem(readq') \cup Mem(waitq)
        BY <1>1, <1>8, WithStateTyped DEF SleepInv, Queued, K!States
    <2>4. QED
        BY <1>2, <1>8, <2>1, <2>2, <2>3 DEF SleepInv, Queued
<1>11. SleepInv(u, t, p, x)'
    BY <1>7, <1>9, <1>10, SleepInvRescheduled
<1>12. QED
    BY <1>1, <1>2, <1>4, <1>7, <1>8, <1>11

\* RAM changes only where a task of W asked for it.
StoredOnlyFor(u, t, p, x, W) ==
    \A f \in K(u, t, p, x)!Frames : ram'[f] # ram[f] =>
        \E i \in W : /\ task[i].regs.a2 \in K(u, t, p, x)!Va
                     /\ K(u, t, p, x)!va_to_pa(i, task[i].regs.a2) = f

LEMMA InterruptServes ==
    ASSUME NEW u, NEW t, NEW p, NEW x, Fits(u, t, p, x), SleepInv(u, t, p, x),
           K(u, t, p, x)!ExternalInterrupt
    PROVE  /\ power = "on" /\ out' = -1 /\ UNCHANGED <<hart, curr, mode, satp, pmp, pte, waitq>>
           /\ SleepInv(u, t, p, x)'
           /\ \E W \in SUBSET Mem(readq) :
                 /\ Mem(readq') = Mem(readq) \ W
                 /\ task' = [i \in K(u, t, p, x)!Task |->
                        IF i \in W THEN [task[i] EXCEPT !.state = "ready", !.regs.a0 = 1]
                        ELSE task[i]]
                 /\ StoredOnlyFor(u, t, p, x, W)
<1> DEFINE T == K(u, t, p, x)!Task
<1>1. K(u, t, p, x)!TypeOK /\ SchedInv(u, t, p, x) /\ Queued(T, task, readq, waitq)
    BY DEF SleepInv, SchedInv
<1>2. /\ power = "on" /\ out' = -1
      /\ UNCHANGED <<hart, mtip, curr, mode, satp, pmp, pte, waitq>>
    BY DEF K!ExternalInterrupt, K!Quiet, K!NoChar, K!spaces
<1>3. PICK b \in Bursts :
        /\ task' = K(u, t, p, x)!ReadiedBy(Len(b))
        /\ ram' = K(u, t, p, x)!retrieve_read_data(b)
        /\ readq' = SubSeq(readq, Len(b) + 1, Len(readq))
        /\ power' \in {"on", "off"}
    BY DEF K!ExternalInterrupt, K!task_dequeue
<1> DEFINE n == Len(b)
           W == First(readq, n)
<1>4. b \in Seq(Int) /\ n \in Nat /\ DOMAIN b = 1 .. n /\ \A i \in 1 .. n : b[i] \in Int
    BY LenProperties, ElementOfSeq DEF Fits
<1>5. readq \in Seq(T) /\ DOMAIN readq = 1 .. Len(readq) /\ Len(readq) \in Nat
      /\ \A i \in DOMAIN readq : readq[i] \in T
    <2>1. readq \in Seq(T)
        BY <1>1, TaskTyped
    <2>2. QED
        BY <2>1, LenProperties, ElementOfSeq
<1> HIDE DEF n
<1>6. /\ readq' \in Seq(T) /\ Once(readq') /\ Mem(readq') = Mem(readq) \ W
    BY <1>1, <1>3, <1>4, <1>5, TailMembers DEF Queued, n
<1>7. W \in SUBSET Mem(readq) /\ W \subseteq T
    BY <1>5 DEF First, Mem
<1>8. task' = [i \in T |-> IF i \in W THEN [task[i] EXCEPT !.state = "ready", !.regs.a0 = 1]
                          ELSE task[i]]
    <2>1. \A i \in T : (\E j \in K(u, t, p, x)!Served(n) : K(u, t, p, x)!dequeue(j) = i)
                          <=> i \in W
        BY DEF K!Served, K!dequeue, First
    <2> HIDE DEF W
    <2>2. QED
        BY <1>3, <2>1 DEF K!ReadiedBy, n
<1>9. ASSUME NEW f \in K(u, t, p, x)!Frames
      PROVE  /\ ram'[f] \in Int
             /\ ram'[f] # ram[f] =>
                  \E i \in W : /\ task[i].regs.a2 \in K(u, t, p, x)!Va
                               /\ K(u, t, p, x)!va_to_pa(i, task[i].regs.a2) = f
    <2> DEFINE hits == {i \in K(u, t, p, x)!Served(n) :
                           LET v == K(u, t, p, x)!dequeue(i) IN
                           /\ K(u, t, p, x)!BufferOf(v) \in K(u, t, p, x)!Va
                           /\ K(u, t, p, x)!va_to_pa(v, K(u, t, p, x)!BufferOf(v)) = f}
               last == CHOOSE i \in hits : \A j \in hits : j <= i
    <2>1. ram'[f] = IF hits = {} THEN ram[f] ELSE b[last]
        BY <1>3 DEF K!retrieve_read_data, n
    <2>2. hits \in SUBSET (0 .. n) /\ hits \subseteq 1 .. n
        BY <1>4, <1>5 DEF K!Served, n
    <2>3. \A i \in hits : /\ readq[i] \in W /\ task[readq[i]].regs.a2 \in K(u, t, p, x)!Va
                         /\ K(u, t, p, x)!va_to_pa(readq[i], task[readq[i]].regs.a2) = f
        BY DEF K!Served, K!dequeue, K!BufferOf, First
    <2> HIDE DEF hits, W
    <2>4. hits # {} => last \in hits
        <3>1. hits # {} => \E i \in hits : \A j \in hits : j <= i
            BY <1>4, <2>2, Greatest
        <3>2. QED
            BY <3>1
    <2> HIDE DEF last
    <2>5. ram[f] \in Int
        BY <1>1, TaskTyped
    <2>6. ram'[f] \in Int
        BY <1>4, <2>1, <2>2, <2>4, <2>5
    <2>7. QED
        BY <2>1, <2>3, <2>6
<1>10. StoredOnlyFor(u, t, p, x, W)
    BY <1>9 DEF StoredOnlyFor
<1>11. ram' \in [K(u, t, p, x)!Frames -> Int]
    <2>1. ram' = [f \in K(u, t, p, x)!Frames |-> ram'[f]]
        BY <1>3 DEF K!retrieve_read_data
    <2>2. QED
        BY <1>9, <2>1
<1> HIDE DEF W
<1>12. task' \in TaskTable(u, t, p, x)
    <2> DEFINE Woken(i) == [task[i] EXCEPT !.state = "ready", !.regs.a0 = 1]
    <2>1. ASSUME NEW i \in T
          PROVE  Woken(i) \in [regs : K(u, t, p, x)!Registers, state : K(u, t, p, x)!States,
                               exitcode : Int, space : K(u, t, p, x)!Space]
        <3>1. task[i] \in [regs : K(u, t, p, x)!Registers, state : K(u, t, p, x)!States,
                               exitcode : Int, space : K(u, t, p, x)!Space]
            BY <1>1, TaskTyped DEF TaskTable
        <3>2. [task[i].regs EXCEPT !.a0 = 1] \in K(u, t, p, x)!Registers
            BY <3>1 DEF K!Registers
        <3>3. QED
            BY <3>1, <3>2 DEF K!States
    <2> HIDE DEF Woken
    <2>2. task' = [i \in T |-> IF i \in W THEN Woken(i) ELSE task[i]]
        BY <1>8 DEF Woken
    <2>3. QED
        BY <1>1, <2>1, <2>2, TaskTyped DEF TaskTable
<1>13. K(u, t, p, x)!TypeOK'
    <2>1. mtip' \in BOOLEAN /\ waitq' \in Seq(T)
        BY <1>1, <1>2, TaskTyped
    <2>2. QED
        BY <1>1, <1>2, <1>3, <1>6, <1>11, <1>12, <2>1 DEF K!TypeOK, TaskTable
<1>14. \A i \in T : task'[i].state = IF i \in W THEN "ready" ELSE task[i].state
    BY <1>1, <1>8, TaskTyped DEF TaskTable
<1>15. \A i \in W : task[i].state = "blocked"
    BY <1>1, <1>7 DEF Queued
<1>16. SchedInv(u, t, p, x)'
    BY <1>1, <1>2, <1>13, <1>14, <1>15, TaskTyped DEF SchedInv
<1>17. Queued(T, task', readq', waitq')
    BY <1>1, <1>2, <1>6, <1>7, <1>14 DEF Queued
<1>18. SleepInv(u, t, p, x)'
    BY <1>16, <1>17 DEF SleepInv, K!Task
<1>19. QED
    BY <1>2, <1>6, <1>7, <1>8, <1>10, <1>18

-----------------------------------------------------------------------------
(* Step 11. *)

LEMMA InitSleepInv ==
    ASSUME NEW u, NEW t, NEW p, NEW x, Fits(u, t, p, x), K(u, t, p, x)!Init
    PROVE  SleepInv(u, t, p, x)
<1> DEFINE T == K(u, t, p, x)!Task
           made == [i \in T |-> K(u, t, p, x)!create_task(i)]
<1>1. 0 \in T /\ 0 \in K(u, t, p, x)!Space /\ -1 \notin T
    BY DEF K!Task, K!Space, Fits
<1>2. /\ power = "on" /\ mtip = FALSE /\ out = -1 /\ readq = <<>> /\ waitq = <<>>
      /\ curr = 0 /\ satp = 0 /\ mode = "U"
      /\ hart = [K(u, t, p, x)!Zeroed EXCEPT !.pc = Entry]
      /\ task = [made EXCEPT ![0].state = "running"]
      /\ ram = [f \in K(u, t, p, x)!Frames |-> 0]
    BY DEF K!Init, K!Booted, K!start_schedule, K!NoChar
<1>3. hart \in K(u, t, p, x)!Registers
    BY <1>2 DEF K!Zeroed, K!Registers, K!Pc, Fits
<1>4. made \in TaskTable(u, t, p, x) /\ \A i \in T : made[i].state \in {"ready", "created"}
    <2>1. K(u, t, p, x)!Zeroed \in K(u, t, p, x)!Registers
        BY DEF K!Zeroed, K!Registers, K!Pc, Fits
    <2>2. \A i \in T : K(u, t, p, x)!SpaceOf(i) \in K(u, t, p, x)!Space
        BY <1>1 DEF K!SpaceOf
    <2>3. QED
        BY <2>1, <2>2 DEF TaskTable, K!create_task, K!States
<1> HIDE DEF made
<1>5. /\ task \in TaskTable(u, t, p, x) /\ task[0].state = "running"
      /\ \A i \in T : task[i].state # "blocked"
    BY <1>1, <1>2, <1>4 DEF TaskTable, K!States
<1>6. /\ pte \in [K(u, t, p, x)!Space -> [K(u, t, p, x)!Va -> K(u, t, p, x)!Entries]]
      /\ pmp \subseteq K(u, t, p, x)!Frames
    BY LazyTypes DEF K!Init
<1>7. readq \in Seq(T) /\ waitq \in Seq(T) /\ Mem(readq) = {} /\ Mem(waitq) = {}
      /\ Once(readq) /\ Once(waitq)
    BY <1>2 DEF Mem, Once
<1>8. ram \in [K(u, t, p, x)!Frames -> Int]
    BY <1>2
<1>9. K(u, t, p, x)!TypeOK
    <2>1. mtip \in BOOLEAN
        BY <1>2
    <2>2. QED
        BY <1>1, <1>2, <1>3, <1>5, <1>6, <1>7, <1>8, <2>1 DEF K!TypeOK, TaskTable
<1>10. Queued(T, task, readq, waitq)
    BY <1>5, <1>7 DEF Queued
<1>11. QED
    BY <1>1, <1>2, <1>5, <1>9, <1>10 DEF SleepInv, SchedInv

\* A call with a number that handle_syscall() does not know.
UnknownCall(u, t, p, x, number) ==
    /\ K(u, t, p, x)!Executes /\ K(u, t, p, x)!Quiet
    /\ hart' = K(u, t, p, x)!Stepped(K(u, t, p, x)!Call(number, 0, 0))
    /\ UNCHANGED <<power, mtip, curr, mode, satp, task, pmp, pte, ram, readq, waitq>>

\* What user code does, and the handlers that do not schedule.
LEMMA QuietSteps ==
    ASSUME NEW u, NEW t, NEW p, NEW x, Fits(u, t, p, x), K(u, t, p, x)!TypeOK,
           \/ K(u, t, p, x)!UserLoad \/ K(u, t, p, x)!UserStore \/ K(u, t, p, x)!Expire
           \/ K(u, t, p, x)!PageFault \/ K(u, t, p, x)!SysWrite
           \/ \E number \in 0 .. 33 : UnknownCall(u, t, p, x, number)
           \/ K(u, t, p, x)!Quiet /\ K(u, t, p, x)!PowerOff
    PROVE  K(u, t, p, x)!TypeOK' /\ UNCHANGED <<curr, mode, satp, task, readq, waitq>>
<1>1. CASE K(u, t, p, x)!UserLoad
    BY <1>1, UserLoadTypes DEF K!UserLoad, K!sched, K!queues
<1>2. CASE K(u, t, p, x)!UserStore
    BY <1>2, UserStoreTypes DEF K!UserStore, K!sched, K!queues
<1>3. CASE K(u, t, p, x)!Expire
    BY <1>3, ExpireTypes DEF K!Expire, K!sched, K!queues
<1>4. CASE K(u, t, p, x)!PageFault
    BY <1>4, PageFaultTypes
<1>5. CASE K(u, t, p, x)!SysWrite
    BY <1>5, SysWriteTypes
<1>6. ASSUME NEW number \in 0 .. 33, UnknownCall(u, t, p, x, number)
      PROVE  K(u, t, p, x)!TypeOK' /\ UNCHANGED <<curr, mode, satp, task, readq, waitq>>
    <2>1. hart' \in K(u, t, p, x)!Registers
        BY <1>6, CallType DEF UnknownCall
    <2>2. out' \in Int
        BY <1>6 DEF UnknownCall, K!Quiet, K!NoChar
    <2>3. QED
        BY <1>6, <2>1, <2>2, ReturnTypes DEF UnknownCall
<1>7. CASE K(u, t, p, x)!Quiet /\ K(u, t, p, x)!PowerOff
    BY <1>7, PowerOffTypes DEF K!PowerOff, K!sched, K!queues
<1>8. QED
    BY <1>1, <1>2, <1>3, <1>4, <1>5, <1>6, <1>7

LEMMA NextSleepInv ==
    ASSUME NEW u, NEW t, NEW p, NEW x, Fits(u, t, p, x), SleepInv(u, t, p, x),
           K(u, t, p, x)!Next
    PROVE  SleepInv(u, t, p, x)'
<1>1. K(u, t, p, x)!TypeOK /\ SchedInv(u, t, p, x)
      /\ Queued(K(u, t, p, x)!Task, task, readq, waitq)
    BY DEF SleepInv, SchedInv
<1>2. CASE \/ K(u, t, p, x)!UserLoad \/ K(u, t, p, x)!UserStore \/ K(u, t, p, x)!Expire
           \/ K(u, t, p, x)!PageFault \/ K(u, t, p, x)!SysWrite \/ K(u, t, p, x)!SysUnknown
           \/ K(u, t, p, x)!UnknownException
    <2>1. K(u, t, p, x)!SysUnknown => UnknownCall(u, t, p, x, 33)
        BY DEF K!SysUnknown, UnknownCall, K!CLONE, K!sched, K!spaces, K!queues
    <2>2. QED
        BY <1>1, <1>2, <2>1, QuietSteps, SleepInvKept DEF K!UnknownException
<1>3. CASE K(u, t, p, x)!Timer
    <2>1. SchedInv(u, t, p, x)' /\ Rescheduled(u, t, p, x, task, hart)
          /\ UNCHANGED <<readq, waitq>>
        BY <1>1, <1>3, TimerReschedules
    <2>2. QED
        BY <1>1, <2>1, SleepInvRescheduled
<1>4. CASE K(u, t, p, x)!ExternalInterrupt
    BY <1>4, InterruptServes
<1>5. CASE K(u, t, p, x)!SysRead
    BY <1>5, SysReadReschedules
<1>6. CASE K(u, t, p, x)!SysExit
    <2>1. PICK rs \in K(u, t, p, x)!Registers :
            Rescheduled(u, t, p, x, WithState("terminated"), rs)
        BY <1>1, <1>6, SysExitReschedules
    <2>2. SchedInv(u, t, p, x)' /\ UNCHANGED <<readq, waitq>> /\ curr # -1
        BY <1>1, <1>6, SysExitReschedules
    <2>3. \A i \in K(u, t, p, x)!Task :
            WithState("terminated")[i].state = "blocked" <=> task[i].state = "blocked"
        BY <1>1, <2>2, WithStateTyped DEF K!States, SchedInv
    <2>4. Queued(K(u, t, p, x)!Task, WithState("terminated"), readq', waitq')
        BY <1>1, <2>2, <2>3 DEF Queued
    <2>5. QED
        BY <2>1, <2>2, <2>4, SleepInvRescheduled
<1>7. QED
    BY <1>2, <1>3, <1>4, <1>5, <1>6 DEF K!Next

\* Step 11 is K.
LEMMA Same11 ==
    /\ S11!Init <=> K(UserNum, UserNum, PcNum, FALSE)!Init
    /\ S11!Next <=> K(UserNum, UserNum, PcNum, FALSE)!Next
    /\ S11!TypeOK <=> K(UserNum, UserNum, PcNum, FALSE)!TypeOK
    /\ S11!SleepersAreQueued <=> K(UserNum, UserNum, PcNum, FALSE)!SleepersAreQueued
BY DEF S11!Task, S11!Idle, S11!Space, S11!Pc, S11!Frames, S11!Text, S11!Data, S11!Va,
        S11!NoVa, S11!Kinds, S11!Flags, S11!Image, S11!sched, S11!spaces, S11!queues,
        S11!NoChar, S11!Quiet, S11!Booted, S11!SpaceOf, S11!Registers, S11!Zeroed, S11!InUser,
        S11!Translates, S11!Opened, S11!Reaches, S11!Executes, S11!Access, S11!PageFaults,
        S11!AccessFaults, S11!Stepped, S11!Call, S11!UserStore, S11!UserLoad, S11!Expire,
        S11!PowerOff, S11!Buffers, S11!States, S11!Entries, S11!TypeOK, S11!WRITE, S11!EXIT,
        S11!READ, S11!CLONE, S11!WAITPID, S11!allocate_pa, S11!setup_pte, S11!setup_va,
        S11!setup_pmp, S11!HasPhdr, S11!va_to_pa, S11!load_program_segment,
        S11!handle_page_fault, S11!handle_write, S11!Dist, S11!Runnable, S11!pickup_next_task,
        S11!enter_idle, S11!handle_timer_interrupt, S11!PageFault, S11!SysWrite,
        S11!create_task, S11!start_schedule, S11!PageTables, S11!PmpRegions, S11!Init,
        S11!UnknownException, S11!get_current_task, S11!schedule, S11!UserMode, S11!Timer,
        S11!task_dequeue, S11!Served, S11!dequeue, S11!ReadiedBy, S11!BufferOf,
        S11!retrieve_read_data, S11!WildStore, S11!Interrupted, S11!ExternalInterrupt,
        S11!block_current_task, S11!task_enqueue, S11!enqueue, S11!SysRead, S11!SysUnknown,
        S11!terminate_current_task, S11!SysExit, S11!Next, S11!SleepersAreQueued, S11!CtrlC,
        K!Task, K!Idle, K!Space, K!Pc, K!Frames, K!Text, K!Data, K!Va, K!NoVa, K!Kinds,
        K!Flags, K!Image, K!sched, K!spaces, K!queues, K!NoChar, K!Quiet, K!Booted, K!SpaceOf,
        K!Registers, K!Zeroed, K!InUser, K!Translates, K!Opened, K!Reaches, K!Executes,
        K!Access, K!PageFaults, K!AccessFaults, K!Stepped, K!Call, K!UserStore, K!UserLoad,
        K!Expire, K!PowerOff, K!Buffers, K!States, K!Entries, K!TypeOK, K!WRITE, K!EXIT,
        K!READ, K!CLONE, K!WAITPID, K!allocate_pa, K!setup_pte, K!setup_va, K!setup_pmp,
        K!HasPhdr, K!va_to_pa, K!load_program_segment, K!handle_page_fault, K!handle_write,
        K!Dist, K!Runnable, K!pickup_next_task, K!enter_idle, K!handle_timer_interrupt,
        K!PageFault, K!SysWrite, K!create_task, K!start_schedule, K!PageTables, K!PmpRegions,
        K!Init, K!UnknownException, K!get_current_task, K!schedule, K!UserMode, K!Timer,
        K!task_dequeue, K!Served, K!dequeue, K!ReadiedBy, K!BufferOf, K!retrieve_read_data,
        K!WildStore, K!Interrupted, K!ExternalInterrupt, K!block_current_task, K!task_enqueue,
        K!enqueue, K!SysRead, K!SysUnknown, K!terminate_current_task, K!SysExit, K!Next,
        K!SleepersAreQueued, K!CtrlC

-----------------------------------------------------------------------------
(* Step 10. *)

LEMMA Same10 ==
    /\ S10!Init <=> K(UserNum, UserNum, PcNum, FALSE)!Init
    /\ S10!TypeOK <=> K(UserNum, UserNum, PcNum, FALSE)!TypeOK
    /\ S10!UserLoad <=> K(UserNum, UserNum, PcNum, FALSE)!UserLoad
    /\ S10!UserStore <=> K(UserNum, UserNum, PcNum, FALSE)!UserStore
    /\ S10!Expire <=> K(UserNum, UserNum, PcNum, FALSE)!Expire
    /\ S10!PageFault <=> K(UserNum, UserNum, PcNum, FALSE)!PageFault
    /\ S10!SysWrite <=> K(UserNum, UserNum, PcNum, FALSE)!SysWrite
    /\ S10!Quiet /\ S10!PowerOff
         <=> K(UserNum, UserNum, PcNum, FALSE)!Quiet /\ K(UserNum, UserNum, PcNum, FALSE)!PowerOff
    /\ S10!SysUnknown <=> UnknownCall(UserNum, UserNum, PcNum, FALSE, 0)
BY DEF UnknownCall, S10!SysUnknown,
        S10!Task, S10!Idle, S10!Space, S10!Pc, S10!Frames, S10!Text, S10!Data, S10!Va,
        S10!NoVa, S10!Kinds, S10!Flags, S10!Image, S10!sched, S10!spaces, S10!queues,
        S10!NoChar, S10!Quiet, S10!Booted, S10!SpaceOf, S10!Registers, S10!Zeroed, S10!InUser,
        S10!Translates, S10!Opened, S10!Reaches, S10!Executes, S10!Access, S10!PageFaults,
        S10!AccessFaults, S10!Stepped, S10!Call, S10!UserStore, S10!UserLoad, S10!Expire,
        S10!PowerOff, S10!Buffers, S10!States, S10!Entries, S10!TypeOK, S10!WRITE, S10!EXIT,
        S10!READ, S10!CLONE, S10!WAITPID, S10!allocate_pa, S10!setup_pte, S10!setup_va,
        S10!setup_pmp, S10!HasPhdr, S10!va_to_pa, S10!load_program_segment,
        S10!handle_page_fault, S10!handle_write, S10!Dist, S10!Runnable, S10!pickup_next_task,
        S10!enter_idle, S10!handle_timer_interrupt, S10!PageFault, S10!SysWrite,
        S10!create_task, S10!start_schedule, S10!PageTables, S10!PmpRegions, S10!Init,
        K!Task, K!Idle, K!Space, K!Pc, K!Frames, K!Text, K!Data, K!Va, K!NoVa, K!Kinds,
        K!Flags, K!Image, K!sched, K!spaces, K!queues, K!NoChar, K!Quiet, K!Booted, K!SpaceOf,
        K!Registers, K!Zeroed, K!InUser, K!Translates, K!Opened, K!Reaches, K!Executes,
        K!Access, K!PageFaults, K!AccessFaults, K!Stepped, K!Call, K!UserStore, K!UserLoad,
        K!Expire, K!PowerOff, K!Buffers, K!States, K!Entries, K!TypeOK, K!WRITE, K!EXIT,
        K!READ, K!CLONE, K!WAITPID, K!allocate_pa, K!setup_pte, K!setup_va, K!setup_pmp,
        K!HasPhdr, K!va_to_pa, K!load_program_segment, K!handle_page_fault, K!handle_write,
        K!Dist, K!Runnable, K!pickup_next_task, K!enter_idle, K!handle_timer_interrupt,
        K!PageFault, K!SysWrite, K!create_task, K!start_schedule, K!PageTables, K!PmpRegions,
        K!Init

\* schedule() of step 10 differs only when the kernel idles, or would pick a task
\* that was the current one and is ready.
LEMMA Schedule10 ==
    ASSUME curr \in K(UserNum, UserNum, PcNum, FALSE)!Task, curr # -1, mode = "U",
           NEW tasks \in TaskTable(UserNum, UserNum, PcNum, FALSE),
           tasks[curr].state \in {"running", "terminated"},
           NEW rs \in K(UserNum, UserNum, PcNum, FALSE)!Registers,
           S10!schedule(tasks, rs)
    PROVE  K(UserNum, UserNum, PcNum, FALSE)!schedule(tasks, rs)
<1> DEFINE T == K(UserNum, UserNum, PcNum, FALSE)!Task
           saved == [tasks EXCEPT ![curr].regs = rs]
           picked == K(UserNum, UserNum, PcNum, FALSE)!pickup_next_task(saved)
           copy == [i \in T |-> IF i \in {curr} \ {-1}
                                THEN [tasks[i] EXCEPT !.regs = rs] ELSE tasks[i]]
           Chosen(sv) ==
             IF K(UserNum, UserNum, PcNum, FALSE)!pickup_next_task(sv) = {}
             THEN K(UserNum, UserNum, PcNum, FALSE)!enter_idle /\ task' = sv /\ hart' = rs
             ELSE \E next \in K(UserNum, UserNum, PcNum, FALSE)!pickup_next_task(sv) :
                  /\ curr' = next
                  /\ task' = [i \in T |->
                         IF i = next THEN [sv[i] EXCEPT !.state = "running"]
                         ELSE IF i \in {curr} \ {-1} /\ sv[i].state = "running"
                         THEN [sv[i] EXCEPT !.state = "ready"] ELSE sv[i]]
                  /\ hart' = sv[next].regs /\ satp' = sv[next].space
                  /\ mode' = "U"
<1>0. K(UserNum, UserNum, PcNum, FALSE)!schedule(tasks, rs) <=> Chosen(copy)
    BY DEF K!schedule, K!get_current_task, K!Idle, K!UserMode
<1>1. copy = saved
    BY DEF TaskTable
<1>2. saved \in TaskTable(UserNum, UserNum, PcNum, FALSE)
      /\ saved[curr].state = tasks[curr].state
    BY DEF TaskTable
<1>3. \A next \in picked : next \in T /\ Runs(saved[next].state)
    BY DEF K!pickup_next_task, K!Runnable, Runs
<1>4. \/ /\ picked = {} /\ K(UserNum, UserNum, PcNum, FALSE)!enter_idle
         /\ task' = saved /\ hart' = rs
      \/ \E next \in picked :
         /\ curr' = next
         /\ task' = IF next = curr THEN saved
                    ELSE [saved EXCEPT ![next].state = "running",
                             ![curr].state = IF @ = "running" THEN "ready" ELSE @]
         /\ hart' = saved[next].regs /\ satp' = saved[next].space
         /\ mode' = mode
    BY DEF S10!schedule, S10!pickup_next_task, S10!Runnable, S10!Dist, S10!Task, S10!enter_idle,
           S10!Idle, K!pickup_next_task, K!Runnable, K!Dist, K!Task, K!enter_idle, K!Idle
<1> HIDE DEF saved, picked, copy, Chosen
<1>5. ASSUME NEW next \in picked,
             task' = IF next = curr THEN saved
                     ELSE [saved EXCEPT ![next].state = "running",
                              ![curr].state = IF @ = "running" THEN "ready" ELSE @]
      PROVE  task' = [i \in T |->
                IF i = next THEN [saved[i] EXCEPT !.state = "running"]
                ELSE IF i \in {curr} \ {-1} /\ saved[i].state = "running"
                THEN [saved[i] EXCEPT !.state = "ready"] ELSE saved[i]]
    <2>1. next \in T /\ Runs(saved[next].state)
        BY <1>3
    <2>2. CASE next = curr
        <3>1. saved[curr].state = "running"
            BY <1>2, <2>1, <2>2 DEF Runs
        <3>2. [saved[curr] EXCEPT !.state = "running"] = saved[curr]
            BY <1>2, <3>1 DEF TaskTable
        <3>3. QED
            BY <1>2, <1>5, <2>2, <3>2 DEF TaskTable
    <2>3. CASE next # curr
        BY <1>2, <1>5, <2>1, <2>3 DEF TaskTable
    <2>4. QED
        BY <2>2, <2>3
<1>6. Chosen(saved)
    BY <1>4, <1>5 DEF Chosen, picked
<1>7. QED
    BY <1>0, <1>1, <1>6

LEMMA ExitTypes ==
    ASSUME NEW u, NEW t, NEW p, NEW x, Fits(u, t, p, x), K(u, t, p, x)!TypeOK, curr # -1
    PROVE  /\ K(u, t, p, x)!Call(32, 0, 0) \in K(u, t, p, x)!Registers
           /\ WithState("terminated") \in TaskTable(u, t, p, x)
           /\ WithState("terminated")[curr].state = "terminated"
<1>1. K(u, t, p, x)!Call(32, 0, 0) \in K(u, t, p, x)!Registers
    BY CallType
<1>2. curr \in K(u, t, p, x)!Task
    BY TaskTyped
<1>3. QED
    BY <1>1, <1>2, WithStateTyped DEF K!States

LEMMA NextSchedInv10 ==
    ASSUME Fits(UserNum, UserNum, PcNum, FALSE), SchedInv(UserNum, UserNum, PcNum, FALSE),
           S10!Next
    PROVE  SchedInv(UserNum, UserNum, PcNum, FALSE)'
<1>1. K(UserNum, UserNum, PcNum, FALSE)!TypeOK
    BY DEF SchedInv
<1>2. CASE \/ S10!UserLoad \/ S10!UserStore \/ S10!Expire \/ S10!PageFault
           \/ S10!UnknownException \/ S10!SysWrite \/ S10!SysUnknown
    <2>1. \/ K(UserNum, UserNum, PcNum, FALSE)!UserLoad
          \/ K(UserNum, UserNum, PcNum, FALSE)!UserStore
          \/ K(UserNum, UserNum, PcNum, FALSE)!Expire
          \/ K(UserNum, UserNum, PcNum, FALSE)!PageFault
          \/ K(UserNum, UserNum, PcNum, FALSE)!SysWrite
          \/ \E number \in 0 .. 33 : UnknownCall(UserNum, UserNum, PcNum, FALSE, number)
          \/ /\ K(UserNum, UserNum, PcNum, FALSE)!Quiet
             /\ K(UserNum, UserNum, PcNum, FALSE)!PowerOff
        <3>1. 0 \in 0 .. 33
            OBVIOUS
        <3>2. QED
            BY <1>2, <3>1, Same10 DEF S10!UnknownException
    <2>2. QED
        <3>1. K(UserNum, UserNum, PcNum, FALSE)!TypeOK' /\ UNCHANGED <<curr, mode, task>>
            BY <1>1, <2>1, QuietSteps
        <3>2. QED
            BY <3>1, SchedInvKept
<1>3. ASSUME NEW tasks \in TaskTable(UserNum, UserNum, PcNum, FALSE),
             NEW rs \in K(UserNum, UserNum, PcNum, FALSE)!Registers,
             curr # -1, tasks[curr].state \in {"running", "terminated"},
             S10!schedule(tasks, rs), mtip' \in BOOLEAN, out' \in Int,
             UNCHANGED <<power, pmp, pte, ram, readq, waitq>>
      PROVE  SchedInv(UserNum, UserNum, PcNum, FALSE)'
    <2>1. curr \in K(UserNum, UserNum, PcNum, FALSE)!Task /\ mode = "U"
        BY <1>1, <1>3, TaskTyped DEF SchedInv
    <2>2. Rescheduled(UserNum, UserNum, PcNum, FALSE, tasks, rs)
        <3>1. K(UserNum, UserNum, PcNum, FALSE)!schedule(tasks, rs)
            BY <1>3, <2>1, Schedule10
        <3>2. /\ curr \in K(UserNum, UserNum, PcNum, FALSE)!Task \cup {-1}
              /\ satp \in K(UserNum, UserNum, PcNum, FALSE)!Space
            BY <1>1, TaskTyped
        <3>3. QED
            BY <3>1, <3>2, ScheduleEffect
    <2>3. QED
        <3>1. /\ power' \in {"on", "off"}
              /\ ram' \in [K(UserNum, UserNum, PcNum, FALSE)!Frames -> Int]
              /\ readq' \in Seq(K(UserNum, UserNum, PcNum, FALSE)!Task)
              /\ waitq' \in Seq(K(UserNum, UserNum, PcNum, FALSE)!Task)
            BY <1>1, <1>3, TaskTyped
        <3>2. QED
            BY <1>1, <1>3, <2>2, <3>1, SchedInvRescheduled
<1>4. CASE S10!Timer
    <2>1. /\ mtip' \in BOOLEAN /\ out' \in Int /\ out' = -1
          /\ UNCHANGED <<power, pmp, pte, ram, readq, waitq>>
        <3>1. mtip' = FALSE /\ out' = -1
            BY <1>4 DEF S10!Timer, S10!Quiet, S10!NoChar, S10!handle_timer_interrupt
        <3>2. mtip' \in BOOLEAN
            BY <3>1
        <3>3. QED
            BY <1>4, <3>1, <3>2 DEF S10!Timer, S10!spaces, S10!queues
    <2>2. CASE curr = -1
        <3>1. UNCHANGED <<hart, curr, mode, satp, task>>
            BY <1>4, <2>2 DEF S10!Timer, S10!Idle, S10!sched
        <3>2. K(UserNum, UserNum, PcNum, FALSE)!TypeOK'
            BY <1>1, <2>1, <3>1 DEF K!TypeOK
        <3>3. QED
            BY <3>1, <3>2, SchedInvKept
    <2>3. CASE curr # -1
        <3>1. S10!schedule(task, hart)
            BY <1>4, <2>3 DEF S10!Timer, S10!Idle
        <3>2. task[curr].state = "running"
            BY <2>3 DEF SchedInv
        <3>3. QED
            BY <1>1, <1>3, <2>1, <2>3, <3>1, <3>2, TaskTyped
    <2>4. QED
        BY <2>2, <2>3
<1>5. CASE S10!SysExit
    <2> DEFINE rs == K(UserNum, UserNum, PcNum, FALSE)!Call(32, 0, 0)
    <2>1. out' \in Int /\ UNCHANGED <<power, mtip, pmp, pte, ram, readq, waitq>>
        BY <1>5 DEF S10!SysExit, S10!Quiet, S10!NoChar, S10!spaces, S10!queues
    <2>2. curr # -1
        BY <1>5 DEF S10!SysExit, S10!Executes, S10!InUser, S10!Idle
    <2>3. S10!schedule(WithState("terminated"), rs)
        BY <1>5 DEF S10!SysExit, S10!terminate_current_task, WithState, S10!EXIT, S10!Call,
            K!Call
    <2>4. rs \in K(UserNum, UserNum, PcNum, FALSE)!Registers
        BY <1>1, <2>2, ExitTypes
    <2>5. /\ WithState("terminated") \in TaskTable(UserNum, UserNum, PcNum, FALSE)
          /\ WithState("terminated")[curr].state = "terminated"
        BY <1>1, <2>2, ExitTypes
    <2>6. mtip' \in BOOLEAN
        BY <1>1, <2>1, TaskTyped
    <2> HIDE DEF rs
    <2>7. QED
        BY <1>3, <2>1, <2>2, <2>3, <2>4, <2>5, <2>6
<1>6. QED
    BY <1>2, <1>4, <1>5 DEF S10!Next

-----------------------------------------------------------------------------
(* Step 12. *)

\* Its kernel, with parameters.
J(u, t, p, x) == INSTANCE Step12 WITH
    UserNum <- u, TaskNum <- t, PcNum <- p, XOnly <- x

LEMMA Same12 ==
    ASSUME NEW u, NEW t, NEW p, NEW x
    PROVE  /\ J(u, t, p, x)!Init <=> K(u, t, p, x)!Init
           /\ J(u, t, p, x)!UserLoad <=> K(u, t, p, x)!UserLoad
           /\ J(u, t, p, x)!UserStore <=> K(u, t, p, x)!UserStore
           /\ J(u, t, p, x)!Expire <=> K(u, t, p, x)!Expire
           /\ J(u, t, p, x)!Timer <=> K(u, t, p, x)!Timer
           /\ J(u, t, p, x)!PageFault <=> K(u, t, p, x)!PageFault
           /\ J(u, t, p, x)!SysWrite <=> K(u, t, p, x)!SysWrite
           /\ J(u, t, p, x)!UnknownException <=> K(u, t, p, x)!UnknownException
           /\ J(u, t, p, x)!SysRead <=> K(u, t, p, x)!SysRead
           /\ J(u, t, p, x)!SysUnknown <=> UnknownCall(u, t, p, x, 2)
BY DEF UnknownCall, J!SysUnknown, J!task_enqueue_to_root, K!task_enqueue, K!enqueue, K!UserMode,
        J!Task, J!Idle, J!Space, J!Pc, J!Frames, J!Text, J!Data, J!Va, J!NoVa, J!Kinds,
        J!Flags, J!Image, J!sched, J!spaces, J!queues, J!NoChar, J!Quiet, J!Booted, J!SpaceOf,
        J!Registers, J!Zeroed, J!InUser, J!Translates, J!Opened, J!Reaches, J!Executes,
        J!Access, J!PageFaults, J!AccessFaults, J!Stepped, J!Call, J!UserStore, J!UserLoad,
        J!Expire, J!PowerOff, J!Buffers, J!States, J!Entries, J!TypeOK, J!WRITE, J!EXIT,
        J!READ, J!CLONE, J!WAITPID, J!allocate_pa, J!setup_pte, J!setup_va, J!setup_pmp,
        J!HasPhdr, J!va_to_pa, J!load_program_segment, J!handle_page_fault, J!handle_write,
        J!Dist, J!Runnable, J!pickup_next_task, J!enter_idle, J!handle_timer_interrupt,
        J!PageFault, J!SysWrite, J!create_task, J!start_schedule, J!PageTables, J!PmpRegions,
        J!Init, J!UnknownException, J!get_current_task, J!schedule, J!Timer,
        J!block_current_task, J!SysRead,
        K!Task, K!Idle, K!Space, K!Pc, K!Frames, K!Text, K!Data, K!Va, K!NoVa, K!Kinds,
        K!Flags, K!Image, K!sched, K!spaces, K!queues, K!NoChar, K!Quiet, K!Booted, K!SpaceOf,
        K!Registers, K!Zeroed, K!InUser, K!Translates, K!Opened, K!Reaches, K!Executes,
        K!Access, K!PageFaults, K!AccessFaults, K!Stepped, K!Call, K!UserStore, K!UserLoad,
        K!Expire, K!PowerOff, K!Buffers, K!States, K!Entries, K!TypeOK, K!WRITE, K!EXIT,
        K!READ, K!CLONE, K!WAITPID, K!allocate_pa, K!setup_pte, K!setup_va, K!setup_pmp,
        K!HasPhdr, K!va_to_pa, K!load_program_segment, K!handle_page_fault, K!handle_write,
        K!Dist, K!Runnable, K!pickup_next_task, K!enter_idle, K!handle_timer_interrupt,
        K!PageFault, K!SysWrite, K!create_task, K!start_schedule, K!PageTables, K!PmpRegions,
        K!Init, K!UnknownException, K!get_current_task, K!schedule, K!Timer,
        K!block_current_task, K!SysRead

LEMMA Schedule12 ==
    ASSUME NEW u, NEW t, NEW p, NEW x, NEW tasks, NEW rs, J(u, t, p, x)!schedule(tasks, rs)
    PROVE  K(u, t, p, x)!schedule(tasks, rs)
BY DEF K!UserMode, J!Idle, J!Task, J!Dist, J!Runnable, J!pickup_next_task, J!enter_idle,
        J!get_current_task, J!schedule,
        K!Idle, K!Task, K!Dist, K!Runnable, K!pickup_next_task, K!enter_idle,
        K!get_current_task, K!schedule

LEMMA Interrupt12 ==
    ASSUME NEW u, NEW t, NEW p, NEW x, Fits(u, t, p, x), K(u, t, p, x)!TypeOK,
           J(u, t, p, x)!ExternalInterrupt
    PROVE  K(u, t, p, x)!ExternalInterrupt
<1> DEFINE T == K(u, t, p, x)!Task
<1>1. readq \in Seq(T) /\ DOMAIN readq = 1 .. Len(readq) /\ Len(readq) \in Nat
    <2>1. readq \in Seq(T)
        BY TaskTyped
    <2>2. QED
        BY <2>1, LenProperties
<1>2. PICK b \in Bursts :
        LET W == {J(u, t, p, x)!Served(Len(b))[i] : i \in DOMAIN J(u, t, p, x)!Served(Len(b))} IN
        /\ task' = [i \in T |-> IF i \in W
                THEN [task[i] EXCEPT !.state = "ready", !.regs.a0 = 1] ELSE task[i]]
        /\ ram' = J(u, t, p, x)!StoredFor(J(u, t, p, x)!Served(Len(b)), b)
        /\ readq' = SubSeq(readq, Len(b) + 1, Len(readq))
        /\ power' \in IF \E i \in DOMAIN b : b[i] = K(u, t, p, x)!CtrlC /\ i > Len(readq)
                      THEN {"off"}
                      ELSE IF \A i \in W : J(u, t, p, x)!Mapped(i) THEN {"on"} ELSE {"on", "off"}
    BY DEF J!ExternalInterrupt, J!Task, K!Task, J!CtrlC, K!CtrlC
<1> DEFINE n == Len(b)
           s == J(u, t, p, x)!Served(n)
           D == K(u, t, p, x)!Served(n)
           W == {s[i] : i \in DOMAIN s}
<1>3. n \in Nat
    BY LenProperties DEF Fits
<1> HIDE DEF n
<1>4. DOMAIN s = D /\ \A i \in D : s[i] = readq[i]
    BY <1>1, <1>3 DEF J!Served, K!Served
<1>5. n = Len(b) /\ W = {readq[i] : i \in D}
    BY <1>4 DEF n
<1> HIDE DEF s, D
<1>6. task' = K(u, t, p, x)!ReadiedBy(Len(b))
    <2>1. \A i \in T : (\E j \in D : readq[j] = i) <=> i \in W
        BY <1>5
    <2>2. task' = [i \in T |-> IF i \in W
                THEN [task[i] EXCEPT !.state = "ready", !.regs.a0 = 1] ELSE task[i]]
        BY <1>2, <1>5 DEF s
    <2> HIDE DEF W
    <2>3. task' = [i \in T |-> IF \E j \in D : readq[j] = i
                THEN [task[i] EXCEPT !.state = "ready", !.regs.a0 = 1] ELSE task[i]]
        BY <2>1, <2>2
    <2>4. QED
        BY <1>5, <2>3 DEF K!ReadiedBy, K!dequeue, D
<1>7. ram' = K(u, t, p, x)!retrieve_read_data(b)
    <2> DEFINE Hits(f) == {i \in DOMAIN s : J(u, t, p, x)!Mapped(s[i])
                              /\ J(u, t, p, x)!va_to_pa(s[i], task[s[i]].regs.a2) = f}
               Found(f) == {i \in D : LET v == readq[i] IN
                              K(u, t, p, x)!BufferOf(v) \in K(u, t, p, x)!Va
                              /\ K(u, t, p, x)!va_to_pa(v, K(u, t, p, x)!BufferOf(v)) = f}
               Char(S, f) == IF S = {} THEN ram[f] ELSE b[CHOOSE i \in S : \A j \in S : j <= i]
    <2>1. ASSUME NEW f \in K(u, t, p, x)!Frames
          PROVE  Hits(f) = Found(f)
        BY <1>4 DEF J!Mapped, J!Va, J!Text, J!Data, K!Va, K!Text, K!Data, J!va_to_pa,
            K!va_to_pa,
                    K!BufferOf
    <2>2. ram' = [f \in K(u, t, p, x)!Frames |-> Char(Hits(f), f)]
        <3>1. ram' = J(u, t, p, x)!StoredFor(s, b)
            BY <1>2, <1>5 DEF s
        <3>2. QED
            BY <3>1 DEF J!StoredFor, J!Frames, K!Frames
    <2>3. K(u, t, p, x)!retrieve_read_data(b) = [f \in K(u, t, p, x)!Frames |-> Char(Found(f), f)]
        BY <1>5 DEF K!retrieve_read_data, K!dequeue, D
    <2> HIDE DEF Hits, Found, Char
    <2>4. QED
        BY <2>1, <2>2, <2>3
<1>8. power' \in IF K(u, t, p, x)!Interrupted(b) THEN {"off"}
                 ELSE IF K(u, t, p, x)!WildStore(Len(b)) THEN {"on", "off"} ELSE {"on"}
    <2>1. K(u, t, p, x)!WildStore(Len(b)) <=> ~ \A i \in W : J(u, t, p, x)!Mapped(i)
        BY <1>5 DEF K!WildStore, K!dequeue, K!BufferOf, J!Mapped, J!Va, J!Text, J!Data,
                    K!Va, K!Text, K!Data, D
    <2>2. QED
        BY <1>2, <1>5, <2>1 DEF K!Interrupted, s
<1>9. QED
    BY <1>2, <1>6, <1>7, <1>8
    DEF K!ExternalInterrupt, K!task_dequeue, J!ExternalInterrupt, J!Quiet, K!Quiet,
        J!NoChar, K!NoChar, J!spaces, K!spaces

\* A system call that schedules, once the queues are set right.
LEMMA ScheduleKeepsSleepers ==
    ASSUME NEW u, NEW t, NEW p, NEW x, Fits(u, t, p, x), K(u, t, p, x)!TypeOK,
           NEW tasks \in TaskTable(u, t, p, x), NEW rs \in K(u, t, p, x)!Registers,
           J(u, t, p, x)!schedule(tasks, rs),
           Queued(K(u, t, p, x)!Task, tasks, readq', waitq'),
           readq' \in Seq(K(u, t, p, x)!Task), waitq' \in Seq(K(u, t, p, x)!Task),
           ram' \in [K(u, t, p, x)!Frames -> Int], out' \in Int,
           UNCHANGED <<power, mtip, pmp, pte>>
    PROVE  SleepInv(u, t, p, x)'
<1>1. K(u, t, p, x)!schedule(tasks, rs)
    BY Schedule12
<1>2. Rescheduled(u, t, p, x, tasks, rs)
    BY <1>1, TaskTyped, ScheduleEffect
<1>3. SchedInv(u, t, p, x)'
    <2>1. power' \in {"on", "off"} /\ mtip' \in BOOLEAN
        BY TaskTyped
    <2>2. QED
        BY <1>2, <2>1, SchedInvRescheduled
<1>4. QED
    BY <1>2, <1>3, SleepInvRescheduled

LEMMA StoredForTypes ==
    ASSUME NEW u, NEW t, NEW p, NEW x, Fits(u, t, p, x), K(u, t, p, x)!TypeOK,
           NEW w \in K(u, t, p, x)!Task, NEW code \in Int
    PROVE  J(u, t, p, x)!StoredFor(<<w>>, <<code>>) \in [K(u, t, p, x)!Frames -> Int]
<1> DEFINE Hits(f) == {i \in {1} : J(u, t, p, x)!Mapped(w)
                              /\ J(u, t, p, x)!va_to_pa(w, task[w].regs.a2) = f}
           Char(S, f) == IF S = {} THEN ram[f] ELSE <<code>>[CHOOSE i \in S : \A j \in S : j <= i]
<1>1. J(u, t, p, x)!StoredFor(<<w>>, <<code>>) = [f \in K(u, t, p, x)!Frames |-> Char(Hits(f), f)]
    <2>1. DOMAIN <<w>> = {1} /\ <<w>>[1] = w
        OBVIOUS
    <2>2. \A f : {i \in DOMAIN <<w>> : J(u, t, p, x)!Mapped(<<w>>[i])
                    /\ J(u, t, p, x)!va_to_pa(<<w>>[i], task[<<w>>[i]].regs.a2) = f} = Hits(f)
        BY <2>1
    <2> HIDE DEF Hits
    <2>3. QED
        BY <2>2 DEF J!StoredFor, J!Frames, K!Frames
<1>2. ASSUME NEW f \in K(u, t, p, x)!Frames
      PROVE  Char(Hits(f), f) \in Int
    <2>1. Hits(f) = {} \/ Hits(f) = {1}
        OBVIOUS
    <2>2. (CHOOSE i \in {1} : \A j \in {1} : j <= i) = 1
        OBVIOUS
    <2>3. ram[f] \in Int
        BY TaskTyped
    <2> HIDE DEF Hits
    <2>4. QED
        BY <2>1, <2>2, <2>3
<1>3. QED
    BY <1>1, <1>2

\* The result of a call.
LEMMA ResultTypes ==
    ASSUME NEW u, NEW t, NEW p, NEW x, NEW rs \in K(u, t, p, x)!Registers, NEW result \in Int
    PROVE  [rs EXCEPT !.a0 = result] \in K(u, t, p, x)!Registers
BY DEF K!Registers

LEMMA ChildTypes ==
    ASSUME NEW u, NEW t, NEW p, NEW x, NEW rs \in K(u, t, p, x)!Registers,
           NEW fn \in K(u, t, p, x)!Pc, NEW stack \in Int
    PROVE  [rs EXCEPT !.pc = fn, !.sp = stack, !.a0 = 0] \in K(u, t, p, x)!Registers
<1> DEFINE a == [rs EXCEPT !.pc = fn]
           b == [a EXCEPT !.sp = stack]
<1>1. a \in K(u, t, p, x)!Registers
    BY DEF K!Registers
<1>2. b \in K(u, t, p, x)!Registers
    <2> HIDE DEF a
    <2>1. QED
        BY <1>1 DEF K!Registers
<1>3. [b EXCEPT !.a0 = 0] \in K(u, t, p, x)!Registers
    <2> HIDE DEF b
    <2>1. QED
        BY <1>2, ResultTypes
<1>4. [rs EXCEPT !.pc = fn, !.sp = stack, !.a0 = 0] = [b EXCEPT !.a0 = 0]
    OBVIOUS
<1>5. QED
    BY <1>3, <1>4

LEMMA Clone12 ==
    ASSUME NEW u, NEW t, NEW p, NEW x, Fits(u, t, p, x), SleepInv(u, t, p, x),
           J(u, t, p, x)!SysClone
    PROVE  SleepInv(u, t, p, x)'
<1> DEFINE T == K(u, t, p, x)!Task
<1>1. K(u, t, p, x)!TypeOK /\ Queued(T, task, readq, waitq) /\ curr \in T
    BY ExecutesIsTask DEF SleepInv, SchedInv, J!SysClone, J!Executes, J!InUser, J!Idle,
        J!Reaches, J!Translates, J!Opened, J!Va, J!Text, J!Data,
        K!Executes, K!InUser, K!Idle, K!Reaches, K!Translates, K!Opened, K!Va, K!Text, K!Data
<1>2. PICK fn \in K(u, t, p, x)!Pc, stack \in StoreValues :
        LET rs == K(u, t, p, x)!Stepped(K(u, t, p, x)!Call(33, fn, stack)) IN
        IF J(u, t, p, x)!Free = {}
        THEN J(u, t, p, x)!schedule(task, [rs EXCEPT !.a0 = -1])
        ELSE LET child == CHOOSE i \in J(u, t, p, x)!Free : \A j \in J(u, t, p, x)!Free : i <= j
             IN J(u, t, p, x)!schedule(J(u, t, p, x)!clone_current_task(child, fn, stack),
                                       [rs EXCEPT !.a0 = child])
    BY DEF J!SysClone, J!Pc, J!Stepped, J!Call,
        K!Pc, K!Stepped, K!Call, J!CLONE
<1>3. /\ UNCHANGED <<power, mtip, pmp, pte, ram, readq, waitq>> /\ out' = -1
    BY DEF J!SysClone, J!Quiet, J!NoChar, J!spaces, J!queues
<1> DEFINE rs == K(u, t, p, x)!Stepped(K(u, t, p, x)!Call(33, fn, stack))
           F == J(u, t, p, x)!Free
           child == CHOOSE i \in F : \A j \in F : i <= j
           cloned == J(u, t, p, x)!clone_current_task(child, fn, stack)
<1>4. fn \in Int /\ stack \in Int
    BY DEF Fits, K!Pc
<1>5. rs \in K(u, t, p, x)!Registers
    BY <1>1, <1>4, CallType
<1>6. /\ readq' \in Seq(T) /\ waitq' \in Seq(T) /\ out' \in Int
      /\ ram' \in [K(u, t, p, x)!Frames -> Int]
    <2>1. out' \in Int
        BY <1>3
    <2>2. QED
        BY <1>1, <1>3, <2>1, TaskTyped
<1>7. ASSUME NEW tasks \in TaskTable(u, t, p, x), NEW result \in Int,
             \A i \in T : tasks[i].state = "blocked" <=> task[i].state = "blocked",
             J(u, t, p, x)!schedule(tasks, [rs EXCEPT !.a0 = result])
      PROVE  SleepInv(u, t, p, x)'
    <2>1. [rs EXCEPT !.a0 = result] \in K(u, t, p, x)!Registers
        BY <1>5, <1>7, ResultTypes
    <2>2. Queued(T, tasks, readq', waitq')
        BY <1>1, <1>3, <1>7 DEF Queued
    <2> HIDE DEF rs
    <2>3. QED
        BY <1>1, <1>3, <1>6, <1>7, <2>1, <2>2, ScheduleKeepsSleepers
<1>8. CASE F = {}
    <2>1. J(u, t, p, x)!schedule(task, [rs EXCEPT !.a0 = -1])
        BY <1>2, <1>8
    <2> HIDE DEF rs
    <2>2. -1 \in Int
        OBVIOUS
    <2>3. task \in TaskTable(u, t, p, x)
        BY <1>1, TaskTyped
    <2>4. QED
        BY <1>7, <2>1, <2>2, <2>3
<1>9. CASE F # {}
    <2>1. J(u, t, p, x)!schedule(cloned, [rs EXCEPT !.a0 = child])
        BY <1>2, <1>9
    <2>2. F \subseteq T /\ F \subseteq Nat /\ \A i \in F : task[i].state = "created"
        BY DEF J!Free, J!Task, K!Task
    <2>3. child \in F
        <3> HIDE DEF F
        <3>1. \E i \in F : \A j \in F : i <= j
            BY <1>9, <2>2, Least
        <3>2. QED
            BY <3>1
    <2> HIDE DEF child, F, rs
    <2>4. /\ cloned \in TaskTable(u, t, p, x)
          /\ \A i \in T : cloned[i].state = IF i = child THEN "ready" ELSE task[i].state
        <3> DEFINE e == [task[curr] EXCEPT !.regs.pc = fn, !.regs.sp = stack,
                                !.regs.a0 = 0, !.state = "ready"]
        <3>1. task[curr] \in [regs : K(u, t, p, x)!Registers, state : K(u, t, p, x)!States,
                               exitcode : Int, space : K(u, t, p, x)!Space]
            BY <1>1, TaskTyped DEF TaskTable
        <3>2. [task[curr].regs EXCEPT !.pc = fn, !.sp = stack, !.a0 = 0]
                \in K(u, t, p, x)!Registers
            BY <1>4, <3>1, ChildTypes
        <3>3. e = [task[curr] EXCEPT
                     !.regs = [task[curr].regs EXCEPT !.pc = fn, !.sp = stack, !.a0 = 0],
                     !.state = "ready"]
            BY <3>1, <3>2 DEF K!Registers
        <3>4. e \in [regs : K(u, t, p, x)!Registers, state : K(u, t, p, x)!States,
                               exitcode : Int, space : K(u, t, p, x)!Space] /\ e.state = "ready"
            <4> HIDE DEF e
            <4>1. QED
                BY <3>1, <3>2, <3>3 DEF K!States
        <3>5. cloned = [task EXCEPT ![child] = e]
            BY DEF J!clone_current_task
        <3> HIDE DEF e, cloned
        <3>6. child \in T /\ task \in TaskTable(u, t, p, x)
            BY <1>1, <2>2, <2>3, TaskTyped
        <3>7. QED
            BY <3>4, <3>5, <3>6 DEF TaskTable
    <2>5. \A i \in T : cloned[i].state = "blocked" <=> task[i].state = "blocked"
        BY <2>2, <2>3, <2>4
    <2>6. child \in Int
        <3>1. child \in Nat
            BY <2>2, <2>3
        <3>2. QED
            BY <3>1
    <2> HIDE DEF cloned
    <2>7. QED
        BY <1>7, <2>1, <2>4, <2>5, <2>6
<1>10. QED
    BY <1>8, <1>9

\* The task table after exit(): of the current task, and of the joiner it wakes.
EndedTask(code) == [task EXCEPT ![curr].state = "terminated", ![curr].exitcode = code]
WokenBy(code, w, a0) == [EndedTask(code) EXCEPT ![w].state = "ready", ![w].regs.a0 = a0]

LEMMA ExitTables ==
    ASSUME NEW u, NEW t, NEW p, NEW x, Fits(u, t, p, x), K(u, t, p, x)!TypeOK,
           curr \in K(u, t, p, x)!Task, NEW code \in Int
    PROVE  /\ EndedTask(code) \in TaskTable(u, t, p, x)
           /\ \A i \in K(u, t, p, x)!Task :
                 EndedTask(code)[i].state = IF i = curr THEN "terminated" ELSE task[i].state
           /\ \A w \in K(u, t, p, x)!Task, a0 \in Int :
                 /\ WokenBy(code, w, a0) \in TaskTable(u, t, p, x)
                 /\ \A i \in K(u, t, p, x)!Task :
                       WokenBy(code, w, a0)[i].state
                           = IF i = w THEN "ready" ELSE EndedTask(code)[i].state
<1> DEFINE T == K(u, t, p, x)!Task
           Row == [regs : K(u, t, p, x)!Registers, state : K(u, t, p, x)!States,
                   exitcode : Int, space : K(u, t, p, x)!Space]
<1>1. task \in [T -> Row]
    BY TaskTyped DEF TaskTable
<1>2. EndedTask(code) \in [T -> Row]
      /\ \A i \in T : EndedTask(code)[i].state = IF i = curr THEN "terminated" ELSE task[i].state
    <2> DEFINE e == [task[curr] EXCEPT !.state = "terminated", !.exitcode = code]
    <2>1. e \in Row /\ e.state = "terminated"
        BY <1>1 DEF K!States
    <2>2. EndedTask(code) = [task EXCEPT ![curr] = e]
        BY <1>1 DEF EndedTask
    <2> HIDE DEF e, Row
    <2>3. QED
        BY <1>1, <2>1, <2>2
<1>3. ASSUME NEW w \in T, NEW a0 \in Int
      PROVE  /\ WokenBy(code, w, a0) \in [T -> Row]
             /\ \A i \in T : WokenBy(code, w, a0)[i].state
                    = IF i = w THEN "ready" ELSE EndedTask(code)[i].state
    <2> DEFINE ended == EndedTask(code)
               e == [ended[w] EXCEPT !.state = "ready", !.regs.a0 = a0]
    <2>1. ended \in [T -> Row]
        BY <1>2
    <2>2. WokenBy(code, w, a0) = [ended EXCEPT ![w] = e]
        <3> HIDE DEF ended
        <3>1. QED
            BY <2>1 DEF WokenBy, ended
    <2> HIDE DEF ended
    <2> DEFINE rs == [ended[w].regs EXCEPT !.a0 = a0]
    <2>3. rs \in K(u, t, p, x)!Registers
        BY <2>1, ResultTypes
    <2>4. e = [ended[w] EXCEPT !.state = "ready", !.regs = rs]
        BY <2>1
    <2>5. e \in Row /\ e.state = "ready"
        <3> HIDE DEF rs, e
        <3>1. ended[w] \in Row
            BY <2>1
        <3>2. QED
            BY <2>3, <2>4, <3>1 DEF K!States
    <2> HIDE DEF e, Row
    <2>6. QED
        BY <2>1, <2>2, <2>5 DEF ended
<1>4. QED
    BY <1>2, <1>3 DEF TaskTable

LEMMA Exit12 ==
    ASSUME NEW u, NEW t, NEW p, NEW x, Fits(u, t, p, x), SleepInv(u, t, p, x),
           J(u, t, p, x)!SysExit
    PROVE  SleepInv(u, t, p, x)'
<1> DEFINE T == K(u, t, p, x)!Task
<1>1. /\ K(u, t, p, x)!TypeOK /\ Queued(T, task, readq, waitq) /\ curr \in T
      /\ task[curr].state = "running"
    BY ExecutesIsTask
    DEF SleepInv, SchedInv, J!SysExit, J!Executes, J!InUser, J!Idle, J!Reaches, J!Translates,
        J!Opened, J!Va, J!Text, J!Data,
        K!Executes, K!InUser, K!Idle, K!Reaches, K!Translates, K!Opened, K!Va, K!Text, K!Data
<1>2. PICK code \in StoreValues :
        IF J(u, t, p, x)!Joiners = {}
        THEN /\ J(u, t, p, x)!schedule(EndedTask(code), K(u, t, p, x)!Call(32, code, 0))
             /\ UNCHANGED <<waitq, ram>>
        ELSE LET first == CHOOSE i \in J(u, t, p, x)!Joiners :
                             \A j \in J(u, t, p, x)!Joiners : i <= j
                 w == waitq[first]
                 a0 == IF J(u, t, p, x)!Mapped(w) THEN task[w].regs.a0 ELSE -1 IN
             /\ waitq' = SubSeq(waitq, 1, first - 1) \o SubSeq(waitq, first + 1, Len(waitq))
             /\ ram' = J(u, t, p, x)!StoredFor(<<w>>, <<code>>)
             /\ J(u, t, p, x)!schedule(WokenBy(code, w, a0), K(u, t, p, x)!Call(32, code, 0))
    BY DEF J!SysExit, J!task_dequeue_from_root, J!EXIT, J!Call,
        K!Call, EndedTask, WokenBy
<1>3. UNCHANGED <<power, mtip, pmp, pte, readq>> /\ out' = -1
    BY DEF J!SysExit, J!Quiet, J!NoChar, J!spaces
<1>4. code \in Int /\ out' \in Int
    BY <1>3 DEF Fits
<1> DEFINE rs == K(u, t, p, x)!Call(32, code, 0)
<1>5. rs \in K(u, t, p, x)!Registers
    BY <1>1, <1>4, CallType
<1> HIDE DEF rs
<1>6. readq \in Seq(T) /\ waitq \in Seq(T) /\ ram \in [K(u, t, p, x)!Frames -> Int]
      /\ task \in TaskTable(u, t, p, x)
    BY <1>1, TaskTyped
<1>7. CASE J(u, t, p, x)!Joiners = {}
    <2>1. Queued(T, EndedTask(code), readq', waitq')
        BY <1>1, <1>2, <1>3, <1>4, <1>7, ExitTables DEF Queued
    <2>2. EndedTask(code) \in TaskTable(u, t, p, x)
        BY <1>1, <1>4, ExitTables
    <2>3. readq' \in Seq(T) /\ waitq' \in Seq(T) /\ ram' \in [K(u, t, p, x)!Frames -> Int]
        BY <1>2, <1>3, <1>6, <1>7
    <2>4. J(u, t, p, x)!schedule(EndedTask(code), rs)
        BY <1>2, <1>7 DEF rs
    <2>5. QED
        BY <1>1, <1>3, <1>4, <1>5, <2>1, <2>2, <2>3, <2>4, ScheduleKeepsSleepers
<1>8. CASE J(u, t, p, x)!Joiners # {}
    <2> DEFINE Js == J(u, t, p, x)!Joiners
               first == CHOOSE i \in Js : \A j \in Js : i <= j
               w == waitq[first]
               a0 == IF J(u, t, p, x)!Mapped(w) THEN task[w].regs.a0 ELSE -1
    <2>1. /\ waitq' = SubSeq(waitq, 1, first - 1) \o SubSeq(waitq, first + 1, Len(waitq))
          /\ ram' = J(u, t, p, x)!StoredFor(<<w>>, <<code>>)
          /\ J(u, t, p, x)!schedule(WokenBy(code, w, a0), rs)
        BY <1>2, <1>8 DEF rs
    <2>2. first \in DOMAIN waitq
        <3>1. Js \subseteq DOMAIN waitq
            BY DEF J!Joiners
        <3>2. Js \in SUBSET Nat
            BY <1>6, <3>1, LenProperties
        <3> HIDE DEF Js
        <3>3. \E i \in Js : \A j \in Js : i <= j
            BY <1>8, <3>2, Least DEF Js
        <3>4. first \in Js
            BY <3>3
        <3>5. QED
            BY <3>1, <3>4
    <2> HIDE DEF first, Js
    <2>3. w \in T /\ w \in Mem(waitq)
        BY <1>6, <2>2, ElementOfSeq, LenProperties DEF Mem
    <2>4. waitq' \in Seq(T) /\ Once(waitq') /\ Mem(waitq') = Mem(waitq) \ {w}
        BY <1>1, <1>6, <2>1, <2>2, RemoveMembers DEF Queued
    <2>5. a0 \in Int
        <3>1. task[w].regs.a0 \in Int
            BY <1>6, <2>3 DEF TaskTable, K!Registers
        <3>2. QED
            BY <3>1
    <2> HIDE DEF w, a0
    <2>6. ram' \in [K(u, t, p, x)!Frames -> Int]
        BY <1>1, <1>4, <2>1, <2>3, StoredForTypes
    <2>7. /\ WokenBy(code, w, a0) \in TaskTable(u, t, p, x)
          /\ \A i \in T : WokenBy(code, w, a0)[i].state
                 = IF i = w THEN "ready" ELSE IF i = curr THEN "terminated" ELSE task[i].state
        BY <1>1, <1>4, <2>3, <2>5, ExitTables
    <2>8. Queued(T, WokenBy(code, w, a0), readq', waitq')
        <3>1. w \notin Mem(readq) /\ task[curr].state # "blocked"
            BY <1>1, <2>3 DEF Queued
        <3>2. \A i \in T : WokenBy(code, w, a0)[i].state = "blocked"
                              <=> task[i].state = "blocked" /\ i # w
            BY <2>7, <3>1
        <3>3. QED
            BY <1>1, <1>3, <2>3, <2>4, <3>1, <3>2 DEF Queued
    <2>9. readq' \in Seq(T)
        BY <1>3, <1>6
    <2>10. QED
        BY <1>1, <1>3, <1>4, <1>5, <2>1, <2>4, <2>6, <2>7, <2>8, <2>9, ScheduleKeepsSleepers
<1>9. QED
    BY <1>7, <1>8

LEMMA Waitpid12 ==
    ASSUME NEW u, NEW t, NEW p, NEW x, Fits(u, t, p, x), SleepInv(u, t, p, x),
           J(u, t, p, x)!SysWaitpid
    PROVE  SleepInv(u, t, p, x)'
<1> DEFINE T == K(u, t, p, x)!Task
<1>1. /\ K(u, t, p, x)!TypeOK /\ Queued(T, task, readq, waitq) /\ curr \in T /\ curr # -1
      /\ task[curr].state = "running"
    BY ExecutesIsTask
    DEF SleepInv, SchedInv, J!SysWaitpid,
        J!Executes, J!InUser, J!Idle, J!Reaches, J!Translates, J!Opened, J!Va, J!Text, J!Data,
        K!Executes, K!InUser, K!Idle, K!Reaches, K!Translates, K!Opened, K!Va, K!Text, K!Data
<1> DEFINE Effect(pid, va, e) ==
        LET rs == K(u, t, p, x)!Stepped(K(u, t, p, x)!Call(34, pid, va)) IN
        \/ /\ pid > t \/ e.state \in {"created", "running"}
           /\ J(u, t, p, x)!schedule(task, [rs EXCEPT !.a0 = -1])
           /\ UNCHANGED <<ram, waitq>>
        \/ /\ pid <= t /\ e.state = "terminated"
           /\ J(u, t, p, x)!schedule(task,
                  IF va \in K(u, t, p, x)!Va THEN rs ELSE [rs EXCEPT !.a0 = -1])
           /\ ram' = IF va \in K(u, t, p, x)!Va
                     THEN [ram EXCEPT ![J(u, t, p, x)!va_to_pa(curr, va)] = e.exitcode] ELSE ram
           /\ UNCHANGED waitq
        \/ /\ pid <= t /\ e.state \in {"ready", "blocked"}
           /\ waitq' = Append(waitq, curr)
           /\ J(u, t, p, x)!schedule(WithState("blocked"), rs)
           /\ UNCHANGED ram
<1>2. \E pid \in 0 .. t + 1, va \in K(u, t, p, x)!Buffers :
        \E e \in J(u, t, p, x)!TaskRead(pid) : Effect(pid, va, e)
    BY DEF J!SysWaitpid, J!task_enqueue_to_root, J!block_current_task, WithState,
        J!WAITPID, J!Call, J!Stepped, J!Buffers, J!NoVa, J!Translates, J!Va, J!Text, J!Data,
        K!Call, K!Stepped, K!Buffers, K!NoVa, K!Translates, K!Va, K!Text, K!Data
<1> HIDE DEF Effect
<1>3. PICK pid \in 0 .. t + 1, va \in K(u, t, p, x)!Buffers :
        \E e \in J(u, t, p, x)!TaskRead(pid) : Effect(pid, va, e)
    BY <1>2
<1>4. PICK e \in J(u, t, p, x)!TaskRead(pid) : Effect(pid, va, e)
    BY <1>3
<1>5. UNCHANGED <<power, mtip, pmp, pte, readq>> /\ out' = -1
    BY DEF J!SysWaitpid, J!Quiet, J!NoChar, J!spaces
<1>6. out' \in Int
    BY <1>5
<1>7. readq' \in Seq(T) /\ waitq \in Seq(T) /\ ram \in [K(u, t, p, x)!Frames -> Int]
      /\ task \in TaskTable(u, t, p, x)
    BY <1>1, <1>5, TaskTyped
<1> DEFINE rs == K(u, t, p, x)!Stepped(K(u, t, p, x)!Call(34, pid, va))
           failed == [rs EXCEPT !.a0 = -1]
<1>8. rs \in K(u, t, p, x)!Registers
    <2>1. pid \in Int /\ va \in Int
        BY DEF Fits, K!Buffers, K!NoVa, K!Data
    <2>2. QED
        BY <1>1, <2>1, CallType
<1>9. failed \in K(u, t, p, x)!Registers
    <2> HIDE DEF rs
    <2>1. QED
        BY <1>8, ResultTypes
<1>10. \/ /\ J(u, t, p, x)!schedule(task, failed) \/ J(u, t, p, x)!schedule(task, rs)
         /\ \/ UNCHANGED ram
            \/ va \in K(u, t, p, x)!Va
               /\ ram' = [ram EXCEPT ![J(u, t, p, x)!va_to_pa(curr, va)] = e.exitcode]
         /\ UNCHANGED waitq
      \/ /\ waitq' = Append(waitq, curr)
         /\ J(u, t, p, x)!schedule(WithState("blocked"), rs)
         /\ UNCHANGED ram
    BY <1>4 DEF Effect
<1> HIDE DEF rs, failed
<1>11. CASE /\ J(u, t, p, x)!schedule(task, failed) \/ J(u, t, p, x)!schedule(task, rs)
           /\ \/ UNCHANGED ram
              \/ va \in K(u, t, p, x)!Va
                 /\ ram' = [ram EXCEPT ![J(u, t, p, x)!va_to_pa(curr, va)] = e.exitcode]
           /\ UNCHANGED waitq
    <2>1. e.exitcode \in Int
        <3>1. CASE pid \in T
            <4>1. e.exitcode = task[pid].exitcode
                BY <3>1 DEF J!TaskRead, J!Task, K!Task
            <4>2. QED
                BY <1>7, <3>1, <4>1 DEF TaskTable
        <3>2. CASE pid \notin T
            <4>1. e \in [state : J(u, t, p, x)!States, exitcode : StoreValues]
                BY <3>2 DEF J!TaskRead, J!Task, K!Task
            <4>2. QED
                BY <4>1 DEF Fits
        <3>3. QED
            BY <3>1, <3>2
    <2>2. ram' \in [K(u, t, p, x)!Frames -> Int]
        BY <1>7, <1>11, <2>1
    <2>3. Queued(T, task, readq', waitq')
        BY <1>1, <1>5, <1>11 DEF Queued
    <2>4. waitq' \in Seq(T)
        BY <1>7, <1>11
    <2>5. QED
        BY <1>1, <1>5, <1>6, <1>7, <1>8, <1>9, <1>11, <2>2, <2>3, <2>4, ScheduleKeepsSleepers
<1>12. CASE /\ waitq' = Append(waitq, curr)
            /\ J(u, t, p, x)!schedule(WithState("blocked"), rs)
            /\ UNCHANGED ram
    <2>1. curr \notin Mem(readq) /\ curr \notin Mem(waitq)
        BY <1>1 DEF Queued
    <2>2. waitq' \in Seq(T) /\ Mem(waitq') = Mem(waitq) \cup {curr} /\ Once(waitq')
        BY <1>1, <1>7, <1>12, <2>1, AppendMembers DEF Queued
    <2>3. /\ WithState("blocked") \in TaskTable(u, t, p, x)
          /\ \A i \in T : WithState("blocked")[i].state
                            = IF i = curr THEN "blocked" ELSE task[i].state
        BY <1>1, WithStateTyped DEF K!States
    <2>4. Queued(T, WithState("blocked"), readq', waitq')
        BY <1>1, <1>5, <2>1, <2>2, <2>3 DEF Queued
    <2>5. ram' \in [K(u, t, p, x)!Frames -> Int]
        BY <1>7, <1>12
    <2>6. QED
        BY <1>1, <1>5, <1>6, <1>7, <1>8, <1>12, <2>2, <2>3, <2>4, <2>5, ScheduleKeepsSleepers
<1>13. QED
    BY <1>10, <1>11, <1>12

LEMMA NextSleepInv12 ==
    ASSUME NEW u, NEW t, NEW p, NEW x, Fits(u, t, p, x), SleepInv(u, t, p, x),
           J(u, t, p, x)!Next
    PROVE  SleepInv(u, t, p, x)'
<1>1. K(u, t, p, x)!TypeOK
    BY DEF SleepInv, SchedInv
<1>2. CASE J(u, t, p, x)!SysUnknown
    <2>1. UnknownCall(u, t, p, x, 2)
        BY <1>2, Same12
    <2>2. QED
        BY <1>1, <2>1, QuietSteps, SleepInvKept
<1>3. CASE \/ J(u, t, p, x)!UserLoad \/ J(u, t, p, x)!UserStore \/ J(u, t, p, x)!Expire
           \/ J(u, t, p, x)!Timer \/ J(u, t, p, x)!ExternalInterrupt \/ J(u, t, p, x)!PageFault
           \/ J(u, t, p, x)!SysWrite \/ J(u, t, p, x)!UnknownException \/ J(u, t, p, x)!SysRead
    <2>1. K(u, t, p, x)!Next
        BY <1>1, <1>3, Same12, Interrupt12 DEF K!Next
    <2>2. QED
        BY <2>1, NextSleepInv
<1>4. CASE J(u, t, p, x)!SysClone
    BY <1>4, Clone12
<1>5. CASE J(u, t, p, x)!SysExit
    BY <1>5, Exit12
<1>6. CASE J(u, t, p, x)!SysWaitpid
    BY <1>6, Waitpid12
<1>7. QED
    BY <1>2, <1>3, <1>4, <1>5, <1>6 DEF J!Next

-----------------------------------------------------------------------------
(* Steps 8 and 9. *)

\* One program is current all the time.
TurnsInv(u, t, p, x) == K(u, t, p, x)!TypeOK /\ curr # -1 /\ mode = "U"

LEMMA TurnsInvKept ==
    ASSUME NEW u, NEW t, NEW p, NEW x, TurnsInv(u, t, p, x), K(u, t, p, x)!TypeOK',
           UNCHANGED <<curr, mode>>
    PROVE  TurnsInv(u, t, p, x)'
BY DEF TurnsInv

\* switch_task() is the same in both.
Switched(u) ==
    LET next == (curr + 1) % u IN
    /\ task' = [task EXCEPT ![curr].regs = hart]
    /\ curr' = next /\ hart' = task'[next].regs
    /\ satp' = task[next].space /\ UNCHANGED mode

LEMMA SwitchedKeepsTurns ==
    ASSUME NEW u, NEW t, NEW p, NEW x, Fits(u, t, p, x), TurnsInv(u, t, p, x),
           Switched(u), mtip' \in BOOLEAN, out' \in Int,
           UNCHANGED <<power, pmp, pte, ram, readq, waitq>>
    PROVE  TurnsInv(u, t, p, x)'
<1> DEFINE T == K(u, t, p, x)!Task
           next == (curr + 1) % u
           one == curr + 1
<1>1. K(u, t, p, x)!TypeOK /\ curr # -1 /\ mode = "U"
    BY DEF TurnsInv
<1>2. curr \in T /\ hart \in K(u, t, p, x)!Registers /\ task \in TaskTable(u, t, p, x)
    BY <1>1, TaskTyped
<1>3. next \in T /\ next # -1
    <2>1. one \in Int /\ u \in Nat \ {0}
        BY <1>2 DEF K!Task, Fits
    <2> HIDE DEF one
    <2>2. one % u \in 0 .. u - 1
        BY <2>1, ModBound
    <2>3. next \in 0 .. u - 1
        BY <2>2 DEF one
    <2> HIDE DEF next
    <2>4. QED
        BY <2>3 DEF K!Task, Fits
<1>4. task' \in TaskTable(u, t, p, x)
    BY <1>2 DEF Switched, TaskTable
<1>5. /\ curr' = next /\ hart' = task'[next].regs
      /\ satp' = task[next].space /\ mode' = "U"
    BY <1>1 DEF Switched
<1> HIDE DEF next
<1>6. hart' \in K(u, t, p, x)!Registers /\ satp' \in K(u, t, p, x)!Space
    BY <1>2, <1>3, <1>4, <1>5 DEF TaskTable
<1>7. K(u, t, p, x)!TypeOK'
    BY <1>1, <1>3, <1>4, <1>5, <1>6 DEF K!TypeOK, TaskTable
<1>8. QED
    BY <1>3, <1>5, <1>7 DEF TurnsInv

\* What main() sets up for the first program before it starts.
LEMMA StartTypes ==
    ASSUME NEW u, NEW t, NEW p, NEW x, Fits(u, t, p, x),
           K(u, t, p, x)!Booted, curr = 0, satp = 0,
           hart = [K(u, t, p, x)!Zeroed EXCEPT !.pc = Entry],
           NEW spaces \in [K(u, t, p, x)!Task -> K(u, t, p, x)!Space],
           task = [i \in K(u, t, p, x)!Task |->
                      [regs |-> K(u, t, p, x)!Zeroed, state |-> "created", exitcode |-> 0,
                       space |-> spaces[i]]]
    PROVE  /\ power = "on" /\ mtip \in BOOLEAN /\ out \in Int
           /\ readq \in Seq(K(u, t, p, x)!Task) /\ waitq \in Seq(K(u, t, p, x)!Task)
           /\ curr \in K(u, t, p, x)!Task /\ curr # -1 /\ satp \in K(u, t, p, x)!Space
           /\ hart \in K(u, t, p, x)!Registers /\ task \in TaskTable(u, t, p, x)
<1>1. mtip \in BOOLEAN
    <2>1. mtip = FALSE
        BY DEF K!Booted
    <2>2. QED
        BY <2>1
<1>2. power = "on" /\ out \in Int
      /\ readq \in Seq(K(u, t, p, x)!Task) /\ waitq \in Seq(K(u, t, p, x)!Task)
    BY DEF K!Booted, K!NoChar
<1>3. curr \in K(u, t, p, x)!Task /\ curr # -1 /\ satp \in K(u, t, p, x)!Space
    BY DEF K!Task, K!Space, Fits
<1>4. K(u, t, p, x)!Zeroed \in K(u, t, p, x)!Registers /\ hart \in K(u, t, p, x)!Registers
    BY DEF K!Zeroed, K!Registers, K!Pc, Fits
<1>5. task \in TaskTable(u, t, p, x)
    BY <1>4 DEF TaskTable, K!States
<1>6. QED
    BY <1>1, <1>2, <1>3, <1>4, <1>5

\* The program of a task is one of those main() started.
LEMMA SpaceOfTypes ==
    ASSUME NEW u, NEW t, NEW p, NEW x, Fits(u, t, p, x)
    PROVE  [i \in K(u, t, p, x)!Task |-> K(u, t, p, x)!SpaceOf(i)]
              \in [K(u, t, p, x)!Task -> K(u, t, p, x)!Space]
BY DEF K!SpaceOf, K!Space, Fits

-----------------------------------------------------------------------------
(* Step 9. *)

\* Its kernel, with parameters.
N(u, t, p, x) == INSTANCE Step9 WITH UserNum <- u, TaskNum <- t, PcNum <- p, XOnly <- x

LEMMA Same9 ==
    ASSUME NEW u, NEW t, NEW p, NEW x
    PROVE  /\ N(u, t, p, x)!TypeOK <=> K(u, t, p, x)!TypeOK
           /\ N(u, t, p, x)!PageTables = K(u, t, p, x)!PageTables
           /\ N(u, t, p, x)!PmpRegions = K(u, t, p, x)!PmpRegions
           /\ N(u, t, p, x)!Booted <=> K(u, t, p, x)!Booted
           /\ N(u, t, p, x)!UserLoad <=> K(u, t, p, x)!UserLoad
           /\ N(u, t, p, x)!UserStore <=> K(u, t, p, x)!UserStore
           /\ N(u, t, p, x)!Expire <=> K(u, t, p, x)!Expire
           /\ N(u, t, p, x)!PageFault <=> K(u, t, p, x)!PageFault
           /\ N(u, t, p, x)!SysWrite <=> K(u, t, p, x)!SysWrite
           /\ N(u, t, p, x)!SysUnknown <=> UnknownCall(u, t, p, x, 0)
           /\ N(u, t, p, x)!Quiet /\ N(u, t, p, x)!PowerOff
                <=> K(u, t, p, x)!Quiet /\ K(u, t, p, x)!PowerOff
BY DEF UnknownCall, N!SysUnknown, N!Task, N!Idle, N!Space, N!Pc, N!Frames, N!Text, N!Data,
    N!Va, N!NoVa, N!Kinds,
        N!Flags, N!Image, N!sched, N!spaces, N!queues, N!NoChar, N!Quiet, N!Booted, N!SpaceOf,
        N!Registers, N!Zeroed, N!InUser, N!Translates, N!Opened, N!Reaches, N!Executes,
        N!Access, N!PageFaults, N!AccessFaults, N!Stepped, N!Call, N!UserStore, N!UserLoad,
        N!Expire, N!PowerOff, N!Buffers, N!States, N!Entries, N!TypeOK, N!WRITE, N!EXIT,
        N!READ, N!CLONE, N!WAITPID, N!allocate_pa, N!setup_pte, N!setup_va, N!setup_pmp,
        N!HasPhdr, N!va_to_pa, N!load_program_segment, N!handle_page_fault, N!handle_write,
        N!PageTables, N!PmpRegions, N!PageFault, N!SysWrite,
        K!Task, K!Idle, K!Space, K!Pc, K!Frames, K!Text, K!Data, K!Va, K!NoVa, K!Kinds,
        K!Flags, K!Image, K!sched, K!spaces, K!queues, K!NoChar, K!Quiet, K!Booted, K!SpaceOf,
        K!Registers, K!Zeroed, K!InUser, K!Translates, K!Opened, K!Reaches, K!Executes,
        K!Access, K!PageFaults, K!AccessFaults, K!Stepped, K!Call, K!UserStore, K!UserLoad,
        K!Expire, K!PowerOff, K!Buffers, K!States, K!Entries, K!TypeOK, K!WRITE, K!EXIT,
        K!READ, K!CLONE, K!WAITPID, K!allocate_pa, K!setup_pte, K!setup_va, K!setup_pmp,
        K!HasPhdr, K!va_to_pa, K!load_program_segment, K!handle_page_fault, K!handle_write,
        K!PageTables, K!PmpRegions, K!PageFault, K!SysWrite

LEMMA InitTurns9 ==
    ASSUME NEW u, NEW t, NEW p, NEW x, Fits(u, t, p, x), N(u, t, p, x)!Init
    PROVE  TurnsInv(u, t, p, x)
<1>1. /\ K(u, t, p, x)!Booted /\ curr = 0 /\ satp = 0 /\ mode = "U"
      /\ hart = [K(u, t, p, x)!Zeroed EXCEPT !.pc = Entry]
      /\ task = [i \in K(u, t, p, x)!Task |->
                    [regs |-> K(u, t, p, x)!Zeroed, state |-> "created", exitcode |-> 0,
                     space |-> K(u, t, p, x)!SpaceOf(i)]]
      /\ pte = K(u, t, p, x)!PageTables /\ pmp \in K(u, t, p, x)!PmpRegions
      /\ ram = [f \in K(u, t, p, x)!Frames |-> 0]
    BY Same9 DEF N!Init, N!Zeroed, N!Task, N!SpaceOf, N!Space, N!Frames,
        K!Zeroed, K!Task, K!SpaceOf, K!Space, K!Frames
<1> DEFINE spaces == [i \in K(u, t, p, x)!Task |-> K(u, t, p, x)!SpaceOf(i)]
<1>2. spaces \in [K(u, t, p, x)!Task -> K(u, t, p, x)!Space]
    BY SpaceOfTypes
<1>3. task = [i \in K(u, t, p, x)!Task |->
                  [regs |-> K(u, t, p, x)!Zeroed, state |-> "created", exitcode |-> 0,
                   space |-> spaces[i]]]
    BY <1>1
<1> HIDE DEF spaces
<1>4. /\ power = "on" /\ mtip \in BOOLEAN /\ out \in Int
      /\ readq \in Seq(K(u, t, p, x)!Task) /\ waitq \in Seq(K(u, t, p, x)!Task)
      /\ curr \in K(u, t, p, x)!Task /\ curr # -1 /\ satp \in K(u, t, p, x)!Space
      /\ hart \in K(u, t, p, x)!Registers /\ task \in TaskTable(u, t, p, x)
    BY <1>1, <1>2, <1>3, StartTypes
<1>5. /\ pte \in [K(u, t, p, x)!Space -> [K(u, t, p, x)!Va -> K(u, t, p, x)!Entries]]
      /\ pmp \subseteq K(u, t, p, x)!Frames
    BY <1>1, LazyTypes
<1>6. ram \in [K(u, t, p, x)!Frames -> Int]
    BY <1>1
<1>7. QED
    BY <1>1, <1>4, <1>5, <1>6 DEF TurnsInv, K!TypeOK, TaskTable

LEMMA NextTurns9 ==
    ASSUME NEW u, NEW t, NEW p, NEW x, Fits(u, t, p, x), TurnsInv(u, t, p, x),
           N(u, t, p, x)!Next
    PROVE  TurnsInv(u, t, p, x)'
<1>1. K(u, t, p, x)!TypeOK
    BY DEF TurnsInv
<1>2. CASE N(u, t, p, x)!Timer
    <2>1. /\ Switched(u) /\ mtip' = FALSE /\ out' = -1
          /\ UNCHANGED <<power, pmp, pte, ram, readq, waitq>>
        BY <1>2 DEF N!Timer, N!switch_task, Switched, N!handle_timer_interrupt,
            N!Quiet, N!NoChar, N!spaces, N!queues
    <2>2. mtip' \in BOOLEAN
        BY <2>1
    <2>3. out' \in Int
        BY <2>1
    <2>4. QED
        BY <2>1, <2>2, <2>3, SwitchedKeepsTurns
<1>3. CASE \/ N(u, t, p, x)!UserLoad \/ N(u, t, p, x)!UserStore \/ N(u, t, p, x)!Expire
           \/ N(u, t, p, x)!PageFault \/ N(u, t, p, x)!UnknownException
           \/ N(u, t, p, x)!SysWrite \/ N(u, t, p, x)!SysUnknown \/ N(u, t, p, x)!SysExit
    <2>1. 0 \in 0 .. 33
        OBVIOUS
    <2>2. \/ K(u, t, p, x)!UserLoad \/ K(u, t, p, x)!UserStore \/ K(u, t, p, x)!Expire
          \/ K(u, t, p, x)!PageFault \/ K(u, t, p, x)!SysWrite
          \/ \E number \in 0 .. 33 : UnknownCall(u, t, p, x, number)
          \/ K(u, t, p, x)!Quiet /\ K(u, t, p, x)!PowerOff
        BY <1>3, <2>1, Same9 DEF N!UnknownException, N!SysExit
    <2>3. QED
        BY <1>1, <2>2, QuietSteps, TurnsInvKept
<1>4. QED
    BY <1>2, <1>3 DEF N!Next

-----------------------------------------------------------------------------
(* Step 8. *)

\* Its kernel, with parameters.
E(u, t, p, x) == INSTANCE Step8 WITH UserNum <- u, TaskNum <- t, PcNum <- p, XOnly <- x

LEMMA Same8 ==
    ASSUME NEW u, NEW t, NEW p, NEW x
    PROVE  /\ E(u, t, p, x)!TypeOK <=> K(u, t, p, x)!TypeOK
           /\ E(u, t, p, x)!Booted <=> K(u, t, p, x)!Booted
           /\ E(u, t, p, x)!UserLoad <=> K(u, t, p, x)!UserLoad
           /\ E(u, t, p, x)!UserStore <=> K(u, t, p, x)!UserStore
           /\ E(u, t, p, x)!Expire <=> K(u, t, p, x)!Expire
           /\ E(u, t, p, x)!SysUnknown <=> UnknownCall(u, t, p, x, 0)
           /\ E(u, t, p, x)!Quiet /\ E(u, t, p, x)!PowerOff
                <=> K(u, t, p, x)!Quiet /\ K(u, t, p, x)!PowerOff
BY DEF UnknownCall, E!SysUnknown, E!Task, E!Idle, E!Space, E!Pc, E!Frames, E!Text, E!Data,
    E!Va, E!NoVa, E!Kinds,
        E!Flags, E!Image, E!sched, E!spaces, E!queues, E!NoChar, E!Quiet, E!Booted, E!SpaceOf,
        E!Registers, E!Zeroed, E!InUser, E!Translates, E!Opened, E!Reaches, E!Executes,
        E!Access, E!PageFaults, E!AccessFaults, E!Stepped, E!Call, E!UserStore, E!UserLoad,
        E!Expire, E!PowerOff, E!Buffers, E!States, E!Entries, E!TypeOK, E!WRITE, E!EXIT,
        E!READ, E!CLONE, E!WAITPID,
        K!Task, K!Idle, K!Space, K!Pc, K!Frames, K!Text, K!Data, K!Va, K!NoVa, K!Kinds,
        K!Flags, K!Image, K!sched, K!spaces, K!queues, K!NoChar, K!Quiet, K!Booted, K!SpaceOf,
        K!Registers, K!Zeroed, K!InUser, K!Translates, K!Opened, K!Reaches, K!Executes,
        K!Access, K!PageFaults, K!AccessFaults, K!Stepped, K!Call, K!UserStore, K!UserLoad,
        K!Expire, K!PowerOff, K!Buffers, K!States, K!Entries, K!TypeOK, K!WRITE, K!EXIT,
        K!READ, K!CLONE, K!WAITPID

\* A program and its segments lie in RAM.
LEMMA FrameOfTypes ==
    ASSUME NEW u, NEW t, NEW p, NEW x, Fits(u, t, p, x), Reaching(u),
           NEW s \in K(u, t, p, x)!Space, NEW va \in 0 .. 2
    PROVE  Offset * s + va \in K(u, t, p, x)!Frames
<1>1. s \in Nat /\ s + 1 <= u /\ u \in Nat
    BY DEF K!Space, Fits
<1>2. Offset * (s + 1) <= Offset * u
    BY <1>1 DEF Reaching
<1>3. Offset * (s + 1) = Offset * s + Offset /\ Offset * s \in Nat /\ Offset * u = u * Offset
    BY <1>1 DEF Reaching
<1>4. QED
    BY <1>2, <1>3 DEF Reaching, K!Frames, Fits

LEMMA InitTurns8 ==
    ASSUME NEW u, NEW t, NEW p, NEW x, Fits(u, t, p, x), Reaching(u), E(u, t, p, x)!Init
    PROVE  TurnsInv(u, t, p, x)
<1>1. /\ K(u, t, p, x)!Booted /\ curr = 0 /\ satp = 0 /\ mode = "U"
      /\ hart = [K(u, t, p, x)!Zeroed EXCEPT !.pc = Entry]
      /\ task = [i \in K(u, t, p, x)!Task |->
                    [regs |-> K(u, t, p, x)!Zeroed, state |-> "created", exitcode |-> 0,
                     space |-> K(u, t, p, x)!SpaceOf(i)]]
    BY Same8 DEF E!Init, E!Zeroed, E!Task, E!SpaceOf, E!Space,
        K!Zeroed, K!Task, K!SpaceOf, K!Space
<1> DEFINE spaces == [i \in K(u, t, p, x)!Task |-> K(u, t, p, x)!SpaceOf(i)]
<1>2. spaces \in [K(u, t, p, x)!Task -> K(u, t, p, x)!Space]
    BY SpaceOfTypes
<1>3. task = [i \in K(u, t, p, x)!Task |->
                  [regs |-> K(u, t, p, x)!Zeroed, state |-> "created", exitcode |-> 0,
                   space |-> spaces[i]]]
    BY <1>1
<1> HIDE DEF spaces
<1>4. /\ power = "on" /\ mtip \in BOOLEAN /\ out \in Int
      /\ readq \in Seq(K(u, t, p, x)!Task) /\ waitq \in Seq(K(u, t, p, x)!Task)
      /\ curr \in K(u, t, p, x)!Task /\ curr # -1 /\ satp \in K(u, t, p, x)!Space
      /\ hart \in K(u, t, p, x)!Registers /\ task \in TaskTable(u, t, p, x)
    BY <1>1, <1>2, <1>3, StartTypes
<1>5. \A s \in K(u, t, p, x)!Space, va \in K(u, t, p, x)!Va :
        E(u, t, p, x)!FrameOf(s, va) \in K(u, t, p, x)!Frames
    <2>1. K(u, t, p, x)!Va \subseteq 0 .. 2
        BY DEF K!Va, K!Text, K!Data
    <2>2. QED
        BY <2>1, FrameOfTypes DEF E!FrameOf
<1>6. pte \in [K(u, t, p, x)!Space -> [K(u, t, p, x)!Va -> K(u, t, p, x)!Entries]]
    <2>1. pte = [s \in K(u, t, p, x)!Space |-> [va \in K(u, t, p, x)!Va |->
            [valid |-> TRUE, flags |-> K(u, t, p, x)!Flags[va],
             frame |-> E(u, t, p, x)!FrameOf(s, va)]]]
        BY DEF E!Init, E!setup_pte, E!Space, E!Va, E!Text, E!Data, E!Flags,
        K!Space, K!Va, K!Text, K!Data, K!Flags
    <2>2. \A va \in K(u, t, p, x)!Va : K(u, t, p, x)!Flags[va] \in SUBSET K(u, t, p, x)!Kinds
        BY DEF K!Va, K!Text, K!Data, K!Flags, K!Kinds
    <2>3. QED
        BY <1>5, <2>1, <2>2 DEF K!Entries
<1>7. pmp \subseteq K(u, t, p, x)!Frames
    <2>1. PICK n \in PmpEntries : pmp = E(u, t, p, x)!setup_pmp(n)
        BY DEF E!Init
    <2>2. pmp \subseteq {E(u, t, p, x)!FrameOf(s, va) :
                            s \in K(u, t, p, x)!Space, va \in K(u, t, p, x)!Va}
        BY <2>1 DEF E!setup_pmp, E!Space, E!Va, E!Text, E!Data,
        K!Space, K!Va, K!Text, K!Data
    <2>3. QED
        BY <1>5, <2>2
<1>8. ram \in [K(u, t, p, x)!Frames -> Int]
    <2>1. ASSUME NEW f \in K(u, t, p, x)!Frames
          PROVE  E(u, t, p, x)!load_elf(f) \in Int
        <3> DEFINE here == {s \in E(u, t, p, x)!Space :
                               f - E(u, t, p, x)!FrameOf(s, 0) \in E(u, t, p, x)!Va}
                   s == CHOOSE s \in here : TRUE
        <3>1. here # {} => f - E(u, t, p, x)!FrameOf(s, 0) \in E(u, t, p, x)!Va
            OBVIOUS
        <3>2. E(u, t, p, x)!load_elf(f) = IF here = {} THEN 0
                 ELSE E(u, t, p, x)!Image[f - E(u, t, p, x)!FrameOf(s, 0)]
            BY DEF E!load_elf
        <3>3. \A va \in E(u, t, p, x)!Va : E(u, t, p, x)!Image[va] \in Int
            BY DEF E!Va, E!Text, E!Data, E!Image
        <3> HIDE DEF here, s
        <3>4. QED
            BY <3>1, <3>2, <3>3
    <2>2. ram = [f \in K(u, t, p, x)!Frames |-> E(u, t, p, x)!load_elf(f)]
        BY DEF E!Init, E!Frames,
        K!Frames
    <2>3. QED
        BY <2>1, <2>2
<1>9. QED
    BY <1>1, <1>4, <1>6, <1>7, <1>8 DEF TurnsInv, K!TypeOK, TaskTable

LEMMA NextTurns8 ==
    ASSUME NEW u, NEW t, NEW p, NEW x, Fits(u, t, p, x), Reaching(u), t = u,
           TurnsInv(u, t, p, x), E(u, t, p, x)!Next
    PROVE  TurnsInv(u, t, p, x)'
<1>1. K(u, t, p, x)!TypeOK
    BY DEF TurnsInv
<1>2. CASE E(u, t, p, x)!Timer
    <2>1. /\ Switched(u) /\ mtip' = FALSE /\ out' = -1
          /\ UNCHANGED <<power, pmp, pte, ram, readq, waitq>>
        BY <1>2 DEF E!Timer, E!switch_task, Switched, E!handle_timer_interrupt,
            E!Quiet, E!NoChar, E!spaces, E!queues
    <2>2. mtip' \in BOOLEAN
        BY <2>1
    <2>3. out' \in Int
        BY <2>1
    <2>4. QED
        BY <2>1, <2>2, <2>3, SwitchedKeepsTurns
<1>3. CASE E(u, t, p, x)!SysWrite
    <2>1. PICK va \in K(u, t, p, x)!Buffers :
            /\ hart' = K(u, t, p, x)!Stepped(K(u, t, p, x)!Call(1, 0, va))
            /\ out' = ram[Offset * curr + va]
        BY <1>3 DEF E!SysWrite, E!handle_write, E!WRITE, E!Buffers, E!NoVa, E!Translates, E!Va,
            E!Text, E!Data, E!Stepped, E!Call,
        K!Buffers, K!NoVa, K!Translates, K!Va, K!Text, K!Data, K!Stepped, K!Call
    <2>2. va \in 0 .. 2 /\ va \in Int
        BY DEF K!Buffers, K!NoVa, K!Data
    <2>3. hart' \in K(u, t, p, x)!Registers
        BY <1>1, <2>1, <2>2, CallType
    <2>4. curr \in K(u, t, p, x)!Space
        BY <1>1, TaskTyped DEF TurnsInv, K!Task, K!Space
    <2>5. Offset * curr + va \in K(u, t, p, x)!Frames
        BY <2>2, <2>4, FrameOfTypes
    <2>6. out' \in Int
        BY <1>1, <2>1, <2>5, TaskTyped
    <2>7. UNCHANGED <<power, mtip, curr, mode, satp, task, pmp, pte, ram, readq, waitq>>
        BY <1>3 DEF E!SysWrite, E!sched, E!spaces, E!queues
    <2>8. QED
        BY <1>1, <2>3, <2>6, <2>7, ReturnTypes, TurnsInvKept
<1>4. CASE \/ E(u, t, p, x)!UserLoad \/ E(u, t, p, x)!UserStore \/ E(u, t, p, x)!Expire
           \/ E(u, t, p, x)!UnknownException
           \/ E(u, t, p, x)!SysUnknown \/ E(u, t, p, x)!SysExit
    <2>1. 0 \in 0 .. 33
        OBVIOUS
    <2>2. \/ K(u, t, p, x)!UserLoad \/ K(u, t, p, x)!UserStore \/ K(u, t, p, x)!Expire
          \/ \E number \in 0 .. 33 : UnknownCall(u, t, p, x, number)
          \/ K(u, t, p, x)!Quiet /\ K(u, t, p, x)!PowerOff
        BY <1>4, <2>1, Same8 DEF E!UnknownException, E!SysExit
    <2>3. QED
        BY <1>1, <2>2, QuietSteps, TurnsInvKept
<1>5. QED
    BY <1>2, <1>3, <1>4 DEF E!Next

-----------------------------------------------------------------------------
(* Steps 4 to 7. *)

\* Their kernels, with parameters.
O(n, u, t, p, x) == INSTANCE OneProgram WITH
    Step <- n, UserNum <- u, TaskNum <- t, PcNum <- p, XOnly <- x

SingleInv(n, u, t, p, x) ==
    K(u, t, p, x)!TypeOK /\ curr = 0 /\ mode = IF n = 4 THEN "M" ELSE "U"

LEMMA Same7 ==
    ASSUME NEW n, NEW u, NEW t, NEW p, NEW x
    PROVE  /\ O(n, u, t, p, x)!TypeOK <=> K(u, t, p, x)!TypeOK
           /\ O(n, u, t, p, x)!Booted <=> K(u, t, p, x)!Booted
           /\ O(n, u, t, p, x)!UserLoad <=> K(u, t, p, x)!UserLoad
           /\ O(n, u, t, p, x)!UserStore <=> K(u, t, p, x)!UserStore
           /\ O(n, u, t, p, x)!Expire <=> K(u, t, p, x)!Expire
           /\ O(n, u, t, p, x)!SysUnknown => UnknownCall(u, t, p, x, 0)
           /\ O(n, u, t, p, x)!Quiet /\ O(n, u, t, p, x)!PowerOff
                => K(u, t, p, x)!Quiet /\ K(u, t, p, x)!PowerOff
BY DEF UnknownCall, O!SysUnknown, O!Calls, O!Task, O!Idle, O!Space, O!Pc, O!Frames, O!Text,
    O!Data, O!Va, O!NoVa, O!Kinds,
        O!Flags, O!Image, O!sched, O!spaces, O!queues, O!NoChar, O!Quiet, O!Booted, O!SpaceOf,
        O!Registers, O!Zeroed, O!InUser, O!Translates, O!Opened, O!Reaches, O!Executes,
        O!Access, O!PageFaults, O!AccessFaults, O!Stepped, O!Call, O!UserStore, O!UserLoad,
        O!Expire, O!PowerOff, O!Buffers, O!States, O!Entries, O!TypeOK, O!WRITE, O!EXIT,
        O!READ, O!CLONE, O!WAITPID,
        K!Task, K!Idle, K!Space, K!Pc, K!Frames, K!Text, K!Data, K!Va, K!NoVa, K!Kinds,
        K!Flags, K!Image, K!sched, K!spaces, K!queues, K!NoChar, K!Quiet, K!Booted, K!SpaceOf,
        K!Registers, K!Zeroed, K!InUser, K!Translates, K!Opened, K!Reaches, K!Executes,
        K!Access, K!PageFaults, K!AccessFaults, K!Stepped, K!Call, K!UserStore, K!UserLoad,
        K!Expire, K!PowerOff, K!Buffers, K!States, K!Entries, K!TypeOK, K!WRITE, K!EXIT,
        K!READ, K!CLONE, K!WAITPID

LEMMA SingleFrames ==
    ASSUME NEW n, NEW u, NEW t, NEW p, NEW x, Fits(u, t, p, x), Reaching(2), NEW va \in 0 .. 2
    PROVE  /\ O(n, u, t, p, x)!FrameOf(va) \in K(u, t, p, x)!Frames
           /\ va \in K(u, t, p, x)!Frames /\ Offset * va \in K(u, t, p, x)!Frames
<1>1. Offset * va \in Nat /\ Offset * va <= 2 * Offset /\ 2 * Offset < RamPages
    <2>1. va = 0 \/ va = 1 \/ va = 2
        OBVIOUS
    <2>2. QED
        BY <2>1 DEF Reaching
<1>2. va < RamPages
    BY <1>1 DEF Reaching, Fits
<1> DEFINE first == Offset * va
<1>3. va \in K(u, t, p, x)!Frames
    BY <1>2 DEF K!Frames, Fits
<1>4. first \in K(u, t, p, x)!Frames
    <2>1. first \in Nat /\ first < RamPages /\ RamPages \in Nat
        BY <1>1 DEF Reaching, Fits
    <2> HIDE DEF first
    <2>2. QED
        BY <2>1 DEF K!Frames
<1>5. O(n, u, t, p, x)!FrameOf(va) = IF n = 74 THEN first ELSE va
    BY DEF O!FrameOf
<1> HIDE DEF first
<1>6. QED
    BY <1>3, <1>4, <1>5 DEF first

LEMMA InitSingle ==
    ASSUME NEW n \in Single, NEW u, NEW t, NEW p, NEW x, Fits(u, t, p, x), Reaching(2),
           O(n, u, t, p, x)!Init
    PROVE  SingleInv(n, u, t, p, x)
<1>1. /\ K(u, t, p, x)!Booted /\ curr = 0 /\ satp = 0 /\ mode = IF n = 4 THEN "M" ELSE "U"
      /\ hart = [K(u, t, p, x)!Zeroed EXCEPT !.pc = Entry]
      /\ task = [i \in K(u, t, p, x)!Task |->
                    [regs |-> K(u, t, p, x)!Zeroed, state |-> "created", exitcode |-> 0,
                     space |-> 0]]
    BY Same7 DEF O!Init, O!EntryMode, O!Zeroed, O!Task,
        K!Zeroed, K!Task
<1> DEFINE spaces == [i \in K(u, t, p, x)!Task |-> 0]
<1>2. spaces \in [K(u, t, p, x)!Task -> K(u, t, p, x)!Space]
    BY DEF K!Space, Fits
<1>3. task = [i \in K(u, t, p, x)!Task |->
                  [regs |-> K(u, t, p, x)!Zeroed, state |-> "created", exitcode |-> 0,
                   space |-> spaces[i]]]
    BY <1>1
<1> HIDE DEF spaces
<1>4. /\ power = "on" /\ mtip \in BOOLEAN /\ out \in Int
      /\ readq \in Seq(K(u, t, p, x)!Task) /\ waitq \in Seq(K(u, t, p, x)!Task)
      /\ curr \in K(u, t, p, x)!Task /\ curr # -1 /\ satp \in K(u, t, p, x)!Space
      /\ hart \in K(u, t, p, x)!Registers /\ task \in TaskTable(u, t, p, x)
    BY <1>1, <1>2, <1>3, StartTypes
<1>5. K(u, t, p, x)!Va \subseteq 0 .. 2
    BY DEF K!Va, K!Text, K!Data
<1>6. pte \in [K(u, t, p, x)!Space -> [K(u, t, p, x)!Va -> K(u, t, p, x)!Entries]]
    <2>1. pte = [s \in K(u, t, p, x)!Space |-> O(n, u, t, p, x)!PageTable]
        BY DEF O!Init, O!Space,
        K!Space
    <2>2. ASSUME NEW va \in K(u, t, p, x)!Va
          PROVE  /\ O(n, u, t, p, x)!Untranslated(va) \in K(u, t, p, x)!Entries
                 /\ O(n, u, t, p, x)!setup_pte(va) \in K(u, t, p, x)!Entries
                 /\ O(n, u, t, p, x)!setup_pte_4MiB(va) \in K(u, t, p, x)!Entries
        <3>1. va \in K(u, t, p, x)!Frames /\ Offset * va \in K(u, t, p, x)!Frames
            BY <1>5, SingleFrames
        <3>2. O(n, u, t, p, x)!Flags[va] \in SUBSET K(u, t, p, x)!Kinds
              /\ O(n, u, t, p, x)!Kinds = K(u, t, p, x)!Kinds
            BY DEF O!Va, O!Text, O!Data, O!Flags, O!Kinds,
        K!Va, K!Text, K!Data, K!Flags, K!Kinds
        <3>3. QED
            BY <3>1, <3>2 DEF O!Untranslated, O!setup_pte, O!setup_pte_4MiB, K!Entries
    <2>3. \A va \in K(u, t, p, x)!Va : O(n, u, t, p, x)!PageTable[va] \in K(u, t, p, x)!Entries
        <3>1. ASSUME NEW va \in K(u, t, p, x)!Va
              PROVE  O(n, u, t, p, x)!PageTable[va] \in K(u, t, p, x)!Entries
            <4>1. O(n, u, t, p, x)!PageTable[va] =
                    CASE n \in {4, 5, 6} -> O(n, u, t, p, x)!Untranslated(va)
                      [] n = 7 -> O(n, u, t, p, x)!setup_pte(va)
                      [] n = 74 -> O(n, u, t, p, x)!setup_pte_4MiB(va)
                BY DEF O!PageTable, O!Bare, O!Va, O!Text, O!Data,
        K!Va, K!Text, K!Data
            <4>2. n \in {4, 5, 6} \/ n = 7 \/ n = 74
                BY DEF Single
            <4>3. QED
                BY <2>2, <4>1, <4>2
        <3>2. QED
            BY <3>1
    <2>4. O(n, u, t, p, x)!PageTable
            = [va \in K(u, t, p, x)!Va |-> O(n, u, t, p, x)!PageTable[va]]
        <3> DEFINE Cell(va) == CASE O(n, u, t, p, x)!Bare -> O(n, u, t, p, x)!Untranslated(va)
                                 [] n = 7 -> O(n, u, t, p, x)!setup_pte(va)
                                 [] n = 74 -> O(n, u, t, p, x)!setup_pte_4MiB(va)
        <3>1. O(n, u, t, p, x)!PageTable = [va \in K(u, t, p, x)!Va |-> Cell(va)]
            BY DEF O!PageTable, O!Va, O!Text, O!Data,
        K!Va, K!Text, K!Data
        <3> HIDE DEF Cell
        <3>2. QED
            BY <3>1
    <2>5. QED
        BY <2>1, <2>3, <2>4
<1>7. pmp \subseteq K(u, t, p, x)!Frames
    BY DEF O!Init, O!Regions, O!setup_pmp_3GiB, O!setup_pmp_32KiB, O!setup_pmp_8MiB, Single,
        O!Frames,
        K!Frames
<1>8. ram \in [K(u, t, p, x)!Frames -> Int]
    <2>1. \A va \in O(n, u, t, p, x)!Va : O(n, u, t, p, x)!Image[va] \in Int
        BY DEF O!Va, O!Text, O!Data, O!Image
    <2>2. ASSUME NEW f \in K(u, t, p, x)!Frames
          PROVE  /\ O(n, u, t, p, x)!load_elf_at_vaddr(f) \in Int
                 /\ O(n, u, t, p, x)!load_elf(f) \in Int
        <3> DEFINE here == {va \in O(n, u, t, p, x)!Va : O(n, u, t, p, x)!FrameOf(va) = f}
                   va == CHOOSE va \in here : TRUE
        <3>1. here # {} => va \in O(n, u, t, p, x)!Va
            OBVIOUS
        <3>2. O(n, u, t, p, x)!load_elf(f) = IF here = {} THEN 0 ELSE O(n, u, t, p, x)!Image[va]
            BY DEF O!load_elf
        <3> HIDE DEF here, va
        <3>3. QED
            BY <2>1, <3>1, <3>2 DEF O!load_elf_at_vaddr
    <2>3. ram = [f \in K(u, t, p, x)!Frames |->
                    IF O(n, u, t, p, x)!Bare THEN O(n, u, t, p, x)!load_elf_at_vaddr(f)
                    ELSE O(n, u, t, p, x)!load_elf(f)]
        BY DEF O!Init, O!Frames,
        K!Frames
    <2>4. QED
        BY <2>2, <2>3
<1>9. QED
    BY <1>1, <1>4, <1>6, <1>7, <1>8 DEF SingleInv, K!TypeOK, TaskTable

LEMMA NextSingle ==
    ASSUME NEW n \in Single, NEW u, NEW t, NEW p, NEW x, Fits(u, t, p, x), Reaching(2),
           SingleInv(n, u, t, p, x), O(n, u, t, p, x)!Next
    PROVE  SingleInv(n, u, t, p, x)'
<1>1. K(u, t, p, x)!TypeOK
    BY DEF SingleInv
<1>2. SUFFICES K(u, t, p, x)!TypeOK' /\ UNCHANGED <<curr, mode>>
    BY DEF SingleInv
<1>3. CASE O(n, u, t, p, x)!Timer \/ O(n, u, t, p, x)!StoreFault
    <2>1. /\ mtip' = FALSE /\ out' = -1
          /\ UNCHANGED <<power, hart, curr, mode, satp, task, pmp, pte, ram, readq, waitq>>
        BY <1>3 DEF O!Timer, O!StoreFault, O!handle_timer_interrupt, O!Quiet, O!NoChar,
            O!sched, O!spaces, O!queues
    <2>2. mtip' \in BOOLEAN
        BY <2>1
    <2>3. QED
        BY <1>1, <2>1, <2>2 DEF K!TypeOK
<1>4. CASE O(n, u, t, p, x)!SysWrite
    <2>1. PICK va \in K(u, t, p, x)!Buffers :
            /\ hart' = K(u, t, p, x)!Stepped(K(u, t, p, x)!Call(1, 0, va))
            /\ out' = ram[O(n, u, t, p, x)!FrameOf(va)]
        BY <1>4 DEF O!SysWrite, O!handle_write, O!WRITE, O!Buffers, O!NoVa, O!Translates, O!Va,
            O!Text, O!Data, O!Stepped, O!Call,
        K!Buffers, K!NoVa, K!Translates, K!Va, K!Text, K!Data, K!Stepped, K!Call
    <2>2. va \in 0 .. 2 /\ va \in Int
        BY DEF K!Buffers, K!NoVa, K!Data
    <2>3. hart' \in K(u, t, p, x)!Registers
        BY <1>1, <2>1, <2>2, CallType
    <2>4. out' \in Int
        BY <1>1, <2>1, <2>2, SingleFrames, TaskTyped
    <2>5. UNCHANGED <<power, mtip, curr, mode, satp, task, pmp, pte, ram, readq, waitq>>
        BY <1>4 DEF O!SysWrite, O!sched, O!spaces, O!queues
    <2>6. QED
        BY <1>1, <2>3, <2>4, <2>5, ReturnTypes
<1>5. CASE \/ O(n, u, t, p, x)!UserLoad \/ O(n, u, t, p, x)!UserStore
           \/ O(n, u, t, p, x)!Expire \/ O(n, u, t, p, x)!LoadFault
           \/ O(n, u, t, p, x)!PageFault \/ O(n, u, t, p, x)!Ecall
           \/ O(n, u, t, p, x)!SysUnknown \/ O(n, u, t, p, x)!SysExit
    <2>1. 0 \in 0 .. 33
        OBVIOUS
    <2>2. \/ K(u, t, p, x)!UserLoad \/ K(u, t, p, x)!UserStore \/ K(u, t, p, x)!Expire
          \/ \E number \in 0 .. 33 : UnknownCall(u, t, p, x, number)
          \/ K(u, t, p, x)!Quiet /\ K(u, t, p, x)!PowerOff
        BY <1>5, <2>1, Same7 DEF O!LoadFault, O!PageFault, O!Ecall, O!SysExit
    <2>3. QED
        BY <1>1, <2>2, QuietSteps
<1>6. QED
    BY <1>3, <1>4, <1>5 DEF O!Next

-----------------------------------------------------------------------------
(* The prototype. *)

ReaderInv ==
    /\ status \in [P!Task -> {"ready", "running", "blocking", "terminated"}]
    /\ curr \in P!Task \cup {-1} /\ readTask \in P!Task \cup {-1}
    /\ curr # -1 => Runs(status[curr])
    /\ P!SleeperIsReader

LEMMA InitReader ==
    ASSUME StepsAssumption, P!Init
    PROVE  ReaderInv
<1>1. 0 \in P!Task /\ -1 \notin P!Task
    BY DEF P!Task, StepsAssumption
<1>2. status = [i \in P!Task |-> "ready"] /\ curr = 0 /\ readTask = -1
    BY DEF P!Init, P!Idle
<1>3. QED
    BY <1>1, <1>2 DEF ReaderInv, Runs, P!SleeperIsReader, P!Idle

\* sched_schedule() leaves the hart to a task that can run, or to none.
LEMMA ScheduleReader ==
    ASSUME NEW st, NEW frame, P!sched_schedule(st, frame), curr \in P!Task \cup {-1}
    PROVE  /\ status' = st /\ curr' \in P!Task \cup {-1}
           /\ curr' # -1 => Runs(st[curr'])
<1> DEFINE R == {i \in P!Task : st[i] \in {"ready", "running"}}
           next == {i \in R : \A j \in R : P!Ring(i) <= P!Ring(j)}
<1>1. \A i \in next : i \in P!Task /\ Runs(st[i])
    BY DEF Runs
<1>2. /\ status' = st
      /\ \/ curr' = curr /\ (curr = -1 \/ curr \in next)
         \/ curr' = -1
         \/ \E i \in next \ {curr} : curr' = i
    BY DEF P!sched_schedule, P!Idle
<1> HIDE DEF next
<1>3. QED
    BY <1>1, <1>2

LEMMA NextReader ==
    ASSUME StepsAssumption, ReaderInv, P!Next
    PROVE  ReaderInv'
<1>1. -1 \notin P!Task
    BY DEF P!Task, StepsAssumption
<1>2. /\ status \in [P!Task -> {"ready", "running", "blocking", "terminated"}]
      /\ curr \in P!Task \cup {-1} /\ readTask \in P!Task \cup {-1}
      /\ curr # -1 => curr \in P!Task /\ Runs(status[curr])
      /\ \A i \in P!Task : status[i] = "blocking" <=> i = readTask
    BY DEF ReaderInv, P!SleeperIsReader, P!Idle
<1>3. SUFFICES
        /\ status' \in [P!Task -> {"ready", "running", "blocking", "terminated"}]
        /\ curr' \in P!Task \cup {-1} /\ readTask' \in P!Task \cup {-1}
        /\ curr' # -1 => Runs(status'[curr'])
        /\ \A i \in P!Task : status'[i] = "blocking" <=> i = readTask'
    BY <1>1 DEF ReaderInv, P!SleeperIsReader, P!Idle, P!Task
<1>4. CASE \/ P!Compute \/ P!SysWrite \/ P!Fatal \/ P!DrainInterrupt
           \/ P!SysRead /\ P!ReadBusy
    BY <1>2, <1>4 DEF P!Compute, P!SysWrite, P!Fatal, P!DrainInterrupt, P!SysRead
<1>5. CASE P!SysRead /\ ~ P!ReadBusy
    <2>1. /\ readTask = -1 /\ readTask' = curr /\ curr # -1
          /\ \E frame : P!sched_schedule([status EXCEPT ![curr] = "blocking"], frame)
        BY <1>5 DEF P!SysRead, P!ReadBusy, P!InUser, P!Idle
    <2>2. /\ status' = [status EXCEPT ![curr] = "blocking"]
          /\ curr' \in P!Task \cup {-1}
          /\ curr' # -1 => Runs(status'[curr'])
        BY <1>2, <2>1, ScheduleReader
    <2>3. QED
        BY <1>1, <1>2, <2>1, <2>2
<1>6. CASE P!SysExit
    <2>1. /\ readTask' = readTask /\ curr # -1
          /\ \E frame : P!sched_schedule([status EXCEPT ![curr] = "terminated"], frame)
        BY <1>6 DEF P!SysExit, P!InUser, P!Idle
    <2>2. /\ status' = [status EXCEPT ![curr] = "terminated"]
          /\ curr' \in P!Task \cup {-1}
          /\ curr' # -1 => Runs(status'[curr'])
        BY <1>2, <2>1, ScheduleReader
    <2>3. curr # readTask
        BY <1>2, <2>1 DEF Runs
    <2>4. QED
        BY <1>1, <1>2, <2>1, <2>2, <2>3
<1>7. CASE P!Timer
    <2>1. readTask' = readTask /\ \E frame : P!sched_schedule(status, frame)
        BY <1>7 DEF P!Timer
    <2>2. /\ status' = status
          /\ curr' \in P!Task \cup {-1}
          /\ curr' # -1 => Runs(status'[curr'])
        BY <1>2, <2>1, ScheduleReader
    <2>3. QED
        BY <1>2, <2>1, <2>2
<1>8. CASE P!ReaderInterrupt
    <2>1. /\ readTask # -1 /\ readTask' = -1 /\ curr' = curr
          /\ status' = [status EXCEPT ![readTask] = "ready"]
        BY <1>8 DEF P!ReaderInterrupt, P!Idle
    <2>2. QED
        BY <1>1, <1>2, <2>1 DEF Runs
<1>9. QED
    BY <1>4, <1>5, <1>6, <1>7, <1>8 DEF P!Next

-----------------------------------------------------------------------------
(* All versions. *)

\* The instances of Steps are those the lemmas speak of.
LEMMA SameInstances ==
    /\ \A n : /\ S7(n)!Init <=> O(n, 1, 1, PcNum, FALSE)!Init
              /\ S7(n)!Next <=> O(n, 1, 1, PcNum, FALSE)!Next
    /\ S8!Init <=> E(UserNum, UserNum, PcNum, FALSE)!Init
    /\ S8!Next <=> E(UserNum, UserNum, PcNum, FALSE)!Next
    /\ \A x : /\ S9(x)!Init <=> N(UserNum, UserNum, PcNum, x)!Init
              /\ S9(x)!Next <=> N(UserNum, UserNum, PcNum, x)!Next
    /\ S12!Init <=> J(1, TaskNum, ShortPcNum, FALSE)!Init
    /\ S12!Next <=> J(1, TaskNum, ShortPcNum, FALSE)!Next
<1>1. \A n : /\ S7(n)!Init <=> O(n, 1, 1, PcNum, FALSE)!Init
             /\ S7(n)!Next <=> O(n, 1, 1, PcNum, FALSE)!Next
    BY DEF S7!Task, S7!Idle, S7!Space, S7!Pc, S7!Frames, S7!Text, S7!Data, S7!Va, S7!NoVa,
        S7!Kinds, S7!Flags, S7!Image, S7!sched, S7!spaces, S7!queues, S7!NoChar, S7!Quiet,
        S7!Booted, S7!SpaceOf, S7!Zeroed, S7!InUser, S7!Translates, S7!Opened, S7!Reaches,
        S7!Executes, S7!Access, S7!PageFaults, S7!AccessFaults, S7!Stepped, S7!Call,
        S7!UserStore, S7!UserLoad, S7!Expire, S7!PowerOff, S7!Buffers, S7!WRITE, S7!EXIT,
        S7!READ, S7!CLONE, S7!WAITPID, S7!Bare, S7!handle_timer_interrupt, S7!Timer,
        S7!StoreFault, S7!LoadFault, S7!PageFault, S7!Ecall, S7!FrameOf, S7!setup_pte,
        S7!setup_pte_4MiB, S7!Untranslated, S7!PageTable, S7!setup_pmp_3GiB,
        S7!setup_pmp_32KiB, S7!setup_pmp_8MiB, S7!Regions, S7!load_elf_at_vaddr, S7!load_elf,
        S7!Calls, S7!handle_write, S7!SysWrite, S7!SysUnknown, S7!SysExit, S7!EntryMode,
        S7!Init, S7!Next,
        O!Task, O!Idle, O!Space, O!Pc, O!Frames, O!Text, O!Data, O!Va, O!NoVa, O!Kinds,
        O!Flags, O!Image, O!sched, O!spaces, O!queues, O!NoChar, O!Quiet, O!Booted, O!SpaceOf,
        O!Zeroed, O!InUser, O!Translates, O!Opened, O!Reaches, O!Executes, O!Access,
        O!PageFaults, O!AccessFaults, O!Stepped, O!Call, O!UserStore, O!UserLoad, O!Expire,
        O!PowerOff, O!Buffers, O!WRITE, O!EXIT, O!READ, O!CLONE, O!WAITPID, O!Bare,
        O!handle_timer_interrupt, O!Timer, O!StoreFault, O!LoadFault, O!PageFault, O!Ecall,
        O!FrameOf, O!setup_pte, O!setup_pte_4MiB, O!Untranslated, O!PageTable,
        O!setup_pmp_3GiB, O!setup_pmp_32KiB, O!setup_pmp_8MiB, O!Regions, O!load_elf_at_vaddr,
        O!load_elf, O!Calls, O!handle_write, O!SysWrite, O!SysUnknown, O!SysExit, O!EntryMode,
        O!Init, O!Next
<1>2. /\ S8!Init <=> E(UserNum, UserNum, PcNum, FALSE)!Init
      /\ S8!Next <=> E(UserNum, UserNum, PcNum, FALSE)!Next
    BY DEF S8!Task, S8!Idle, S8!Space, S8!Pc, S8!Frames, S8!Text, S8!Data, S8!Va, S8!NoVa,
        S8!Kinds, S8!Flags, S8!Image, S8!sched, S8!spaces, S8!queues, S8!NoChar, S8!Quiet,
        S8!Booted, S8!SpaceOf, S8!Zeroed, S8!InUser, S8!Translates, S8!Opened, S8!Reaches,
        S8!Executes, S8!Access, S8!PageFaults, S8!AccessFaults, S8!Stepped, S8!Call,
        S8!UserStore, S8!UserLoad, S8!Expire, S8!PowerOff, S8!Buffers, S8!WRITE, S8!EXIT,
        S8!READ, S8!CLONE, S8!WAITPID, S8!switch_task, S8!handle_timer_interrupt, S8!Timer,
        S8!UnknownException, S8!handle_write, S8!SysWrite, S8!SysUnknown, S8!SysExit,
        S8!FrameOf, S8!setup_pte, S8!load_elf, S8!setup_pmp, S8!Init, S8!Next,
        E!Task, E!Idle, E!Space, E!Pc, E!Frames, E!Text, E!Data, E!Va, E!NoVa, E!Kinds,
        E!Flags, E!Image, E!sched, E!spaces, E!queues, E!NoChar, E!Quiet, E!Booted, E!SpaceOf,
        E!Zeroed, E!InUser, E!Translates, E!Opened, E!Reaches, E!Executes, E!Access,
        E!PageFaults, E!AccessFaults, E!Stepped, E!Call, E!UserStore, E!UserLoad, E!Expire,
        E!PowerOff, E!Buffers, E!WRITE, E!EXIT, E!READ, E!CLONE, E!WAITPID, E!switch_task,
        E!handle_timer_interrupt, E!Timer, E!UnknownException, E!handle_write, E!SysWrite,
        E!SysUnknown, E!SysExit, E!FrameOf, E!setup_pte, E!load_elf, E!setup_pmp, E!Init,
        E!Next
<1>3. \A x : /\ S9(x)!Init <=> N(UserNum, UserNum, PcNum, x)!Init
             /\ S9(x)!Next <=> N(UserNum, UserNum, PcNum, x)!Next
    BY DEF S9!Task, S9!Idle, S9!Space, S9!Pc, S9!Frames, S9!Text, S9!Data, S9!Va, S9!NoVa,
        S9!Kinds, S9!Flags, S9!Image, S9!sched, S9!spaces, S9!queues, S9!NoChar, S9!Quiet,
        S9!Booted, S9!SpaceOf, S9!Zeroed, S9!InUser, S9!Translates, S9!Opened, S9!Reaches,
        S9!Executes, S9!Access, S9!PageFaults, S9!AccessFaults, S9!Stepped, S9!Call,
        S9!UserStore, S9!UserLoad, S9!Expire, S9!PowerOff, S9!Buffers, S9!WRITE, S9!EXIT,
        S9!READ, S9!CLONE, S9!WAITPID, S9!allocate_pa, S9!setup_pte, S9!setup_va, S9!setup_pmp,
        S9!HasPhdr, S9!va_to_pa, S9!load_program_segment, S9!handle_page_fault,
        S9!handle_write, S9!switch_task, S9!handle_timer_interrupt, S9!Timer, S9!PageFault,
        S9!UnknownException, S9!SysWrite, S9!SysUnknown, S9!SysExit, S9!PageTables,
        S9!PmpRegions, S9!Init, S9!Next,
        N!Task, N!Idle, N!Space, N!Pc, N!Frames, N!Text, N!Data, N!Va, N!NoVa, N!Kinds,
        N!Flags, N!Image, N!sched, N!spaces, N!queues, N!NoChar, N!Quiet, N!Booted, N!SpaceOf,
        N!Zeroed, N!InUser, N!Translates, N!Opened, N!Reaches, N!Executes, N!Access,
        N!PageFaults, N!AccessFaults, N!Stepped, N!Call, N!UserStore, N!UserLoad, N!Expire,
        N!PowerOff, N!Buffers, N!WRITE, N!EXIT, N!READ, N!CLONE, N!WAITPID, N!allocate_pa,
        N!setup_pte, N!setup_va, N!setup_pmp, N!HasPhdr, N!va_to_pa, N!load_program_segment,
        N!handle_page_fault, N!handle_write, N!switch_task, N!handle_timer_interrupt, N!Timer,
        N!PageFault, N!UnknownException, N!SysWrite, N!SysUnknown, N!SysExit, N!PageTables,
        N!PmpRegions, N!Init, N!Next
<1>4. S12!Init <=> J(1, TaskNum, ShortPcNum, FALSE)!Init
    BY DEF S12!Task, S12!Space, S12!Pc, S12!Frames, S12!Text, S12!Data, S12!Va, S12!Kinds,
        S12!Flags, S12!NoChar, S12!Booted, S12!SpaceOf, S12!Zeroed, S12!allocate_pa,
        S12!setup_pte, S12!setup_va, S12!setup_pmp, S12!create_task, S12!start_schedule,
        S12!PageTables, S12!PmpRegions, S12!Init,
        J!Task, J!Space, J!Pc, J!Frames, J!Text, J!Data, J!Va, J!Kinds, J!Flags, J!NoChar,
        J!Booted, J!SpaceOf, J!Zeroed, J!allocate_pa, J!setup_pte, J!setup_va, J!setup_pmp,
        J!create_task, J!start_schedule, J!PageTables, J!PmpRegions, J!Init
<1>5. S12!Next <=> J(1, TaskNum, ShortPcNum, FALSE)!Next
    <2>1. /\ S12!UserLoad <=> J(1, TaskNum, ShortPcNum, FALSE)!UserLoad
          /\ S12!UserStore <=> J(1, TaskNum, ShortPcNum, FALSE)!UserStore
          /\ S12!Expire <=> J(1, TaskNum, ShortPcNum, FALSE)!Expire
          /\ S12!Timer <=> J(1, TaskNum, ShortPcNum, FALSE)!Timer
          /\ S12!PageFault <=> J(1, TaskNum, ShortPcNum, FALSE)!PageFault
          /\ S12!UnknownException <=> J(1, TaskNum, ShortPcNum, FALSE)!UnknownException
          /\ S12!SysRead <=> J(1, TaskNum, ShortPcNum, FALSE)!SysRead
          /\ S12!SysWrite <=> J(1, TaskNum, ShortPcNum, FALSE)!SysWrite
          /\ S12!SysUnknown <=> J(1, TaskNum, ShortPcNum, FALSE)!SysUnknown
        BY DEF S12!Task, S12!Idle, S12!Pc, S12!Text, S12!Data, S12!Va, S12!NoVa, S12!Kinds,
            S12!Flags,
        S12!sched, S12!spaces, S12!queues, S12!NoChar, S12!Quiet, S12!InUser, S12!Translates,
        S12!Opened, S12!Reaches, S12!Executes, S12!Access, S12!PageFaults, S12!AccessFaults,
        S12!Stepped, S12!Call, S12!Buffers, S12!get_current_task, S12!Dist, S12!Runnable,
        S12!pickup_next_task, S12!enter_idle, S12!schedule, S12!UserLoad, S12!UserStore,
        S12!Expire, S12!PowerOff, S12!READ, S12!WRITE, S12!HasPhdr, S12!va_to_pa,
        S12!load_program_segment, S12!handle_page_fault, S12!handle_write,
        S12!handle_timer_interrupt, S12!Timer, S12!PageFault, S12!UnknownException,
        S12!block_current_task, S12!task_enqueue_to_root, S12!SysRead, S12!SysWrite,
        S12!SysUnknown, S12!Image,
        J!Task, J!Idle, J!Pc, J!Text, J!Data, J!Va, J!NoVa, J!Kinds, J!Flags, J!sched,
        J!spaces, J!queues, J!NoChar, J!Quiet, J!InUser, J!Translates, J!Opened, J!Reaches,
        J!Executes, J!Access, J!PageFaults, J!AccessFaults, J!Stepped, J!Call, J!Buffers,
        J!get_current_task, J!Dist, J!Runnable, J!pickup_next_task, J!enter_idle, J!schedule,
        J!UserLoad, J!UserStore, J!Expire, J!PowerOff, J!READ, J!WRITE, J!HasPhdr, J!va_to_pa,
        J!load_program_segment, J!handle_page_fault, J!handle_write, J!handle_timer_interrupt,
        J!Timer, J!PageFault, J!UnknownException, J!block_current_task, J!task_enqueue_to_root,
        J!SysRead, J!SysWrite, J!SysUnknown, J!Image
    <2>2. /\ S12!ExternalInterrupt <=> J(1, TaskNum, ShortPcNum, FALSE)!ExternalInterrupt
          /\ S12!SysClone <=> J(1, TaskNum, ShortPcNum, FALSE)!SysClone
          /\ S12!SysExit <=> J(1, TaskNum, ShortPcNum, FALSE)!SysExit
          /\ S12!SysWaitpid <=> J(1, TaskNum, ShortPcNum, FALSE)!SysWaitpid
        BY DEF S12!Task, S12!Idle, S12!Pc, S12!Text, S12!Data, S12!Va, S12!NoVa, S12!Kinds,
            S12!Flags,
        S12!sched, S12!spaces, S12!queues, S12!NoChar, S12!Quiet, S12!InUser, S12!Translates,
        S12!Opened, S12!Reaches, S12!Executes, S12!Access, S12!PageFaults, S12!AccessFaults,
        S12!Stepped, S12!Call, S12!Buffers, S12!get_current_task, S12!Dist, S12!Runnable,
        S12!pickup_next_task, S12!enter_idle, S12!schedule, S12!CtrlC, S12!States, S12!Frames,
        S12!EXIT, S12!CLONE, S12!WAITPID, S12!va_to_pa, S12!Mapped, S12!StoredFor, S12!Served,
        S12!ExternalInterrupt, S12!block_current_task, S12!task_enqueue_to_root,
        S12!task_dequeue_from_root, S12!Free, S12!clone_current_task, S12!SysClone,
        S12!Joiners, S12!SysExit, S12!TaskRead, S12!SysWaitpid,
        J!Task, J!Idle, J!Pc, J!Text, J!Data, J!Va, J!NoVa, J!Kinds, J!Flags, J!sched,
        J!spaces, J!queues, J!NoChar, J!Quiet, J!InUser, J!Translates, J!Opened, J!Reaches,
        J!Executes, J!Access, J!PageFaults, J!AccessFaults, J!Stepped, J!Call, J!Buffers,
        J!get_current_task, J!Dist, J!Runnable, J!pickup_next_task, J!enter_idle, J!schedule,
        J!CtrlC, J!States, J!Frames, J!EXIT, J!CLONE, J!WAITPID, J!va_to_pa, J!Mapped,
        J!StoredFor, J!Served, J!ExternalInterrupt, J!block_current_task,
        J!task_enqueue_to_root, J!task_dequeue_from_root, J!Free, J!clone_current_task,
        J!SysClone, J!Joiners, J!SysExit, J!TaskRead, J!SysWaitpid
    <2>3. QED
        BY <2>1, <2>2 DEF S12!Next, J!Next
<1>6. QED
    BY <1>1, <1>2, <1>3, <1>4, <1>5

LEMMA SameTypes ==
    /\ \A n : S7(n)!TypeOK <=> K(1, 1, PcNum, FALSE)!TypeOK
    /\ S8!TypeOK <=> K(UserNum, UserNum, PcNum, FALSE)!TypeOK
    /\ \A x : S9(x)!TypeOK <=> K(UserNum, UserNum, PcNum, x)!TypeOK
    /\ S12!TypeOK <=> K(1, TaskNum, ShortPcNum, FALSE)!TypeOK
    /\ S12!SleepersAreQueued <=> K(1, TaskNum, ShortPcNum, FALSE)!SleepersAreQueued
<1>1. \A n : S7(n)!TypeOK <=> K(1, 1, PcNum, FALSE)!TypeOK
    BY DEF S7!Task, S7!Idle, S7!Space, S7!Pc, S7!Frames, S7!Text, S7!Data, S7!Va, S7!Kinds,
        S7!Registers, S7!States, S7!Entries, S7!TypeOK,
        K!Task, K!Idle, K!Space, K!Pc, K!Frames, K!Text, K!Data, K!Va, K!Kinds, K!Registers,
        K!States, K!Entries, K!TypeOK
<1>2. S8!TypeOK <=> K(UserNum, UserNum, PcNum, FALSE)!TypeOK
    BY DEF S8!Task, S8!Idle, S8!Space, S8!Pc, S8!Frames, S8!Text, S8!Data, S8!Va, S8!Kinds,
        S8!Registers, S8!States, S8!Entries, S8!TypeOK,
        K!Task, K!Idle, K!Space, K!Pc, K!Frames, K!Text, K!Data, K!Va, K!Kinds, K!Registers,
        K!States, K!Entries, K!TypeOK
<1>3. \A x : S9(x)!TypeOK <=> K(UserNum, UserNum, PcNum, x)!TypeOK
    BY DEF S9!Task, S9!Idle, S9!Space, S9!Pc, S9!Frames, S9!Text, S9!Data, S9!Va, S9!Kinds,
        S9!Registers, S9!States, S9!Entries, S9!TypeOK,
        K!Task, K!Idle, K!Space, K!Pc, K!Frames, K!Text, K!Data, K!Va, K!Kinds, K!Registers,
        K!States, K!Entries, K!TypeOK
<1>4. /\ S12!TypeOK <=> K(1, TaskNum, ShortPcNum, FALSE)!TypeOK
      /\ S12!SleepersAreQueued <=> K(1, TaskNum, ShortPcNum, FALSE)!SleepersAreQueued
    BY DEF S12!Task, S12!Idle, S12!Space, S12!Pc, S12!Frames, S12!Text, S12!Data, S12!Va,
        S12!Kinds, S12!Registers, S12!States, S12!Entries, S12!TypeOK, S12!SleepersAreQueued,
        K!Task, K!Idle, K!Space, K!Pc, K!Frames, K!Text, K!Data, K!Va, K!Kinds, K!Registers,
        K!States, K!Entries, K!TypeOK, K!SleepersAreQueued
<1>5. QED
    BY <1>1, <1>2, <1>3, <1>4

\* The invariant of the version that runs.
StepsInv ==
    \/ version \in Single /\ SingleInv(version, 1, 1, PcNum, FALSE)
    \/ version = 8 /\ TurnsInv(UserNum, UserNum, PcNum, FALSE)
    \/ version \in Alternating /\ TurnsInv(UserNum, UserNum, PcNum, LinkedXOnly(version))
    \/ version = 10 /\ SchedInv(UserNum, UserNum, PcNum, FALSE)
    \/ version = 11 /\ SleepInv(UserNum, UserNum, PcNum, FALSE)
    \/ version = 12 /\ SleepInv(1, TaskNum, ShortPcNum, FALSE)
    \/ version = 0 /\ ReaderInv

\* The versions are told apart.
LEMMA InvOfVersion ==
    ASSUME StepsInv
    PROVE  /\ version \in Single => SingleInv(version, 1, 1, PcNum, FALSE)
           /\ version = 8 => TurnsInv(UserNum, UserNum, PcNum, FALSE)
           /\ version \in Alternating
                => TurnsInv(UserNum, UserNum, PcNum, LinkedXOnly(version))
           /\ version = 10 => SchedInv(UserNum, UserNum, PcNum, FALSE)
           /\ version = 11 => SleepInv(UserNum, UserNum, PcNum, FALSE)
           /\ version = 12 => SleepInv(1, TaskNum, ShortPcNum, FALSE)
           /\ version = 0 => ReaderInv
<1>1. \A v \in Single : v \notin Alternating /\ v \notin {0, 8, 10, 11, 12}
    BY DEF Single, Alternating
<1>2. \A v \in Alternating : v \notin Single /\ v \notin {0, 8, 10, 11, 12}
    BY DEF Single, Alternating
<1>3. /\ 8 \notin {0, 10, 11, 12} /\ 10 \notin {0, 8, 11, 12} /\ 11 \notin {0, 8, 10, 12}
      /\ 12 \notin {0, 8, 10, 11} /\ 0 \notin {8, 10, 11, 12}
    OBVIOUS
<1>4. QED
    BY <1>1, <1>2, <1>3 DEF StepsInv

LEMMA InitSteps == Init => StepsInv
<1> SUFFICES ASSUME Init PROVE StepsInv
    OBVIOUS
<1>1. CASE \E n \in Single : version = n /\ S7(n)!Init
    <2>1. PICK n \in Single : version = n /\ O(n, 1, 1, PcNum, FALSE)!Init
        BY <1>1, SameInstances
    <2>2. SingleInv(n, 1, 1, PcNum, FALSE)
        BY <2>1, StepsAssumption, StepsFit, InitSingle
    <2>3. QED
        BY <2>1, <2>2 DEF StepsInv
<1>2. CASE version = 8 /\ S8!Init
    <2>1. TurnsInv(UserNum, UserNum, PcNum, FALSE)
        BY <1>2, StepsAssumption, StepsFit, SameInstances, InitTurns8
    <2>2. QED
        BY <1>2, <2>1 DEF StepsInv
<1>3. CASE \E n \in Alternating : version = n /\ S9(LinkedXOnly(n))!Init
    <2>1. PICK x \in BOOLEAN :
            x = LinkedXOnly(version) /\ version \in Alternating /\ S9(x)!Init
        BY <1>3 DEF LinkedXOnly
    <2>2. TurnsInv(UserNum, UserNum, PcNum, x)
        BY <2>1, StepsAssumption, StepsFit, SameInstances, InitTurns9
    <2>3. QED
        BY <2>1, <2>2 DEF StepsInv
<1>4. CASE version = 10 /\ S10!Init
    <2>1. K(UserNum, UserNum, PcNum, FALSE)!Init
        BY <1>4, Same10
    <2>2. SchedInv(UserNum, UserNum, PcNum, FALSE)
        BY <2>1, StepsAssumption, StepsFit, InitSleepInv DEF SleepInv
    <2>3. QED
        BY <1>4, <2>2 DEF StepsInv
<1>5. CASE version = 11 /\ S11!Init
    <2>1. K(UserNum, UserNum, PcNum, FALSE)!Init
        BY <1>5, Same11
    <2>2. SleepInv(UserNum, UserNum, PcNum, FALSE)
        BY <2>1, StepsAssumption, StepsFit, InitSleepInv
    <2>3. QED
        BY <1>5, <2>2 DEF StepsInv
<1>6. CASE version = 12 /\ S12!Init
    <2>1. K(1, TaskNum, ShortPcNum, FALSE)!Init
        BY <1>6, Same12, SameInstances
    <2>2. SleepInv(1, TaskNum, ShortPcNum, FALSE)
        BY <2>1, StepsAssumption, StepsFit, InitSleepInv
    <2>3. QED
        BY <1>6, <2>2 DEF StepsInv
<1>7. CASE version = 0 /\ P!Init
    <2>1. ReaderInv
        BY <1>7, StepsAssumption, InitReader
    <2>2. QED
        BY <1>7, <2>1 DEF StepsInv
<1>8. QED
    BY <1>1, <1>2, <1>3, <1>4, <1>5, <1>6, <1>7 DEF Init

LEMMA NextSteps == StepsInv /\ [Next]_vars => StepsInv'
<1> SUFFICES ASSUME StepsInv, [Next]_vars PROVE StepsInv'
    OBVIOUS
<1>1. version' = version
    BY DEF Next, vars
<1>2. CASE UNCHANGED vars
    <2>1. UNCHANGED <<version, power, curr, hart, mode, mtip, satp, task, pmp, pte, ram, readq,
                      waitq, out, status, readTask>>
        BY <1>2 DEF vars, machine, own
    <2>2. ASSUME NEW u, NEW t, NEW p, NEW x
          PROVE  /\ \A n : SingleInv(n, u, t, p, x) => SingleInv(n, u, t, p, x)'
                 /\ TurnsInv(u, t, p, x) => TurnsInv(u, t, p, x)'
                 /\ SchedInv(u, t, p, x) => SchedInv(u, t, p, x)'
                 /\ SleepInv(u, t, p, x) => SleepInv(u, t, p, x)'
        BY <2>1 DEF SingleInv, TurnsInv, SchedInv, SleepInv, K!TypeOK, Queued
    <2>3. ReaderInv => ReaderInv'
        BY <2>1 DEF ReaderInv, P!SleeperIsReader
    <2>4. QED
        BY <2>1, <2>2, <2>3 DEF StepsInv
<1>3. CASE \E n \in Single : version = n /\ S7(n)!Next
    <2>1. PICK n \in Single : version = n /\ O(n, 1, 1, PcNum, FALSE)!Next
        BY <1>3, SameInstances
    <2>2. SingleInv(n, 1, 1, PcNum, FALSE)
        BY <2>1, InvOfVersion
    <2>3. SingleInv(n, 1, 1, PcNum, FALSE)'
        BY <2>1, <2>2, StepsAssumption, StepsFit, NextSingle
    <2>4. QED
        BY <1>1, <2>1, <2>3 DEF StepsInv
<1>4. CASE version = 8 /\ S8!Next
    <2>1. TurnsInv(UserNum, UserNum, PcNum, FALSE)
        BY <1>4, InvOfVersion
    <2>2. TurnsInv(UserNum, UserNum, PcNum, FALSE)'
        BY <1>4, <2>1, StepsAssumption, StepsFit, SameInstances, NextTurns8
    <2>3. QED
        BY <1>1, <1>4, <2>2 DEF StepsInv
<1>5. CASE \E n \in Alternating : version = n /\ S9(LinkedXOnly(n))!Next
    <2>1. PICK x \in BOOLEAN : x = LinkedXOnly(version) /\ version \in Alternating /\ S9(x)!Next
        BY <1>5 DEF LinkedXOnly
    <2>2. TurnsInv(UserNum, UserNum, PcNum, x)
        BY <2>1, InvOfVersion
    <2>3. TurnsInv(UserNum, UserNum, PcNum, x)'
        BY <2>1, <2>2, StepsAssumption, StepsFit, SameInstances, NextTurns9
    <2>4. QED
        BY <1>1, <2>1, <2>3 DEF StepsInv
<1>6. CASE version = 10 /\ S10!Next
    <2>1. SchedInv(UserNum, UserNum, PcNum, FALSE)
        BY <1>6, InvOfVersion
    <2>2. SchedInv(UserNum, UserNum, PcNum, FALSE)'
        BY <1>6, <2>1, StepsAssumption, StepsFit, NextSchedInv10
    <2>3. QED
        BY <1>1, <1>6, <2>2 DEF StepsInv
<1>7. CASE version = 11 /\ S11!Next
    <2>1. SleepInv(UserNum, UserNum, PcNum, FALSE)
        BY <1>7, InvOfVersion
    <2>2. SleepInv(UserNum, UserNum, PcNum, FALSE)'
        BY <1>7, <2>1, StepsAssumption, StepsFit, Same11, NextSleepInv
    <2>3. QED
        BY <1>1, <1>7, <2>2 DEF StepsInv
<1>8. CASE version = 12 /\ S12!Next
    <2>1. SleepInv(1, TaskNum, ShortPcNum, FALSE)
        BY <1>8, InvOfVersion
    <2>2. SleepInv(1, TaskNum, ShortPcNum, FALSE)'
        BY <1>8, <2>1, StepsAssumption, StepsFit, SameInstances, NextSleepInv12
    <2>3. QED
        BY <1>1, <1>8, <2>2 DEF StepsInv
<1>9. CASE version = 0 /\ P!Next
    <2>1. ReaderInv'
        BY <1>9, StepsAssumption, InvOfVersion, NextReader
    <2>2. QED
        BY <1>1, <1>9, <2>1 DEF StepsInv
<1>10. QED
    BY <1>2, <1>3, <1>4, <1>5, <1>6, <1>7, <1>8, <1>9 DEF Next

LEMMA StepsInvariant == Spec => []StepsInv
BY InitSteps, NextSteps, PTL DEF Spec

\* Every variable of the kernels of steps 4 to 12 keeps its type, whatever the
\* number of programs, tasks and pages, the regions of the hart and the characters
\* that arrive: no index of task[], of a page table or of RAM leaves its range.
THEOREM StepsTypes == Spec => []TypesOK
<1>1. StepsInv => TypesOK
    <2> SUFFICES ASSUME StepsInv PROVE TypesOK
        OBVIOUS
    <2>1. ASSUME NEW n \in Single, version = n PROVE S7(n)!TypeOK
        BY <2>1, SameTypes, InvOfVersion DEF SingleInv
    <2>2. ASSUME version = 8 PROVE S8!TypeOK
        BY <2>2, SameTypes, InvOfVersion DEF TurnsInv
    <2>3. ASSUME NEW n \in Alternating, version = n PROVE S9(LinkedXOnly(n))!TypeOK
        BY <2>3, SameTypes, InvOfVersion DEF TurnsInv
    <2>4. ASSUME version = 10 PROVE S10!TypeOK
        BY <2>4, Same10, InvOfVersion DEF SchedInv
    <2>5. ASSUME version = 11 PROVE S11!TypeOK
        BY <2>5, Same11, InvOfVersion DEF SleepInv, SchedInv
    <2>6. ASSUME version = 12 PROVE S12!TypeOK
        BY <2>6, SameTypes, InvOfVersion DEF SleepInv, SchedInv
    <2>7. QED
        BY <2>1, <2>2, <2>3, <2>4, <2>5, <2>6 DEF TypesOK
<1>2. QED
    BY <1>1, StepsInvariant, PTL

\* From step 5 on a program runs in user mode, and the idle loop, of the steps that
\* have one, in machine mode: enter_idle() and schedule() (sched.c) always set
\* mstatus.MPP as the context they return to needs it.
THEOREM ProgramsInUserMode == Spec => []UserModeForPrograms
<1>1. StepsInv => UserModeForPrograms
    <2> SUFFICES ASSUME StepsInv, version \notin {0, 4} PROVE mode = "U" <=> curr # -1
        BY DEF UserModeForPrograms, S12!ProgramsRunInUserMode, S12!Idle
    <2>1. 0 # -1
        OBVIOUS
    <2>2. QED
        BY <2>1 DEF StepsInv, SingleInv, TurnsInv, SchedInv, SleepInv
<1>2. QED
    BY <1>1, StepsInvariant, PTL

\* In steps 11 and 12 a task sleeps exactly while it is in one of the queues, and is
\* there once: read(), waitpid(), the console interrupt and exit() (read.c, sched.c)
\* move a task and its state together.
THEOREM SleepersStayQueued == Spec => []SleepersInQueues
<1>1. StepsInv => SleepersInQueues
    <2> SUFFICES ASSUME StepsInv PROVE SleepersInQueues
        OBVIOUS
    <2>1. ASSUME version = 11 PROVE S11!SleepersAreQueued
        BY <2>1, Same11, SleepInvIsQueued, InvOfVersion DEF SleepInv, SchedInv
    <2>2. ASSUME version = 12 PROVE S12!SleepersAreQueued
        BY <2>2, SameTypes, SleepInvIsQueued, InvOfVersion DEF SleepInv, SchedInv
    <2>3. QED
        BY <2>1, <2>2 DEF SleepersInQueues
<1>2. QED
    BY <1>1, StepsInvariant, PTL

\* In the prototype the task that blocks is the one read_task points to (main.c), so
\* that the next console interrupt wakes it; a second reader never replaces it.
THEOREM BlockedStaysReader == Spec => []BlockedIsReader
<1>1. StepsInv => BlockedIsReader
    BY InvOfVersion DEF BlockedIsReader, ReaderInv
<1>2. QED
    BY <1>1, StepsInvariant, PTL

=============================================================================
