--------------------------- MODULE KernelJoinProofs ---------------------------
(***************************************************************************)
(* Proofs about the life of threads in Kernel: their stacks are separate,   *)
(* no joiner waits for a thread that has ended, and a joiner that comes     *)
(* back finds the exit code.                                                *)
(***************************************************************************)
EXTENDS KernelProofs

-----------------------------------------------------------------------------
(* Stacks. *)

\* A task lives with states st.
LiveIn(st, t) == st[t] \notin {"created", "terminated"}

\* After schedule() the context of every task is the one that was handed over,
\* and the tasks that live are those that lived in the states handed over.
LEMMA ContextAfterSchedule ==
    ASSUME TypeOK, NEW st, NEW rg, NEW fr, Schedulable(st, rg, fr), Schedule(st, rg, fr)
    PROVE  \A t \in Task : /\ Context(t)' = IF t = curr THEN fr ELSE rg[t]
                           /\ Live(t)' <=> LiveIn(st, t)
<1>1. /\ regs' = Saved(rg, fr)
      /\ curr' # Idle => frame' = regs'[curr']
      /\ \A t \in Task : \A s \in {"created", "terminated"} : state'[t] = s <=> st[t] = s
    BY ScheduleEffect
<1>2. QED
    BY <1>1, IdleIsNoTask DEF Context, Saved, Live, LiveIn

\* A handler that neither makes a task nor changes a stack pointer.
LEMMA StacksStay ==
    ASSUME TypeOK, StackIsolation,
           NEW st, NEW rg, NEW fr, Schedulable(st, rg, fr), Schedule(st, rg, fr),
           \A t \in Task : LiveIn(st, t) => Live(t),
           \A t \in Task : rg[t].sp = regs[t].sp, fr.sp = frame.sp,
           UNCHANGED space
    PROVE  StackIsolation'
<1>1. \A t \in Task : /\ Context(t)' = IF t = curr THEN fr ELSE rg[t]
                      /\ Live(t)' <=> LiveIn(st, t)
    BY ContextAfterSchedule
<1>2. \A t \in Task : Context(t)'.sp = Context(t).sp /\ (Live(t)' => Live(t))
    BY <1>1 DEF Context
<1>3. QED
    BY <1>2 DEF StackIsolation

\* Registers with the stack pointer of the current task.
SameStack == {fr \in Registers : fr.sp = frame.sp}

\* The registers user code loads, and those a call returns, have the stack
\* pointer of the caller.
LEMMA CallReturns ==
    ASSUME NEW number \in Int, NEW x \in Int, NEW y \in Int, frame \in Registers
    PROVE  Call(number, x, y) \in SameStack
BY CallType DEF SameStack

\* Nor does setting a0 change it.
LEMMA ReturnKeepsStack ==
    ASSUME NEW value \in Int, NEW fr \in SameStack
    PROVE  Return(fr, value) \in SameStack
BY ReturnType DEF SameStack

\* Handlers that only reschedule keep the stacks apart.
LEMMA RescheduleKeepsStacks ==
    ASSUME IInv, StackIsolation, power = "on", NEW fr \in SameStack,
           Schedule(state, regs, fr), UNCHANGED space
    PROVE  StackIsolation'
<1>1. TypeOK /\ Schedulable(state, regs, fr)
    BY RunningIsSchedulable DEF IInv, SameStack
<1>2. \A t \in Task : LiveIn(state, t) => Live(t)
    BY DEF LiveIn, Live
<1>3. QED
    BY <1>1, <1>2, StacksStay DEF SameStack

\* Handlers that block the caller keep them apart.
LEMMA BlockKeepsStacks ==
    ASSUME IInv, StackIsolation, InUser, NEW fr \in SameStack,
           Schedule(Block(state), regs, fr), UNCHANGED space
    PROVE  StackIsolation'
<1>1. TypeOK /\ Schedulable(Block(state), regs, fr)
    BY BlockIsSchedulable DEF IInv, SameStack
<1>2. curr \in Task /\ state[curr] = "running"
    BY CurrentIsAwake
<1>3. \A t \in Task : LiveIn(Block(state), t) => Live(t)
    BY <1>1, <1>2 DEF LiveIn, Live, Block, TypeOK
<1>4. QED
    BY <1>1, <1>3, StacksStay DEF SameStack

\* A wake keeps the stacks apart: it makes no task live that did not.
LEMMA FutexWakeKeepsStacks ==
    ASSUME IInv, StackIsolation, SysFutexWake PROVE StackIsolation'
<1>1. PICK uaddr \in Futexes, val \in WakeCounts :
        Schedule(Readied(state, Woken(uaddr, val)), regs,
                 Return(Call(FUTEX, uaddr, FUTEX_WAKE), Cardinality(Woken(uaddr, val))))
    BY DEF SysFutexWake
<1> DEFINE W == Woken(uaddr, val)
           fr == Return(Call(FUTEX, uaddr, FUTEX_WAKE), Cardinality(W))
<1>2. InUser /\ UNCHANGED space
    BY DEF SysFutexWake, Calling
<1>3. TypeOK /\ W \subseteq Members(futexq) /\ W \in SUBSET Task
    BY WokenAreWaiters DEF IInv, TypeOK, IsQueue
<1>4. fr \in SameStack
    <2>1. uaddr \in Int /\ Cardinality(W) \in Int /\ frame \in Registers
        BY <1>3, TaskCardinality, AddressAssumption DEF TypeOK
    <2>2. QED
        BY <2>1, NumberType, CallReturns, ReturnKeepsStack
<1>5. Schedule(Readied(state, W), regs, fr)
    BY <1>1
<1> HIDE DEF W, fr
<1>6. Schedulable(Readied(state, W), regs, fr)
    BY <1>2, <1>3, <1>4, FutexWakeIsOrderly DEF SameStack
<1>7. \A t \in W : state[t] = "blocked"
    BY <1>3 DEF IInv, QueueDiscipline, Sleepers
<1>8. \A t \in Task : LiveIn(Readied(state, W), t) => Live(t)
    BY <1>7 DEF LiveIn, Live, Readied
<1>9. QED
    BY <1>2, <1>3, <1>4, <1>5, <1>6, <1>8, StacksStay DEF SameStack

\* The kernel hands back the stack pointer it was given in every call that
\* neither makes nor wakes a task.
LEMMA CallKeepsStacks ==
    ASSUME IInv, StackIsolation,
           SysRead \/ SysWaitpidError \/ SysWaitpidDone \/ SysWaitpidBlock
              \/ SysFutexWait \/ SysFutexFault \/ SysFutexOther \/ Timer
    PROVE  StackIsolation'
<1>1. TypeOK /\ frame \in Registers /\ frame.sp \in Int
    BY DEF IInv, TypeOK, Registers
<1>2. /\ Futexes \subseteq Int /\ Unmapped \subseteq Int /\ PidArgs \subseteq Int
    BY AddressAssumption, ArgumentAssumption
<1>3. UNCHANGED space /\ power = "on"
    BY DEF SysRead, SysWaitpidError, SysWaitpidDone, SysWaitpidBlock, SysFutexWait,
           SysFutexFault, SysFutexOther, Timer, Calling, InUser
<1>4. CASE Timer
    BY <1>1, <1>3, <1>4, RescheduleKeepsStacks DEF Timer, SameStack
<1>5. CASE SysRead
    <2>1. PICK va \in {frame.sp} \cup Unmapped :
            Schedule(Block(state), regs, Call(READ, 0, va))
        BY <1>5 DEF SysRead
    <2>2. va \in Int
        BY <1>1, <1>2
    <2>3. Call(READ, 0, va) \in SameStack
        BY <1>1, <2>2, NumberType, CallReturns, ReturnKeepsStack
    <2>4. QED
        BY <1>3, <1>5, <2>1, <2>3, BlockKeepsStacks DEF SysRead, Calling
<1>6. CASE SysWaitpidError
    <2>1. PICK pid \in PidArgs :
            Schedule(state, regs, Return(Call(WAITPID, pid, frame.sp), -1))
        BY <1>6 DEF SysWaitpidError
    <2>2. pid \in Int
        BY <1>1, <1>2
    <2>3. Return(Call(WAITPID, pid, frame.sp), -1) \in SameStack
        BY <1>1, <2>2, NumberType, CallReturns, ReturnKeepsStack
    <2>4. QED
        BY <1>3, <2>1, <2>3, RescheduleKeepsStacks
<1>7. CASE SysWaitpidDone
    <2>1. PICK pid \in PidArgs, va \in {frame.sp} \cup Unmapped :
            Schedule(state, regs, IF IsMapped(va) THEN Call(WAITPID, pid, va)
                                  ELSE Return(Call(WAITPID, pid, va), -1))
        BY <1>7 DEF SysWaitpidDone
    <2>2. va \in Int /\ pid \in Int
        BY <1>1, <1>2
    <2>3. /\ Call(WAITPID, pid, va) \in SameStack
          /\ Return(Call(WAITPID, pid, va), -1) \in SameStack
        BY <1>1, <2>2, NumberType, CallReturns, ReturnKeepsStack
    <2>4. QED
        BY <1>3, <2>1, <2>3, RescheduleKeepsStacks
<1>8. CASE SysWaitpidBlock
    <2>1. PICK pid \in PidArgs, va \in {frame.sp} \cup Unmapped :
            Schedule(Block(state), regs, Call(WAITPID, pid, va))
        BY <1>8 DEF SysWaitpidBlock
    <2>2. va \in Int /\ pid \in Int
        BY <1>1, <1>2
    <2>3. Call(WAITPID, pid, va) \in SameStack
        BY <1>1, <2>2, NumberType, CallReturns, ReturnKeepsStack
    <2>4. QED
        BY <1>3, <1>8, <2>1, <2>3, BlockKeepsStacks DEF SysWaitpidBlock, Calling
<1>9. CASE SysFutexWait
    <2>1. PICK uaddr \in Futexes :
            \/ Schedule(Block(state), regs, Return(Call(FUTEX, uaddr, FUTEX_WAIT), 0))
            \/ Schedule(state, regs, Return(Call(FUTEX, uaddr, FUTEX_WAIT), -EAGAIN))
        BY <1>9 DEF SysFutexWait
    <2>2. uaddr \in Int
        BY <1>1, <1>2
    <2>3. /\ Return(Call(FUTEX, uaddr, FUTEX_WAIT), 0) \in SameStack
          /\ Return(Call(FUTEX, uaddr, FUTEX_WAIT), -EAGAIN) \in SameStack
        BY <1>1, <2>2, NumberType, CallReturns, ReturnKeepsStack
    <2>4. QED
        BY <1>3, <1>9, <2>1, <2>3, BlockKeepsStacks, RescheduleKeepsStacks
           DEF SysFutexWait, Calling
<1>10. CASE SysFutexFault \/ SysFutexOther
    <2>1. PICK fr \in SameStack : Schedule(state, regs, fr)
        BY <1>1, <1>2, <1>10, NumberType, CallReturns, ReturnKeepsStack
           DEF SysFutexFault, SysFutexOther
    <2>2. QED
        BY <1>3, <2>1, RescheduleKeepsStacks
<1>11. QED
    BY <1>4, <1>5, <1>6, <1>7, <1>8, <1>9, <1>10

\* exit() keeps the stacks apart: it wakes a task and ends the caller.
LEMMA ExitKeepsStacks == ASSUME IInv, StackIsolation, SysExit PROVE StackIsolation'
<1>1. PICK code \in ExitCodes :
        Schedule(Readied([state EXCEPT ![curr] = "terminated"], Joiner),
                 JoinerRegs, Call(EXIT, code, 0))
    BY DEF SysExit
<1>2. InUser /\ UNCHANGED space
    BY DEF SysExit, Calling
<1> DEFINE st == Readied([state EXCEPT ![curr] = "terminated"], Joiner)
           fr == Call(EXIT, code, 0)
<1>3. TypeOK /\ curr \in Task /\ state[curr] = "running"
    BY <1>2, CurrentIsAwake DEF IInv
<1>4. fr \in SameStack
    BY <1>3, ArgumentAssumption, NumberType, CallReturns DEF TypeOK
<1>5. \A t \in Joiner : t \in Task /\ state[t] = "blocked"
    BY DEF Joiner, FirstOf, IInv, TypeOK, IsQueue, QueueDiscipline, Sleepers
<1>6. /\ JoinerRegs \in [Task -> Registers]
      /\ \A t \in Task : JoinerRegs[t].sp = regs[t].sp
    BY <1>3, NumberType, ReturnType DEF JoinerRegs, TypeOK
<1>7. Schedulable(st, JoinerRegs, fr)
    BY <1>2, <1>4, <1>6, ExitIsHanded DEF SameStack, Handed, Schedulable
<1>8. \A t \in Task : LiveIn(st, t) => Live(t)
    BY <1>3, <1>5 DEF LiveIn, Live, Readied, TypeOK
<1>9. Schedule(st, JoinerRegs, fr)
    BY <1>1
<1> HIDE DEF st, fr
<1>10. QED
    BY <1>2, <1>3, <1>4, <1>6, <1>7, <1>8, <1>9, StacksStay DEF SameStack

\* A step that leaves the stack pointers alone and makes no task live.
LEMMA QuietKeepsStacks ==
    ASSUME StackIsolation, UNCHANGED space,
           \A t \in Task : Live(t)' => Live(t),
           \A t \in Task : Context(t)'.sp = Context(t).sp
    PROVE  StackIsolation'
BY DEF StackIsolation

\* Steps that do not reschedule: calls without effect, faults, stores of user
\* code, a wake that never ends and the external interrupt.
LEMMA UnscheduledKeepsStacks ==
    ASSUME IInv, StackIsolation,
           SysWrite \/ SysUnknown \/ UserFault \/ UserStore \/ SysFutexWakeHangs
              \/ ExternalInterrupt \/ UNCHANGED vars
    PROVE  StackIsolation'
<1>1. TypeOK /\ frame \in Registers /\ frame.sp \in Int
    BY DEF IInv, TypeOK, Registers
<1>2. frame' = frame \/ frame' \in SameStack
    <2>1. SysWrite => frame' \in SameStack
        BY <1>1, NumberType, CallReturns DEF SysWrite
    <2>2. SysUnknown => frame' \in SameStack
        BY <1>1, NumberType, CallReturns, ArgumentAssumption DEF SysUnknown
    <2>3. SysFutexWakeHangs => frame' \in SameStack
        BY <1>1, NumberType, CallReturns, AddressAssumption DEF SysFutexWakeHangs
    <2>4. QED
        BY <2>1, <2>2, <2>3 DEF UserFault, UserStore, ExternalInterrupt, vars
<1>3. frame'.sp = frame.sp
    BY <1>2 DEF SameStack
<1>4. UNCHANGED <<curr, space>>
    BY DEF SysWrite, SysUnknown, UserFault, UserStore, SysFutexWakeHangs,
           ExternalInterrupt, vars
<1>5. \A t \in Task : regs'[t].sp = regs[t].sp
    <2>1. CASE ExternalInterrupt
        <3>1. PICK b \in Bursts : regs' = [t \in Task |->
                IF t \in Readers(Len(b)) THEN Return(regs[t], 1) ELSE regs[t]]
            BY <2>1 DEF ExternalInterrupt
        <3>2. \A t \in Task : Return(regs[t], 1).sp = regs[t].sp
            BY <1>1, NumberType, ReturnType DEF TypeOK
        <3>3. QED
            BY <3>1, <3>2
    <2>2. CASE ~ ExternalInterrupt
        BY <2>2 DEF SysWrite, SysUnknown, UserFault, UserStore, SysFutexWakeHangs, vars
    <2>3. QED
        BY <2>1, <2>2
<1>6. \A t \in Task : Live(t)' => Live(t)
    <2>1. ASSUME NEW W, W \subseteq Sleepers, state' = Readied(state, W)
          PROVE  \A t \in Task : Live(t)' => Live(t)
        BY <2>1 DEF Live, Readied, IInv, QueueDiscipline
    <2>2. CASE ExternalInterrupt
        <3>1. PICK b \in Bursts : state' = Readied(state, Readers(Len(b)))
            BY <2>2 DEF ExternalInterrupt
        <3>2. Readers(Len(b)) \subseteq Sleepers
            BY DEF Readers, Sleepers
        <3>3. QED
            BY <2>1, <3>1, <3>2
    <2>3. CASE SysFutexWakeHangs
        <3>1. PICK uaddr \in Futexes, val \in WakeCounts :
                state' = Readied(state, Woken(uaddr, val))
            BY <2>3 DEF SysFutexWakeHangs
        <3>2. Woken(uaddr, val) \subseteq Sleepers
            BY WokenAreWaiters DEF Sleepers
        <3>3. QED
            BY <2>1, <3>1, <3>2
    <2>4. CASE UNCHANGED state
        BY <2>4 DEF Live
    <2>5. QED
        BY <2>2, <2>3, <2>4 DEF SysWrite, SysUnknown, UserFault, UserStore, vars
<1>7. \A t \in Task : Context(t)'.sp = Context(t).sp
    BY <1>3, <1>4, <1>5 DEF Context
<1>8. QED
    BY <1>4, <1>6, <1>7, QuietKeepsStacks

\* clone() gives the child a stack that no living thread of its program has.
LEMMA CloneKeepsStacks ==
    ASSUME IInv, StackIsolation, SysClone PROVE StackIsolation'
<1>1. PICK stack \in FreshStacks :
        \/ \E child \in FreeSlots :
            /\ space' = [space EXCEPT ![child] = space[curr]]
            /\ Schedule([state EXCEPT ![child] = "ready"], Cloned(child, stack),
                        Return(Call(CLONE, 0, stack), child))
        \/ /\ Schedule(state, regs, Return(Call(CLONE, 0, stack), -1))
           /\ UNCHANGED space
    BY DEF SysClone
<1>2. InUser /\ TypeOK
    BY DEF SysClone, Calling, IInv
<1>3. curr \in Task /\ power = "on" /\ state[curr] = "running"
    BY <1>2, CurrentIsAwake
<1>4. stack \in UnusedStacks /\ stack \in Int
    BY AddressAssumption DEF FreshStacks, UnusedStacks
<1>5. Call(CLONE, 0, stack) \in SameStack
    BY <1>2, <1>4, NumberType, CallReturns DEF TypeOK
<1>6. ASSUME NEW child \in FreeSlots,
             space' = [space EXCEPT ![child] = space[curr]],
             Schedule([state EXCEPT ![child] = "ready"], Cloned(child, stack),
                      Return(Call(CLONE, 0, stack), child))
      PROVE  StackIsolation'
    <2> DEFINE st == [state EXCEPT ![child] = "ready"]
               rg == Cloned(child, stack)
               fr == Return(Call(CLONE, 0, stack), child)
    <2>1. child \in Task /\ state[child] = "created" /\ child \in Int /\ child # curr
        BY <1>3 DEF FreeSlots, Task
    <2>2. fr \in SameStack
        BY <1>5, <2>1, ReturnKeepsStack
    <2>3. regs[curr] \in Registers /\ Return(regs[curr], 0) \in Registers
        BY <1>2, <1>3, NumberType, ReturnType DEF TypeOK
    <2>4. /\ rg \in [Task -> Registers] /\ rg[child].sp = stack
          /\ \A t \in Task : t # child => rg[t] = regs[t]
        <3>1. /\ [Return(regs[curr], 0) EXCEPT !.sp = stack] \in Registers
              /\ [Return(regs[curr], 0) EXCEPT !.sp = stack].sp = stack
            BY <1>4, <2>3 DEF Registers
        <3>2. QED
            BY <1>2, <2>1, <3>1 DEF Cloned, TypeOK
    <2>5. \A t \in Task : LiveIn(st, t) <=> Live(t) \/ t = child
        BY <1>2, <2>1 DEF LiveIn, Live, TypeOK
    <2>6. Schedulable(st, rg, fr)
        BY <1>2, <1>3, <2>1, <2>2, <2>4
           DEF Schedulable, SameStack, TypeOK, States, IInv, CurrentIsRunning
    <2> HIDE DEF st, rg, fr
    <2>7. Schedule(st, rg, fr)
        BY <1>6 DEF st, rg, fr
    <2>8. \A t \in Task : /\ Context(t)' = IF t = curr THEN fr ELSE rg[t]
                          /\ Live(t)' <=> Live(t) \/ t = child
        BY <1>2, <2>5, <2>6, <2>7, ContextAfterSchedule
    <2>9. /\ Context(child)'.sp = stack
          /\ \A t \in Task : t # child => Context(t)'.sp = Context(t).sp
        BY <2>1, <2>2, <2>4, <2>8 DEF Context, SameStack
    <2>10. /\ space'[child] = space[curr]
           /\ \A t \in Task : t # child => space'[t] = space[t]
        BY <1>2, <1>6, <2>1 DEF TypeOK
    <2>11. \A t \in Task : t # child /\ Live(t)' /\ space'[t] = space'[child]
              => Context(t)'.sp # stack
        BY <1>4, <2>8, <2>9, <2>10 DEF UnusedStacks
    <2>12. \A t, u \in Task : t # u /\ t # child /\ u # child /\ Live(t)' /\ Live(u)'
              /\ space'[t] = space'[u] => Context(t)'.sp # Context(u)'.sp
        BY <2>8, <2>9, <2>10 DEF StackIsolation
    <2>13. QED
        BY <2>9, <2>11, <2>12 DEF StackIsolation
<1>7. ASSUME Schedule(state, regs, Return(Call(CLONE, 0, stack), -1)), UNCHANGED space
      PROVE  StackIsolation'
    <2>1. Return(Call(CLONE, 0, stack), -1) \in SameStack
        BY <1>5, NumberType, ReturnKeepsStack
    <2>2. QED
        BY <1>3, <1>7, <2>1, RescheduleKeepsStacks
<1>8. QED
    BY <1>1, <1>6, <1>7

\* No two living threads of a program ever run on one stack.
THEOREM StacksAreIsolated == Spec => []StackIsolation
<1>1. Init => StackIsolation
    BY DEF Init, StackIsolation, Live, Space, Task
<1>2. IInv /\ StackIsolation /\ [Next]_vars => StackIsolation'
    BY FutexWakeKeepsStacks, CallKeepsStacks, ExitKeepsStacks, CloneKeepsStacks,
       UnscheduledKeepsStacks DEF Next
<1>3. QED
    BY <1>1, <1>2, Invariance, PTL DEF Spec

-----------------------------------------------------------------------------
(* Joiners, in programs in which no two tasks wait for the same task. *)

\* No sleeping joiner waits in vain, and no two wait for the same task.
JoinInv ==
    /\ NoOrphanWaiter
    /\ \A t, u \in Members(waitq) : regs[t].a1 = regs[u].a1 => t = u

\* schedule() ends no task and saves the registers of the current one only.
LEMMA ScheduleEndsNone ==
    ASSUME NEW st, NEW rg, NEW fr, Schedule(st, rg, fr)
    PROVE  /\ \A t \in Task : state'[t] = "terminated" => st[t] = "terminated"
           /\ \A t \in Task : t # curr => regs'[t] = rg[t]
BY DEF Schedule, Dispatched, Saved

\* A step that neither ends a task nor touches the joiners.
Harmless ==
    /\ UNCHANGED waitq
    /\ \A t \in Task : state'[t] = "terminated" => state[t] = "terminated"
    /\ \A t \in Members(waitq) : regs'[t].a1 = regs[t].a1

\* Such a step leaves no joiner behind.
LEMMA HarmlessKeepsJoiners == ASSUME IInv, JoinInv, Harmless PROVE JoinInv'
BY DEF JoinInv, NoOrphanWaiter, Harmless, Members, IInv, TypeOK, IsQueue

\* A handler that hands over the saved registers of the joiners as they are.
LEMMA HandlerIsHarmless ==
    ASSUME IInv, InUser \/ curr = Idle, UNCHANGED waitq,
           NEW st, NEW rg, NEW fr, Schedule(st, rg, fr),
           \A t \in Task : st[t] = "terminated" => state[t] = "terminated",
           \A t \in Members(waitq) : rg[t] = regs[t]
    PROVE  Harmless
<1>1. \A t \in Members(waitq) : t \in Task /\ t # curr
    BY CurrentIsAwake, IdleIsNoTask DEF Sleepers, IInv, TypeOK, IsQueue
<1>2. QED
    BY <1>1, ScheduleEndsNone DEF Harmless

\* Every step but a waitpid() that sleeps and an exit() is harmless.
LEMMA OthersAreHarmless ==
    ASSUME IInv, [Next]_vars, ~ SysExit, ~ SysWaitpidBlock
    PROVE  Harmless
<1>1. TypeOK
    BY DEF IInv
<1>2. CASE Timer \/ SysWaitpidError \/ SysWaitpidDone \/ SysFutexFault \/ SysFutexOther
    <2>1. (InUser \/ curr = Idle) /\ UNCHANGED waitq
        BY <1>2 DEF Timer, SysWaitpidError, SysWaitpidDone, SysFutexFault, SysFutexOther,
                    Calling, InUser, queues
    <2>2. PICK fr : Schedule(state, regs, fr)
        BY <1>2 DEF Timer, SysWaitpidError, SysWaitpidDone, SysFutexFault, SysFutexOther
    <2>3. QED
        BY <2>1, <2>2, HandlerIsHarmless
<1>3. CASE SysRead \/ SysFutexWait
    <2>1. InUser /\ UNCHANGED waitq
        BY <1>3 DEF SysRead, SysFutexWait, Calling
    <2>2. PICK fr : Schedule(Block(state), regs, fr) \/ Schedule(state, regs, fr)
        BY <1>3 DEF SysRead, SysFutexWait
    <2>3. \A t \in Task : Block(state)[t] = "terminated" => state[t] = "terminated"
        BY <1>1 DEF Block, TypeOK
    <2>4. QED
        BY <2>1, <2>2, <2>3, HandlerIsHarmless
<1>4. CASE SysFutexWake
    <2>1. InUser /\ UNCHANGED waitq
        BY <1>4 DEF SysFutexWake, Calling
    <2>2. PICK W, fr : Schedule(Readied(state, W), regs, fr)
        BY <1>4 DEF SysFutexWake
    <2>3. \A t \in Task : Readied(state, W)[t] = "terminated" => state[t] = "terminated"
        BY DEF Readied
    <2>4. QED
        BY <2>1, <2>2, <2>3, HandlerIsHarmless
<1>5. CASE SysClone
    <2>1. InUser /\ UNCHANGED waitq
        BY <1>5 DEF SysClone, Calling, queues
    <2>2. CASE \E fr : Schedule(state, regs, fr)
        BY <2>1, <2>2, HandlerIsHarmless
    <2>3. CASE \E child \in FreeSlots : \E stack, fr :
                 Schedule([state EXCEPT ![child] = "ready"], Cloned(child, stack), fr)
        <3>1. PICK child \in FreeSlots : \E stack, fr :
                Schedule([state EXCEPT ![child] = "ready"], Cloned(child, stack), fr)
            BY <2>3
        <3>2. PICK stack, fr :
                Schedule([state EXCEPT ![child] = "ready"], Cloned(child, stack), fr)
            BY <3>1
        <3>3. child \notin Members(waitq)
            BY DEF FreeSlots, IInv, QueueDiscipline, Sleepers
        <3>4. \A t \in Members(waitq) : Cloned(child, stack)[t] = regs[t]
            BY <1>1, <3>3 DEF Cloned, TypeOK, IsQueue
        <3>5. \A t \in Task : [state EXCEPT ![child] = "ready"][t] = "terminated"
                => state[t] = "terminated"
            BY <1>1 DEF TypeOK
        <3>6. QED
            BY <2>1, <3>2, <3>4, <3>5, HandlerIsHarmless
    <2>4. QED
        BY <1>5, <2>2, <2>3 DEF SysClone
<1>6. CASE SysFutexWakeHangs
    <2>1. PICK W : state' = Readied(state, W)
        BY <1>6 DEF SysFutexWakeHangs
    <2>2. QED
        BY <1>6, <2>1 DEF Harmless, Readied, SysFutexWakeHangs
<1>7. CASE ExternalInterrupt
    <2>1. PICK b \in Bursts :
            /\ state' = Readied(state, Readers(Len(b)))
            /\ regs' = [t \in Task |-> IF t \in Readers(Len(b)) THEN Return(regs[t], 1)
                                       ELSE regs[t]]
        BY <1>7 DEF ExternalInterrupt
    <2>2. \A t \in Members(waitq) : t \in Task /\ t \notin Readers(Len(b))
        BY <1>1 DEF Readers, TypeOK, IsQueue, IInv, QueueDiscipline
    <2>3. QED
        BY <1>7, <2>1, <2>2 DEF Harmless, Readied, ExternalInterrupt
<1>8. CASE SysWrite \/ SysUnknown \/ UserFault \/ UserStore \/ UNCHANGED vars
    BY <1>8 DEF Harmless, SysWrite, SysUnknown, UserFault, UserStore, vars, queues
<1>9. QED
    BY <1>2, <1>3, <1>4, <1>5, <1>6, <1>7, <1>8 DEF Next

\* A joiner goes to sleep on a task that lives, and on which nobody else waits.
LEMMA WaitpidKeepsJoiners ==
    ASSUME IInv, JoinInv, ~ SharedJoin, SysWaitpidBlock PROVE JoinInv'
<1>1. PICK pid \in PidArgs, va \in {frame.sp} \cup Unmapped : \E st \in StateRead(pid) :
        /\ MayJoin(pid)
        /\ st \in {"ready", "blocked"}
        /\ waitq' = Enqueue(waitq, curr)
        /\ Schedule(Block(state), regs, Call(WAITPID, pid, va))
    BY DEF SysWaitpidBlock
<1>2. InUser /\ TypeOK
    BY DEF SysWaitpidBlock, Calling, IInv
<1>3. curr \in Task /\ state[curr] = "running" /\ curr \notin Members(waitq)
    BY <1>2, CurrentIsAwake DEF Sleepers
<1>4. /\ Members(waitq') = Members(waitq) \cup {curr}
      /\ Members(waitq) \subseteq Task
    BY <1>1, <1>2 DEF Enqueue, Members, TypeOK, IsQueue
<1>5. Call(WAITPID, pid, va).a1 = pid
    <2>1. frame \in Registers /\ va \in Int /\ pid \in Int
        BY <1>2, AddressAssumption, ArgumentAssumption DEF TypeOK, Registers
    <2>2. QED
        BY <2>1, NumberType, CallType
<1>6. regs' = Saved(regs, Call(WAITPID, pid, va))
    BY <1>1 DEF Schedule
<1>7. /\ regs'[curr].a1 = pid
      /\ \A t \in Members(waitq) : regs'[t].a1 = regs[t].a1
    BY <1>3, <1>4, <1>5, <1>6 DEF Saved
<1>8. \A t \in Task : state'[t] = "terminated" => state[t] = "terminated"
    <2>1. \A t \in Task : state'[t] = "terminated" => Block(state)[t] = "terminated"
        BY <1>1, ScheduleEndsNone
    <2>2. \A t \in Task : Block(state)[t] = "terminated" => state[t] = "terminated"
        BY <1>2 DEF Block, TypeOK
    <2>3. QED
        BY <2>1, <2>2
<1>9. pid \in Task => state[pid] # "terminated"
    BY <1>1 DEF StateRead
<1>10. \A t \in Members(waitq) : regs[t].a1 # pid
    BY <1>1 DEF MayJoin
<1>11. NoOrphanWaiter'
    BY <1>4, <1>7, <1>8, <1>9 DEF NoOrphanWaiter, JoinInv
<1>12. \A t, u \in Members(waitq') : regs'[t].a1 = regs'[u].a1 => t = u
    BY <1>4, <1>7, <1>10 DEF JoinInv
<1>13. QED
    BY <1>11, <1>12 DEF JoinInv, Members

\* exit() wakes the only task that waits for the caller.
LEMMA ExitKeepsJoiners == ASSUME IInv, JoinInv, SysExit PROVE JoinInv'
<1>1. PICK code \in ExitCodes :
        /\ waitq' = Dequeue(waitq, Joiner)
        /\ Schedule(Readied([state EXCEPT ![curr] = "terminated"], Joiner),
                    JoinerRegs, Call(EXIT, code, 0))
    BY DEF SysExit
<1>2. InUser /\ TypeOK /\ IsFifo(waitq)
    BY DEF SysExit, Calling, IInv, QueueDiscipline
<1>3. curr \in Task /\ curr \notin Members(waitq)
    BY <1>2, CurrentIsAwake DEF Sleepers
<1>4. Members(waitq) \subseteq Task /\ Members(waitq') = Members(waitq) \ Joiner
    BY <1>1, <1>2 DEF Dequeue, Members, TypeOK, IsQueue
<1>5. \A t \in Members(waitq) : regs[t].a1 = curr => t \in Joiner
    <2>1. SUFFICES ASSUME NEW t \in Members(waitq), regs[t].a1 = curr PROVE t \in Joiner
        OBVIOUS
    <2>2. {u \in Members(waitq) : regs[u].a1 = curr} = {t}
        BY <2>1 DEF JoinInv
    <2>3. QED
        BY <1>2, <2>1, <2>2, FirstOfSingleton DEF Joiner
<1>6. \A t \in Task : state'[t] = "terminated" => state[t] = "terminated" \/ t = curr
    BY <1>1, <1>2, ScheduleEndsNone DEF Readied, TypeOK
<1>7. \A t \in Members(waitq') : regs'[t].a1 = regs[t].a1
    <2>1. SUFFICES ASSUME NEW t \in Members(waitq') PROVE regs'[t].a1 = regs[t].a1
        OBVIOUS
    <2>2. t \in Task /\ t \notin Joiner /\ t # curr
        BY <1>3, <1>4, <2>1
    <2>3. regs'[t] = JoinerRegs[t]
        BY <1>1, <2>2, ScheduleEndsNone
    <2>4. QED
        BY <2>2, <2>3 DEF JoinerRegs
<1>8. NoOrphanWaiter'
    BY <1>4, <1>5, <1>6, <1>7 DEF NoOrphanWaiter, JoinInv
<1>9. \A t, u \in Members(waitq') : regs'[t].a1 = regs'[u].a1 => t = u
    BY <1>4, <1>7 DEF JoinInv
<1>10. QED
    BY <1>8, <1>9 DEF JoinInv, Members

\* If no two tasks wait for the same task, no joiner waits for a task that has
\* ended: neither a late waitpid() nor an exit() leaves one behind.
THEOREM NoJoinerIsOrphaned ==
    ASSUME ~ SharedJoin PROVE Spec => []NoOrphanWaiter
<1>1. Init => JoinInv
    BY DEF Init, JoinInv, NoOrphanWaiter, Members, Empty
<1>2. IInv /\ JoinInv /\ [Next]_vars => JoinInv'
    BY OthersAreHarmless, HarmlessKeepsJoiners, WaitpidKeepsJoiners, ExitKeepsJoiners
<1>3. JoinInv => NoOrphanWaiter
    BY DEF JoinInv
<1>4. QED
    BY <1>1, <1>2, <1>3, Invariance, PTL DEF Spec

-----------------------------------------------------------------------------
(* Delivery: the caller of a successful waitpid() finds the exit code of the task  *)
(* it waited for.  The status is written to the stack of the caller, so that no    *)
(* other thread, no reader and no later exit() can overwrite it as long as stacks  *)
(* are separate.                                                                   *)

\* handle_waitpid() leaves a0 as it is when it succeeds.  Its number is told from a
\* pid, a count of woken tasks and a character only because these are smaller.
FewTasks == NumTasks < WAITPID

\* The context of task t when rg and fr are handed to schedule().
HandedOver(rg, fr, t) == IF t = curr THEN fr ELSE rg[t]

\* A task with context c in space s has come back from a successful waitpid().
Delivered(c, s, st, m, ec) ==
    /\ st[c.a1] = "terminated"
    /\ c.a2 = c.sp
    /\ m[s][c.sp] = ec[c.a1]

HasJoined(c) == c.a0 = WAITPID /\ c.a1 \in Task

StacksAreKnown == \A t \in Task : Live(t) => Context(t).sp \in Stacks

\* A sleeper has passed the address of a variable on its stack, or a bad one.
SleepersPassStack ==
    \A t \in Members(readq) \cup Members(waitq) : regs[t].a2 \in {regs[t].sp} \cup Unmapped

JoinersHaveStatus ==
    \A t \in Task : Live(t) /\ state[t] # "blocked" /\ HasJoined(Context(t))
        => Delivered(Context(t), space[t], state, mem, exitcode)

DeliverInv ==
    power = "on" => StacksAreKnown /\ SleepersPassStack /\ JoinersHaveStatus

-----------------------------------------------------------------------------
(* Handlers that end in schedule(). *)

\* What a handler has to hand to schedule().
LEMMA ScheduleDelivers ==
    ASSUME TypeOK, NEW st, NEW rg, NEW fr, Schedulable(st, rg, fr), Schedule(st, rg, fr),
           \A t \in Task : LiveIn(st, t) => HandedOver(rg, fr, t).sp \in Stacks,
           \A t \in Members(readq') \cup Members(waitq') :
               t \in Task /\ HandedOver(rg, fr, t).a2 \in {HandedOver(rg, fr, t).sp} \cup Unmapped,
           \A t \in Task :
               LiveIn(st, t) /\ st[t] # "blocked" /\ HasJoined(HandedOver(rg, fr, t))
                   => Delivered(HandedOver(rg, fr, t), space'[t], st, mem', exitcode')
    PROVE  DeliverInv'
<1>1. \A t \in Task : /\ Context(t)' = HandedOver(rg, fr, t)
                      /\ regs'[t] = HandedOver(rg, fr, t)
                      /\ Live(t)' <=> LiveIn(st, t)
    BY ContextAfterSchedule, ScheduleEffect DEF HandedOver, Saved
<1>2. \A t \in Task : /\ state'[t] = "blocked" <=> st[t] = "blocked"
                      /\ state'[t] = "terminated" <=> st[t] = "terminated"
    BY ScheduleEffect
<1>3. StacksAreKnown'
    BY <1>1 DEF StacksAreKnown
<1>4. SleepersPassStack'
    BY <1>1 DEF SleepersPassStack, Members
<1>5. JoinersHaveStatus'
    BY <1>1, <1>2 DEF JoinersHaveStatus, Delivered, HasJoined
<1>6. QED
    BY <1>3, <1>4, <1>5 DEF DeliverInv

\* What is known of the tasks that are not current.
LEMMA OtherTasks ==
    ASSUME IInv, DeliverInv, power = "on"
    PROVE  /\ \A t \in Members(readq) \cup Members(waitq) :
                 /\ t \in Task /\ t # curr /\ state[t] = "blocked" /\ Live(t)
                 /\ Context(t) = regs[t]
                 /\ regs[t].a2 \in {regs[t].sp} \cup Unmapped
           /\ \A t \in Task : t # curr => Context(t) = regs[t]
           /\ curr \in Task => Context(curr) = frame /\ Live(curr)
           /\ \A t \in Task : Live(t) => Context(t).sp \in Stacks
<1>1. \A t \in Members(readq) \cup Members(waitq) : t \in Task /\ state[t] = "blocked"
    BY DEF IInv, TypeOK, IsQueue, QueueDiscipline, Sleepers
<1>2. \A t \in Task : state[t] = "running" <=> t = curr
    BY DEF IInv, CurrentIsRunning
<1>3. QED
    BY <1>1, <1>2 DEF Context, Live, DeliverInv, SleepersPassStack, StacksAreKnown

\* A handler that only reschedules, blocks the caller or wakes tasks that did not
\* wait for one to end.
LEMMA OrdinaryHandlerDelivers ==
    ASSUME IInv, DeliverInv, InUser,
           NEW st, NEW fr \in SameStack, Schedulable(st, regs, fr), Schedule(st, regs, fr),
           UNCHANGED <<exitcode, space, mem>>,
           \A t \in Task : t # curr =>
               \/ st[t] = state[t]
               \/ state[t] = "blocked" /\ st[t] = "ready" /\ regs[t].a0 # WAITPID,
           st[curr] = "blocked" \/ fr.a0 # WAITPID,
           \A t \in Members(readq') \cup Members(waitq') :
               \/ t \in Members(readq) \cup Members(waitq)
               \/ t = curr /\ fr.a2 \in {frame.sp} \cup Unmapped
    PROVE  DeliverInv'
<1>1. TypeOK /\ curr \in Task /\ state[curr] = "running" /\ power = "on"
    BY CurrentIsAwake DEF IInv
<1>2. fr.sp = frame.sp
    BY DEF SameStack
<1>3. \A t \in Task : LiveIn(st, t) => Live(t)
    BY <1>1 DEF LiveIn, Live
<1>4. \A t \in Task : LiveIn(st, t) => HandedOver(regs, fr, t).sp \in Stacks
    BY <1>1, <1>2, <1>3, OtherTasks DEF HandedOver
<1>5. \A t \in Members(readq') \cup Members(waitq') :
        /\ t \in Task
        /\ HandedOver(regs, fr, t).a2 \in {HandedOver(regs, fr, t).sp} \cup Unmapped
    BY <1>1, <1>2, OtherTasks DEF HandedOver
<1>6. ASSUME NEW t \in Task,
             LiveIn(st, t), st[t] # "blocked", HasJoined(HandedOver(regs, fr, t))
      PROVE  Delivered(HandedOver(regs, fr, t), space'[t], st, mem', exitcode')
    <2>1. t # curr /\ regs[t].a0 = WAITPID
        BY <1>6 DEF HandedOver, HasJoined
    <2>2. st[t] = state[t] /\ Context(t) = regs[t] /\ HandedOver(regs, fr, t) = regs[t]
        BY <1>1, <2>1, OtherTasks DEF HandedOver
    <2>3. Delivered(regs[t], space[t], state, mem, exitcode)
        BY <1>1, <1>3, <1>6, <2>2 DEF DeliverInv, JoinersHaveStatus
    <2>4. regs[t].a1 \in Task /\ state[regs[t].a1] = "terminated"
        BY <1>6, <2>2, <2>3 DEF Delivered, HasJoined
    <2>5. st[regs[t].a1] = "terminated"
        BY <1>1, <2>4
    <2>6. QED
        BY <2>2, <2>3, <2>5 DEF Delivered
<1>7. QED
    BY <1>1, <1>4, <1>5, <1>6, ScheduleDelivers

\* The timer hands over what the tasks have.
LEMMA TimerDelivers == ASSUME IInv, DeliverInv, Timer PROVE DeliverInv'
<1>1. /\ power = "on" /\ Schedule(state, regs, frame)
      /\ UNCHANGED <<exitcode, space, readq, waitq, mem>>
    BY DEF Timer, queues
<1>2. TypeOK /\ frame \in Registers /\ Schedulable(state, regs, frame)
    BY <1>1, RunningIsSchedulable DEF IInv, TypeOK
<1>3. \A t \in Task : HandedOver(regs, frame, t) = Context(t)
    BY DEF HandedOver, Context
<1>4. \A t \in Task : LiveIn(state, t) <=> Live(t)
    BY DEF LiveIn, Live
<1>5. \A t \in Task : LiveIn(state, t) => HandedOver(regs, frame, t).sp \in Stacks
    BY <1>1, <1>3, <1>4, OtherTasks
<1>6. \A t \in Members(readq') \cup Members(waitq') :
        /\ t \in Task
        /\ HandedOver(regs, frame, t).a2 \in {HandedOver(regs, frame, t).sp} \cup Unmapped
    BY <1>1, <1>3, OtherTasks
<1>7. \A t \in Task :
        LiveIn(state, t) /\ state[t] # "blocked" /\ HasJoined(HandedOver(regs, frame, t))
            => Delivered(HandedOver(regs, frame, t), space'[t], state, mem', exitcode')
    BY <1>1, <1>3, <1>4 DEF DeliverInv, JoinersHaveStatus
<1>8. QED
    BY <1>1, <1>2, <1>5, <1>6, <1>7, ScheduleDelivers

-----------------------------------------------------------------------------
(* System calls. *)

\* Calls that return an error or a count, or block the caller.
LEMMA BlockingCallDelivers ==
    ASSUME IInv, DeliverInv, SysRead \/ SysWaitpidBlock PROVE DeliverInv'
<1>1. InUser /\ UNCHANGED <<exitcode, space, mem>>
    BY DEF SysRead, SysWaitpidBlock, Calling
<1>2. PICK va, fr :
        /\ va \in {frame.sp} \cup Unmapped
        /\ Schedule(Block(state), regs, fr)
        /\ \/ SysRead /\ fr = Call(READ, 0, va)
           \/ SysWaitpidBlock /\ \E pid \in PidArgs : fr = Call(WAITPID, pid, va)
    BY DEF SysRead, SysWaitpidBlock
<1>3. TypeOK /\ curr \in Task /\ frame \in Registers /\ va \in Int
    <2>1. TypeOK /\ curr \in Task /\ frame \in Registers
        BY <1>1, CurrentIsAwake DEF IInv, TypeOK
    <2>2. frame.sp \in Int
        BY <2>1 DEF Registers
    <2>3. QED
        BY <1>2, <2>1, <2>2, AddressAssumption
<1>4. fr \in SameStack /\ fr.a2 = va
    <2>1. PICK number \in Int, x \in Int : fr = Call(number, x, va)
        BY <1>2, NumberType, ArgumentAssumption
    <2>2. fr \in SameStack
        BY <1>3, <2>1, CallReturns
    <2>3. fr.a2 = va
        BY <1>3, <2>1, CallType
    <2>4. QED
        BY <2>2, <2>3
<1>5. Schedulable(Block(state), regs, fr)
    BY <1>1, <1>4, BlockIsSchedulable DEF SameStack
<1>6. /\ Block(state)[curr] = "blocked"
      /\ \A t \in Task : t # curr => Block(state)[t] = state[t]
    BY <1>3 DEF Block, TypeOK
<1>7. \A t \in Members(readq') \cup Members(waitq') :
        t \in Members(readq) \cup Members(waitq) \/ t = curr
    BY <1>2 DEF SysRead, SysWaitpidBlock, Enqueue, Members
<1>8. QED
    BY <1>1, <1>2, <1>4, <1>5, <1>6, <1>7, OrdinaryHandlerDelivers

\* A call that returns at once with an error.
LEMMA ErrorDelivers ==
    ASSUME IInv, DeliverInv, InUser, NEW fr \in SameStack, fr.a0 # WAITPID,
           Schedule(state, regs, fr), UNCHANGED <<exitcode, space, mem, readq, waitq>>
    PROVE  DeliverInv'
<1>1. Schedulable(state, regs, fr)
    BY RunningIsSchedulable DEF SameStack, InUser
<1>2. QED
    BY <1>1, OrdinaryHandlerDelivers DEF Members

LEMMA ErrorCallDelivers ==
    ASSUME IInv, DeliverInv, SysWaitpidError \/ SysFutexFault \/ SysFutexOther
    PROVE  DeliverInv'
<1>1. InUser /\ UNCHANGED <<exitcode, space, mem, readq, waitq>>
    BY DEF SysWaitpidError, SysFutexFault, SysFutexOther, Calling, queues
<1>2. PICK number \in Int, x \in Int, y \in Int, e \in {-1, -EFAULT, -ENOSYS} :
        Schedule(state, regs, Return(Call(number, x, y), e))
    <2>1. frame.sp \in Int
        BY DEF IInv, TypeOK, Registers
    <2>2. QED
        BY <2>1, NumberType, AddressAssumption, ArgumentAssumption
           DEF SysWaitpidError, SysFutexFault, SysFutexOther
<1>3. e \in Int /\ e # WAITPID
    BY DEF EFAULT, ENOSYS, WAITPID
<1>4. Call(number, x, y) \in SameStack
    BY CallReturns DEF IInv, TypeOK
<1>5. Return(Call(number, x, y), e) \in SameStack /\ Return(Call(number, x, y), e).a0 = e
    BY <1>3, <1>4, ReturnKeepsStack, ReturnType DEF SameStack
<1>6. QED
    BY <1>1, <1>2, <1>3, <1>5, ErrorDelivers

LEMMA FutexWaitDelivers == ASSUME IInv, DeliverInv, SysFutexWait PROVE DeliverInv'
<1>1. InUser /\ UNCHANGED <<exitcode, space, mem, readq, waitq>>
    BY DEF SysFutexWait, Calling
<1>2. PICK uaddr \in Futexes :
        \/ Schedule(Block(state), regs, Return(Call(FUTEX, uaddr, FUTEX_WAIT), 0))
        \/ Schedule(state, regs, Return(Call(FUTEX, uaddr, FUTEX_WAIT), -EAGAIN))
    BY DEF SysFutexWait
<1> DEFINE fr(e) == Return(Call(FUTEX, uaddr, FUTEX_WAIT), e)
<1>3. TypeOK /\ curr \in Task /\ frame \in Registers /\ uaddr \in Int
    BY <1>1, CurrentIsAwake, AddressAssumption DEF IInv, TypeOK
<1>4. Call(FUTEX, uaddr, FUTEX_WAIT) \in SameStack
    BY <1>3, NumberType, CallReturns
<1>5. \A e \in {0, -EAGAIN} : fr(e) \in SameStack /\ fr(e).a0 = e /\ e # WAITPID
    BY <1>4, NumberType, ReturnKeepsStack, ReturnType DEF SameStack, EAGAIN, WAITPID
<1>6. CASE Schedule(state, regs, fr(-EAGAIN))
    BY <1>1, <1>5, <1>6, ErrorDelivers
<1>7. CASE Schedule(Block(state), regs, fr(0))
    <2>1. Schedulable(Block(state), regs, fr(0))
        BY <1>1, <1>5, BlockIsSchedulable DEF SameStack
    <2>2. \A t \in Task : t # curr => Block(state)[t] = state[t]
        BY <1>3 DEF Block, TypeOK
    <2> HIDE DEF fr
    <2>3. QED
        BY <1>1, <1>5, <1>7, <2>1, <2>2, OrdinaryHandlerDelivers DEF Members
<1>8. QED
    BY <1>2, <1>6, <1>7

LEMMA FutexWakeDelivers ==
    ASSUME FewTasks, IInv, DeliverInv, SysFutexWake PROVE DeliverInv'
<1>1. PICK uaddr \in Futexes, val \in WakeCounts :
        Schedule(Readied(state, Woken(uaddr, val)), regs,
                 Return(Call(FUTEX, uaddr, FUTEX_WAKE), Cardinality(Woken(uaddr, val))))
    BY DEF SysFutexWake
<1> DEFINE W == Woken(uaddr, val)
           fr == Return(Call(FUTEX, uaddr, FUTEX_WAKE), Cardinality(W))
<1>2. InUser /\ UNCHANGED <<exitcode, space, mem, readq, waitq>>
    BY DEF SysFutexWake, Calling
<1>3. TypeOK /\ W \subseteq Members(futexq) /\ W \in SUBSET Task
    BY WokenAreWaiters DEF IInv, TypeOK, IsQueue
<1>4. Cardinality(W) \in Nat /\ Cardinality(W) < WAITPID
    <2>1. IsFiniteSet(Task) /\ Cardinality(Task) = NumTasks
        BY TasksAssumption, FS_Interval DEF Task
    <2>2. Cardinality(W) <= NumTasks /\ Cardinality(W) \in Nat
        BY <1>3, <2>1, FS_Subset, TaskCardinality
    <2> HIDE DEF W
    <2>3. QED
        BY <2>2, TasksAssumption DEF FewTasks, WAITPID
<1>5. fr \in SameStack /\ fr.a0 = Cardinality(W)
    <2>1. uaddr \in Int /\ Cardinality(W) \in Int /\ frame \in Registers
        BY <1>3, <1>4, AddressAssumption DEF TypeOK
    <2> HIDE DEF W
    <2>2. Call(FUTEX, uaddr, FUTEX_WAKE) \in SameStack
        BY <2>1, NumberType, CallReturns
    <2>3. QED
        BY <2>1, <2>2, ReturnKeepsStack, ReturnType DEF SameStack
<1>6. Schedule(Readied(state, W), regs, fr)
    BY <1>1
<1> HIDE DEF W, fr
<1>7. fr.a0 # WAITPID
    BY <1>4, <1>5 DEF WAITPID
<1>8. Schedulable(Readied(state, W), regs, fr)
    BY <1>2, <1>3, <1>5, FutexWakeIsOrderly DEF SameStack
<1>9. \A t \in Task : \/ Readied(state, W)[t] = state[t]
                      \/ /\ state[t] = "blocked" /\ Readied(state, W)[t] = "ready"
                         /\ regs[t].a0 # WAITPID
    BY <1>3 DEF Readied, IInv, QueueDiscipline, Sleepers, WAITPID
<1>10. QED
    BY <1>2, <1>5, <1>6, <1>7, <1>8, <1>9, OrdinaryHandlerDelivers DEF Members

\* The caller finds the status of a task that has already ended on its stack.
LEMMA WaitpidDoneDelivers ==
    ASSUME IInv, StackIsolation, DeliverInv, SysWaitpidDone PROVE DeliverInv'
<1>1. PICK pid \in PidArgs, va \in {frame.sp} \cup Unmapped :
        /\ "terminated" \in StateRead(pid)
        /\ \E code \in ExitCodeRead(pid) : mem' = Stored(mem, curr, va, code)
        /\ Schedule(state, regs, IF IsMapped(va) THEN Call(WAITPID, pid, va)
                                 ELSE Return(Call(WAITPID, pid, va), -1))
    BY DEF SysWaitpidDone
<1>2. InUser /\ UNCHANGED <<exitcode, space, readq, waitq>>
    BY DEF SysWaitpidDone, Calling, queues
<1>3. TypeOK /\ curr \in Task /\ power = "on" /\ frame \in Registers /\ va \in Int /\ pid \in Int
    BY <1>2, CurrentIsAwake, AddressAssumption, ArgumentAssumption DEF IInv, TypeOK, Registers
<1>4. Call(WAITPID, pid, va) \in SameStack
    BY <1>3, NumberType, CallReturns
<1>5. CASE ~ IsMapped(va)
    <2>1. /\ Return(Call(WAITPID, pid, va), -1) \in SameStack
          /\ Return(Call(WAITPID, pid, va), -1).a0 = -1 /\ -1 # WAITPID
        BY <1>4, NumberType, ReturnKeepsStack, ReturnType DEF SameStack, WAITPID
    <2>2. mem' = mem
        BY <1>1, <1>5 DEF Stored
    <2>3. QED
        BY <1>1, <1>2, <1>5, <2>1, <2>2, ErrorDelivers
<1>6. CASE IsMapped(va)
    <2> DEFINE fr == Call(WAITPID, pid, va)
    <2>1. va = frame.sp
        BY <1>6, AddressAssumption DEF IsMapped
    <2>2. PICK code \in ExitCodeRead(pid) : mem' = [mem EXCEPT ![space[curr]][va] = code]
        BY <1>1, <1>6 DEF Stored
    <2>3. Schedule(state, regs, fr) /\ Schedulable(state, regs, fr)
        BY <1>1, <1>3, <1>4, <1>6, RunningIsSchedulable DEF SameStack
    <2>4. fr.a0 = WAITPID /\ fr.a1 = pid /\ fr.a2 = va /\ fr.sp = frame.sp
        BY <1>3, NumberType, CallType
    <2> HIDE DEF fr
    <2>5. \A t \in Task : LiveIn(state, t) <=> Live(t)
        BY DEF LiveIn, Live
    <2>6. \A t \in Task : LiveIn(state, t) => HandedOver(regs, fr, t).sp \in Stacks
        BY <1>3, <2>4, <2>5, OtherTasks DEF HandedOver
    <2>7. \A t \in Members(readq') \cup Members(waitq') :
            /\ t \in Task
            /\ HandedOver(regs, fr, t).a2 \in {HandedOver(regs, fr, t).sp} \cup Unmapped
        BY <1>2, <1>3, OtherTasks DEF HandedOver
    <2>8. ASSUME NEW t \in Task,
                 LiveIn(state, t), state[t] # "blocked", HasJoined(HandedOver(regs, fr, t))
          PROVE  Delivered(HandedOver(regs, fr, t), space'[t], state, mem', exitcode')
        <3>1. CASE t = curr
            <4>1. pid \in Task /\ state[pid] = "terminated" /\ code = exitcode[pid]
                BY <1>1, <2>2, <2>4, <2>8, <3>1 DEF HandedOver, HasJoined, StateRead, ExitCodeRead
            <4>2. mem'[space[curr]][va] = code
                BY <1>3, <1>6, <2>2 DEF TypeOK, IsMapped
            <4>3. QED
                BY <1>2, <2>1, <2>4, <3>1, <4>1, <4>2 DEF HandedOver, Delivered
        <3>2. CASE t # curr
            <4>1. HandedOver(regs, fr, t) = Context(t) /\ Context(t) = regs[t] /\ Live(t)
                BY <1>3, <2>5, <2>8, <3>2, OtherTasks DEF HandedOver
            <4>2. Delivered(Context(t), space[t], state, mem, exitcode)
                BY <1>3, <2>8, <4>1 DEF DeliverInv, JoinersHaveStatus
            <4>3. space[t] = space[curr] => regs[t].sp # va
                BY <1>3, <2>1, <3>2, <4>1, OtherTasks DEF StackIsolation
            <4>4. mem'[space[t]][regs[t].sp] = mem[space[t]][regs[t].sp]
                BY <1>3, <2>2, <4>3 DEF TypeOK
            <4>5. QED
                BY <1>2, <4>1, <4>2, <4>4 DEF Delivered
        <3>3. QED
            BY <3>1, <3>2
    <2>9. QED
        BY <1>3, <2>3, <2>6, <2>7, <2>8, ScheduleDelivers
<1>7. QED
    BY <1>5, <1>6

\* exit() writes its code to the stack of the joiner it wakes.
LEMMA ExitDelivers ==
    ASSUME IInv, StackIsolation, DeliverInv, SysExit PROVE DeliverInv'
<1>1. PICK code \in ExitCodes :
        /\ exitcode' = [exitcode EXCEPT ![curr] = code]
        /\ mem' = DeliveredStatus(code)
        /\ Schedule(Readied([state EXCEPT ![curr] = "terminated"], Joiner),
                    JoinerRegs, Call(EXIT, code, 0))
    BY DEF SysExit
<1>2. InUser /\ UNCHANGED <<space, readq>> /\ waitq' = Dequeue(waitq, Joiner)
    BY DEF SysExit, Calling
<1> DEFINE st == Readied([state EXCEPT ![curr] = "terminated"], Joiner)
           fr == Call(EXIT, code, 0)
           rg == JoinerRegs
<1>3. TypeOK /\ curr \in Task /\ power = "on" /\ state[curr] = "running"
    BY <1>2, CurrentIsAwake DEF IInv
<1>4. fr \in SameStack
    BY <1>3, ArgumentAssumption, NumberType, CallReturns DEF TypeOK
<1>5. \A t \in Joiner : /\ t \in Members(waitq) /\ t \in Task /\ t # curr
                        /\ regs[t].a1 = curr /\ state[t] = "blocked"
    BY <1>3, OtherTasks DEF Joiner, FirstOf
<1>6. /\ rg \in [Task -> Registers]
      /\ \A t \in Task : /\ rg[t].sp = regs[t].sp /\ rg[t].a1 = regs[t].a1 /\ rg[t].a2 = regs[t].a2
                         /\ t \notin Joiner => rg[t] = regs[t]
                         /\ t \in Joiner /\ FailedJoiner(t) => rg[t].a0 = -1
    BY <1>3, NumberType, ReturnType DEF JoinerRegs, TypeOK
<1>7. Schedule(st, rg, fr) /\ Schedulable(st, rg, fr)
    BY <1>1, <1>2, <1>4, <1>6, ExitIsHanded DEF SameStack, Handed, Schedulable
<1>8. /\ \A t \in Task : t \notin Joiner /\ t # curr => st[t] = state[t]
      /\ st[curr] = "terminated"
    BY <1>3, <1>5 DEF Readied, TypeOK
<1>9. \A s \in Space, va \in Words :
        mem'[s][va] = IF \E t \in Joiner : space[t] = s /\ regs[t].a2 = va
                      THEN code ELSE mem[s][va]
    BY <1>1 DEF DeliveredStatus
<1>10. fr.sp = frame.sp
    BY <1>4 DEF SameStack
<1> HIDE DEF st, fr, rg
<1>11. \A t \in Task : LiveIn(st, t) => Live(t)
    BY <1>3, <1>5, <1>8 DEF LiveIn, Live
<1>12. \A t \in Task : LiveIn(st, t) => HandedOver(rg, fr, t).sp \in Stacks
    BY <1>3, <1>6, <1>10, <1>11, OtherTasks DEF HandedOver
<1>13. \A t \in Members(readq') \cup Members(waitq') :
        /\ t \in Task
        /\ HandedOver(rg, fr, t).a2 \in {HandedOver(rg, fr, t).sp} \cup Unmapped
    <2>1. Members(waitq') \subseteq Members(waitq) /\ Members(readq') = Members(readq)
        BY <1>2 DEF Dequeue, Members
    <2>2. QED
        BY <1>3, <1>6, <2>1, OtherTasks DEF HandedOver
<1>14. ASSUME NEW t \in Task,
              LiveIn(st, t), st[t] # "blocked", HasJoined(HandedOver(rg, fr, t))
       PROVE  Delivered(HandedOver(rg, fr, t), space'[t], st, mem', exitcode')
    <2>1. t # curr /\ HandedOver(rg, fr, t) = rg[t] /\ Context(t) = regs[t] /\ Live(t)
        BY <1>3, <1>8, <1>11, <1>14, OtherTasks DEF LiveIn, HandedOver
    <2>2. rg[t].sp \in Stacks /\ space[t] \in Space /\ space'[t] = space[t] /\ Stacks \subseteq Words
        BY <1>2, <1>3, <1>12, <1>14, <2>1 DEF TypeOK, Words
    <2>3. CASE t \in Joiner
        <3>1. ~ FailedJoiner(t) /\ rg[t].a1 = curr
            BY <1>5, <1>6, <1>14, <2>1, <2>3 DEF HasJoined, WAITPID
        <3>2. regs[t].a2 = regs[t].sp
            BY <1>3, <1>5, <2>3, <3>1, OtherTasks, AddressAssumption DEF FailedJoiner, IsMapped
        <3>3. mem'[space[t]][rg[t].sp] = code
            BY <1>6, <1>9, <2>2, <2>3, <3>2
        <3>4. exitcode'[curr] = code
            BY <1>1, <1>3 DEF TypeOK
        <3>5. QED
            BY <1>6, <1>8, <2>1, <2>2, <3>1, <3>2, <3>3, <3>4 DEF Delivered
    <2>4. CASE t \notin Joiner
        <3>1. rg[t] = regs[t] /\ st[t] = state[t]
            BY <1>6, <1>8, <2>1, <2>4
        <3>2. Delivered(regs[t], space[t], state, mem, exitcode) /\ regs[t].a1 \in Task
            BY <1>3, <1>14, <2>1, <3>1 DEF DeliverInv, JoinersHaveStatus, HasJoined
        <3>3. state[regs[t].a1] = "terminated" /\ regs[t].a1 # curr
            BY <1>3, <3>2 DEF Delivered
        <3>4. st[regs[t].a1] = "terminated"
            BY <1>5, <1>8, <3>2, <3>3
        <3>5. exitcode'[regs[t].a1] = exitcode[regs[t].a1]
            BY <1>1, <1>3, <3>2, <3>3 DEF TypeOK
        <3>6. ASSUME NEW u \in Joiner, space[u] = space[t], regs[u].a2 = regs[t].sp PROVE FALSE
            <4>1. regs[u].a2 = regs[u].sp
                BY <1>3, <1>5, <2>2, <3>1, <3>6, OtherTasks, AddressAssumption
            <4>2. u \in Task /\ u # t /\ Live(u) /\ Context(u) = regs[u]
                BY <1>3, <1>5, <2>4, OtherTasks
            <4>3. QED
                BY <2>1, <3>6, <4>1, <4>2 DEF StackIsolation
        <3>7. mem'[space[t]][regs[t].sp] = mem[space[t]][regs[t].sp]
            BY <1>9, <2>2, <3>1, <3>6
        <3>8. QED
            BY <2>1, <2>2, <3>1, <3>2, <3>4, <3>5, <3>7 DEF Delivered
    <2>5. QED
        BY <2>3, <2>4
<1>15. QED
    BY <1>3, <1>7, <1>12, <1>13, <1>14, ScheduleDelivers

\* A new thread has joined nobody, and its slot was not that of a joined one.
LEMMA CloneDelivers ==
    ASSUME FewTasks, IInv, DeliverInv, SysClone PROVE DeliverInv'
<1>1. PICK stack \in FreshStacks :
        \/ \E child \in FreeSlots :
            /\ exitcode' = [exitcode EXCEPT ![child] = exitcode[curr]]
            /\ space' = [space EXCEPT ![child] = space[curr]]
            /\ Schedule([state EXCEPT ![child] = "ready"], Cloned(child, stack),
                        Return(Call(CLONE, 0, stack), child))
        \/ /\ Schedule(state, regs, Return(Call(CLONE, 0, stack), -1))
           /\ UNCHANGED <<exitcode, space>>
    BY DEF SysClone
<1>2. InUser /\ TypeOK /\ UNCHANGED <<mem, readq, waitq>>
    BY DEF SysClone, Calling, IInv, queues
<1>3. curr \in Task /\ power = "on" /\ state[curr] = "running"
    BY <1>2, CurrentIsAwake
<1>4. stack \in Stacks /\ stack \in Int
    BY AddressAssumption DEF FreshStacks, UnusedStacks
<1>5. Call(CLONE, 0, stack) \in SameStack
    BY <1>2, <1>4, NumberType, CallReturns DEF TypeOK
<1>6. ASSUME NEW child \in FreeSlots,
             exitcode' = [exitcode EXCEPT ![child] = exitcode[curr]],
             space' = [space EXCEPT ![child] = space[curr]],
             Schedule([state EXCEPT ![child] = "ready"], Cloned(child, stack),
                      Return(Call(CLONE, 0, stack), child))
      PROVE  DeliverInv'
    <2> DEFINE st == [state EXCEPT ![child] = "ready"]
               rg == Cloned(child, stack)
               fr == Return(Call(CLONE, 0, stack), child)
    <2>1. child \in Task /\ state[child] = "created" /\ child \in Int /\ child # curr
        BY <1>3 DEF FreeSlots, Task
    <2>2. child # WAITPID
        BY <2>1, TasksAssumption DEF Task, FewTasks, WAITPID
    <2>3. fr \in SameStack /\ fr.a0 = child
        BY <1>5, <2>1, ReturnKeepsStack, ReturnType DEF SameStack
    <2>4. regs[curr] \in Registers /\ Return(regs[curr], 0) \in Registers
          /\ Return(regs[curr], 0).a0 = 0
        BY <1>2, <1>3, NumberType, ReturnType DEF TypeOK
    <2>5. /\ rg \in [Task -> Registers] /\ rg[child].sp = stack /\ rg[child].a0 = 0
          /\ \A t \in Task : t # child => rg[t] = regs[t]
        <3>1. /\ [Return(regs[curr], 0) EXCEPT !.sp = stack] \in Registers
              /\ [Return(regs[curr], 0) EXCEPT !.sp = stack].sp = stack
              /\ [Return(regs[curr], 0) EXCEPT !.sp = stack].a0 = 0
            BY <1>4, <2>4 DEF Registers
        <3>2. QED
            BY <1>2, <2>1, <3>1 DEF Cloned, TypeOK
    <2>6. /\ \A t \in Task : t # child => st[t] = state[t]
          /\ \A t \in Task : t # child /\ LiveIn(st, t) => Live(t)
          /\ \A t \in Task : state[t] = "terminated" => t # child /\ st[t] = "terminated"
        BY <1>2, <2>1 DEF LiveIn, Live, TypeOK
    <2>7. Schedulable(st, rg, fr)
        BY <1>2, <1>3, <2>1, <2>3, <2>5
           DEF Schedulable, SameStack, TypeOK, States, IInv, CurrentIsRunning
    <2>8. fr.sp = frame.sp
        BY <2>3 DEF SameStack
    <2> HIDE DEF st, rg, fr
    <2>9. Schedule(st, rg, fr)
        BY <1>6 DEF st, rg, fr
    <2>10. \A t \in Task : LiveIn(st, t) => HandedOver(rg, fr, t).sp \in Stacks
        BY <1>3, <1>4, <2>1, <2>5, <2>6, <2>8, OtherTasks DEF HandedOver
    <2>11. \A t \in Members(readq') \cup Members(waitq') :
            /\ t \in Task
            /\ HandedOver(rg, fr, t).a2 \in {HandedOver(rg, fr, t).sp} \cup Unmapped
        <3>1. \A t \in Members(readq) \cup Members(waitq) : t # child
            BY <1>3, <2>1, OtherTasks
        <3>2. QED
            BY <1>2, <1>3, <2>5, <3>1, OtherTasks DEF HandedOver
    <2>12. ASSUME NEW t \in Task,
                  LiveIn(st, t), st[t] # "blocked", HasJoined(HandedOver(rg, fr, t))
           PROVE  Delivered(HandedOver(rg, fr, t), space'[t], st, mem', exitcode')
        <3>1. t # child
            BY <2>1, <2>5, <2>12 DEF HandedOver, HasJoined, WAITPID
        <3>2. t # curr
            BY <2>2, <2>3, <2>12 DEF HandedOver, HasJoined
        <3>3. HandedOver(rg, fr, t) = regs[t] /\ Context(t) = regs[t] /\ Live(t) /\ st[t] = state[t]
            BY <1>3, <2>5, <2>6, <2>12, <3>1, <3>2, OtherTasks DEF HandedOver
        <3>4. Delivered(regs[t], space[t], state, mem, exitcode) /\ regs[t].a1 \in Task
            BY <1>3, <2>12, <3>3 DEF DeliverInv, JoinersHaveStatus, HasJoined
        <3>5. regs[t].a1 # child /\ st[regs[t].a1] = "terminated"
            BY <2>6, <3>4 DEF Delivered
        <3>6. exitcode'[regs[t].a1] = exitcode[regs[t].a1] /\ space'[t] = space[t]
            BY <1>2, <1>6, <3>1, <3>4, <3>5 DEF TypeOK
        <3>7. QED
            BY <1>2, <3>3, <3>4, <3>5, <3>6 DEF Delivered
    <2>13. QED
        BY <1>2, <2>7, <2>9, <2>10, <2>11, <2>12, ScheduleDelivers
<1>7. ASSUME Schedule(state, regs, Return(Call(CLONE, 0, stack), -1)), UNCHANGED <<exitcode, space>>
      PROVE  DeliverInv'
    <2>1. /\ Return(Call(CLONE, 0, stack), -1) \in SameStack
          /\ Return(Call(CLONE, 0, stack), -1).a0 = -1 /\ -1 # WAITPID
        BY <1>5, NumberType, ReturnKeepsStack, ReturnType DEF SameStack, WAITPID
    <2>2. QED
        BY <1>2, <1>7, <2>1, ErrorDelivers
<1>8. QED
    BY <1>1, <1>6, <1>7

-----------------------------------------------------------------------------
(* Steps that do not reschedule. *)

\* A character goes to the stack of its reader.
LEMMA InterruptDelivers ==
    ASSUME IInv, StackIsolation, DeliverInv, ExternalInterrupt PROVE DeliverInv'
<1>1. PICK b \in Bursts :
        /\ readq' = Dequeue(readq, Readers(Len(b)))
        /\ state' = Readied(state, Readers(Len(b)))
        /\ regs' = [t \in Task |-> IF t \in Readers(Len(b)) THEN Return(regs[t], 1) ELSE regs[t]]
        /\ mem' = Received(b)
    BY DEF ExternalInterrupt
<1> DEFINE W == Readers(Len(b))
<1>2. power = "on" /\ TypeOK /\ UNCHANGED <<curr, exitcode, space, frame, waitq>>
    BY DEF ExternalInterrupt, IInv
<1>3. \A t \in W : /\ t \in Members(readq) /\ t \in Task /\ t # curr
                   /\ state[t] = "blocked"
    BY <1>2, OtherTasks DEF Readers
<1>4. \A t \in Task : Return(regs[t], 1).a0 = 1 /\ Return(regs[t], 1).sp = regs[t].sp
                      /\ Return(regs[t], 1).a2 = regs[t].a2
    BY <1>2, NumberType, ReturnType DEF TypeOK
<1>5. /\ state' = Readied(state, W)
      /\ \A t \in Task : regs'[t] = IF t \in W THEN Return(regs[t], 1) ELSE regs[t]
      /\ readq' = Dequeue(readq, W)
    BY <1>1
<1>6. \A s \in Space, va \in Words :
        (\A u \in W : ~ (space[u] = s /\ regs[u].a2 = va)) => mem'[s][va] = mem[s][va]
    <2> SUFFICES ASSUME NEW s \in Space, NEW va \in Words,
                        \A u \in W : ~ (space[u] = s /\ regs[u].a2 = va)
                 PROVE  Received(b)[s][va] = mem[s][va]
        BY <1>1
    <2>1. {t \in Readers(Len(b)) : space[t] = s /\ regs[t].a2 = va} = {}
        OBVIOUS
    <2>2. LastOf(readq, {}) = {}
        BY DEF LastOf
    <2>3. QED
        BY <2>1, <2>2 DEF Received
<1> HIDE DEF W
<1>7. \A t \in Task : /\ Context(t)' = IF t \in W THEN Return(regs[t], 1) ELSE Context(t)
                      /\ Live(t)' <=> Live(t)
                      /\ state'[t] = IF t \in W THEN "ready" ELSE state[t]
    BY <1>2, <1>3, <1>5 DEF Context, Live, Readied
<1>8. StacksAreKnown'
    BY <1>2, <1>3, <1>4, <1>7, OtherTasks DEF StacksAreKnown
<1>9. SleepersPassStack'
    <2>1. Members(readq') \subseteq Members(readq) /\ Members(waitq') = Members(waitq)
        BY <1>2, <1>5 DEF Dequeue, Members
    <2>2. \A t \in Members(readq) \cup Members(waitq) : regs'[t].a2 \in {regs'[t].sp} \cup Unmapped
        BY <1>2, <1>4, <1>5, OtherTasks
    <2>3. QED
        BY <2>1, <2>2 DEF SleepersPassStack, Members
<1>10. ASSUME NEW t \in Task, Live(t)', state'[t] # "blocked", HasJoined(Context(t)')
       PROVE  Delivered(Context(t)', space'[t], state', mem', exitcode')
    <2>1. t \notin W /\ Context(t)' = Context(t) /\ state'[t] = state[t] /\ Live(t)
        BY <1>4, <1>7, <1>10 DEF HasJoined, WAITPID
    <2>2. Delivered(Context(t), space[t], state, mem, exitcode) /\ Context(t).a1 \in Task
        BY <1>2, <1>10, <2>1 DEF DeliverInv, JoinersHaveStatus, HasJoined
    <2>3. state'[Context(t).a1] = "terminated"
        BY <1>3, <1>7, <2>2 DEF Delivered
    <2>4. Context(t).sp \in Stacks /\ space[t] \in Space /\ Stacks \subseteq Words
        BY <1>2, <2>1, OtherTasks DEF TypeOK, Words
    <2>5. ASSUME NEW u \in W, space[u] = space[t], regs[u].a2 = Context(t).sp PROVE FALSE
        <3>1. regs[u].a2 = regs[u].sp
            BY <1>2, <1>3, <2>4, <2>5, OtherTasks, AddressAssumption DEF Words
        <3>2. u \in Task /\ u # t /\ Live(u) /\ Context(u) = regs[u]
            BY <1>2, <1>3, <2>1, OtherTasks
        <3>3. QED
            BY <2>1, <2>5, <3>1, <3>2 DEF StackIsolation
    <2>6. mem'[space[t]][Context(t).sp] = mem[space[t]][Context(t).sp]
        BY <1>6, <2>4, <2>5
    <2>7. QED
        BY <1>2, <2>1, <2>2, <2>3, <2>6 DEF Delivered
<1>11. JoinersHaveStatus'
    BY <1>10 DEF JoinersHaveStatus
<1>12. QED
    BY <1>8, <1>9, <1>11 DEF DeliverInv

\* User code stores to futex words only, and no call but waitpid() leaves its
\* number in a0.
LEMMA UnscheduledDelivers ==
    ASSUME IInv, DeliverInv,
           SysWrite \/ SysUnknown \/ UserFault \/ UserStore \/ SysFutexWakeHangs
              \/ UNCHANGED vars
    PROVE  DeliverInv'
<1>1. CASE UserFault \/ SysFutexWakeHangs
    BY <1>1 DEF UserFault, SysFutexWakeHangs, DeliverInv
<1>2. CASE UNCHANGED vars
    BY <1>2 DEF vars, DeliverInv, StacksAreKnown, SleepersPassStack, JoinersHaveStatus,
                Live, Context, Members
<1>3. CASE SysWrite \/ SysUnknown
    <2>1. PICK number \in Int \ {WAITPID}, x \in Int, y \in Int : frame' = Call(number, x, y)
        <3>1. frame.sp \in Int
            BY DEF IInv, TypeOK, Registers
        <3>2. WRITE \in Int \ {WAITPID} /\ 0 \in Int /\ 1 \in Int
            BY DEF WRITE, WAITPID
        <3>3. QED
            BY <1>3, <3>1, <3>2, ArgumentAssumption DEF SysWrite, SysUnknown
    <2>2. frame'.a0 # WAITPID /\ frame'.sp = frame.sp
        BY <2>1, CallType DEF IInv, TypeOK
    <2>3. InUser /\ UNCHANGED <<state, curr, exitcode, space, regs, readq, waitq, mem, power>>
        BY <1>3 DEF SysWrite, SysUnknown, Calling, queues
    <2>4. StacksAreKnown' /\ SleepersPassStack' /\ JoinersHaveStatus'
        BY <2>2, <2>3
           DEF InUser, DeliverInv, StacksAreKnown, SleepersPassStack, JoinersHaveStatus, Live,
               Context, Members, HasJoined
    <2>5. QED
        BY <2>4 DEF DeliverInv
<1>4. CASE UserStore
    <2>1. PICK uaddr \in Futexes, val \in FutexValues : mem' = Stored(mem, curr, uaddr, val)
        BY <1>4 DEF UserStore
    <2>2. power = "on" /\ UNCHANGED <<state, curr, exitcode, space, regs, frame, readq, waitq, power>>
        BY <1>4 DEF UserStore, InUser, queues
    <2>3. \A s \in Space, va \in Stacks : mem'[s][va] = mem[s][va]
        BY <2>1, AddressAssumption DEF Stored, IsMapped, Words, IInv, TypeOK
    <2>4. StacksAreKnown' /\ SleepersPassStack'
        BY <2>2 DEF DeliverInv, StacksAreKnown, SleepersPassStack, Live, Context, Members
    <2>5. \A t \in Task : space[t] \in Space
        BY DEF IInv, TypeOK
    <2>6. \A t \in Task : Live(t) => Context(t).sp \in Stacks
        BY <2>2, OtherTasks
    <2>7. JoinersHaveStatus'
        BY <2>2, <2>3, <2>5, <2>6
           DEF DeliverInv, JoinersHaveStatus, Live, Context, HasJoined, Delivered
    <2>8. QED
        BY <2>4, <2>7 DEF DeliverInv
<1>5. QED
    BY <1>1, <1>2, <1>3, <1>4

LEMMA InitDelivers == Init => DeliverInv
<1> SUFFICES ASSUME Init PROVE DeliverInv
    OBVIOUS
<1>1. /\ [Zeroed EXCEPT !.sp = MainStack].a0 = 0 /\ [Zeroed EXCEPT !.sp = MainStack].sp = MainStack
    BY DEF Zeroed
<1>2. \A t \in Task : Live(t) => t = 0 \/ t \in Space
    BY DEF Init, Live
<1>3. \A t \in Task : Live(t) => Context(t).a0 = 0 /\ Context(t).sp = MainStack
    BY <1>1, <1>2 DEF Init, Context
<1>4. Members(readq) = {} /\ Members(waitq) = {}
    BY EmptyFifo DEF Init
<1>5. QED
    BY <1>3, <1>4, AddressAssumption
       DEF DeliverInv, StacksAreKnown, SleepersPassStack, JoinersHaveStatus, HasJoined, WAITPID

-----------------------------------------------------------------------------
\* Whichever comes first, the call or the exit, a task that comes back from a
\* successful waitpid() finds the exit code of the task it named in its variable.
THEOREM StatusIsDelivered ==
    ASSUME FewTasks PROVE Spec => []JoinDelivers
<1>1. IInv /\ StackIsolation /\ DeliverInv /\ [Next]_vars => DeliverInv'
    BY UnscheduledDelivers, InterruptDelivers, TimerDelivers, BlockingCallDelivers,
       ErrorCallDelivers, FutexWaitDelivers, FutexWakeDelivers, WaitpidDoneDelivers,
       ExitDelivers, CloneDelivers
       DEF Next
<1>2. IInv /\ DeliverInv => JoinDelivers
    BY OtherTasks DEF DeliverInv, JoinersHaveStatus, JoinDelivers, HasJoined, Delivered, Words
<1>3. QED
    BY InitDelivers, Invariance, StacksAreIsolated, <1>1, <1>2, PTL DEF Spec

=============================================================================
