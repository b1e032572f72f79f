----------------------------- MODULE KernelProofs -----------------------------
(***************************************************************************)
(* Proofs about Kernel for any number of tasks, programs, stacks, futex    *)
(* words and arguments.                                                    *)
(*                                                                         *)
(* The inductive invariant is IInv: the types, the discipline of the three *)
(* queues and "curr_task_num is the running task".  Each needs the others: *)
(* a handler may enqueue the current task because it is running and hence  *)
(* in no queue, and the wakers read saved registers of the right type.     *)
(*                                                                         *)
(* The action properties come after it: the processor goes round, a        *)
(* terminated task stays as it is, and nobody is overtaken in a queue.     *)
(***************************************************************************)
EXTENDS Kernel, FifoQueueProofs, FiniteSetTheorems, TLAPS

IInv == TypeOK /\ QueueDiscipline /\ CurrentIsRunning

\* QueueDiscipline of given states, saved registers and queues.
Disciplined(st, rg, rq, wq, fq) ==
    /\ \A t \in Task : st[t] = "blocked" <=> t \in Members(rq) \cup Members(wq) \cup Members(fq)
    /\ Members(rq) \cap Members(wq) = {}
    /\ Members(rq) \cap Members(fq) = {}
    /\ Members(wq) \cap Members(fq) = {}
    /\ IsFifo(rq) /\ IsFifo(wq) /\ IsFifo(fq)
    /\ \A t \in Members(rq) : rg[t].a0 = READ
    /\ \A t \in Members(wq) : rg[t].a0 = WAITPID
    /\ \A t \in Members(fq) : rg[t].a0 = 0 /\ rg[t].a1 \in Futexes

\* What a handler may hand to schedule(): the current task is running or was
\* just blocked or terminated, and no other task is running.
Schedulable(st, rg, fr) ==
    /\ st \in [Task -> States]
    /\ rg \in [Task -> Registers]
    /\ fr \in Registers
    /\ \A t \in Task : st[t] = "running" => t = curr
    /\ curr \in Task => st[curr] # "ready"

-----------------------------------------------------------------------------
(* The scheduler. *)

\* The idle kernel has no current task.
LEMMA IdleIsNoTask == Idle \notin Task
BY TasksAssumption DEF Idle, Task

\* schedule() makes the picked task the running one and blocks, readies or ends
\* none; it saves the live registers of the task that was current.
LEMMA ScheduleEffect ==
    ASSUME NEW st, NEW rg, NEW fr, TypeOK, Schedulable(st, rg, fr), Schedule(st, rg, fr)
    PROVE  /\ curr' \in Task \cup {Idle}
           /\ state' \in [Task -> States]
           /\ regs' \in [Task -> Registers]
           /\ frame' \in Registers
           /\ \A t \in Task : state'[t] = "running" <=> t = curr'
           /\ \A t \in Task : \A s \in {"created", "blocked", "terminated"} :
                  state'[t] = s <=> st[t] = s
           /\ regs' = Saved(rg, fr)
           /\ curr' # Idle => frame' = regs'[curr']
<1>1. PICK next \in Picked(st) :
        /\ curr' = next
        /\ state' = Dispatched(st, next)
        /\ regs' = Saved(rg, fr)
        /\ frame' = IF next = Idle THEN Zeroed ELSE Saved(rg, fr)[next]
    BY DEF Schedule
<1>2. curr \in Task \cup {Idle}
    BY DEF TypeOK
<1>3. /\ next \in Task \cup {Idle}
      /\ next \in Task => st[next] \in {"ready", "running"}
      /\ next = Idle => \A t \in Task : st[t] # "running"
    BY <1>1, IdleIsNoTask DEF Picked, Runnable
<1>4. Saved(rg, fr) \in [Task -> Registers]
    BY DEF Saved, Schedulable
<1>5. Zeroed \in Registers
    BY DEF Zeroed, Registers
<1>6. state' \in [Task -> States]
    BY <1>1, <1>3 DEF Dispatched, Schedulable, States
<1>7. \A t \in Task : state'[t] = "running" <=> t = curr'
    BY <1>1, <1>2, <1>3, IdleIsNoTask DEF Dispatched, Schedulable, States
<1>8. \A t \in Task : \A s \in {"created", "blocked", "terminated"} :
        state'[t] = s <=> st[t] = s
    BY <1>1, <1>2, <1>3, IdleIsNoTask DEF Dispatched, Schedulable, States
<1>9. QED
    BY <1>1, <1>3, <1>4, <1>5, <1>6, <1>7, <1>8, IdleIsNoTask

\* After schedule() the queues are in order if the handler left them in order.
LEMMA ScheduleKeepsDiscipline ==
    ASSUME NEW st, NEW rg, NEW fr, TypeOK, Schedulable(st, rg, fr), Schedule(st, rg, fr),
           Disciplined(st, Saved(rg, fr), readq', waitq', futexq')
    PROVE  QueueDiscipline' /\ CurrentIsRunning'
<1>2. QueueDiscipline'
    BY ScheduleEffect DEF QueueDiscipline, Disciplined, Sleepers, IsFifo, Members
<1>3. CurrentIsRunning'
    BY ScheduleEffect DEF CurrentIsRunning
<1>4. QED
    BY <1>2, <1>3

-----------------------------------------------------------------------------
(* Facts that several actions use. *)

\* A set of tasks has a number of elements.
LEMMA TaskCardinality == ASSUME NEW W \in SUBSET Task PROVE Cardinality(W) \in Nat
<1>1. IsFiniteSet(Task)
    BY TasksAssumption, FS_Interval DEF Task
<1>2. IsFiniteSet(W)
    BY <1>1, FS_Subset
<1>3. QED
    BY <1>2, FS_CardinalityType

\* The numbers of the system call interface are integers.
LEMMA NumberType ==
    /\ READ \in Int /\ WRITE \in Int /\ EXIT \in Int /\ CLONE \in Int
    /\ WAITPID \in Int /\ FUTEX \in Int /\ FUTEX_WAIT \in Int /\ FUTEX_WAKE \in Int
    /\ -EAGAIN \in Int /\ -EFAULT \in Int /\ -ENOSYS \in Int /\ -1 \in Int
    /\ 0 \in Int /\ 1 \in Int /\ 2 \in Int
BY DEF READ, WRITE, EXIT, CLONE, WAITPID, FUTEX, FUTEX_WAIT, FUTEX_WAKE, EAGAIN, EFAULT, ENOSYS

\* The registers user code loads for a system call, and those a handler returns.
LEMMA CallType ==
    ASSUME NEW number \in Int, NEW x \in Int, NEW y \in Int, frame \in Registers
    PROVE  /\ Call(number, x, y) \in Registers
           /\ Call(number, x, y).a0 = number
           /\ Call(number, x, y).a1 = x
           /\ Call(number, x, y).a2 = y
           /\ Call(number, x, y).sp = frame.sp
BY DEF Call, Registers

\* Setting the result changes nothing but a0.
LEMMA ReturnType ==
    ASSUME NEW value \in Int, NEW fr \in Registers
    PROVE  /\ Return(fr, value) \in Registers
           /\ Return(fr, value).a0 = value
           /\ Return(fr, value).a1 = fr.a1
           /\ Return(fr, value).a2 = fr.a2
           /\ Return(fr, value).sp = fr.sp
BY DEF Return, Registers

\* A task in user mode is the running one and sleeps in no queue.
LEMMA CurrentIsAwake ==
    ASSUME IInv, InUser
    PROVE  /\ curr \in Task /\ power = "on"
           /\ state[curr] = "running"
           /\ curr \notin Sleepers
           /\ \A t \in Task : state[t] = "running" => t = curr
BY IdleIsNoTask DEF IInv, TypeOK, QueueDiscipline, CurrentIsRunning, InUser

\* What the interrupted task hands to schedule().
LEMMA RunningIsSchedulable ==
    ASSUME IInv, power = "on", NEW fr \in Registers
    PROVE  /\ Schedulable(state, regs, fr)
           /\ Disciplined(state, Saved(regs, fr), readq, waitq, futexq)
BY IdleIsNoTask
   DEF IInv, TypeOK, QueueDiscipline, CurrentIsRunning, Schedulable, Disciplined,
       Sleepers, Saved, IsQueue

\* The queue structure of FifoQueue agrees with the type of a queue.
LEMMA FifoIsQueue ==
    ASSUME NEW q, IsQueue(q), IsFifo(q)
    PROVE  /\ \A t \in Task : t \notin Members(q) => IsQueue(Enqueue(q, t))
           /\ \A W \in SUBSET Task : IsQueue(Dequeue(q, W))
BY DEF IsQueue, IsFifo, Members, Enqueue, Dequeue

-----------------------------------------------------------------------------
(* Every action preserves IInv.  First the handlers that only reschedule. *)

\* A handler that leaves states and queues alone and calls schedule().
LEMMA RescheduleStep ==
    ASSUME IInv, power = "on", NEW fr \in Registers, Schedule(state, regs, fr),
           UNCHANGED <<readq, waitq, futexq, power>>,
           exitcode' \in [Task -> Int], space' \in [Task -> Space],
           mem' \in [Space -> [Words -> Int]]
    PROVE  IInv'
<1>1. /\ Schedulable(state, regs, fr)
      /\ Disciplined(state, Saved(regs, fr), readq, waitq, futexq)
    BY RunningIsSchedulable
<1>2. TypeOK
    BY DEF IInv
<1>3. QueueDiscipline' /\ CurrentIsRunning'
    BY <1>1, <1>2, ScheduleKeepsDiscipline
<1>4. TypeOK'
    BY <1>1, <1>2, ScheduleEffect DEF TypeOK, IsQueue, Members
<1>5. QED
    BY <1>3, <1>4 DEF IInv

\* The timer only reschedules.
LEMMA TimerStep == ASSUME IInv, Timer PROVE IInv'
<1>1. /\ power = "on" /\ Schedule(state, regs, frame)
      /\ UNCHANGED <<exitcode, space, readq, waitq, futexq, mem, power>>
    BY DEF Timer, queues
<1>2. TypeOK
    BY DEF IInv
<1>3. QED
    BY <1>1, <1>2, RescheduleStep DEF TypeOK

\* A waitpid() that fails returns -1 and reschedules.
LEMMA WaitpidErrorStep == ASSUME IInv, SysWaitpidError PROVE IInv'
<1>1. PICK pid \in PidArgs :
        Schedule(state, regs, Return(Call(WAITPID, pid, frame.sp), -1))
    BY DEF SysWaitpidError
<1>2. frame \in Registers /\ frame.sp \in Int /\ pid \in Int
    BY ArgumentAssumption DEF IInv, TypeOK, Registers
<1>3. Return(Call(WAITPID, pid, frame.sp), -1) \in Registers
    BY <1>2, NumberType, CallType, ReturnType
<1>4. QED
    BY <1>1, <1>3, RescheduleStep DEF SysWaitpidError, Calling, InUser, IInv, TypeOK, queues

\* A waitpid() for a terminated task stores its status and reschedules.
LEMMA WaitpidDoneStep == ASSUME IInv, SysWaitpidDone PROVE IInv'
<1>1. PICK pid \in PidArgs, va \in {frame.sp} \cup Unmapped :
        /\ "terminated" \in StateRead(pid)
        /\ \E code \in ExitCodeRead(pid) : mem' = Stored(mem, curr, va, code)
        /\ Schedule(state, regs, IF IsMapped(va) THEN Call(WAITPID, pid, va)
                                 ELSE Return(Call(WAITPID, pid, va), -1))
    BY DEF SysWaitpidDone
<1>2. frame \in Registers /\ va \in Int /\ pid \in Int
    BY <1>1, ArgumentAssumption, AddressAssumption DEF IInv, TypeOK, Registers
<1>3. /\ Call(WAITPID, pid, va) \in Registers
      /\ Return(Call(WAITPID, pid, va), -1) \in Registers
    BY <1>2, NumberType, CallType, ReturnType
<1>4. mem' \in [Space -> [Words -> Int]]
    <2>1. PICK code \in ExitCodeRead(pid) : mem' = Stored(mem, curr, va, code)
        BY <1>1
    <2>2. code \in Int
        BY <2>1, ArgumentAssumption DEF ExitCodeRead, IInv, TypeOK
    <2>3. QED
        BY <2>1, <2>2 DEF Stored, IsMapped, IInv, TypeOK
<1>5. QED
    BY <1>1, <1>3, <1>4, RescheduleStep
       DEF SysWaitpidDone, Calling, InUser, IInv, TypeOK, queues

\* A futex call with an error returns it and reschedules.
LEMMA FutexErrorStep ==
    ASSUME IInv, SysFutexFault \/ SysFutexOther PROVE IInv'
<1>1. PICK fr \in Registers : Schedule(state, regs, fr)
    <2>1. frame \in Registers
        BY DEF IInv, TypeOK
    <2>2. CASE SysFutexFault
        BY <2>1, <2>2, NumberType, CallType, ReturnType, AddressAssumption DEF SysFutexFault
    <2>3. CASE SysFutexOther
        BY <2>1, <2>3, NumberType, CallType, ReturnType, AddressAssumption DEF SysFutexOther
    <2>4. QED
        BY <2>2, <2>3
<1>2. /\ power = "on"
      /\ UNCHANGED <<exitcode, space, readq, waitq, futexq, mem, power>>
    BY DEF SysFutexFault, SysFutexOther, Calling, InUser, queues
<1>3. QED
    BY <1>1, <1>2, RescheduleStep DEF IInv, TypeOK

-----------------------------------------------------------------------------
(* The handlers that block the caller: read, waitpid and futex wait. *)

\* The running task blocks and is appended to queue q; sleepers of the other
\* queues are as they were.
LEMMA BlockIsSchedulable ==
    ASSUME IInv, InUser, NEW fr \in Registers
    PROVE  /\ Schedulable(Block(state), regs, fr)
           /\ fr.a0 = READ => Disciplined(Block(state), Saved(regs, fr), Enqueue(readq, curr), waitq, futexq)
           /\ fr.a0 = WAITPID => Disciplined(Block(state), Saved(regs, fr), readq, Enqueue(waitq, curr), futexq)
           /\ fr.a0 = 0 /\ fr.a1 \in Futexes
                => Disciplined(Block(state), Saved(regs, fr), readq, waitq, Enqueue(futexq, curr))
<1>1. /\ curr \in Task /\ state[curr] = "running"
      /\ curr \notin Sleepers
      /\ \A t \in Task : state[t] = "running" => t = curr
    BY CurrentIsAwake
<1>2. TypeOK /\ QueueDiscipline
    BY DEF IInv
<1>3. \A q : IsFifo(q) /\ curr \notin Members(q) =>
        /\ IsFifo(Enqueue(q, curr))
        /\ Members(Enqueue(q, curr)) = Members(q) \cup {curr}
    BY EnqueueFifo
<1>4. Schedulable(Block(state), regs, fr)
    BY <1>1, <1>2 DEF Schedulable, Block, TypeOK, States
<1>5. \A t \in Task : Block(state)[t] = "blocked" <=> t \in Sleepers \cup {curr}
    BY <1>1, <1>2 DEF Block, TypeOK, QueueDiscipline
<1>6. /\ \A t \in Sleepers : t \in Task /\ Saved(regs, fr)[t] = regs[t]
      /\ Saved(regs, fr)[curr] = fr
    BY <1>1, <1>2 DEF Saved, Sleepers, TypeOK, IsQueue
<1>7. QED
    BY <1>1, <1>2, <1>3, <1>4, <1>5, <1>6 DEF Disciplined, QueueDiscipline, Sleepers

\* read() puts the caller in the queue of readers.
LEMMA ReadStep == ASSUME IInv, SysRead PROVE IInv'
<1>1. PICK va \in {frame.sp} \cup Unmapped :
        /\ readq' = Enqueue(readq, curr)
        /\ Schedule(Block(state), regs, Call(READ, 0, va))
    BY DEF SysRead
<1>2. /\ InUser /\ UNCHANGED <<exitcode, space, waitq, futexq, mem, power>>
    BY DEF SysRead, Calling
<1>3. TypeOK /\ curr \in Task /\ curr \notin Members(readq) /\ IsFifo(readq)
    BY <1>2, CurrentIsAwake DEF IInv, Sleepers, QueueDiscipline
<1>4. Call(READ, 0, va) \in Registers /\ Call(READ, 0, va).a0 = READ
    <2>1. frame \in Registers /\ va \in Int
        BY <1>3, AddressAssumption DEF TypeOK, Registers
    <2>2. QED
        BY <2>1, NumberType, CallType
<1>5. QueueDiscipline' /\ CurrentIsRunning'
    BY <1>1, <1>2, <1>3, <1>4, BlockIsSchedulable, ScheduleKeepsDiscipline
<1>6. IsQueue(Enqueue(readq, curr))
    BY <1>3, FifoIsQueue DEF TypeOK
<1>7. TypeOK'
    BY <1>1, <1>2, <1>3, <1>4, <1>6, BlockIsSchedulable, ScheduleEffect DEF TypeOK, IsQueue, Members
<1>8. QED
    BY <1>5, <1>7 DEF IInv

\* waitpid() for a living task puts the caller in the queue of joiners.
LEMMA WaitpidBlockStep == ASSUME IInv, SysWaitpidBlock PROVE IInv'
<1>1. PICK pid \in PidArgs, va \in {frame.sp} \cup Unmapped :
        /\ waitq' = Enqueue(waitq, curr)
        /\ Schedule(Block(state), regs, Call(WAITPID, pid, va))
    BY DEF SysWaitpidBlock
<1>2. /\ InUser /\ UNCHANGED <<exitcode, space, readq, futexq, mem, power>>
    BY DEF SysWaitpidBlock, Calling
<1>3. TypeOK /\ curr \in Task /\ curr \notin Members(waitq) /\ IsFifo(waitq)
    BY <1>2, CurrentIsAwake DEF IInv, Sleepers, QueueDiscipline
<1>4. Call(WAITPID, pid, va) \in Registers /\ Call(WAITPID, pid, va).a0 = WAITPID
    <2>1. frame \in Registers /\ va \in Int /\ pid \in Int
        BY <1>3, AddressAssumption, ArgumentAssumption DEF TypeOK, Registers
    <2>2. QED
        BY <2>1, NumberType, CallType
<1>5. QueueDiscipline' /\ CurrentIsRunning'
    BY <1>1, <1>2, <1>3, <1>4, BlockIsSchedulable, ScheduleKeepsDiscipline
<1>6. IsQueue(Enqueue(waitq, curr))
    BY <1>3, FifoIsQueue DEF TypeOK
<1>7. TypeOK'
    BY <1>1, <1>2, <1>3, <1>4, <1>6, BlockIsSchedulable, ScheduleEffect DEF TypeOK, IsQueue, Members
<1>8. QED
    BY <1>5, <1>7 DEF IInv

\* FUTEX_WAIT puts the caller in the futex queue or returns an error.
LEMMA FutexWaitStep == ASSUME IInv, SysFutexWait PROVE IInv'
<1>1. PICK uaddr \in Futexes, val \in FutexValues :
        IF Loaded(curr, uaddr) = val
        THEN /\ futexq' = Enqueue(futexq, curr)
             /\ Schedule(Block(state), regs, Return(Call(FUTEX, uaddr, FUTEX_WAIT), 0))
        ELSE /\ UNCHANGED futexq
             /\ Schedule(state, regs, Return(Call(FUTEX, uaddr, FUTEX_WAIT), -EAGAIN))
    BY DEF SysFutexWait
<1>2. /\ InUser /\ UNCHANGED <<exitcode, space, readq, waitq, mem, power>>
    BY DEF SysFutexWait, Calling
<1>3. TypeOK /\ curr \in Task /\ curr \notin Members(futexq) /\ IsFifo(futexq)
    BY <1>2, CurrentIsAwake DEF IInv, Sleepers, QueueDiscipline
<1>4. frame \in Registers /\ uaddr \in Int
    BY <1>3, AddressAssumption DEF TypeOK
<1>5. CASE Loaded(curr, uaddr) = val
    <2> DEFINE fr == Return(Call(FUTEX, uaddr, FUTEX_WAIT), 0)
    <2>1. fr \in Registers /\ fr.a0 = 0 /\ fr.a1 \in Futexes
        BY <1>4, NumberType, CallType, ReturnType
    <2>2. futexq' = Enqueue(futexq, curr) /\ Schedule(Block(state), regs, fr)
        BY <1>1, <1>5
    <2> HIDE DEF fr
    <2>3. QueueDiscipline' /\ CurrentIsRunning'
        BY <1>2, <1>3, <2>1, <2>2, BlockIsSchedulable, ScheduleKeepsDiscipline
    <2>4. IsQueue(Enqueue(futexq, curr))
        BY <1>3, FifoIsQueue DEF TypeOK
    <2>5. TypeOK'
        BY <1>2, <1>3, <2>1, <2>2, <2>4, BlockIsSchedulable, ScheduleEffect
           DEF TypeOK, IsQueue, Members
    <2>6. QED
        BY <2>3, <2>5 DEF IInv
<1>6. CASE Loaded(curr, uaddr) # val
    <2>1. Return(Call(FUTEX, uaddr, FUTEX_WAIT), -EAGAIN) \in Registers
        BY <1>4, NumberType, CallType, ReturnType
    <2>2. QED
        BY <1>1, <1>2, <1>3, <1>6, <2>1, RescheduleStep DEF TypeOK, InUser
<1>7. QED
    BY <1>5, <1>6

-----------------------------------------------------------------------------
(* The handlers that wake sleepers: exit, futex wake, the console interrupt. *)

\* exit() ends the caller and takes its first joiner off the queue.
LEMMA ExitStep == ASSUME IInv, SysExit PROVE IInv'
<1>1. PICK code \in ExitCodes :
        /\ exitcode' = [exitcode EXCEPT ![curr] = code]
        /\ mem' = DeliveredStatus(code)
        /\ waitq' = Dequeue(waitq, Joiner)
        /\ Schedule(Readied([state EXCEPT ![curr] = "terminated"], Joiner),
                    JoinerRegs, Call(EXIT, code, 0))
    BY DEF SysExit
<1>2. InUser /\ UNCHANGED <<space, readq, futexq, power>>
    BY DEF SysExit, Calling
<1>3. TypeOK /\ QueueDiscipline
    BY DEF IInv
<1>4. /\ curr \in Task /\ state[curr] = "running"
      /\ curr \notin Sleepers
      /\ \A t \in Task : state[t] = "running" => t = curr
    BY <1>2, CurrentIsAwake
<1>5. code \in Int
    BY ArgumentAssumption
<1>6. Joiner \subseteq Members(waitq) /\ Members(waitq) \subseteq Task
    BY <1>3 DEF Joiner, FirstOf, TypeOK, IsQueue
<1> DEFINE st == Readied([state EXCEPT ![curr] = "terminated"], Joiner)
           fr == Call(EXIT, code, 0)
<1>7. fr \in Registers
    BY <1>3, <1>5, NumberType, CallType DEF TypeOK
<1>8. JoinerRegs \in [Task -> Registers]
    BY <1>3, NumberType, ReturnType DEF JoinerRegs, TypeOK
<1>9. Schedulable(st, JoinerRegs, fr)
    BY <1>3, <1>4, <1>6, <1>7, <1>8 DEF Schedulable, Readied, TypeOK, States, Sleepers
<1>10. Disciplined(st, Saved(JoinerRegs, fr), readq, Dequeue(waitq, Joiner), futexq)
    <2>1. /\ Members(Dequeue(waitq, Joiner)) = Members(waitq) \ Joiner
          /\ IsFifo(Dequeue(waitq, Joiner))
        BY <1>3, DequeueFifo DEF QueueDiscipline
    <2>2. \A t \in Task : st[t] = "blocked" <=> t \in Sleepers \ Joiner
        BY <1>3, <1>4, <1>6 DEF Readied, TypeOK, QueueDiscipline
    <2>3. \A t \in Sleepers \ Joiner : Saved(JoinerRegs, fr)[t] = regs[t]
        BY <1>3, <1>4 DEF Saved, JoinerRegs, Sleepers, TypeOK, IsQueue
    <2> HIDE DEF st, fr
    <2>4. QED
        BY <1>3, <1>6, <2>1, <2>2, <2>3 DEF Disciplined, QueueDiscipline, Sleepers
<1>11. IsQueue(Dequeue(waitq, Joiner))
    BY <1>3, <1>6, FifoIsQueue DEF TypeOK, QueueDiscipline
<1>12. exitcode' \in [Task -> Int] /\ mem' \in [Space -> [Words -> Int]]
    BY <1>1, <1>3, <1>5 DEF TypeOK, DeliveredStatus
<1> HIDE DEF st, fr
<1>13. Schedule(st, JoinerRegs, fr)
    BY <1>1 DEF st, fr
<1>14. QueueDiscipline' /\ CurrentIsRunning'
    BY <1>1, <1>2, <1>3, <1>9, <1>10, <1>13, ScheduleKeepsDiscipline
<1>15. TypeOK'
    BY <1>1, <1>2, <1>3, <1>9, <1>11, <1>12, <1>13, ScheduleEffect DEF TypeOK, IsQueue, Members
<1>16. QED
    BY <1>14, <1>15 DEF IInv

\* Readying members of the futex queue and unlinking them.
LEMMA FutexWakeIsOrderly ==
    ASSUME IInv, InUser, NEW W, W \subseteq Members(futexq), NEW fr \in Registers
    PROVE  /\ Schedulable(Readied(state, W), regs, fr)
           /\ Disciplined(Readied(state, W), regs, readq, waitq, Dequeue(futexq, W))
           /\ Disciplined(Readied(state, W), Saved(regs, fr), readq, waitq, Dequeue(futexq, W))
           /\ IsQueue(Dequeue(futexq, W))
<1>1. TypeOK /\ QueueDiscipline
    BY DEF IInv
<1>2. /\ curr \in Task /\ state[curr] = "running"
      /\ curr \notin Sleepers
      /\ \A t \in Task : state[t] = "running" => t = curr
    BY CurrentIsAwake
<1>3. W \subseteq Task
    BY <1>1 DEF TypeOK, IsQueue
<1>4. Schedulable(Readied(state, W), regs, fr)
    BY <1>1, <1>2, <1>3 DEF Schedulable, Readied, TypeOK, States, Sleepers
<1>5. /\ Members(Dequeue(futexq, W)) = Members(futexq) \ W
      /\ IsFifo(Dequeue(futexq, W))
    BY <1>1, DequeueFifo DEF QueueDiscipline
<1>6. \A t \in Task : Readied(state, W)[t] = "blocked" <=> t \in Sleepers \ W
    BY <1>1, <1>3 DEF Readied, TypeOK, QueueDiscipline
<1>7. \A t \in Sleepers : Saved(regs, fr)[t] = regs[t]
    BY <1>1, <1>2 DEF Saved, Sleepers, TypeOK, IsQueue
<1>8. QED
    BY <1>1, <1>3, <1>4, <1>5, <1>6, <1>7, FifoIsQueue
       DEF Disciplined, QueueDiscipline, Sleepers, TypeOK

\* A wake readies members of the futex queue.
LEMMA WokenAreWaiters ==
    ASSUME NEW uaddr, NEW val PROVE Woken(uaddr, val) \subseteq Members(futexq)
BY DEF Woken, WalkWakes, FirstOf, FirstNOf, Waiters

\* FUTEX_WAKE takes tasks off the futex queue and reschedules.
LEMMA FutexWakeStep == ASSUME IInv, SysFutexWake PROVE IInv'
<1>1. PICK uaddr \in Futexes, val \in WakeCounts :
        /\ futexq' = Dequeue(futexq, Woken(uaddr, val))
        /\ Schedule(Readied(state, Woken(uaddr, val)), regs,
                    Return(Call(FUTEX, uaddr, FUTEX_WAKE), Cardinality(Woken(uaddr, val))))
    BY DEF SysFutexWake
<1>2. InUser /\ UNCHANGED <<exitcode, space, readq, waitq, mem, power>>
    BY DEF SysFutexWake, Calling
<1> DEFINE W == Woken(uaddr, val)
           fr == Return(Call(FUTEX, uaddr, FUTEX_WAKE), Cardinality(W))
<1>3. TypeOK /\ W \subseteq Members(futexq) /\ W \in SUBSET Task
    BY WokenAreWaiters DEF IInv, TypeOK, IsQueue
<1>4. fr \in Registers
    <2>1. frame \in Registers /\ uaddr \in Int /\ Cardinality(W) \in Int
        BY <1>3, TaskCardinality, AddressAssumption DEF TypeOK
    <2>2. QED
        BY <2>1, NumberType, CallType, ReturnType
<1>5. futexq' = Dequeue(futexq, W) /\ Schedule(Readied(state, W), regs, fr)
    BY <1>1
<1> HIDE DEF W, fr
<1>6. QueueDiscipline' /\ CurrentIsRunning'
    BY <1>2, <1>3, <1>4, <1>5, FutexWakeIsOrderly, ScheduleKeepsDiscipline
<1>7. TypeOK'
    BY <1>2, <1>3, <1>4, <1>5, FutexWakeIsOrderly, ScheduleEffect DEF TypeOK, IsQueue, Members
<1>8. QED
    BY <1>6, <1>7 DEF IInv

\* A wake that never ends has readied the only waiter before.
LEMMA FutexWakeHangsStep == ASSUME IInv, SysFutexWakeHangs PROVE IInv'
<1>1. PICK uaddr \in Futexes, val \in WakeCounts :
        /\ futexq' = Dequeue(futexq, Woken(uaddr, val))
        /\ state' = Readied(state, Woken(uaddr, val))
        /\ frame' = Call(FUTEX, uaddr, FUTEX_WAKE)
    BY DEF SysFutexWakeHangs
<1>2. /\ InUser /\ power' = "hung"
      /\ UNCHANGED <<curr, exitcode, space, regs, readq, waitq, mem>>
    BY DEF SysFutexWakeHangs, Calling
<1>3. TypeOK /\ Woken(uaddr, val) \subseteq Members(futexq)
    BY WokenAreWaiters DEF IInv
<1>4. frame' \in Registers
    BY <1>1, <1>3, NumberType, CallType, AddressAssumption DEF TypeOK
<1>5. /\ state' \in [Task -> States]
      /\ Disciplined(state', regs', readq', waitq', futexq')
      /\ IsQueue(futexq')
    BY <1>1, <1>2, <1>3, <1>4, FutexWakeIsOrderly DEF Schedulable
<1>6. TypeOK'
    BY <1>2, <1>3, <1>4, <1>5 DEF TypeOK, IsQueue, Members
<1>7. QueueDiscipline' /\ CurrentIsRunning'
    BY <1>2, <1>5 DEF Disciplined, QueueDiscipline, Sleepers, CurrentIsRunning, IsFifo, Members
<1>8. QED
    BY <1>6, <1>7 DEF IInv

\* The memory after a burst holds integers in every word.
LEMMA ReceivedType ==
    ASSUME TypeOK, NEW b \in Bursts
    PROVE  Received(b) \in [Space -> [Words -> Int]]
<1>1. b \in Seq(Int)
    BY ArgumentAssumption
<1>2. \A t \in Readers(Len(b)) : b[1 + Position(readq, t)] \in Int
    <2> SUFFICES ASSUME NEW t \in Readers(Len(b)) PROVE b[1 + Position(readq, t)] \in Int
        OBVIOUS
    <2>1. t \in Members(readq) /\ Position(readq, t) < Len(b)
        BY DEF Readers
    <2>2. readq[t] \in SUBSET Task
        BY <2>1 DEF TypeOK, IsQueue
    <2>3. Position(readq, t) \in Nat
        BY <2>2, TaskCardinality DEF Position
    <2>4. QED
        BY <1>1, <2>1, <2>3
<1>3. ASSUME NEW s \in Space, NEW va \in Words
      PROVE  Received(b)[s][va] \in Int
    <2> DEFINE hits == {t \in Readers(Len(b)) : space[t] = s /\ regs[t].a2 = va}
               last == LastOf(readq, hits)
    <2>1. last \subseteq Readers(Len(b))
        BY DEF LastOf
    <2>2. Received(b)[s][va] = IF last = {} THEN mem[s][va]
                               ELSE b[1 + Position(readq, CHOOSE t \in last : TRUE)]
        BY DEF Received
    <2>3. mem[s][va] \in Int
        BY DEF TypeOK
    <2> HIDE DEF last
    <2>4. QED
        BY <1>2, <2>1, <2>2, <2>3
<1>4. QED
    BY <1>3 DEF Received

\* The console interrupt takes the readers it served off their queue.
LEMMA ExternalInterruptStep == ASSUME IInv, ExternalInterrupt PROVE IInv'
<1>1. PICK b \in Bursts :
        /\ readq' = Dequeue(readq, Readers(Len(b)))
        /\ state' = Readied(state, Readers(Len(b)))
        /\ regs' = [t \in Task |-> IF t \in Readers(Len(b)) THEN Return(regs[t], 1) ELSE regs[t]]
        /\ mem' = Received(b)
        /\ power' = IF Interrupted(b) THEN "off" ELSE "on"
    BY DEF ExternalInterrupt
<1>2. /\ power = "on"
      /\ UNCHANGED <<curr, exitcode, space, frame, waitq, futexq>>
    BY DEF ExternalInterrupt
<1>3. TypeOK /\ QueueDiscipline /\ CurrentIsRunning
    BY DEF IInv
<1> DEFINE W == Readers(Len(b))
<1>4. W \subseteq Members(readq) /\ W \subseteq Task
    BY <1>3 DEF Readers, TypeOK, IsQueue
<1>5. mem' \in [Space -> [Words -> Int]]
    BY <1>1, <1>3, ReceivedType
<1> HIDE DEF W
<1>6. /\ readq' = Dequeue(readq, W) /\ state' = Readied(state, W)
      /\ regs' = [t \in Task |-> IF t \in W THEN Return(regs[t], 1) ELSE regs[t]]
    BY <1>1 DEF W
<1>7. regs' \in [Task -> Registers]
    BY <1>3, <1>6, NumberType, ReturnType DEF TypeOK
<1>8. state' \in [Task -> States]
    BY <1>3, <1>6 DEF TypeOK, Readied, States
<1>9. IsQueue(Dequeue(readq, W))
    BY <1>3, <1>4, FifoIsQueue DEF TypeOK, QueueDiscipline
<1>10. TypeOK'
    BY <1>1, <1>2, <1>3, <1>5, <1>6, <1>7, <1>8, <1>9 DEF TypeOK, IsQueue, Members
<1>11. CurrentIsRunning'
    BY <1>2, <1>3, <1>4, <1>6 DEF CurrentIsRunning, QueueDiscipline, Sleepers, Readied, TypeOK
<1>12. Disciplined(state', regs', readq', waitq', futexq')
    <2>1. /\ Members(Dequeue(readq, W)) = Members(readq) \ W
          /\ IsFifo(Dequeue(readq, W))
        BY <1>3, DequeueFifo DEF QueueDiscipline
    <2>2. \A t \in Task : state'[t] = "blocked" <=> t \in Sleepers \ W
        BY <1>3, <1>4, <1>6 DEF Readied, TypeOK, QueueDiscipline
    <2>3. \A t \in Sleepers \ W : regs'[t] = regs[t]
        BY <1>3, <1>6 DEF Sleepers, TypeOK, IsQueue
    <2>4. QED
        BY <1>2, <1>3, <1>4, <1>6, <2>1, <2>2, <2>3 DEF Disciplined, QueueDiscipline, Sleepers
<1>13. QueueDiscipline'
    BY <1>12 DEF Disciplined, QueueDiscipline, Sleepers, IsFifo, Members
<1>14. QED
    BY <1>10, <1>11, <1>13 DEF IInv

-----------------------------------------------------------------------------
(* clone, and the actions that do not touch the scheduler. *)

\* The registers a child gets are registers.
LEMMA ChildType ==
    ASSUME NEW r \in Registers, NEW stack \in Int
    PROVE  [Return(r, 0) EXCEPT !.sp = stack] \in Registers
<1>1. Return(r, 0) \in Registers
    BY NumberType, ReturnType
<1>2. ASSUME NEW fr \in Registers PROVE [fr EXCEPT !.sp = stack] \in Registers
    BY DEF Registers
<1>3. QED
    BY <1>1, <1>2

\* clone() makes the first unused slot a ready task that is in no queue.
LEMMA CloneStep == ASSUME IInv, SysClone PROVE IInv'
<1>1. PICK stack \in FreshStacks :
        \/ \E child \in FreeSlots :
            /\ exitcode' = [exitcode EXCEPT ![child] = exitcode[curr]]
            /\ space' = [space EXCEPT ![child] = space[curr]]
            /\ Schedule([state EXCEPT ![child] = "ready"], Cloned(child, stack),
                        Return(Call(CLONE, 0, stack), child))
        \/ /\ Schedule(state, regs, Return(Call(CLONE, 0, stack), -1))
           /\ UNCHANGED <<exitcode, space>>
    BY DEF SysClone
<1>2. InUser /\ UNCHANGED <<readq, waitq, futexq, mem, power>>
    BY DEF SysClone, Calling, queues
<1>3. TypeOK /\ QueueDiscipline
    BY DEF IInv
<1>4. /\ curr \in Task /\ power = "on" /\ state[curr] = "running"
      /\ curr \notin Sleepers
      /\ \A t \in Task : state[t] = "running" => t = curr
    BY <1>2, CurrentIsAwake
<1>5. stack \in Int /\ Call(CLONE, 0, stack) \in Registers
    <2>1. stack \in Int /\ frame \in Registers
        BY <1>3, AddressAssumption DEF FreshStacks, UnusedStacks, TypeOK
    <2>2. QED
        BY <2>1, NumberType, CallType
<1>6. ASSUME NEW child \in FreeSlots,
             exitcode' = [exitcode EXCEPT ![child] = exitcode[curr]],
             space' = [space EXCEPT ![child] = space[curr]],
             Schedule([state EXCEPT ![child] = "ready"], Cloned(child, stack),
                      Return(Call(CLONE, 0, stack), child))
      PROVE  IInv'
    <2> DEFINE st == [state EXCEPT ![child] = "ready"]
               rg == Cloned(child, stack)
               fr == Return(Call(CLONE, 0, stack), child)
    <2>1. child \in Task /\ state[child] = "created" /\ child \in Int
        BY DEF FreeSlots, Task
    <2>2. fr \in Registers
        BY <1>5, <2>1, ReturnType
    <2>3. rg \in [Task -> Registers]
        <3>1. regs[curr] \in Registers
            BY <1>3, <1>4 DEF TypeOK
        <3>2. [Return(regs[curr], 0) EXCEPT !.sp = stack] \in Registers
            BY <1>5, <3>1, ChildType
        <3>3. QED
            BY <1>3, <2>1, <3>2 DEF Cloned, TypeOK
    <2>4. Schedulable(st, rg, fr)
        BY <1>3, <1>4, <2>1, <2>2, <2>3 DEF Schedulable, TypeOK, States
    <2>5. child \notin Sleepers
        BY <1>3, <2>1 DEF QueueDiscipline
    <2>6. \A t \in Task : st[t] = "blocked" <=> t \in Sleepers
        BY <1>3, <2>1 DEF QueueDiscipline, TypeOK
    <2>7. \A t \in Sleepers : Saved(rg, fr)[t] = regs[t]
        BY <1>3, <1>4, <2>5 DEF Saved, Cloned, Sleepers, TypeOK, IsQueue
    <2> HIDE DEF st, rg, fr
    <2>8. Disciplined(st, Saved(rg, fr), readq, waitq, futexq)
        BY <1>3, <2>6, <2>7 DEF Disciplined, QueueDiscipline, Sleepers
    <2>9. Schedule(st, rg, fr)
        BY <1>6 DEF st, rg, fr
    <2>10. QueueDiscipline' /\ CurrentIsRunning'
        BY <1>2, <1>3, <2>4, <2>8, <2>9, ScheduleKeepsDiscipline
    <2>11. exitcode' \in [Task -> Int] /\ space' \in [Task -> Space]
        BY <1>3, <1>4, <1>6 DEF TypeOK
    <2>12. TypeOK'
        BY <1>2, <1>3, <2>4, <2>9, <2>11, ScheduleEffect DEF TypeOK, IsQueue, Members
    <2>13. QED
        BY <2>10, <2>12 DEF IInv
<1>7. ASSUME Schedule(state, regs, Return(Call(CLONE, 0, stack), -1)),
             UNCHANGED <<exitcode, space>>
      PROVE  IInv'
    <2>1. Return(Call(CLONE, 0, stack), -1) \in Registers
        BY <1>5, NumberType, ReturnType
    <2>2. QED
        BY <1>2, <1>3, <1>4, <1>7, <2>1, RescheduleStep DEF TypeOK
<1>8. QED
    BY <1>1, <1>6, <1>7

\* Write, unknown system calls, faults and stores of user code leave tasks,
\* queues and saved registers alone.
LEMMA QuietStep ==
    ASSUME IInv, UNCHANGED <<state, curr, exitcode, space, regs, readq, waitq, futexq>>,
           frame' \in Registers, mem' \in [Space -> [Words -> Int]],
           power' \in {"off", power}
    PROVE  IInv'
BY DEF IInv, TypeOK, QueueDiscipline, CurrentIsRunning, Sleepers, IsQueue, IsFifo, Members

\* The steps of which that is true keep the invariant.
LEMMA QuietSteps ==
    ASSUME IInv, SysWrite \/ SysUnknown \/ UserFault \/ UserStore \/ UNCHANGED vars
    PROVE  IInv'
<1>1. TypeOK /\ frame \in Registers /\ frame.sp \in Int
    BY DEF IInv, TypeOK, Registers
<1>2. CASE SysWrite
    <2>1. Call(WRITE, 1, frame.sp) \in Registers
        BY <1>1, NumberType, CallType
    <2>2. QED
        BY <1>1, <1>2, <2>1, QuietStep DEF SysWrite, queues, TypeOK
<1>3. CASE SysUnknown
    <2>1. \A number \in Calls : Call(number, 0, 0) \in Registers
        BY <1>1, NumberType, CallType, ArgumentAssumption
    <2>2. QED
        BY <1>1, <1>3, <2>1, QuietStep DEF SysUnknown, queues, TypeOK
<1>4. CASE UserFault
    BY <1>1, <1>4, QuietStep DEF UserFault, queues, TypeOK
<1>5. CASE UserStore
    <2>1. mem' \in [Space -> [Words -> Int]]
        <3>1. PICK uaddr \in Futexes, val \in FutexValues :
                mem' = Stored(mem, curr, uaddr, val)
            BY <1>5 DEF UserStore
        <3>2. val \in Int
            BY ArgumentAssumption
        <3>3. QED
            BY <1>1, <3>1, <3>2 DEF Stored, IsMapped, TypeOK
    <2>2. QED
        BY <1>1, <1>5, <2>1, QuietStep DEF UserStore, queues
<1>6. CASE UNCHANGED vars
    BY <1>1, <1>6, QuietStep DEF vars, TypeOK
<1>7. QED
    BY <1>2, <1>3, <1>4, <1>5, <1>6

-----------------------------------------------------------------------------
(* The invariants. *)

\* main() establishes the invariant.
LEMMA InitIInv == Init => IInv
<1> SUFFICES ASSUME Init PROVE IInv
    OBVIOUS
<1>1. MainStack \in Int /\ Zeroed \in Registers /\ [Zeroed EXCEPT !.sp = MainStack] \in Registers
    BY AddressAssumption DEF Zeroed, Registers
<1>2. 0 \in Task /\ 0 \in Space /\ Space \subseteq Task
    BY TasksAssumption DEF Task, Space
<1>3. IsQueue(Empty)
    BY EmptyFifo DEF IsQueue, Members, Empty
<1>4. TypeOK
    BY <1>1, <1>2, <1>3 DEF Init, TypeOK, States
<1>5. QueueDiscipline
    BY EmptyFifo DEF Init, QueueDiscipline, Sleepers
<1>6. CurrentIsRunning
    BY DEF Init, CurrentIsRunning
<1>7. QED
    BY <1>4, <1>5, <1>6 DEF IInv

\* Every step keeps it.
LEMMA NextIInv == IInv /\ [Next]_vars => IInv'
<1> SUFFICES ASSUME IInv, [Next]_vars PROVE IInv'
    OBVIOUS
<1> USE DEF Next
<1>1. CASE SysWrite \/ SysUnknown \/ UserFault \/ UserStore \/ UNCHANGED vars
    BY <1>1, QuietSteps
<1>2. CASE SysRead BY <1>2, ReadStep
<1>3. CASE SysExit BY <1>3, ExitStep
<1>4. CASE SysClone BY <1>4, CloneStep
<1>5. CASE SysWaitpidError BY <1>5, WaitpidErrorStep
<1>6. CASE SysWaitpidDone BY <1>6, WaitpidDoneStep
<1>7. CASE SysWaitpidBlock BY <1>7, WaitpidBlockStep
<1>8. CASE SysFutexWait BY <1>8, FutexWaitStep
<1>9. CASE SysFutexFault \/ SysFutexOther BY <1>9, FutexErrorStep
<1>10. CASE SysFutexWake BY <1>10, FutexWakeStep
<1>11. CASE SysFutexWakeHangs BY <1>11, FutexWakeHangsStep
<1>12. CASE Timer BY <1>12, TimerStep
<1>13. CASE ExternalInterrupt BY <1>13, ExternalInterruptStep
<1>14. QED
    BY <1>1, <1>2, <1>3, <1>4, <1>5, <1>6, <1>7, <1>8, <1>9, <1>10, <1>11, <1>12, <1>13

\* So it holds in every reachable state.
LEMMA Invariance == Spec => []IInv
BY InitIInv, NextIInv, PTL DEF Spec

\* Type correctness: every handler leaves every variable in its type; a queue
\* never holds a link to a task that left it.
THEOREM TypeCorrect == Spec => []TypeOK
<1>1. IInv => TypeOK
    BY DEF IInv
<1>2. QED
    BY <1>1, Invariance, PTL

\* A task is blocked exactly while it is in one of the three queues, whose links
\* it shares, and a sleeper's saved registers are the arguments of its call.
THEOREM QueuesAreDisciplined == Spec => []QueueDiscipline
<1>1. IInv => QueueDiscipline
    BY DEF IInv
<1>2. QED
    BY <1>1, Invariance, PTL

\* Between two handlers curr_task_num is the one and only running task.
THEOREM OneTaskRuns == Spec => []CurrentIsRunning
<1>1. IInv => CurrentIsRunning
    BY DEF IInv
<1>2. QED
    BY <1>1, Invariance, PTL

-----------------------------------------------------------------------------
(* What a step does to states and to the current task. *)

\* schedule() without the registers.
Rescheduled(st) ==
    \E next \in Picked(st) : curr' = next /\ state' = Dispatched(st, next)

\* The states a handler hands to schedule(): ready and terminated tasks are as
\* they were, and at most the current task is running.
Handed(st) ==
    /\ st \in [Task -> States]
    /\ \A t \in Task : \A s \in {"ready", "terminated"} : state[t] = s => st[t] = s
    /\ \A t \in Task : st[t] = "running" => t = curr
    /\ curr \in Task => st[curr] # "ready"

\* schedule() determines states and the current task as Rescheduled says.
LEMMA ScheduleReschedules ==
    ASSUME NEW st, NEW rg, NEW fr, Schedule(st, rg, fr) PROVE Rescheduled(st)
BY DEF Schedule, Rescheduled

\* The states as they are may be handed to schedule().
LEMMA StateIsHanded == ASSUME IInv, power = "on" PROVE Handed(state)
<1>1. Schedulable(state, regs, frame)
    BY RunningIsSchedulable DEF IInv, TypeOK
<1>2. QED
    BY <1>1 DEF Schedulable, Handed

\* So may the states after the current task blocked.
LEMMA BlockIsHanded == ASSUME IInv, InUser PROVE Handed(Block(state))
<1>1. Schedulable(Block(state), regs, frame) /\ curr \in Task /\ state[curr] = "running"
    BY BlockIsSchedulable, CurrentIsAwake DEF IInv, TypeOK
<1>2. QED
    BY <1>1 DEF Schedulable, Handed, Block, IInv, TypeOK

\* So may the states after a wake.
LEMMA WakeIsHanded ==
    ASSUME IInv, InUser, NEW W, W \subseteq Members(futexq)
    PROVE  Handed(Readied(state, W))
<1>1. Schedulable(Readied(state, W), regs, frame)
    BY FutexWakeIsOrderly DEF IInv, TypeOK
<1>2. \A t \in W : t \in Task /\ state[t] = "blocked"
    BY DEF IInv, TypeOK, IsQueue, QueueDiscipline, Sleepers
<1>3. QED
    BY <1>1, <1>2 DEF Schedulable, Handed, Readied

\* So may the states after exit() readied the joiner.
LEMMA ExitIsHanded ==
    ASSUME IInv, InUser
    PROVE  Handed(Readied([state EXCEPT ![curr] = "terminated"], Joiner))
<1>1. /\ curr \in Task /\ state[curr] = "running" /\ curr \notin Sleepers
      /\ \A t \in Task : state[t] = "running" => t = curr
    BY CurrentIsAwake
<1>2. \A t \in Joiner : t \in Task /\ t # curr /\ state[t] = "blocked"
    BY <1>1 DEF Joiner, FirstOf, IInv, TypeOK, IsQueue, QueueDiscipline, Sleepers
<1>3. QED
    BY <1>1, <1>2 DEF Handed, Readied, IInv, TypeOK, States

\* So may the states after clone() took a free slot.
LEMMA CloneIsHanded ==
    ASSUME IInv, InUser, NEW child \in FreeSlots
    PROVE  Handed([state EXCEPT ![child] = "ready"])
<1>1. /\ curr \in Task /\ state[curr] = "running"
      /\ \A t \in Task : state[t] = "running" => t = curr
    BY CurrentIsAwake
<1>2. child \in Task /\ state[child] = "created"
    BY DEF FreeSlots
<1>3. QED
    BY <1>1, <1>2 DEF Handed, IInv, TypeOK, States

\* Every step either goes through schedule() or leaves the current task as it is
\* and ends none and revives none.
LEMMA StepReschedules ==
    ASSUME IInv, [Next]_vars
    PROVE  \/ \E st : Handed(st) /\ Rescheduled(st)
           \/ /\ curr' = curr
              /\ \A t \in Task : state[t] = "terminated" => state'[t] = "terminated"
<1>1. CASE Timer \/ SysWaitpidError \/ SysWaitpidDone \/ SysFutexFault \/ SysFutexOther
    <2>1. power = "on"
        BY <1>1 DEF Timer, SysWaitpidError, SysWaitpidDone, SysFutexFault, SysFutexOther,
                    Calling, InUser
    <2>2. \E rg, fr : Schedule(state, rg, fr)
        BY <1>1 DEF Timer, SysWaitpidError, SysWaitpidDone, SysFutexFault, SysFutexOther
    <2>3. QED
        BY <2>1, <2>2, StateIsHanded, ScheduleReschedules
<1>2. CASE SysRead \/ SysWaitpidBlock
    <2>1. InUser
        BY <1>2 DEF SysRead, SysWaitpidBlock, Calling
    <2>2. \E rg, fr : Schedule(Block(state), rg, fr)
        BY <1>2 DEF SysRead, SysWaitpidBlock
    <2>3. QED
        BY <2>1, <2>2, BlockIsHanded, ScheduleReschedules
<1>3. CASE SysFutexWait
    <2>1. InUser /\ power = "on"
        BY <1>3 DEF SysFutexWait, Calling, InUser
    <2>2. \E rg, fr : Schedule(Block(state), rg, fr) \/ Schedule(state, rg, fr)
        BY <1>3 DEF SysFutexWait
    <2>3. QED
        BY <2>1, <2>2, BlockIsHanded, StateIsHanded, ScheduleReschedules
<1>4. CASE SysFutexWake
    <2>1. InUser
        BY <1>4 DEF SysFutexWake, Calling
    <2>2. \E uaddr, val, rg, fr : Schedule(Readied(state, Woken(uaddr, val)), rg, fr)
        BY <1>4 DEF SysFutexWake
    <2>3. QED
        BY <2>1, <2>2, WakeIsHanded, WokenAreWaiters, ScheduleReschedules
<1>5. CASE SysExit
    <2>1. InUser
        BY <1>5 DEF SysExit, Calling
    <2>2. \E rg, fr : Schedule(Readied([state EXCEPT ![curr] = "terminated"], Joiner), rg, fr)
        BY <1>5 DEF SysExit
    <2>3. QED
        BY <2>1, <2>2, ExitIsHanded, ScheduleReschedules
<1>6. CASE SysClone
    <2>1. InUser /\ power = "on"
        BY <1>6 DEF SysClone, Calling, InUser
    <2>2. \E rg, fr : \/ \E child \in FreeSlots : Schedule([state EXCEPT ![child] = "ready"], rg, fr)
                      \/ Schedule(state, rg, fr)
        BY <1>6 DEF SysClone
    <2>3. QED
        BY <2>1, <2>2, CloneIsHanded, StateIsHanded, ScheduleReschedules
<1>7. CASE SysFutexWakeHangs
    <2>1. PICK uaddr, val : state' = Readied(state, Woken(uaddr, val))
        BY <1>7 DEF SysFutexWakeHangs
    <2>2. \A t \in Woken(uaddr, val) : t \in Task /\ state[t] = "blocked"
        BY WokenAreWaiters DEF IInv, TypeOK, IsQueue, QueueDiscipline, Sleepers
    <2>3. QED
        BY <1>7, <2>1, <2>2 DEF Readied, SysFutexWakeHangs
<1>8. CASE ExternalInterrupt
    <2>1. PICK b \in Bursts : state' = Readied(state, Readers(Len(b)))
        BY <1>8 DEF ExternalInterrupt
    <2>2. \A t \in Readers(Len(b)) : t \in Task /\ state[t] = "blocked"
        BY DEF Readers, IInv, TypeOK, IsQueue, QueueDiscipline, Sleepers
    <2>3. QED
        BY <1>8, <2>1, <2>2 DEF Readied, ExternalInterrupt
<1>9. CASE SysWrite \/ SysUnknown \/ UserFault \/ UserStore \/ UNCHANGED vars
    BY <1>9 DEF SysWrite, SysUnknown, UserFault, UserStore, vars
<1>10. QED
    BY <1>1, <1>2, <1>3, <1>4, <1>5, <1>6, <1>7, <1>8, <1>9 DEF Next

-----------------------------------------------------------------------------
(* Round robin. *)

\* If u comes before t in the cyclic order that starts behind c, then t is
\* nearer to u than to c.
LEMMA NearerTurn ==
    ASSUME NEW c \in Task \cup {Idle}, NEW t \in Task, NEW u \in Task, t # u,
           Dist(c, u) <= Dist(c, t)
    PROVE  Dist(u, t) < Dist(c, t)
BY TasksAssumption DEF Dist, Task, Idle

\* The picked task is at most as far away as any ready task.
LEMMA RescheduleIsFair ==
    ASSUME IInv, NEW st, Handed(st), Rescheduled(st), NEW t \in Task,
           state[t] = "ready", state'[t] = "ready", curr' # curr
    PROVE  Dist(curr', t) < Dist(curr, t)
<1>1. PICK next \in Picked(st) : curr' = next /\ state' = Dispatched(st, next)
    BY DEF Rescheduled
<1>2. t \in Runnable(st)
    BY DEF Handed, Runnable
<1>3. next \in Task /\ Dist(curr, next) <= Dist(curr, t)
    BY <1>1, <1>2 DEF Picked, Runnable
<1>4. t # next
    BY <1>1, <1>3, IdleIsNoTask DEF Dispatched
<1>5. curr \in Task \cup {Idle}
    BY DEF IInv, TypeOK
<1>6. QED
    BY <1>1, <1>3, <1>4, <1>5, NearerTurn

\* Whenever the processor changes hands, each task that stays ready comes nearer
\* to its turn: pickup_next_task() starves nobody.
THEOREM ProcessorGoesRound == Spec => RoundRobin
<1> DEFINE Nearer == \A t \in Task :
               state[t] = "ready" /\ state'[t] = "ready" /\ curr' # curr
                   => Dist(curr', t) < Dist(curr, t)
<1>1. IInv /\ [Next]_vars => Nearer
    BY StepReschedules, RescheduleIsFair
<1>2. IInv /\ [Next]_vars => [Nearer]_vars
    BY <1>1
<1>3. QED
    BY <1>2, Invariance, PTL DEF Spec, RoundRobin

-----------------------------------------------------------------------------
(* Terminated tasks. *)

\* schedule() ends no task and revives none.
LEMMA RescheduleKeepsTerminated ==
    ASSUME IInv, NEW st, Handed(st), Rescheduled(st), NEW t \in Task,
           state[t] = "terminated"
    PROVE  state'[t] = "terminated"
<1>1. PICK next \in Picked(st) : state' = Dispatched(st, next)
    BY DEF Rescheduled
<1>2. st[t] = "terminated"
    BY DEF Handed
<1>3. t # next
    BY <1>1, <1>2, IdleIsNoTask DEF Picked, Runnable
<1>4. QED
    BY <1>1, <1>2, <1>3 DEF Dispatched

\* An exit code is written when its task exits, or copied to a slot never used.
LEMMA ExitCodeKept ==
    ASSUME IInv, [Next]_vars, NEW t \in Task, state[t] = "terminated"
    PROVE  exitcode'[t] = exitcode[t]
<1>1. exitcode \in [Task -> Int]
    BY DEF IInv, TypeOK
<1>2. CASE SysExit
    <2>1. curr # t
        BY <1>2, CurrentIsAwake DEF SysExit, Calling
    <2>2. QED
        BY <1>1, <1>2, <2>1 DEF SysExit
<1>3. CASE SysClone
    BY <1>1, <1>3 DEF SysClone, FreeSlots
<1>4. CASE UNCHANGED exitcode
    BY <1>4
<1>5. QED
    BY <1>2, <1>3, <1>4
       DEF Next, vars, SysRead, SysWrite, SysUnknown, SysWaitpidError, SysWaitpidDone,
           SysWaitpidBlock, SysFutexWait, SysFutexFault, SysFutexOther, SysFutexWake,
           SysFutexWakeHangs, Timer, ExternalInterrupt, UserFault, UserStore

\* A slot of task[] whose task has terminated is never used again, and its exit
\* code stays there for a later waitpid().
THEOREM TerminatedStaysFinal == Spec => TerminatedIsFinal
<1> DEFINE Final == \A t \in Task : state[t] = "terminated" =>
               state'[t] = "terminated" /\ exitcode'[t] = exitcode[t]
<1>1. IInv /\ [Next]_vars => Final
    BY StepReschedules, RescheduleKeepsTerminated, ExitCodeKept
<1>2. IInv /\ [Next]_vars => [Final]_vars
    BY <1>1
<1>3. QED
    BY <1>2, Invariance, PTL DEF Spec, TerminatedIsFinal

-----------------------------------------------------------------------------
(* Order of service. *)

\* What stands ahead of a member that is ahead is less.
LEMMA AheadIsFewer ==
    ASSUME NEW q, IsQueue(q), IsFifo(q), NEW u \in Members(q), NEW t \in q[u],
           NEW W \in SUBSET Task
    PROVE  /\ t \in Members(q)
           /\ q[t] \cap W \subseteq q[u] \cap W
           /\ Cardinality(q[t] \cap W) <= Cardinality(q[u] \cap W)
           /\ Cardinality(q[t]) <= Cardinality(q[u])
<1>1. t \in Members(q) /\ q[t] \subseteq q[u] /\ q[u] \subseteq Task
    BY DEF IsQueue, IsFifo
<1>2. IsFiniteSet(q[u])
    <2>1. IsFiniteSet(Task)
        BY TasksAssumption, FS_Interval DEF Task
    <2>2. QED
        BY <1>1, <2>1, FS_Subset
<1>3. IsFiniteSet(q[u] \cap W)
    BY <1>2, FS_Subset
<1>4. QED
    BY <1>1, <1>2, <1>3, FS_Subset

\* A walk wakes no member of W without those of W that stand ahead of it.
LEMMA WalkIsInOrder ==
    ASSUME NEW q, IsQueue(q), IsFifo(q), NEW W \in SUBSET Members(q), NEW n \in Int,
           NEW u \in WalkWakes(q, W, n), NEW t \in W, t \in q[u]
    PROVE  t \in WalkWakes(q, W, n)
<1>1. W \in SUBSET Task /\ u \in W /\ u \in Members(q)
    BY DEF IsQueue, WalkWakes, FirstOf, FirstNOf
<1>2. q[t] \cap W \subseteq q[u] \cap W /\ Cardinality(q[t] \cap W) <= Cardinality(q[u] \cap W)
    BY <1>1, AheadIsFewer
<1>3. Cardinality(q[t] \cap W) \in Nat /\ Cardinality(q[u] \cap W) \in Nat
    BY <1>1, TaskCardinality
<1>4. QED
    BY <1>1, <1>2, <1>3 DEF WalkWakes, FirstOf, FirstNOf

\* Only a futex wake takes tasks off the futex queue.
LEMMA FutexqChanges ==
    ASSUME IInv, [Next]_vars
    PROVE  \/ Members(futexq) \subseteq Members(futexq')
           \/ \E uaddr \in Futexes, val \in WakeCounts :
                 futexq' = Dequeue(futexq, Woken(uaddr, val))
<1>1. CASE SysFutexWait
    BY <1>1, EnqueueFifo DEF SysFutexWait, Enqueue, Members
<1>2. CASE SysFutexWake \/ SysFutexWakeHangs
    BY <1>2 DEF SysFutexWake, SysFutexWakeHangs
<1>3. CASE UNCHANGED futexq
    BY <1>3
<1>4. QED
    BY <1>1, <1>2, <1>3
       DEF Next, vars, queues, SysRead, SysWrite, SysUnknown, SysExit, SysClone,
           SysWaitpidError, SysWaitpidDone, SysWaitpidBlock, SysFutexFault, SysFutexOther,
           Timer, ExternalInterrupt, UserFault, UserStore

\* Only the console interrupt takes tasks off the queue of readers.
LEMMA ReadqChanges ==
    ASSUME IInv, [Next]_vars
    PROVE  \/ Members(readq) \subseteq Members(readq')
           \/ \E b \in Bursts : readq' = Dequeue(readq, Readers(Len(b)))
<1>1. CASE SysRead
    BY <1>1 DEF SysRead, Enqueue, Members
<1>2. CASE ExternalInterrupt
    BY <1>2 DEF ExternalInterrupt
<1>3. CASE UNCHANGED readq
    BY <1>3
<1>4. QED
    BY <1>1, <1>2, <1>3
       DEF Next, vars, queues, SysWrite, SysUnknown, SysExit, SysClone,
           SysWaitpidError, SysWaitpidDone, SysWaitpidBlock, SysFutexWait, SysFutexFault,
           SysFutexOther, SysFutexWake, SysFutexWakeHangs, Timer, UserFault, UserStore

\* A reader is not served before one that came earlier.
LEMMA ReadersInOrder ==
    ASSUME IInv, [Next]_vars, NEW t \in Members(readq), NEW u \in Members(readq),
           Overtakes(readq, readq', u, t)
    PROVE  FALSE
<1>1. IsQueue(readq) /\ IsFifo(readq)
    BY DEF IInv, TypeOK, QueueDiscipline
<1>2. PICK b \in Bursts : readq' = Dequeue(readq, Readers(Len(b)))
    BY ReadqChanges DEF Overtakes
<1>3. t \in readq[u] /\ u \in Readers(Len(b)) /\ t \notin Readers(Len(b))
    BY <1>2 DEF Overtakes, Dequeue, Members
<1>4. Cardinality(readq[t]) <= Cardinality(readq[u])
    BY <1>1, <1>3, AheadIsFewer
<1>5. Cardinality(readq[t]) \in Nat /\ Cardinality(readq[u]) \in Nat
    BY <1>1, TaskCardinality DEF IsQueue
<1>6. Len(b) \in Nat
    BY ArgumentAssumption
<1>7. QED
    BY <1>3, <1>4, <1>5, <1>6 DEF Readers, Position

\* A waiter of a futex word is not woken before one that came earlier.
LEMMA WaitersInOrder ==
    ASSUME IInv, [Next]_vars, NEW t \in Members(futexq), NEW u \in Members(futexq),
           regs[t].a1 = regs[u].a1, Overtakes(futexq, futexq', u, t)
    PROVE  FALSE
<1>1. IsQueue(futexq) /\ IsFifo(futexq)
    BY DEF IInv, TypeOK, QueueDiscipline
<1>2. PICK uaddr \in Futexes, val \in WakeCounts :
        futexq' = Dequeue(futexq, Woken(uaddr, val))
    BY FutexqChanges DEF Overtakes
<1>3. t \in futexq[u] /\ u \in Woken(uaddr, val) /\ t \notin Woken(uaddr, val)
    BY <1>2 DEF Overtakes, Dequeue, Members
<1>4. u \in Waiters(uaddr) /\ Waiters(uaddr) \in SUBSET Members(futexq)
    BY <1>3 DEF Woken, WalkWakes, FirstOf, FirstNOf, Waiters
<1>5. t \in Waiters(uaddr)
    BY <1>4 DEF Waiters
<1>6. val \in Int
    BY ArgumentAssumption
<1>7. t \in Woken(uaddr, val)
    BY <1>1, <1>3, <1>4, <1>5, <1>6, WalkIsInOrder DEF Woken
<1>8. QED
    BY <1>3, <1>7

\* Readers, and waiters of one futex word, are served in the order they came.
THEOREM ServedInOrder == Spec => NoOvertaking
<1> DEFINE Order ==
        /\ \A t, u \in Members(readq) : ~ Overtakes(readq, readq', u, t)
        /\ \A t, u \in Members(futexq) :
              regs[t].a1 = regs[u].a1 => ~ Overtakes(futexq, futexq', u, t)
<1>1. IInv /\ [Next]_vars => Order
    BY ReadersInOrder, WaitersInOrder
<1>2. IInv /\ [Next]_vars => [Order]_vars
    BY <1>1
<1>3. QED
    BY <1>2, Invariance, PTL DEF Spec, NoOvertaking

=============================================================================
