-------------------------------- MODULE Mutex --------------------------------
(***************************************************************************)
(* The threads of the user program: each repeats "lock, increment a shared *)
(* counter, unlock" (src/steps/13/u/main.c) with the three-state mutex of  *)
(* u/mutex.c, the lr/sc sequences of u/atomic.S and the futex calls of the  *)
(* kernel.                                                                 *)
(*                                                                         *)
(* All threads share one hart.  A thread may be preempted between any two  *)
(* instructions and every instruction that touches shared memory is a step *)
(* of its own; a futex call is one step, as the kernel runs it with        *)
(* interrupts disabled.  The hart has one reservation.  It is dropped by   *)
(* the mret that resumes another thread, so only the thread that executed  *)
(* lr may find it; the model names that thread.                            *)
(***************************************************************************)
EXTENDS Integers, FiniteSets, FifoQueue

CONSTANTS
    Thread,     \* the threads of the program
    NoThread,   \* no reservation
    Rounds      \* how often each thread increments the counter

ASSUME MutexAssumption ==
    /\ IsFiniteSet(Thread) /\ NoThread \notin Thread
    /\ Rounds \in Nat

VARIABLES
    pc,             \* where each thread is
    lock,           \* the mutex word
    reg,            \* a3: what the last lr of a thread loaded
    reservation,    \* the thread whose reservation is valid
    futexq,         \* the kernel's futex queue
    count,          \* the shared counter
    c,              \* the local copy of it
    left            \* the increments each thread has still to do

vars == <<pc, lock, reg, reservation, futexq, count, c, left>>

UNLOCKED == 0
LOCKED_UNCONTENDED == 1
LOCKED_CONTENDED == 2

\* The instructions and calls of a thread.  "cas" stands for trylock's
\* atomic_compare_exchange, "xchg" for lock's and "free" for unlock's
\* atomic_exchange.
Locations == {"start", "cas_lr", "cas_sc", "xchg_lr", "xchg_sc", "wait", "asleep",
              "load", "store", "free_lr", "free_sc", "wake", "done"}

Goto(t, l) == pc' = [pc EXCEPT ![t] = l]

-----------------------------------------------------------------------------
(* Instructions. *)

\* A step of thread t that is neither lr nor sc: if another thread had the
\* reservation, the switch to t dropped it.
Resumed(t) == reservation' = IF reservation = t THEN t ELSE NoThread

\* lr.w a3, (a0)
LoadReserved(t) ==
    /\ reg' = [reg EXCEPT ![t] = lock]
    /\ reservation' = t

HasReservation(t) == reservation = t

\* sc.w succeeds only with a valid reservation, and may fail even so.
StoreConditional(t, value) ==
    /\ HasReservation(t)
    /\ lock' = value
    /\ reservation' = NoThread

StoreFails == reservation' = NoThread /\ UNCHANGED lock

-----------------------------------------------------------------------------
(* thread_mutex_lock *)

(* The next increment, or the end of the thread. *)
Start(t) ==
    /\ pc[t] = "start"
    /\ Goto(t, IF left[t] = 0 THEN "done" ELSE "cas_lr")
    /\ Resumed(t)
    /\ UNCHANGED <<lock, reg, futexq, count, c, left>>

\* Mutant of Matches: compare_exchange stores whatever it has loaded.
NoBranch == TRUE

\* The branch of compare_exchange: the word has the expected value.
Matches == lock = UNLOCKED

(* thread_mutex_trylock: the first try, without the kernel. *)
CasLoad(t) ==
    /\ pc[t] = "cas_lr"
    /\ LoadReserved(t)
    /\ Goto(t, IF Matches THEN "cas_sc" ELSE "xchg_lr")
    /\ UNCHANGED <<lock, futexq, count, c, left>>

CasStore(t) ==
    /\ pc[t] = "cas_sc"
    /\ StoreConditional(t, LOCKED_UNCONTENDED)
    /\ Goto(t, "load")
    /\ UNCHANGED <<reg, futexq, count, c, left>>

CasFails(t) ==
    /\ pc[t] = "cas_sc"
    /\ StoreFails
    /\ Goto(t, "xchg_lr")
    /\ UNCHANGED <<reg, futexq, count, c, left>>

(* The mutex is taken: mark it contended. *)
XchgLoad(t) ==
    /\ pc[t] = "xchg_lr"
    /\ LoadReserved(t)
    /\ Goto(t, "xchg_sc")
    /\ UNCHANGED <<lock, futexq, count, c, left>>

\* The value the slow path of thread_mutex_lock leaves in the mutex word.
SlowLock == LOCKED_CONTENDED

XchgStore(t) ==
    /\ pc[t] = "xchg_sc"
    /\ StoreConditional(t, SlowLock)
    /\ Goto(t, IF reg[t] = UNLOCKED THEN "load" ELSE "wait")
    /\ UNCHANGED <<reg, futexq, count, c, left>>

XchgFails(t) ==
    /\ pc[t] = "xchg_sc"
    /\ StoreFails
    /\ Goto(t, "xchg_lr")
    /\ UNCHANGED <<reg, futexq, count, c, left>>

\* The comparison of FUTEX_WAIT, with val = MUTEX_LOCKED_CONTENDED.
MustSleep == lock = LOCKED_CONTENDED

(* futex(FUTEX_WAIT, MUTEX_LOCKED_CONTENDED), then the loop of lock again. *)
FutexWait(t) ==
    /\ pc[t] = "wait"
    /\ IF MustSleep
       THEN futexq' = Enqueue(futexq, t) /\ Goto(t, "asleep")
       ELSE futexq' = futexq /\ Goto(t, "xchg_lr")
    /\ reservation' = NoThread
    /\ UNCHANGED <<lock, reg, count, c, left>>

-----------------------------------------------------------------------------
(* increment_count, between lock and unlock *)

Load(t) ==
    /\ pc[t] = "load"
    /\ c' = [c EXCEPT ![t] = count]
    /\ Goto(t, "store")
    /\ Resumed(t)
    /\ UNCHANGED <<lock, reg, futexq, count, left>>

Store(t) ==
    /\ pc[t] = "store"
    /\ count' = c[t] + 1
    /\ Goto(t, "free_lr")
    /\ Resumed(t)
    /\ UNCHANGED <<lock, reg, futexq, c, left>>

-----------------------------------------------------------------------------
(* thread_mutex_unlock *)

FreeLoad(t) ==
    /\ pc[t] = "free_lr"
    /\ LoadReserved(t)
    /\ Goto(t, "free_sc")
    /\ UNCHANGED <<lock, futexq, count, c, left>>

\* Mutant of NeedsWake: unlock never calls the kernel.
NeverWakes(t) == FALSE

\* A contended mutex has, or had, sleepers.
NeedsWake(t) == reg[t] = LOCKED_CONTENDED

FreeStore(t) ==
    /\ pc[t] = "free_sc"
    /\ StoreConditional(t, UNLOCKED)
    /\ Goto(t, IF NeedsWake(t) THEN "wake" ELSE "start")
    /\ left' = [left EXCEPT ![t] = @ - 1]
    /\ UNCHANGED <<reg, futexq, count, c>>

FreeFails(t) ==
    /\ pc[t] = "free_sc"
    /\ StoreFails
    /\ Goto(t, "free_lr")
    /\ UNCHANGED <<reg, futexq, count, c, left>>

\* The threads futex(FUTEX_WAKE, 1) readies.
Woken == FirstOf(futexq, Members(futexq))

(* futex(FUTEX_WAKE, 1) *)
FutexWake(t) ==
    /\ pc[t] = "wake"
    /\ futexq' = Dequeue(futexq, Woken)
    /\ pc' = [u \in Thread |-> IF u = t THEN "start"
                               ELSE IF u \in Woken THEN "xchg_lr" ELSE pc[u]]
    /\ reservation' = NoThread
    /\ UNCHANGED <<lock, reg, count, c, left>>

-----------------------------------------------------------------------------

(* A timer interrupt: the mret that ends it drops the reservation. *)
Preempt ==
    /\ reservation # NoThread
    /\ reservation' = NoThread
    /\ UNCHANGED <<pc, lock, reg, futexq, count, c, left>>

(* All threads have ended. *)
AllDone == \A t \in Thread : pc[t] = "done"
Finished == AllDone /\ UNCHANGED vars

Init ==
    /\ pc = [t \in Thread |-> "start"]
    /\ lock = UNLOCKED
    /\ reg = [t \in Thread |-> 0]
    /\ reservation = NoThread
    /\ futexq = Empty
    /\ count = 0
    /\ c = [t \in Thread |-> 0]
    /\ left = [t \in Thread |-> Rounds]

Step(t) ==
    \/ Start(t)
    \/ CasLoad(t) \/ CasStore(t) \/ CasFails(t)
    \/ XchgLoad(t) \/ XchgStore(t) \/ XchgFails(t) \/ FutexWait(t)
    \/ Load(t) \/ Store(t)
    \/ FreeLoad(t) \/ FreeStore(t) \/ FreeFails(t) \/ FutexWake(t)

Next == Preempt \/ Finished \/ \E t \in Thread : Step(t)

Spec == Init /\ [][Next]_vars

\* The scheduler gives every ready thread its turn (ReadyRuns of Kernel), and a
\* time slice of a millisecond is so much longer than the two instructions from
\* lr to sc that sc does not fail for ever.
Fairness ==
    \A t \in Thread :
        /\ WF_vars(Step(t))
        /\ SF_vars(CasStore(t) \/ XchgStore(t) \/ FreeStore(t))

FairSpec == Spec /\ Fairness

-----------------------------------------------------------------------------
(* Properties. *)

\* The type of every variable; the futex queue holds the sleeping threads.
TypeOK ==
    /\ pc \in [Thread -> Locations]
    /\ lock \in {UNLOCKED, LOCKED_UNCONTENDED, LOCKED_CONTENDED}
    /\ reg \in [Thread -> {UNLOCKED, LOCKED_UNCONTENDED, LOCKED_CONTENDED}]
    /\ reservation \in Thread \cup {NoThread}
    /\ Members(futexq) = {t \in Thread : pc[t] = "asleep"}
    /\ futexq \in [Members(futexq) -> SUBSET Members(futexq)]
    /\ count \in Int /\ c \in [Thread -> Int] /\ left \in [Thread -> Int]

\* Between the return of lock and the sc of unlock.
Holds(t) == pc[t] \in {"load", "store", "free_lr", "free_sc"}

\* Two threads never hold the mutex (mutex.c:44), and a held mutex is not
\* marked free.
MutualExclusion ==
    /\ \A t, u \in Thread : Holds(t) /\ Holds(u) => t = u
    /\ \A t \in Thread : Holds(t) => lock # UNLOCKED

\* While a thread sleeps in the kernel, either the mutex is marked contended, so
\* that its holder will wake somebody, or some thread is about to wake one, or to
\* mark it again (mutex.c:50, mutex.c:73).  Otherwise the sleeper could be lost.
Rescuer(t) == pc[t] \in {"wake", "xchg_lr", "xchg_sc", "wait"}
NoLostWakeup ==
    Members(futexq) # {} => lock = LOCKED_CONTENDED \/ \E t \in Thread : Rescuer(t)

\* No increment is lost (u/main.c:16).
CountIsExact == AllDone => count = Rounds * Cardinality(Thread)

\* Every thread comes to its end: none sleeps for ever.
Termination == <>AllDone

Holder ==
    IF \E t \in Thread : Holds(t) THEN CHOOSE t \in Thread : Holds(t) ELSE NoThread

\* The holder has stored the counter and has not yet freed the mutex.
Freeing(t) == pc[t] \in {"free_lr", "free_sc"}

Abstract == INSTANCE GuardedCounter WITH
    holder <- Holder, stored <- \E t \in Thread : Freeing(t), total <- count, todo <- left

\* Under the futex mutex increment_count (u/main.c:15) is atomic: the mutex is taken
\* only when it is free, given back only by its holder, and each time it is held the
\* counter grows by one, whatever the other threads have done meanwhile.
ImplementsGuardedCounter == Abstract!Spec

=============================================================================
