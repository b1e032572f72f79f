-------------------------------- MODULE CondVar --------------------------------
(***************************************************************************)
(* Condition variables (src/steps/13/u/condvar.c).  A condition variable   *)
(* is a word that counts the signals; a waiter remembers the count, gives  *)
(* the mutex back, and sleeps in FUTEX_WAIT only if the count is still the *)
(* same.                                                                   *)
(*                                                                         *)
(* The repository has no program that uses them; the client here is the    *)
(* one they are made for: consumers wait until there is an item, producers *)
(* add one and signal, with or without the mutex in their hand.  The mutex *)
(* is the lock that Mutex implements.                                      *)
(***************************************************************************)
EXTENDS Integers, FiniteSets, FifoQueue

CONSTANTS
    Consumer, Producer,     \* the threads of the program
    NoThread,               \* nobody holds the mutex
    Rounds,                 \* items each thread adds or takes
    SeqMod,                 \* 2^32, the number of values of the word
    WakeCount               \* 1 for signal, INT_MAX for broadcast

Thread == Consumer \cup Producer

ASSUME CondVarAssumption ==
    /\ IsFiniteSet(Consumer) /\ IsFiniteSet(Producer)
    /\ Consumer \cap Producer = {} /\ NoThread \notin Thread
    /\ Rounds \in Nat /\ WakeCount \in Nat \ {0}
    /\ SeqMod \in Nat /\ SeqMod > Rounds * Cardinality(Producer)

VARIABLES
    pc,         \* where each thread is
    holder,     \* the thread that holds the mutex
    seq,        \* the condition variable
    old,        \* what thread_cond_wait() loaded of it
    futexq,     \* the kernel's futex queue
    hung,       \* the kernel never leaves handle_futex_wake()
    items,      \* the condition the consumers wait for
    left        \* items each thread has still to add or take

vars == <<pc, holder, seq, old, futexq, hung, items, left>>

Locations == {"lock", "test", "load", "release", "wait", "asleep",
              "add", "unlock_first", "signal", "wake", "unlock", "done"}

Goto(t, l) == pc' = [pc EXCEPT ![t] = l]
At(t, l) == ~ hung /\ pc[t] = l

-----------------------------------------------------------------------------
(* The client. *)

Lock(t) ==
    /\ At(t, "lock") /\ holder = NoThread
    /\ holder' = t
    /\ Goto(t, IF t \in Consumer THEN "test" ELSE "add")
    /\ UNCHANGED <<seq, old, futexq, hung, items, left>>

(* while (items == 0) thread_cond_wait(); items --; *)
Take(t) ==
    /\ At(t, "test") /\ items > 0
    /\ items' = items - 1 /\ left' = [left EXCEPT ![t] = @ - 1]
    /\ Goto(t, "unlock")
    /\ UNCHANGED <<holder, seq, old, futexq, hung>>

FindNothing(t) ==
    /\ At(t, "test") /\ items = 0
    /\ Goto(t, "load")
    /\ UNCHANGED <<holder, seq, old, futexq, hung, items, left>>

(* items ++; the signal follows before or after the unlock. *)
Add(t) ==
    /\ At(t, "add")
    /\ items' = items + 1 /\ left' = [left EXCEPT ![t] = @ - 1]
    /\ \E l \in {"unlock_first", "signal"} : Goto(t, l)
    /\ UNCHANGED <<holder, seq, old, futexq, hung>>

Again(t) == IF left[t] = 0 THEN "done" ELSE "lock"

Unlock(t) ==
    /\ \/ At(t, "unlock_first") /\ Goto(t, "signal")
       \/ At(t, "unlock") /\ Goto(t, Again(t))
    /\ holder' = NoThread
    /\ UNCHANGED <<seq, old, futexq, hung, items, left>>

-----------------------------------------------------------------------------
(* thread_cond_wait *)

Load(t) ==
    /\ At(t, "load")
    /\ old' = [old EXCEPT ![t] = seq]
    /\ Goto(t, "release")
    /\ UNCHANGED <<holder, seq, futexq, hung, items, left>>

Release(t) ==
    /\ At(t, "release")
    /\ holder' = NoThread
    /\ Goto(t, "wait")
    /\ UNCHANGED <<seq, old, futexq, hung, items, left>>

\* Mutant of MustSleep: the count is not compared.
AlwaysSleeps(t) == TRUE

\* The comparison of FUTEX_WAIT.
MustSleep(t) == seq = old[t]

(* FUTEX_WAIT; it returns to thread_mutex_lock(). *)
FutexWait(t) ==
    /\ At(t, "wait")
    /\ IF MustSleep(t)
       THEN futexq' = Enqueue(futexq, t) /\ Goto(t, "asleep")
       ELSE futexq' = futexq /\ Goto(t, "lock")
    /\ UNCHANGED <<holder, seq, old, hung, items, left>>

-----------------------------------------------------------------------------
(* thread_cond_signal, thread_cond_broadcast *)

\* Mutant of NextSeq: a signal does not count.
SameSeq == seq

NextSeq == (seq + 1) % SeqMod

Bump(t) ==
    /\ At(t, "signal")
    /\ seq' = NextSeq
    /\ Goto(t, "wake")
    /\ UNCHANGED <<holder, old, futexq, hung, items, left>>

\* The threads FUTEX_WAKE readies.
Woken == WalkWakes(futexq, Members(futexq), WakeCount)

(* FUTEX_WAKE: who signals with the mutex in its hand unlocks after it. *)
FutexWake(t) ==
    /\ At(t, "wake")
    /\ hung' = WalkNeverEnds(futexq, Members(futexq), WakeCount)
    /\ futexq' = Dequeue(futexq, Woken)
    /\ LET next == IF holder = t THEN "unlock" ELSE Again(t) IN
       pc' = [u \in Thread |-> IF u = t THEN next
                               ELSE IF u \in Woken THEN "lock" ELSE pc[u]]
    /\ UNCHANGED <<holder, seq, old, items, left>>

-----------------------------------------------------------------------------
AllDone == \A t \in Thread : pc[t] = "done"

Init ==
    /\ left = [t \in Thread |-> Rounds]
    /\ pc = [t \in Thread |-> Again(t)]
    /\ holder = NoThread
    /\ seq = 0 /\ old = [t \in Thread |-> 0]
    /\ futexq = Empty /\ hung = FALSE
    /\ items = 0

Step(t) ==
    \/ Lock(t) \/ Take(t) \/ FindNothing(t) \/ Add(t) \/ Unlock(t)
    \/ Load(t) \/ Release(t) \/ FutexWait(t) \/ Bump(t) \/ FutexWake(t)

Next == \E t \in Thread : Step(t)

Spec == Init /\ [][Next]_vars

\* The scheduler gives every ready thread its turn (ReadyRuns of Kernel).
FairSpec == Spec /\ \A t \in Thread : WF_vars(Step(t))

-----------------------------------------------------------------------------
(* Properties. *)

\* The type of every variable; the futex queue holds the sleeping threads.
TypeOK ==
    /\ pc \in [Thread -> Locations]
    /\ holder \in Thread \cup {NoThread}
    /\ seq \in 0 .. SeqMod - 1
    /\ old \in [Thread -> 0 .. SeqMod - 1]
    /\ Members(futexq) = {t \in Thread : pc[t] = "asleep"}
    /\ futexq \in [Members(futexq) -> SUBSET Members(futexq)]
    /\ hung \in BOOLEAN
    /\ items \in Nat
    /\ left \in [Thread -> Nat]

\* Producers whose signal has not reached the kernel yet.
Signalling == {t \in Producer : pc[t] \in {"unlock_first", "signal", "wake"}}

\* A consumer on its way to sleep will return at once, as the count has changed.
WillReturn(t) == pc[t] \in {"release", "wait"} /\ old[t] # seq

\* Consumers that will look for an item (again) without being woken.
Looking == {t \in Consumer : pc[t] \in {"lock", "test"} \/ WillReturn(t)}

\* No signal is lost (condvar.c:24-34): while a consumer sleeps, there is for
\* every item a producer that will still wake somebody or a consumer that is
\* awake and will look for it.
NoLostSignal ==
    Members(futexq) # {} => items <= Cardinality(Signalling) + Cardinality(Looking)

\* Every item that is added is taken: nobody sleeps for ever.
Termination == <>AllDone

=============================================================================
