----------------------------- MODULE MutexProofs -----------------------------
(***************************************************************************)
(* Proofs about Mutex for any finite set of threads and any number of      *)
(* rounds: mutual exclusion, no lost wakeup, the exact count, and that the *)
(* increments under the futex mutex implement GuardedCounter.              *)
(*                                                                         *)
(* The inductive invariant adds to the properties what a valid reservation *)
(* tells: the mutex word still has the value the last lr loaded.           *)
(***************************************************************************)
EXTENDS Mutex, FifoQueueProofs, TLAPS

\* A thread that still has its reservation knows the value of the mutex word.
ReservationKnows ==
    \A t \in Thread : reservation = t =>
        /\ pc[t] = "cas_sc" => lock = UNLOCKED
        /\ pc[t] \in {"xchg_sc", "free_sc"} => reg[t] = lock

Inv ==
    /\ TypeOK
    /\ IsFifo(futexq)
    /\ MutualExclusion
    /\ ReservationKnows
    /\ NoLostWakeup

\* The threads start with a free mutex.
LEMMA InitInv == Init => Inv
<1> SUFFICES ASSUME Init PROVE Inv
    OBVIOUS
<1>1. Members(futexq) = {} /\ IsFifo(futexq)
    BY EmptyFifo DEF Init
<1>2. TypeOK
    BY <1>1, MutexAssumption DEF Init, TypeOK, Locations, Empty, Members, UNLOCKED
<1>3. MutualExclusion /\ ReservationKnows
    BY MutexAssumption DEF Init, MutualExclusion, Holds, ReservationKnows
<1>4. QED
    BY <1>1, <1>2, <1>3 DEF Inv, NoLostWakeup

\* Steps that change neither the futex queue nor who sleeps.
LEMMA TypeStep ==
    ASSUME Inv, NEW t \in Thread, NEW l \in Locations \ {"asleep"},
           pc[t] # "asleep", Goto(t, l), futexq' = futexq,
           lock' \in {UNLOCKED, LOCKED_UNCONTENDED, LOCKED_CONTENDED},
           reg' \in [Thread -> {UNLOCKED, LOCKED_UNCONTENDED, LOCKED_CONTENDED}],
           reservation' \in Thread \cup {NoThread},
           count' \in Int, c' \in [Thread -> Int], left' \in [Thread -> Int]
    PROVE  TypeOK' /\ IsFifo(futexq)'
<1>1. pc' = [pc EXCEPT ![t] = l] /\ pc' \in [Thread -> Locations]
    BY DEF Goto, Inv, TypeOK
<1>2. {u \in Thread : pc'[u] = "asleep"} = {u \in Thread : pc[u] = "asleep"}
    BY <1>1 DEF Inv, TypeOK
<1>3. QED
    BY <1>1, <1>2 DEF Inv, TypeOK, IsFifo, Members

-----------------------------------------------------------------------------
(* Every action preserves Inv. *)

\* The steps of a thread between its atomic instructions keep the invariant.
LEMMA LocalStep ==
    ASSUME Inv, NEW t \in Thread, Start(t) \/ Load(t) \/ Store(t)
    PROVE  Inv'
<1>1. Inv /\ TypeOK /\ Resumed(t) /\ UNCHANGED <<lock, reg, futexq, left>>
    BY DEF Inv, Start, Load, Store
<1>2. PICK l \in Locations \ {"asleep"} :
        /\ Goto(t, l) /\ pc[t] # "asleep"
        /\ \/ pc[t] = "start" /\ l \in {"done", "cas_lr"}
           \/ pc[t] = "load" /\ l = "store"
           \/ pc[t] = "store" /\ l = "free_lr"
    BY DEF Start, Load, Store, Locations
<1>3. count' \in Int /\ c' \in [Thread -> Int]
    BY <1>1 DEF Start, Load, Store, TypeOK
<1>4. reservation' \in {NoThread, reservation} /\ (reservation' = reservation \/ reservation' = NoThread)
    BY <1>1 DEF Resumed
<1>5. TypeOK' /\ IsFifo(futexq)'
    BY <1>1, <1>2, <1>3, <1>4, TypeStep DEF TypeOK
<1>6. pc' = [pc EXCEPT ![t] = l]
    BY <1>2 DEF Goto
<1>7. MutualExclusion'
    BY <1>1, <1>2, <1>6 DEF Inv, MutualExclusion, Holds, TypeOK
<1>8. ReservationKnows'
    BY <1>1, <1>2, <1>4, <1>6, MutexAssumption DEF Inv, ReservationKnows, TypeOK
<1>9. NoLostWakeup'
    BY <1>1, <1>2, <1>6 DEF Inv, NoLostWakeup, Rescuer, TypeOK, Members
<1>10. QED
    BY <1>5, <1>7, <1>8, <1>9 DEF Inv

\* lr keeps it: the register has what is in the word.
LEMMA LoadStep ==
    ASSUME Inv, NEW t \in Thread, CasLoad(t) \/ XchgLoad(t) \/ FreeLoad(t)
    PROVE  Inv'
<1>1. Inv /\ TypeOK /\ LoadReserved(t) /\ UNCHANGED <<lock, futexq, count, c, left>>
    BY DEF Inv, CasLoad, XchgLoad, FreeLoad
<1>2. PICK l \in Locations \ {"asleep"} :
        /\ Goto(t, l) /\ pc[t] # "asleep"
        /\ \/ pc[t] = "cas_lr" /\ lock = UNLOCKED /\ l = "cas_sc"
           \/ pc[t] = "cas_lr" /\ l = "xchg_lr"
           \/ pc[t] = "xchg_lr" /\ l = "xchg_sc"
           \/ pc[t] = "free_lr" /\ l = "free_sc"
    BY DEF CasLoad, Matches, XchgLoad, FreeLoad, Locations
<1>3. reg' = [reg EXCEPT ![t] = lock] /\ reservation' = t
    BY <1>1 DEF LoadReserved
<1>4. TypeOK' /\ IsFifo(futexq)'
    BY <1>1, <1>2, <1>3, TypeStep DEF TypeOK
<1>5. pc' = [pc EXCEPT ![t] = l]
    BY <1>2 DEF Goto
<1>6. MutualExclusion'
    BY <1>1, <1>2, <1>5 DEF Inv, MutualExclusion, Holds, TypeOK
<1>7. ReservationKnows'
    BY <1>1, <1>2, <1>3, <1>5 DEF ReservationKnows, TypeOK
<1>8. NoLostWakeup'
    BY <1>1, <1>2, <1>5 DEF Inv, NoLostWakeup, Rescuer, TypeOK, Members
<1>9. QED
    BY <1>4, <1>6, <1>7, <1>8 DEF Inv

\* A failed sc keeps it.
LEMMA FailStep ==
    ASSUME Inv, NEW t \in Thread, CasFails(t) \/ XchgFails(t) \/ FreeFails(t)
    PROVE  Inv'
<1>1. Inv /\ TypeOK /\ reservation' = NoThread /\ UNCHANGED <<lock, reg, futexq, count, c, left>>
    BY DEF Inv, CasFails, XchgFails, FreeFails, StoreFails
<1>2. PICK l \in Locations \ {"asleep"} :
        /\ Goto(t, l) /\ pc[t] # "asleep"
        /\ \/ pc[t] \in {"cas_sc", "xchg_sc"} /\ l = "xchg_lr"
           \/ pc[t] = "free_sc" /\ l = "free_lr"
    BY DEF CasFails, XchgFails, FreeFails, Locations
<1>3. TypeOK' /\ IsFifo(futexq)'
    BY <1>1, <1>2, TypeStep DEF TypeOK
<1>4. pc' = [pc EXCEPT ![t] = l]
    BY <1>2 DEF Goto
<1>5. MutualExclusion'
    BY <1>1, <1>2, <1>4 DEF Inv, MutualExclusion, Holds, TypeOK
<1>6. ReservationKnows'
    BY <1>1, MutexAssumption DEF ReservationKnows
<1>7. NoLostWakeup'
    BY <1>1, <1>2, <1>4 DEF Inv, NoLostWakeup, Rescuer, TypeOK, Members
<1>8. QED
    BY <1>3, <1>5, <1>6, <1>7 DEF Inv

\* A successful sc keeps it: the word has not changed since its lr.
LEMMA StoreStep ==
    ASSUME Inv, NEW t \in Thread, CasStore(t) \/ XchgStore(t) \/ FreeStore(t)
    PROVE  Inv'
<1>1. Inv /\ TypeOK /\ reservation = t /\ reservation' = NoThread
      /\ UNCHANGED <<reg, futexq, count, c>>
    BY DEF Inv, CasStore, XchgStore, FreeStore, StoreConditional, HasReservation
<1>2. PICK l \in Locations \ {"asleep"} :
        /\ Goto(t, l) /\ pc[t] # "asleep"
        /\ \/ pc[t] = "cas_sc" /\ lock' = LOCKED_UNCONTENDED /\ l = "load"
           \/ pc[t] = "xchg_sc" /\ lock' = LOCKED_CONTENDED /\ reg[t] = UNLOCKED /\ l = "load"
           \/ pc[t] = "xchg_sc" /\ lock' = LOCKED_CONTENDED /\ reg[t] # UNLOCKED /\ l = "wait"
           \/ pc[t] = "free_sc" /\ lock' = UNLOCKED /\ reg[t] = LOCKED_CONTENDED /\ l = "wake"
           \/ pc[t] = "free_sc" /\ lock' = UNLOCKED /\ reg[t] # LOCKED_CONTENDED /\ l = "start"
    BY DEF CasStore, XchgStore, FreeStore, StoreConditional, Locations, SlowLock, NeedsWake
<1>3. pc' = [pc EXCEPT ![t] = l]
    BY <1>2 DEF Goto
<1>4. left' \in [Thread -> Int]
    BY <1>1 DEF CasStore, XchgStore, FreeStore, TypeOK
<1>5. TypeOK' /\ IsFifo(futexq)'
    BY <1>1, <1>2, <1>4, TypeStep DEF TypeOK
<1>6. ReservationKnows'
    BY <1>1, MutexAssumption DEF ReservationKnows
<1>7. /\ pc[t] = "cas_sc" => lock = UNLOCKED
      /\ pc[t] \in {"xchg_sc", "free_sc"} => reg[t] = lock
    BY <1>1 DEF Inv, ReservationKnows
<1>8. MutualExclusion'
    BY <1>1, <1>2, <1>3, <1>7
       DEF Inv, MutualExclusion, Holds, TypeOK, UNLOCKED, LOCKED_UNCONTENDED, LOCKED_CONTENDED
<1>9. NoLostWakeup'
    BY <1>1, <1>2, <1>3, <1>7
       DEF Inv, NoLostWakeup, Rescuer, TypeOK, Members, UNLOCKED, LOCKED_UNCONTENDED, LOCKED_CONTENDED
<1>10. QED
    BY <1>5, <1>6, <1>8, <1>9 DEF Inv

\* FUTEX_WAIT keeps it: it sleeps only if the word is contended.
LEMMA WaitStep ==
    ASSUME Inv, NEW t \in Thread, FutexWait(t)
    PROVE  Inv'
<1>1. /\ TypeOK /\ IsFifo(futexq) /\ pc[t] = "wait" /\ reservation' = NoThread
      /\ UNCHANGED <<lock, reg, count, c, left>>
    BY DEF Inv, FutexWait
<1>2. ReservationKnows'
    BY <1>1, MutexAssumption DEF ReservationKnows
<1>3. CASE lock = LOCKED_CONTENDED
    <2>1. futexq' = Enqueue(futexq, t) /\ pc' = [pc EXCEPT ![t] = "asleep"]
        BY <1>3 DEF FutexWait, MustSleep, Goto
    <2>2. t \notin Members(futexq)
        BY <1>1 DEF TypeOK
    <2>3. /\ Members(futexq') = Members(futexq) \cup {t} /\ IsFifo(futexq')
        BY <1>1, <2>1, <2>2, EnqueueFifo
    <2>4. pc' \in [Thread -> Locations]
        BY <1>1, <2>1 DEF TypeOK, Locations
    <2>5. Members(futexq') = {u \in Thread : pc'[u] = "asleep"}
        BY <1>1, <2>1, <2>3 DEF TypeOK
    <2>6. futexq' \in [Members(futexq') -> SUBSET Members(futexq')]
        BY <1>1, <2>1, <2>3 DEF TypeOK, Enqueue, Members
    <2>7. TypeOK' /\ IsFifo(futexq)'
        BY <1>1, <2>3, <2>4, <2>5, <2>6 DEF TypeOK, IsFifo, Members
    <2>8. MutualExclusion'
        BY <1>1, <2>1 DEF Inv, MutualExclusion, Holds, TypeOK
    <2>9. NoLostWakeup'
        BY <1>1, <1>3 DEF NoLostWakeup, LOCKED_CONTENDED
    <2>10. QED
        BY <1>2, <2>7, <2>8, <2>9 DEF Inv
<1>4. CASE lock # LOCKED_CONTENDED
    <2>1. futexq' = futexq /\ Goto(t, "xchg_lr") /\ pc' = [pc EXCEPT ![t] = "xchg_lr"]
        BY <1>4 DEF FutexWait, MustSleep, Goto
    <2>2. TypeOK' /\ IsFifo(futexq)'
        BY <1>1, <2>1, TypeStep DEF TypeOK, Locations
    <2>3. MutualExclusion'
        BY <1>1, <2>1 DEF Inv, MutualExclusion, Holds, TypeOK
    <2>4. NoLostWakeup'
        BY <1>1, <2>1 DEF NoLostWakeup, Rescuer, TypeOK
    <2>5. QED
        BY <1>2, <2>2, <2>3, <2>4 DEF Inv
<1>5. QED
    BY <1>3, <1>4

\* FUTEX_WAKE keeps it.
LEMMA WakeStep ==
    ASSUME Inv, NEW t \in Thread, FutexWake(t)
    PROVE  Inv'
<1>1. /\ TypeOK /\ IsFifo(futexq) /\ pc[t] = "wake" /\ reservation' = NoThread
      /\ UNCHANGED <<lock, reg, count, c, left>>
      /\ futexq' = Dequeue(futexq, Woken)
      /\ pc' = [u \in Thread |-> IF u = t THEN "start"
                                 ELSE IF u \in Woken THEN "xchg_lr" ELSE pc[u]]
    BY DEF Inv, FutexWake
<1>2. ReservationKnows'
    BY <1>1, MutexAssumption DEF ReservationKnows
<1>3. Members(futexq') = Members(futexq) \ Woken /\ IsFifo(futexq')
    BY <1>1, DequeueFifo
<1>4. Woken \subseteq Members(futexq) /\ t \notin Members(futexq)
    BY <1>1 DEF Woken, FirstOf, TypeOK
<1>5. TypeOK' /\ IsFifo(futexq)'
    <2>1. pc' \in [Thread -> Locations]
        BY <1>1 DEF TypeOK, Locations
    <2>2. Members(futexq') = {u \in Thread : pc'[u] = "asleep"}
        BY <1>1, <1>3, <1>4 DEF TypeOK
    <2>3. futexq' \in [Members(futexq') -> SUBSET Members(futexq')]
        BY <1>1, <1>3 DEF TypeOK, Dequeue, Members
    <2>4. QED
        BY <1>1, <1>3, <2>1, <2>2, <2>3 DEF TypeOK, IsFifo, Members
<1>6. MutualExclusion'
    BY <1>1, <1>4 DEF Inv, MutualExclusion, Holds, TypeOK
<1>7. NoLostWakeup'
    <2>1. CASE Members(futexq) = {}
        BY <1>1, <1>3, <2>1 DEF NoLostWakeup, Members
    <2>2. CASE Members(futexq) # {}
        <3>1. IsFiniteSet(Members(futexq))
            BY <1>1, MutexAssumption, FS_Subset DEF TypeOK
        <3>2. Woken # {}
            BY <1>1, <2>2, <3>1, FirstExists DEF Woken
        <3>3. PICK u \in Woken : u \in Thread /\ u # t
            BY <1>1, <1>4, <3>2 DEF TypeOK
        <3>4. pc'[u] = "xchg_lr"
            BY <1>1, <3>3
        <3>5. QED
            BY <3>3, <3>4 DEF NoLostWakeup, Rescuer
    <2>3. QED
        BY <2>1, <2>2
<1>8. QED
    BY <1>2, <1>5, <1>6, <1>7 DEF Inv

\* Every step keeps the invariant.
LEMMA NextInv == Inv /\ [Next]_vars => Inv'
<1> SUFFICES ASSUME Inv, [Next]_vars PROVE Inv'
    OBVIOUS
<1>1. CASE UNCHANGED vars
    BY <1>1 DEF Inv, vars, TypeOK, IsFifo, MutualExclusion, Holds, ReservationKnows,
                NoLostWakeup, Rescuer, Members
<1>2. CASE Preempt
    BY <1>2, MutexAssumption
       DEF Preempt, Inv, TypeOK, IsFifo, MutualExclusion, Holds, ReservationKnows,
           NoLostWakeup, Rescuer, Members
<1>3. ASSUME NEW t \in Thread, Step(t) PROVE Inv'
    BY <1>3, LocalStep, LoadStep, FailStep, StoreStep, WaitStep, WakeStep DEF Step
<1>4. QED
    BY <1>1, <1>2, <1>3 DEF Next, Finished

\* So it holds in every reachable state.
LEMMA Invariance == Spec => []Inv
BY InitInv, NextInv, PTL DEF Spec

\* The mutex word has one of its three values, what a thread loaded of it too, and
\* the futex queue holds exactly the sleeping threads.
THEOREM MutexTypeCorrect == Spec => []TypeOK
<1>1. Inv => TypeOK
    BY DEF Inv
<1>2. QED
    BY <1>1, Invariance, PTL

\* No two threads are ever between lock and unlock, however the timer interleaves
\* them, if a context switch drops the reservation.
THEOREM MutexIsExclusive == Spec => []MutualExclusion
<1>1. Inv => MutualExclusion
    BY DEF Inv
<1>2. QED
    BY <1>1, Invariance, PTL

\* A sleeping thread always has somebody who will wake it or mark the mutex.
THEOREM NoWakeupIsLost == Spec => []NoLostWakeup
<1>1. Inv => NoLostWakeup
    BY DEF Inv
<1>2. QED
    BY <1>1, Invariance, PTL

-----------------------------------------------------------------------------
(* The counter: the increments done, as pairs of a thread and a round. *)

Stored ==
    {x \in Thread \X (1 .. Rounds) :
        \/ x[2] <= Rounds - left[x[1]]
        \/ x[2] = Rounds - left[x[1]] + 1 /\ Freeing(x[1])}

\* A thread in the middle of a round has one left, one that is done has none.
RoundsInv ==
    /\ left \in [Thread -> 0 .. Rounds]
    /\ \A t \in Thread : pc[t] \notin {"start", "wake", "done"} => left[t] # 0
    /\ \A t \in Thread : pc[t] = "done" => left[t] = 0

\* What the holder has loaded is still the counter.
CopyIsFresh == \A t \in Thread : pc[t] = "store" => c[t] = count

CountInv ==
    /\ RoundsInv
    /\ CopyIsFresh
    /\ count = Cardinality(Stored)

LEMMA StoredFinite ==
    /\ IsFiniteSet(Thread \X (1 .. Rounds))
    /\ Cardinality(Thread \X (1 .. Rounds)) = Cardinality(Thread) * Rounds
    /\ IsFiniteSet(Stored)
<1>1. IsFiniteSet(1 .. Rounds) /\ Cardinality(1 .. Rounds) = Rounds
    BY FS_Interval, MutexAssumption
<1>2. /\ IsFiniteSet(Thread \X (1 .. Rounds))
      /\ Cardinality(Thread \X (1 .. Rounds)) = Cardinality(Thread) * Rounds
    BY <1>1, FS_Product, MutexAssumption
<1>3. Stored \subseteq Thread \X (1 .. Rounds)
    BY DEF Stored
<1>4. QED
    BY <1>2, <1>3, FS_Subset

LEMMA InitCount == Init => CountInv
<1> SUFFICES ASSUME Init PROVE CountInv
    OBVIOUS
<1>1. Stored = {}
    BY MutexAssumption DEF Init, Stored, Freeing
<1>2. Cardinality(Stored) = 0
    BY <1>1, FS_EmptySet
<1>3. QED
    BY <1>2, MutexAssumption DEF Init, CountInv, RoundsInv, CopyIsFresh

\* Steps outside of load, store and the sc of unlock.
LEMMA QuietStep ==
    ASSUME Inv, CountInv, UNCHANGED <<count, c, left>>,
           \A u \in Thread :
               /\ pc'[u] \in {"free_lr", "free_sc"} <=> Freeing(u)
               /\ pc'[u] = "store" => pc[u] = "store"
               /\ pc'[u] \notin {"start", "wake", "done"} =>
                      pc[u] \notin {"start", "wake", "done"} \/ left[u] # 0
               /\ pc'[u] = "done" => pc[u] = "done" \/ left[u] = 0
    PROVE  CountInv'
<1>1. Stored' = Stored
    BY DEF Stored, Freeing
<1>2. RoundsInv' /\ CopyIsFresh'
    BY DEF CountInv, RoundsInv, CopyIsFresh
<1>3. QED
    BY <1>1, <1>2 DEF CountInv

LEMMA QuietSteps ==
    ASSUME Inv, CountInv, NEW t \in Thread,
           \/ Start(t) \/ CasLoad(t) \/ CasStore(t) \/ CasFails(t)
           \/ XchgLoad(t) \/ XchgStore(t) \/ XchgFails(t) \/ FutexWait(t)
           \/ FreeLoad(t) \/ FreeFails(t)
    PROVE  CountInv'
<1>1. UNCHANGED <<count, c, left>>
    BY DEF Start, CasLoad, CasStore, CasFails, XchgLoad, XchgStore, XchgFails, FutexWait,
           FreeLoad, FreeFails
<1>2. PICK l :
        /\ pc' = [pc EXCEPT ![t] = l]
        /\ \/ pc[t] = "start" /\ l = "done" /\ left[t] = 0
           \/ pc[t] = "start" /\ l = "cas_lr" /\ left[t] # 0
           \/ /\ pc[t] \in {"cas_lr", "cas_sc", "xchg_lr", "xchg_sc", "wait"}
              /\ l \in {"cas_sc", "xchg_lr", "xchg_sc", "load", "wait", "asleep"}
           \/ pc[t] = "free_lr" /\ l = "free_sc"
           \/ pc[t] = "free_sc" /\ l = "free_lr"
    BY DEF Start, CasLoad, CasStore, CasFails, XchgLoad, XchgStore, XchgFails, FutexWait,
           FreeLoad, FreeFails, Goto
<1>3. \A u \in Thread : pc'[u] = IF u = t THEN l ELSE pc[u]
    BY <1>2 DEF Inv, TypeOK
<1>4. QED
    BY <1>1, <1>2, <1>3, QuietStep DEF Freeing

LEMMA WakeCount == ASSUME Inv, CountInv, NEW t \in Thread, FutexWake(t) PROVE CountInv'
<1>1. UNCHANGED <<count, c, left>> /\ pc[t] = "wake"
    BY DEF FutexWake
<1>2. \A u \in Thread : pc'[u] = IF u = t THEN "start"
                                 ELSE IF u \in Woken THEN "xchg_lr" ELSE pc[u]
    BY DEF FutexWake
<1>3. \A u \in Woken : pc[u] = "asleep"
    BY DEF Woken, FirstOf, Inv, TypeOK
<1>4. QED
    BY <1>1, <1>2, <1>3, QuietStep DEF Freeing

LEMMA LoadCount == ASSUME Inv, CountInv, NEW t \in Thread, Load(t) PROVE CountInv'
<1>1. UNCHANGED <<count, left>> /\ pc[t] = "load"
    BY DEF Load
<1>2. \A u \in Thread : /\ pc'[u] = IF u = t THEN "store" ELSE pc[u]
                        /\ c'[u] = IF u = t THEN count ELSE c[u]
    BY DEF Load, Goto, Inv, TypeOK
<1>3. Stored' = Stored
    BY <1>1, <1>2 DEF Stored, Freeing
<1>4. RoundsInv' /\ CopyIsFresh'
    BY <1>1, <1>2 DEF CountInv, RoundsInv, CopyIsFresh
<1>5. QED
    BY <1>1, <1>3, <1>4 DEF CountInv

\* The store is exact, as nobody has stored since the load.
LEMMA StoreCount == ASSUME Inv, CountInv, NEW t \in Thread, Store(t) PROVE CountInv'
<1>1. UNCHANGED <<c, left>> /\ pc[t] = "store" /\ count' = c[t] + 1
    BY DEF Store
<1>2. \A u \in Thread : pc'[u] = IF u = t THEN "free_lr" ELSE pc[u]
    BY DEF Store, Goto, Inv, TypeOK
<1>3. left[t] \in 1 .. Rounds /\ c[t] = count
    BY <1>1, MutexAssumption DEF CountInv, RoundsInv, CopyIsFresh
<1>4. \A u \in Thread : left[u] \in 0 .. Rounds
    BY DEF CountInv, RoundsInv
<1> DEFINE r == Rounds - left[t] + 1
<1>5. r \in 1 .. Rounds
    BY <1>3, MutexAssumption
<1>6. Stored' = Stored \cup {<<t, r>>}
    <2>1. ASSUME NEW x \in Thread \X (1 .. Rounds)
          PROVE  x \in Stored' <=> x \in Stored \/ x = <<t, r>>
        <3>1. x = <<x[1], x[2]>> /\ x[1] \in Thread /\ x[2] \in 1 .. Rounds
            OBVIOUS
        <3>2. CASE x[1] = t
            BY <1>1, <1>2, <1>4, <3>1, <3>2, MutexAssumption DEF Stored, Freeing
        <3>3. CASE x[1] # t
            BY <1>1, <1>2, <3>1, <3>3 DEF Stored, Freeing
        <3>4. QED
            BY <3>2, <3>3
    <2>2. <<t, r>> \in Thread \X (1 .. Rounds)
        BY <1>5
    <2>3. Stored' \subseteq Thread \X (1 .. Rounds) /\ Stored \subseteq Thread \X (1 .. Rounds)
        BY DEF Stored
    <2> HIDE DEF r
    <2>4. QED
        BY <2>1, <2>2, <2>3
<1>7. <<t, r>> \notin Stored
    BY <1>1, <1>3, MutexAssumption DEF Stored, Freeing
<1> HIDE DEF r
<1>8. Cardinality(Stored') = Cardinality(Stored) + 1
    BY <1>6, <1>7, StoredFinite, FS_AddElement
<1>9. RoundsInv'
    BY <1>1, <1>2, <1>3 DEF CountInv, RoundsInv
<1>10. CopyIsFresh'
    BY <1>1, <1>2 DEF CopyIsFresh, Inv, MutualExclusion, Holds
<1>11. QED
    BY <1>1, <1>3, <1>8, <1>9, <1>10 DEF CountInv

\* The sc of unlock ends a round whose increment was counted at the store.
LEMMA FreeCount == ASSUME Inv, CountInv, NEW t \in Thread, FreeStore(t) PROVE CountInv'
<1>1. UNCHANGED <<count, c>> /\ pc[t] = "free_sc" /\ left' = [left EXCEPT ![t] = @ - 1]
    BY DEF FreeStore
<1>2. PICK l \in {"wake", "start"} : pc' = [pc EXCEPT ![t] = l]
    BY DEF FreeStore, Goto
<1>3. \A u \in Thread : /\ pc'[u] = IF u = t THEN l ELSE pc[u]
                        /\ left'[u] = IF u = t THEN left[t] - 1 ELSE left[u]
    BY <1>1, <1>2 DEF Inv, TypeOK
<1>4. left[t] \in 1 .. Rounds /\ \A u \in Thread : left[u] \in 0 .. Rounds
    BY <1>1, MutexAssumption DEF CountInv, RoundsInv
<1>5. Stored' = Stored
    <2>1. ASSUME NEW x \in Thread \X (1 .. Rounds)
          PROVE  x \in Stored' <=> x \in Stored
        <3>1. x[1] \in Thread /\ x[2] \in 1 .. Rounds
            OBVIOUS
        <3>2. CASE x[1] = t
            BY <1>1, <1>3, <1>4, <3>1, <3>2, MutexAssumption DEF Stored, Freeing
        <3>3. CASE x[1] # t
            BY <1>3, <3>1, <3>3 DEF Stored, Freeing
        <3>4. QED
            BY <3>2, <3>3
    <2>2. Stored' \subseteq Thread \X (1 .. Rounds) /\ Stored \subseteq Thread \X (1 .. Rounds)
        BY DEF Stored
    <2>3. QED
        BY <2>1, <2>2
<1>6. left' \in [Thread -> 0 .. Rounds]
    BY <1>1, <1>4, MutexAssumption DEF CountInv, RoundsInv
<1>7. RoundsInv'
    BY <1>2, <1>3, <1>6 DEF CountInv, RoundsInv
<1>8. CopyIsFresh'
    BY <1>1, <1>2, <1>3 DEF CountInv, CopyIsFresh
<1>9. QED
    BY <1>1, <1>5, <1>7, <1>8 DEF CountInv

LEMMA CountInvariance == Spec => []CountInv
<1>1. Inv /\ CountInv /\ [Next]_vars => CountInv'
    <2> SUFFICES ASSUME Inv, CountInv, [Next]_vars PROVE CountInv'
        OBVIOUS
    <2>1. CASE UNCHANGED <<pc, count, c, left>>
        BY <2>1, QuietStep DEF Freeing, CountInv, RoundsInv
    <2>2. ASSUME NEW t \in Thread, Step(t) PROVE CountInv'
        BY <2>2, QuietSteps, WakeCount, LoadCount, StoreCount, FreeCount DEF Step
    <2>3. QED
        BY <2>1, <2>2 DEF Next, Preempt, Finished, vars
<1>2. QED
    BY InitCount, Invariance, <1>1, PTL DEF Spec

\* When all threads have ended, the counter is the number of increments they were
\* to do: none is lost (u/main.c:16).
THEOREM NoIncrementIsLost == Spec => []CountIsExact
<1>1. CountInv => CountIsExact
    <2> SUFFICES ASSUME CountInv, AllDone PROVE count = Rounds * Cardinality(Thread)
        BY DEF CountIsExact
    <2>1. \A t \in Thread : left[t] = 0
        BY DEF CountInv, RoundsInv, AllDone
    <2>2. Stored = Thread \X (1 .. Rounds)
        BY <2>1, MutexAssumption DEF Stored
    <2>3. Cardinality(Thread) \in Nat
        BY MutexAssumption, FS_CardinalityType
    <2>4. QED
        BY <2>2, <2>3, StoredFinite, MutexAssumption DEF CountInv
<1>2. QED
    BY <1>1, CountInvariance, PTL

-----------------------------------------------------------------------------
(* Refinement: Holder and Freeing are the holder and stored of GuardedCounter. *)

Counted == \E t \in Thread : Freeing(t)

\* Holder is the thread that holds the mutex, if there is one.
LEMMA HolderIs ==
    ASSUME MutualExclusion
    PROVE  /\ \A t \in Thread : Holds(t) => Holder = t
           /\ (\A t \in Thread : ~ Holds(t)) => Holder = NoThread
BY MutexAssumption DEF Holder, MutualExclusion

\* The same in the next state.
LEMMA NextHolderIs ==
    ASSUME MutualExclusion'
    PROVE  /\ \A t \in Thread : Holds(t)' => Holder' = t
           /\ (\A t \in Thread : ~ Holds(t)') => Holder' = NoThread
BY MutexAssumption DEF Holder, MutualExclusion

\* Counted only tells of the holder: all other threads are outside.
LEMMA OnlyHolderCounts ==
    ASSUME MutualExclusion, NEW t \in Thread, Holds(t)
    PROVE  Counted <=> Freeing(t)
BY DEF MutualExclusion, Counted, Freeing, Holds

\* A step that changes neither the holder nor whether it has stored is none of
\* GuardedCounter.
LEMMA SectionKept ==
    ASSUME Inv, Inv', UNCHANGED <<count, left>>,
           \A u \in Thread : (Holds(u)' <=> Holds(u)) /\ (Freeing(u)' <=> Freeing(u))
    PROVE  UNCHANGED <<Holder, Counted, count, left>>
<1>1. MutualExclusion /\ MutualExclusion'
    BY DEF Inv
<1>2. Holder' = Holder
    BY <1>1, HolderIs, NextHolderIs
<1>3. Counted' = Counted
    BY Zenon DEF Counted
<1>4. QED
    BY <1>2, <1>3

\* A boolean that is false is FALSE, and one that is true is TRUE.
LEMMA CountedIsBoolean ==
    /\ Counted => Counted = TRUE
    /\ ~ Counted => Counted = FALSE
    /\ Counted' => Counted' = TRUE
    /\ ~ Counted' => Counted' = FALSE
BY Zenon DEF Counted

\* The sc that takes the mutex finds it free: thread_mutex_lock.
LEMMA TakeImplements ==
    ASSUME Inv, Inv', CountInv, NEW t \in Thread,
           CasStore(t) \/ (XchgStore(t) /\ reg[t] = UNLOCKED)
    PROVE  Abstract!thread_mutex_lock(t)
<1>1. /\ TypeOK /\ MutualExclusion /\ MutualExclusion'
      /\ Goto(t, "load") /\ reservation = t /\ pc[t] \in {"cas_sc", "xchg_sc"}
      /\ UNCHANGED <<count, left>>
    BY DEF Inv, CasStore, XchgStore, StoreConditional, HasReservation
<1>2. lock = UNLOCKED
    BY <1>1 DEF Inv, ReservationKnows, CasStore, XchgStore
<1>3. \A u \in Thread : ~ Holds(u)
    BY <1>1, <1>2 DEF MutualExclusion
<1>4. Holder = NoThread
    BY <1>1, <1>3, HolderIs
<1>5. \A u \in Thread : pc'[u] = IF u = t THEN "load" ELSE pc[u]
    BY <1>1 DEF Goto, TypeOK
<1>6. Holder' = t
    BY <1>1, <1>5, NextHolderIs DEF Holds
<1>7. Counted' = FALSE
    <2>1. ~ Counted'
        BY <1>3, <1>5 DEF Counted, Freeing, Holds
    <2>2. QED
        BY <2>1, CountedIsBoolean
<1>8. left[t] > 0
    BY <1>1, MutexAssumption DEF CountInv, RoundsInv
<1>9. QED
    BY <1>1, <1>4, <1>6, <1>7, <1>8 DEF Abstract!thread_mutex_lock, Abstract!section, Counted

\* The store of increment_count is the increment: its load is still true.
LEMMA StoreImplements ==
    ASSUME Inv, Inv', CountInv, NEW t \in Thread, Store(t)
    PROVE  Abstract!increment
<1>1. /\ TypeOK /\ MutualExclusion /\ MutualExclusion'
      /\ pc[t] = "store" /\ Goto(t, "free_lr") /\ count' = c[t] + 1 /\ UNCHANGED left
    BY DEF Inv, Store
<1>2. \A u \in Thread : pc'[u] = IF u = t THEN "free_lr" ELSE pc[u]
    BY <1>1 DEF Goto, TypeOK
<1>3. Holds(t) /\ Holds(t)' /\ ~ Freeing(t) /\ Freeing(t)'
    BY <1>1, <1>2 DEF Holds, Freeing
<1>4. Holder = t /\ Holder' = t
    BY <1>1, <1>3, HolderIs, NextHolderIs
<1>5. ~ Counted
    BY <1>1, <1>3, OnlyHolderCounts
<1>6. Counted' = TRUE
    <2>1. Counted'
        BY <1>3 DEF Counted
    <2>2. QED
        BY <2>1, CountedIsBoolean
<1>7. count' = count + 1
    BY <1>1 DEF CountInv, CopyIsFresh
<1>8. QED
    BY <1>1, <1>4, <1>5, <1>6, <1>7 DEF Abstract!increment, Abstract!section, Counted

\* The sc of unlock gives the mutex back, after the store.
LEMMA FreeImplements ==
    ASSUME Inv, Inv', NEW t \in Thread, FreeStore(t)
    PROVE  Abstract!thread_mutex_unlock
<1>1. /\ TypeOK /\ MutualExclusion /\ MutualExclusion'
      /\ pc[t] = "free_sc" /\ left' = [left EXCEPT ![t] = @ - 1] /\ UNCHANGED count
    BY DEF Inv, FreeStore
<1>2. PICK l \in {"wake", "start"} : pc' = [pc EXCEPT ![t] = l]
    BY DEF FreeStore, Goto
<1>3. \A u \in Thread : pc'[u] = IF u = t THEN l ELSE pc[u]
    BY <1>1, <1>2 DEF TypeOK
<1>4. Holds(t) /\ Freeing(t)
    BY <1>1 DEF Holds, Freeing
<1>5. Holder = t
    BY <1>1, <1>4, HolderIs
<1>6. \A u \in Thread : ~ Holds(u)'
    BY <1>1, <1>2, <1>3, <1>4 DEF MutualExclusion, Holds
<1>7. Holder' = NoThread
    BY <1>1, <1>6, NextHolderIs
<1>8. Counted' = FALSE
    <2>1. ~ Counted'
        BY <1>6 DEF Counted, Freeing, Holds
    <2>2. QED
        BY <2>1, CountedIsBoolean
<1>9. Counted
    BY <1>4 DEF Counted
<1>10. QED
    BY <1>1, <1>5, <1>7, <1>8, <1>9 DEF Abstract!thread_mutex_unlock, Abstract!section, Counted

\* All other steps of a thread are invisible, those of the kernel's queue included.
LEMMA OtherStepsKeep ==
    ASSUME Inv, Inv', NEW t \in Thread, Step(t), ~ Store(t), ~ FreeStore(t),
           ~ (CasStore(t) \/ (XchgStore(t) /\ reg[t] = UNLOCKED))
    PROVE  UNCHANGED <<Holder, Counted, count, left>>
<1>1. TypeOK
    BY DEF Inv
<1>2. CASE FutexWake(t)
    <2>1. Woken \subseteq Members(futexq)
        BY DEF Woken, FirstOf
    <2>2. \A u \in Thread : (Holds(u)' <=> Holds(u)) /\ (Freeing(u)' <=> Freeing(u))
        BY <1>1, <1>2, <2>1 DEF FutexWake, Holds, Freeing, TypeOK
    <2>3. QED
        BY <1>2, <2>2, SectionKept DEF FutexWake
<1>3. CASE Start(t) \/ Load(t) \/ FreeLoad(t) \/ FreeFails(t)
    <2>1. \A u \in Thread : (Holds(u)' <=> Holds(u)) /\ (Freeing(u)' <=> Freeing(u))
        BY <1>1, <1>3 DEF Start, Load, FreeLoad, FreeFails, Goto, Holds, Freeing, TypeOK
    <2>2. QED
        BY <1>3, <2>1, SectionKept DEF Start, Load, FreeLoad, FreeFails
<1>4. CASE CasLoad(t) \/ CasFails(t) \/ XchgLoad(t) \/ XchgFails(t) \/ FutexWait(t)
           \/ (XchgStore(t) /\ reg[t] # UNLOCKED)
    <2>1. \A u \in Thread : (Holds(u)' <=> Holds(u)) /\ (Freeing(u)' <=> Freeing(u))
        BY <1>1, <1>4 DEF CasLoad, CasFails, XchgLoad, XchgFails, FutexWait, XchgStore,
                          Goto, Holds, Freeing, TypeOK
    <2>2. QED
        BY <1>4, <2>1, SectionKept
           DEF CasLoad, CasFails, XchgLoad, XchgFails, FutexWait, XchgStore
<1>5. QED
    BY <1>2, <1>3, <1>4 DEF Step

\* For any finite set of threads and any number of rounds, increment_count under the
\* three-state futex mutex of mutex.c is atomic: its lock, load, store and unlock,
\* however the timer cuts them up, are a lock, an increment and an unlock of
\* GuardedCounter.
THEOREM MutexImplementsGuardedCounter == Spec => ImplementsGuardedCounter
<1>1. Init => Abstract!Init
    <2> SUFFICES ASSUME Init PROVE Abstract!Init
        OBVIOUS
    <2>1. \A t \in Thread : ~ Holds(t) /\ ~ Freeing(t)
        BY DEF Init, Holds, Freeing
    <2>2. Holder = NoThread
        BY <2>1 DEF Holder
    <2>3. ~ Counted
        BY <2>1 DEF Counted
    <2>4. Counted = FALSE
        BY <2>3, CountedIsBoolean
    <2>5. QED
        BY <2>2, <2>4 DEF Init, Abstract!Init, Abstract!section, Counted
<1>2. Inv /\ Inv' /\ CountInv /\ [Next]_vars
      => [Abstract!increment_count]_<<Abstract!section, count, left>>
    <2> SUFFICES ASSUME Inv, Inv', CountInv, [Next]_vars
                 PROVE  Abstract!increment_count \/ UNCHANGED <<Abstract!section, count, left>>
        OBVIOUS
    <2>1. CASE UNCHANGED vars \/ Preempt
        <3>1. \A u \in Thread : (Holds(u)' <=> Holds(u)) /\ (Freeing(u)' <=> Freeing(u))
            BY <2>1 DEF vars, Preempt, Holds, Freeing
        <3>2. UNCHANGED <<Holder, Counted, count, left>>
            BY <2>1, <3>1, SectionKept DEF vars, Preempt
        <3>3. QED
            BY <3>2 DEF Abstract!section, Counted
    <2>2. ASSUME NEW t \in Thread, Step(t)
          PROVE  Abstract!increment_count \/ UNCHANGED <<Abstract!section, count, left>>
        <3>1. CASE CasStore(t) \/ (XchgStore(t) /\ reg[t] = UNLOCKED)
            BY <3>1, TakeImplements DEF Abstract!increment_count
        <3>2. CASE Store(t)
            BY <3>2, StoreImplements DEF Abstract!increment_count
        <3>3. CASE FreeStore(t)
            BY <3>3, FreeImplements DEF Abstract!increment_count
        <3>4. CASE UNCHANGED <<Holder, Counted, count, left>>
            BY <3>4 DEF Abstract!section, Counted
        <3>5. QED
            BY <2>2, <3>1, <3>2, <3>3, <3>4, OtherStepsKeep
    <2>3. QED
        BY <2>1, <2>2 DEF Next, Finished
<1>3. QED
    BY <1>1, <1>2, Invariance, CountInvariance, PTL
       DEF Spec, ImplementsGuardedCounter, Abstract!Spec

=============================================================================
