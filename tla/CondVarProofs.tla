---------------------------- MODULE CondVarProofs ----------------------------
(***************************************************************************)
(* Proofs about CondVar for any finite sets of consumers and producers and *)
(* any number of rounds: no signal is lost, as long as there are fewer     *)
(* signals than values of the condition variable.                          *)
(*                                                                         *)
(* The inductive invariant follows a consumer that is on its way to sleep  *)
(* with the count it has loaded still in the word: nobody has signalled    *)
(* since, so every item there is belongs to a producer that will.          *)
(***************************************************************************)
EXTENDS CondVar, FifoQueueProofs, FiniteSetTheorems, TLAPS

\* Between lock and unlock a thread holds the mutex.
LockInv ==
    \A t \in Thread :
        pc[t] \in {"test", "load", "release", "add", "unlock_first", "unlock"} => holder = t

\* Consumers wait and producers signal.
KindInv ==
    /\ \A t \in Consumer : pc[t] \notin {"add", "unlock_first", "signal", "wake"}
    /\ \A t \in Producer : pc[t] \notin {"test", "load", "release", "wait", "asleep"}

\* The rounds a thread has left.
LeftInv ==
    \A t \in Thread :
        /\ left[t] <= Rounds
        /\ pc[t] \in {"lock", "test", "load", "release", "wait", "asleep", "add"} => left[t] > 0
        /\ pc[t] \in {"unlock_first", "signal"} => left[t] < Rounds

\* Producers that have added an item and not counted their signal yet.
Unsignalled == {t \in Producer : pc[t] \in {"unlock_first", "signal"}}

\* The signals counted so far, as pairs of a producer and one of its rounds.
Counted ==
    {x \in Producer \X (1 .. Rounds) :
        x[2] <= Rounds - left[x[1]] - (IF x[1] \in Unsignalled THEN 1 ELSE 0)}

CountInv == seq = Cardinality(Counted)

OldInv == \A t \in Thread : old[t] <= seq

\* Nobody has signalled since a consumer loaded the count it finds again.
BoundInv ==
    \A t \in Consumer :
        /\ pc[t] = "load" => items = 0
        /\ pc[t] \in {"release", "wait"} /\ old[t] = seq => items <= Cardinality(Unsignalled)

IInv ==
    /\ TypeOK
    /\ IsFifo(futexq)
    /\ LockInv
    /\ KindInv
    /\ LeftInv
    /\ CountInv
    /\ OldInv
    /\ BoundInv
    /\ NoLostSignal

-----------------------------------------------------------------------------
(* Sets of threads are finite. *)

\* The threads of the program, and any set of them, are finite.
LEMMA ThreadsFinite ==
    /\ IsFiniteSet(Thread)
    /\ \A S \in SUBSET Thread : IsFiniteSet(S) /\ Cardinality(S) \in Nat
<1>1. IsFiniteSet(Thread)
    BY CondVarAssumption, FS_Union DEF Thread
<1>2. QED
    BY <1>1, FS_Subset, FS_CardinalityType

\* There are at most as many signals as rounds of producers, and fewer than
\* values of the word.
LEMMA PairsBounded ==
    \A S \in SUBSET (Producer \X (1 .. Rounds)) :
        IsFiniteSet(S) /\ Cardinality(S) \in Nat /\ Cardinality(S) < SeqMod
<1>1. IsFiniteSet(1 .. Rounds) /\ Cardinality(1 .. Rounds) = Rounds
    BY FS_Interval, CondVarAssumption
<1>2. /\ IsFiniteSet(Producer \X (1 .. Rounds))
      /\ Cardinality(Producer \X (1 .. Rounds)) = Cardinality(Producer) * Rounds
    BY <1>1, FS_Product, CondVarAssumption
<1>3. Cardinality(Producer) \in Nat
    BY FS_CardinalityType, CondVarAssumption
<1>4. Cardinality(Producer) * Rounds < SeqMod
    BY <1>3, CondVarAssumption
<1>5. SUFFICES ASSUME NEW S \in SUBSET (Producer \X (1 .. Rounds))
               PROVE  IsFiniteSet(S) /\ Cardinality(S) \in Nat /\ Cardinality(S) < SeqMod
    OBVIOUS
<1>6. IsFiniteSet(S) /\ Cardinality(S) <= Cardinality(Producer) * Rounds
    BY <1>2, FS_Subset
<1>7. Cardinality(S) \in Nat
    BY <1>6, FS_CardinalityType
<1>8. QED
    BY <1>3, <1>4, <1>6, <1>7, CondVarAssumption

\* The counts the invariant speaks of are numbers, and whoever has not counted
\* a signal yet is signalling.
LEMMA Counts ==
    /\ IsFiniteSet(Signalling) /\ Cardinality(Signalling) \in Nat
    /\ IsFiniteSet(Looking) /\ Cardinality(Looking) \in Nat
    /\ IsFiniteSet(Unsignalled) /\ Cardinality(Unsignalled) \in Nat
    /\ Cardinality(Unsignalled) <= Cardinality(Signalling)
<1>1. Signalling \in SUBSET Thread /\ Looking \in SUBSET Thread /\ Unsignalled \in SUBSET Signalling
    BY DEF Signalling, Looking, Unsignalled, Thread
<1>2. QED
    BY <1>1, ThreadsFinite, FS_Subset

-----------------------------------------------------------------------------
(* Parts of the invariant that most steps leave alone. *)

\* A step of one thread that neither falls asleep nor was asleep.
LEMMA TypeStep ==
    ASSUME IInv, NEW t \in Thread, NEW l \in Locations \ {"asleep"},
           pc[t] # "asleep", Goto(t, l), futexq' = futexq, hung' = hung,
           holder' \in Thread \cup {NoThread}, seq' \in 0 .. SeqMod - 1,
           old' \in [Thread -> 0 .. SeqMod - 1], items' \in Nat, left' \in [Thread -> Nat]
    PROVE  /\ TypeOK' /\ IsFifo(futexq)'
           /\ pc' = [pc EXCEPT ![t] = l] /\ pc'[t] = l
           /\ \A u \in Thread \ {t} : pc'[u] = pc[u]
<1>1. pc' = [pc EXCEPT ![t] = l] /\ pc' \in [Thread -> Locations]
    BY DEF Goto, IInv, TypeOK
<1>2. {u \in Thread : pc'[u] = "asleep"} = {u \in Thread : pc[u] = "asleep"}
    BY <1>1 DEF IInv, TypeOK
<1>3. QED
    BY <1>1, <1>2 DEF IInv, TypeOK, IsFifo, Members

\* The count stays as it is while nobody signals.
LEMMA SameCount ==
    ASSUME IInv, Unsignalled' = Unsignalled, seq' = seq,
           \A u \in Producer : left'[u] = left[u]
    PROVE  CountInv'
<1>1. Counted' = Counted
    <2>1. ASSUME NEW x \in Producer \X (1 .. Rounds)
          PROVE  left'[x[1]] = left[x[1]]
        OBVIOUS
    <2>2. QED
        BY <2>1 DEF Counted
<1>2. QED
    BY <1>1 DEF IInv, CountInv

\* A consumer that moves on with nothing in its hand changed keeps the
\* invariant if it stays awake, or if there was nothing to take.
LEMMA ConsumerMoves ==
    ASSUME IInv, NEW t \in Consumer, NEW l \in Locations \ {"asleep"},
           pc[t] # "asleep", Goto(t, l),
           l \notin {"add", "unlock_first", "signal", "wake"},
           UNCHANGED <<seq, old, futexq, hung, items, left>>,
           holder' \in Thread \cup {NoThread},
           LockInv',
           l \in {"lock", "test", "load", "release", "wait"} => left[t] > 0,
           l = "load" => items = 0,
           l \in {"release", "wait"} /\ old[t] = seq => items <= Cardinality(Unsignalled),
           Looking \subseteq Looking' \/ items = 0
    PROVE  IInv'
<1>1. IInv /\ TypeOK /\ t \in Thread
    BY DEF IInv, Thread
<1>2. /\ TypeOK' /\ IsFifo(futexq)' /\ pc'[t] = l
      /\ \A u \in Thread \ {t} : pc'[u] = pc[u]
    BY <1>1, TypeStep DEF TypeOK
<1>3. \A u \in Producer : u \in Thread \ {t}
    BY CondVarAssumption DEF Thread
<1>4. Unsignalled' = Unsignalled /\ Signalling' = Signalling
    BY <1>2, <1>3 DEF Unsignalled, Signalling
<1>5. KindInv'
    BY <1>1, <1>2, <1>3 DEF IInv, KindInv, Thread
<1>6. LeftInv'
    BY <1>1, <1>2, <1>5 DEF IInv, LeftInv, KindInv, Thread
<1>7. CountInv'
    BY <1>1, <1>4, SameCount
<1>8. OldInv'
    BY <1>1 DEF IInv, OldInv
<1>9. BoundInv'
    BY <1>1, <1>2, <1>4 DEF IInv, BoundInv, Thread
<1>10. NoLostSignal'
    <2>1. CASE Looking \subseteq Looking'
        <3>1. Looking' \in SUBSET Thread
            BY DEF Looking, Thread
        <3>2. IsFiniteSet(Looking') /\ Cardinality(Looking') \in Nat
            BY <3>1, ThreadsFinite
        <3>3. Cardinality(Looking) <= Cardinality(Looking')
            BY <2>1, <3>2, FS_Subset
        <3>4. QED
            BY <1>1, <1>4, <3>2, <3>3, Counts DEF IInv, NoLostSignal, Members, TypeOK
    <2>2. CASE items = 0
        <3>1. Looking' \in SUBSET Thread /\ Signalling' \in SUBSET Thread
            BY DEF Looking, Signalling, Thread
        <3>2. Cardinality(Looking') \in Nat /\ Cardinality(Signalling') \in Nat
            BY <3>1, ThreadsFinite
        <3>3. QED
            BY <2>2, <3>2 DEF NoLostSignal
    <2>3. QED
        BY <2>1, <2>2
<1>11. QED
    BY <1>2, <1>5, <1>6, <1>7, <1>8, <1>9, <1>10 DEF IInv

\* A producer that moves on with the same signal to send, or none, keeps it.
LEMMA ProducerMoves ==
    ASSUME IInv, NEW t \in Producer, NEW l \in Locations \ {"asleep"},
           Goto(t, l),
           l \notin {"test", "load", "release", "wait"},
           UNCHANGED <<seq, old, futexq, hung, items, left>>,
           holder' \in Thread \cup {NoThread},
           LockInv',
           l \in {"lock", "add"} => left[t] > 0,
           pc[t] \in {"unlock_first", "signal"} <=> l \in {"unlock_first", "signal"},
           pc[t] = "wake" <=> l = "wake"
    PROVE  IInv'
<1>1. IInv /\ TypeOK /\ t \in Thread /\ pc[t] # "asleep"
    BY DEF IInv, Thread, KindInv
<1>2. /\ TypeOK' /\ IsFifo(futexq)' /\ pc'[t] = l
      /\ \A u \in Thread \ {t} : pc'[u] = pc[u]
    BY <1>1, TypeStep DEF TypeOK
<1>3. \A u \in Consumer : u \in Thread \ {t}
    BY CondVarAssumption DEF Thread
<1>4. Unsignalled' = Unsignalled /\ Signalling' = Signalling
    BY <1>2 DEF Unsignalled, Signalling, Thread
<1>5. Looking' = Looking
    BY <1>2, <1>3 DEF Looking, WillReturn
<1>6. KindInv'
    BY <1>1, <1>2, <1>3 DEF IInv, KindInv, Thread
<1>7. LeftInv'
    BY <1>1, <1>2 DEF IInv, LeftInv, KindInv, Thread
<1>8. CountInv'
    BY <1>1, <1>4, SameCount
<1>9. OldInv' /\ BoundInv'
    BY <1>1, <1>2, <1>3, <1>4 DEF IInv, OldInv, BoundInv
<1>10. NoLostSignal'
    BY <1>1, <1>4, <1>5 DEF IInv, NoLostSignal
<1>11. QED
    BY <1>2, <1>6, <1>7, <1>8, <1>9, <1>10 DEF IInv

-----------------------------------------------------------------------------
(* The initial state and each action. *)

\* The program starts with nothing added and nothing counted.
LEMMA InitInv == Init => IInv
<1> SUFFICES ASSUME Init PROVE IInv
    OBVIOUS
<1>1. Members(futexq) = {} /\ IsFifo(futexq)
    BY EmptyFifo DEF Init
<1>2. pc = [t \in Thread |-> Again(t)] /\ \A t \in Thread : pc[t] \in {"lock", "done"} /\ left[t] = Rounds
    BY DEF Init, Again
<1>3. \A t \in Thread : pc[t] = "lock" => left[t] > 0
    BY <1>2, CondVarAssumption DEF Again
<1>4. SeqMod \in Nat /\ SeqMod > 0
    <2>1. {} \in SUBSET (Producer \X (1 .. Rounds))
        OBVIOUS
    <2>2. Cardinality({}) \in Nat /\ Cardinality({}) < SeqMod
        BY <2>1, PairsBounded
    <2>3. QED
        BY <2>2, CondVarAssumption
<1>5. TypeOK
    <2>1. pc \in [Thread -> Locations] /\ left \in [Thread -> Nat]
        BY <1>2, CondVarAssumption DEF Init, Locations
    <2>2. seq \in 0 .. SeqMod - 1 /\ old \in [Thread -> 0 .. SeqMod - 1]
        BY <1>4 DEF Init
    <2>3. Members(futexq) = {u \in Thread : pc[u] = "asleep"}
        BY <1>1, <1>2
    <2>4. futexq \in [Members(futexq) -> SUBSET Members(futexq)]
        BY DEF Init, Empty, Members
    <2>5. QED
        BY <2>1, <2>2, <2>3, <2>4 DEF Init, TypeOK
<1>6. LockInv /\ KindInv /\ LeftInv
    <2>1. LockInv
        BY <1>2 DEF LockInv
    <2>2. KindInv
        BY <1>2 DEF KindInv, Thread
    <2>3. LeftInv
        BY <1>2, <1>3, CondVarAssumption DEF LeftInv
    <2>4. QED
        BY <2>1, <2>2, <2>3
<1>7. CountInv
    <2>1. \A x \in Producer \X (1 .. Rounds) :
            x[1] \in Thread /\ x[1] \notin Unsignalled /\ ~ x[2] <= Rounds - Rounds - 0
        <3>1. TAKE x \in Producer \X (1 .. Rounds)
        <3>2. x[1] \in Thread /\ x[2] \in 1 .. Rounds
            BY DEF Thread
        <3>3. x[1] \notin Unsignalled
            BY <1>2, <3>2 DEF Unsignalled
        <3>4. QED
            BY <3>2, <3>3, CondVarAssumption
    <2>2. Counted = {}
        BY <1>2, <2>1 DEF Counted
    <2>3. QED
        BY <2>2, FS_EmptySet DEF CountInv, Init
<1>8. OldInv /\ BoundInv
    BY <1>2, CondVarAssumption DEF Init, OldInv, BoundInv, Thread
<1>9. NoLostSignal
    BY <1>1 DEF NoLostSignal
<1>10. QED
    BY <1>1, <1>5, <1>6, <1>7, <1>8, <1>9 DEF IInv

\* Taking the mutex keeps it: nobody else had it.
LEMMA LockStep == ASSUME IInv, NEW t \in Thread, Lock(t) PROVE IInv'
<1> DEFINE l == IF t \in Consumer THEN "test" ELSE "add"
<1>1. /\ IInv /\ TypeOK /\ holder = NoThread /\ holder' = t /\ Goto(t, l) /\ pc[t] = "lock"
      /\ UNCHANGED <<seq, old, futexq, hung, items, left>>
    BY DEF IInv, Lock, At
<1>2. \A u \in Thread \ {t} : pc'[u] = pc[u]
    BY <1>1 DEF Goto, TypeOK
<1>3. LockInv' /\ left[t] > 0
    BY <1>1, <1>2, CondVarAssumption DEF IInv, LockInv, LeftInv
<1>4. CASE t \in Consumer
    <2>1. pc'[t] = "test"
        BY <1>1, <1>4 DEF Goto, TypeOK
    <2>2. Looking \subseteq Looking'
        BY <1>1, <1>2, <2>1 DEF Looking, WillReturn, Thread
    <2>3. QED
        BY <1>1, <1>3, <1>4, <2>2, ConsumerMoves DEF Locations
<1>5. CASE t \in Producer
    <2>1. t \notin Consumer
        BY <1>5, CondVarAssumption
    <2>2. QED
        BY <1>1, <1>3, <1>5, <2>1, ProducerMoves DEF Locations
<1>6. QED
    BY <1>4, <1>5 DEF Thread

\* So does the look at the items when there is none.
LEMMA FindNothingStep == ASSUME IInv, NEW t \in Thread, FindNothing(t) PROVE IInv'
<1>1. /\ IInv /\ TypeOK /\ Goto(t, "load") /\ pc[t] = "test" /\ items = 0
      /\ UNCHANGED <<holder, seq, old, futexq, hung, items, left>>
    BY DEF IInv, FindNothing, At
<1>2. t \in Consumer /\ left[t] > 0
    BY <1>1 DEF IInv, KindInv, LeftInv, Thread
<1>3. \A u \in Thread : pc'[u] = IF u = t THEN "load" ELSE pc[u]
    BY <1>1 DEF Goto, TypeOK
<1>4. LockInv'
    BY <1>1, <1>3 DEF IInv, LockInv
<1>5. QED
    BY <1>1, <1>2, <1>4, ConsumerMoves DEF Locations, TypeOK

\* Giving the mutex back keeps it, in a wait ...
LEMMA ReleaseStep == ASSUME IInv, NEW t \in Thread, Release(t) PROVE IInv'
<1>1. /\ IInv /\ TypeOK /\ Goto(t, "wait") /\ pc[t] = "release" /\ holder' = NoThread
      /\ UNCHANGED <<seq, old, futexq, hung, items, left>>
    BY DEF IInv, Release, At
<1>2. t \in Consumer /\ left[t] > 0 /\ holder = t
    BY <1>1 DEF IInv, KindInv, LeftInv, LockInv, Thread
<1>3. \A u \in Thread : pc'[u] = IF u = t THEN "wait" ELSE pc[u]
    BY <1>1 DEF Goto, TypeOK
<1>4. LockInv'
    BY <1>1, <1>2, <1>3, CondVarAssumption DEF IInv, LockInv
<1>5. Looking \subseteq Looking'
    BY <1>1, <1>3 DEF Looking, WillReturn, Thread
<1>6. old[t] = seq => items <= Cardinality(Unsignalled)
    BY <1>1, <1>2 DEF IInv, BoundInv
<1>7. QED
    BY <1>1, <1>2, <1>4, <1>5, <1>6, ConsumerMoves DEF Locations

\* ... and by the client.
LEMMA UnlockStep == ASSUME IInv, NEW t \in Thread, Unlock(t) PROVE IInv'
<1>1. PICK l \in {"signal", "lock", "done"} :
        /\ IInv /\ TypeOK /\ Goto(t, l) /\ holder' = NoThread
        /\ UNCHANGED <<seq, old, futexq, hung, items, left>>
        /\ \/ pc[t] = "unlock_first" /\ l = "signal"
           \/ pc[t] = "unlock" /\ l \in {"lock", "done"} /\ (l = "lock" => left[t] # 0)
    BY DEF IInv, Unlock, At, Again
<1>2. holder = t
    BY <1>1 DEF IInv, LockInv
<1>3. \A u \in Thread : pc'[u] = IF u = t THEN l ELSE pc[u]
    BY <1>1 DEF Goto, TypeOK
<1>4. LockInv'
    BY <1>1, <1>2, <1>3, CondVarAssumption DEF IInv, LockInv
<1>5. l = "lock" => left[t] > 0
    BY <1>1 DEF TypeOK
<1>6. CASE t \in Consumer
    <2>1. pc[t] = "unlock" /\ l \in {"lock", "done"}
        BY <1>1, <1>6 DEF IInv, KindInv
    <2>2. Looking \subseteq Looking'
        BY <1>1, <1>3, <2>1 DEF Looking, WillReturn, Thread
    <2>3. QED
        BY <1>1, <1>4, <1>5, <1>6, <2>1, <2>2, ConsumerMoves DEF Locations
<1>7. CASE t \in Producer
    BY <1>1, <1>4, <1>5, <1>7, ProducerMoves DEF Locations
<1>8. QED
    BY <1>6, <1>7 DEF Thread

\* Taking an item makes one less, and one consumer less that looks for it.
LEMMA TakeStep == ASSUME IInv, NEW t \in Thread, Take(t) PROVE IInv'
<1>1. /\ IInv /\ TypeOK /\ pc[t] = "test" /\ items > 0 /\ items' = items - 1
      /\ left' = [left EXCEPT ![t] = @ - 1] /\ Goto(t, "unlock")
      /\ UNCHANGED <<holder, seq, old, futexq, hung>>
    BY DEF IInv, Take, At
<1>2. t \in Consumer /\ t \notin Producer /\ left[t] > 0 /\ holder = t
    BY <1>1, CondVarAssumption DEF IInv, KindInv, LeftInv, LockInv, Thread
<1>3. items' \in Nat /\ left' \in [Thread -> Nat]
    BY <1>1, <1>2 DEF TypeOK
<1>4. /\ TypeOK' /\ IsFifo(futexq)' /\ pc'[t] = "unlock"
      /\ \A u \in Thread \ {t} : pc'[u] = pc[u]
    BY <1>1, <1>3, TypeStep DEF TypeOK, Locations
<1>5. \A u \in Thread : left'[u] = IF u = t THEN left[t] - 1 ELSE left[u]
    BY <1>1 DEF TypeOK
<1>6. Unsignalled' = Unsignalled /\ Signalling' = Signalling
    BY <1>2, <1>4 DEF Unsignalled, Signalling, Thread
<1>7. LockInv' /\ KindInv'
    BY <1>1, <1>2, <1>4 DEF IInv, LockInv, KindInv, Thread
<1>8. LeftInv'
    BY <1>1, <1>2, <1>4, <1>5, CondVarAssumption DEF IInv, LeftInv, TypeOK
<1>9. CountInv'
    BY <1>1, <1>2, <1>5, <1>6, SameCount DEF Thread
<1>10. OldInv'
    BY <1>1 DEF IInv, OldInv
<1>11. BoundInv'
    BY <1>1, <1>2, <1>4, <1>6, Counts DEF IInv, BoundInv, Thread, LockInv, TypeOK
<1>12. NoLostSignal'
    <2>1. Looking' = Looking \ {t} /\ t \in Looking
        BY <1>1, <1>2, <1>4 DEF Looking, WillReturn, Thread
    <2>2. Cardinality(Looking') = Cardinality(Looking) - 1
        BY <2>1, Counts, FS_RemoveElement
    <2>3. QED
        BY <1>1, <1>6, <2>2, Counts DEF IInv, NoLostSignal, TypeOK
<1>13. QED
    BY <1>4, <1>7, <1>8, <1>9, <1>10, <1>11, <1>12 DEF IInv

\* Adding one makes one producer more that has to signal.
LEMMA AddStep == ASSUME IInv, NEW t \in Thread, Add(t) PROVE IInv'
<1>1. PICK l \in {"unlock_first", "signal"} :
        /\ IInv /\ TypeOK /\ pc[t] = "add" /\ items' = items + 1
        /\ left' = [left EXCEPT ![t] = @ - 1] /\ Goto(t, l)
        /\ UNCHANGED <<holder, seq, old, futexq, hung>>
    BY DEF IInv, Add, At
<1>2. t \in Producer /\ t \notin Consumer /\ left[t] > 0 /\ holder = t
    BY <1>1, CondVarAssumption DEF IInv, KindInv, LeftInv, LockInv, Thread
<1>3. items' \in Nat /\ left' \in [Thread -> Nat]
    BY <1>1, <1>2 DEF TypeOK
<1>4. /\ TypeOK' /\ IsFifo(futexq)' /\ pc'[t] = l
      /\ \A u \in Thread \ {t} : pc'[u] = pc[u]
    BY <1>1, <1>3, TypeStep DEF TypeOK, Locations
<1>5. \A u \in Thread : left'[u] = IF u = t THEN left[t] - 1 ELSE left[u]
    BY <1>1 DEF TypeOK
<1>6. /\ Unsignalled' = Unsignalled \cup {t} /\ t \notin Unsignalled
      /\ Signalling' = Signalling \cup {t} /\ t \notin Signalling
    BY <1>1, <1>2, <1>4 DEF Unsignalled, Signalling, Thread
<1>7. /\ Cardinality(Unsignalled') = Cardinality(Unsignalled) + 1
      /\ Cardinality(Signalling') = Cardinality(Signalling) + 1
    BY <1>6, Counts, FS_AddElement
<1>8. Looking' = Looking
    BY <1>1, <1>2, <1>4 DEF Looking, WillReturn, Thread
<1>9. LockInv' /\ KindInv'
    BY <1>1, <1>2, <1>4 DEF IInv, LockInv, KindInv, Thread
<1>10. LeftInv'
    BY <1>1, <1>2, <1>4, <1>5, CondVarAssumption DEF IInv, LeftInv, TypeOK
<1>11. CountInv'
    <2>1. ASSUME NEW x \in Producer \X (1 .. Rounds)
          PROVE  Rounds - left'[x[1]] - (IF x[1] \in Unsignalled' THEN 1 ELSE 0)
                  = Rounds - left[x[1]] - (IF x[1] \in Unsignalled THEN 1 ELSE 0)
        <3>1. x[1] \in Thread /\ left[x[1]] \in Nat
            BY <1>1 DEF Thread, TypeOK
        <3>2. QED
            BY <1>5, <1>6, <3>1, CondVarAssumption
    <2>2. Counted' = Counted
        BY <2>1 DEF Counted
    <2>3. QED
        BY <1>1, <2>2 DEF IInv, CountInv
<1>12. OldInv'
    BY <1>1 DEF IInv, OldInv
<1>13. BoundInv'
    BY <1>1, <1>2, <1>4, <1>7, Counts DEF IInv, BoundInv, Thread, LockInv, TypeOK
<1>14. NoLostSignal'
    BY <1>1, <1>7, <1>8, Counts DEF IInv, NoLostSignal, TypeOK
<1>15. QED
    BY <1>4, <1>9, <1>10, <1>11, <1>12, <1>13, <1>14 DEF IInv

\* Loading the count keeps it: the mutex is held and there is no item.
LEMMA LoadStep == ASSUME IInv, NEW t \in Thread, Load(t) PROVE IInv'
<1>1. /\ IInv /\ TypeOK /\ pc[t] = "load" /\ old' = [old EXCEPT ![t] = seq]
      /\ Goto(t, "release") /\ UNCHANGED <<holder, seq, futexq, hung, items, left>>
    BY DEF IInv, Load, At
<1>2. t \in Consumer /\ t \notin Producer /\ left[t] > 0 /\ holder = t /\ items = 0
    BY <1>1, CondVarAssumption DEF IInv, KindInv, LeftInv, LockInv, BoundInv, Thread
<1>3. old' \in [Thread -> 0 .. SeqMod - 1]
    BY <1>1 DEF TypeOK
<1>4. /\ TypeOK' /\ IsFifo(futexq)' /\ pc'[t] = "release"
      /\ \A u \in Thread \ {t} : pc'[u] = pc[u]
    BY <1>1, <1>3, TypeStep DEF TypeOK, Locations
<1>5. \A u \in Thread : old'[u] = IF u = t THEN seq ELSE old[u]
    BY <1>1 DEF TypeOK
<1>6. Unsignalled' = Unsignalled /\ Signalling' = Signalling /\ Looking' \in SUBSET Thread
    BY <1>2, <1>4 DEF Unsignalled, Signalling, Looking, Thread
<1>7. LockInv' /\ KindInv' /\ LeftInv'
    BY <1>1, <1>2, <1>4 DEF IInv, LockInv, KindInv, LeftInv, Thread
<1>8. CountInv'
    BY <1>1, <1>6, SameCount
<1>9. OldInv'
    BY <1>1, <1>5 DEF IInv, OldInv, TypeOK
<1>10. BoundInv'
    BY <1>1, <1>2, <1>4, <1>5, <1>6, Counts DEF IInv, BoundInv, Thread
<1>11. NoLostSignal'
    BY <1>1, <1>2, <1>6, ThreadsFinite, Counts DEF NoLostSignal
<1>12. QED
    BY <1>4, <1>7, <1>8, <1>9, <1>10, <1>11 DEF IInv

\* FUTEX_WAIT keeps it: who falls asleep has the count that is in the word.
LEMMA FutexWaitStep == ASSUME IInv, NEW t \in Thread, FutexWait(t) PROVE IInv'
<1>1. /\ IInv /\ TypeOK /\ pc[t] = "wait" /\ UNCHANGED <<holder, seq, old, hung, items, left>>
    BY DEF IInv, FutexWait, At
<1>2. t \in Consumer /\ t \notin Producer /\ left[t] > 0
    BY <1>1, CondVarAssumption DEF IInv, KindInv, LeftInv, Thread
<1>3. CASE ~ MustSleep(t)
    <2>1. Goto(t, "lock") /\ futexq' = futexq
        BY <1>3 DEF FutexWait
    <2>2. \A u \in Thread : pc'[u] = IF u = t THEN "lock" ELSE pc[u]
        BY <1>1, <2>1 DEF Goto, TypeOK
    <2>3. LockInv' /\ Looking \subseteq Looking'
        BY <1>1, <2>2 DEF IInv, LockInv, Looking, WillReturn, Thread
    <2>4. QED
        BY <1>1, <1>2, <2>1, <2>3, ConsumerMoves DEF Locations, TypeOK
<1>4. CASE MustSleep(t)
    <2>1. Goto(t, "asleep") /\ futexq' = Enqueue(futexq, t) /\ seq = old[t]
        BY <1>4 DEF FutexWait, MustSleep
    <2>2. pc' \in [Thread -> Locations] /\ \A u \in Thread : pc'[u] = IF u = t THEN "asleep" ELSE pc[u]
        BY <1>1, <2>1 DEF Goto, TypeOK, Locations
    <2>3. t \notin Members(futexq)
        BY <1>1 DEF TypeOK
    <2>4. Members(futexq') = Members(futexq) \cup {t} /\ IsFifo(futexq')
        BY <1>1, <2>1, <2>3, EnqueueFifo DEF IInv
    <2>5. futexq' \in [Members(futexq') -> SUBSET Members(futexq')]
        BY <1>1, <2>1, <2>4 DEF TypeOK, Enqueue, Members
    <2>6. Members(futexq') = {u \in Thread : pc'[u] = "asleep"}
        BY <1>1, <2>2, <2>4 DEF TypeOK
    <2>7. TypeOK'
        BY <1>1, <2>2, <2>5, <2>6 DEF TypeOK
    <2>8. Unsignalled' = Unsignalled /\ Signalling' = Signalling /\ Looking' = Looking
        BY <1>1, <1>2, <2>1, <2>2 DEF Unsignalled, Signalling, Looking, WillReturn, Thread
    <2>9. LockInv' /\ KindInv' /\ LeftInv'
        BY <1>1, <1>2, <2>2 DEF IInv, LockInv, KindInv, LeftInv, Thread
    <2>10. CountInv'
        BY <1>1, <2>8, SameCount
    <2>11. OldInv' /\ BoundInv'
        BY <1>1, <1>2, <2>2, <2>8 DEF IInv, OldInv, BoundInv, Thread
    <2>12. NoLostSignal'
        <3>1. items <= Cardinality(Unsignalled)
            BY <1>1, <1>2, <2>1 DEF IInv, BoundInv
        <3>2. QED
            BY <1>1, <2>8, <3>1, Counts DEF NoLostSignal, TypeOK
    <2>13. QED
        BY <2>4, <2>7, <2>9, <2>10, <2>11, <2>12 DEF IInv
<1>5. QED
    BY <1>3, <1>4

\* A signal that counts keeps it: nobody finds the count it has loaded.
LEMMA BumpStep == ASSUME IInv, NEW t \in Thread, Bump(t) PROVE IInv'
<1>1. /\ IInv /\ TypeOK /\ pc[t] = "signal" /\ seq' = (seq + 1) % SeqMod /\ Goto(t, "wake")
      /\ UNCHANGED <<holder, old, futexq, hung, items, left>>
    BY DEF IInv, Bump, NextSeq, At
<1>2. /\ t \in Producer /\ t \notin Consumer
      /\ left[t] \in Nat /\ left[t] < Rounds
    BY <1>1, CondVarAssumption DEF IInv, KindInv, LeftInv, Thread, TypeOK
<1>3. \A u \in Thread : pc'[u] = IF u = t THEN "wake" ELSE pc[u]
    BY <1>1 DEF Goto, TypeOK
<1>4. Unsignalled' = Unsignalled \ {t} /\ t \in Unsignalled /\ Signalling' = Signalling
    BY <1>1, <1>2, <1>3 DEF Unsignalled, Signalling, Thread
<1>5. Counted' = Counted \cup {<<t, Rounds - left[t]>>} /\ <<t, Rounds - left[t]>> \notin Counted
    <2>1. \A x \in Producer \X (1 .. Rounds) :
            x \in Counted' <=> x \in Counted \/ x = <<t, Rounds - left[t]>>
        <3>1. TAKE x \in Producer \X (1 .. Rounds)
        <3>2. x[1] \in Thread /\ left[x[1]] \in Nat /\ x[2] \in Nat /\ x = <<x[1], x[2]>>
            BY <1>1, CondVarAssumption DEF Thread, TypeOK
        <3>3. CASE x[1] = t
            BY <1>1, <1>2, <1>4, <3>2, <3>3, CondVarAssumption DEF Counted
        <3>4. CASE x[1] # t
            BY <1>1, <1>2, <1>4, <3>2, <3>4 DEF Counted
        <3>5. QED
            BY <3>3, <3>4
    <2>2. <<t, Rounds - left[t]>> \in Producer \X (1 .. Rounds)
        BY <1>2, CondVarAssumption
    <2>3. <<t, Rounds - left[t]>> \notin Counted
        BY <1>2, <1>4, CondVarAssumption DEF Counted
    <2>4. Counted' \subseteq Producer \X (1 .. Rounds) /\ Counted \subseteq Producer \X (1 .. Rounds)
        BY DEF Counted
    <2>5. QED
        BY <2>1, <2>2, <2>3, <2>4
<1>6. seq' = seq + 1 /\ seq' = Cardinality(Counted') /\ seq' \in 0 .. SeqMod - 1
    <2>1. Counted \in SUBSET (Producer \X (1 .. Rounds)) /\ Counted' \in SUBSET (Producer \X (1 .. Rounds))
        BY DEF Counted
    <2>2. IsFiniteSet(Counted) /\ Cardinality(Counted') < SeqMod
        BY <2>1, PairsBounded
    <2>3. Cardinality(Counted') = Cardinality(Counted) + 1
        BY <1>5, <2>2, FS_AddElement
    <2>4. seq + 1 < SeqMod /\ seq \in Nat /\ SeqMod \in Nat
        BY <1>1, <2>2, <2>3, CondVarAssumption DEF IInv, CountInv, TypeOK
    <2>5. (seq + 1) % SeqMod = seq + 1
        BY <2>4
    <2>6. QED
        BY <1>1, <2>3, <2>4, <2>5 DEF IInv, CountInv
<1>7. TypeOK' /\ IsFifo(futexq)'
    BY <1>1, <1>6, TypeStep DEF TypeOK, Locations
<1>8. LockInv' /\ KindInv' /\ LeftInv'
    BY <1>1, <1>2, <1>3 DEF IInv, LockInv, KindInv, LeftInv, Thread
<1>9. \A u \in Thread : old'[u] \in Nat /\ old'[u] < seq'
    BY <1>1, <1>6 DEF IInv, OldInv, TypeOK
<1>10. CountInv' /\ OldInv'
    BY <1>6, <1>9 DEF CountInv, OldInv
<1>11. BoundInv'
    BY <1>1, <1>2, <1>3, <1>6, <1>9 DEF IInv, BoundInv, Thread
<1>12. NoLostSignal'
    <2>1. Looking \subseteq Looking' /\ Looking' \in SUBSET Thread
        BY <1>1, <1>2, <1>3, <1>6, <1>9 DEF Looking, WillReturn, Thread
    <2>2. IsFiniteSet(Looking') /\ Cardinality(Looking') \in Nat
        BY <2>1, ThreadsFinite
    <2>3. Cardinality(Looking) <= Cardinality(Looking')
        BY <2>1, <2>2, FS_Subset
    <2>4. QED
        BY <1>1, <1>4, <2>2, <2>3, Counts DEF IInv, NoLostSignal, TypeOK
<1>13. QED
    BY <1>7, <1>8, <1>10, <1>11, <1>12 DEF IInv

\* FUTEX_WAKE wakes nobody when nobody sleeps, and one thread otherwise.
LEMMA WakesOne ==
    ASSUME IInv
    PROVE  \/ Members(futexq) = {} /\ Woken = {}
           \/ \E v \in Members(futexq) : Woken = {v}
<1>1. /\ IsFifo(futexq) /\ Members(futexq) \in SUBSET Thread /\ IsFiniteSet(Members(futexq))
      /\ WakeCount \in Nat /\ WakeCount > 0
    BY ThreadsFinite, CondVarAssumption DEF IInv, TypeOK
<1>2. CASE Members(futexq) = {}
    BY <1>1, <1>2 DEF Woken, WalkWakes, HeadIn, FirstNOf
<1>3. CASE Members(futexq) # {}
    <2>1. FirstOf(futexq, Members(futexq)) # {}
        BY <1>1, <1>3, FirstExists
    <2>2. PICK v \in FirstOf(futexq, Members(futexq)) : TRUE
        BY <2>1
    <2>3. v \in Members(futexq) /\ futexq[v] = {}
        BY <1>1, <2>2 DEF FirstOf, IsFifo
    <2>4. Woken = FirstOf(futexq, Members(futexq))
        BY <1>1, <2>3 DEF Woken, WalkWakes, HeadIn
    <2>5. FirstOf(futexq, Members(futexq)) = {v}
        BY <1>1, <2>2, FirstIsUnique
    <2>6. QED
        BY <2>3, <2>4, <2>5
<1>4. QED
    BY <1>2, <1>3

\* FUTEX_WAKE keeps it: a producer less will signal, and a consumer more is
\* awake if one slept.
LEMMA FutexWakeStep == ASSUME IInv, NEW t \in Thread, FutexWake(t) PROVE IInv'
<1> DEFINE next == IF holder = t THEN "unlock" ELSE Again(t)
<1>1. /\ IInv /\ TypeOK /\ pc[t] = "wake" /\ futexq' = Dequeue(futexq, Woken)
      /\ hung' \in BOOLEAN /\ UNCHANGED <<holder, seq, old, items, left>>
      /\ pc' = [u \in Thread |-> IF u = t THEN next
                                 ELSE IF u \in Woken THEN "lock" ELSE pc[u]]
    BY DEF IInv, FutexWake, At, WalkNeverEnds
<1>2. t \in Producer /\ t \notin Consumer
    BY <1>1, CondVarAssumption DEF IInv, KindInv, Thread
<1>3. /\ next \in {"unlock", "done", "lock"}
      /\ next = "unlock" => holder = t
      /\ next = "lock" => left[t] > 0
    BY <1>1 DEF Again, TypeOK
<1>4. Woken \subseteq Members(futexq) /\ Woken \subseteq {u \in Consumer : pc[u] = "asleep"}
    <2>1. Woken \subseteq Members(futexq)
        BY <1>1, WakesOne
    <2>2. QED
        BY <1>1, <2>1 DEF IInv, TypeOK, KindInv, Thread
<1>5. \A u \in Thread : pc'[u] = IF u = t THEN next
                                 ELSE IF u \in Woken THEN "lock" ELSE pc[u]
    BY <1>1
<1>6. Members(futexq') = Members(futexq) \ Woken /\ IsFifo(futexq')
    BY <1>1, DequeueFifo DEF IInv
<1>7. TypeOK'
    <2>1. pc' \in [Thread -> Locations]
        BY <1>1, <1>3 DEF TypeOK, Locations
    <2>2. Members(futexq') = {u \in Thread : pc'[u] = "asleep"}
        BY <1>1, <1>3, <1>5, <1>6 DEF TypeOK
    <2>3. futexq' \in [Members(futexq') -> SUBSET Members(futexq')]
        BY <1>1, <1>6 DEF TypeOK, Dequeue, Members
    <2>4. QED
        BY <1>1, <2>1, <2>2, <2>3 DEF TypeOK
<1>8. Unsignalled' = Unsignalled
    BY <1>2, <1>3, <1>4, <1>5, <1>1, CondVarAssumption DEF Unsignalled, Thread
<1>9. Signalling' = Signalling \ {t} /\ t \in Signalling
    BY <1>1, <1>2, <1>3, <1>4, <1>5, CondVarAssumption DEF Signalling, Thread
<1>10. Looking' = Looking \cup Woken /\ Looking \cap Woken = {}
    <2>1. ASSUME NEW u \in Consumer
          PROVE  u \in Looking' <=> u \in Looking \cup Woken
        <3>1. u \in Thread /\ u # t
            BY <1>2 DEF Thread
        <3>2. QED
            BY <1>1, <1>5, <3>1 DEF Looking, WillReturn
    <2>2. Looking' \subseteq Consumer /\ Looking \subseteq Consumer
        BY DEF Looking
    <2>3. Looking \cap Woken = {}
        BY <1>4 DEF Looking, WillReturn
    <2>4. QED
        BY <1>4, <2>1, <2>2, <2>3
<1>11. LockInv'
    BY <1>1, <1>3, <1>5 DEF IInv, LockInv
<1>12. KindInv'
    BY <1>1, <1>2, <1>3, <1>4, <1>5, CondVarAssumption DEF IInv, KindInv, Thread
<1>13. LeftInv'
    BY <1>1, <1>3, <1>4, <1>5 DEF IInv, LeftInv, Thread
<1>14. CountInv' /\ OldInv'
    BY <1>1, <1>8, SameCount DEF IInv, OldInv
<1>15. BoundInv'
    BY <1>1, <1>2, <1>5, <1>8 DEF IInv, BoundInv, Thread
<1>16. NoLostSignal'
    <2>1. SUFFICES ASSUME Members(futexq') # {}
                   PROVE  items <= Cardinality(Signalling') + Cardinality(Looking')
        BY <1>1 DEF NoLostSignal
    <2>2. PICK v \in Members(futexq) : Woken = {v}
        BY <1>1, <1>6, <2>1, WakesOne
    <2>3. Cardinality(Looking') = Cardinality(Looking) + 1
        BY <1>10, <2>2, Counts, FS_AddElement
    <2>4. Cardinality(Signalling') = Cardinality(Signalling) - 1
        BY <1>9, Counts, FS_RemoveElement
    <2>5. QED
        BY <1>1, <2>2, <2>3, <2>4, Counts DEF IInv, NoLostSignal, TypeOK
<1>17. QED
    BY <1>6, <1>7, <1>11, <1>12, <1>13, <1>14, <1>15, <1>16 DEF IInv

\* Every step of the program keeps the invariant.
LEMMA NextInv == IInv /\ [Next]_vars => IInv'
<1> SUFFICES ASSUME IInv, [Next]_vars PROVE IInv'
    OBVIOUS
<1>1. CASE UNCHANGED vars
    BY <1>1 DEF vars, IInv, TypeOK, LockInv, KindInv, LeftInv, CountInv, Counted, Unsignalled,
        OldInv, BoundInv, NoLostSignal, Signalling, Looking, WillReturn
<1>2. ASSUME NEW t \in Thread, Step(t) PROVE IInv'
    BY <1>2, LockStep, TakeStep, FindNothingStep, AddStep, UnlockStep, LoadStep, ReleaseStep,
        FutexWaitStep, BumpStep, FutexWakeStep DEF Step
<1>3. QED
    BY <1>1, <1>2 DEF Next

-----------------------------------------------------------------------------
(* The theorems. *)

\* The variables of the program keep their types, and exactly the threads that
\* sleep are in the futex queue (condvar.c, futex.c).
THEOREM CondVarTypeCorrect == Spec => []TypeOK
<1>1. IInv => TypeOK
    BY DEF IInv
<1>2. QED
    BY <1>1, InitInv, NextInv, PTL DEF Spec

\* No signal is lost (condvar.c:24-45): whatever the number of threads and
\* rounds, with fewer signals than values of the word, a consumer never sleeps
\* on an item nobody will look for.
THEOREM NoSignalIsLost == Spec => []NoLostSignal
<1>1. IInv => NoLostSignal
    BY DEF IInv
<1>2. QED
    BY <1>1, InitInv, NextInv, PTL DEF Spec

=============================================================================
