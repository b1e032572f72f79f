--------------------------- MODULE FifoQueueProofs ---------------------------
(***************************************************************************)
(* Lemmas on the operators of FifoQueue, for every set of tasks.           *)
(***************************************************************************)
EXTENDS FifoQueue, FiniteSetTheorems, WellFoundedInduction, TLAPS

\* The empty queue has no members and is ordered.
LEMMA EmptyFifo == Members(Empty) = {} /\ IsFifo(Empty)
BY DEF Members, Empty, IsFifo

\* task_enqueue_to_root (task.h:80) adds one member behind the others and keeps
\* the order.
LEMMA EnqueueFifo ==
    ASSUME NEW q, NEW t, IsFifo(q), t \notin Members(q)
    PROVE  /\ Members(Enqueue(q, t)) = Members(q) \cup {t}
           /\ IsFifo(Enqueue(q, t))
           /\ \A u \in Members(q) : Enqueue(q, t)[u] = q[u]
BY DEF Members, Enqueue, IsFifo

\* task_dequeue_from_root (task.h:90) removes the members of W, whichever they
\* are, and keeps the order of the others.
LEMMA DequeueFifo ==
    ASSUME NEW q, NEW W, IsFifo(q)
    PROVE  /\ Members(Dequeue(q, W)) = Members(q) \ W
           /\ IsFifo(Dequeue(q, W))
BY DEF Members, Dequeue, IsFifo

\* A walk from the root meets one member of W before the others.
LEMMA FirstIsUnique ==
    ASSUME NEW q, NEW W, IsFifo(q), W \subseteq Members(q)
    PROVE  \A t, u \in FirstOf(q, W) : t = u
BY DEF Members, FirstOf, IsFifo

\* The only member of W is the first one of W.
LEMMA FirstOfSingleton ==
    ASSUME NEW q, NEW t, IsFifo(q), t \in Members(q)
    PROVE  FirstOf(q, {t}) = {t}
BY DEF Members, FirstOf, IsFifo

\* A search among finitely many members meets a first one.
LEMMA FirstExists ==
    ASSUME NEW q, NEW W, IsFifo(q), IsFiniteSet(Members(q)), W \subseteq Members(q), W # {}
    PROVE  FirstOf(q, W) # {}
<1> DEFINE size(t) == Cardinality(q[t])
           Sizes == {size(t) : t \in W}
<1>1. \A t \in W : IsFiniteSet(q[t]) /\ size(t) \in Nat
    BY FS_Subset, FS_CardinalityType DEF IsFifo
<1>2. Sizes \subseteq Nat /\ Sizes # {}
    BY <1>1
<1>3. PICK n \in Sizes : \A m \in Sizes : ~ (<<m, n>> \in OpToRel(<, Nat))
    BY <1>2, NatLessThanWellFounded, WFMin
<1>4. PICK t \in W : n = size(t)
    BY <1>3
<1>5. ASSUME NEW u \in q[t] \cap W PROVE FALSE
    <2>1. u \in Members(q) /\ t \in Members(q)
        BY <1>5
    <2>2. q[u] \subseteq q[t]
        BY <2>1 DEF IsFifo, Members
    <2>3. u \notin q[u]
        BY <2>1 DEF IsFifo
    <2>4. size(u) <= size(t) /\ size(u) # size(t)
        BY <1>1, <1>4, <1>5, <2>2, <2>3, FS_Subset
    <2>5. <<size(u), size(t)>> \in OpToRel(<, Nat)
        BY <1>1, <1>5, <2>4 DEF OpToRel
    <2>6. QED
        BY <1>3, <1>4, <1>5, <2>5
<1>6. QED
    BY <1>4, <1>5 DEF FirstOf

=============================================================================
