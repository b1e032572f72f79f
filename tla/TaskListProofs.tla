--------------------------- MODULE TaskListProofs ---------------------------
(***************************************************************************)
(* The links of task.h and the loops over them implement FIFO queues, for  *)
(* every set of tasks, queues and keys.                                    *)
(***************************************************************************)
EXTENDS TaskList, FifoQueueProofs

\* Induction on the natural numbers, for a set in place of a predicate.
LEMMA NatSetInduction ==
    ASSUME NEW A, 0 \in A, \A n \in Nat : n \in A => n + 1 \in A
    PROVE  Nat \subseteq A
<1> DEFINE Rest == Nat \ A
<1>1. SUFFICES ASSUME Rest # {} PROVE FALSE
    OBVIOUS
<1>2. PICK m \in Rest : \A n \in Rest : ~ (<<n, m>> \in OpToRel(<, Nat))
    BY <1>1, NatLessThanWellFounded, WFMin
<1>3. m \in Nat /\ m \notin A /\ m # 0
    BY <1>2
<1> HIDE DEF Rest
<1> DEFINE n == m - 1
<1>4. n \in Nat /\ n < m /\ n + 1 = m
    BY <1>3
<1> HIDE DEF n
<1>5. n \in Rest
    BY <1>3, <1>4 DEF Rest
<1>6. QED
    BY <1>2, <1>3, <1>4, <1>5 DEF OpToRel

\* The first values of a sequence that starts with a and goes on with F.
Starts(S, a, F, n) ==
    {h \in [0 .. n -> S] : h[0] = a /\ \A i \in 1 .. n : h[i] = F[h[i - 1]]}

\* The sequences in S that start with a and go on with F for ever.
Iterations(S, a, F) ==
    {g \in [Nat -> S] : g[0] = a /\ \A n \in Nat : g[n + 1] = F[g[n]]}

\* A step that stays in S can be repeated for ever.
LEMMA Iteration ==
    ASSUME NEW S, NEW a \in S, NEW F, \A x \in S : F[x] \in S
    PROVE  Iterations(S, a, F) # {}
<1> DEFINE H(n) == Starts(S, a, F, n)
           A == {n \in Nat : H(n) # {} /\
                    \A h, k \in H(n) : h[n] = k[n]}
           g == [n \in Nat |-> (CHOOSE h \in H(n) : TRUE)[n]]
<1>1. 0 \in A
    <2>1. [i \in 0 .. 0 |-> a] \in H(0)
        BY DEF Starts
    <2>2. \A h \in H(0) : h[0] = a
        BY DEF Starts
    <2>3. QED
        BY <2>1, <2>2
<1>2. ASSUME NEW n \in Nat, NEW h \in H(n + 1)
      PROVE  [i \in 0 .. n |-> h[i]] \in H(n) /\ h[n + 1] = F[h[n]]
    BY <1>2 DEF Starts
<1>3. ASSUME NEW n \in Nat, n \in A PROVE n + 1 \in A
    <2>1. PICK h \in H(n) : TRUE
        BY <1>3
    <2>2. h[n] \in S /\ F[h[n]] \in S
        BY <2>1 DEF Starts
    <2>3. [i \in 0 .. n + 1 |-> IF i = n + 1 THEN F[h[n]] ELSE h[i]] \in H(n + 1)
        BY <2>1, <2>2 DEF Starts
    <2>4. ASSUME NEW u \in H(n + 1), NEW v \in H(n + 1) PROVE u[n + 1] = v[n + 1]
        <3> DEFINE u1 == [i \in 0 .. n |-> u[i]]
                   v1 == [i \in 0 .. n |-> v[i]]
        <3>1. u1[n] = v1[n]
            BY <1>2, <1>3
        <3>2. u1[n] = u[n] /\ v1[n] = v[n]
            OBVIOUS
        <3>3. QED
            BY <1>2, <3>1, <3>2
    <2>5. QED
        BY <2>3, <2>4
<1>4. Nat \subseteq A
    BY <1>1, <1>3, NatSetInduction
<1> HIDE DEF A
<1>5. \A n \in Nat : H(n) # {} /\ \A h, k \in H(n) : h[n] = k[n]
    BY <1>4 DEF A
<1> DEFINE pick(n) == CHOOSE h \in H(n) : TRUE
<1>6. \A n \in Nat : pick(n) \in H(n)
    BY <1>5
<1>7. \A n \in Nat : g[n] = pick(n)[n]
    OBVIOUS
<1> HIDE DEF g, pick
<1>8. \A n \in Nat : pick(n) \in [0 .. n -> S] /\ pick(n)[0] = a
    BY <1>6 DEF Starts
<1>9. \A n \in Nat : g[n] \in S
    BY <1>7, <1>8
<1>10. g[0] = a
    BY <1>7, <1>8
<1>11. ASSUME NEW n \in Nat PROVE g[n + 1] = F[g[n]]
    <2> DEFINE h == pick(n + 1)
               h1 == [i \in 0 .. n |-> h[i]]
    <2>1. h \in H(n + 1)
        BY <1>6
    <2>2. h1 \in H(n) /\ h[n + 1] = F[h[n]]
        BY <1>2, <2>1
    <2>3. h1[n] = h[n]
        OBVIOUS
    <2>4. h1[n] = pick(n)[n]
        BY <1>5, <1>6, <2>2
    <2>5. QED
        BY <1>7, <2>2, <2>3, <2>4
<1>12. g \in [Nat -> S]
    BY <1>9 DEF g
<1>13. g \in Iterations(S, a, F)
    BY <1>10, <1>11, <1>12 DEF Iterations
<1>14. QED
    BY <1>13

-----------------------------------------------------------------------------
(* One list. *)

Pointer == Task \cup {NULL}

ListType == [root : Pointer, prev : [Task -> Pointer], next : [Task -> Pointer]]

\* From t the list goes on to u: u stands right behind t, or t is the last one
\* and u the first one.
GoesOn(q, t, u) ==
    \/ q[u] = q[t] \cup {t}
    \/ q[t] = Members(q) \ {t} /\ q[u] = {}

\* The links of l form one ring through the members of q, in their order.
Represents(l, q) ==
    /\ IsFifo(q) /\ Members(q) \subseteq Task /\ q = [t \in Members(q) |-> q[t]]
    /\ IF Members(q) = {} THEN l.root = NULL
       ELSE l.root \in Members(q) /\ q[l.root] = {}
    /\ \A t \in Members(q) :
          /\ l.next[t] \in Members(q) /\ l.prev[l.next[t]] = t
          /\ l.prev[t] \in Members(q) /\ l.next[l.prev[t]] = t
          /\ GoesOn(q, t, l.next[t])

\* Only the links of the tasks in S differ.
SameLinks(l, d, S) ==
    \A t \in Task \ S : d.next[t] = l.next[t] /\ d.prev[t] = l.prev[t]

\* The first member is the only one that has none ahead.
LEMMA OneRoot ==
    ASSUME NEW l, NEW q, Represents(l, q), NEW t \in Members(q), q[t] = {}
    PROVE  t = l.root
BY DEF Represents, IsFifo

\* root->prev is the member that has all the others ahead of it.
LEMMA LastBeforeRoot ==
    ASSUME NEW l, NEW q, Represents(l, q), Members(q) # {}
    PROVE  /\ l.root \in Members(q) /\ l.prev[l.root] \in Members(q)
           /\ q[l.prev[l.root]] = Members(q) \ {l.prev[l.root]}
<1> DEFINE last == l.prev[l.root]
<1>1. /\ l.root \in Members(q) /\ last \in Members(q) /\ q[l.root] = {}
      /\ GoesOn(q, last, l.root)
    BY DEF Represents
<1> HIDE DEF last
<1>2. last \in q[last] \cup {last}
    OBVIOUS
<1>3. QED
    BY <1>1, <1>2 DEF GoesOn, last

\* A member is its own successor only if it is alone.
LEMMA AloneInRing ==
    ASSUME NEW l, NEW q, Represents(l, q), NEW t \in Members(q), l.next[t] = t
    PROVE  Members(q) = {t}
<1>1. GoesOn(q, t, t) /\ t \notin q[t]
    BY DEF Represents, IsFifo
<1>2. t \in q[t] \cup {t}
    OBVIOUS
<1>3. QED
    BY <1>1, <1>2 DEF GoesOn

\* task_enqueue_to_root (task.h:80) puts a task behind the others.
LEMMA EnqueuedRepresents ==
    ASSUME NEW l \in ListType, NEW q, Represents(l, q), NEW t \in Task,
           t \notin Members(q), NULL \notin Task
    PROVE  LET d == EnqueuedToRoot(l, t) IN
           /\ d \in ListType
           /\ Represents(d, Enqueue(q, t))
           /\ SameLinks(l, d, Members(q) \cup {t})
<1> DEFINE d == EnqueuedToRoot(l, t)
           p == Enqueue(q, t)
<1>1. /\ Members(p) = Members(q) \cup {t} /\ IsFifo(p)
      /\ \A u \in Members(q) : p[u] = q[u]
      /\ p[t] = Members(q) /\ p = [u \in Members(p) |-> p[u]]
    <2>1. IsFifo(q)
        BY DEF Represents
    <2>2. p[t] = Members(q) /\ p = [u \in Members(p) |-> p[u]]
        BY DEF Enqueue, Members
    <2>3. QED
        BY <2>1, <2>2, EnqueueFifo
<1> HIDE DEF p
<1>2. CASE Members(q) = {}
    <2>1. l.root = NULL
        BY <1>2 DEF Represents
    <2>2. /\ d.root = t /\ d \in ListType
          /\ d.next = [l.next EXCEPT ![t] = t] /\ d.prev = [l.prev EXCEPT ![t] = t]
        BY <2>1 DEF EnqueuedToRoot, Single, ListType, Pointer
    <2> HIDE DEF d
    <2>3. d.next[t] = t /\ d.prev[t] = t /\ SameLinks(l, d, {t})
        BY <2>2 DEF SameLinks, ListType
    <2>4. Represents(d, p)
        BY <1>1, <1>2, <2>2, <2>3 DEF Represents, GoesOn
    <2>5. QED
        BY <1>2, <2>2, <2>3, <2>4 DEF d, p
<1>3. CASE Members(q) # {}
    <2> DEFINE top == l.root
               last == l.prev[top]
    <2>1. /\ top \in Members(q) /\ last \in Members(q) /\ top # NULL /\ q[top] = {}
          /\ q[last] = Members(q) \ {last} /\ l.next[last] = top
          /\ Members(q) \subseteq Task
        BY <1>3, LastBeforeRoot DEF Represents
    <2>2. /\ d.root = top /\ d \in ListType
          /\ d.next = [[l.next EXCEPT ![t] = top] EXCEPT ![last] = t]
          /\ d.prev = [[l.prev EXCEPT ![t] = last] EXCEPT ![top] = t]
        BY <2>1 DEF EnqueuedToRoot, Linked, ListType, Pointer
    <2> HIDE DEF d
    <2>3. /\ \A u \in Task \ {t, last} : d.next[u] = l.next[u]
          /\ \A u \in Task \ {t, top} : d.prev[u] = l.prev[u]
          /\ d.next[t] = top /\ d.next[last] = t /\ d.prev[t] = last /\ d.prev[top] = t
        BY <2>1, <2>2 DEF ListType
    <2> HIDE DEF top, last
    <2>4. ASSUME NEW u \in Members(p)
          PROVE  /\ d.next[u] \in Members(p) /\ d.prev[d.next[u]] = u
                 /\ d.prev[u] \in Members(p) /\ d.next[d.prev[u]] = u
                 /\ GoesOn(p, u, d.next[u])
        <3>1. CASE u = t
            BY <1>1, <2>1, <2>3, <3>1 DEF GoesOn
        <3>2. CASE u = last
            <4>1. d.next[u] = t /\ d.prev[t] = u /\ p[t] = p[u] \cup {u}
                BY <1>1, <2>1, <2>3, <3>2
            <4>2. d.prev[u] \in Members(p) /\ d.next[d.prev[u]] = u
                BY <1>1, <2>1, <2>3, <3>2 DEF Represents, top
            <4>3. QED
                BY <1>1, <4>1, <4>2 DEF GoesOn
        <3>3. CASE u \in Members(q) \ {last}
            <4>1. d.next[u] = l.next[u] /\ l.next[u] \in Members(q) /\ l.prev[l.next[u]] = u
                BY <2>1, <2>3, <3>3 DEF Represents
            <4>2. l.next[u] # top
                BY <3>3, <4>1 DEF last, top
            <4>3. d.prev[d.next[u]] = u
                BY <2>1, <2>3, <4>1, <4>2
            <4>4. d.prev[u] \in Members(p) /\ d.next[d.prev[u]] = u
                <5>1. CASE u = top
                    BY <1>1, <2>3, <5>1
                <5>2. CASE u # top
                    <6>1. d.prev[u] = l.prev[u] /\ l.prev[u] \in Members(q) /\ l.next[l.prev[u]] = u
                        BY <2>1, <2>3, <3>3, <5>2 DEF Represents
                    <6>2. l.prev[u] # last
                        BY <2>1, <5>2, <6>1
                    <6>3. QED
                        BY <1>1, <2>1, <2>3, <6>1, <6>2
                <5>3. QED
                    BY <5>1, <5>2
            <4>5. GoesOn(q, u, l.next[u])
                BY <3>3 DEF Represents
            <4>6. q[l.next[u]] # {}
                BY <4>1, <4>2, OneRoot DEF top
            <4>7. p[l.next[u]] = p[u] \cup {u}
                BY <1>1, <3>3, <4>1, <4>5, <4>6 DEF GoesOn
            <4>8. QED
                BY <1>1, <4>1, <4>3, <4>4, <4>7 DEF GoesOn
        <3>4. QED
            BY <1>1, <3>1, <3>2, <3>3
    <2>5. Represents(d, p)
        BY <1>1, <2>1, <2>2, <2>4 DEF Represents
    <2>6. SameLinks(l, d, Members(q) \cup {t})
        BY <2>1, <2>3 DEF SameLinks
    <2>7. QED
        BY <2>2, <2>5, <2>6 DEF d, p
<1>4. QED
    BY <1>2, <1>3

\* task_dequeue_from_root (task.h:90) takes a member out of the order of the
\* others.
LEMMA DequeuedRepresents ==
    ASSUME NEW l \in ListType, NEW q, Represents(l, q), NEW t \in Members(q)
    PROVE  LET d == DequeuedFromRoot(l, t) IN
           /\ d \in ListType
           /\ Represents(d, Dequeue(q, {t}))
           /\ SameLinks(l, d, Members(q))
           /\ d.next[t] = l.next[t]
           /\ d.root = IF Members(q) = {t} THEN NULL
                       ELSE IF l.root = t THEN l.next[t] ELSE l.root
<1> DEFINE d == DequeuedFromRoot(l, t)
           p == Dequeue(q, {t})
           M == Members(q)
<1>1. /\ Members(p) = M \ {t} /\ IsFifo(p)
      /\ \A u \in M \ {t} : p[u] = q[u] \ {t}
      /\ p = [u \in Members(p) |-> p[u]]
    <2>1. IsFifo(q)
        BY DEF Represents
    <2>2. \A u \in M \ {t} : p[u] = q[u] \ {t}
        BY DEF Dequeue
    <2>3. p = [u \in Members(p) |-> p[u]]
        BY DEF Dequeue, Members
    <2>4. QED
        BY <2>1, <2>2, <2>3, DequeueFifo
<1>2. /\ M \subseteq Task /\ l.root \in M /\ q[l.root] = {}
      /\ \A u \in M : u \notin q[u] /\ q[u] \subseteq M
    BY DEF Represents, IsFifo
<1>3. \A u \in M : /\ l.next[u] \in M /\ l.prev[l.next[u]] = u
                  /\ l.prev[u] \in M /\ l.next[l.prev[u]] = u
                  /\ GoesOn(q, u, l.next[u])
    BY DEF Represents
<1> HIDE DEF p
<1>4. CASE l.next[l.root] = l.root
    <2>1. M = {l.root} /\ t = l.root
        BY <1>2, <1>4, AloneInRing
    <2>2. IsSingle(l, l.root)
        BY <1>2, <1>3, <1>4 DEF IsSingle
    <2>3. d = [l EXCEPT !.root = NULL]
        BY <2>2 DEF DequeuedFromRoot
    <2> HIDE DEF d
    <2>4. d \in ListType /\ d.root = NULL /\ d.next = l.next /\ d.prev = l.prev
        BY <2>3 DEF ListType, Pointer
    <2>5. Represents(d, p)
        BY <1>1, <2>1, <2>4 DEF Represents
    <2>6. SameLinks(l, d, M)
        BY <2>4 DEF SameLinks
    <2>7. QED
        BY <2>1, <2>4, <2>5, <2>6 DEF d, p
<1>5. CASE l.next[l.root] # l.root
    <2> DEFINE after == l.next[t]
               before == l.prev[t]
    <2>1. M # {t}
        BY <1>2, <1>3, <1>5
    <2>2. /\ after \in M \ {t} /\ before \in M \ {t}
          /\ l.prev[after] = t /\ l.next[before] = t
        BY <1>3, <2>1, AloneInRing
    <2>3. ~ IsSingle(l, l.root)
        BY <1>5 DEF IsSingle
    <2>4. /\ d \in ListType
          /\ d.root = (IF l.root = t THEN after ELSE l.root)
          /\ d.prev = [l.prev EXCEPT ![after] = before]
          /\ d.next = [l.next EXCEPT ![before] = after]
        BY <1>2, <2>2, <2>3 DEF DequeuedFromRoot, Unlinked, ListType, Pointer
    <2> HIDE DEF d
    <2>5. /\ \A u \in Task \ {before} : d.next[u] = l.next[u]
          /\ \A u \in Task \ {after} : d.prev[u] = l.prev[u]
          /\ d.next[before] = after /\ d.prev[after] = before
        BY <1>2, <2>2, <2>4 DEF ListType
    <2>6. GoesOn(q, t, after) /\ GoesOn(q, before, t)
        BY <1>3, <2>2
    <2> HIDE DEF after, before
    <2>7. GoesOn(p, before, after)
        <3>1. CASE q[t] = {}
            <4>1. q[before] = M \ {before}
                BY <2>6, <3>1 DEF GoesOn
            <4>2. q[after] = {t}
                BY <2>1, <2>2, <2>6, <3>1 DEF GoesOn
            <4>3. QED
                BY <1>1, <2>2, <4>1, <4>2 DEF GoesOn
        <3>2. CASE q[t] # {}
            <4>1. q[t] = q[before] \cup {before}
                BY <2>6, <3>2 DEF GoesOn
            <4>2. t \notin q[t] /\ t \notin q[before]
                BY <1>2, <4>1
            <4>3. CASE q[after] = q[t] \cup {t}
                BY <1>1, <2>2, <4>1, <4>2, <4>3 DEF GoesOn
            <4>4. CASE q[t] = M \ {t} /\ q[after] = {}
                <5>1. q[before] = M \ {t, before}
                    BY <1>2, <2>2, <4>1, <4>4
                <5>2. QED
                    BY <1>1, <2>2, <4>4, <5>1 DEF GoesOn
            <4>5. QED
                BY <2>6, <4>3, <4>4 DEF GoesOn
        <3>3. QED
            BY <3>1, <3>2
    <2>8. ASSUME NEW u \in M \ {t}
          PROVE  /\ d.next[u] \in Members(p) /\ d.prev[d.next[u]] = u
                 /\ d.prev[u] \in Members(p) /\ d.next[d.prev[u]] = u
        <3>1. d.next[u] \in Members(p) /\ d.prev[d.next[u]] = u
            <4>1. CASE u = before
                BY <1>1, <2>2, <2>5, <4>1
            <4>2. CASE u # before
                <5>1. d.next[u] = l.next[u]
                    BY <1>2, <2>5, <4>2
                <5>2. l.next[u] \in M /\ l.prev[l.next[u]] = u /\ l.prev[t] = before
                    BY <1>3 DEF before
                <5>3. l.next[u] # t /\ l.next[u] # after
                    BY <2>2, <4>2, <5>2
                <5>4. QED
                    BY <1>1, <1>2, <2>5, <5>1, <5>2, <5>3
            <4>3. QED
                BY <4>1, <4>2
        <3>2. d.prev[u] \in Members(p) /\ d.next[d.prev[u]] = u
            <4>1. CASE u = after
                BY <1>1, <2>2, <2>5, <4>1
            <4>2. CASE u # after
                <5>1. d.prev[u] = l.prev[u]
                    BY <1>2, <2>5, <4>2
                <5>2. l.prev[u] \in M /\ l.next[l.prev[u]] = u /\ l.next[t] = after
                    BY <1>3 DEF after
                <5>3. l.prev[u] # t /\ l.prev[u] # before
                    BY <2>2, <4>2, <5>2
                <5>4. QED
                    BY <1>1, <1>2, <2>5, <5>1, <5>2, <5>3
            <4>3. QED
                BY <4>1, <4>2
        <3>3. QED
            BY <3>1, <3>2
    <2>9. ASSUME NEW u \in M \ {t} PROVE GoesOn(p, u, d.next[u])
        <3>1. CASE u = before
            BY <2>5, <2>7, <3>1
        <3>2. CASE u # before
            <4>1. d.next[u] = l.next[u] /\ GoesOn(q, u, l.next[u])
                BY <1>2, <1>3, <2>5, <3>2
            <4>2. d.next[u] \in M \ {t}
                BY <1>1, <2>8
            <4>3. QED
                BY <1>1, <4>1, <4>2 DEF GoesOn
        <3>3. QED
            BY <3>1, <3>2
    <2>10. d.root \in Members(p) /\ p[d.root] = {}
        <3>1. CASE l.root = t
            <4>1. q[after] = {t}
                BY <1>2, <2>1, <2>2, <2>6, <3>1 DEF GoesOn
            <4>2. QED
                BY <1>1, <2>2, <2>4, <3>1, <4>1
        <3>2. CASE l.root # t
            BY <1>1, <1>2, <2>4, <3>2
        <3>3. QED
            BY <3>1, <3>2
    <2>11. Represents(d, p)
        BY <1>1, <1>2, <2>8, <2>9, <2>10 DEF Represents
    <2>12. SameLinks(l, d, M)
        BY <2>2, <2>5 DEF SameLinks
    <2>13. d.next[t] = after
        BY <1>2, <2>2, <2>5 DEF after
    <2>14. QED
        BY <2>1, <2>4, <2>11, <2>12, <2>13 DEF d, p, after
<1>6. QED
    BY <1>4, <1>5

-----------------------------------------------------------------------------
(* The order that the links stand for. *)

\* In a finite queue, the members ahead of t are fewer than all, and an earlier
\* member has fewer ahead of it.
LEMMA Ranks ==
    ASSUME NEW q, IsFifo(q), IsFiniteSet(Members(q)), NEW t \in Members(q)
    PROVE  /\ IsFiniteSet(q[t])
           /\ Cardinality(q[t]) \in Nat /\ Cardinality(Members(q)) \in Nat
           /\ Cardinality(q[t]) < Cardinality(Members(q))
           /\ \A u \in q[t] : Cardinality(q[u]) < Cardinality(q[t])
<1>1. q[t] \subseteq Members(q) /\ t \notin q[t]
    BY DEF IsFifo
<1>2. IsFiniteSet(q[t]) /\ Cardinality(q[t]) \in Nat /\ Cardinality(Members(q)) \in Nat
    BY <1>1, FS_Subset, FS_CardinalityType
<1>3. Cardinality(q[t]) <= Cardinality(Members(q)) /\ Cardinality(q[t]) # Cardinality(Members(q))
    BY <1>1, FS_Subset
<1>4. ASSUME NEW u \in q[t] PROVE Cardinality(q[u]) < Cardinality(q[t])
    <2>1. u \in Members(q) /\ q[u] \subseteq q[t] /\ u \notin q[u]
        BY <1>1 DEF IsFifo
    <2>2. /\ Cardinality(q[u]) \in Nat
          /\ Cardinality(q[u]) <= Cardinality(q[t]) /\ Cardinality(q[u]) # Cardinality(q[t])
        BY <1>2, <2>1, FS_Subset, FS_CardinalityType
    <2>3. QED
        BY <1>2, <2>2
<1>5. QED
    BY <1>2, <1>3, <1>4

\* No two members have the same number of members ahead of them.
LEMMA RankIsUnique ==
    ASSUME NEW q, IsFifo(q), IsFiniteSet(Members(q)), NEW t \in Members(q), NEW u \in Members(q)
    PROVE  /\ Cardinality(q[t]) = Cardinality(q[u]) => t = u
           /\ Cardinality(q[t]) < Cardinality(q[u]) => t \in q[u]
<1>1. /\ u \in q[t] => Cardinality(q[u]) < Cardinality(q[t])
      /\ t \in q[u] => Cardinality(q[t]) < Cardinality(q[u])
      /\ Cardinality(q[t]) \in Nat /\ Cardinality(q[u]) \in Nat
    BY Ranks
<1>2. t = u \/ t \in q[u] \/ u \in q[t]
    BY DEF IsFifo
<1>3. QED
    BY <1>1, <1>2

\* A walk along the next links stays in the ring.
LEMMA NthInRing ==
    ASSUME NEW l \in ListType, NEW q, Represents(l, q), Members(q) # {}
    PROVE  LET w == Nth(l.root, l.next) IN
           /\ w \in [Nat -> Members(q)] /\ w[0] = l.root
           /\ \A n \in Nat : w[n + 1] = l.next[w[n]]
<1> DEFINE M == Members(q)
           Body(h) == [i \in Nat |-> IF i = 0 THEN l.root ELSE l.next[h[i - 1]]]
           w == CHOOSE h : h = Body(h)
<1>1. l.root \in M /\ \A t \in M : l.next[t] \in M
    BY DEF Represents
<1>2. PICK g \in [Nat -> M] : g[0] = l.root /\ \A n \in Nat : g[n + 1] = l.next[g[n]]
    <2>1. Iterations(M, l.root, l.next) # {}
        BY <1>1, Iteration
    <2>2. QED
        BY <2>1 DEF Iterations
<1>3. g = Body(g)
    <2>1. ASSUME NEW i \in Nat PROVE g[i] = Body(g)[i]
        <3>1. CASE i = 0
            BY <1>2, <3>1
        <3>2. CASE i # 0
            <4>1. i - 1 \in Nat /\ (i - 1) + 1 = i
                BY <3>2
            <4>2. QED
                BY <1>2, <3>2, <4>1
        <3>3. QED
            BY <3>1, <3>2
    <2>2. g = [i \in Nat |-> g[i]]
        BY <1>2
    <2>3. QED
        BY <2>1, <2>2
<1>4. w = Body(w)
    BY <1>3
<1>5. Nth(l.root, l.next) = w
    BY DEF Nth
<1> HIDE DEF w
<1>6. w[0] = l.root
    BY <1>4
<1>7. ASSUME NEW n \in Nat PROVE w[n + 1] = l.next[w[n]]
    <2>1. n + 1 \in Nat /\ n + 1 # 0 /\ (n + 1) - 1 = n
        OBVIOUS
    <2>2. w[n + 1] = Body(w)[n + 1]
        BY <1>4
    <2>3. QED
        BY <2>1, <2>2
<1>8. \A n \in Nat : w[n] \in M
    <2> DEFINE A == {n \in Nat : w[n] \in M}
    <2>1. 0 \in A /\ \A n \in Nat : n \in A => n + 1 \in A
        BY <1>1, <1>6, <1>7
    <2>2. Nat \subseteq A
        BY <2>1, NatSetInduction
    <2>3. QED
        BY <2>2
<1>9. w \in [Nat -> M]
    <2>1. w = [i \in Nat |-> Body(w)[i]]
        BY <1>4
    <2>2. DOMAIN w = Nat
        BY <2>1
    <2>3. w = [i \in Nat |-> w[i]]
        BY <1>4, <2>1
    <2>4. QED
        BY <1>8, <2>3
<1>10. QED
    BY <1>5, <1>6, <1>7, <1>9

\* A member whose successor is not the root stands right ahead of it.
LEMMA Successor ==
    ASSUME NEW l, NEW q, Represents(l, q), NEW t \in Members(q)
    PROVE  /\ l.next[t] \in Members(q)
           /\ l.next[t] # l.root => q[l.next[t]] = q[t] \cup {t}
           /\ l.next[t] = l.root => q[t] = Members(q) \ {t}
<1>1. /\ l.next[t] \in Members(q) /\ GoesOn(q, t, l.next[t])
      /\ q[l.root] = {}
    BY DEF Represents
<1>2. q[l.next[t]] = {} => l.next[t] = l.root
    BY <1>1, OneRoot
<1>3. q[t] \cup {t} # {}
    OBVIOUS
<1>4. QED
    BY <1>1, <1>2, <1>3 DEF GoesOn

\* The n-th task of a walk has n members ahead of it.
LEMMA NthRank ==
    ASSUME NEW l \in ListType, NEW q, Represents(l, q), IsFiniteSet(Members(q)),
           Members(q) # {}
    PROVE  \A n \in Nat : n < Cardinality(Members(q)) =>
               Cardinality(q[Nth(l.root, l.next)[n]]) = n
<1> DEFINE M == Members(q)
           w == Nth(l.root, l.next)
           A == {n \in Nat : n < Cardinality(M) => Cardinality(q[w[n]]) = n}
<1>1. /\ w[0] = l.root /\ q[l.root] = {} /\ Cardinality(M) \in Nat
      /\ \A n \in Nat : w[n] \in M /\ w[n + 1] = l.next[w[n]]
    BY NthInRing, FS_CardinalityType DEF Represents
<1> HIDE DEF w
<1>2. 0 \in A
    BY <1>1, FS_EmptySet
<1>3. ASSUME NEW n \in Nat, n \in A PROVE n + 1 \in A
    <2> SUFFICES ASSUME n + 1 < Cardinality(M) PROVE Cardinality(q[w[n + 1]]) = n + 1
        OBVIOUS
    <2> DEFINE t == w[n]
    <2>1. t \in M /\ Cardinality(q[t]) = n /\ IsFiniteSet(q[t]) /\ t \notin q[t]
        BY <1>1, <1>3, Ranks DEF Represents, IsFifo
    <2>2. Cardinality(q[t] \cup {t}) = n + 1
        BY <2>1, FS_AddElement
    <2>3. q[t] # M \ {t}
        <3>1. (M \ {t}) \cup {t} = M
            BY <2>1
        <3>2. QED
            BY <2>2, <3>1
    <2>4. q[l.next[t]] = q[t] \cup {t}
        BY <2>1, <2>3, Successor
    <2>5. QED
        BY <1>1, <2>2, <2>4
<1>4. Nat \subseteq A
    BY <1>2, <1>3, NatSetInduction
<1>5. QED
    BY <1>4 DEF w

\* A list stands for one order only.
LEMMA OrderOfList ==
    ASSUME NEW l \in ListType, NEW q, Represents(l, q), IsFiniteSet(Task), NULL \notin Task
    PROVE  Walked(l.root, l.next) = Members(q) /\ FifoOf(l.root, l.next) = q
<1> DEFINE M == Members(q)
           w == Nth(l.root, l.next)
<1>1. CASE M = {}
    <2>1. Walked(l.root, l.next) = {}
        BY <1>1 DEF Represents, Walked
    <2>2. q = [t \in {} |-> q[t]]
        BY <1>1 DEF Represents
    <2>3. FifoOf(l.root, l.next) = [t \in {} |-> q[t]]
        BY <2>1 DEF FifoOf
    <2>4. QED
        BY <1>1, <2>1, <2>2, <2>3
<1>2. CASE M # {}
    <2>1. /\ IsFifo(q) /\ M \subseteq Task /\ q = [t \in M |-> q[t]] /\ l.root # NULL
        BY <1>2 DEF Represents
    <2>2. /\ IsFiniteSet(M) /\ Cardinality(M) \in Nat /\ Cardinality(Task) \in Nat
          /\ Cardinality(M) <= Cardinality(Task)
        BY <2>1, FS_Subset, FS_CardinalityType
    <2>3. /\ \A n \in Nat : w[n] \in M
          /\ \A n \in Nat : n < Cardinality(M) => Cardinality(q[w[n]]) = n
        BY <1>2, <2>2, NthInRing, NthRank
    <2>4. ASSUME NEW t \in M
          PROVE  /\ Cardinality(q[t]) \in Nat /\ Cardinality(q[t]) < Cardinality(M)
                 /\ w[Cardinality(q[t])] = t
        <3>1. Cardinality(q[t]) \in Nat /\ Cardinality(q[t]) < Cardinality(M)
            BY <2>1, <2>2, Ranks
        <3>2. QED
            BY <2>1, <2>2, <2>3, <3>1, RankIsUnique
    <2>5. Walked(l.root, l.next) = {w[i] : i \in 0 .. Cardinality(Task)}
        BY <2>1 DEF Walked
    <2>6. ASSUME NEW t \in M
          PROVE  PositionOf(l.root, l.next, t) = Cardinality(q[t])
        <3> DEFINE n == Cardinality(q[t])
                   P(i) == w[i] = t /\ \A j \in 0 .. i - 1 : w[j] # t
        <3>1. n \in Nat /\ n < Cardinality(M) /\ w[n] = t
            BY <2>4
        <3>2. n \in 0 .. Cardinality(Task) /\ P(n)
            BY <2>2, <2>3, <3>1
        <3>3. ASSUME NEW i \in 0 .. Cardinality(Task), P(i) PROVE i = n
            <4>1. i \in Nat /\ (i < n \/ n < i \/ i = n)
                BY <2>2, <3>1
            <4>2. ~ i < n
                BY <3>1, <3>2, <3>3, <4>1
            <4>3. ~ n < i
                BY <3>1, <3>2, <3>3, <4>1
            <4>4. QED
                BY <4>1, <4>2, <4>3
        <3>4. PositionOf(l.root, l.next, t) = CHOOSE i \in 0 .. Cardinality(Task) : P(i)
            BY DEF PositionOf
        <3> HIDE DEF P, n
        <3>5. (CHOOSE i \in 0 .. Cardinality(Task) : P(i)) = n
            BY <3>2, <3>3
        <3>6. QED
            BY <3>4, <3>5 DEF n
    <2> HIDE DEF w
    <2>7. M = {w[i] : i \in 0 .. Cardinality(Task)}
        <3>1. ASSUME NEW t \in M PROVE \E i \in 0 .. Cardinality(Task) : t = w[i]
            <4>1. Cardinality(q[t]) \in 0 .. Cardinality(Task)
                BY <2>2, <2>4
            <4>2. QED
                BY <2>4, <4>1
        <3>2. \A i \in 0 .. Cardinality(Task) : w[i] \in M
            BY <2>2, <2>3
        <3>3. QED
            BY <3>1, <3>2
    <2>8. ASSUME NEW t \in M
          PROVE  {w[i] : i \in 0 .. Cardinality(q[t]) - 1} = q[t]
        <3> DEFINE n == Cardinality(q[t])
        <3>1. ASSUME NEW u \in q[t] PROVE \E i \in 0 .. n - 1 : u = w[i]
            <4>1. u \in M /\ Cardinality(q[u]) < n
                BY <2>1, <2>2, <3>1, Ranks DEF IsFifo
            <4>2. Cardinality(q[u]) \in 0 .. n - 1
                BY <2>4, <4>1
            <4>3. QED
                BY <2>4, <4>1, <4>2
        <3>2. ASSUME NEW i \in 0 .. n - 1 PROVE w[i] \in q[t]
            <4>1. i \in Nat /\ i < n /\ i < Cardinality(M)
                BY <2>2, <2>4
            <4>2. w[i] \in M /\ Cardinality(q[w[i]]) < Cardinality(q[t])
                BY <2>3, <4>1
            <4>3. QED
                BY <2>1, <2>2, <4>2, RankIsUnique
        <3>3. QED
            BY <3>1, <3>2
    <2>9. FifoOf(l.root, l.next) = [t \in M |-> q[t]]
        <3>1. FifoOf(l.root, l.next) = [t \in M |->
                  {w[i] : i \in 0 .. PositionOf(l.root, l.next, t) - 1}]
            BY <2>5, <2>7 DEF FifoOf, w
        <3>2. QED
            BY <2>6, <2>8, <3>1
    <2>10. QED
        BY <2>1, <2>5, <2>7, <2>9
<1>3. QED
    BY <1>1, <1>2

-----------------------------------------------------------------------------
(* The search of terminate_current_task. *)

\* The members of q that wait for k.
WaitingFor(q, k) == {t \in Members(q) : key[t] = k}

\* The search goes on behind members that do not wait for k, and stops.
LEMMA SearchStops ==
    ASSUME TaskListAssumption, NEW l \in ListType, NEW q, Represents(l, q),
           Members(q) # {}, Members(q) \subseteq blocked, NEW k
    PROVE  LET w == Search(l, k)[MaxTurns] IN
           /\ w \in Members(q) /\ q[w] \cap WaitingFor(q, k) = {}
           /\ w \in WaitingFor(q, k) \/ l.next[w] = l.root
<1> DEFINE M == Members(q)
           W == WaitingFor(q, k)
           Halt(t) == Hit(blocked, t, k) \/ l.next[t] = l.root
           S == {t \in M : q[t] \cap W = {}}
           F == [t \in S |-> IF Halt(t) THEN t ELSE l.next[t]]
           Body(h) == [i \in Nat |-> IF i = 0 THEN l.root
                          ELSE IF Halt(h[i - 1]) THEN h[i - 1] ELSE l.next[h[i - 1]]]
           w == CHOOSE h : h = Body(h)
<1>1. Search(l, k) = w
    BY DEF Search
<1>2. \A t \in M : Hit(blocked, t, k) <=> t \in W
    BY DEF Hit, WaitingFor
<1> HIDE DEF W
<1>3. l.root \in S
    BY DEF Represents
<1>4. ASSUME NEW t \in S, ~ Halt(t)
      PROVE  l.next[t] \in S /\ q[l.next[t]] = q[t] \cup {t}
    <2>1. l.next[t] \in M /\ q[l.next[t]] = q[t] \cup {t} /\ t \notin W
        BY <1>2, <1>4, Successor
    <2>2. QED
        BY <2>1
<1>5. \A t \in S : F[t] \in S
    BY <1>4
<1>6. Iterations(S, l.root, F) # {}
    BY <1>3, <1>5, Iteration
<1>7. PICK g \in [Nat -> S] : g[0] = l.root /\ \A n \in Nat : g[n + 1] = F[g[n]]
    BY <1>6 DEF Iterations
<1>8. g = Body(g)
    <2>1. ASSUME NEW i \in Nat PROVE g[i] = Body(g)[i]
        <3>1. CASE i = 0
            BY <1>7, <3>1
        <3>2. CASE i # 0
            <4>1. i - 1 \in Nat /\ (i - 1) + 1 = i
                BY <3>2
            <4>2. g[i - 1] \in S /\ g[i] = F[g[i - 1]]
                BY <1>7, <4>1
            <4> HIDE DEF S, Halt
            <4>3. QED
                BY <3>2, <4>2
        <3>3. QED
            BY <3>1, <3>2
    <2>2. g = [i \in Nat |-> g[i]]
        BY <1>7
    <2> HIDE DEF Halt
    <2>3. QED
        BY <2>1, <2>2
<1>9. w = Body(w)
    BY <1>8
<1> HIDE DEF w
<1>10. w[0] = l.root
    BY <1>9
<1>11. ASSUME NEW n \in Nat PROVE w[n + 1] = IF Halt(w[n]) THEN w[n] ELSE l.next[w[n]]
    <2> HIDE DEF Halt
    <2>1. n + 1 \in Nat /\ n + 1 # 0 /\ (n + 1) - 1 = n
        OBVIOUS
    <2>2. w[n + 1] = Body(w)[n + 1]
        BY <1>9
    <2>3. QED
        BY <2>1, <2>2
<1> DEFINE A == {n \in Nat : w[n] \in S /\ (Halt(w[n]) \/ Cardinality(q[w[n]]) = n)}
<1>12. IsFifo(q) /\ IsFiniteSet(M) /\ q[l.root] = {}
    BY FS_Subset DEF Represents, TaskListAssumption
<1>13. 0 \in A
    BY <1>3, <1>10, <1>12, FS_EmptySet
<1>14. ASSUME NEW n \in Nat, n \in A PROVE n + 1 \in A
    <2> DEFINE t == w[n]
    <2>1. CASE Halt(t)
        BY <1>11, <1>14, <2>1
    <2>2. CASE ~ Halt(t)
        <3>1. t \in S /\ Cardinality(q[t]) = n /\ w[n + 1] = l.next[t]
            BY <1>11, <1>14, <2>2
        <3>2. w[n + 1] \in S /\ q[w[n + 1]] = q[t] \cup {t}
            BY <1>4, <2>2, <3>1
        <3>3. t \notin q[t] /\ IsFiniteSet(q[t])
            BY <1>12, <3>1, Ranks DEF IsFifo
        <3> HIDE DEF S, Halt, t
        <3>4. Cardinality(q[t] \cup {t}) = n + 1
            BY <3>1, <3>3, FS_AddElement
        <3>5. Cardinality(q[w[n + 1]]) = n + 1
            BY <3>2, <3>4
        <3>6. n + 1 \in Nat
            OBVIOUS
        <3>7. QED
            BY <3>2, <3>5, <3>6
    <2>3. QED
        BY <2>1, <2>2
<1>15. Nat \subseteq A
    BY <1>13, <1>14, NatSetInduction
<1>16. w[MaxTurns] \in S /\ Halt(w[MaxTurns])
    <2>1. MaxTurns \in Nat /\ MaxTurns \in A
        BY <1>15 DEF TaskListAssumption
    <2>2. ASSUME NEW t \in M PROVE Cardinality(q[t]) # MaxTurns
        <3>1. /\ Cardinality(q[t]) \in Nat /\ Cardinality(M) \in Nat
              /\ Cardinality(q[t]) < Cardinality(M)
            BY <1>12, Ranks
        <3>2. Cardinality(Task) \in Nat /\ Cardinality(M) <= Cardinality(Task)
            BY FS_Subset, FS_CardinalityType DEF Represents, TaskListAssumption
        <3>3. QED
            BY <3>1, <3>2 DEF TaskListAssumption
    <2>3. QED
        BY <2>1, <2>2
<1>17. QED
    BY <1>1, <1>2, <1>16 DEF W

\* It finds the first member that waits for k (sched.c:92-117).
LEMMA FoundIsFirst ==
    ASSUME TaskListAssumption, NEW l \in ListType, NEW q, Represents(l, q),
           Members(q) # {}, Members(q) \subseteq blocked, NEW k
    PROVE  LET W == WaitingFor(q, k) IN
           /\ W = {} => Found(l, k) = NULL
           /\ W # {} => Found(l, k) \in Members(q) /\ FirstOf(q, W) = {Found(l, k)}
<1> DEFINE W == WaitingFor(q, k)
           w == Search(l, k)[MaxTurns]
<1>1. /\ w \in Members(q) /\ q[w] \cap W = {}
      /\ w \in W \/ l.next[w] = l.root
    BY SearchStops
<1> HIDE DEF w
<1>2. IF w \in W THEN Found(l, k) = w ELSE Found(l, k) = NULL
    BY <1>1 DEF Found, Hit, WaitingFor, w
<1>3. CASE w \in W
    <2>1. w \in FirstOf(q, W) /\ FirstOf(q, W) \subseteq W
        BY <1>1, <1>3 DEF FirstOf
    <2>2. \A t, u \in FirstOf(q, W) : t = u
        BY FirstIsUnique DEF Represents, WaitingFor
    <2>3. QED
        BY <1>1, <1>2, <1>3, <2>1, <2>2
<1>4. CASE w \notin W
    <2>1. q[w] = Members(q) \ {w}
        BY <1>1, <1>4, Successor
    <2>2. W = {}
        BY <1>1, <1>4, <2>1 DEF WaitingFor
    <2>3. QED
        BY <1>2, <1>4, <2>2
<1>5. QED
    BY <1>3, <1>4

-----------------------------------------------------------------------------
(* The walk of handle_futex_wake, over the list l of the members of q.  W are *)
(* the members that wait for the key and n is the number of tasks to wake.    *)

LoopStates(q) ==
    [l : ListType, b : SUBSET Task, w : Members(q), num : Nat, turns : Nat]

\* The tasks of R left the list l.
Woken(l, q, R, n, c) ==
    /\ Represents(c.l, Dequeue(q, R)) /\ SameLinks(l, c.l, Members(q))
    /\ c.b = blocked \ R
    /\ c.num = Cardinality(R) /\ c.num <= n

\* The walk has not begun.
AtStart(l, c) ==
    c = [l |-> l, b |-> blocked, w |-> l.root, num |-> 0, turns |-> 0]

\* It is at a member and woke those ahead of it.
Inside(l, q, W, n, c) ==
    /\ c.turns > 0 /\ l.root \notin W /\ c.w # l.root
    /\ c.turns = Cardinality(q[c.w])
    /\ Woken(l, q, W \cap q[c.w], n, c)

\* It is back at the root.
Round(l, q, W, n, c) ==
    /\ c.turns > 0 /\ l.root \notin W /\ c.w = l.root
    /\ Woken(l, q, W, n, c)

\* It woke the root in its first turn.
RootWoken(l, q, W, c) ==
    /\ c.turns > 0 /\ l.root \in W
    /\ c.l = DequeuedFromRoot(l, l.root)
    /\ c.b = blocked \ {l.root} /\ c.w = l.next[l.root] /\ c.num = 1

\* What holds whenever the loop condition is tested.
LoopInv(l, q, W, n, c) ==
    \/ AtStart(l, c)
    \/ Inside(l, q, W, n, c)
    \/ Round(l, q, W, n, c)
    \/ RootWoken(l, q, W, c)

\* What the lemmas on the walk assume.
WalkAssumption(l, q, n) ==
    /\ TaskListAssumption
    /\ l \in ListType /\ Represents(l, q) /\ Members(q) # {}
    /\ Members(q) \subseteq blocked /\ blocked \subseteq Task
    /\ n \in Nat \ {0}

\* Removing nobody, and removing in two steps.
LEMMA DequeueTwice ==
    ASSUME NEW q, NEW R, NEW T, q = [t \in Members(q) |-> q[t]]
    PROVE  Dequeue(q, {}) = q /\ Dequeue(Dequeue(q, R), T) = Dequeue(q, R \cup T)
<1>1. Dequeue(q, {}) = [t \in Members(q) |-> q[t]]
    BY DEF Dequeue, Members
<1>2. Dequeue(Dequeue(q, R), T) = [u \in (Members(q) \ R) \ T |-> (q[u] \ R) \ T]
    BY DEF Dequeue, Members
<1>3. /\ (Members(q) \ R) \ T = Members(q) \ (R \cup T)
      /\ \A u : (q[u] \ R) \ T = q[u] \ (R \cup T)
    OBVIOUS
<1>4. Dequeue(q, R \cup T) = [u \in Members(q) \ (R \cup T) |-> q[u] \ (R \cup T)]
    BY DEF Dequeue
<1>5. QED
    BY <1>1, <1>2, <1>3, <1>4

\* The first turn wakes the root or passes it.
LEMMA FirstTurn ==
    ASSUME NEW l, NEW q, NEW k, NEW n, NEW c \in LoopStates(q),
           WalkAssumption(l, q, n), AtStart(l, c)
    PROVE  /\ Turn(c, k) \in LoopStates(q)
           /\ LoopInv(l, q, WaitingFor(q, k), n, Turn(c, k))
<1> DEFINE M == Members(q)
           W == WaitingFor(q, k)
           t == l.root
           e == Turn(c, k)
<1>1. /\ l \in ListType /\ Represents(l, q) /\ M # {} /\ M \subseteq blocked
      /\ n \in Nat \ {0} /\ IsFiniteSet(M) /\ blocked \subseteq Task /\ NULL \notin Task
    BY FS_Subset DEF WalkAssumption, Represents, TaskListAssumption
<1>2. t \in M /\ q[t] = {} /\ l.next[t] \in M /\ q = [u \in M |-> q[u]]
    BY <1>1 DEF Represents
<1>3. c.l = l /\ c.b = blocked /\ c.w = t /\ c.num = 0 /\ c.turns = 0
    BY DEF AtStart
<1>4. Hit(c.b, c.w, k) <=> t \in W
    BY <1>1, <1>2, <1>3 DEF Hit, WaitingFor
<1>5. CASE t \in W
    <2> DEFINE d == DequeuedFromRoot(l, t)
    <2>1. d \in ListType /\ d.next[t] = l.next[t]
        BY <1>1, <1>2, DequeuedRepresents
    <2> HIDE DEF d
    <2>2. e = [l |-> d, b |-> blocked \ {t}, w |-> d.next[t], num |-> 1, turns |-> 1]
        BY <1>3, <1>4, <1>5 DEF Turn, d
    <2> HIDE DEF e
    <2>3. e \in LoopStates(q)
        BY <1>1, <1>2, <2>1, <2>2 DEF LoopStates
    <2>4. RootWoken(l, q, W, e)
        BY <1>5, <2>1, <2>2 DEF RootWoken, d
    <2>5. QED
        BY <2>3, <2>4 DEF LoopInv, e
<1>6. CASE t \notin W
    <2>1. e = [l |-> l, b |-> blocked, w |-> l.next[t], num |-> 0, turns |-> 1]
        BY <1>3, <1>4, <1>6 DEF Turn
    <2> HIDE DEF e
    <2>2. e \in LoopStates(q)
        BY <1>1, <1>2, <2>1 DEF LoopStates
    <2>3. Woken(l, q, {}, n, e)
        <3>1. Dequeue(q, {}) = q
            BY <1>2, DequeueTwice
        <3>2. Cardinality({}) = 0 /\ blocked \ {} = blocked
            BY FS_EmptySet
        <3>3. QED
            BY <1>1, <2>1, <3>1, <3>2 DEF Woken, SameLinks
    <2>4. CASE l.next[t] = t
        <3>1. W = {}
            BY <1>1, <1>2, <1>6, <2>4, AloneInRing DEF WaitingFor
        <3>2. Round(l, q, W, n, e)
            BY <1>6, <2>1, <2>3, <2>4, <3>1 DEF Round
        <3>3. QED
            BY <2>2, <3>2 DEF LoopInv, e
    <2>5. CASE l.next[t] # t
        <3>1. q[e.w] = {t}
            BY <1>1, <1>2, <2>1, <2>5, Successor
        <3>2. W \cap q[e.w] = {} /\ Cardinality(q[e.w]) = 1
            BY <1>6, <3>1, FS_Singleton
        <3>3. Inside(l, q, W, n, e)
            BY <1>6, <2>1, <2>3, <2>5, <3>2 DEF Inside
        <3>4. QED
            BY <2>2, <3>3 DEF LoopInv, e
    <2>6. QED
        BY <2>4, <2>5
<1>7. QED
    BY <1>5, <1>6

\* The link to the next task, read after its task was removed, leads to the
\* member behind it (futex.c:43).
LEMMA InsideTurn ==
    ASSUME NEW l, NEW q, NEW k, NEW n, NEW c \in LoopStates(q),
           WalkAssumption(l, q, n), Inside(l, q, WaitingFor(q, k), n, c), ~ Ended(c, n)
    PROVE  /\ Turn(c, k) \in LoopStates(q)
           /\ LoopInv(l, q, WaitingFor(q, k), n, Turn(c, k))
<1> DEFINE M == Members(q)
           W == WaitingFor(q, k)
           t == c.w
           R == W \cap q[t]
           d == Dequeue(q, R)
           T == W \cap {t}
           x == c.l.next[t]
           e == Turn(c, k)
<1>1. /\ l \in ListType /\ Represents(l, q) /\ IsFifo(q) /\ M # {} /\ M \subseteq blocked
      /\ n \in Nat \ {0} /\ IsFiniteSet(M) /\ blocked \subseteq Task /\ M \subseteq Task
      /\ l.root \in M /\ q[l.root] = {} /\ q = [u \in M |-> q[u]]
    BY FS_Subset DEF WalkAssumption, Represents, TaskListAssumption
<1>2. /\ c.l \in ListType /\ c.b \subseteq Task /\ t \in M /\ c.num \in Nat /\ c.turns \in Nat
    BY DEF LoopStates
<1>3. /\ Represents(c.l, d) /\ SameLinks(l, c.l, M) /\ c.b = blocked \ R
      /\ c.num = Cardinality(R) /\ c.num < n /\ c.turns > 0
      /\ l.root \notin W /\ t # l.root /\ c.turns = Cardinality(q[t])
    BY <1>1, <1>2 DEF Inside, Woken, Ended
<1>4. Members(d) = M \ R /\ \A u \in M \ R : d[u] = q[u] \ R
    BY <1>1, DequeueFifo DEF Dequeue
<1>5. /\ t \notin q[t] /\ q[t] \subseteq M /\ t \in Members(d) /\ IsFiniteSet(q[t])
      /\ IsFiniteSet(R) /\ R \subseteq q[t]
    <2>1. t \notin q[t] /\ q[t] \subseteq M
        BY <1>1, <1>2 DEF IsFifo
    <2>2. IsFiniteSet(q[t]) /\ IsFiniteSet(R)
        <3>1. R \subseteq q[t]
            OBVIOUS
        <3>2. QED
            BY <1>1, <2>1, <3>1, FS_Subset
    <2>3. QED
        BY <1>2, <1>4, <2>1, <2>2
<1>6. c.l.root = l.root
    <2>1. l.root \in Members(d) /\ d[l.root] = {}
        BY <1>1, <1>3, <1>4
    <2>2. QED
        BY <1>3, <2>1, OneRoot
<1>7. Hit(c.b, t, k) <=> t \in W
    BY <1>1, <1>2, <1>3, <1>5 DEF Hit, WaitingFor
<1>8. /\ e \in LoopStates(q)
      /\ e.w = x /\ e.turns = c.turns + 1
      /\ Woken(l, q, R \cup T, n, e)
    <2>1. CASE t \in W
        <3> DEFINE f == DequeuedFromRoot(c.l, t)
        <3>1. /\ f \in ListType /\ Represents(f, Dequeue(d, {t}))
              /\ SameLinks(c.l, f, Members(d)) /\ f.next[t] = x
            BY <1>2, <1>3, <1>5, DequeuedRepresents
        <3>2. Dequeue(d, {t}) = Dequeue(q, R \cup T)
            BY <1>1, <2>1, DequeueTwice
        <3>3. Cardinality(R \cup T) = c.num + 1
            <4>1. R \cup T = R \cup {t} /\ t \notin R
                BY <1>5, <2>1
            <4> HIDE DEF R
            <4>2. Cardinality(R \cup {t}) = Cardinality(R) + 1
                BY <1>5, <4>1, FS_AddElement
            <4>3. QED
                BY <1>3, <4>1, <4>2
        <3> HIDE DEF f
        <3>4. e = [l |-> f, b |-> c.b \ {t}, w |-> f.next[t], num |-> c.num + 1,
                   turns |-> c.turns + 1]
            BY <1>7, <2>1 DEF Turn, f
        <3>5. x \in M
            BY <1>3, <1>4, <1>5 DEF Represents
        <3> HIDE DEF e, d
        <3>6. e \in LoopStates(q)
            BY <1>2, <3>1, <3>4, <3>5 DEF LoopStates
        <3>7. SameLinks(l, e.l, M)
            BY <1>3, <1>4, <3>1, <3>4 DEF SameLinks
        <3>8. e.b = blocked \ (R \cup T)
            BY <1>3, <2>1, <3>4
        <3>9. Woken(l, q, R \cup T, n, e)
            BY <1>1, <1>2, <1>3, <3>1, <3>2, <3>3, <3>4, <3>7, <3>8 DEF Woken
        <3>10. QED
            BY <3>1, <3>4, <3>6, <3>9
    <2>2. CASE t \notin W
        <3>1. e = [l |-> c.l, b |-> c.b, w |-> x, num |-> c.num, turns |-> c.turns + 1]
            BY <1>7, <2>2 DEF Turn
        <3>2. R \cup T = R
            BY <2>2
        <3>3. x \in M
            BY <1>3, <1>4, <1>5 DEF Represents
        <3> HIDE DEF e, d
        <3>4. e \in LoopStates(q)
            BY <1>2, <3>1, <3>3 DEF LoopStates
        <3>5. Woken(l, q, R, n, e)
            BY <1>1, <1>2, <1>3, <3>1 DEF Woken, d
        <3>6. QED
            BY <3>1, <3>2, <3>4, <3>5
    <2>3. QED
        BY <2>1, <2>2
<1> HIDE DEF d, e, R, T
<1>9. CASE x = l.root
    <2>1. d[t] = Members(d) \ {t}
        BY <1>3, <1>5, <1>6, <1>9, Successor
    <2>2. q[t] = M \ {t}
        BY <1>2, <1>4, <1>5, <2>1
    <2>3. R \cup T = W
        BY <1>2, <2>2 DEF R, T, WaitingFor
    <2>4. Round(l, q, W, n, e)
        BY <1>2, <1>3, <1>8, <1>9, <2>3 DEF Round
    <2>5. QED
        BY <1>8, <2>4 DEF LoopInv, e
<1>10. CASE x # l.root
    <2>1. d[x] = d[t] \cup {t} /\ x \in Members(d)
        BY <1>3, <1>5, <1>6, <1>10, Successor
    <2>2. q[x] \ R = (q[t] \ R) \cup {t} /\ t \in q[x] /\ x \in M
        BY <1>4, <1>5, <2>1
    <2>3. q[t] \subseteq q[x]
        BY <1>1, <1>2, <2>2 DEF IsFifo
    <2>4. q[x] = q[t] \cup {t}
        BY <1>5, <2>2, <2>3
    <2>5. R \cup T = W \cap q[e.w]
        BY <1>8, <2>4 DEF R, T
    <2>6. e.turns = Cardinality(q[e.w])
        <3>1. Cardinality(q[t] \cup {t}) = Cardinality(q[t]) + 1
            BY <1>5, FS_AddElement
        <3>2. QED
            BY <1>3, <1>8, <2>4, <3>1
    <2>7. e.turns > 0 /\ e.w # l.root
        BY <1>2, <1>8, <1>10
    <2>8. Woken(l, q, W \cap q[e.w], n, e)
        BY <1>8, <2>5
    <2>9. Inside(l, q, W, n, e)
        BY <1>3, <2>6, <2>7, <2>8 DEF Inside
    <2>10. QED
        BY <1>8, <2>9 DEF LoopInv, e
<1>11. QED
    BY <1>9, <1>10

\* After the root was woken the walk is over, or it stays at the only member,
\* which is not blocked any more.
LEMMA RootWokenTurn ==
    ASSUME NEW l, NEW q, NEW k, NEW n, NEW c \in LoopStates(q),
           WalkAssumption(l, q, n), RootWoken(l, q, WaitingFor(q, k), c)
    PROVE  /\ Ended(c, n) <=> Members(q) # {l.root} \/ n = 1
           /\ ~ Ended(c, n) =>
                  /\ Turn(c, k) \in LoopStates(q)
                  /\ LoopInv(l, q, WaitingFor(q, k), n, Turn(c, k))
<1> DEFINE W == WaitingFor(q, k)
           e == Turn(c, k)
           t == l.root
<1>1. /\ l \in ListType /\ Represents(l, q) /\ t \in Members(q) /\ t \in Task
      /\ NULL \notin Task /\ n \in Nat \ {0}
    BY DEF WalkAssumption, Represents, TaskListAssumption
<1>2. /\ c.l.root = (IF Members(q) = {t} THEN NULL ELSE l.next[t])
      /\ c.l.next[t] = l.next[t]
    BY <1>1, DequeuedRepresents DEF RootWoken
<1>3. c.w = l.next[t] /\ c.turns > 0 /\ c.num = 1 /\ c.w \in Task
    BY <1>1 DEF RootWoken, Represents, LoopStates
<1>4. Ended(c, n) <=> Members(q) # {t} \/ n = 1
    BY <1>1, <1>2, <1>3 DEF Ended
<1>5. ASSUME ~ Ended(c, n) PROVE e \in LoopStates(q) /\ LoopInv(l, q, W, n, e)
    <2>1. Members(q) = {t} /\ c.w = t
        BY <1>1, <1>3, <1>4, <1>5 DEF Represents
    <2>2. ~ Hit(c.b, c.w, k)
        BY <2>1 DEF RootWoken, Hit
    <2>3. e = [l |-> c.l, b |-> c.b, w |-> c.w, num |-> c.num, turns |-> c.turns + 1]
        BY <1>2, <1>3, <2>1, <2>2 DEF Turn
    <2> HIDE DEF e
    <2>4. e \in LoopStates(q)
        BY <2>3 DEF LoopStates
    <2>5. RootWoken(l, q, W, e)
        BY <2>3 DEF RootWoken, LoopStates
    <2>6. QED
        BY <2>4, <2>5 DEF LoopInv
<1>6. QED
    BY <1>4, <1>5

\* At the root the walk is over.
LEMMA RoundEnds ==
    ASSUME NEW l, NEW q, NEW W, NEW n, NEW c,
           WalkAssumption(l, q, n), Round(l, q, W, n, c)
    PROVE  Ended(c, n)
<1>1. /\ Represents(l, q) /\ IsFifo(q) /\ l.root \in Members(q) /\ q[l.root] = {}
    BY DEF WalkAssumption, Represents
<1>2. Members(Dequeue(q, W)) = Members(q) \ W
    BY <1>1, DequeueFifo
<1>3. l.root \in Members(Dequeue(q, W)) /\ Dequeue(q, W)[l.root] = {}
    BY <1>1, <1>2 DEF Dequeue, Round
<1>4. c.l.root = l.root
    BY <1>3, OneRoot DEF Round, Woken
<1>5. QED
    BY <1>4 DEF Round, Ended

\* The loop keeps its invariant, and takes MaxTurns turns if it does not end.
LEMMA LoopReaches ==
    ASSUME NEW r, NEW q, NEW k, NEW n, WalkAssumption(Lists(r), q, n)
    PROVE  LET c == Loop(r, k, n)[MaxTurns] IN
           /\ c \in LoopStates(q) /\ LoopInv(Lists(r), q, WaitingFor(q, k), n, c)
           /\ Ended(c, n) \/ c.turns = MaxTurns
<1> DEFINE S == {c \in LoopStates(q) : LoopInv(Lists(r), q, WaitingFor(q, k), n, c)}
           G(c) == IF Ended(c, n) THEN c ELSE Turn(c, k)
           F == [c \in S |-> G(c)]
           Body(h) == [i \in Nat |-> IF i = 0 THEN Start(r) ELSE G(h[i - 1])]
           w == CHOOSE h : h = Body(h)
<1>1. Loop(r, k, n) = w
    BY DEF Loop
<1>2. Start(r) \in S /\ Start(r).turns = 0
    <2>1. AtStart(Lists(r), Start(r)) /\ Start(r).turns = 0
        BY DEF AtStart, Start, Lists
    <2>2. /\ Lists(r) \in ListType /\ blocked \in SUBSET Task
          /\ root[r] \in Members(q)
        BY DEF WalkAssumption, Represents, Lists
    <2>3. Start(r) \in LoopStates(q)
        BY <2>2 DEF LoopStates, Start
    <2>4. QED
        BY <2>1, <2>3 DEF LoopInv
<1>3. ASSUME NEW c \in S
      PROVE  G(c) \in S /\ (~ Ended(c, n) => G(c).turns = c.turns + 1)
    <2>1. CASE Ended(c, n)
        BY <2>1
    <2>2. CASE ~ Ended(c, n)
        <3>1. G(c) = Turn(c, k) /\ Turn(c, k).turns = c.turns + 1
            BY <2>2 DEF Turn
        <3>2. CASE AtStart(Lists(r), c)
            BY <3>1, <3>2, FirstTurn
        <3>3. CASE Inside(Lists(r), q, WaitingFor(q, k), n, c)
            BY <2>2, <3>1, <3>3, InsideTurn
        <3>4. CASE Round(Lists(r), q, WaitingFor(q, k), n, c)
            BY <2>2, <3>4, RoundEnds
        <3>5. CASE RootWoken(Lists(r), q, WaitingFor(q, k), c)
            BY <2>2, <3>1, <3>5, RootWokenTurn
        <3>6. QED
            BY <3>2, <3>3, <3>4, <3>5 DEF LoopInv
    <2>3. QED
        BY <2>1, <2>2
<1> HIDE DEF S, G
<1>4. Iterations(S, Start(r), F) # {}
    BY <1>2, <1>3, Iteration
<1>5. PICK g \in [Nat -> S] : g[0] = Start(r) /\ \A i \in Nat : g[i + 1] = F[g[i]]
    BY <1>4 DEF Iterations
<1>6. g = Body(g)
    <2>1. ASSUME NEW i \in Nat PROVE g[i] = Body(g)[i]
        <3>1. CASE i = 0
            BY <1>5, <3>1
        <3>2. CASE i # 0
            <4>1. i - 1 \in Nat /\ (i - 1) + 1 = i
                BY <3>2
            <4>2. g[i - 1] \in S /\ g[i] = F[g[i - 1]]
                BY <1>5, <4>1
            <4>3. QED
                BY <3>2, <4>2
        <3>3. QED
            BY <3>1, <3>2
    <2>2. g = [i \in Nat |-> g[i]]
        BY <1>5
    <2>3. QED
        BY <2>1, <2>2
<1>7. w = Body(w)
    BY <1>6
<1> HIDE DEF w
<1>8. w[0] = Start(r)
    BY <1>7
<1>9. ASSUME NEW i \in Nat PROVE w[i + 1] = G(w[i])
    <2>1. i + 1 \in Nat /\ i + 1 # 0 /\ (i + 1) - 1 = i
        OBVIOUS
    <2>2. w[i + 1] = Body(w)[i + 1]
        BY <1>7
    <2>3. QED
        BY <2>1, <2>2
<1> DEFINE A == {i \in Nat : w[i] \in S /\ (Ended(w[i], n) \/ w[i].turns = i)}
<1>10. 0 \in A
    BY <1>2, <1>8
<1>11. ASSUME NEW i \in Nat, i \in A PROVE i + 1 \in A
    <2>1. w[i] \in S /\ w[i + 1] = G(w[i]) /\ G(w[i]) \in S
        BY <1>3, <1>9, <1>11
    <2>2. CASE Ended(w[i], n)
        BY <2>1, <2>2 DEF G
    <2>3. CASE ~ Ended(w[i], n)
        BY <1>3, <1>11, <2>1, <2>3
    <2>4. QED
        BY <2>2, <2>3
<1>12. Nat \subseteq A
    BY <1>10, <1>11, NatSetInduction
<1>13. MaxTurns \in A
    BY <1>12 DEF WalkAssumption, TaskListAssumption
<1>14. QED
    BY <1>1, <1>13 DEF S

\* A walk wakes the members that the abstract one wakes, and never ends exactly
\* when the abstract one does not (futex.c:29-49).
LEMMA WalkOfRing ==
    ASSUME NEW r, NEW q, NEW k, NEW n, WalkAssumption(Lists(r), q, n)
    PROVE  LET c == Loop(r, k, n)[MaxTurns]
               W == WaitingFor(q, k)
           IN /\ c.l \in ListType /\ SameLinks(Lists(r), c.l, Members(q))
              /\ Represents(c.l, Dequeue(q, WalkWakes(q, W, n)))
              /\ c.b = blocked \ WalkWakes(q, W, n)
              /\ Ended(c, n) <=> ~ WalkNeverEnds(q, W, n)
<1> DEFINE c == Loop(r, k, n)[MaxTurns]
           l == Lists(r)
           W == WaitingFor(q, k)
           M == Members(q)
<1>1. /\ c \in LoopStates(q) /\ LoopInv(l, q, W, n, c)
      /\ Ended(c, n) \/ c.turns = MaxTurns
    BY LoopReaches
<1> HIDE DEF c, l, W
<1>2. /\ l \in ListType /\ Represents(l, q) /\ IsFifo(q) /\ IsFiniteSet(M)
      /\ l.root \in M /\ q[l.root] = {} /\ W \subseteq M /\ IsFiniteSet(W)
      /\ n \in Nat \ {0} /\ Cardinality(M) \in Nat /\ Cardinality(M) < MaxTurns
      /\ MaxTurns \in Nat \ {0}
    <2>1. l \in ListType /\ Represents(l, q) /\ M # {} /\ n \in Nat \ {0}
          /\ IsFiniteSet(Task) /\ MaxTurns \in Nat /\ MaxTurns > 2 * Cardinality(Task)
        BY DEF WalkAssumption, TaskListAssumption, l
    <2>2. W \subseteq M
        BY DEF W, WaitingFor
    <2>3. /\ IsFiniteSet(M) /\ IsFiniteSet(W) /\ Cardinality(M) \in Nat
          /\ Cardinality(Task) \in Nat /\ Cardinality(M) <= Cardinality(Task)
        BY <2>1, <2>2, FS_Subset, FS_CardinalityType DEF Represents
    <2>4. QED
        BY <2>1, <2>2, <2>3 DEF Represents
<1>3. c.l \in ListType /\ c.w \in M /\ c.turns \in Nat
    BY <1>1 DEF LoopStates
<1>4. HeadIn(q, W) <=> l.root \in W
    BY <1>2, OneRoot DEF HeadIn
<1>5. CASE AtStart(l, c)
    BY <1>1, <1>2, <1>5 DEF AtStart, Ended
<1>6. CASE Inside(l, q, W, n, c)
    <2> DEFINE R == W \cap q[c.w]
    <2>1. /\ Woken(l, q, R, n, c) /\ c.w # l.root /\ l.root \notin W
          /\ c.turns = Cardinality(q[c.w])
        BY <1>6 DEF Inside
    <2>2. Ended(c, n)
        BY <1>1, <1>2, <1>3, <2>1, Ranks
    <2>3. c.l.root = l.root
        <3>1. /\ l.root \in Members(Dequeue(q, R))
              /\ Dequeue(q, R)[l.root] = {}
            BY <1>2, <2>1, DequeueFifo DEF Dequeue
        <3>2. QED
            BY <2>1, <3>1, OneRoot DEF Woken
    <2>4. Cardinality(R) = n
        BY <2>1, <2>2, <2>3 DEF Ended, Woken
    <2>5. FirstNOf(q, W, n) = R
        <3>1. ASSUME NEW t \in R PROVE Cardinality(q[t] \cap W) < n
            <4>1. t \in M /\ q[t] \subseteq q[c.w] /\ t \notin q[t]
                BY <1>2, <1>3 DEF IsFifo
            <4>2. q[t] \cap W \subseteq R /\ q[t] \cap W # R /\ IsFiniteSet(R)
                BY <1>2, <4>1, FS_Subset
            <4>3. Cardinality(q[t] \cap W) <= Cardinality(R)
                  /\ Cardinality(q[t] \cap W) # Cardinality(R)
                BY <4>2, FS_Subset
            <4>4. Cardinality(q[t] \cap W) \in Nat
                BY <4>2, FS_Subset, FS_CardinalityType
            <4>5. QED
                BY <1>2, <2>4, <4>3, <4>4
        <3>2. ASSUME NEW t \in W \ R PROVE ~ Cardinality(q[t] \cap W) < n
            <4>1. q[c.w] \subseteq q[t]
                BY <1>2, <1>3 DEF IsFifo
            <4>2. R \subseteq q[t] \cap W /\ IsFiniteSet(q[t] \cap W)
                BY <1>2, <4>1, FS_Subset
            <4>3. n <= Cardinality(q[t] \cap W) /\ Cardinality(q[t] \cap W) \in Nat
                BY <2>4, <4>2, FS_Subset, FS_CardinalityType
            <4>4. QED
                BY <1>2, <4>3
        <3>3. QED
            BY <3>1, <3>2 DEF FirstNOf
    <2>6. WalkWakes(q, W, n) = R /\ ~ WalkNeverEnds(q, W, n)
        BY <1>2, <1>4, <2>1, <2>5 DEF WalkWakes, WalkNeverEnds
    <2>7. QED
        BY <1>3, <2>1, <2>2, <2>6 DEF Woken, c, l, W
<1>7. CASE Round(l, q, W, n, c)
    <2>1. Woken(l, q, W, n, c) /\ l.root \notin W
        BY <1>7 DEF Round
    <2>2. Ended(c, n)
        BY <1>7, RoundEnds DEF l
    <2>3. FirstNOf(q, W, n) = W
        <3>1. ASSUME NEW t \in W PROVE Cardinality(q[t] \cap W) < n
            <4>1. t \in M /\ t \notin q[t]
                BY <1>2 DEF IsFifo
            <4>2. q[t] \cap W \subseteq W /\ q[t] \cap W # W
                BY <4>1
            <4>3. /\ Cardinality(q[t] \cap W) <= Cardinality(W)
                  /\ Cardinality(q[t] \cap W) # Cardinality(W)
                  /\ Cardinality(q[t] \cap W) \in Nat /\ Cardinality(W) \in Nat
                BY <1>2, <4>2, FS_Subset, FS_CardinalityType
            <4>4. Cardinality(W) <= n
                BY <2>1 DEF Woken
            <4>5. QED
                BY <1>2, <4>3, <4>4
        <3>2. QED
            BY <3>1 DEF FirstNOf
    <2>4. WalkWakes(q, W, n) = W /\ ~ WalkNeverEnds(q, W, n)
        BY <1>2, <1>4, <2>1, <2>3 DEF WalkWakes, WalkNeverEnds
    <2>5. QED
        BY <1>3, <2>1, <2>2, <2>4 DEF Woken, c, l, W
<1>8. CASE RootWoken(l, q, W, c)
    <2>1. /\ l.root \in W /\ c.l = DequeuedFromRoot(l, l.root) /\ c.b = blocked \ {l.root}
        BY <1>8 DEF RootWoken
    <2>2. FirstOf(q, W) = {l.root}
        <3>1. l.root \in FirstOf(q, W)
            BY <1>2, <2>1 DEF FirstOf
        <3>2. \A t \in FirstOf(q, W) : t = l.root
            BY <1>2, <3>1, FirstIsUnique
        <3>3. QED
            BY <3>1, <3>2
    <2>3. WalkWakes(q, W, n) = {l.root}
        BY <1>2, <1>4, <2>1, <2>2 DEF WalkWakes
    <2>4. Ended(c, n) <=> M # {l.root} \/ n = 1
        BY <1>1, <1>8, RootWokenTurn DEF l, W
    <2>5. Cardinality(M) = 1 <=> M = {l.root}
        <3>1. M = {l.root} => Cardinality(M) = 1
            BY FS_Singleton
        <3>2. ASSUME Cardinality(M) = 1 PROVE M = {l.root}
            BY <1>2, <3>2, FS_Singleton
        <3>3. QED
            BY <3>1, <3>2
    <2>6. WalkNeverEnds(q, W, n) <=> n > 1 /\ M = {l.root}
        BY <1>4, <2>1, <2>5 DEF WalkNeverEnds
    <2>7. Ended(c, n) <=> ~ WalkNeverEnds(q, W, n)
        BY <1>2, <2>4, <2>6
    <2>8. QED
        BY <1>2, <1>3, <2>1, <2>3, <2>7, DequeuedRepresents DEF c, l, W
<1>9. QED
    BY <1>1, <1>5, <1>6, <1>7, <1>8 DEF LoopInv

-----------------------------------------------------------------------------
(* The three queues. *)

Order(r) == FifoOf(root[r], next)

\* Types: a pointer of a queue or of a task is a task or null.
TypeInv ==
    /\ root \in [Queue -> Pointer]
    /\ prev \in [Task -> Pointer] /\ next \in [Task -> Pointer]
    /\ blocked \subseteq Task /\ key \in [Task -> Key]
    /\ walk \in {"done", "endless"}

\* Every queue is a ring that stands for an order of its members.
RingsInv == \A r \in Queue : Represents(Lists(r), Order(r))

\* The queues partition the blocked tasks.
PartitionInv ==
    /\ \A r, s \in Queue : r # s => Members(Order(r)) \cap Members(Order(s)) = {}
    /\ blocked = UNION {Members(Order(r)) : r \in Queue}

\* The inductive invariant.
ListsInv == TypeInv /\ RingsInv /\ PartitionInv

\* An operation on one queue that changes no other links than those of its
\* members and of tasks in no queue.
LEMMA OneQueueChanges ==
    ASSUME TaskListAssumption, ListsInv, NEW r \in Queue, NEW d \in ListType, NEW p,
           Update(r, d), Represents(d, p), NEW X \in SUBSET (Task \ blocked),
           SameLinks(Lists(r), d, Members(Order(r)) \cup X),
           Members(p) \subseteq Members(Order(r)) \cup X,
           blocked' = (blocked \ Members(Order(r))) \cup Members(p)
    PROVE  /\ \A s \in Queue : Order(s)' = IF s = r THEN p ELSE Order(s)
           /\ root' \in [Queue -> Pointer] /\ prev' \in [Task -> Pointer]
           /\ next' \in [Task -> Pointer] /\ blocked' \subseteq Task
           /\ RingsInv' /\ PartitionInv'
<1>1. /\ root' = [root EXCEPT ![r] = d.root] /\ prev' = d.prev /\ next' = d.next
      /\ d.root \in Pointer /\ d.prev \in [Task -> Pointer] /\ d.next \in [Task -> Pointer]
      /\ root \in [Queue -> Pointer] /\ blocked \subseteq Task
      /\ d = [root |-> d.root, prev |-> d.prev, next |-> d.next]
    BY DEF Update, ListsInv, TypeInv, ListType
<1>2. /\ root' \in [Queue -> Pointer] /\ prev' \in [Task -> Pointer]
      /\ next' \in [Task -> Pointer]
    BY <1>1
<1>3. \A s \in Queue : Lists(s)' = [root |-> root'[s], prev |-> prev', next |-> next']
    BY DEF Lists
<1>4. \A s \in Queue : Lists(s)' \in ListType
    BY <1>2, <1>3 DEF ListType
<1>5. ASSUME NEW s \in Queue
      PROVE  Represents(Lists(s)', IF s = r THEN p ELSE Order(s))
    <2>1. CASE s = r
        <3>1. Lists(s)' = d
            BY <1>1, <1>3, <2>1
        <3>2. QED
            BY <2>1, <3>1
    <2>2. CASE s # r
        <3> DEFINE q == Order(s)
                   e == Lists(s)'
        <3>1. Represents(Lists(s), q) /\ Members(q) \subseteq Task \ (Members(Order(r)) \cup X)
            <4>1. Represents(Lists(s), q) /\ Members(q) \subseteq blocked
                BY DEF ListsInv, RingsInv, PartitionInv
            <4>2. Members(q) \cap Members(Order(r)) = {}
                BY <2>2 DEF ListsInv, PartitionInv
            <4>3. QED
                BY <1>1, <4>1, <4>2
        <3>2. e.root = Lists(s).root
            BY <1>1, <1>3, <2>2 DEF Lists
        <3>3. \A t \in Members(q) :
                  e.next[t] = Lists(s).next[t] /\ e.prev[t] = Lists(s).prev[t]
            <4>1. \A t \in Members(q) : d.next[t] = next[t] /\ d.prev[t] = prev[t]
                BY <3>1 DEF SameLinks, Lists
            <4>2. e.next = d.next /\ e.prev = d.prev
                BY <1>1, <1>3
            <4>3. QED
                BY <4>1, <4>2 DEF Lists
        <3> HIDE DEF e, q
        <3>4. Represents(e, q)
            BY <3>1, <3>2, <3>3 DEF Represents
        <3>5. QED
            BY <2>2, <3>4 DEF e, q
    <2>3. QED
        BY <2>1, <2>2
<1>6. \A s \in Queue : Order(s)' = IF s = r THEN p ELSE Order(s)
    <2> SUFFICES ASSUME NEW s \in Queue
                 PROVE  Order(s)' = IF s = r THEN p ELSE Order(s)
        OBVIOUS
    <2> DEFINE e == Lists(s)'
               q == IF s = r THEN p ELSE Order(s)
    <2>1. e \in ListType /\ Represents(e, q) /\ IsFiniteSet(Task) /\ NULL \notin Task
        BY <1>4, <1>5 DEF TaskListAssumption
    <2>2. e.root = root'[s] /\ e.next = next'
        BY <1>3
    <2> HIDE DEF e, q
    <2>3. FifoOf(e.root, e.next) = q
        BY <2>1, OrderOfList
    <2>4. Order(s)' = FifoOf(root'[s], next')
        BY DEF Order
    <2>5. QED
        BY <2>2, <2>3, <2>4 DEF q
<1>7. RingsInv'
    BY <1>5, <1>6 DEF RingsInv
<1>8. PartitionInv'
    <2>1. \A s \in Queue : Members(Order(s)') =
              IF s = r THEN Members(p) ELSE Members(Order(s))
        BY <1>6
    <2>2. /\ \A s, u \in Queue : s # u => Members(Order(s)) \cap Members(Order(u)) = {}
          /\ \A s \in Queue : Members(Order(s)) \subseteq blocked
          /\ \A t \in blocked : \E s \in Queue : t \in Members(Order(s))
        BY DEF ListsInv, PartitionInv
    <2>3. \A s, u \in Queue : s # u => Members(Order(s)') \cap Members(Order(u)') = {}
        BY <2>1, <2>2
    <2>4. \A s \in Queue : Members(Order(s)') \subseteq blocked'
        BY <2>1, <2>2
    <2>5. \A t \in blocked' : \E s \in Queue : t \in Members(Order(s)')
        BY <2>1, <2>2
    <2>6. blocked' = UNION {Members(Order(s)') : s \in Queue}
        BY <2>4, <2>5
    <2>7. QED
        BY <2>3, <2>6 DEF PartitionInv
<1>9. blocked' \subseteq Task
    BY <1>1 DEF Represents
<1>10. QED
    BY <1>2, <1>6, <1>7, <1>8, <1>9

\* The queues as the abstract specification sees them.
Orders == [r \in Queue |-> FifoOf(root[r], next)]

\* The other queues stay as they are.
LEMMA OrdersChange ==
    ASSUME NEW r \in Queue, NEW p,
           \A s \in Queue : Order(s)' = IF s = r THEN p ELSE Order(s)
    PROVE  Orders' = [Orders EXCEPT ![r] = p]
<1>1. Orders' = [s \in Queue |-> Order(s)'] /\ Orders = [s \in Queue |-> Order(s)]
    BY DEF Orders, Order
<1>2. QED
    BY <1>1

\* What the operations need to know of one queue.
LEMMA QueueFacts ==
    ASSUME TaskListAssumption, ListsInv, NEW r \in Queue
    PROVE  /\ Lists(r) \in ListType /\ Lists(r).root = root[r]
           /\ Represents(Lists(r), Order(r)) /\ IsFifo(Order(r))
           /\ Members(Order(r)) \subseteq blocked
           /\ Orders[r] = Order(r)
           /\ root[r] = NULL <=> Members(Order(r)) = {}
<1>1. Lists(r) \in ListType /\ Lists(r).root = root[r]
    BY DEF ListsInv, TypeInv, Lists, ListType
<1>2. Represents(Lists(r), Order(r)) /\ Members(Order(r)) \subseteq blocked
    BY DEF ListsInv, RingsInv, PartitionInv
<1>3. root[r] = NULL <=> Members(Order(r)) = {}
    BY <1>1, <1>2 DEF Represents, TaskListAssumption
<1>4. Orders[r] = Order(r)
    BY DEF Orders, Order
<1>5. QED
    BY <1>1, <1>2, <1>3, <1>4 DEF Represents

\* Going to sleep (read.c:21, sched.c:147, futex.c:24) is the abstract Sleep.
LEMMA SleepStep ==
    ASSUME TaskListAssumption, ListsInv, NEW r \in Queue, NEW t \in Task, NEW k \in Key,
           Sleep(t, r, k)
    PROVE  ListsInv' /\ Abstract!Sleep(t, r, k)
<1> DEFINE d == EnqueuedToRoot(Lists(r), t)
           q == Order(r)
           p == Enqueue(q, t)
<1>1. /\ walk = "done" /\ t \notin blocked /\ Update(r, d)
      /\ blocked' = blocked \cup {t} /\ key' = [key EXCEPT ![t] = k] /\ walk' = walk
    BY DEF Sleep
<1>2. /\ Lists(r) \in ListType /\ Represents(Lists(r), q) /\ IsFifo(q)
      /\ Members(q) \subseteq blocked /\ t \notin Members(q) /\ NULL \notin Task
    BY <1>1, QueueFacts DEF TaskListAssumption
<1>3. /\ d \in ListType /\ Represents(d, p) /\ SameLinks(Lists(r), d, Members(q) \cup {t})
    BY <1>2, EnqueuedRepresents
<1>4. Members(p) = Members(q) \cup {t}
    BY <1>2, EnqueueFifo
<1> HIDE DEF d, p
<1>5. /\ \A s \in Queue : Order(s)' = IF s = r THEN p ELSE Order(s)
      /\ root' \in [Queue -> Pointer] /\ prev' \in [Task -> Pointer]
      /\ next' \in [Task -> Pointer] /\ blocked' \subseteq Task
      /\ RingsInv' /\ PartitionInv'
    <2>1. {t} \in SUBSET (Task \ blocked)
        BY <1>1
    <2>2. blocked' = (blocked \ Members(q)) \cup Members(p)
        BY <1>1, <1>2, <1>4
    <2>3. QED
        BY <1>1, <1>3, <1>4, <2>1, <2>2, OneQueueChanges
<1>6. ListsInv'
    BY <1>1, <1>5 DEF ListsInv, TypeInv
<1>7. Abstract!Sleep(t, r, k)
    <2>1. Orders' = [Orders EXCEPT ![r] = p] /\ Orders[r] = q
        BY <1>5, OrdersChange, QueueFacts
    <2>2. Orders' = [Orders EXCEPT ![r] = Enqueue(Orders[r], t)]
        BY <2>1 DEF p
    <2>3. t \notin UNION {Members(Orders[s]) : s \in Queue}
        BY <1>1, QueueFacts
    <2>4. QED
        BY <1>1, <2>2, <2>3
        DEF Abstract!Sleep, Abstract!Asleep, Abstract!Enqueue, Abstract!Members, Orders,
            Enqueue, Members
<1>8. QED
    BY <1>6, <1>7

\* The members of R leave queue r, and nothing else happens.
LEMMA LeaveStep ==
    ASSUME TaskListAssumption, ListsInv, NEW r \in Queue, NEW d \in ListType, NEW R,
           R \subseteq Members(Order(r)),
           Update(r, d), Represents(d, Dequeue(Order(r), R)),
           SameLinks(Lists(r), d, Members(Order(r))),
           blocked' = blocked \ R, key' = key, walk' \in {"done", "endless"}
    PROVE  ListsInv' /\ Orders' = [Orders EXCEPT ![r] = Dequeue(Orders[r], R)]
<1> DEFINE q == Order(r)
           p == Dequeue(q, R)
<1>1. /\ IsFifo(q) /\ Members(q) \subseteq blocked /\ Orders[r] = q
    BY QueueFacts
<1>2. Members(p) = Members(q) \ R
    BY <1>1, DequeueFifo
<1> HIDE DEF p
<1>3. /\ \A s \in Queue : Order(s)' = IF s = r THEN p ELSE Order(s)
      /\ root' \in [Queue -> Pointer] /\ prev' \in [Task -> Pointer]
      /\ next' \in [Task -> Pointer] /\ blocked' \subseteq Task
      /\ RingsInv' /\ PartitionInv'
    <2>1. {} \in SUBSET (Task \ blocked) /\ Members(q) \cup {} = Members(q)
        OBVIOUS
    <2>2. blocked' = (blocked \ Members(q)) \cup Members(p)
        BY <1>1, <1>2
    <2>3. SameLinks(Lists(r), d, Members(q) \cup {}) /\ Represents(d, p)
          /\ Members(p) \subseteq Members(q) \cup {}
        BY <1>2, <2>1 DEF p
    <2>4. QED
        BY <2>1, <2>2, <2>3, OneQueueChanges
<1>4. ListsInv'
    BY <1>3 DEF ListsInv, TypeInv
<1>5. Orders' = [Orders EXCEPT ![r] = p]
    BY <1>3, OrdersChange
<1>6. QED
    BY <1>1, <1>4, <1>5 DEF p

\* receive_read_data (read.c:28) takes the oldest reader.
LEMMA PopStep ==
    ASSUME TaskListAssumption, ListsInv, NEW r \in Queue, Pop(r)
    PROVE  ListsInv' /\ Abstract!Pop(r)
<1> DEFINE q == Order(r)
           t == root[r]
           d == DequeuedFromRoot(Lists(r), t)
<1>1. /\ walk = "done" /\ t # NULL /\ Update(r, d) /\ blocked' = blocked \ {t}
      /\ key' = key /\ walk' = walk
    BY DEF Pop
<1>2. /\ Lists(r) \in ListType /\ Represents(Lists(r), q) /\ IsFifo(q)
      /\ Lists(r).root = t /\ Members(q) # {} /\ Orders[r] = q
    BY <1>1, QueueFacts
<1>3. t \in Members(q) /\ q[t] = {}
    BY <1>2 DEF Represents
<1>4. d \in ListType /\ Represents(d, Dequeue(q, {t})) /\ SameLinks(Lists(r), d, Members(q))
    BY <1>2, <1>3, DequeuedRepresents
<1>5. FirstOf(q, Members(q)) = {t}
    BY <1>2, <1>3, OneRoot DEF FirstOf, IsFifo
<1> HIDE DEF d
<1>6. ListsInv' /\ Orders' = [Orders EXCEPT ![r] = Dequeue(Orders[r], {t})]
    BY <1>1, <1>3, <1>4, LeaveStep
<1>7. Orders' = [Orders EXCEPT ![r] = Dequeue(Orders[r], FirstOf(Orders[r], Members(Orders[r])))]
    BY <1>2, <1>5, <1>6
<1>8. Abstract!Pop(r)
    BY <1>1, <1>2, <1>7
    DEF Abstract!Pop, Abstract!Dequeue, Abstract!FirstOf, Abstract!Members, Orders,
        Dequeue, FirstOf, Members
<1>9. QED
    BY <1>6, <1>8

\* terminate_current_task (sched.c:97) takes the oldest task that waits for k.
LEMMA RemoveFirstStep ==
    ASSUME TaskListAssumption, ListsInv, NEW r \in Queue, NEW k \in Key, RemoveFirst(r, k)
    PROVE  ListsInv' /\ Abstract!RemoveFirst(r, k)
<1> DEFINE q == Order(r)
           W == WaitingFor(q, k)
           w == Found(Lists(r), k)
           d == DequeuedFromRoot(Lists(r), w)
<1>1. /\ walk = "done" /\ root[r] # NULL /\ w # NULL /\ Update(r, d)
      /\ blocked' = blocked \ {w} /\ key' = key /\ walk' = walk
    BY DEF RemoveFirst
<1>2. /\ Lists(r) \in ListType /\ Represents(Lists(r), q) /\ Members(q) # {}
      /\ Members(q) \subseteq blocked /\ Orders[r] = q
    BY <1>1, QueueFacts
<1>3. w \in Members(q) /\ FirstOf(q, W) = {w}
    BY <1>1, <1>2, FoundIsFirst
<1> HIDE DEF w
<1>4. d \in ListType /\ Represents(d, Dequeue(q, {w})) /\ SameLinks(Lists(r), d, Members(q))
    BY <1>2, <1>3, DequeuedRepresents
<1> HIDE DEF d
<1>5. ListsInv' /\ Orders' = [Orders EXCEPT ![r] = Dequeue(Orders[r], {w})]
    BY <1>1, <1>3, <1>4, LeaveStep
<1>6. W = {t \in Members(Orders[r]) : key[t] = k}
    BY <1>2 DEF WaitingFor
<1>7. Orders' = [Orders EXCEPT ![r] = Dequeue(Orders[r], FirstOf(Orders[r], W))]
    BY <1>2, <1>3, <1>5
<1>8. Abstract!RemoveFirst(r, k)
    BY <1>1, <1>6, <1>7
    DEF Abstract!RemoveFirst, Abstract!Waiting, Abstract!Dequeue, Abstract!FirstOf,
        Abstract!Members, Orders, Dequeue, FirstOf, Members
<1>9. QED
    BY <1>5, <1>8

\* The abstract specification counts with the same operator.
LEMMA SameCardinality == \A S : Abstract!Cardinality(S) = Cardinality(S)
BY DEF Abstract!Cardinality, Cardinality

\* handle_futex_wake (futex.c:29) is the abstract Walk.
LEMMA WalkStep ==
    ASSUME TaskListAssumption, ListsInv, NEW r \in Queue, NEW k \in Key, NEW n \in Count,
           Walk(r, k, n)
    PROVE  ListsInv' /\ Abstract!Walk(r, k, n)
<1> DEFINE q == Order(r)
           W == WaitingFor(q, k)
           c == Loop(r, k, n)[MaxTurns]
           R == WalkWakes(q, W, n)
<1>1. /\ walk = "done" /\ root[r] # NULL /\ n > 0 /\ Update(r, c.l)
      /\ blocked' = c.b /\ key' = key
      /\ walk' = IF Ended(c, n) THEN "done" ELSE "endless"
    BY DEF Walk
<1>2. /\ Lists(r) \in ListType /\ Represents(Lists(r), q) /\ Members(q) # {}
      /\ Members(q) \subseteq blocked /\ Orders[r] = q
    BY <1>1, QueueFacts
<1>3. WalkAssumption(Lists(r), q, n)
    BY <1>1, <1>2 DEF WalkAssumption, TaskListAssumption, ListsInv, TypeInv
<1>4. /\ c.l \in ListType /\ SameLinks(Lists(r), c.l, Members(q))
      /\ Represents(c.l, Dequeue(q, R)) /\ c.b = blocked \ R
      /\ Ended(c, n) <=> ~ WalkNeverEnds(q, W, n)
    BY <1>3, WalkOfRing
<1>5. R \subseteq Members(q)
    BY DEF WalkWakes, FirstOf, FirstNOf, WaitingFor
<1> HIDE DEF c, R
<1>6. ListsInv' /\ Orders' = [Orders EXCEPT ![r] = Dequeue(Orders[r], R)]
    BY <1>1, <1>4, <1>5, LeaveStep
<1>7. W = {t \in Members(Orders[r]) : key[t] = k}
    BY <1>2 DEF WaitingFor
<1> HIDE DEF W, q
<1>8. Orders' = [Orders EXCEPT ![r] = Dequeue(Orders[r], WalkWakes(Orders[r], W, n))]
    BY <1>2, <1>6 DEF R
<1>9. walk' = IF WalkNeverEnds(Orders[r], W, n) THEN "endless" ELSE "done"
    BY <1>1, <1>2, <1>4
<1>10. /\ Abstract!Waiting(r, k) = W
       /\ \A p, S : Abstract!Dequeue(p, S) = Dequeue(p, S)
       /\ \A p, S : Abstract!WalkWakes(p, S, n) = WalkWakes(p, S, n)
       /\ \A p, S : Abstract!WalkNeverEnds(p, S, n) <=> WalkNeverEnds(p, S, n)
    <2>1. Abstract!Waiting(r, k) = W
        BY <1>7 DEF Abstract!Waiting, Abstract!Members, Members, Orders
    <2>2. \A p, S : Abstract!Dequeue(p, S) = Dequeue(p, S)
        BY DEF Abstract!Dequeue, Abstract!Members, Dequeue, Members
    <2>3. \A p, S : Abstract!HeadIn(p, S) <=> HeadIn(p, S)
        BY DEF Abstract!HeadIn, HeadIn
    <2>4. \A p, S : Abstract!FirstOf(p, S) = FirstOf(p, S)
        BY DEF Abstract!FirstOf, FirstOf
    <2>5. \A p, S : Abstract!FirstNOf(p, S, n) = FirstNOf(p, S, n)
        BY SameCardinality DEF Abstract!FirstNOf, FirstNOf
    <2>6. \A p, S : Abstract!WalkWakes(p, S, n) = WalkWakes(p, S, n)
        BY <2>3, <2>4, <2>5 DEF Abstract!WalkWakes, WalkWakes
    <2>7. \A p, S : Abstract!WalkNeverEnds(p, S, n) <=> WalkNeverEnds(p, S, n)
        BY <2>3, SameCardinality
        DEF Abstract!WalkNeverEnds, WalkNeverEnds, Abstract!Members, Members
    <2>8. QED
        BY <2>1, <2>2, <2>6, <2>7
<1>11. Abstract!Walk(r, k, n)
    BY <1>1, <1>8, <1>9, <1>10 DEF Abstract!Walk, Orders
<1>12. QED
    BY <1>6, <1>11

-----------------------------------------------------------------------------
(* The theorems. *)

\* At boot the queues are empty.
LEMMA InitLists == ASSUME TaskListAssumption PROVE Init => ListsInv /\ Abstract!Init
<1> SUFFICES ASSUME Init PROVE ListsInv /\ Abstract!Init
    OBVIOUS
<1>1. /\ root = [r \in Queue |-> NULL] /\ prev = [t \in Task |-> NULL]
      /\ next = [t \in Task |-> NULL] /\ blocked = {} /\ walk = "done"
      /\ key \in [Task -> Key]
    BY DEF Init
<1>2. TypeInv
    BY <1>1 DEF TypeInv, Pointer
<1>3. \A r \in Queue : Order(r) = Empty
    <2>1. \A r \in Queue : Walked(root[r], next) = {}
        BY <1>1 DEF Walked
    <2>2. ASSUME NEW r \in Queue PROVE Order(r) = Empty
        <3>1. Order(r) = [t \in {} |->
                 {Nth(root[r], next)[i] : i \in 0 .. PositionOf(root[r], next, t) - 1}]
            BY <2>1 DEF Order, FifoOf
        <3>2. QED
            BY <3>1 DEF Empty
    <2>3. QED
        BY <2>2
<1>4. Members(Empty) = {} /\ IsFifo(Empty) /\ Empty = [t \in Members(Empty) |-> Empty[t]]
    BY EmptyFifo DEF Empty, Members
<1>5. RingsInv
    BY <1>1, <1>3, <1>4 DEF RingsInv, Represents, Lists
<1>6. PartitionInv
    BY <1>1, <1>3, <1>4 DEF PartitionInv
<1>7. Orders = [r \in Queue |-> Empty]
    BY <1>3 DEF Orders, Order
<1>8. Abstract!Init
    BY <1>1, <1>7 DEF Abstract!Init, Abstract!Empty, Empty, Orders
<1>9. QED
    BY <1>2, <1>5, <1>6, <1>8 DEF ListsInv

\* Every step keeps the invariant and is a step of the abstract specification.
LEMMA NextLists ==
    ASSUME TaskListAssumption, ListsInv, [Next]_vars
    PROVE  ListsInv' /\ [Abstract!Next]_(Abstract!vars)
<1>1. ASSUME NEW r \in Queue, NEW t \in Task, NEW k \in Key, Sleep(t, r, k)
      PROVE  ListsInv' /\ Abstract!Next
    BY <1>1, SleepStep DEF Abstract!Next
<1>2. ASSUME NEW r \in Queue, Pop(r)
      PROVE  ListsInv' /\ Abstract!Next
    BY <1>2, PopStep DEF Abstract!Next
<1>3. ASSUME NEW r \in Queue, NEW k \in Key, RemoveFirst(r, k)
      PROVE  ListsInv' /\ Abstract!Next
    BY <1>3, RemoveFirstStep DEF Abstract!Next
<1>4. ASSUME NEW r \in Queue, NEW k \in Key, NEW n \in Count, Walk(r, k, n)
      PROVE  ListsInv' /\ Abstract!Next
    BY <1>4, WalkStep DEF Abstract!Next
<1>5. CASE UNCHANGED vars
    <2>1. ListsInv'
        BY <1>5 DEF vars, ListsInv, TypeInv, RingsInv, PartitionInv, Order, Lists
    <2>2. UNCHANGED Abstract!vars
        BY <1>5 DEF vars, Abstract!vars
    <2>3. QED
        BY <2>1, <2>2
<1>6. QED
    BY <1>1, <1>2, <1>3, <1>4, <1>5 DEF Next

\* The links of task.h always form one ring per queue, whose order is that of a
\* FIFO queue, and the rings partition the blocked tasks.
THEOREM RingsInvariance == Spec => []ListsInv
<1>1. Init => ListsInv
    BY InitLists, TaskListAssumption
<1>2. ListsInv /\ [Next]_vars => ListsInv'
    BY NextLists, TaskListAssumption
<1>3. QED
    BY <1>1, <1>2, PTL DEF Spec

\* The lists are circular in both directions and link exactly the blocked tasks,
\* each into one list (task.h:66, task.h:74), for every number of tasks and queues.
THEOREM ListsAreWellLinked == Spec => []WellLinked
<1>1. ASSUME ListsInv PROVE WellLinked
    <2>1. ASSUME NEW r \in Queue
          PROVE  Reachable(r) = Members(Order(r)) /\ Represents(Lists(r), Order(r))
        BY <1>1 DEF Reachable, Order, FifoOf, Members, ListsInv, RingsInv
    <2>2. ASSUME NEW r \in Queue, NEW t \in Reachable(r)
          PROVE  /\ next[t] \in Reachable(r) /\ prev[next[t]] = t
                 /\ prev[t] \in Reachable(r) /\ next[prev[t]] = t
        BY <2>1, <2>2 DEF Represents, Lists
    <2>3. QED
        BY <1>1, <2>1, <2>2 DEF WellLinked, ListsInv, PartitionInv
<1>2. QED
    BY <1>1, RingsInvariance, PTL

\* The links and loops implement the FIFO queues of WaitQueues (task.h:52-102,
\* futex.c:29-49, sched.c:92-117): who is in a queue, who leaves it first, whom a
\* futex walk wakes, and exactly when that walk never ends.
THEOREM ListsImplementWaitQueues == Spec => ImplementsWaitQueues
<1>1. Init => Abstract!Init
    BY InitLists, TaskListAssumption
<1>2. ListsInv /\ [Next]_vars => [Abstract!Next]_(Abstract!vars)
    BY NextLists, TaskListAssumption
<1>3. QED
    BY <1>1, <1>2, RingsInvariance, PTL DEF Spec, ImplementsWaitQueues, Abstract!Spec

=============================================================================
