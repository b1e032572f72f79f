------------------------------ MODULE FifoQueue ------------------------------
(***************************************************************************)
(* The wait queues of the kernel: a circular doubly linked list of tasks   *)
(* whose root points at the oldest member (src/steps/13/m/task.h).  A task  *)
(* is in a queue at most once, so a queue is represented by the relation   *)
(* "is ahead of": q is a function from the members to the set of members   *)
(* that stand ahead of them.  This value is unique for an order of         *)
(* members, and every operation is one expression without recursion.       *)
(* TaskList.tla shows that the pointer code implements these operators.    *)
(***************************************************************************)
EXTENDS Naturals, FiniteSets

\* root == NULL
Empty == [t \in {} |-> {}]

Members(q) == DOMAIN q

\* A new member stands behind all the others: task_enqueue_to_root.
Enqueue(q, t) ==
    [u \in Members(q) \cup {t} |-> IF u = t THEN Members(q) ELSE q[u]]

\* Mutant of Dequeue: next->prev is not set, the others keep the link.
HalfUnlinked(q, W) == [u \in Members(q) \ W |-> q[u]]

\* The members of W leave, the order of the others is kept: task_dequeue_from_root.
Dequeue(q, W) == [u \in Members(q) \ W |-> q[u] \ W]

\* Mutant of FirstOf: the search sees the head of the queue only.
HeadOf(q, W) == {t \in W : q[t] = {}}

\* The members of W that come first among W in a walk from the root.
FirstOf(q, W) == {t \in W : q[t] \cap W = {}}

\* The member of W that comes last among W.
LastOf(q, W) == {t \in W : W \ {t} \subseteq q[t]}

\* The first n members of W in a walk from the root.
FirstNOf(q, W, n) == {t \in W : Cardinality(q[t] \cap W) < n}

\* The number of members a walk from the root passes before it meets t.
Position(q, t) == Cardinality(q[t])

\* q orders its members: "is ahead of" is irreflexive, total and transitive.
IsFifo(q) ==
    /\ \A t \in Members(q) : q[t] \subseteq Members(q) \ {t}
    /\ \A t, u \in Members(q) : t # u => (t \in q[u] <=> u \notin q[t])
    /\ \A t, u, v \in Members(q) : t \in q[u] /\ u \in q[v] => t \in q[v]

\* handle_futex_wake() walks the queue from its root until it meets the root
\* again or has woken n tasks of W.  Waking the root makes the next member the
\* root, which is also the next task of the walk, so the walk ends there.
HeadIn(q, W) == \E t \in W : q[t] = {}

WalkWakes(q, W, n) ==
    IF n <= 0 THEN {}
    ELSE IF HeadIn(q, W) THEN FirstOf(q, W)
    ELSE FirstNOf(q, W, n)

\* Waking the only member leaves the root NULL: a walk that has more tasks to
\* wake then goes round that one member, never meeting the root.
WalkNeverEnds(q, W, n) == n > 1 /\ HeadIn(q, W) /\ Cardinality(Members(q)) = 1

=============================================================================
