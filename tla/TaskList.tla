------------------------------- MODULE TaskList -------------------------------
(***************************************************************************)
(* The intrusive circular lists of src/steps/13/m/task.h: one pair of      *)
(* links per task, shared by three roots (read.c, sched.c, futex.c), and   *)
(* the loops that search them.  Every operation runs inside a trap handler *)
(* and is atomic.                                                          *)
(***************************************************************************)
EXTENDS Naturals, FiniteSets

CONSTANTS Task, Queue, Key, Count,
          NULL,         \* the null pointer
          MaxTurns      \* loop turns after which a walk counts as endless

ASSUME TaskListAssumption ==
    /\ IsFiniteSet(Task) /\ NULL \notin Task
    /\ Count \subseteq Nat
    /\ MaxTurns \in Nat /\ MaxTurns > 2 * Cardinality(Task)

VARIABLES
    root,       \* root[r]: the oldest member of queue r, or NULL
    prev, next, \* the links of every task
    blocked,    \* the tasks whose state is task_state_blocked
    key,        \* the a1 every task saved
    walk        \* "done", or "endless" once a loop never ends

vars == <<root, prev, next, blocked, key, walk>>

\* The links and the root of one queue, as the functions of task.h see them.
Lists(r) == [root |-> root[r], prev |-> prev, next |-> next]

\* task_single
Single(l, elem) ==
    [l EXCEPT !.prev[elem] = elem, !.next[elem] = elem]

IsSingle(l, elem) == l.prev[elem] = elem /\ l.next[elem] = elem

\* Mutant of Linked: top->prev is not set.
LinkedOnce(l, top, elem) ==
    LET last == l.prev[top] IN
    [l EXCEPT !.next[elem] = top, !.prev[elem] = last, !.next[last] = elem]

\* task_enqueue: elem goes before top, that is behind the last one.
Linked(l, top, elem) ==
    LET last == l.prev[top] IN
    [l EXCEPT !.next[elem] = top, !.prev[elem] = last,
              !.next[last] = elem, !.prev[top] = elem]

\* task_dequeue
Unlinked(l, elem) ==
    [l EXCEPT !.prev[l.next[elem]] = l.prev[elem],
              !.next[l.prev[elem]] = l.next[elem]]

\* task_enqueue_to_root
EnqueuedToRoot(l, t) ==
    IF l.root = NULL THEN [Single(l, t) EXCEPT !.root = t]
    ELSE Linked(l, l.root, t)

\* Mutant of DequeuedFromRoot: the root is not moved on.
RootStays(l, t) ==
    IF IsSingle(l, l.root) THEN [l EXCEPT !.root = NULL] ELSE Unlinked(l, t)

\* task_dequeue_from_root
DequeuedFromRoot(l, t) ==
    IF IsSingle(l, l.root) THEN [l EXCEPT !.root = NULL]
    ELSE [Unlinked(l, t) EXCEPT !.root = IF @ = t THEN l.next[t] ELSE @]

\* One queue and all links have the values of l.
Update(r, l) ==
    /\ root' = [root EXCEPT ![r] = l.root]
    /\ prev' = l.prev
    /\ next' = l.next

-----------------------------------------------------------------------------

(* handle_read, handle_waitpid and handle_futex_wait put the caller to sleep. *)
Sleep(t, r, k) ==
    /\ walk = "done" /\ t \notin blocked
    /\ Update(r, EnqueuedToRoot(Lists(r), t))
    /\ blocked' = blocked \cup {t}
    /\ key' = [key EXCEPT ![t] = k]
    /\ UNCHANGED walk

(* receive_read_data takes the root. *)
Pop(r) ==
    /\ walk = "done" /\ root[r] # NULL
    /\ Update(r, DequeuedFromRoot(Lists(r), root[r]))
    /\ blocked' = blocked \ {root[r]}
    /\ UNCHANGED <<key, walk>>

Hit(b, t, k) == t \in b /\ key[t] = k

\* The loop of terminate_current_task after i turns that did not end it: it looks
\* for a task that waits for k until it is back at the root.
Search(l, k) ==
    LET w[i \in Nat] ==
            IF i = 0 THEN l.root
            ELSE LET t == w[i - 1]
                 IN IF Hit(blocked, t, k) \/ l.next[t] = l.root THEN t ELSE l.next[t]
    IN w

\* The task it finds, or NULL.
Found(l, k) ==
    LET w == Search(l, k)[MaxTurns]
    IN IF Hit(blocked, w, k) THEN w ELSE NULL

(* terminate_current_task wakes the first task that waits for k. *)
RemoveFirst(r, k) ==
    /\ walk = "done" /\ root[r] # NULL
    /\ LET w == Found(Lists(r), k) IN
       /\ w # NULL
       /\ Update(r, DequeuedFromRoot(Lists(r), w))
       /\ blocked' = blocked \ {w}
    /\ UNCHANGED <<key, walk>>

\* The loop of handle_futex_wake: l are the links, b the blocked tasks, w the task
\* it is at, num the tasks it woke and turns the turns it took.
Start(r) == [l |-> Lists(r), b |-> blocked, w |-> root[r], num |-> 0, turns |-> 0]

Ended(c, n) == c.turns > 0 /\ (c.w = c.l.root \/ c.num = n)

\* One turn; the link to the next task is read after a task was removed.
Turn(c, k) ==
    LET hit == Hit(c.b, c.w, k)
        l == IF hit THEN DequeuedFromRoot(c.l, c.w) ELSE c.l
    IN [l |-> l, b |-> IF hit THEN c.b \ {c.w} ELSE c.b, w |-> l.next[c.w],
        num |-> IF hit THEN c.num + 1 ELSE c.num, turns |-> c.turns + 1]

\* The loop after i turns, or when it ended.
Loop(r, k, n) ==
    LET c[i \in Nat] ==
            IF i = 0 THEN Start(r)
            ELSE LET d == c[i - 1] IN IF Ended(d, n) THEN d ELSE Turn(d, k)
    IN c

(* handle_futex_wake. *)
Walk(r, k, n) ==
    /\ walk = "done" /\ root[r] # NULL /\ n > 0
    /\ LET end == Loop(r, k, n)[MaxTurns]
       IN /\ Update(r, end.l)
          /\ blocked' = end.b
          /\ walk' = IF Ended(end, n) THEN "done" ELSE "endless"
    /\ UNCHANGED key

-----------------------------------------------------------------------------

Init ==
    /\ root = [r \in Queue |-> NULL]
    /\ prev = [t \in Task |-> NULL]
    /\ next = [t \in Task |-> NULL]
    /\ blocked = {}
    /\ \E k \in Key : key = [t \in Task |-> k]
    /\ walk = "done"

Next ==
    \E r \in Queue :
        \/ \E t \in Task, k \in Key : Sleep(t, r, k)
        \/ Pop(r)
        \/ \E k \in Key : RemoveFirst(r, k) \/ \E n \in Count : Walk(r, k, n)

Spec == Init /\ [][Next]_vars

-----------------------------------------------------------------------------
(* Properties. *)

\* The i-th task of a walk of a list from its root.
Nth(top, succ) ==
    LET w[i \in Nat] == IF i = 0 THEN top ELSE succ[w[i - 1]] IN w

Walked(top, succ) ==
    IF top = NULL THEN {} ELSE {Nth(top, succ)[i] : i \in 0 .. Cardinality(Task)}

\* The first i at which the walk is at t.
PositionOf(top, succ, t) == CHOOSE i \in 0 .. Cardinality(Task) :
    Nth(top, succ)[i] = t /\ \A j \in 0 .. i - 1 : Nth(top, succ)[j] # t

\* The order that the links of a list stand for.
FifoOf(top, succ) == [t \in Walked(top, succ) |->
    {Nth(top, succ)[i] : i \in 0 .. PositionOf(top, succ, t) - 1}]

Reachable(r) == Walked(root[r], next)

\* The lists of the three queues are circular in both directions, no task is
\* linked into two of them, and together they link exactly the blocked tasks
\* (task.h:66, task.h:74).
WellLinked ==
    /\ \A r \in Queue : \A t \in Reachable(r) :
          /\ next[t] \in Reachable(r) /\ prev[next[t]] = t
          /\ prev[t] \in Reachable(r) /\ next[prev[t]] = t
    /\ \A r, s \in Queue : r # s => Reachable(r) \cap Reachable(s) = {}
    /\ UNION {Reachable(r) : r \in Queue} = blocked

Abstract == INSTANCE WaitQueues WITH queue <- [r \in Queue |-> FifoOf(root[r], next)]

\* The links and loops implement the queues the rest of the kernel is modelled
\* with: who is in a queue, who leaves it first, whom a futex walk wakes and when
\* it never ends (task.h:52-102, futex.c:29-49, sched.c:92-117).
ImplementsWaitQueues == Abstract!Spec

=============================================================================
