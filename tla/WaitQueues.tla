------------------------------ MODULE WaitQueues ------------------------------
(***************************************************************************)
(* What the wait queues of the kernel promise to their users: three FIFO   *)
(* queues of tasks, of which a member leaves as the oldest one (read.c), as *)
(* the oldest one with a given key (sched.c, exit) or in a walk that wakes  *)
(* a number of members with a given key (futex.c).                          *)
(*                                                                         *)
(* Kernel.tla is built on these operators; TaskList.tla implements them    *)
(* with the links of src/steps/13/m/task.h.                                *)
(***************************************************************************)
EXTENDS Naturals, FifoQueue

CONSTANTS
    Task,       \* the tasks
    Queue,      \* the roots: read, wait_queue and futex queue
    Key,        \* what a task waits for: the a1 it saved
    Count       \* how many tasks a walk is asked to wake

VARIABLES
    queue,      \* queue[r], the members of root r
    key,        \* key[t], what t waits for
    walk        \* "done", or "endless" once a walk never ends

vars == <<queue, key, walk>>

Init ==
    /\ queue = [r \in Queue |-> Empty]
    /\ key \in [Task -> Key]
    /\ walk = "done"

Asleep == UNION {Members(queue[r]) : r \in Queue}
Waiting(r, k) == {t \in Members(queue[r]) : key[t] = k}

(* A task that is in no queue goes to sleep. *)
Sleep(t, r, k) ==
    /\ walk = "done" /\ t \notin Asleep
    /\ queue' = [queue EXCEPT ![r] = Enqueue(@, t)]
    /\ key' = [key EXCEPT ![t] = k]
    /\ UNCHANGED walk

(* The oldest member leaves. *)
Pop(r) ==
    /\ walk = "done" /\ Members(queue[r]) # {}
    /\ queue' = [queue EXCEPT ![r] = Dequeue(@, FirstOf(@, Members(@)))]
    /\ UNCHANGED <<key, walk>>

(* The oldest member with key k leaves. *)
RemoveFirst(r, k) ==
    /\ walk = "done"
    /\ queue' = [queue EXCEPT ![r] = Dequeue(@, FirstOf(@, Waiting(r, k)))]
    /\ UNCHANGED <<key, walk>>

(* A walk wakes members with key k. *)
Walk(r, k, n) ==
    /\ walk = "done"
    /\ queue' = [queue EXCEPT ![r] = Dequeue(@, WalkWakes(@, Waiting(r, k), n))]
    /\ walk' = IF WalkNeverEnds(queue[r], Waiting(r, k), n) THEN "endless" ELSE "done"
    /\ UNCHANGED key

Next ==
    \E r \in Queue :
        \/ \E t \in Task, k \in Key : Sleep(t, r, k)
        \/ Pop(r)
        \/ \E k \in Key : RemoveFirst(r, k) \/ \E n \in Count : Walk(r, k, n)

Spec == Init /\ [][Next]_vars

=============================================================================
