---------------------------- MODULE GuardedCounter ----------------------------
(***************************************************************************)
(* What thread_mutex_lock() and thread_mutex_unlock() promise to a caller  *)
(* like increment_count(): from one to the other a thread has the counter  *)
(* for itself, and what it stores is one more than what the thread before  *)
(* it left there, although the load and the store are two instructions.    *)
(***************************************************************************)
EXTENDS Integers

CONSTANTS
    Thread, Rounds,
    NoThread        \* the mutex is free

VARIABLES
    holder,     \* the thread that has the mutex
    stored,     \* whether it has stored its increment
    total,      \* the counter
    todo        \* the calls of increment_count each thread has still to finish

section == <<holder, stored>>

Init ==
    /\ section = <<NoThread, FALSE>>
    /\ total = 0 /\ todo = [t \in Thread |-> Rounds]

\* The mutex goes to a thread that has something to do.
thread_mutex_lock(t) ==
    /\ holder = NoThread /\ todo[t] > 0
    /\ section' = <<t, FALSE>>
    /\ UNCHANGED <<total, todo>>

\* The increment, all at once, and once while the mutex is held.
increment ==
    /\ holder \in Thread /\ ~ stored
    /\ section' = <<holder, TRUE>> /\ total' = total + 1
    /\ UNCHANGED todo

\* Its holder gives the mutex back, and only after the increment.
thread_mutex_unlock ==
    /\ holder \in Thread /\ stored
    /\ section' = <<NoThread, FALSE>>
    /\ todo' = [todo EXCEPT ![holder] = @ - 1]
    /\ UNCHANGED total

increment_count == increment \/ thread_mutex_unlock \/ \E t \in Thread : thread_mutex_lock(t)

Spec == Init /\ [][increment_count]_<<section, total, todo>>

=============================================================================
