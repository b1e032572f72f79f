------------------------------- MODULE Programs -------------------------------
(***************************************************************************)
(* What a time-sharing kernel promises to the programs of the earlier      *)
(* steps: each runs as if it had the hart and the memory alone.  Its       *)
(* registers and its memory change by its own instructions, one after      *)
(* another, and by what it asked the kernel for; page faults and switches  *)
(* cannot be seen.                                                         *)
(***************************************************************************)
EXTENDS Integers

CONSTANTS Task, Space, Va, Flags, Image, PcNum, Entry, StoreValues, Idle

VARIABLES
    power,      \* "on" or "off"
    curr,       \* the thread that executes, or Idle
    ctx,        \* the registers of a thread
    space,      \* the program a thread belongs to
    live,       \* threads that can run
    reading,    \* threads that sleep until a character comes
    joining,    \* threads that sleep until another one ends
    mem,        \* memory of a program
    out         \* the character this step prints or the value it loads

sleepers == <<reading, joining>>
vars == <<power, curr, ctx, space, live, sleepers, mem, out>>

NoChar == -1
Silent == out' = NoChar

On == power = "on"

\* Any thread that can run may be next; the machine idles if there is none.
Turn == curr' \in (IF live' = {} THEN {Idle} ELSE live')

\* The contexts of all threads but those of W stay as they are.
Keep(W) == \A t \in Task \ W : ctx'[t] = ctx[t]

\* The current thread goes on to its next instruction.
Step(W) ==
    /\ On /\ curr # Idle
    /\ ctx'[curr].pc = (ctx[curr].pc + 1) % PcNum /\ ctx'[curr].sp = ctx[curr].sp
    /\ Keep({curr} \cup W)

\* Memory changes only where a thread of W asked for it.
StoredFor(W) ==
    \A s \in Space, va \in Va :
        mem'[s][va] # mem[s][va] => \E t \in W : space[t] = s /\ ctx'[t].a2 = va

Load ==
    /\ Step({}) /\ ctx'[curr] = [ctx[curr] EXCEPT !.pc = ctx'[curr].pc]
    /\ \E va \in {w \in Va : "R" \in Flags[w]} : out' = mem[space[curr]][va]
    /\ UNCHANGED <<power, curr, space, live, sleepers, mem>>

Store ==
    /\ Step({}) /\ Silent
    /\ \E va \in {w \in Va : "W" \in Flags[w]}, v \in StoreValues :
        mem' = [mem EXCEPT ![space[curr]][va] = v]
    /\ UNCHANGED <<power, curr, space, live, sleepers>>

\* What write(), number 1, prints is in the memory of the caller, if the address is.
PutChar ==
    /\ Step({}) /\ ctx'[curr].a0 = 1
    /\ LET va == ctx'[curr].a2 IN va \in Va => out' = mem[space[curr]][va]
    /\ UNCHANGED <<power, curr, space, live, sleepers, mem>>

\* Any other call: it returns at once ...
Return ==
    /\ Step({}) /\ Silent /\ StoredFor({curr}) /\ Turn
    /\ UNCHANGED <<power, space, live, sleepers>>

\* ... or the caller sleeps ...
Sleep ==
    /\ Step({}) /\ Silent /\ Turn
    /\ live' = live \ {curr}
    /\ \/ reading' = reading \cup {curr} /\ UNCHANGED joining
       \/ joining' = joining \cup {curr} /\ UNCHANGED reading
    /\ UNCHANGED <<power, space, mem>>

\* ... or there is a new thread of the same program, with the function and the
\* stack it was given ...
Fork ==
    /\ Silent /\ Turn
    /\ \E t \in Task \ (live \cup reading \cup joining) :
        /\ Step({t})
        /\ live' = live \cup {t}
        /\ space' = [space EXCEPT ![t] = space[curr]]
        /\ ctx'[t].pc = ctx'[curr].a1 /\ ctx'[t].sp = ctx'[curr].a2
    /\ UNCHANGED <<power, sleepers, mem>>

\* Threads that sleep until the current one ends: waitpid() names it in a1.
Waiting == {t \in joining : ctx[t].a1 = curr}

\* ... or the caller ends, and wakes one of those that wait for it.
End ==
    /\ On /\ curr # Idle /\ Silent /\ Turn
    /\ \E W \in IF Waiting = {} THEN {{}} ELSE {{t} : t \in Waiting} :
        /\ joining' = joining \ W /\ live' = (live \ {curr}) \cup W
        /\ Keep({curr} \cup W) /\ \A t \in W : ctx'[t] = [ctx[t] EXCEPT !.a0 = ctx'[t].a0]
        /\ StoredFor(W)
    /\ UNCHANGED <<power, space, reading>>

\* Characters arrive: each reader finds one where it asked for it.
Input ==
    /\ On /\ Silent
    /\ \E W \in SUBSET reading :
        /\ reading' = reading \ W /\ live' = live \cup W
        /\ Keep(W) /\ \A t \in W : ctx'[t] = [ctx[t] EXCEPT !.a0 = 1]
        /\ StoredFor(W)
    /\ UNCHANGED <<curr, space, joining>>

Switch == On /\ Silent /\ Turn /\ UNCHANGED <<power, ctx, space, live, sleepers, mem>>

Stop == On /\ power' = "off" /\ Silent /\ UNCHANGED <<curr, ctx, space, live, sleepers, mem>>

\* What was printed is gone with the next step.
Clear == Silent /\ UNCHANGED <<power, curr, ctx, space, live, sleepers, mem>>

Init ==
    /\ power = "on" /\ curr = 0
    /\ \A t \in Space : ctx[t].pc = Entry /\ space[t] = t
    /\ live = Space /\ reading = {} /\ joining = {}
    /\ mem = [s \in Space |-> Image]
    /\ out = NoChar

Next == \/ Clear \/ Switch \/ Stop \/ Load \/ Store \/ PutChar
        \/ Return \/ Sleep \/ Fork \/ End \/ Input

Spec == Init /\ [][Next]_vars

=============================================================================
