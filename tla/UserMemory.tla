------------------------------ MODULE UserMemory ------------------------------
(***************************************************************************)
(* What an address space promises: the program sees the image that was     *)
(* copied to memory before it started, as load_elf() of step 8 does        *)
(* (src/steps/8/m), and its own stores; no other program's stores reach    *)
(* it; an access that no segment allows ends the machine.                  *)
(***************************************************************************)
EXTENDS Elf

CONSTANTS UserNum, Ram, StoreValues, Targets

Space == 0 .. UserNum - 1
NoAccess == [kind |-> "none", va |-> 0, val |-> 0]

VARIABLES
    elf,        \* the image
    power,      \* "boot", "on", "off"
    mem,        \* memory of a program by virtual address
    curr,       \* the program that runs
    access,     \* the access a program has issued
    seen        \* what the last load or fetch returned

vars == <<elf, power, mem, curr, access, seen>>

\* A segment holds the address and allows the access ...
Legal(va, kind) == get_phdr_from_va(elf, va, kind) # {}

\* ... or it lies in the page of such a segment, where protection ends.
InPage(va, kind) ==
    \E i \in DOMAIN elf.phdrs :
        /\ kind \in elf.phdrs[i].flags
        /\ PAGE_NUM(va) = PAGE_NUM(elf.phdrs[i].vaddr)

On == power = "on"
Pending(s) == access[s].kind # "none"

Start ==
    /\ power = "boot"
    /\ power' \in {"on", "off"}
    /\ power' = "on" => check_ehdr(elf)
    /\ UNCHANGED <<elf, mem, curr, access, seen>>

Issue ==
    /\ On /\ ~ Pending(curr)
    /\ \E a \in [kind : Kinds, va : Targets, val : StoreValues] :
        access' = [access EXCEPT ![curr] = a]
    /\ UNCHANGED <<elf, power, curr, seen, mem>>

Perform(s) ==
    LET a == access[s] IN
    /\ On /\ curr = s /\ Pending(s) /\ InPage(a.va, a.kind)
    /\ IF a.kind = "W"
       THEN mem' = [mem EXCEPT ![s][a.va] = a.val] /\ UNCHANGED seen
       ELSE seen' = mem[s][a.va] /\ UNCHANGED mem
    /\ access' = [access EXCEPT ![s] = NoAccess]
    /\ UNCHANGED <<elf, power, curr>>

Refuse(s) ==
    /\ On /\ curr = s /\ Pending(s) /\ ~ Legal(access[s].va, access[s].kind)
    /\ power' = "off"
    /\ UNCHANGED <<elf, mem, curr, access, seen>>

KernelStore ==
    /\ On
    /\ UNCHANGED <<elf, power, curr, access, seen>>
    /\ \E s \in Space, va \in Targets, val \in StoreValues :
        mem' = [mem EXCEPT ![s][va] = val]

KernelLoad ==
    /\ On /\ ~ Pending(curr)
    /\ \E va \in Targets : seen' = mem[curr][va]
    /\ UNCHANGED <<elf, power, mem, curr, access>>

Switch ==
    /\ On
    /\ \E s \in Space \ {curr} : curr' = s
    /\ UNCHANGED <<elf, power, mem, access, seen>>

Init ==
    /\ power = "boot"
    /\ mem = [s \in Space |-> [va \in Targets |-> load_elf(elf, Ram)[va]]]
    /\ curr = 0
    /\ access = [s \in Space |-> NoAccess]
    /\ seen = 0

Next == Start \/ Issue \/ KernelStore \/ KernelLoad \/ Switch
        \/ \E s \in Space : Perform(s) \/ Refuse(s)

Spec == Init /\ [][Next]_vars

=============================================================================
