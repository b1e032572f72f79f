-------------------------------- MODULE Paging --------------------------------
(***************************************************************************)
(* Address spaces of step 13 (src/steps/13/m: main.c, vm.c, elfldr.c,      *)
(* task.c): main() maps each segment of the image to a page of its own     *)
(* without reading it; the first access to a page faults and the handler   *)
(* copies the page from the image and marks it valid.                      *)
(*                                                                         *)
(* User code is a sequence of accesses.  An access is issued and retried   *)
(* until the hart performs it or the handler ends the machine; the timer   *)
(* may switch to another program between any two steps.                    *)
(***************************************************************************)
EXTENDS Sv32

CONSTANTS
    UserNum,        \* USER_NUM, programs started by main()
    Images,         \* the ELF images make may have embedded
    PmpSlots,       \* PMP entries of the hart
    RamPages,       \* pages of RAM from USER_PA on
    Ram,            \* what RAM holds before anything is stored to it
    StoreValues,    \* what user code and the kernel store
    Targets         \* the addresses user code accesses

Space == 0 .. UserNum - 1
Frames == 0 .. RamPages - 1
Cells == 0 .. RamPages * PageSize - 1

ASSUME PagingAssumption ==
    /\ UserNum \in Nat \ {0}
    /\ PmpSlots \in Nat /\ RamPages \in Nat \ {0}
    /\ Ram \in Int /\ StoreValues \subseteq Int /\ Targets \subseteq Word
    /\ \A elf \in Images : /\ elf.ident \in BOOLEAN /\ elf.size \in Nat
                           /\ elf.phdrs \in Seq(ProgramHeaders)

\* A hart has 16 entries, USER_NUM is 1 and u-va.ld has two segments.
ASSUME PmpAssumption == \A elf \in Images : UserNum * Len(elf.phdrs) <= PmpSlots

\* 128 MiB of RAM have more pages than that.
ASSUME RamAssumption == PmpSlots <= RamPages

\* u-va.ld starts every segment on a page of its own, and no ELF image has more
\* content for a segment than memory.  main() does not check either.
Linked(elf) ==
    \A i \in DOMAIN elf.phdrs :
        /\ PAGE_OFFSET(elf.phdrs[i].vaddr) = 0
        /\ elf.phdrs[i].filesz <= elf.phdrs[i].memsz
        /\ \A j \in DOMAIN elf.phdrs :
              PAGE_NUM(elf.phdrs[i].vaddr) = PAGE_NUM(elf.phdrs[j].vaddr) => i = j

ASSUME LinkAssumption == \A elf \in Images : Linked(elf)

VARIABLES
    elf,        \* the image at u_elf_start
    booting,    \* the program and segment main() is at
    power,      \* "boot", "on", "off"
    start,      \* the next page allocate_pa() gives
    pmp,        \* the frame each PMP entry opens, or Off
    pte,        \* second-level entry of a program and a vpn[0]
    ram,        \* user RAM by cell
    curr,       \* the program whose table satp names
    access,     \* the access a program has issued, if any
    seen        \* what the last load or fetch returned

boot == <<elf, booting, start, pmp>>
vars == <<elf, booting, power, start, pmp, pte, ram, curr, access, seen>>

Entries == [valid : BOOLEAN, flags : SUBSET Kinds, ppn : Frames \cup {Off}]

NoAccess == [kind |-> "none", va |-> 0, val |-> 0]
Accesses == [kind : Kinds, va : Targets, val : StoreValues]

-----------------------------------------------------------------------------
(* Boot: main(), one action per turn of the loop in setup_va(). *)

Segment == elf.phdrs[booting.seg]
Booting == power = "boot"

\* check_elf() and init_pte().
CheckElf ==
    /\ Booting /\ booting.seg = 0
    /\ IF check_ehdr(elf)
       THEN /\ booting' = [booting EXCEPT !.seg = 1]
            /\ pte' = [pte EXCEPT ![booting.prog] = init_pte]
            /\ UNCHANGED power
       ELSE power' = "off" /\ UNCHANGED <<booting, pte>>
    /\ UNCHANGED <<elf, start, pmp, ram, curr, access, seen>>

\* Mutant of FreeEntries: the search stops after the first configuration register.
EntriesOfFirstRegister ==
    LET OffEntries == {i \in 0 .. PmpSlots - 1 : pmp[i] = Off}
    IN {i \in OffEntries : i < PmpSlots \div 2 /\ \A j \in OffEntries : i <= j}

\* setup_pmp(): the first entry that is off, if there is one.
FreeEntries ==
    LET OffEntries == {i \in 0 .. PmpSlots - 1 : pmp[i] = Off}
    IN {i \in OffEntries : \A j \in OffEntries : i <= j}

\* Mutant of allocate_pa: the counter is not advanced.
SamePage == start

allocate_pa == start + 1

\* One turn of setup_va(): errors of the callees are not looked at.
SetupVa ==
    /\ Booting /\ booting.seg \in DOMAIN elf.phdrs
    /\ IF PAGE_NUM(PAGE_ALIGN_UP(Segment.memsz)) = 1
       THEN /\ start' = allocate_pa
            /\ pmp' = [i \in DOMAIN pmp |-> IF i \in FreeEntries THEN start ELSE pmp[i]]
            /\ pte' = [pte EXCEPT ![booting.prog] =
                   setup_pte(@, PAGE_ALIGN(Segment.vaddr), Segment.flags, start, FALSE)]
            /\ booting' = [booting EXCEPT !.seg = @ + 1]
            /\ UNCHANGED power
       ELSE power' = "off" /\ UNCHANGED <<start, pmp, pte, booting>>
    /\ UNCHANGED <<elf, ram, curr, access, seen>>

\* create_task(); after the last program, start_schedule() enters the first.
CreateTask ==
    /\ Booting /\ booting.seg = Len(elf.phdrs) + 1
    /\ booting' = [prog |-> booting.prog + 1, seg |-> 0]
    /\ power' = IF booting.prog = UserNum - 1 THEN "on" ELSE "boot"
    /\ UNCHANGED <<elf, start, pmp, pte, ram, curr, access, seen>>

-----------------------------------------------------------------------------
(* The hart in U-mode: translation, then the PMP check. *)

Opened(s, va) == \E i \in DOMAIN pmp : pmp[i] = va_to_pa(pte[s], va)

On == power = "on"
Pending(s) == access[s].kind # "none"

Issue ==
    /\ On /\ ~ Pending(curr)
    /\ \E a \in Accesses : access' = [access EXCEPT ![curr] = a]
    /\ UNCHANGED <<boot, power, pte, ram, curr, seen>>

\* The access succeeds.  As MappedIsOpened, one that translates is not refused by
\* the PMP, so that there is no action for the access fault.
Perform(s) ==
    LET a == access[s] IN
    /\ On /\ curr = s /\ Pending(s)
    /\ Translates(pte[s], a.va, a.kind) /\ Opened(s, a.va)
    /\ IF a.kind = "W"
       THEN ram' = [ram EXCEPT ![CellOf(pte[s], a.va)] = a.val] /\ UNCHANGED seen
       ELSE seen' = ram[CellOf(pte[s], a.va)] /\ UNCHANGED ram
    /\ access' = [access EXCEPT ![s] = NoAccess]
    /\ UNCHANGED <<boot, power, pte, curr>>

\* handle_page_fault(): no segment allows the access, or its page is loaded.
\* The error of load_program_segment() is not looked at.
PageFault(s) ==
    LET a == access[s]
        phdr == get_phdr_from_va(elf, a.va, a.kind)
    IN
    /\ On /\ curr = s /\ Pending(s) /\ ~ Translates(pte[s], a.va, a.kind)
    /\ IF phdr = {}
       THEN power' = "off" /\ UNCHANGED <<pte, ram>>
       ELSE /\ IF va_to_pa(pte[s], a.va) = Off
               THEN UNCHANGED <<pte, ram>>
               ELSE \E ph \in phdr : /\ ram' = LoadedRam(ram, pte[s], ph, a.va)
                                     /\ pte' = [pte EXCEPT ![s] = Validated(@, a.va)]
            /\ UNCHANGED power
    /\ UNCHANGED <<boot, curr, access, seen>>

-----------------------------------------------------------------------------
(* The kernel: task.c, and the switch of address space in schedule(). *)

\* store_8_to_user(): the address belongs to any program, a sleeping reader or
\* joiner.  User code passes addresses of local variables: their page is loaded.
KernelAddresses(s) ==
    {va \in Targets : PteOf(pte[s], va).valid /\ "W" \in PteOf(pte[s], va).flags}

\* Mutant of UserCell: PAGE_OFFSET is forgotten.
FirstCell(s, va) == va_to_pa(pte[s], va) * PageSize

UserCell(s, va) == CellOf(pte[s], va)

KernelStore ==
    /\ On
    /\ \E s \in Space, val \in StoreValues : \E va \in KernelAddresses(s) :
        ram' = [ram EXCEPT ![UserCell(s, va)] = val]
    /\ UNCHANGED <<boot, power, pte, curr, access, seen>>

\* load_8_from_user() for write(), by the current program; what it puts on the
\* console is kept in seen.
KernelLoad ==
    /\ On /\ ~ Pending(curr)
    /\ \E va \in KernelAddresses(curr) :
        seen' = ram[UserCell(curr, va)]
    /\ UNCHANGED <<boot, power, pte, ram, curr, access>>

\* The timer interrupt: schedule() sets satp to the table of the next task.
Schedule ==
    /\ On
    /\ \E s \in Space \ {curr} : curr' = s
    /\ UNCHANGED <<boot, power, pte, ram, access, seen>>

-----------------------------------------------------------------------------
Init ==
    /\ elf \in Images
    /\ booting = [prog |-> 0, seg |-> 0]
    /\ power = "boot"
    /\ start = 0
    /\ pmp = [i \in 0 .. PmpSlots - 1 |-> Off]
    /\ pte = [s \in Space |-> init_pte]
    /\ ram = [c \in Cells |-> Ram]
    /\ curr = 0
    /\ access = [s \in Space |-> NoAccess]
    /\ seen = 0

Boot == CheckElf \/ SetupVa \/ CreateTask
Execute(s) == Perform(s) \/ PageFault(s)

Next ==
    \/ Boot \/ Issue \/ KernelStore \/ KernelLoad \/ Schedule
    \/ \E s \in Space : Execute(s)

Spec == Init /\ [][Next]_vars

\* A time slice is long enough for an instruction.
FairSpec == Spec /\ \A s \in Space : SF_vars(Execute(s))
                 /\ WF_vars(Boot) /\ WF_vars(Schedule)

-----------------------------------------------------------------------------
(* Properties. *)

\* The type of every variable.
TypeOK ==
    /\ elf \in Images
    /\ booting \in [prog : 0 .. UserNum, seg : Nat]
    /\ power \in {"boot", "on", "off"}
    /\ start \in Nat
    /\ pmp \in [0 .. PmpSlots - 1 -> Nat \cup {Off}]
    /\ pte \in [Space -> [Vpn0 -> Entries]]
    /\ ram \in [Cells -> Int]
    /\ curr \in Space
    /\ access \in [Space -> Accesses \cup {NoAccess}]
    /\ seen \in Int

\* No frame is behind two pages, of one program or of two: what one program
\* stores no other can see (allocate_pa and setup_pte, main.c:163, vm.c:72).
FramesDisjoint ==
    \A s, t \in Space, m, n \in Vpn0 :
        pte[s][m].ppn # Off /\ pte[s][m].ppn = pte[t][n].ppn => s = t /\ m = n

\* Once programs run, the PMP opens every frame of every page table: the search
\* for a free entry never came back empty (main.c:156).
MappedIsOpened ==
    On => \A s \in Space, n \in Vpn0 :
             pte[s][n].ppn # Off => \E i \in DOMAIN pmp : pmp[i] = pte[s][n].ppn

\* The memory a program would find if all of it were loaded now.
VirtualMemory ==
    [s \in Space |-> [va \in Targets |->
        IF PteOf(pte[s], va).valid THEN ram[CellOf(pte[s], va)] ELSE load_elf(elf, Ram)[va]]]

Eager == INSTANCE UserMemory WITH mem <- VirtualMemory

\* Loading a page at its first access cannot be told from loading the image
\* before the program starts (main.c:43, elfldr.c:150).
ImplementsUserMemory == Eager!Spec

\* An access comes to an end: it is performed after its page was loaded, or the
\* machine ends; it does not fault for ever (main.c:72).
EveryAccessEnds ==
    \A s \in Space : Pending(s) ~> (~ Pending(s) \/ power = "off")

=============================================================================
