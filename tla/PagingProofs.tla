----------------------------- MODULE PagingProofs -----------------------------
(***************************************************************************)
(* Address spaces, for every number of programs, every set of images, page *)
(* size and size of RAM.                                                   *)
(*                                                                         *)
(* Boot hands out frames and PMP entries so that every page of every       *)
(* program has both to itself.  Inv says that all frames in use lie below  *)
(* the counter of allocate_pa(), PmpInv that as many PMP entries are on,   *)
(* and that main() has not yet come to more segments than there are.       *)
(*                                                                         *)
(* Loading on demand then implements UserMemory.  MemoryInv says what a    *)
(* page that is mapped and not loaded is: the page of one segment, with    *)
(* its flags, in a frame that nobody has stored to.                        *)
(***************************************************************************)
EXTENDS Paging, SequenceTheorems, TLAPS

\* A page table as far as the argument needs it.
Tables == [Vpn0 -> [valid : BOOLEAN, flags : SUBSET Kinds, ppn : Nat \cup {Off}]]

AllocatedBelowStart ==
    \A s \in Space, n \in Vpn0 : pte[s][n].ppn < start

Inv ==
    /\ elf \in Images
    /\ start \in Nat
    /\ pte \in [Space -> Tables]
    /\ AllocatedBelowStart
    /\ FramesDisjoint

-----------------------------------------------------------------------------
(* The operations on a table. *)

\* setup_pte() as setup_va() calls it.
Mapped(table, va, flags, frame) == setup_pte(table, va, flags, frame, FALSE)

LEMMA EmptyTable ==
    /\ init_pte \in Tables
    /\ \A n \in Vpn0 : init_pte[n].ppn = Off
BY DEF init_pte, Tables, NoPte

\* setup_pte() changes one entry at most, to the frame it is given.
LEMMA SetupChangesOne ==
    ASSUME NEW table \in Tables, NEW va, NEW flags \in SUBSET Kinds, NEW frame \in Nat
    PROVE  LET new == Mapped(table, va, flags, frame) IN
           /\ new \in Tables
           /\ \A n \in Vpn0 : \/ new[n].ppn = table[n].ppn
                              \/ n = va_vpn0(va) /\ new[n].ppn = frame
<1> DEFINE entry == [valid |-> FALSE, flags |-> flags, ppn |-> frame]
           index == va_vpn0(va)
<1>1. entry \in [valid : BOOLEAN, flags : SUBSET Kinds, ppn : Nat \cup {Off}]
    OBVIOUS
<1>2. entry.ppn = frame
    OBVIOUS
<1>3. [table EXCEPT ![index] = entry] \in Tables
    <2> HIDE DEF entry, index
    <2> QED
        BY <1>1 DEF Tables
<1>4. \A n \in Vpn0 : [table EXCEPT ![index] = entry][n] =
                      IF n = index THEN entry ELSE table[n]
    <2> HIDE DEF entry, index
    <2> QED
        BY DEF Tables
<1>5. \/ Mapped(table, va, flags, frame) = table
      \/ Mapped(table, va, flags, frame) = [table EXCEPT ![index] = entry]
    BY DEF Mapped, setup_pte
<1> HIDE DEF entry, index
<1>6. \A n \in Vpn0 : \/ [table EXCEPT ![index] = entry][n].ppn = table[n].ppn
                      \/ n = index /\ [table EXCEPT ![index] = entry][n].ppn = frame
    BY <1>2, <1>4
<1>7. QED
    BY <1>3, <1>5, <1>6 DEF index

\* Marking an entry valid leaves its frame alone.
LEMMA ValidatedKeepsFrames ==
    ASSUME NEW table \in Tables, NEW va
    PROVE  /\ Validated(table, va) \in Tables
           /\ \A n \in Vpn0 : Validated(table, va)[n].ppn = table[n].ppn
<1> DEFINE index == va_vpn0(va)
<1>1. Validated(table, va) = [table EXCEPT ![index] = [table[index] EXCEPT !.valid = TRUE]]
    BY DEF Validated
<1> HIDE DEF index
<1>2. ASSUME index \in Vpn0
      PROVE  /\ [table[index] EXCEPT !.valid = TRUE] \in
                    [valid : BOOLEAN, flags : SUBSET Kinds, ppn : Nat \cup {Off}]
             /\ [table[index] EXCEPT !.valid = TRUE].ppn = table[index].ppn
    BY <1>2 DEF Tables
<1>3. QED
    BY <1>1, <1>2 DEF Tables

-----------------------------------------------------------------------------
(* The invariant. *)

\* Its last part follows, when only one table changes, from what that table maps.
LEMMA OneTableChanges ==
    ASSUME Inv, NEW s \in Space, pte' \in [Space -> Tables],
           \A t \in Space : t # s => pte'[t] = pte[t],
           elf' = elf, start' \in Nat, start <= start',
           \A m, n \in Vpn0 : pte'[s][m].ppn # Off /\ pte'[s][m].ppn = pte'[s][n].ppn
                             => m = n,
           \A n \in Vpn0 : \/ pte'[s][n].ppn \in {pte[s][n].ppn, Off}
                           \/ pte'[s][n].ppn = start /\ start < start'
    PROVE  Inv'
<1>1. \A t \in Space, n \in Vpn0 : pte[t][n].ppn \in Int /\ pte[t][n].ppn < start
    BY DEF Inv, Tables, Off, AllocatedBelowStart
<1>2. start \in Nat
    BY DEF Inv
<1>3. AllocatedBelowStart'
    <2>1. ASSUME NEW t \in Space, NEW n \in Vpn0 PROVE pte'[t][n].ppn < start'
        BY <1>1, <1>2 DEF Off
    <2>2. QED
        BY <2>1 DEF AllocatedBelowStart
<1>4. FramesDisjoint'
    <2>1. ASSUME NEW t \in Space, NEW u \in Space, NEW m \in Vpn0, NEW n \in Vpn0,
                 pte'[t][m].ppn # Off, pte'[t][m].ppn = pte'[u][n].ppn
          PROVE  t = u /\ m = n
        BY <1>1, <1>2, <2>1 DEF Inv, FramesDisjoint
    <2>2. QED
        BY <2>1 DEF FramesDisjoint
<1>5. QED
    BY <1>3, <1>4 DEF Inv

\* What EXCEPT does to the tables.
LEMMA TableReplaced ==
    ASSUME Inv, NEW s \in Space, NEW new \in Tables, pte' = [pte EXCEPT ![s] = new]
    PROVE  /\ pte' \in [Space -> Tables] /\ pte'[s] = new
           /\ \A t \in Space : t # s => pte'[t] = pte[t]
BY DEF Inv

LEMMA InvInit == Init => Inv
<1> SUFFICES ASSUME Init PROVE Inv
    OBVIOUS
<1>1. pte \in [Space -> Tables] /\ \A s \in Space, n \in Vpn0 : pte[s][n].ppn = Off
    BY EmptyTable DEF Init
<1>2. QED
    BY <1>1 DEF Init, Inv, AllocatedBelowStart, FramesDisjoint, Off

LEMMA CheckElfKeeps == ASSUME Inv, CheckElf PROVE Inv'
<1>1. CASE UNCHANGED <<elf, start, pte>>
    BY <1>1 DEF Inv, AllocatedBelowStart, FramesDisjoint
<1>2. CASE booting.prog \in Space /\ pte' = [pte EXCEPT ![booting.prog] = init_pte]
    <2>1. elf' = elf /\ start' = start /\ start \in Nat
        BY DEF CheckElf, Inv
    <2> DEFINE s == booting.prog
    <2>2. s \in Space /\ pte' = [pte EXCEPT ![s] = init_pte]
        BY <1>2
    <2> HIDE DEF s
    <2>3. /\ pte' \in [Space -> Tables] /\ pte'[s] = init_pte
          /\ \A t \in Space : t # s => pte'[t] = pte[t]
        BY <2>2, EmptyTable, TableReplaced
    <2>4. QED
        BY <2>1, <2>2, <2>3, EmptyTable, OneTableChanges
<1>3. CASE booting.prog \notin Space /\ pte' = [pte EXCEPT ![booting.prog] = init_pte]
    <2>1. pte' = pte
        BY <1>3 DEF Inv
    <2>2. QED
        BY <2>1, <1>1 DEF CheckElf
<1>4. QED
    BY <1>1, <1>2, <1>3 DEF CheckElf

LEMMA SetupVaKeeps == ASSUME Inv, SetupVa PROVE Inv'
<1>1. CASE UNCHANGED <<elf, start, pte>>
    BY <1>1 DEF Inv, AllocatedBelowStart, FramesDisjoint
<1>2. CASE start' # start \/ pte' # pte
    <2> DEFINE s == booting.prog
               va == PAGE_ALIGN(Segment.vaddr)
               new == Mapped(pte[s], va, Segment.flags, start)
    <2>1. /\ elf' = elf /\ start' = start + 1 /\ start \in Nat
          /\ pte' = [pte EXCEPT ![s] = new]
          /\ booting.seg \in DOMAIN elf.phdrs
        BY <1>2 DEF SetupVa, allocate_pa, Inv, Mapped
    <2>2. Segment.flags \in SUBSET Kinds
        <3>1. elf.phdrs \in Seq(ProgramHeaders)
            BY PagingAssumption DEF Inv
        <3>2. Segment \in ProgramHeaders
            BY <3>1, <2>1, ElementOfSeq DEF Segment
        <3>3. QED
            BY <3>2 DEF ProgramHeaders
    <2>3. CASE s \in Space
        <3>1. pte[s] \in Tables
            BY <2>3 DEF Inv
        <3>2. /\ new \in Tables
              /\ \A n \in Vpn0 : \/ new[n].ppn = pte[s][n].ppn
                                 \/ n = va_vpn0(va) /\ new[n].ppn = start
            BY <2>1, <2>2, <3>1, SetupChangesOne
        <3>3. \A n \in Vpn0 : pte[s][n].ppn \in Int /\ pte[s][n].ppn < start
            BY <2>3, <3>1 DEF Inv, AllocatedBelowStart, Tables, Off
        <3>4. \A m, n \in Vpn0 : pte[s][m].ppn # Off /\ pte[s][m].ppn = pte[s][n].ppn
                                 => m = n
            BY <2>3 DEF Inv, FramesDisjoint
        <3> HIDE DEF s, va, new
        <3>5. \A m, n \in Vpn0 : new[m].ppn # Off /\ new[m].ppn = new[n].ppn => m = n
            BY <2>1, <3>2, <3>3, <3>4
        <3>6. /\ pte' \in [Space -> Tables] /\ pte'[s] = new
              /\ \A t \in Space : t # s => pte'[t] = pte[t]
            BY <2>1, <2>3, <3>2, TableReplaced
        <3>7. elf' = elf /\ start' \in Nat /\ start < start' /\ start <= start'
            BY <2>1
        <3>8. \A n \in Vpn0 : \/ pte'[s][n].ppn \in {pte[s][n].ppn, Off}
                              \/ pte'[s][n].ppn = start /\ start < start'
            BY <3>2, <3>6, <3>7
        <3>9. \A m, n \in Vpn0 : pte'[s][m].ppn # Off /\ pte'[s][m].ppn = pte'[s][n].ppn
                                 => m = n
            BY <3>5, <3>6
        <3>10. QED
            BY <2>3, <3>6, <3>7, <3>8, <3>9, OneTableChanges
    <2>4. CASE s \notin Space
        <3> HIDE DEF s, new
        <3>1. pte' = pte
            BY <2>1, <2>4 DEF Inv
        <3>2. \A t \in Space, n \in Vpn0 : pte[t][n].ppn \in Int
            BY DEF Inv, Tables, Off
        <3>3. AllocatedBelowStart'
            BY <2>1, <3>1, <3>2 DEF Inv, AllocatedBelowStart
        <3>4. FramesDisjoint'
            BY <3>1 DEF Inv, FramesDisjoint
        <3>5. elf' \in Images /\ start' \in Nat
            <4> HIDE DEF va
            <4>1. elf' = elf /\ start' = start + 1 /\ start \in Nat
                BY <2>1
            <4>2. QED
                BY <4>1 DEF Inv
        <3>6. QED
            BY <3>1, <3>3, <3>4, <3>5 DEF Inv
    <2>5. QED
        BY <2>3, <2>4
<1>3. QED
    BY <1>1, <1>2 DEF SetupVa

LEMMA PageFaultKeeps == ASSUME Inv, NEW s \in Space, PageFault(s) PROVE Inv'
<1>1. CASE UNCHANGED <<elf, start, pte>>
    BY <1>1 DEF Inv, AllocatedBelowStart, FramesDisjoint
<1>2. CASE pte' # pte
    <2> DEFINE va == access[s].va
               new == Validated(pte[s], va)
    <2>1. pte' = [pte EXCEPT ![s] = new] /\ elf' = elf /\ start' = start /\ start \in Nat
        BY <1>2 DEF PageFault, boot, Inv
    <2>2. pte[s] \in Tables
        BY DEF Inv
    <2>3. new \in Tables /\ \A n \in Vpn0 : new[n].ppn = pte[s][n].ppn
        BY <2>2, ValidatedKeepsFrames
    <2>4. \A m, n \in Vpn0 : pte[s][m].ppn # Off /\ pte[s][m].ppn = pte[s][n].ppn
                             => m = n
        BY DEF Inv, FramesDisjoint
    <2> HIDE DEF va, new
    <2>5. /\ pte' \in [Space -> Tables] /\ pte'[s] = new
          /\ \A t \in Space : t # s => pte'[t] = pte[t]
        BY <2>1, <2>3, TableReplaced
    <2>6. QED
        BY <2>1, <2>3, <2>4, <2>5, OneTableChanges
<1>3. QED
    BY <1>1, <1>2 DEF PageFault, boot

\* Nothing else touches the tables or the counter.
LEMMA OthersKeep ==
    ASSUME Inv, [CreateTask \/ Issue \/ KernelStore \/ KernelLoad \/ Schedule
                 \/ \E s \in Space : Perform(s)]_vars
    PROVE  Inv'
<1>1. UNCHANGED <<elf, start, pte>>
    BY DEF CreateTask, Issue, KernelStore, KernelLoad, Schedule, Perform, vars, boot
<1>2. QED
    BY <1>1 DEF Inv, AllocatedBelowStart, FramesDisjoint

THEOREM Invariance == Spec => []Inv
<1>1. Inv /\ [Next]_vars => Inv'
    BY CheckElfKeeps, SetupVaKeeps, PageFaultKeeps, OthersKeep DEF Next, Boot, Execute
<1>2. QED
    BY InvInit, <1>1, PTL DEF Spec

-----------------------------------------------------------------------------
\* No frame is behind two pages, of one program or of two, whatever images are
\* loaded and however the programs' faults interleave (main.c:163, vm.c:72).
THEOREM FramesAreDisjoint == Spec => []FramesDisjoint
<1>1. Inv => FramesDisjoint
    BY DEF Inv
<1>2. QED
    BY <1>1, Invariance, PTL

-----------------------------------------------------------------------------
(* The PMP: entry i opens frame i, and the entries are enough for all segments *)
(* that main() has come to.                                                    *)

EntriesInOrder == pmp = [i \in 0 .. PmpSlots - 1 |-> IF i < start THEN i ELSE Off]

\* Segments whose turn in setup_va() is over.
Turns == booting.prog * Len(elf.phdrs) + (IF booting.seg = 0 THEN 0 ELSE booting.seg - 1)

PmpInv ==
    /\ elf \in Images
    /\ booting \in [prog : Nat, seg : Nat]
    /\ start \in Nat /\ start <= PmpSlots
    /\ EntriesInOrder
    /\ Booting => booting.prog < UserNum /\ start <= Turns

\* What an image has of segments, also times a number of programs.
LEMMA SegmentsFit ==
    ASSUME PmpInv, Booting
    PROVE  LET l == Len(elf.phdrs) IN
           /\ l \in Nat /\ DOMAIN elf.phdrs = 1 .. l
           /\ booting.prog \in Nat /\ booting.prog * l \in Nat
           /\ (booting.prog + 1) * l = booting.prog * l + l
           /\ booting.prog * l + l <= PmpSlots
<1> DEFINE l == Len(elf.phdrs)
           p == booting.prog
           rest == UserNum - 1 - p
<1>1. l \in Nat /\ DOMAIN elf.phdrs = 1 .. l
    BY PagingAssumption DEF PmpInv
<1>2. p \in Nat /\ UserNum \in Nat /\ rest \in Nat
    BY PagingAssumption DEF PmpInv
<1>3. UserNum * l <= PmpSlots /\ PmpSlots \in Nat
    BY PagingAssumption, PmpAssumption DEF PmpInv
<1>4. UserNum = p + 1 + rest
    BY <1>2
<1> HIDE DEF l, p, rest
<1>5. p * l \in Nat /\ rest * l \in Nat /\ (p + 1) * l = p * l + l
    BY <1>1, <1>2
<1>6. UserNum * l = p * l + l + rest * l
    BY <1>1, <1>2, <1>4
<1>7. p * l + l <= PmpSlots
    BY <1>1, <1>3, <1>5, <1>6
<1>8. QED
    BY <1>1, <1>2, <1>5, <1>7 DEF l, p

LEMMA PmpInit == Init => PmpInv
<1> SUFFICES ASSUME Init PROVE PmpInv
    OBVIOUS
<1>1. Len(elf.phdrs) \in Nat
    BY PagingAssumption DEF Init
<1>2. Turns = 0
    BY <1>1 DEF Init, Turns
<1>3. EntriesInOrder
    BY PagingAssumption DEF Init, EntriesInOrder, Off
<1>4. QED
    BY <1>2, <1>3, PagingAssumption DEF Init, PmpInv, Booting

LEMMA CheckElfKeepsPmp == ASSUME PmpInv, CheckElf PROVE PmpInv'
<1>1. UNCHANGED <<elf, start, pmp>> /\ booting.seg = 0 /\ Booting
    BY DEF CheckElf
<1>2. EntriesInOrder'
    BY <1>1 DEF PmpInv, EntriesInOrder
<1>3. CASE power' = "off" /\ booting' = booting
    BY <1>1, <1>2, <1>3 DEF PmpInv, Booting
<1>4. CASE power' = power /\ booting' = [booting EXCEPT !.seg = 1]
    <2>1. /\ booting' \in [prog : Nat, seg : Nat]
          /\ booting'.prog = booting.prog /\ booting'.seg = 1
        BY <1>4 DEF PmpInv
    <2>2. Turns' = Turns
        BY <1>1, <2>1, SegmentsFit DEF Turns
    <2>3. QED
        BY <1>1, <1>2, <2>1, <2>2 DEF PmpInv
<1>5. QED
    BY <1>3, <1>4 DEF CheckElf

LEMMA SetupVaKeepsPmp == ASSUME PmpInv, SetupVa PROVE PmpInv'
<1>1. elf' = elf /\ booting.seg \in DOMAIN elf.phdrs /\ Booting
    BY DEF SetupVa
<1>2. CASE power' = "off" /\ UNCHANGED <<start, pmp, booting>>
    BY <1>1, <1>2 DEF PmpInv, Booting, EntriesInOrder
<1>3. CASE /\ start' = start + 1
           /\ pmp' = [i \in DOMAIN pmp |-> IF i \in FreeEntries THEN start ELSE pmp[i]]
           /\ booting' = [booting EXCEPT !.seg = @ + 1]
    <2> DEFINE l == Len(elf.phdrs)
    <2>1. /\ l \in Nat /\ booting.seg \in 1 .. l
          /\ booting.prog \in Nat /\ booting.prog * l \in Nat
          /\ booting.prog * l + l <= PmpSlots
        BY <1>1, SegmentsFit
    <2>2. /\ start \in Nat /\ start <= booting.prog * l + booting.seg - 1
          /\ PmpSlots \in Nat
        BY <1>1, <2>1, PagingAssumption DEF PmpInv, Turns
    <2>3. start < PmpSlots
        BY <2>1, <2>2
    <2>4. FreeEntries = {start}
        <3>1. {i \in 0 .. PmpSlots - 1 : pmp[i] = Off} = start .. PmpSlots - 1
            BY <2>2 DEF PmpInv, EntriesInOrder, Off
        <3>2. QED
            BY <2>2, <2>3, <3>1 DEF FreeEntries
    <2>5. EntriesInOrder'
        BY <1>3, <2>2, <2>3, <2>4 DEF PmpInv, EntriesInOrder
    <2>6. /\ booting' \in [prog : Nat, seg : Nat]
          /\ booting'.prog = booting.prog /\ booting'.seg = booting.seg + 1
        BY <1>3 DEF PmpInv
    <2>7. Turns' = booting.prog * l + booting.seg
        BY <1>1, <2>1, <2>6 DEF Turns
    <2>8. start' \in Nat /\ start' <= PmpSlots /\ start' <= Turns'
        BY <1>3, <2>1, <2>2, <2>3, <2>7
    <2>9. booting'.prog < UserNum
        BY <1>1, <2>6 DEF PmpInv
    <2>10. QED
        BY <1>1, <2>5, <2>6, <2>8, <2>9 DEF PmpInv
<1>4. QED
    BY <1>2, <1>3 DEF SetupVa, allocate_pa

LEMMA CreateTaskKeepsPmp == ASSUME PmpInv, CreateTask PROVE PmpInv'
<1> DEFINE l == Len(elf.phdrs)
<1>1. /\ UNCHANGED <<elf, start, pmp>> /\ Booting /\ booting.seg = l + 1
      /\ booting' = [prog |-> booting.prog + 1, seg |-> 0]
      /\ power' = IF booting.prog = UserNum - 1 THEN "on" ELSE "boot"
    BY DEF CreateTask
<1>2. /\ l \in Nat /\ booting.prog \in Nat /\ booting.prog * l \in Nat
      /\ (booting.prog + 1) * l = booting.prog * l + l
    BY <1>1, SegmentsFit
<1>3. EntriesInOrder'
    BY <1>1 DEF PmpInv, EntriesInOrder
<1>4. booting' \in [prog : Nat, seg : Nat] /\ booting'.prog = booting.prog + 1
    BY <1>1, <1>2
<1>5. Turns = booting.prog * l + l
    BY <1>1, <1>2 DEF Turns
<1>6. Turns' = (booting.prog + 1) * l
    BY <1>1, <1>2 DEF Turns
<1>7. Booting' => booting'.prog < UserNum
    BY <1>1, <1>2, <1>4, PagingAssumption DEF PmpInv, Booting
<1>8. QED
    BY <1>1, <1>2, <1>3, <1>4, <1>5, <1>6, <1>7 DEF PmpInv

\* Once programs run, the PMP is left alone.
LEMMA OthersKeepPmp ==
    ASSUME PmpInv, [Issue \/ KernelStore \/ KernelLoad \/ Schedule
                    \/ \E s \in Space : Execute(s)]_vars
    PROVE  PmpInv'
<1>1. UNCHANGED boot /\ (Booting' => Booting)
    BY DEF Issue, KernelStore, KernelLoad, Schedule, Execute, Perform, PageFault, vars,
           boot, Booting
<1>2. QED
    BY <1>1 DEF PmpInv, EntriesInOrder, Turns, boot

THEOREM PmpInvariance == Spec => []PmpInv
<1>1. PmpInv /\ [Next]_vars => PmpInv'
    BY CheckElfKeepsPmp, SetupVaKeepsPmp, CreateTaskKeepsPmp, OthersKeepPmp DEF Next, Boot
<1>2. QED
    BY PmpInit, <1>1, PTL DEF Spec

\* The search for a free PMP entry never comes back empty, so that every frame a
\* program can name is open to it (main.c:156).
THEOREM MappedFramesAreOpened == Spec => []MappedIsOpened
<1>1. Inv /\ PmpInv => MappedIsOpened
    <2> SUFFICES ASSUME Inv, PmpInv, NEW s \in Space, NEW n \in Vpn0, pte[s][n].ppn # Off
                 PROVE  \E i \in DOMAIN pmp : pmp[i] = pte[s][n].ppn
        BY DEF MappedIsOpened
    <2>1. pte[s][n].ppn \in Nat /\ pte[s][n].ppn < start
        BY DEF Inv, AllocatedBelowStart, Tables
    <2>2. /\ pte[s][n].ppn \in DOMAIN pmp
          /\ pmp[pte[s][n].ppn] = pte[s][n].ppn
        BY <2>1, PagingAssumption DEF PmpInv, EntriesInOrder
    <2>3. QED
        BY <2>2
<1>2. QED
    BY <1>1, Invariance, PmpInvariance, PTL

-----------------------------------------------------------------------------
(* Pages and offsets. *)

LEMMA DivMod ==
    ASSUME NEW p \in Nat \ {0}, NEW x \in Nat
    PROVE  x \div p \in Nat /\ x % p \in 0 .. p - 1 /\ x = p * (x \div p) + (x % p)
OBVIOUS

\* A page and an offset determine the cell and the cell determines them.
LEMMA CellsDiffer ==
    ASSUME NEW p \in Nat \ {0}, NEW a \in Nat, NEW b \in Nat,
           NEW r \in 0 .. p - 1, NEW q \in 0 .. p - 1, a * p + r = b * p + q
    PROVE  a = b /\ r = q
<1>1. ASSUME NEW u \in Nat, NEW v \in Nat, NEW d \in Nat, u = v + 1 + d,
             NEW x \in 0 .. p - 1, NEW y \in 0 .. p - 1
      PROVE  u * p + x # v * p + y
    <2>1. u * p = v * p + p + d * p
        BY <1>1
    <2>2. d * p >= 0 /\ d * p \in Int /\ v * p \in Int
        OBVIOUS
    <2>3. QED
        BY <2>1, <2>2
<1>2. ~ (a > b)
    <2> SUFFICES ASSUME a > b PROVE FALSE
        OBVIOUS
    <2>1. a - b - 1 \in Nat /\ a = b + 1 + (a - b - 1)
        OBVIOUS
    <2>2. QED
        BY <2>1, <1>1
<1>3. ~ (b > a)
    <2> SUFFICES ASSUME b > a PROVE FALSE
        OBVIOUS
    <2>1. b - a - 1 \in Nat /\ b = a + 1 + (b - a - 1)
        OBVIOUS
    <2>2. QED
        BY <2>1, <1>1
<1>4. a = b /\ a * p \in Int
    BY <1>2, <1>3
<1>5. QED
    BY <1>4

LEMMA DivUnique ==
    ASSUME NEW p \in Nat \ {0}, NEW q \in Nat, NEW r \in 0 .. p - 1
    PROVE  (p * q + r) \div p = q /\ (p * q + r) % p = r
<1> DEFINE x == p * q + r
<1>1. x \in Nat
    OBVIOUS
<1> HIDE DEF x
<1>2. x \div p \in Nat /\ x % p \in 0 .. p - 1 /\ x = p * (x \div p) + (x % p)
    BY <1>1, DivMod
<1>3. (x \div p) * p + (x % p) = q * p + r
    BY <1>2 DEF x
<1>4. QED
    BY <1>2, <1>3, CellsDiffer DEF x

\* An address is a page and an offset.
LEMMA PageSplit ==
    ASSUME NEW va \in Word
    PROVE  /\ PAGE_NUM(va) \in Nat /\ PAGE_OFFSET(va) \in 0 .. PageSize - 1
           /\ va = PageSize * PAGE_NUM(va) + PAGE_OFFSET(va)
           /\ va_vpn0(va) \in Vpn0 /\ va_vpn1(va) \in Nat
           /\ va_vpn1(va) = 0 => va_vpn0(va) = PAGE_NUM(va)
<1>1. va \in Nat /\ PageSize \in Nat \ {0} /\ VpnNum \in Nat \ {0}
    BY WordAssumption, TableAssumption DEF Word
<1>2. /\ PAGE_NUM(va) \in Nat /\ PAGE_OFFSET(va) \in 0 .. PageSize - 1
      /\ va = PageSize * PAGE_NUM(va) + PAGE_OFFSET(va)
    BY <1>1, DivMod DEF PAGE_NUM, PAGE_OFFSET
<1>3. /\ va_vpn1(va) \in Nat /\ va_vpn0(va) \in 0 .. VpnNum - 1
      /\ PAGE_NUM(va) = VpnNum * va_vpn1(va) + va_vpn0(va)
    BY <1>1, <1>2, DivMod DEF va_vpn0, va_vpn1
<1>4. QED
    BY <1>1, <1>2, <1>3 DEF Vpn0

\* The first address of a page.
LEMMA AlignedPage ==
    ASSUME NEW va \in Word
    PROVE  /\ PAGE_ALIGN(va) \in Word
           /\ PAGE_NUM(PAGE_ALIGN(va)) = PAGE_NUM(va)
           /\ PAGE_OFFSET(PAGE_ALIGN(va)) = 0
           /\ PAGE_OFFSET(va) = 0 => PAGE_ALIGN(va) = va
<1> DEFINE q == PAGE_NUM(va)
           r == PAGE_OFFSET(va)
<1>1. PageSize \in Nat \ {0} /\ q \in Nat /\ r \in 0 .. PageSize - 1
    BY PageSplit, WordAssumption
<1>2. va = PageSize * q + r /\ va \in 0 .. MaxWord /\ MaxWord \in Nat
    BY PageSplit, WordAssumption DEF Word
<1>3. PAGE_ALIGN(va) = va - r
    BY DEF PAGE_ALIGN
<1> HIDE DEF q, r
<1>4. PageSize * q \in Nat
    BY <1>1
<1>5. PAGE_ALIGN(va) = PageSize * q + 0
    BY <1>1, <1>2, <1>3, <1>4
<1>6. (PageSize * q + 0) \div PageSize = q /\ (PageSize * q + 0) % PageSize = 0
    BY <1>1, DivUnique
<1>7. PAGE_ALIGN(va) \in Word
    BY <1>1, <1>2, <1>3, <1>4, <1>5 DEF Word
<1>8. QED
    BY <1>1, <1>2, <1>3, <1>5, <1>6, <1>7 DEF PAGE_NUM, PAGE_OFFSET, q, r

\* What load_program_segment() takes for the offset in the page is zero.
LEMMA OffsetIsZero == ASSUME NEW va \in Word PROVE va_page_offset(va) = 0
<1> DEFINE r == PAGE_OFFSET(va)
<1>1. r \in 0 .. PageSize - 1 /\ PageSize \in Nat \ {0} /\ va \in Int
    BY PageSplit, WordAssumption DEF Word
<1>2. va - PAGE_ALIGN(va) = r
    BY <1>1 DEF PAGE_ALIGN
<1> HIDE DEF r
<1>3. (PageSize * 0 + r) % PageSize = r
    BY <1>1, DivUnique
<1>4. r % PageSize = r
    BY <1>1, <1>3
<1>5. QED
    BY <1>1, <1>2, <1>4 DEF va_page_offset, PAGE_ALIGN, PAGE_OFFSET

\* A segment that boot accepts has at most a page of memory, although
\* PAGE_ALIGN_UP() wraps around.
LEMMA OnePageOfMemory ==
    ASSUME NEW size \in Word, PAGE_NUM(PAGE_ALIGN_UP(size)) = 1
    PROVE  size <= PageSize
<1> DEFINE x == Plus(size, PageSize - 1)
<1> DEFINE m == MaxWord + 1
<1>1. /\ PageSize \in Nat \ {0} /\ PageSize <= MaxWord /\ MaxWord \in Nat
      /\ size \in 0 .. MaxWord /\ m \in Nat \ {0} /\ m = MaxWord + 1
    BY WordAssumption DEF Word
<1> HIDE DEF m
<1>2. CASE size + (PageSize - 1) <= MaxWord
    <2>1. x = size + (PageSize - 1) /\ x \in Word
        <3> DEFINE y == size + (PageSize - 1)
        <3>1. y \in 0 .. m - 1 /\ m * 0 + y = y
            BY <1>1, <1>2
        <3> HIDE DEF y
        <3>2. y % m = y
            BY <1>1, <3>1, DivUnique
        <3>3. x = y /\ y \in 0 .. MaxWord
            BY <1>1, <3>1, <3>2 DEF Plus, m, y
        <3>4. QED
            BY <3>3 DEF Word, y
    <2> HIDE DEF x
    <2>2. PAGE_NUM(x) = 1
        BY <2>1, AlignedPage DEF PAGE_ALIGN_UP, x
    <2>3. x = PageSize * 1 + PAGE_OFFSET(x) /\ PAGE_OFFSET(x) \in 0 .. PageSize - 1
        BY <2>1, <2>2, PageSplit
    <2>4. QED
        BY <1>1, <2>1, <2>3
<1>3. CASE size + (PageSize - 1) > MaxWord
    <2> DEFINE y == size + (PageSize - 1) - m
    <2>1. y \in 0 .. PageSize - 1 /\ y \in 0 .. m - 1
        BY <1>1, <1>3
    <2>2. size + (PageSize - 1) = m * 1 + y
        BY <1>1
    <2> HIDE DEF y
    <2>3. (m * 1 + y) % m = y
        BY <1>1, <2>1, DivUnique
    <2>4a. x = y
        BY <2>2, <2>3 DEF Plus, m
    <2> HIDE DEF x
    <2>4. PageSize * 0 + y = y
        BY <1>1, <2>1
    <2>5. PAGE_NUM(x) = 0
        BY <1>1, <2>1, <2>4a, <2>4, DivUnique DEF PAGE_NUM
    <2>6. x \in Word
        BY <1>1, <2>1, <2>4a DEF Word
    <2>7. QED
        BY <2>5, <2>6, AlignedPage DEF PAGE_ALIGN_UP, x
<1>4. QED
    BY <1>1, <1>2, <1>3

-----------------------------------------------------------------------------
(* Memory. *)

HasFrame(s, n) == pte[s][n].ppn # Off

OnePage(ph) == PAGE_NUM(PAGE_ALIGN_UP(ph.memsz)) = 1

UserTypes ==
    /\ booting.prog \in 0 .. UserNum
    /\ power \in {"boot", "on", "off"}
    /\ ram \in [Cells -> Int]
    /\ curr \in Space
    /\ access \in [Space -> Accesses \cup {NoAccess}]
    /\ seen \in Int

\* Only a page that has a frame can have been loaded.
LoadedHasFrame == \A s \in Space, n \in Vpn0 : pte[s][n].valid => HasFrame(s, n)

\* A page that has a frame is the page of a segment, and has its flags.
Layout ==
    \A s \in Space, n \in Vpn0 : HasFrame(s, n) =>
        \E i \in DOMAIN elf.phdrs : /\ PAGE_NUM(elf.phdrs[i].vaddr) = n
                                    /\ pte[s][n].flags = elf.phdrs[i].flags

\* Nobody has stored to the frame of a page that was not loaded.
NotLoadedYet ==
    \A s \in Space, n \in Vpn0 : HasFrame(s, n) /\ ~ pte[s][n].valid =>
        \A o \in 0 .. PageSize - 1 : ram[pte[s][n].ppn * PageSize + o] = Ram

\* main() loads nothing.
BootLoadsNothing ==
    Booting => /\ \A s \in Space, n \in Vpn0 : ~ pte[s][n].valid
               /\ \A c \in Cells : ram[c] = Ram

\* What main() has checked of the image.
Checked ==
    /\ Booting /\ booting.seg > 0 => check_ehdr(elf)
    /\ Booting => \A i \in DOMAIN elf.phdrs :
                     i < booting.seg \/ booting.prog > 0 => OnePage(elf.phdrs[i])
    /\ On => \A i \in DOMAIN elf.phdrs : OnePage(elf.phdrs[i])

MemoryInv ==
    /\ UserTypes /\ LoadedHasFrame /\ Layout /\ NotLoadedYet
    /\ BootLoadsNothing /\ Checked

\* Together with what is proved above.
AllInv == Inv /\ PmpInv /\ MemoryInv

\* A frame that boot gives out is RAM.
LEMMA FrameIsRam ==
    ASSUME NEW f \in Nat, f < PmpSlots
    PROVE  f \in Frames /\ \A o \in 0 .. PageSize - 1 : f * PageSize + o \in Cells
<1> DEFINE d == RamPages - 1 - f
<1>1. /\ PmpSlots \in Nat /\ RamPages \in Nat /\ PageSize \in Nat \ {0}
      /\ PmpSlots <= RamPages
    BY PagingAssumption, RamAssumption, WordAssumption
<1>2. d \in Nat /\ RamPages = f + 1 + d
    BY <1>1
<1> HIDE DEF d
<1>3. /\ RamPages * PageSize = f * PageSize + PageSize + d * PageSize
      /\ f * PageSize \in Nat /\ d * PageSize \in Nat
    BY <1>1, <1>2
<1>4. \A o \in 0 .. PageSize - 1 : f * PageSize + o \in 0 .. RamPages * PageSize - 1
    BY <1>1, <1>3
<1>5. QED
    BY <1>1, <1>2, <1>4 DEF Frames, Cells

LEMMA FrameBounds ==
    ASSUME AllInv, NEW s \in Space, NEW n \in Vpn0, HasFrame(s, n)
    PROVE  /\ pte[s][n].ppn \in Frames /\ pte[s][n].ppn \in Nat
           /\ \A o \in 0 .. PageSize - 1 : pte[s][n].ppn * PageSize + o \in Cells
<1>1. pte[s][n].ppn \in Nat /\ pte[s][n].ppn < start /\ start \in Nat /\ start <= PmpSlots
    BY DEF AllInv, Inv, PmpInv, Tables, AllocatedBelowStart, HasFrame
<1>2. pte[s][n].ppn < PmpSlots
    BY <1>1, PagingAssumption
<1>3. QED
    BY <1>1, <1>2, FrameIsRam

\* The entry and the cell of an address that has a frame.
LEMMA EntryOf ==
    ASSUME AllInv, NEW s \in Space, NEW va \in Word, va_to_pa(pte[s], va) # Off
    PROVE  LET n == PAGE_NUM(va) IN
           /\ n \in Vpn0 /\ va_vpn0(va) = n /\ va_vpn1(va) = 0
           /\ PteOf(pte[s], va) = pte[s][n] /\ HasFrame(s, n)
           /\ CellOf(pte[s], va) = pte[s][n].ppn * PageSize + PAGE_OFFSET(va)
           /\ CellOf(pte[s], va) \in Cells
<1>1. va_vpn1(va) = 0
    BY DEF va_to_pa, PteOf, NoPte
<1>2. va_vpn0(va) = PAGE_NUM(va) /\ PAGE_NUM(va) \in Vpn0
      /\ PAGE_OFFSET(va) \in 0 .. PageSize - 1
    BY <1>1, PageSplit
<1>3. PteOf(pte[s], va) = pte[s][PAGE_NUM(va)] /\ HasFrame(s, PAGE_NUM(va))
    BY <1>1, <1>2 DEF PteOf, va_to_pa, HasFrame
<1>4. CellOf(pte[s], va) = pte[s][PAGE_NUM(va)].ppn * PageSize + PAGE_OFFSET(va)
    BY <1>3 DEF CellOf, va_to_pa
<1>5. CellOf(pte[s], va) \in Cells
    BY <1>2, <1>3, <1>4, FrameBounds
<1>6. QED
    BY <1>1, <1>2, <1>3, <1>4, <1>5

LEMMA ValidHasFrame ==
    ASSUME AllInv, NEW s \in Space, NEW va \in Word, PteOf(pte[s], va).valid
    PROVE  va_to_pa(pte[s], va) # Off
<1>1. va_vpn1(va) = 0 /\ PteOf(pte[s], va) = pte[s][va_vpn0(va)] /\ va_vpn0(va) \in Vpn0
    BY PageSplit DEF PteOf, NoPte
<1>2. QED
    BY <1>1 DEF AllInv, MemoryInv, LoadedHasFrame, HasFrame, va_to_pa

\* Cells of two different pages, or of two offsets, are different.
LEMMA CellsAreSeparate ==
    ASSUME AllInv, NEW s \in Space, NEW t \in Space, NEW m \in Vpn0, NEW n \in Vpn0,
           HasFrame(s, m), HasFrame(t, n),
           NEW o \in 0 .. PageSize - 1, NEW q \in 0 .. PageSize - 1,
           pte[s][m].ppn * PageSize + o = pte[t][n].ppn * PageSize + q
    PROVE  s = t /\ m = n /\ o = q
<1>1. pte[s][m].ppn \in Nat /\ pte[t][n].ppn \in Nat /\ PageSize \in Nat \ {0}
    BY FrameBounds, WordAssumption
<1> DEFINE a == pte[s][m].ppn
           b == pte[t][n].ppn
<1>2. a \in Nat /\ b \in Nat /\ a * PageSize + o = b * PageSize + q
    BY <1>1
<1> HIDE DEF a, b
<1>3. a = b /\ o = q
    BY <1>1, <1>2, CellsDiffer
<1>4. QED
    BY <1>3 DEF AllInv, Inv, FramesDisjoint, HasFrame, a, b

LEMMA TargetsAreWords == Targets \subseteq Word /\ StoreValues \subseteq Int /\ Ram \in Int
BY PagingAssumption

\* What a store by a program or by the kernel does.
LEMMA StoreEffect ==
    ASSUME AllInv, NEW s \in Space, NEW va \in Targets, NEW val \in Int,
           PteOf(pte[s], va).valid, UNCHANGED <<pte, elf>>,
           ram' = [ram EXCEPT ![CellOf(pte[s], va)] = val]
    PROVE  /\ VirtualMemory' = [VirtualMemory EXCEPT ![s][va] = val]
           /\ ram' \in [Cells -> Int] /\ NotLoadedYet'
<1> DEFINE n == PAGE_NUM(va)
           cell == CellOf(pte[s], va)
<1>1. va \in Word /\ PAGE_OFFSET(va) \in 0 .. PageSize - 1
    BY TargetsAreWords, PageSplit
<1>2. /\ n \in Vpn0 /\ va_vpn1(va) = 0 /\ va_vpn0(va) = n /\ pte[s][n].valid
      /\ HasFrame(s, n) /\ cell \in Cells
      /\ cell = pte[s][n].ppn * PageSize + PAGE_OFFSET(va)
    BY <1>1, ValidHasFrame, EntryOf
<1>3. ram \in [Cells -> Int]
    BY DEF AllInv, MemoryInv, UserTypes
<1>4. ram' = [ram EXCEPT ![cell] = val]
    OBVIOUS
<1>5. ASSUME NEW t \in Space, NEW vb \in Targets, PteOf(pte[t], vb).valid,
             CellOf(pte[t], vb) = cell
      PROVE  t = s /\ vb = va
    <2> DEFINE m == PAGE_NUM(vb)
    <2>1. vb \in Word /\ PAGE_OFFSET(vb) \in 0 .. PageSize - 1
        BY TargetsAreWords, PageSplit
    <2>2. /\ m \in Vpn0 /\ HasFrame(t, m)
          /\ cell = pte[t][m].ppn * PageSize + PAGE_OFFSET(vb)
        BY <1>5, <2>1, ValidHasFrame, EntryOf
    <2> HIDE DEF m, n, cell
    <2>3. t = s /\ m = n /\ PAGE_OFFSET(vb) = PAGE_OFFSET(va)
        BY <1>1, <1>2, <2>1, <2>2, CellsAreSeparate
    <2>4. vb = va
        BY <1>1, <2>1, <2>3, PageSplit DEF m, n
    <2>5. QED
        BY <2>3, <2>4
<1>6. \A t \in Space, vb \in Targets : PteOf(pte[t], vb).valid => CellOf(pte[t], vb) \in Cells
    BY TargetsAreWords, ValidHasFrame, EntryOf
<1>7. PteOf(pte[s], va).valid /\ CellOf(pte[s], va) = cell
    OBVIOUS
<1>8. NotLoadedYet'
    <2>1. ASSUME NEW t \in Space, NEW m \in Vpn0, HasFrame(t, m), ~ pte[t][m].valid,
                 NEW o \in 0 .. PageSize - 1
          PROVE  ram'[pte[t][m].ppn * PageSize + o] = Ram
        <3>1. pte[t][m].ppn * PageSize + o # cell
            BY <1>1, <1>2, <2>1, CellsAreSeparate
        <3>2. ram[pte[t][m].ppn * PageSize + o] = Ram
            BY <2>1 DEF AllInv, MemoryInv, NotLoadedYet
        <3> HIDE DEF cell
        <3>3. QED
            BY <1>3, <1>4, <2>1, <3>1, <3>2, FrameBounds
    <2>2. QED
        BY <2>1 DEF NotLoadedYet, HasFrame
<1> HIDE DEF cell
<1>9. VirtualMemory' = [VirtualMemory EXCEPT ![s][va] = val]
    <2>1. VirtualMemory' = [t \in Space |-> [vb \in Targets |->
              IF PteOf(pte[t], vb).valid THEN ram'[CellOf(pte[t], vb)]
              ELSE load_elf(elf, Ram)[vb]]]
        BY DEF VirtualMemory
    <2>2. ASSUME NEW t \in Space, NEW vb \in Targets
          PROVE  VirtualMemory'[t][vb] = IF t = s /\ vb = va THEN val ELSE VirtualMemory[t][vb]
        <3>1. VirtualMemory'[t][vb] = IF PteOf(pte[t], vb).valid THEN ram'[CellOf(pte[t], vb)]
                                      ELSE load_elf(elf, Ram)[vb]
            BY <2>1
        <3>2. VirtualMemory[t][vb] = IF PteOf(pte[t], vb).valid THEN ram[CellOf(pte[t], vb)]
                                     ELSE load_elf(elf, Ram)[vb]
            BY DEF VirtualMemory
        <3>3. CASE ~ PteOf(pte[t], vb).valid
            BY <1>7, <3>1, <3>2, <3>3
        <3>4. CASE PteOf(pte[t], vb).valid
            BY <1>2, <1>3, <1>4, <1>5, <1>6, <1>7, <3>1, <3>2, <3>4
        <3>5. QED
            BY <3>3, <3>4
    <2> DEFINE old == VirtualMemory
               new == VirtualMemory'
    <2>3. /\ old = [t \in Space |-> old[t]] /\ new = [t \in Space |-> new[t]]
          /\ \A t \in Space : /\ old[t] = [vb \in Targets |-> old[t][vb]]
                               /\ new[t] = [vb \in Targets |-> new[t][vb]]
        BY DEF VirtualMemory
    <2>4. \A t \in Space, vb \in Targets :
             new[t][vb] = IF t = s /\ vb = va THEN val ELSE old[t][vb]
        BY <2>2
    <2> HIDE DEF old, new
    <2>5. ASSUME NEW t \in Space, t # s PROVE new[t] = old[t]
        BY <2>3, <2>4, <2>5
    <2>6. new[s] = [old[s] EXCEPT ![va] = val]
        <3> DEFINE f == old[s]
                   g == new[s]
        <3>1. /\ f = [vb \in Targets |-> f[vb]] /\ g = [vb \in Targets |-> g[vb]]
              /\ \A vb \in Targets : g[vb] = IF vb = va THEN val ELSE f[vb]
            BY <2>3, <2>4
        <3> HIDE DEF f, g
        <3>2. g = [f EXCEPT ![va] = val]
            BY <3>1
        <3>3. QED
            BY <3>2 DEF f, g
    <2>7. new = [old EXCEPT ![s] = [old[s] EXCEPT ![va] = val]]
        BY <2>3, <2>5, <2>6
    <2>8. QED
        BY <2>7 DEF old, new
<1>10. QED
    BY <1>3, <1>4, <1>8, <1>9

-----------------------------------------------------------------------------
(* Loading a page. *)

LEMMA SegmentFacts ==
    ASSUME AllInv, NEW i \in DOMAIN elf.phdrs
    PROVE  LET ph == elf.phdrs[i] IN
           /\ ph \in ProgramHeaders /\ PAGE_OFFSET(ph.vaddr) = 0
           /\ ph.filesz <= ph.memsz
           /\ On => ph.memsz <= PageSize
           /\ \A j \in DOMAIN elf.phdrs :
                 PAGE_NUM(ph.vaddr) = PAGE_NUM(elf.phdrs[j].vaddr) => i = j
<1>1. elf \in Images
    BY DEF AllInv, Inv
<1>2. elf.phdrs \in Seq(ProgramHeaders)
    BY <1>1, PagingAssumption
<1>3. elf.phdrs[i] \in ProgramHeaders
    BY <1>2, ElementOfSeq
<1>4. On => elf.phdrs[i].memsz <= PageSize
    BY <1>3, OnePageOfMemory DEF AllInv, MemoryInv, Checked, OnePage, ProgramHeaders
<1>5. QED
    BY <1>1, <1>3, <1>4, LinkAssumption DEF Linked

LEMMA SequenceIndices ==
    ASSUME AllInv
    PROVE  /\ Len(elf.phdrs) \in Nat
           /\ \A i \in DOMAIN elf.phdrs : i \in Nat /\ i >= 1 /\ i < Len(elf.phdrs) + 1
<1>1. elf.phdrs \in Seq(ProgramHeaders)
    BY PagingAssumption DEF AllInv, Inv
<1>2. Len(elf.phdrs) \in Nat /\ DOMAIN elf.phdrs = 1 .. Len(elf.phdrs)
    BY <1>1
<1>3. QED
    BY <1>2

\* Addresses less than a page above the start of a page are in it.
LEMMA SamePageAs ==
    ASSUME NEW v \in Word, NEW va \in Word, PAGE_OFFSET(v) = 0,
           v <= va, va < v + PageSize
    PROVE  PAGE_NUM(va) = PAGE_NUM(v) /\ va = v + PAGE_OFFSET(va)
<1> DEFINE q == PAGE_NUM(v)
           r == va - v
<1>1. /\ PageSize \in Nat \ {0} /\ q \in Nat /\ v = PageSize * q + 0
      /\ va \in Nat /\ v \in Nat
    BY PageSplit, WordAssumption DEF Word
<1>2. r \in 0 .. PageSize - 1
    BY <1>1
<1>3. va = v + r
    BY <1>1
<1> HIDE DEF q, r
<1>4. va = PageSize * q + r
    BY <1>1, <1>2, <1>3
<1>5. (PageSize * q + r) \div PageSize = q /\ (PageSize * q + r) % PageSize = r
    BY <1>1, <1>2, DivUnique
<1>6. QED
    BY <1>3, <1>4, <1>5 DEF PAGE_NUM, PAGE_OFFSET, q

\* uint32_t addition gives no more than the sum.
LEMMA PlusBelow == ASSUME NEW a \in Word, NEW b \in Word PROVE Plus(a, b) <= a + b
<1> DEFINE x == a + b
           m == MaxWord + 1
<1>1. m \in Nat \ {0} /\ x \in Nat
    BY WordAssumption DEF Word
<1> HIDE DEF x, m
<1>2. x \div m \in Nat /\ x % m \in Nat /\ x = m * (x \div m) + (x % m)
    BY <1>1, DivMod
<1>3. m * (x \div m) >= 0
    BY <1>1, <1>2
<1>4. x % m <= x
    <2> DEFINE y == m * (x \div m)
               z == x % m
    <2>1. y \in Nat /\ z \in Nat /\ x = y + z
        BY <1>1, <1>2
    <2> HIDE DEF y, z
    <2>2. z <= x
        BY <2>1
    <2>3. QED
        BY <2>2 DEF z
<1>5. QED
    BY <1>4 DEF Plus, x, m

\* A segment that holds an address is that of its page.
LEMMA CoveredPage ==
    ASSUME AllInv, On, NEW i \in DOMAIN elf.phdrs, NEW va \in Word, NEW kind,
           Covers(elf.phdrs[i], va, kind)
    PROVE  PAGE_NUM(va) = PAGE_NUM(elf.phdrs[i].vaddr)
<1> DEFINE ph == elf.phdrs[i]
<1>1. /\ ph.vaddr \in Word /\ ph.memsz \in Word /\ PAGE_OFFSET(ph.vaddr) = 0
      /\ ph.memsz <= PageSize
    BY SegmentFacts DEF ProgramHeaders
<1>2. ph.vaddr <= va /\ va < Plus(ph.vaddr, ph.memsz) /\ Plus(ph.vaddr, ph.memsz) \in Int
    <2>1. MaxWord + 1 \in Nat \ {0} /\ ph.vaddr + ph.memsz \in Nat
        BY <1>1, WordAssumption DEF Word
    <2>2. (ph.vaddr + ph.memsz) % (MaxWord + 1) \in Nat
        BY <2>1, DivMod
    <2>3. QED
        BY <1>1, <2>2, WordAssumption DEF Covers, Plus, Word
<1>3. Plus(ph.vaddr, ph.memsz) <= ph.vaddr + ph.memsz
    BY <1>1, PlusBelow
<1>4. va < ph.vaddr + PageSize
    <2> DEFINE v == ph.vaddr
               z == ph.memsz
               e == Plus(v, z)
    <2>1. v \in Int /\ z \in Int /\ e \in Int /\ va \in Int /\ PageSize \in Int
        BY <1>1, <1>2, WordAssumption DEF Word
    <2>2. va < e /\ e <= v + z /\ z <= PageSize
        BY <1>1, <1>2, <1>3
    <2> HIDE DEF v, z, e
    <2>3. va < v + PageSize
        BY <2>1, <2>2
    <2>4. QED
        BY <2>3 DEF v
<1>5. QED
    BY <1>1, <1>2, <1>4, SamePageAs

\* What load_elf() leaves in the page of a segment.
LEMMA ContentOfPage ==
    ASSUME AllInv, On, NEW i \in DOMAIN elf.phdrs, elf.phdrs[i].load,
           NEW vb \in Word, PAGE_NUM(vb) = PAGE_NUM(elf.phdrs[i].vaddr)
    PROVE  load_elf(elf, Ram)[vb] =
               IF PAGE_OFFSET(vb) < elf.phdrs[i].filesz
               THEN Content(elf.phdrs[i].offset + PAGE_OFFSET(vb)) ELSE Ram
<1> DEFINE ph == elf.phdrs[i]
<1>1. /\ ph.vaddr \in Word /\ ph.filesz \in Word /\ ph.memsz \in Word /\ ph.offset \in Word
      /\ PAGE_OFFSET(ph.vaddr) = 0
    BY SegmentFacts DEF ProgramHeaders
<1>2. /\ ph.vaddr = PageSize * PAGE_NUM(vb) + 0
      /\ vb = PageSize * PAGE_NUM(vb) + PAGE_OFFSET(vb)
      /\ PAGE_OFFSET(vb) \in 0 .. PageSize - 1 /\ PAGE_NUM(vb) \in Nat
      /\ PageSize \in Nat
    BY <1>1, PageSplit, WordAssumption
<1>3. vb = ph.vaddr + PAGE_OFFSET(vb) /\ ph.vaddr \in Nat
    <2> DEFINE x == PageSize * PAGE_NUM(vb)
    <2>1. x \in Int
        BY <1>2
    <2> HIDE DEF x
    <2>2. QED
        BY <1>1, <1>2, <2>1 DEF x, Word
<1>4. \A j \in FilledBy(elf, vb) : j = i
    <2> SUFFICES ASSUME NEW j \in FilledBy(elf, vb) PROVE j = i
        OBVIOUS
    <2> DEFINE pj == elf.phdrs[j]
    <2>1. j \in DOMAIN elf.phdrs /\ pj.load /\ pj.vaddr <= vb /\ vb < pj.vaddr + pj.filesz
        BY DEF FilledBy
    <2>2. /\ pj.vaddr \in Word /\ pj.filesz \in Word /\ pj.memsz \in Word
          /\ PAGE_OFFSET(pj.vaddr) = 0 /\ pj.filesz <= pj.memsz /\ pj.memsz <= PageSize
        BY <2>1, SegmentFacts DEF ProgramHeaders
    <2>3. vb < pj.vaddr + PageSize
        BY <2>1, <2>2, <1>2 DEF Word
    <2>4. PAGE_NUM(vb) = PAGE_NUM(pj.vaddr)
        BY <2>1, <2>2, <2>3, SamePageAs
    <2>5. QED
        BY <2>1, <2>4, SegmentFacts
<1>5. i \in FilledBy(elf, vb) <=> PAGE_OFFSET(vb) < ph.filesz
    <2>1. i \in FilledBy(elf, vb) <=> ph.vaddr <= vb /\ vb < ph.vaddr + ph.filesz
        BY DEF FilledBy
    <2>2. PAGE_OFFSET(vb) \in Nat /\ ph.filesz \in Nat
        BY <1>1, <1>2 DEF Word
    <2> DEFINE o == PAGE_OFFSET(vb)
               v == ph.vaddr
               z == ph.filesz
    <2>3. o \in Nat /\ v \in Nat /\ z \in Nat /\ vb = v + o
        BY <1>3, <2>2
    <2> HIDE DEF o, v, z
    <2>4. v <= vb /\ (vb < v + z <=> o < z)
        BY <2>3
    <2>5. QED
        BY <2>1, <2>4 DEF o, v, z
<1>6. load_elf(elf, Ram)[vb] =
          IF FilledBy(elf, vb) = {} THEN Ram
          ELSE LET p == elf.phdrs[CHOOSE j \in FilledBy(elf, vb) : TRUE]
               IN Content(p.offset + vb - p.vaddr)
    BY DEF load_elf
<1>7. CASE PAGE_OFFSET(vb) < ph.filesz
    <2>1. (CHOOSE j \in FilledBy(elf, vb) : TRUE) = i
        BY <1>4, <1>5, <1>7
    <2>2. load_elf(elf, Ram)[vb] = Content(ph.offset + vb - ph.vaddr)
        BY <1>5, <1>6, <1>7, <2>1
    <2>3. ph.offset + vb - ph.vaddr = ph.offset + PAGE_OFFSET(vb)
        BY <1>1, <1>2, <1>3 DEF Word
    <2>4. QED
        BY <1>7, <2>2, <2>3
<1>8. CASE ~ (PAGE_OFFSET(vb) < ph.filesz)
    <2>1. FilledBy(elf, vb) = {}
        BY <1>4, <1>5, <1>8
    <2>2. QED
        BY <1>6, <1>8, <2>1
<1>9. QED
    BY <1>7, <1>8

LEMMA EntryOfAddress ==
    ASSUME NEW table, NEW va \in Word
    PROVE  /\ PteOf(table, va) = IF va_vpn1(va) = 0 THEN table[PAGE_NUM(va)] ELSE NoPte
           /\ va_vpn1(va) = 0 => PAGE_NUM(va) \in Vpn0
BY PageSplit DEF PteOf

\* Entry n of program s becomes valid and everything else in the tables is kept.
OneValidated(s, n) ==
    \A t \in Space, m \in Vpn0 :
        /\ pte'[t][m].ppn = pte[t][m].ppn /\ pte'[t][m].flags = pte[t][m].flags
        /\ pte'[t][m].valid = (pte[t][m].valid \/ (t = s /\ m = n))

LEMMA ValidatedEntry ==
    ASSUME AllInv, NEW s \in Space, NEW va \in Word, va_vpn0(va) \in Vpn0,
           pte' = [pte EXCEPT ![s] = Validated(@, va)]
    PROVE  pte' \in [Space -> Tables] /\ OneValidated(s, va_vpn0(va))
<1> DEFINE n == va_vpn0(va)
           old == pte[s]
           new == [old EXCEPT ![n].valid = TRUE]
<1>1. pte \in [Space -> Tables] /\ old \in Tables /\ n \in Vpn0
    BY DEF AllInv, Inv
<1>2. pte' = [pte EXCEPT ![s] = new]
    BY DEF Validated
<1> HIDE DEF n, old
<1>3. old[n] \in [valid : BOOLEAN, flags : SUBSET Kinds, ppn : Nat \cup {Off}]
    BY <1>1 DEF Tables
<1>4. [old[n] EXCEPT !.valid = TRUE] \in [valid : BOOLEAN, flags : SUBSET Kinds, ppn : Nat \cup {Off}]
    BY <1>3
<1>5. new \in Tables
    BY <1>1, <1>4 DEF Tables
<1>6. \A m \in Vpn0 : /\ new[m].ppn = old[m].ppn /\ new[m].flags = old[m].flags
                      /\ new[m].valid = (old[m].valid \/ m = n)
    <2> SUFFICES ASSUME NEW m \in Vpn0
                 PROVE  /\ new[m].ppn = old[m].ppn /\ new[m].flags = old[m].flags
                        /\ new[m].valid = (old[m].valid \/ m = n)
        OBVIOUS
    <2>1. CASE m = n
        BY <1>1, <1>3, <2>1 DEF Tables
    <2>2. CASE m # n
        <3>1. new[m] = old[m] /\ old[m].valid \in BOOLEAN
            BY <1>1, <2>2 DEF Tables
        <3>2. QED
            BY <2>2, <3>1
    <2>3. QED
        BY <2>1, <2>2
<1> HIDE DEF new
<1>7. pte' \in [Space -> Tables]
    BY <1>1, <1>2, <1>5
<1>8. pte'[s] = new /\ \A t \in Space : t # s => pte'[t] = pte[t]
    BY <1>1, <1>2
<1>9. \A t \in Space, m \in Vpn0 : pte[t][m].valid \in BOOLEAN
    BY <1>1 DEF Tables
<1>10. ASSUME NEW t \in Space, NEW m \in Vpn0
       PROVE  /\ pte'[t][m].ppn = pte[t][m].ppn /\ pte'[t][m].flags = pte[t][m].flags
              /\ pte'[t][m].valid = (pte[t][m].valid \/ (t = s /\ m = n))
    <2>1. CASE t = s
        BY <1>6, <1>8, <2>1 DEF old
    <2>2. CASE t # s
        BY <1>8, <1>9, <2>2
    <2>3. QED
        BY <2>1, <2>2
<1>11. QED
    BY <1>7, <1>10 DEF n, OneValidated

\* A fault that finds the segment and a frame: the page was mapped for the segment
\* and not loaded.
LEMMA FaultingEntry ==
    ASSUME AllInv, On, NEW s \in Space, NEW va \in Word, NEW kind \in Kinds,
           NEW i \in DOMAIN elf.phdrs, Covers(elf.phdrs[i], va, kind),
           va_to_pa(pte[s], va) # Off, ~ Translates(pte[s], va, kind)
    PROVE  LET n == PAGE_NUM(va) IN
           /\ n \in Vpn0 /\ va_vpn0(va) = n /\ HasFrame(s, n) /\ ~ pte[s][n].valid
           /\ n = PAGE_NUM(elf.phdrs[i].vaddr)
           /\ va_to_pa(pte[s], va) = pte[s][n].ppn
<1> DEFINE n == PAGE_NUM(va)
<1>1. /\ n \in Vpn0 /\ va_vpn0(va) = n /\ HasFrame(s, n)
      /\ PteOf(pte[s], va) = pte[s][n]
    BY EntryOf
<1>2. n = PAGE_NUM(elf.phdrs[i].vaddr)
    BY CoveredPage
<1> HIDE DEF n
<1>3. PICK j \in DOMAIN elf.phdrs : /\ PAGE_NUM(elf.phdrs[j].vaddr) = n
                                    /\ pte[s][n].flags = elf.phdrs[j].flags
    BY <1>1 DEF AllInv, MemoryInv, Layout
<1>4. j = i
    BY <1>2, <1>3, SegmentFacts
<1>5. kind \in pte[s][n].flags
    BY <1>3, <1>4 DEF Covers
<1>6. ~ pte[s][n].valid
    BY <1>1, <1>5 DEF Translates
<1>7. QED
    BY <1>1, <1>2, <1>6 DEF n, va_to_pa

\* The cells of the page that is loaded, and of all others.
LEMMA LoadedPage ==
    ASSUME AllInv, On, NEW s \in Space, NEW va \in Word, NEW kind \in Kinds,
           NEW i \in DOMAIN elf.phdrs, Covers(elf.phdrs[i], va, kind),
           va_to_pa(pte[s], va) # Off, ~ Translates(pte[s], va, kind),
           ram' = LoadedRam(ram, pte[s], elf.phdrs[i], va)
    PROVE  LET n == PAGE_NUM(va) IN
           /\ ram' \in [Cells -> Int]
           /\ \A o \in 0 .. PageSize - 1 :
                 ram'[pte[s][n].ppn * PageSize + o] =
                     IF o < elf.phdrs[i].filesz THEN Content(elf.phdrs[i].offset + o) ELSE Ram
           /\ \A t \in Space, m \in Vpn0, o \in 0 .. PageSize - 1 :
                 HasFrame(t, m) /\ ~ (t = s /\ m = n) =>
                     ram'[pte[t][m].ppn * PageSize + o] = ram[pte[t][m].ppn * PageSize + o]
<1> DEFINE n == PAGE_NUM(va)
           ph == elf.phdrs[i]
           f == pte[s][n].ppn
           base == f * PageSize
           size == ph.filesz
<1>1. /\ n \in Vpn0 /\ HasFrame(s, n) /\ ~ pte[s][n].valid
      /\ va_to_pa(pte[s], va) = f
    BY FaultingEntry
<1>2. f \in Nat /\ base \in Nat /\ PageSize \in Nat \ {0}
      /\ \A o \in 0 .. PageSize - 1 : base + o \in Cells
    BY <1>1, FrameBounds, WordAssumption
<1>3. size \in Nat /\ size <= PageSize /\ ph.offset \in Nat
    BY SegmentFacts, WordAssumption DEF ProgramHeaders, Word
<1>4. va_page_offset(va) = 0 /\ CopySize(ph, va) = size
    BY <1>2, <1>3, OffsetIsZero DEF CopySize
<1>5. ram \in [Cells -> Int] /\ Cells \subseteq Int
    BY DEF AllInv, MemoryInv, UserTypes, Cells
<1>6. ram' = [c \in Cells |-> IF c - base \in 0 .. size - 1
                              THEN Content(ph.offset + 0 + (c - base)) ELSE ram[c]]
    BY <1>1, <1>4, <1>5 DEF LoadedRam
<1>7. \A c \in Cells : c \in Int /\ ram[c] \in Int /\ Content(ph.offset + 0 + (c - base)) \in Int
    BY <1>2, <1>3, <1>5 DEF Content
<1> HIDE DEF base, size, ph, f, n
<1>8. ram' \in [Cells -> Int]
    BY <1>6, <1>7
<1>9. ASSUME NEW o \in 0 .. PageSize - 1
      PROVE  ram'[base + o] = IF o < size THEN Content(ph.offset + o) ELSE Ram
    <2>1. base + o \in Cells /\ o \in Nat /\ (base + o) - base = o
        BY <1>2
    <2>2. ram[base + o] = Ram
        BY <1>1 DEF AllInv, MemoryInv, NotLoadedYet, base, f
    <2>3. o \in 0 .. size - 1 <=> o < size
        BY <1>3, <2>1
    <2>4. ram'[base + o] = IF o \in 0 .. size - 1 THEN Content(ph.offset + 0 + o) ELSE Ram
        BY <1>6, <2>1, <2>2
    <2>5. ph.offset + 0 + o = ph.offset + o
        BY <1>3, <2>1
    <2>6. QED
        BY <2>3, <2>4, <2>5
<1>10. ASSUME NEW t \in Space, NEW m \in Vpn0, NEW o \in 0 .. PageSize - 1,
              HasFrame(t, m), ~ (t = s /\ m = n)
       PROVE  ram'[pte[t][m].ppn * PageSize + o] = ram[pte[t][m].ppn * PageSize + o]
    <2> DEFINE c == pte[t][m].ppn * PageSize + o
    <2>1. c \in Cells
        BY <1>10, FrameBounds
    <2>2. \A q \in 0 .. PageSize - 1 : c # base + q
        BY <1>1, <1>10, CellsAreSeparate DEF base, f
    <2> HIDE DEF c
    <2>3. c - base \notin 0 .. size - 1
        <3> SUFFICES ASSUME c - base \in 0 .. size - 1 PROVE FALSE
            OBVIOUS
        <3>1. c - base \in 0 .. PageSize - 1 /\ c = base + (c - base)
            BY <1>2, <1>3, <1>7, <2>1
        <3>2. QED
            BY <2>2, <3>1
    <2>4. ram'[c] = ram[c]
        BY <1>6, <2>1, <2>3
    <2>5. QED
        BY <2>4 DEF c
<1>11. QED
    BY <1>8, <1>9, <1>10 DEF base, size, ph, f, n

\* Loading a page does not change what the program finds in memory.
LEMMA LoadEffect ==
    ASSUME AllInv, On, NEW s \in Space, NEW va \in Word, NEW kind \in Kinds,
           NEW i \in DOMAIN elf.phdrs, Covers(elf.phdrs[i], va, kind),
           va_to_pa(pte[s], va) # Off, ~ Translates(pte[s], va, kind), elf' = elf,
           ram' = LoadedRam(ram, pte[s], elf.phdrs[i], va),
           pte' = [pte EXCEPT ![s] = Validated(@, va)]
    PROVE  /\ VirtualMemory' = VirtualMemory
           /\ ram' \in [Cells -> Int]
           /\ LoadedHasFrame' /\ Layout' /\ NotLoadedYet'
<1> DEFINE n == PAGE_NUM(va)
           ph == elf.phdrs[i]
<1>1. /\ n \in Vpn0 /\ va_vpn0(va) = n /\ HasFrame(s, n) /\ ~ pte[s][n].valid
      /\ n = PAGE_NUM(ph.vaddr) /\ ph.load
    BY FaultingEntry DEF Covers
<1>2. \A t \in Space, m \in Vpn0 :
         /\ pte'[t][m].ppn = pte[t][m].ppn /\ pte'[t][m].flags = pte[t][m].flags
         /\ pte'[t][m].valid = (pte[t][m].valid \/ (t = s /\ m = n))
         /\ pte[t][m].valid \in BOOLEAN
    <2>1. \A t \in Space, m \in Vpn0 : pte[t][m].valid \in BOOLEAN
        BY DEF AllInv, Inv, Tables
    <2>2. OneValidated(s, n)
        BY <1>1, ValidatedEntry
    <2> HIDE DEF n
    <2>3. QED
        BY <2>1, <2>2 DEF OneValidated
<1>3. ram' \in [Cells -> Int]
    BY LoadedPage
<1>4. \A o \in 0 .. PageSize - 1 :
         ram'[pte[s][n].ppn * PageSize + o] =
             IF o < ph.filesz THEN Content(ph.offset + o) ELSE Ram
    BY LoadedPage
<1>5. \A t \in Space, m \in Vpn0, o \in 0 .. PageSize - 1 :
         HasFrame(t, m) /\ ~ (t = s /\ m = n) =>
             ram'[pte[t][m].ppn * PageSize + o] = ram[pte[t][m].ppn * PageSize + o]
    BY LoadedPage
<1> HIDE DEF n, ph
<1>6. LoadedHasFrame' /\ Layout'
    BY <1>1, <1>2 DEF AllInv, MemoryInv, LoadedHasFrame, Layout, HasFrame
<1>7. NotLoadedYet'
    <2> SUFFICES ASSUME NEW t \in Space, NEW m \in Vpn0, pte'[t][m].ppn # Off, ~ pte'[t][m].valid,
                        NEW o \in 0 .. PageSize - 1
                 PROVE  ram'[pte'[t][m].ppn * PageSize + o] = Ram
        BY DEF NotLoadedYet, HasFrame
    <2>1. HasFrame(t, m) /\ ~ pte[t][m].valid /\ ~ (t = s /\ m = n)
        BY <1>2 DEF HasFrame
    <2>2. ram[pte[t][m].ppn * PageSize + o] = Ram
        BY <2>1 DEF AllInv, MemoryInv, NotLoadedYet
    <2>3. QED
        BY <1>2, <1>5, <2>1, <2>2
<1>8. ASSUME NEW t \in Space, NEW vb \in Targets
      PROVE  (IF PteOf(pte'[t], vb).valid THEN ram'[CellOf(pte'[t], vb)]
              ELSE load_elf(elf, Ram)[vb]) =
             (IF PteOf(pte[t], vb).valid THEN ram[CellOf(pte[t], vb)]
              ELSE load_elf(elf, Ram)[vb])
    <2> DEFINE m == PAGE_NUM(vb)
               o == PAGE_OFFSET(vb)
    <2>1. vb \in Word /\ o \in 0 .. PageSize - 1
        BY TargetsAreWords, PageSplit
    <2>2. CASE va_vpn1(vb) # 0
        BY <2>1, <2>2, EntryOfAddress DEF NoPte
    <2>3. CASE va_vpn1(vb) = 0
        <3>1. /\ PteOf(pte[t], vb) = pte[t][m] /\ PteOf(pte'[t], vb) = pte'[t][m]
              /\ m \in Vpn0
            BY <2>1, <2>3, EntryOfAddress
        <3>2. /\ CellOf(pte[t], vb) = pte[t][m].ppn * PageSize + o
              /\ CellOf(pte'[t], vb) = pte[t][m].ppn * PageSize + o
            BY <1>2, <3>1 DEF CellOf, va_to_pa
        <3> HIDE DEF m, o
        <3>3. CASE pte[t][m].valid
            <4>1. HasFrame(t, m) /\ ~ (t = s /\ m = n)
                BY <1>1, <3>1, <3>3 DEF AllInv, MemoryInv, LoadedHasFrame
            <4>2. ram'[pte[t][m].ppn * PageSize + o] = ram[pte[t][m].ppn * PageSize + o]
                BY <1>5, <2>1, <3>1, <4>1
            <4>3. QED
                BY <1>2, <3>1, <3>2, <3>3, <4>2
        <3>4. CASE ~ pte[t][m].valid /\ t = s /\ m = n
            <4>1. PAGE_NUM(vb) = PAGE_NUM(elf.phdrs[i].vaddr) /\ elf.phdrs[i].load
                BY <1>1, <3>4 DEF m, ph
            <4>2. load_elf(elf, Ram)[vb] =
                      IF o < ph.filesz THEN Content(ph.offset + o) ELSE Ram
                BY <2>1, <4>1, ContentOfPage DEF o, ph
            <4>3. ram'[pte[t][m].ppn * PageSize + o] =
                      IF o < ph.filesz THEN Content(ph.offset + o) ELSE Ram
                BY <1>4, <2>1, <3>4
            <4>4. QED
                BY <1>2, <3>1, <3>2, <3>4, <4>2, <4>3
        <3>5. CASE ~ pte[t][m].valid /\ ~ (t = s /\ m = n)
            BY <1>2, <3>1, <3>5
        <3>6. QED
            BY <3>3, <3>4, <3>5
    <2>4. QED
        BY <2>2, <2>3
<1>9. VirtualMemory' = VirtualMemory
    BY <1>8 DEF VirtualMemory
<1>10. QED
    BY <1>3, <1>6, <1>7, <1>9

-----------------------------------------------------------------------------
(* Boot. *)

LEMMA MemoryUnchanged ==
    ASSUME UNCHANGED <<elf, pte, ram>> PROVE VirtualMemory' = VirtualMemory
BY DEF VirtualMemory

LEMMA BootKeepsMemory ==
    ASSUME AllInv, Booting, elf' = elf,
           \A s \in Space, n \in Vpn0 : ~ pte'[s][n].valid
    PROVE  VirtualMemory' = VirtualMemory
<1>1. \A s \in Space, n \in Vpn0 : ~ pte[s][n].valid
    BY DEF AllInv, MemoryInv, BootLoadsNothing
<1>2. ASSUME NEW s \in Space, NEW va \in Targets
      PROVE  ~ PteOf(pte[s], va).valid /\ ~ PteOf(pte'[s], va).valid
    <2>1. va \in Word
        BY TargetsAreWords
    <2>2. QED
        BY <1>1, <2>1, EntryOfAddress DEF NoPte
<1>3. QED
    BY <1>2 DEF VirtualMemory

\* A machine that stops at boot is left as it is.
LEMMA BootStops ==
    ASSUME AllInv, Booting, power' = "off", UNCHANGED <<elf, booting, pte, ram, curr, access, seen>>
    PROVE  MemoryInv' /\ VirtualMemory' = VirtualMemory
<1>1. UserTypes'
    BY DEF AllInv, MemoryInv, UserTypes
<1>2. LoadedHasFrame' /\ Layout' /\ NotLoadedYet'
    BY DEF AllInv, MemoryInv, LoadedHasFrame, Layout, NotLoadedYet, HasFrame
<1>3. BootLoadsNothing' /\ Checked'
    BY DEF BootLoadsNothing, Checked, Booting, On
<1>4. QED
    BY <1>1, <1>2, <1>3, MemoryUnchanged DEF MemoryInv

\* While nothing is loaded all that matters of the tables is the layout.
LEMMA BootGoesOn ==
    ASSUME AllInv, Inv', PmpInv', Booting, UNCHANGED <<elf, ram, curr, access, seen>>,
           power' \in {"boot", "on"}, booting'.prog \in 0 .. UserNum,
           \A s \in Space, n \in Vpn0 : ~ pte'[s][n].valid, Layout', Checked'
    PROVE  MemoryInv' /\ VirtualMemory' = VirtualMemory
<1>1. UserTypes'
    BY DEF AllInv, MemoryInv, UserTypes
<1>2. LoadedHasFrame'
    BY DEF LoadedHasFrame
<1>3. ram' = ram /\ \A c \in Cells : ram[c] = Ram
    BY DEF AllInv, MemoryInv, BootLoadsNothing
<1>4. BootLoadsNothing'
    BY <1>3 DEF BootLoadsNothing
<1>5. NotLoadedYet'
    <2>1. ASSUME NEW s \in Space, NEW n \in Vpn0, pte'[s][n].ppn # Off,
                 NEW o \in 0 .. PageSize - 1
          PROVE  ram'[pte'[s][n].ppn * PageSize + o] = Ram
        <3>1. /\ pte'[s][n].ppn \in Nat /\ pte'[s][n].ppn < start'
              /\ start' \in Nat /\ start' <= PmpSlots
            BY <2>1 DEF Inv, PmpInv, Tables, AllocatedBelowStart
        <3>2. pte'[s][n].ppn < PmpSlots
            BY <3>1, PagingAssumption
        <3>3. pte'[s][n].ppn * PageSize + o \in Cells
            BY <3>1, <3>2, FrameIsRam
        <3>4. QED
            BY <1>3, <3>3
    <2>2. QED
        BY <2>1 DEF NotLoadedYet, HasFrame
<1>6. QED
    BY <1>1, <1>2, <1>4, <1>5, BootKeepsMemory DEF MemoryInv

LEMMA BootingProgram ==
    ASSUME AllInv, Booting
    PROVE  /\ booting.prog \in Space /\ booting \in [prog : Nat, seg : Nat]
           /\ UserNum \in Nat
           /\ \A s \in Space, n \in Vpn0 : ~ pte[s][n].valid
BY PagingAssumption DEF AllInv, PmpInv, MemoryInv, BootLoadsNothing, Space

LEMMA CheckElfMemory ==
    ASSUME AllInv, CheckElf
    PROVE  MemoryInv' /\ VirtualMemory' = VirtualMemory
<1>1. Booting /\ booting.seg = 0 /\ UNCHANGED <<elf, ram, curr, access, seen>>
    BY DEF CheckElf
<1>2. CASE power' = "off" /\ UNCHANGED <<booting, pte>>
    BY <1>1, <1>2, BootStops
<1>3. CASE /\ check_ehdr(elf) /\ booting' = [booting EXCEPT !.seg = 1]
           /\ pte' = [pte EXCEPT ![booting.prog] = init_pte] /\ power' = power
    <2> DEFINE s == booting.prog
    <2>1. /\ s \in Space /\ \A t \in Space, n \in Vpn0 : ~ pte[t][n].valid
          /\ booting'.prog = s /\ booting'.seg = 1 /\ s \in 0 .. UserNum
        BY <1>1, <1>3, BootingProgram DEF Space
    <2>2. pte' = [pte EXCEPT ![s] = init_pte] /\ pte \in [Space -> Tables]
        BY <1>3 DEF AllInv, Inv
    <2> HIDE DEF s
    <2>3. pte'[s] = init_pte /\ \A t \in Space : t # s => pte'[t] = pte[t]
        BY <2>1, <2>2
    <2>4. \A n \in Vpn0 : init_pte[n].ppn = Off /\ ~ init_pte[n].valid
        BY DEF init_pte, NoPte
    <2>5. \A t \in Space, n \in Vpn0 : ~ pte'[t][n].valid
        BY <2>1, <2>3, <2>4
    <2>6. Layout'
        <3> SUFFICES ASSUME NEW t \in Space, NEW n \in Vpn0, pte'[t][n].ppn # Off
                     PROVE  \E i \in DOMAIN elf.phdrs :
                                /\ PAGE_NUM(elf.phdrs[i].vaddr) = n
                                /\ pte'[t][n].flags = elf.phdrs[i].flags
            BY <1>1 DEF Layout, HasFrame
        <3>1. pte'[t] = pte[t] /\ HasFrame(t, n)
            BY <2>3, <2>4 DEF HasFrame
        <3>2. QED
            BY <3>1 DEF AllInv, MemoryInv, Layout
    <2>7. Checked'
        <3>1. Booting' /\ ~ On'
            BY <1>1, <1>3 DEF Booting, On
        <3>2. \A i \in DOMAIN elf.phdrs : i \in Nat /\ i >= 1
            BY SequenceIndices
        <3>3. \A i \in DOMAIN elf.phdrs : booting.prog > 0 => OnePage(elf.phdrs[i])
            BY <1>1 DEF AllInv, MemoryInv, Checked
        <3>4. \A i \in DOMAIN elf.phdrs : ~ (i < 1)
            BY <3>2
        <3>5. check_ehdr(elf')
            BY <1>1, <1>3
        <3>6. \A i \in DOMAIN elf.phdrs :
                 i < booting'.seg \/ booting'.prog > 0 => OnePage(elf.phdrs[i])
            BY <2>1, <3>3, <3>4 DEF s
        <3>7. QED
            BY <1>1, <3>1, <3>5, <3>6 DEF Checked, OnePage
    <2>8. power' \in {"boot", "on"} /\ booting'.prog \in 0 .. UserNum
        BY <1>1, <1>3, <2>1 DEF Booting
    <2>9. QED
        BY <1>1, <2>5, <2>6, <2>7, <2>8, BootGoesOn,
           CheckElfKeeps, CheckElfKeepsPmp DEF AllInv
<1>4. QED
    BY <1>2, <1>3 DEF CheckElf

\* setup_pte() for the first address of a segment.
LEMMA MappedEntry ==
    ASSUME NEW table \in Tables, NEW va \in Word, NEW flags, NEW frame
    PROVE  \A m \in Vpn0 :
              \/ Mapped(table, va, flags, frame)[m] = table[m]
              \/ /\ m = PAGE_NUM(va)
                 /\ Mapped(table, va, flags, frame)[m] =
                        [valid |-> FALSE, flags |-> flags, ppn |-> frame]
<1> DEFINE entry == [valid |-> FALSE, flags |-> flags, ppn |-> frame]
           n == PAGE_NUM(va)
<1>1. CASE va_vpn1(va) # 0 \/ PteOf(table, va).valid
    BY <1>1 DEF Mapped, setup_pte
<1>2. CASE va_vpn1(va) = 0 /\ ~ PteOf(table, va).valid
    <2>1. Mapped(table, va, flags, frame) = [table EXCEPT ![n] = entry]
        BY <1>2, PageSplit DEF Mapped, setup_pte
    <2> HIDE DEF entry, n
    <2>2. \A m \in Vpn0 : [table EXCEPT ![n] = entry][m] = IF m = n THEN entry ELSE table[m]
        BY DEF Tables
    <2>3. QED
        BY <2>1, <2>2 DEF entry, n
<1>3. QED
    BY <1>1, <1>2

LEMMA SetupVaMemory ==
    ASSUME AllInv, SetupVa
    PROVE  MemoryInv' /\ VirtualMemory' = VirtualMemory
<1>1. Booting /\ booting.seg \in DOMAIN elf.phdrs /\ UNCHANGED <<elf, ram, curr, access, seen>>
    BY DEF SetupVa
<1>2. CASE power' = "off" /\ UNCHANGED <<pte, booting>>
    BY <1>1, <1>2, BootStops
<1>3. CASE /\ OnePage(Segment) /\ power' = power /\ booting' = [booting EXCEPT !.seg = @ + 1]
           /\ pte' = [pte EXCEPT ![booting.prog] =
                  Mapped(@, PAGE_ALIGN(Segment.vaddr), Segment.flags, start)]
    <2> DEFINE s == booting.prog
               k == booting.seg
               ph == elf.phdrs[k]
               new == Mapped(pte[s], ph.vaddr, ph.flags, start)
    <2>1. /\ s \in Space /\ \A t \in Space, n \in Vpn0 : ~ pte[t][n].valid
          /\ booting'.prog = s /\ booting'.seg = k + 1 /\ s \in 0 .. UserNum
        BY <1>1, <1>3, BootingProgram DEF Space
    <2>2. ph.vaddr \in Word /\ PAGE_ALIGN(ph.vaddr) = ph.vaddr
        BY <1>1, SegmentFacts, AlignedPage DEF ProgramHeaders
    <2>3. pte' = [pte EXCEPT ![s] = new] /\ pte \in [Space -> Tables] /\ pte[s] \in Tables
        BY <1>3, <2>1, <2>2 DEF AllInv, Inv, Segment
    <2>4. \A m \in Vpn0 :
             \/ new[m] = pte[s][m]
             \/ /\ m = PAGE_NUM(ph.vaddr)
                /\ new[m] = [valid |-> FALSE, flags |-> ph.flags, ppn |-> start]
        BY <2>2, <2>3, MappedEntry
    <2>5. \A m \in Vpn0 :
             \/ new[m] = pte[s][m]
             \/ m = PAGE_NUM(ph.vaddr) /\ ~ new[m].valid /\ new[m].flags = ph.flags
        BY <2>4
    <2> HIDE DEF new, s
    <2>6. pte'[s] = new /\ \A t \in Space : t # s => pte'[t] = pte[t]
        BY <2>1, <2>3
    <2>7. \A t \in Space, n \in Vpn0 : ~ pte'[t][n].valid
        BY <2>1, <2>5, <2>6
    <2>8. Layout'
        <3> SUFFICES ASSUME NEW t \in Space, NEW n \in Vpn0, pte'[t][n].ppn # Off
                     PROVE  \E i \in DOMAIN elf.phdrs :
                                /\ PAGE_NUM(elf.phdrs[i].vaddr) = n
                                /\ pte'[t][n].flags = elf.phdrs[i].flags
            BY <1>1 DEF Layout, HasFrame
        <3>1. CASE pte'[t][n] = pte[t][n]
            <4>1. HasFrame(t, n)
                BY <3>1 DEF HasFrame
            <4>2. QED
                BY <3>1, <4>1 DEF AllInv, MemoryInv, Layout
        <3>2. CASE n = PAGE_NUM(ph.vaddr) /\ pte'[t][n].flags = ph.flags
            BY <1>1, <3>2
        <3>3. QED
            BY <2>5, <2>6, <3>1, <3>2
    <2>9. Checked'
        <3>1. Booting' /\ ~ On'
            BY <1>1, <1>3 DEF Booting, On
        <3>2. k \in Nat /\ \A i \in DOMAIN elf.phdrs : i \in Nat /\ i >= 1
            BY <1>1, SequenceIndices
        <3>3. /\ \A i \in DOMAIN elf.phdrs : i < k \/ booting.prog > 0 => OnePage(elf.phdrs[i])
              /\ k > 0 => check_ehdr(elf)
            BY <1>1 DEF AllInv, MemoryInv, Checked
        <3>4. OnePage(elf.phdrs[k])
            BY <1>3 DEF Segment
        <3>5. check_ehdr(elf')
            BY <1>1, <3>2, <3>3
        <3> HIDE DEF k
        <3>6. \A i \in DOMAIN elf.phdrs : i < k + 1 => i < k \/ i = k
            BY <3>2
        <3>7. \A i \in DOMAIN elf.phdrs :
                 i < booting'.seg \/ booting'.prog > 0 => OnePage(elf.phdrs[i])
            BY <2>1, <3>3, <3>4, <3>6 DEF s
        <3>8. QED
            BY <1>1, <3>1, <3>5, <3>7 DEF Checked, OnePage
    <2>10. power' \in {"boot", "on"} /\ booting'.prog \in 0 .. UserNum
        BY <1>1, <1>3, <2>1 DEF Booting
    <2>11. QED
        BY <1>1, <2>7, <2>8, <2>9, <2>10, BootGoesOn,
           SetupVaKeeps, SetupVaKeepsPmp DEF AllInv
<1>4. QED
    BY <1>2, <1>3 DEF SetupVa, OnePage, Mapped

LEMMA CreateTaskMemory ==
    ASSUME AllInv, CreateTask
    PROVE  /\ MemoryInv' /\ VirtualMemory' = VirtualMemory
           /\ power' \in {"boot", "on"} /\ check_ehdr(elf)
<1> DEFINE l == Len(elf.phdrs)
<1>1. /\ Booting /\ booting.seg = l + 1 /\ UNCHANGED <<elf, pte, ram, curr, access, seen>>
      /\ booting' = [prog |-> booting.prog + 1, seg |-> 0]
      /\ power' \in {"boot", "on"}
    BY DEF CreateTask
<1>2. \A s \in Space, n \in Vpn0 : ~ pte'[s][n].valid
    BY <1>1, BootingProgram
<1>3. Layout'
    BY <1>1 DEF AllInv, MemoryInv, Layout, HasFrame
<1>4. l \in Nat /\ \A i \in DOMAIN elf.phdrs : i \in Nat /\ i < l + 1
    BY SequenceIndices
<1>5. check_ehdr(elf) /\ \A i \in DOMAIN elf.phdrs : OnePage(elf.phdrs[i])
    <2>1. l + 1 > 0
        BY <1>4
    <2>2. QED
        BY <1>1, <1>4, <2>1 DEF AllInv, MemoryInv, Checked
<1>6. Checked'
    BY <1>1, <1>5 DEF Checked, OnePage
<1>7. booting'.prog \in 0 .. UserNum
    BY <1>1, BootingProgram DEF Space
<1>8. QED
    BY <1>1, <1>2, <1>3, <1>5, <1>6, <1>7, BootGoesOn,
       OthersKeep, CreateTaskKeepsPmp DEF AllInv

-----------------------------------------------------------------------------
(* Programs and the kernel. *)

\* A step that leaves the tables alone and stores nothing to a page that is not
\* loaded.
LEMMA RunningKeeps ==
    ASSUME AllInv, On, UNCHANGED <<elf, booting, pte>>, power' \in {"on", "off"},
           ram' \in [Cells -> Int], NotLoadedYet', curr' \in Space,
           access' \in [Space -> Accesses \cup {NoAccess}], seen' \in Int
    PROVE  MemoryInv'
<1>1. UserTypes'
    BY DEF AllInv, MemoryInv, UserTypes
<1>2. LoadedHasFrame' /\ Layout'
    BY DEF AllInv, MemoryInv, LoadedHasFrame, Layout, HasFrame
<1>3. ~ Booting'
    BY DEF Booting
<1>4. BootLoadsNothing' /\ Checked'
    BY <1>3 DEF AllInv, MemoryInv, BootLoadsNothing, Checked, OnePage
<1>5. QED
    BY <1>1, <1>2, <1>4 DEF MemoryInv

LEMMA RunningTypes ==
    ASSUME AllInv
    PROVE  /\ power \in {"boot", "on", "off"} /\ curr \in Space /\ seen \in Int
           /\ access \in [Space -> Accesses \cup {NoAccess}]
           /\ ram \in [Cells -> Int] /\ NotLoadedYet
           /\ \A s \in Space : Pending(s) =>
                 /\ access[s].kind \in Kinds /\ access[s].va \in Targets
                 /\ access[s].val \in StoreValues
BY DEF AllInv, MemoryInv, UserTypes, Pending, NoAccess, Accesses

\* ... when it does not store at all.
LEMMA SameRam ==
    ASSUME AllInv, UNCHANGED <<pte, ram>>
    PROVE  ram' \in [Cells -> Int] /\ NotLoadedYet'
BY RunningTypes DEF NotLoadedYet, HasFrame

\* What a load returns.
LEMMA LoadedValue ==
    ASSUME AllInv, NEW s \in Space, NEW va \in Targets, PteOf(pte[s], va).valid
    PROVE  /\ ram[CellOf(pte[s], va)] = VirtualMemory[s][va]
           /\ ram[CellOf(pte[s], va)] \in Int
<1>1. va \in Word /\ CellOf(pte[s], va) \in Cells
    BY TargetsAreWords, ValidHasFrame, EntryOf
<1>2. QED
    BY <1>1, RunningTypes DEF VirtualMemory

\* The abstract specification reads an image as the detailed one does.
LEMMA SameElf ==
    /\ \A e, u : Eager!load_elf(e, u) = load_elf(e, u)
    /\ \A e, va, kind : Eager!get_phdr_from_va(e, va, kind) = get_phdr_from_va(e, va, kind)
    /\ \A e : Eager!check_ehdr(e) = check_ehdr(e)
    /\ \A va : Eager!PAGE_NUM(va) = PAGE_NUM(va)
    /\ Eager!Kinds = Kinds /\ Eager!Space = Space /\ Eager!NoAccess = NoAccess
    /\ Eager!On = On /\ \A s : Eager!Pending(s) = Pending(s)
<1>3. Eager!Word = Word /\ \A a, b : Eager!Plus(a, b) = Plus(a, b)
    BY DEF Eager!Word, Word, Eager!Plus, Plus
<1>4. \A e, u : Eager!load_elf(e, u) = load_elf(e, u)
    BY DEF Eager!load_elf, load_elf, Eager!FilledBy, FilledBy, Eager!Content, Content,
           Eager!Word, Word
<1>5. \A ph, va, kind : Eager!Covers(ph, va, kind) = Covers(ph, va, kind)
    BY <1>3 DEF Eager!Covers, Covers
<1>6. \A e, va, kind : Eager!get_phdr_from_va(e, va, kind) = get_phdr_from_va(e, va, kind)
    BY <1>5 DEF Eager!get_phdr_from_va, get_phdr_from_va
<1>7. \A ph, size : Eager!check_phdr(ph, size) = check_phdr(ph, size)
    BY <1>3 DEF Eager!check_phdr, check_phdr
<1>8. \A e : Eager!check_ehdr(e) = check_ehdr(e)
    BY <1>7 DEF Eager!check_ehdr, check_ehdr
<1>9. \A va : Eager!PAGE_NUM(va) = PAGE_NUM(va)
    BY DEF Eager!PAGE_NUM, PAGE_NUM
<1>10. /\ Eager!Kinds = Kinds /\ Eager!Space = Space /\ Eager!NoAccess = NoAccess
       /\ Eager!On = On /\ \A s : Eager!Pending(s) = Pending(s)
    BY DEF Eager!Kinds, Kinds, Eager!Space, Space, Eager!NoAccess, NoAccess,
           Eager!On, On, Eager!Pending, Pending
<1>11. QED
    BY <1>4, <1>6, <1>8, <1>9, <1>10

\* Programs start with the memory load_elf() would have given them.
LEMMA InitImplements == Init => MemoryInv /\ Eager!Init
<1> SUFFICES ASSUME Init PROVE MemoryInv /\ Eager!Init
    OBVIOUS
<1>1. \A s \in Space, n \in Vpn0 : ~ pte[s][n].valid /\ pte[s][n].ppn = Off
    BY DEF Init, init_pte, NoPte
<1>2. 0 \in Space /\ UserNum \in Nat
    BY PagingAssumption DEF Space
<1>3. UserTypes
    BY <1>2, PagingAssumption DEF Init, UserTypes
<1>4. LoadedHasFrame /\ Layout /\ NotLoadedYet
    BY <1>1 DEF LoadedHasFrame, Layout, NotLoadedYet, HasFrame
<1>5. BootLoadsNothing
    BY <1>1 DEF Init, BootLoadsNothing
<1>6. Checked
    <2>1. elf.phdrs \in Seq(ProgramHeaders)
        BY PagingAssumption DEF Init
    <2>2. DOMAIN elf.phdrs = 1 .. Len(elf.phdrs) /\ Len(elf.phdrs) \in Nat
        BY <2>1
    <2>3. \A i \in DOMAIN elf.phdrs : ~ (i < 0)
        BY <2>2
    <2>4. booting.seg = 0 /\ booting.prog = 0 /\ power = "boot"
        BY DEF Init
    <2>5. QED
        BY <2>3, <2>4 DEF Checked, Booting, On
<1>7. \A s \in Space, va \in Targets : ~ PteOf(pte[s], va).valid
    BY <1>1, TargetsAreWords, EntryOfAddress DEF NoPte
<1>8. VirtualMemory = [s \in Space |-> [va \in Targets |-> load_elf(elf, Ram)[va]]]
    BY <1>7 DEF VirtualMemory
<1>9. Eager!Init
    BY <1>8, SameElf DEF Init, Eager!Init
<1>10. QED
    BY <1>3, <1>4, <1>5, <1>6, <1>9 DEF MemoryInv

LEMMA BootImplements ==
    ASSUME AllInv, Boot
    PROVE  MemoryInv' /\ (Eager!Start \/ UNCHANGED Eager!vars)
<1>1. CASE CheckElf
    <2>1. MemoryInv' /\ VirtualMemory' = VirtualMemory
        BY <1>1, CheckElfMemory
    <2>2. /\ power = "boot" /\ power' \in {"boot", "off"}
          /\ UNCHANGED <<elf, curr, access, seen>>
        BY <1>1 DEF CheckElf, Booting
    <2>3. QED
        BY <2>1, <2>2 DEF Eager!Start, Eager!vars
<1>2. CASE SetupVa
    <2>1. MemoryInv' /\ VirtualMemory' = VirtualMemory
        BY <1>2, SetupVaMemory
    <2>2. /\ power = "boot" /\ power' \in {"boot", "off"}
          /\ UNCHANGED <<elf, curr, access, seen>>
        BY <1>2 DEF SetupVa, Booting
    <2>3. QED
        BY <2>1, <2>2 DEF Eager!Start, Eager!vars
<1>3. CASE CreateTask
    <2>1. /\ MemoryInv' /\ VirtualMemory' = VirtualMemory
          /\ power' \in {"boot", "on"} /\ check_ehdr(elf)
        BY <1>3, CreateTaskMemory
    <2>2. power = "boot" /\ UNCHANGED <<elf, curr, access, seen>>
        BY <1>3 DEF CreateTask, Booting
    <2>3. QED
        BY <2>1, <2>2, SameElf DEF Eager!Start, Eager!vars
<1>4. QED
    BY <1>1, <1>2, <1>3 DEF Boot

LEMMA IssueImplements ==
    ASSUME AllInv, Issue PROVE MemoryInv' /\ Eager!Issue
<1>1. /\ On /\ ~ Pending(curr) /\ UNCHANGED <<elf, booting, power, pte, ram, curr, seen>>
      /\ \E a \in Accesses : access' = [access EXCEPT ![curr] = a]
    BY DEF Issue, boot
<1>2. access' \in [Space -> Accesses \cup {NoAccess}]
    BY <1>1, RunningTypes
<1>3. MemoryInv'
    BY <1>1, <1>2, RunningTypes, SameRam, RunningKeeps DEF On
<1>4. VirtualMemory' = VirtualMemory
    BY <1>1, MemoryUnchanged
<1>5. QED
    BY <1>1, <1>3, <1>4, SameElf DEF Eager!Issue, Accesses

LEMMA PerformImplements ==
    ASSUME AllInv, NEW s \in Space, Perform(s) PROVE MemoryInv' /\ Eager!Perform(s)
<1> DEFINE a == access[s]
           va == a.va
<1>1. /\ On /\ curr = s /\ Pending(s) /\ Translates(pte[s], va, a.kind)
      /\ access' = [access EXCEPT ![s] = NoAccess]
      /\ UNCHANGED <<elf, booting, power, pte, curr>>
    BY DEF Perform, boot
<1>2. a.kind \in Kinds /\ va \in Targets /\ a.val \in StoreValues /\ a.val \in Int
      /\ va \in Word
    BY <1>1, RunningTypes, TargetsAreWords
<1>3. PteOf(pte[s], va).valid /\ a.kind \in PteOf(pte[s], va).flags
    BY <1>1 DEF Translates
<1>4. Eager!InPage(va, a.kind)
    <2>1. /\ PAGE_NUM(va) \in Vpn0 /\ HasFrame(s, PAGE_NUM(va))
          /\ PteOf(pte[s], va) = pte[s][PAGE_NUM(va)]
        BY <1>2, <1>3, ValidHasFrame, EntryOf
    <2>2. PICK i \in DOMAIN elf.phdrs :
              /\ PAGE_NUM(elf.phdrs[i].vaddr) = PAGE_NUM(va)
              /\ pte[s][PAGE_NUM(va)].flags = elf.phdrs[i].flags
        BY <2>1 DEF AllInv, MemoryInv, Layout
    <2>3. a.kind \in elf.phdrs[i].flags
        BY <1>3, <2>1, <2>2
    <2>4. QED
        BY <2>2, <2>3, SameElf DEF Eager!InPage
<1>5. access' \in [Space -> Accesses \cup {NoAccess}]
    BY <1>1, RunningTypes
<1>6. CASE a.kind = "W"
    <2>1. ram' = [ram EXCEPT ![CellOf(pte[s], va)] = a.val] /\ seen' = seen
        BY <1>6 DEF Perform
    <2>2. /\ VirtualMemory' = [VirtualMemory EXCEPT ![s][va] = a.val]
          /\ ram' \in [Cells -> Int] /\ NotLoadedYet'
        BY <1>1, <1>2, <1>3, <2>1, StoreEffect
    <2>3. MemoryInv'
        BY <1>1, <1>5, <2>1, <2>2, RunningTypes, RunningKeeps DEF On
    <2>4. Eager!Perform(s)
        BY <1>1, <1>4, <1>6, <2>1, <2>2, SameElf DEF Eager!Perform
    <2>5. QED
        BY <2>3, <2>4
<1>7. CASE a.kind # "W"
    <2>1. seen' = ram[CellOf(pte[s], va)] /\ ram' = ram
        BY <1>7 DEF Perform
    <2>2. VirtualMemory' = VirtualMemory
        BY <1>1, <2>1, MemoryUnchanged
    <2>3. seen' = VirtualMemory[s][va] /\ seen' \in Int
        BY <1>2, <1>3, <2>1, LoadedValue
    <2>4. MemoryInv'
        BY <1>1, <1>5, <2>1, <2>3, RunningTypes, SameRam, RunningKeeps DEF On
    <2>5. Eager!Perform(s)
        BY <1>1, <1>4, <1>7, <2>2, <2>3, SameElf DEF Eager!Perform
    <2>6. QED
        BY <2>4, <2>5
<1>8. QED
    BY <1>6, <1>7

\* A fault that no segment allows is refused; any other is not seen.
LEMMA PageFaultImplements ==
    ASSUME AllInv, NEW s \in Space, PageFault(s)
    PROVE  MemoryInv' /\ (Eager!Refuse(s) \/ UNCHANGED Eager!vars)
<1> DEFINE a == access[s]
           va == a.va
           phdr == get_phdr_from_va(elf, va, a.kind)
<1>1. /\ On /\ curr = s /\ Pending(s) /\ ~ Translates(pte[s], va, a.kind)
      /\ UNCHANGED <<elf, booting, curr, access, seen>>
    BY DEF PageFault, boot
<1>2. a.kind \in Kinds /\ va \in Targets /\ va \in Word
    BY <1>1, RunningTypes, TargetsAreWords
<1>3. CASE phdr = {}
    <2>1. power' = "off" /\ UNCHANGED <<pte, ram>>
        BY <1>3 DEF PageFault
    <2>2. MemoryInv'
        BY <1>1, <2>1, RunningTypes, SameRam, RunningKeeps
    <2>3. VirtualMemory' = VirtualMemory
        BY <1>1, <2>1, MemoryUnchanged
    <2>4. Eager!Refuse(s)
        BY <1>1, <1>3, <2>1, <2>3, SameElf DEF Eager!Refuse, Eager!Legal
    <2>5. QED
        BY <2>2, <2>4
<1>4. CASE phdr # {} /\ va_to_pa(pte[s], va) = Off
    <2>1. UNCHANGED <<power, pte, ram>>
        BY <1>4 DEF PageFault
    <2>2. MemoryInv'
        BY <1>1, <2>1, RunningTypes, SameRam, RunningKeeps DEF On
    <2>3. VirtualMemory' = VirtualMemory
        BY <1>1, <2>1, MemoryUnchanged
    <2>4. QED
        BY <1>1, <2>1, <2>2, <2>3 DEF Eager!vars
<1>5. CASE phdr # {} /\ va_to_pa(pte[s], va) # Off
    <2>1. power' = power
        BY <1>5 DEF PageFault
    <2>2. PICK ph \in phdr : /\ ram' = LoadedRam(ram, pte[s], ph, va)
                             /\ pte' = [pte EXCEPT ![s] = Validated(@, va)]
        BY <1>5 DEF PageFault
    <2>3. PICK i \in DOMAIN elf.phdrs : ph = elf.phdrs[i] /\ Covers(elf.phdrs[i], va, a.kind)
        BY <2>2 DEF get_phdr_from_va
    <2> HIDE DEF va, phdr
    <2>4. /\ VirtualMemory' = VirtualMemory /\ ram' \in [Cells -> Int]
          /\ LoadedHasFrame' /\ Layout' /\ NotLoadedYet'
        BY <1>1, <1>2, <1>5, <2>2, <2>3, LoadEffect
    <2>5. UserTypes'
        BY <1>1, <2>1, <2>4, RunningTypes DEF AllInv, MemoryInv, UserTypes
    <2>6. BootLoadsNothing' /\ Checked'
        BY <1>1, <2>1 DEF AllInv, MemoryInv, BootLoadsNothing, Checked, OnePage, On, Booting
    <2>7. QED
        BY <1>1, <2>1, <2>4, <2>5, <2>6 DEF MemoryInv, Eager!vars
<1>6. QED
    BY <1>3, <1>4, <1>5

LEMMA KernelStoreImplements ==
    ASSUME AllInv, KernelStore PROVE MemoryInv' /\ Eager!KernelStore
<1>1. On /\ UNCHANGED <<elf, booting, power, pte, curr, access, seen>>
    BY DEF KernelStore, boot
<1>2. PICK s \in Space, val \in StoreValues : \E va \in KernelAddresses(s) :
          ram' = [ram EXCEPT ![CellOf(pte[s], va)] = val]
    BY DEF KernelStore, UserCell
<1>3. PICK va \in KernelAddresses(s) : ram' = [ram EXCEPT ![CellOf(pte[s], va)] = val]
    BY <1>2
<1>4. va \in Targets /\ PteOf(pte[s], va).valid /\ val \in Int
    BY <1>3, TargetsAreWords DEF KernelAddresses
<1>5. /\ VirtualMemory' = [VirtualMemory EXCEPT ![s][va] = val]
      /\ ram' \in [Cells -> Int] /\ NotLoadedYet'
    BY <1>1, <1>3, <1>4, StoreEffect
<1>6. MemoryInv'
    BY <1>1, <1>5, RunningTypes, RunningKeeps DEF On
<1>7. QED
    BY <1>1, <1>4, <1>5, <1>6, SameElf DEF Eager!KernelStore

LEMMA KernelLoadImplements ==
    ASSUME AllInv, KernelLoad PROVE MemoryInv' /\ Eager!KernelLoad
<1>1. On /\ ~ Pending(curr) /\ UNCHANGED <<elf, booting, power, pte, ram, curr, access>>
    BY DEF KernelLoad, boot
<1>2. PICK va \in KernelAddresses(curr) : seen' = ram[CellOf(pte[curr], va)]
    BY DEF KernelLoad, UserCell
<1>3. va \in Targets /\ PteOf(pte[curr], va).valid /\ curr \in Space
    BY <1>2, RunningTypes DEF KernelAddresses
<1>4. seen' = VirtualMemory[curr][va] /\ seen' \in Int
    BY <1>2, <1>3, LoadedValue
<1>5. VirtualMemory' = VirtualMemory
    BY <1>1, MemoryUnchanged
<1>6. MemoryInv'
    BY <1>1, <1>4, RunningTypes, SameRam, RunningKeeps DEF On
<1>7. QED
    BY <1>1, <1>3, <1>4, <1>5, <1>6, SameElf DEF Eager!KernelLoad

LEMMA ScheduleImplements ==
    ASSUME AllInv, Schedule PROVE MemoryInv' /\ Eager!Switch
<1>1. /\ On /\ UNCHANGED <<elf, booting, power, pte, ram, access, seen>>
      /\ \E s \in Space \ {curr} : curr' = s
    BY DEF Schedule, boot
<1>2. VirtualMemory' = VirtualMemory
    BY <1>1, MemoryUnchanged
<1>3. MemoryInv'
    BY <1>1, RunningTypes, SameRam, RunningKeeps DEF On
<1>4. QED
    BY <1>1, <1>2, <1>3, SameElf DEF Eager!Switch

LEMMA StutterImplements ==
    ASSUME AllInv, UNCHANGED vars PROVE MemoryInv' /\ UNCHANGED Eager!vars
<1>1. UNCHANGED <<elf, booting, power, start, pmp, pte, ram, curr, access, seen>>
    BY DEF vars
<1>2. VirtualMemory' = VirtualMemory
    BY <1>1, MemoryUnchanged
<1>3. UNCHANGED Eager!vars
    BY <1>1, <1>2 DEF Eager!vars
<1>4. UserTypes' /\ LoadedHasFrame' /\ Layout' /\ NotLoadedYet'
    BY <1>1 DEF AllInv, MemoryInv, UserTypes, LoadedHasFrame, Layout, NotLoadedYet, HasFrame
<1>5. BootLoadsNothing' /\ Checked'
    BY <1>1 DEF AllInv, MemoryInv, BootLoadsNothing, Checked, OnePage, On, Booting
<1>6. QED
    BY <1>3, <1>4, <1>5 DEF MemoryInv

LEMMA StepImplements ==
    AllInv /\ [Next]_vars => MemoryInv' /\ [Eager!Next]_(Eager!vars)
<1> SUFFICES ASSUME AllInv, [Next]_vars PROVE MemoryInv' /\ [Eager!Next]_(Eager!vars)
    OBVIOUS
<1>1. CASE Boot
    BY <1>1, BootImplements DEF Eager!Next
<1>2. CASE Issue
    BY <1>2, IssueImplements DEF Eager!Next
<1>3. CASE KernelStore
    BY <1>3, KernelStoreImplements DEF Eager!Next
<1>4. CASE KernelLoad
    BY <1>4, KernelLoadImplements DEF Eager!Next
<1>5. CASE Schedule
    BY <1>5, ScheduleImplements DEF Eager!Next
<1>6. ASSUME NEW s \in Space, Perform(s) PROVE MemoryInv' /\ [Eager!Next]_(Eager!vars)
    BY <1>6, PerformImplements, SameElf DEF Eager!Next
<1>7. ASSUME NEW s \in Space, PageFault(s) PROVE MemoryInv' /\ [Eager!Next]_(Eager!vars)
    BY <1>7, PageFaultImplements, SameElf DEF Eager!Next
<1>8. CASE UNCHANGED vars
    BY <1>8, StutterImplements
<1>9. QED
    BY <1>1, <1>2, <1>3, <1>4, <1>5, <1>6, <1>7, <1>8 DEF Next, Execute

THEOREM MemoryInvariance == Spec => []MemoryInv
<1>1. Init => MemoryInv
    BY InitImplements
<1>2. Inv /\ PmpInv /\ MemoryInv /\ [Next]_vars => MemoryInv'
    BY StepImplements DEF AllInv
<1>3. QED
    BY <1>1, <1>2, Invariance, PmpInvariance, PTL DEF Spec

\* Every variable keeps its type; above all, a frame number in a table never
\* lies outside RAM and a cell of RAM always holds a value.
THEOREM TypeCorrectness == Spec => []TypeOK
<1>1. Inv /\ PmpInv /\ MemoryInv => TypeOK
    <2> SUFFICES ASSUME Inv, PmpInv, MemoryInv PROVE TypeOK
        OBVIOUS
    <2>1. pte \in [Space -> [Vpn0 -> Entries]]
        <3>1. \A s \in Space, n \in Vpn0 : pte[s][n].ppn \in Frames \cup {Off}
            BY FrameBounds DEF AllInv, HasFrame
        <3>2. \A s \in Space, n \in Vpn0 : pte[s][n] \in Entries
            BY <3>1 DEF Inv, Tables, Entries
        <3>3. QED
            BY <3>2 DEF Inv, Tables
    <2>2. booting \in [prog : 0 .. UserNum, seg : Nat]
        BY DEF PmpInv, MemoryInv, UserTypes
    <2>3. pmp \in [0 .. PmpSlots - 1 -> Nat \cup {Off}]
        BY DEF PmpInv, EntriesInOrder
    <2>4. QED
        BY <2>1, <2>2, <2>3 DEF TypeOK, Inv, MemoryInv, UserTypes
<1>2. QED
    BY <1>1, Invariance, PmpInvariance, MemoryInvariance, PTL

\* Loading a page at its first access cannot be told from loading the whole image
\* before the program starts, whatever the images, the size of a page and the
\* number of programs: what a program sees of memory are the image and its own
\* stores, however the faults and stores of the others interleave (main.c:43,
\* elfldr.c:150).
THEOREM PagingImplementsUserMemory == Spec => ImplementsUserMemory
<1>1. Init => Eager!Init
    BY InitImplements
<1>2. Inv /\ PmpInv /\ MemoryInv /\ [Next]_vars => [Eager!Next]_(Eager!vars)
    BY StepImplements DEF AllInv
<1>3. QED
    BY <1>1, <1>2, Invariance, PmpInvariance, MemoryInvariance, PTL
       DEF Spec, ImplementsUserMemory, Eager!Spec

=============================================================================
