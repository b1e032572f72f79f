--------------------------------- MODULE Lazy ---------------------------------
(***************************************************************************)
(* Loading on demand as step 9 introduced it (src/steps/9/m) and the later *)
(* steps kept it: a page of a program is copied from the image at its      *)
(* first access.  Paging is the detailed model of the same code.           *)
(***************************************************************************)
EXTENDS Machine

\* Mutant of allocate_pa: the distance of two programs, as in step 8, is taken for
\* that of two pages.
PageAtOffset(s, va) == Offset * (2 * s + va)

\* allocate_pa(): pages are given one after another.
allocate_pa(s, va) == 2 * s + va

\* Mutant of setup_va: p_flags is not looked at.
AllFlags(s) ==
    [va \in Va |-> [valid |-> FALSE, flags |-> Kinds, frame |-> allocate_pa(s, va)]]

setup_pte(flags, frame, valid) == [valid |-> valid, flags |-> flags, frame |-> frame]

\* setup_va(): the entries are there but not valid.
setup_va(s) == [va \in Va |-> setup_pte(Flags[va], allocate_pa(s, va), FALSE)]

\* setup_pmp() with n entries: the first n pages are opened.
setup_pmp(n) == {f \in {allocate_pa(s, va) : s \in Space, va \in Va} : f < n}

\* get_phdr_from_va() finds a segment that allows the access.
HasPhdr(va, kind) == va \in Va /\ kind \in Flags[va]

\* Mutant of va_to_pa: the page table in use is that of the first program.
FirstTable(t, va) == pte[0][va].frame

va_to_pa(t, va) == pte[task[t].space][va].frame

\* Mutant of load_program_segment: the page number in the segment is forgotten.
LoadFirstPage(t, va) ==
    /\ ram' = [ram EXCEPT ![va_to_pa(t, va)] = Image[Text]]
    /\ pte' = [pte EXCEPT ![task[t].space][va].valid = TRUE]

load_program_segment(t, va) ==
    /\ ram' = [ram EXCEPT ![va_to_pa(t, va)] = Image[va]]
    /\ pte' = [pte EXCEPT ![task[t].space][va].valid = TRUE]

\* handle_page_fault(): the page is loaded and the access is retried; without a
\* segment the machine ends.
handle_page_fault(va, kind) ==
    IF HasPhdr(va, kind)
    THEN load_program_segment(curr, va) /\ UNCHANGED <<power, hart, mtip, sched, pmp, queues>>
    ELSE PowerOff

\* handle_write(): nothing is printed for an address without a page.
handle_write(va) ==
    out' = IF va \in Va THEN ram[va_to_pa(curr, va)] ELSE NoChar

\* What a program finds at an address, now or after a fault.
VirtualMemory ==
    [s \in Space |-> [va \in Va |->
        IF pte[s][va].valid THEN ram[pte[s][va].frame] ELSE Image[va]]]

Context == [t \in Task |-> IF t = curr THEN hart ELSE task[t].regs]

=============================================================================
