--------------------------------- MODULE Sv32 ---------------------------------
(***************************************************************************)
(* The page table of a program and the loading of a page                   *)
(* (src/steps/13/m: vm.c, elfldr.c).  A table is a function from vpn[0] to *)
(* second-level entries; of the first level only entry 0 is ever set.      *)
(* RAM from USER_PA on is a function from cells to values.                 *)
(***************************************************************************)
EXTENDS Elf

CONSTANT VpnNum     \* PTE_ENTRY_NUM, entries of a table

ASSUME TableAssumption == VpnNum \in Nat \ {0}

Vpn0 == 0 .. VpnNum - 1
Off == -1

\* An entry whose val is zero.
NoPte == [valid |-> FALSE, flags |-> {}, ppn |-> Off]

\* Mutant of init_pte: the last entry is left out.
ShortTable == [n \in 0 .. VpnNum - 2 |-> NoPte]

init_pte == [n \in Vpn0 |-> NoPte]

va_vpn0(va) == PAGE_NUM(va) % VpnNum
va_vpn1(va) == PAGE_NUM(va) \div VpnNum

\* The entry for an address.
PteOf(table, va) == IF va_vpn1(va) = 0 THEN table[va_vpn0(va)] ELSE NoPte

\* setup_pte(): refuses an address beyond the first 4 MiB and an entry in use.
setup_pte(table, va, flags, frame, valid) ==
    IF va_vpn1(va) # 0 \/ PteOf(table, va).valid
    THEN table
    ELSE [table EXCEPT ![va_vpn0(va)] =
             [valid |-> valid, flags |-> flags, ppn |-> frame]]

\* va_to_pa(): the frame of an address, whether its entry is valid or not; Off
\* stands for the error.
va_to_pa(table, va) == PteOf(table, va).ppn

\* Mutant of Validated: the entry is left invalid.
NotValidated(table, va) == table

\* va_to_pa() with validate = 1 sets PTE_V.
Validated(table, va) == [table EXCEPT ![va_vpn0(va)].valid = TRUE]

\* The cell of RAM for an address of user memory.
CellOf(table, va) == va_to_pa(table, va) * PageSize + PAGE_OFFSET(va)

\* What the hart asks of an entry in U-mode.
Translates(table, va, kind) ==
    PteOf(table, va).valid /\ kind \in PteOf(table, va).flags

\* load_program_segment(): the mask of va_page_offset keeps the page number of
\* an offset in a page, so it is zero.
va_page_offset(va) == PAGE_ALIGN(va - PAGE_ALIGN(va))
CopySize(ph, va) ==
    LET size == ph.filesz - va_page_offset(va)
    IN IF size > PageSize THEN PageSize ELSE size

\* Mutant of LoadedRam: the copy starts at the first cell of the image.
LoadedFromStart(ram, table, ph, va) ==
    [c \in DOMAIN ram |->
        LET i == c - va_to_pa(table, va) * PageSize
        IN IF i \in 0 .. CopySize(ph, va) - 1 THEN Content(i) ELSE ram[c]]

\* RAM after the copy of a page.
LoadedRam(ram, table, ph, va) ==
    [c \in DOMAIN ram |->
        LET i == c - va_to_pa(table, va) * PageSize
        IN IF i \in 0 .. CopySize(ph, va) - 1
           THEN Content(ph.offset + va_page_offset(va) + i)
           ELSE ram[c]]

=============================================================================
