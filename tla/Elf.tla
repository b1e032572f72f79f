---------------------------------- MODULE Elf ----------------------------------
(***************************************************************************)
(* The checks on an ELF image and the search for the segment of an address *)
(* (src/steps/13/m/elfldr.c).  Arithmetic is that of uint32_t, with        *)
(* MaxWord in the place of UINT32_MAX.                                     *)
(*                                                                         *)
(* An image is a record: ident (class, type and machine are the right      *)
(* ones), size (of the image in cells) and phdrs, its program headers.     *)
(***************************************************************************)
EXTENDS Integers, Sequences

CONSTANTS
    MaxWord,    \* the largest value of an address or a size
    PageSize    \* PAGE_SIZE, in cells

ASSUME WordAssumption ==
    /\ MaxWord \in Nat /\ PageSize \in Nat \ {0}
    /\ PageSize <= MaxWord

Word == 0 .. MaxWord
Kinds == {"R", "W", "X"}
ProgramHeaders == [load : BOOLEAN, offset : Word, vaddr : Word,
                   filesz : Word, memsz : Word, flags : SUBSET Kinds]

\* uint32_t addition wraps around.
Plus(a, b) == (a + b) % (MaxWord + 1)

PAGE_OFFSET(x) == x % PageSize
PAGE_ALIGN(x) == x - PAGE_OFFSET(x)
PAGE_ALIGN_UP(x) == PAGE_ALIGN(Plus(x, PageSize - 1))
PAGE_NUM(x) == x \div PageSize

\* check_phdr(): only segments to be loaded are looked at, p_memsz is not.
check_phdr(ph, size) ==
    ph.load =>
        /\ ph.filesz <= size /\ ph.offset < size
        /\ Plus(ph.vaddr, ph.filesz) >= ph.vaddr
        /\ Plus(ph.offset, ph.filesz) >= ph.offset

\* check_ehdr(): class, type and machine, then every program header.
check_ehdr(elf) ==
    elf.ident /\ \A i \in DOMAIN elf.phdrs : check_phdr(elf.phdrs[i], elf.size)

Covers(ph, va, kind) ==
    /\ ph.load /\ kind \in ph.flags
    /\ va >= ph.vaddr /\ va < Plus(ph.vaddr, ph.memsz)

\* get_phdr_from_va(): the first segment that holds va and allows the access;
\* the empty set stands for NULL.
get_phdr_from_va(elf, va, kind) ==
    LET Hits == {i \in DOMAIN elf.phdrs : Covers(elf.phdrs[i], va, kind)}
    IN {elf.phdrs[i] : i \in {j \in Hits : \A k \in Hits : j <= k}}

\* Cell i of an image; every cell has a value of its own.
Content(i) == 100 + i

\* The segments that have file content for an address.
FilledBy(elf, va) ==
    {i \in DOMAIN elf.phdrs :
        LET ph == elf.phdrs[i] IN
        ph.load /\ ph.vaddr <= va /\ va < ph.vaddr + ph.filesz}

\* Mutant of load_elf: the offset of the segment in the image is forgotten.
LoadedWithoutOffset(elf, unset) ==
    [va \in Word |->
        IF FilledBy(elf, va) = {} THEN unset
        ELSE Content(va - elf.phdrs[CHOOSE i \in FilledBy(elf, va) : TRUE].vaddr)]

\* load_elf(): the memory of a program after its segments were copied; what no
\* segment has content for stays unset.
load_elf(elf, unset) ==
    [va \in Word |->
        IF FilledBy(elf, va) = {} THEN unset
        ELSE LET ph == elf.phdrs[CHOOSE i \in FilledBy(elf, va) : TRUE]
             IN Content(ph.offset + va - ph.vaddr)]

=============================================================================
