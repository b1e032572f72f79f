------------------------------- MODULE MCPaging -------------------------------
EXTENDS Paging

Header(offset, vaddr, filesz, memsz, flags) ==
    [load |-> TRUE, offset |-> offset, vaddr |-> vaddr, filesz |-> filesz,
     memsz |-> memsz, flags |-> flags]
Elf32(size, phdrs) == [ident |-> TRUE, size |-> size, phdrs |-> phdrs]

\* The segments of u-va.ld, those of u-va-xonly.ld, and images with an error.
UserVa == Elf32(9, <<Header(1, 0, 2, 2, {"R", "X"}), Header(3, 2, 1, 2, {"R", "W"})>>)
UserVaXOnly == Elf32(9, <<Header(1, 0, 2, 2, {"X"}), Header(3, 2, 2, 2, {"R"}),
                          Header(5, 4, 1, 2, {"R", "W"})>>)
OtherMachine == [UserVa EXCEPT !.ident = FALSE]
Truncated == [UserVa EXCEPT !.size = 3]
TwoPages == [UserVa EXCEPT !.phdrs[2].memsz = 3]

MCImages == {UserVa, UserVaXOnly, OtherMachine, Truncated, TwoPages}

=============================================================================
