------------------------------- MODULE MCKernel -------------------------------
(* Small instances of Kernel for TLC.  Stacks are 101 .. , futex words 201 ..,
   and the character 0 stands for any but control-C: it is the initial value of
   memory, and no property of a run looks at the character a reader got. *)
EXTENDS Kernel

MCBursts == {<<0>>, <<0, CtrlC>>}
NoBursts == {}
OneChar == {<<0>>}

=============================================================================
