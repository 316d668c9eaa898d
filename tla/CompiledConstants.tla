------------------------- MODULE CompiledConstants -------------------------
(***************************************************************************)
(* What the compiler promises of the constants of a program: an opcode     *)
(* that refers to a constant reads that constant, from the moment it is    *)
(* compiled, whatever else is compiled after it and in other packages, and *)
(* in the image that runs.  An opcode is added with what it means; what it *)
(* reads is part of the state, and nothing changes it.                     *)
(***************************************************************************)
EXTENDS Naturals, Sequences

VARIABLE reads  \* one record per opcode: what it means and what it reads

Init == reads = <<>>

Refer ==
  /\ Len(reads') = Len(reads) + 1
  /\ \A i \in DOMAIN reads : reads'[i] = reads[i]
  /\ LET last == reads'[Len(reads) + 1] IN last.reads = last.means

Spec == Init /\ [][Refer]_reads
=============================================================================
