----------------------------- MODULE ProtoSize -----------------------------
(***************************************************************************)
(* The sizes the generated binary codec computes before it encodes; the    *)
(* messages and the codec itself are in module ProtoVT.                    *)
(***************************************************************************)
EXTENDS Naturals, Sequences

SizeOfVarint[n \in Nat] == IF n < 128 THEN 1 ELSE 1 + SizeOfVarint[n \div 128]

\* Mutant of SizeVT: the length prefix is forgotten.
SizeNoPrefix(m) ==
  (IF m.bytes = <<>> THEN 0 ELSE 1 + Len(m.bytes))
    + (IF m.num = 0 THEN 0 ELSE 1 + SizeOfVarint[m.num])

SizeVT(m) ==
  (IF m.bytes = <<>> THEN 0 ELSE 1 + SizeOfVarint[Len(m.bytes)] + Len(m.bytes))
    + (IF m.num = 0 THEN 0 ELSE 1 + SizeOfVarint[m.num])
=============================================================================
