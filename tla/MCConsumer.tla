----------------------------- MODULE MCConsumer -----------------------------
(* Small instances of Consumer for TLC.                                    *)
EXTENDS Consumer, TLC

Symmetry == Permutations(Writer) \cup Permutations(Inst)
=============================================================================
