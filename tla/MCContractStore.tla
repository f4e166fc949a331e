--------------------------- MODULE MCContractStore ---------------------------
(* Finite instances of ContractStore for TLC.  The archive length is chosen  *)
(* in the initial state, so one instance covers 1 .. MaxLen bytes: less than *)
(* a chunk, exactly one, one byte more, exactly two, and two and a half.     *)
EXTENDS ContractStore, TLC

CONSTANTS d1, w1, w2, r1

MCWriters == {w1, w2}
MCSymmetry == Permutations(MCWriters)
=============================================================================
