--------------------------- MODULE MCDataManager ---------------------------
(* Instances of DataManager for TLC. *)
EXTENDS DataManager, TLC

\* Request threads are interchangeable, and so are heap addresses.
MCSymmetry == Permutations(Workers) \cup Permutations(Addr)

=============================================================================
