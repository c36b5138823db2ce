--------------------------- MODULE MC_LeaseStore ---------------------------
EXTENDS LeaseStore, TLC

\* Operations differ only in what they do, pods only in their names.
OpSymmetry == Permutations(Ops) \cup Permutations(Pods)

=============================================================================
