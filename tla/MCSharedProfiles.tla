--------------------------- MODULE MCSharedProfiles ---------------------------
\* An instance of SharedProfiles for TLC.
EXTENDS SharedProfiles, TLC

Symmetry == Permutations(Clis) \cup Permutations(Engines) \cup Permutations(Accounts)
================================================================================
