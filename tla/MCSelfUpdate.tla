---------------------------- MODULE MCSelfUpdate ----------------------------
(* SelfUpdate with interchangeable jobs, keys, requests and workers.       *)
EXTENDS SelfUpdate, TLC

Symmetry == Permutations(Jobs) \cup Permutations(Keys)
            \cup Permutations(Requests) \cup Permutations(Workers)
=============================================================================
