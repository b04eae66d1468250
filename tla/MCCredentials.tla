----------------------------- MODULE MCCredentials -----------------------------
\* An instance of Credentials for TLC.
EXTENDS Credentials, TLC

Symmetry == Permutations(Keys) \cup Permutations(Invites) \cup Permutations(Requests)
================================================================================
