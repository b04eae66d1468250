----------------------------- MODULE MCMicroVm ------------------------------
(* Two callers of one VM name.                                             *)
EXTENDS MicroVm

CONSTANTS c1, c2

\* Every property excuses a behaviour from its first race on, so none is
\* followed beyond it.
Unraced == ~raced
=============================================================================
