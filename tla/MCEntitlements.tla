----------------------------- MODULE MCEntitlements -----------------------------
(* Small instances of Entitlements: a grant that is required, one optional.   *)
EXTENDS Entitlements

CONSTANTS p1, p2, a1, egress, mount

OnlyAll == {{egress, mount}}
================================================================================
