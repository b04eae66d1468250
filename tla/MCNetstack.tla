----------------------------- MODULE MCNetstack -----------------------------
(* Netstack for TLC: small buffers, so that both marks are hit.            *)
EXTENDS Netstack
=============================================================================
