---------------------------- MODULE MCAuditChain ----------------------------
(***************************************************************************)
(* Small instances of AuditChain: two requests in one process, one in      *)
(* another.                                                                *)
(***************************************************************************)
EXTENDS AuditChain, TLC

CONSTANTS h1, h2, h3, p1, p2, a1, a2

MCHome == (h1 :> p1) @@ (h2 :> p1) @@ (h3 :> p2)
=============================================================================
