---------------------------- MODULE MCDiscovery ----------------------------
(***************************************************************************)
(* Two nodes of any nature, a receiver of two slots.                       *)
(***************************************************************************)
EXTENDS Discovery

CONSTANTS p1, p2

MCScan == <<p1, p2>>
=============================================================================
