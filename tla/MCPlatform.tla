----------------------------- MODULE MCPlatform -----------------------------
(***************************************************************************)
(* One device, three descriptor numbers: the device's two and one more.    *)
(***************************************************************************)
EXTENDS Platform
=============================================================================
