----------------------------- MODULE MCStartup -----------------------------
(* Startup on small instances; every behaviour ends. *)
EXTENDS Startup
=============================================================================
