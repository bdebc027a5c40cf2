---------------------------- MODULE MCRetention ----------------------------
(* Retention on small instances; every behaviour ends. *)
EXTENDS Retention
=============================================================================
