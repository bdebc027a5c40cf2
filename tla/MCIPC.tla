------------------------------- MODULE MCIPC -------------------------------
(* IPC on small instances. *)
EXTENDS IPC
=============================================================================
