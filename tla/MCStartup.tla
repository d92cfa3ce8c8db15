----------------------------- MODULE MCStartup -----------------------------
(* Startup with the values of the .cfg files. *)
EXTENDS Startup
=============================================================================
