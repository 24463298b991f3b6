----------------------------- MODULE MCShutdown -----------------------------
(* Definitions for TLC's runs of Shutdown.                                 *)
EXTENDS Shutdown
=============================================================================
