----------------------------- MODULE MCConsole -----------------------------
(* Every screen, query and role, with few versions and mishaps.             *)
EXTENDS Console
=============================================================================
