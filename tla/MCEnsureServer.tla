--------------------------- MODULE MCEnsureServer ---------------------------
(* EnsureServer for the runs that look for one violation: two command        *)
(* processes and two daemons.                                                *)
EXTENDS EnsureServer
=============================================================================
