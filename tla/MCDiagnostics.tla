--------------------------- MODULE MCDiagnostics ---------------------------
(* A ring of a few bytes and an event log of a few entries (diagnostics.cfg). *)
EXTENDS Diagnostics
=============================================================================
