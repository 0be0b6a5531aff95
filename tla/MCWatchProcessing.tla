--------------------------- MODULE MCWatchProcessing ---------------------------
(* Small instances of WatchProcessing for TLC. *)
EXTENDS WatchProcessing

CONSTANTS good, bad     \* a version without and one with findings

Bad == {bad}
=============================================================================
