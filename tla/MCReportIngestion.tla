------------------------- MODULE MCReportIngestion -------------------------
(* ReportIngestion with queued reports about the same entry. *)
EXTENDS ReportIngestion

CONSTANTS x, y  \* entries

SameTarget == [e \in Reports |-> x]
=============================================================================
