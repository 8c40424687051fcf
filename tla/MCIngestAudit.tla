---------------------------- MODULE MCIngestAudit ----------------------------
(* The instances of MCIngest, with the history of IngestAudit.             *)
EXTENDS MCIngest, IngestAudit
=============================================================================
