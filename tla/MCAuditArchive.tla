--------------------------- MODULE MCAuditArchive ---------------------------
(* Small instance of AuditArchive for TLC. *)
EXTENDS AuditArchive
=============================================================================
