--------------------------- MODULE MCSiemManager ---------------------------
(* Small instances of SiemManager for TLC. *)
EXTENDS SiemManager
============================================================================
