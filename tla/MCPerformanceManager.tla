------------------------ MODULE MCPerformanceManager ------------------------
(* The instance of PerformanceManager that TLC checks. *)
EXTENDS PerformanceManager
=============================================================================
