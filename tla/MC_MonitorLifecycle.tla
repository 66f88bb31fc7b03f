------------------------- MODULE MC_MonitorLifecycle -------------------------
(***************************************************************************)
(* Four CPUs, so that a monitor is shared by several tracers while another *)
(* is created or destroyed, and two monitor addresses, so that a freed    *)
(* monitor's address can come back or a second monitor be allocated.     *)
(***************************************************************************)
EXTENDS MonitorLifecycle

=============================================================================
