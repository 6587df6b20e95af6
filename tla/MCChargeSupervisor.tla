------------------------- MODULE MCChargeSupervisor -------------------------
(* A small instance of the charge supervisor alone (supervisor_cycle.cfg).    *)
EXTENDS ChargeSupervisor, ChargeInputs
=============================================================================
