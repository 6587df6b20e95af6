--------------------------- MODULE MCChargeWatch ---------------------------
(* A small instance of the observed charge supervisor (supervisor_windows.cfg). *)
EXTENDS ChargeWatch, ChargeInputs
=============================================================================
