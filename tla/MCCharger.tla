----------------------------- MODULE MCCharger -----------------------------
(* Small instances of the charger (the charger_*.cfg files). *)
EXTENDS Charger, ChargeInputs
=============================================================================
