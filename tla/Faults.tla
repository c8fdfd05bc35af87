------------------------------- MODULE Faults -------------------------------
(***************************************************************************)
(* The faults of a run (a call to the database, Redis or a handler that    *)
(* fails, a process that stops), of which there are at most MaxFaults. The *)
(* module that extends this one says what each of its faults does.         *)
(***************************************************************************)
EXTENDS Naturals

CONSTANT MaxFaults

ASSUME MaxFaultsIsNat == MaxFaults \in Nat

VARIABLE faults

Fault == faults < MaxFaults /\ faults' = faults + 1
=============================================================================
