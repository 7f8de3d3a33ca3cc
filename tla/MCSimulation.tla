---------------------------- MODULE MCSimulation ----------------------------
(* Simulation, with starting stacks that let a seat go broke. *)
EXTENDS Simulation

const_stacks == [s \in 0 .. 2 |-> 2 - s]
=============================================================================
