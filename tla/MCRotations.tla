---------------------------- MODULE MCRotations ----------------------------
(* Rotations on a small instance: one thread that rotates and continues.    *)
EXTENDS Rotations

CONSTANT c1
=============================================================================
