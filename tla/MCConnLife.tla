----------------------------- MODULE MCConnLife -----------------------------
(* Objects of one class are alike, and so are bufferevents.                *)
EXTENDS ConnLife, TLC

Symmetry == Permutations(Accepted) \cup Permutations(Bev)
=============================================================================
