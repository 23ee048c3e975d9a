----------------------------- MODULE MCIntercom -----------------------------
(* Instances of Intercom for TLC. *)
EXTENDS Intercom, TLC

\* Endpoints are interchangeable, and so are call ids (for safety only).
Symmetry == Permutations(Endpoints) \cup Permutations(Calls)
=============================================================================
