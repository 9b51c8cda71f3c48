------------------------------ MODULE MCLaunch ------------------------------
(* The launches and the helpers are interchangeable. *)
EXTENDS Launch, TLC

Interchangeable == Permutations(Cell) \cup Permutations(Helper)

=============================================================================
