------------------------ MODULE MCControllerActions ------------------------
(* Small instances of ControllerActions for TLC. *)
EXTENDS ControllerActions, TLC

Symmetry == Permutations(RequestIds) \cup Permutations(Devices)
            \cup Permutations(Outages) \cup Permutations(Servers)
=============================================================================
