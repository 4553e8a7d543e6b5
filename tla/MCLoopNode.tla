------------------------------ MODULE MCLoopNode ------------------------------
(* Instance of LoopNode for TLC. *)
EXTENDS LoopNode, TLC

CONSTANT m1

CreateMaterial ==
  [route |-> "material", entity |-> "material", event |-> "created", id |-> m1,
   material |-> None, product |-> None, prior |-> None]

RelayMaterial == [CreateMaterial EXCEPT !.route = "relay"]

NodeBodies == {CreateMaterial, RelayMaterial}

Symmetry == Permutations(Requests) \cup Permutations(Clients)
=============================================================================
