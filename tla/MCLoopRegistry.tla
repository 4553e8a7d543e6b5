---------------------------- MODULE MCLoopRegistry ----------------------------
(* Instances of LoopRegistry for TLC. *)
EXTENDS LoopRegistry, TLC

CONSTANTS m1, p1, o1, x1, t1

NewBody(route, id, material, product, prior) ==
  [route |-> route, entity |-> route, event |-> "created", id |-> id,
   material |-> material, product |-> product, prior |-> prior]

StatusBody(id) == [NewBody("status", id, id, None, None) EXCEPT
                     !.entity = "material", !.event = "status_updated"]

RelayBody(entity, event, id) ==
  [NewBody("relay", id, None, None, None) EXCEPT !.entity = entity, !.event = event]

\* One chain, material to transfer, its status changes and what other nodes relay of
\* it, each request sent as often as there are requests left.
ChainBodies ==
  {NewBody("material", m1, None, None, None), NewBody("offer", o1, m1, None, None),
   NewBody("match", x1, m1, None, o1), NewBody("transfer", t1, m1, None, x1),
   StatusBody(m1), RelayBody("material", "created", m1), RelayBody("offer", "status_updated", o1)}

\* Two subjects that compete for one offer and one match, alone and together.
RivalBodies ==
  {NewBody("material", m1, None, None, None), NewBody("product", p1, None, None, None),
   NewBody("offer", o1, m1, None, None), NewBody("offer", o1, None, p1, None),
   NewBody("match", x1, m1, None, o1), NewBody("match", x1, None, p1, o1),
   NewBody("match", x1, m1, p1, o1)}

\* Every route with an existence check of its own, for the liveness run.
LiveBodies ==
  {NewBody("material", m1, None, None, None), NewBody("offer", o1, m1, None, None),
   StatusBody(m1), RelayBody("offer", "created", o1)}

Symmetry == Permutations(Requests)
=============================================================================
