----------------------------- MODULE MCLoopReseed -----------------------------
(* Instance of LoopReseed for TLC: clients follow up on the script's rows, and want   *)
(* its offer's identifier for an offer of another subject.                            *)
EXTENDS LoopReseed, TLC

CONSTANTS m1, p1, o1, x1

NewBody(route, id, material, product, prior) ==
  [route |-> route, entity |-> route, event |-> "created", id |-> id,
   material |-> material, product |-> product, prior |-> prior]

ReseedBodies ==
  {NewBody("offer", o1, m1, None, None), NewBody("match", x1, None, p1, o1),
   [NewBody("status", m1, m1, None, None) EXCEPT !.entity = "material",
                                                 !.event = "status_updated"]}

DemoRows == <<RowOf(NewBody("material", m1, None, None, None)),
              RowOf(NewBody("product", p1, None, None, None)),
              RowOf(NewBody("offer", o1, None, p1, None))>>

\* What is read again, by an action or a property of the run: not what was broadcast and
\* counted, nor what a request wanted that was refused, nor how one went wrong, nor how
\* far a run had got that is over.
Read ==
  LET refused == {r \in Requests : pc[r] = "done" /\ status[r] \in {400, 401, 409}}
      over == {k \in Runs : seeding[k] = "off"}
  IN  <<[r \in Requests |-> IF pc[r] = "lost" THEN "done" ELSE pc[r]],
        [r \in Requests |-> IF r \in refused THEN None ELSE body[r]],
        {r \in Requests : status[r] \in {201, 202}}, rows, log, adrift, faults,
        seeding, [k \in Runs |-> IF k \in over THEN 0 ELSE seeded[k]], cut \ over,
        fresh \ over, late>>

Symmetry == Permutations(Requests) \cup Permutations(Runs)
=============================================================================
