---------------------------- MODULE InterestLedger ----------------------------
(***************************************************************************)
(* What the interest pipeline promises, with no request, no queue, no retry *)
(* and no crash in sight: interests are stored under identifiers that no    *)
(* other has; each is told at most once, to the client that submitted it    *)
(* and to the stream in the same moment, and only when it is stored; an     *)
(* event is logged only of an interest that was told; nothing is taken back.*)
(***************************************************************************)
EXTENDS Naturals, Sequences

CONSTANT Rows  \* the rows clients may submit and an import may bring

VARIABLES
  stored,     \* the rows of interests
  told,       \* the identifiers of the submissions that were answered with success
  broadcast,  \* what the stream was told, in order
  logged      \* what interest_events was told, in order

vars == <<stored, told, broadcast, logged>>

Init == stored = {} /\ told = {} /\ broadcast = <<>> /\ logged = <<>>

Taken(i) == \E row \in stored : row.id = i

\* A submission stores one interest, an import as many as it brings.
Store(new) ==
  /\ stored' = stored \cup new
  /\ \A row, other \in new : row.id = other.id => row = other
  /\ UNCHANGED <<told, broadcast, logged>>

Tell(i) ==
  /\ i \notin told
  /\ told' = told \cup {i}
  /\ broadcast' = Append(broadcast, i)
  /\ UNCHANGED <<stored, logged>>

Log(i) ==
  /\ logged' = Append(logged, i)
  /\ UNCHANGED <<stored, told, broadcast>>

Next ==
  \/ \E row \in stored : Tell(row.id)
  \/ \E i \in told : Log(i)
  \/ \E new \in SUBSET {row \in Rows : ~Taken(row.id)} : Store(new)

Spec == Init /\ [][Next]_vars
=============================================================================
