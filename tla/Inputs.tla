-------------------------------- MODULE Inputs --------------------------------
(***************************************************************************)
(* The numbers a client sends: the amount of a payment intent               *)
(* (src/src/routes/payments.ts, src/src/db/payments.ts) and the limit of a  *)
(* list (src/src/routes/loop.ts, interest.ts, cities.ts). A client sends    *)
(* one request, and again if it was answered 500; no handler can tell.      *)
(*                                                                         *)
(* An amount is a decimal in thousandths. The server holds it as a double,  *)
(* here with Precision bits of significand: as in the code (53 bits, an     *)
(* INTEGER column) the precision is far beyond the cents it must tell apart.*)
(* A limit is in halves, so that one can be fractional.                     *)
(***************************************************************************)
EXTENDS Integers, Sequences

CONSTANTS
  Amounts,      \* amounts of payment intents, in thousandths
  Limits,       \* limits of lists, in halves
  Absent, Bad,  \* no limit, and one that is not a number
  Precision,    \* bits of a double's significand
  MaxCents,     \* the largest INTEGER
  PublicLimit,  \* config.publicLimit
  Available,    \* how many rows there are to list
  MaxFaults     \* bound on lost connections

ASSUME AmountsAssumption == Amounts \subseteq 1..(2 ^ Precision)
ASSUME LimitsAssumption == Limits \subseteq Int /\ Absent \notin Int /\ Bad \notin Int
ASSUME PrecisionAssumption ==
  Precision \in Nat \ {0} /\ MaxCents \in Nat /\ 32 * (MaxCents + 1) <= 2 ^ Precision
ASSUME BoundsAssumption == PublicLimit \in Nat /\ Available \in Nat /\ MaxFaults \in Nat

VARIABLES
  request,  \* what the client asks for
  pc,       \* what the handler awaits
  status,   \* its last answer
  rows,     \* how many rows a list answered with
  stored,   \* the cents of the rows of payment_intents; a webhook's row counts 0
  faults

vars == <<request, pc, status, rows, stored, faults>>

Lists == {"events", "entities", "interest", "cities"}
Requests == [kind : {"intent"}, amount : Amounts]
              \cup [kind : {"webhook"}, payload : {"object", "emptyArray", "array", "scalar"}]
              \cup [kind : Lists, limit : Limits \cup {Absent, Bad}]

Init ==
  /\ request \in Requests
  /\ pc = "idle" /\ status = 0 /\ rows = 0
  /\ stored = <<>> /\ faults = 0

Reply(code) == pc' = "done" /\ status' = code

-----------------------------------------------------------------------------
(* Amounts. *)

\* The integer nearest to n/d, the even one of two.
Nearest(n, d) ==
  LET q == n \div d
      r == n % d
  IN  IF 2 * r > d \/ (2 * r = d /\ q % 2 = 1) THEN q + 1 ELSE q

Normal(n, d) == 2 ^ (Precision - 1) * d <= n /\ n < 2 ^ Precision * d

\* JSON.parse of k thousandths: the double m / 2^e.
Double(k) ==
  LET e == CHOOSE e \in 0..(Precision + 9) : Normal(k * 2 ^ e, 1000)
  IN  [m |-> Nearest(k * 2 ^ e, 1000), e |-> e]

Hundredfold(x) ==
  LET d == CHOOSE d \in 0..8 : Normal(100 * x.m, 2 ^ d)
  IN  [m |-> Nearest(100 * x.m, 2 ^ d), e |-> x.e - d]

\* Faulty variant: Math.floor.
CentsFloored(k) == LET x == Hundredfold(Double(k)) IN x.m \div 2 ^ x.e

\* Math.round(amount * 100); Math.round takes halves up.
Cents(k) == LET x == Hundredfold(Double(k)) IN (2 * x.m + 2 ^ x.e) \div 2 ^ (x.e + 1)

-----------------------------------------------------------------------------
(* Payments. *)

\* Payments are disabled, the key is missing, the schema or validatePaymentIntent
\* refuses another field; an amount below 0.01 does not pass the schema.
Receive ==
  /\ pc = "idle"
  /\ request.kind \in {"intent", "webhook"}
  /\ \/ \E code \in {400, 401, 503} : Reply(code)
     \/ /\ request.kind = "intent" => request.amount >= 10
        /\ pc' = "insert" /\ status' = status
  /\ UNCHANGED <<request, rows, stored, faults>>

Value == IF request.kind = "intent" THEN Cents(request.amount) ELSE 0

\* What Postgres takes: cents that fit the column, a payload that is JSON. The driver
\* writes a JavaScript array as an array of Postgres, which is not, but for the empty
\* one: '{}' is an object of JSON.
Storable == IF request.kind = "intent" THEN Value <= MaxCents ELSE request.payload # "array"

Positive == IF request.kind = "intent" THEN 201 ELSE 202

Insert ==
  /\ pc = "insert"
  /\ Storable
  /\ stored' = Append(stored, Value)
  /\ Reply(Positive)
  /\ UNCHANGED <<request, rows, faults>>

InsertRefused ==
  /\ pc = "insert"
  /\ ~Storable
  /\ Reply(500)
  /\ UNCHANGED <<request, rows, stored, faults>>

\* The connection is lost, and the row is there or not.
InsertFails ==
  /\ faults < MaxFaults
  /\ pc = "insert"
  /\ stored' = stored \/ (Storable /\ stored' = Append(stored, Value))
  /\ Reply(500)
  /\ faults' = faults + 1
  /\ UNCHANGED <<request, rows>>

-----------------------------------------------------------------------------
(* Lists. *)

AtMost(x, y) == IF x < y THEN x ELSE y

\* Events, interest, cities: a limit that is absent or not positive stands for the
\* default.
PositiveOr(limit, cap, default) ==
  IF limit # Absent /\ limit > 0 THEN AtMost(limit, 2 * cap) ELSE 2 * default

\* Faulty variant: the cap is not applied to a limit the client gave.
CappedDefault(limit, cap, default) == IF limit = Absent THEN 2 * default ELSE limit

\* The entity lists: a limit is taken as it is, up to the cap.
Capped(limit, cap, default) == AtMost(IF limit = Absent THEN 2 * default ELSE limit, 2 * cap)

CapOf(kind) ==
  CASE kind = "events" -> 200 [] kind = "entities" -> 100 [] OTHER -> PublicLimit

Limit(kind, limit) ==
  CASE kind = "events" -> PositiveOr(limit, CapOf(kind), 50)
    [] kind = "entities" -> Capped(limit, CapOf(kind), 20)
    [] OTHER -> PositiveOr(limit, CapOf(kind), CapOf(kind))

\* Postgres takes a LIMIT that is whole and not negative.
Selectable(limit) == limit >= 0 /\ limit % 2 = 0

Select ==
  /\ pc = "idle"
  /\ request.kind \in Lists
  /\ IF request.limit = Bad THEN Reply(400) /\ rows' = rows
     ELSE LET limit == Limit(request.kind, request.limit) IN
          IF Selectable(limit)
            THEN Reply(200) /\ rows' = AtMost(limit \div 2, Available)
            ELSE Reply(500) /\ rows' = rows
  /\ UNCHANGED <<request, stored, faults>>

\* The client tries again.
Retry ==
  /\ status = 500
  /\ faults < MaxFaults
  /\ pc' = "idle" /\ status' = 0
  /\ faults' = faults + 1
  /\ UNCHANGED <<request, rows, stored>>

Next == Receive \/ Insert \/ InsertRefused \/ InsertFails \/ Select \/ Retry

Spec == Init /\ [][Next]_vars

-----------------------------------------------------------------------------
(* Properties. *)

\* Every row of a payment, also one whose client was told 500, holds the amount that
\* was asked for to the nearest cent, either of the two at half a cent, although the
\* double that carried it is not that amount; and a receipt has its row.
CentsAreNearest ==
  /\ request.kind = "intent" =>
       \A i \in DOMAIN stored : 10 * stored[i] - request.amount \in -5..5
  /\ status \in {201, 202} => stored # <<>>

\* Whatever limit a client sends, a list answers with no more rows than its cap; one
\* that is whole and in range is answered with as many rows as there are; and only a
\* limit that is fractional, or negative where the entity lists take it, is 500.
LimitsAreHonoured ==
  request.kind \in Lists =>
    /\ rows <= CapOf(request.kind)
    /\ status = 200 /\ request.limit \in {2 * n : n \in 1..CapOf(request.kind)} =>
         rows = AtMost(request.limit \div 2, Available)
    /\ status = 500 => \/ request.limit % 2 = 1
                       \/ request.limit < 0 /\ request.kind = "entities"
=============================================================================
