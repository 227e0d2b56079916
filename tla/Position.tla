------------------------------ MODULE Position ------------------------------
(***************************************************************************)
(* The arithmetic of a budget line's position (ledger/engine.py, class     *)
(* Position): the seven balance components, the control base the fiscal    *)
(* year's control basis selects, the available balance, the part of the    *)
(* appropriation not yet allocated, and the availability check.            *)
(*                                                                         *)
(* A position is a function from components to integers.  Money is a       *)
(* NUMERIC(18,3) in the program; one unit here is its smallest unit.       *)
(***************************************************************************)
EXTENDS Integers

Components == {"APPROPRIATION", "ALLOCATION", "TRANSFER_IN", "TRANSFER_OUT",
               "RESERVATION", "COMMITMENT", "ACTUAL"}

Bases == {"APPROPRIATION", "AUTHORIZATION", "TWO_LEVEL"}

Positions == [Components -> Int]

NoMovement == [c \in Components |-> 0]

\* The larger of an integer and zero: Python's max(x, ZERO).
Positive(x) == IF x > 0 THEN x ELSE 0

ControlBase(basis, p) ==
  IF basis = "APPROPRIATION" THEN p["APPROPRIATION"] ELSE p["ALLOCATION"]

AdjustedBudget(basis, p) ==
  ControlBase(basis, p) + p["TRANSFER_IN"] - p["TRANSFER_OUT"]

CountedReservation(counted, p) == IF counted THEN p["RESERVATION"] ELSE 0

Available(basis, counted, p) ==
  AdjustedBudget(basis, p) - p["ACTUAL"] - p["COMMITMENT"]
    - CountedReservation(counted, p)

\* None in the program unless the year is under two-level control.
Unallocated(p) == p["APPROPRIATION"] - p["ALLOCATION"]

WithDeltas(p, d) == [c \in Components |-> p[c] + d[c]]

\* Mutant of Shortfall: an overdraft already there is counted once more.
ShortfallWithOverdraft(available, requested) == Positive(requested - available)

\* check_amount: what a consumption of `requested` lacks.  A balance that is
\* already overdrawn offers nothing, and is not made good by the request.
Shortfall(available, requested) == Positive(requested - Positive(available))

=============================================================================
