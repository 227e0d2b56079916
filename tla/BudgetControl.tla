--------------------------- MODULE BudgetControl ---------------------------
(***************************************************************************)
(* The budget engine of one fiscal year: the append-only ledger, the       *)
(* balance kept beside it, the availability check every posting passes,    *)
(* override grants, periods, and the year's settings.                      *)
(*                                                                         *)
(* Every transaction that writes takes the same advisory lock before it    *)
(* reads a balance (core/db.py), so a posting is one atomic action here.   *)
(* A posting is the net movement of a document on every line; documents    *)
(* themselves are modelled in Procurement.                                 *)
(***************************************************************************)
EXTENDS Position, Sequences, FiniteSets, Functions

CONSTANTS
  Lines,          \* budget lines of the year
  Users,          \* the users who approve postings and issue grants
  Grants,         \* identities of override grants
  Periods,        \* accounting periods of the year
  MaxAmount,      \* bound: the largest amount of a document line or grant
  MaxPostings,    \* bound: the length of the ledger
  MaxUncovered,   \* bound: what changes of the settings uncover on a line
  AnyLine,        \* budget_line_id IS NULL: a grant not tied to a line
  NoGrant         \* a posting without override_grant_id

ASSUME AmountsAssumption == MaxAmount \in Nat /\ MaxPostings \in Nat /\ MaxUncovered \in Nat
ASSUME NamesAssumption   == AnyLine \notin Lines /\ NoGrant \notin Grants
ASSUME FiniteAssumption  == IsFiniteSet(Lines) /\ IsFiniteSet(Grants)

VARIABLES
  yearStatus,     \* fiscal_years.status, until closing (see YearEnd)
  basis,          \* fiscal_years.control_basis
  counted,        \* fiscal_years.count_reservations
  period,         \* fiscal_periods.status
  ledger,         \* the postings, in ledger_entries.entry_no order
  balance,        \* budget_balances
  grants,         \* override_grants
  byGrant,        \* history: shortfall of a line that grants covered
  byHistory,      \* history: shortfall of a line accepted with imported history
  byPolicy        \* history: shortfall a change of the year's settings uncovered

excuses == <<byGrant, byHistory, byPolicy>>
vars == <<yearStatus, basis, counted, period, ledger, balance, grants, excuses>>

Amounts == 1 .. MaxAmount

Movements == [Lines -> Positions]

Posting == [kind       : {"ORIGINAL_BUDGET", "DOCUMENT", "REVERSAL"},
            delta      : Movements,
            reverses   : Nat,                    \* 0: reverses nothing
            period     : Periods,
            grant      : Grants \cup {NoGrant},
            historical : BOOLEAN]

Grant == [status : {"NONE", "VALID", "ENDED"},
          user   : Users,
          line   : Lines \cup {AnyLine},
          max    : Nat,
          used   : Nat]

\* The columns of budget_balances with CHECK (... >= 0).
NonNegative == {"TRANSFER_IN", "TRANSFER_OUT", "RESERVATION", "COMMITMENT"}

TypeOK ==
  /\ yearStatus \in {"PLANNING", "OPEN"}
  /\ basis \in Bases
  /\ counted \in BOOLEAN
  /\ period \in [Periods -> {"OPEN", "CLOSED"}]
  /\ ledger \in Seq(Posting)
  /\ balance \in [Lines -> Positions]
  /\ \A l \in Lines, c \in NonNegative : balance[l][c] >= 0
  /\ grants \in [Grants -> Grant]
  /\ byGrant \in [Lines -> Nat]
  /\ byHistory \in [Lines -> Nat]
  /\ byPolicy \in [Lines -> Nat]

-----------------------------------------------------------------------------
(* What the document services ask the engine to post.                      *)

\* One entry: an amount on one component of one line.
On(l, c, n) ==
  [k \in Lines |-> [x \in Components |-> IF k = l /\ x = c THEN n ELSE 0]]

And(d, e) == [l \in Lines |-> WithDeltas(d[l], e[l])]

\* budget.component_for
BudgetComponent == IF basis = "AUTHORIZATION" THEN "ALLOCATION" ELSE "APPROPRIATION"

\* A document with a line for each budget line it names, all on one component.
Spread(c, sign) ==
  {[l \in Lines |-> On(l, c, sign * a[l])[l]] :
     a \in [Lines -> 0 .. MaxAmount] \ {[l \in Lines |-> 0]}}

OriginalBudgets == Spread("APPROPRIATION", 1)

BudgetChanges == Spread(BudgetComponent, 1) \cup Spread(BudgetComponent, -1)

Allocations == Spread("ALLOCATION", 1)

\* transfers.build_posting: the two sides of a line always go together.
Transfers ==
  {And(On(ft[1], "TRANSFER_OUT", a), On(ft[2], "TRANSFER_IN", a)) :
     ft \in {x \in Lines \X Lines : x[1] # x[2]}, a \in Amounts}

Reservations == {On(l, "RESERVATION", a) : l \in Lines, a \in Amounts}

\* An order raised from a purchase request releases what the request held.
Orders ==
  {And(On(l, "RESERVATION", -held), On(l, "COMMITMENT", a)) :
     l \in Lines, held \in 0 .. MaxAmount, a \in Amounts}

\* A payment liquidates min(amount, outstanding) of its commitment.
Expenditures ==
  {And(On(l, "ACTUAL", x[1]), On(l, "COMMITMENT", -x[2])) :
     l \in Lines, x \in {y \in Amounts \X (0 .. MaxAmount) : y[2] <= y[1]}}

Cancellations ==
  {On(l, c, -a) : l \in Lines, c \in {"RESERVATION", "COMMITMENT"}, a \in Amounts}

Adjustments ==
  {On(l, c, s * a) : l \in Lines, c \in {"APPROPRIATION", "ALLOCATION", "ACTUAL"},
                     s \in {1, -1}, a \in Amounts}

DocumentMovements ==
  UNION {BudgetChanges, Allocations, Transfers, Reservations, Orders, Expenditures,
         Cancellations, Adjustments}

\* What imports.commit posts with historical_exception=True.
HistoricalMovements ==
  UNION {Allocations, Transfers, {On(l, c, a) : l \in Lines, c \in {"COMMITMENT", "ACTUAL"},
                                                a \in Amounts}}

-----------------------------------------------------------------------------
(* The check: engine._evaluate.                                            *)

AvailableIn(p) == Available(basis, counted, p)

After(delta, l) == WithDeltas(balance[l], delta[l])

\* What the movement consumes of the line beyond what is available on it.
ShortOn(delta, l) ==
  LET before == AvailableIn(balance[l])
      after  == AvailableIn(After(delta, l))
  IN IF after < before THEN Shortfall(before, before - after) ELSE 0

GrantUsable(g, user) ==
  g # NoGrant => /\ grants[g].status = "VALID"
                 /\ grants[g].user = user

Covers(g, l) == g # NoGrant /\ grants[g].line \in {l, AnyLine}

\* Mutant of Funded: a grant is taken to cover every line of the document.
FundedUnderAnyGrant(delta, g, historical) ==
  \A l \in Lines : ShortOn(delta, l) > 0 => g # NoGrant \/ historical

\* INSUFFICIENT_BUDGET unless the grant covers the line or history is imported.
Funded(delta, g, historical) ==
  \A l \in Lines : ShortOn(delta, l) > 0 => Covers(g, l) \/ historical

\* Mutant of WithinAppropriation: only documents that allocate are checked.
WithinWhenAllocating(delta, historical) ==
  basis = "TWO_LEVEL" /\ ~historical =>
    \A l \in Lines : delta[l]["ALLOCATION"] > 0 => Unallocated(After(delta, l)) >= 0

\* EXCEEDS_APPROPRIATION, in a year under two-level control.
WithinAppropriation(delta, historical) ==
  basis = "TWO_LEVEL" /\ ~historical =>
    \A l \in Lines :
      LET after == Unallocated(After(delta, l))
      IN after < 0 => after >= Unallocated(balance[l])

\* NEGATIVE_OUTSTANDING, and the CHECK constraints of budget_balances.
ColumnsNonNegative(delta) ==
  \A l \in Lines, c \in NonNegative : After(delta, l)[c] >= 0

GrantedBy(delta, g, l) == IF Covers(g, l) THEN ShortOn(delta, l) ELSE 0

OverrideNeeded(delta, g) == SumFunction([l \in Lines |-> GrantedBy(delta, g, l)])

\* Mutant of ChargeGrant: compared with the maximum, not with what is left.
ChargeGrantAnew(delta, g) ==
  IF g = NoGrant THEN UNCHANGED grants
  ELSE LET needed == OverrideNeeded(delta, g)
       IN /\ needed \in 0 .. grants[g].max
          /\ grants' = [grants EXCEPT ![g].used = @ + needed]

\* OVERRIDE_EXCEEDED, and used_amount += override_needed.
ChargeGrant(delta, g) ==
  IF g = NoGrant THEN UNCHANGED grants
  ELSE LET needed == OverrideNeeded(delta, g)
       IN /\ needed \in 0 .. (grants[g].max - grants[g].used)
          /\ grants' = [grants EXCEPT ![g].used = @ + needed]

\* engine.post: all of it or, when a conjunct fails, none of it.
Post(kind, delta, reverses, user, g, historical) ==
  /\ yearStatus = "OPEN"
  /\ "OPEN" \in {period[p] : p \in Periods}      \* else PERIOD_CLOSED, before all else
  /\ GrantUsable(g, user)
  /\ Funded(delta, g, historical)
  /\ WithinAppropriation(delta, historical)
  /\ ColumnsNonNegative(delta)
  /\ ChargeGrant(delta, g)
  /\ \E p \in Periods :
       /\ period[p] = "OPEN"
       /\ ledger' = Append(ledger, [kind |-> kind, delta |-> delta, reverses |-> reverses,
                                    period |-> p, historical |-> historical,
                                    grant |-> IF OverrideNeeded(delta, g) > 0 THEN g ELSE NoGrant])
  /\ balance' = [l \in Lines |-> After(delta, l)]
  /\ byGrant' = [l \in Lines |-> byGrant[l] + GrantedBy(delta, g, l)]
  /\ byHistory' = [l \in Lines |-> byHistory[l]
                     + IF historical /\ ~Covers(g, l) THEN ShortOn(delta, l) ELSE 0]
  /\ UNCHANGED <<yearStatus, basis, counted, period, byPolicy>>

Reversed(i) == \E j \in 1 .. Len(ledger) : ledger[j].reverses = i

Touches(i, l) == ledger[i].delta[l] # NoMovement

\* ORIGINAL_ALREADY_POSTED: one original appropriation in force on a line.
FirstOriginal(delta) ==
  \A i \in 1 .. Len(ledger) :
    ledger[i].kind = "ORIGINAL_BUDGET" /\ ~Reversed(i) =>
      \A l \in Lines : Touches(i, l) => delta[l] = NoMovement

\* The bound of the ledger, looked at before movements are enumerated: beyond it nothing
\* is posted, so settings, periods and grants rest too.
Room == Len(ledger) < MaxPostings

PostOriginalBudget ==
  /\ Room
  /\ \E delta \in OriginalBudgets, u \in Users, g \in Grants \cup {NoGrant} :
       FirstOriginal(delta) /\ Post("ORIGINAL_BUDGET", delta, 0, u, g, FALSE)

PostDocument ==
  /\ Room
  /\ \E delta \in DocumentMovements, u \in Users, g \in Grants \cup {NoGrant} :
       Post("DOCUMENT", delta, 0, u, g, FALSE)

PostHistory ==
  /\ Room
  /\ \E delta \in HistoricalMovements, u \in Users :
       Post("DOCUMENT", delta, 0, u, NoGrant, TRUE)

\* Mutant of Opposite: the receiving side of a transfer is left standing.
OppositeWithoutIncoming(delta) ==
  [l \in Lines |-> [c \in Components |-> IF c = "TRANSFER_IN" THEN 0 ELSE -delta[l][c]]]

\* engine.reversal_specs: every entry of the document, in the other direction.
Opposite(delta) == [l \in Lines |-> [c \in Components |-> -delta[l][c]]]

\* Mutant of Reversible: a document can be reversed again.
ReversibleAgain(i) == ledger[i].kind # "REVERSAL"

Reversible(i) == ledger[i].kind # "REVERSAL" /\ ~Reversed(i)

PostReversal ==
  /\ Room
  /\ \E i \in 1 .. Len(ledger), u \in Users, g \in Grants \cup {NoGrant} :
       Reversible(i) /\ Post("REVERSAL", Opposite(ledger[i].delta), i, u, g, FALSE)

-----------------------------------------------------------------------------
(* The year, its periods and settings: fiscal/service.py.                  *)

OpenYear ==
  /\ yearStatus = "PLANNING"
  /\ yearStatus' = "OPEN"
  /\ UNCHANGED <<basis, counted, period, ledger, balance, grants, excuses>>

\* Counting reservations from now on takes them out of what is available; the
\* history variable keeps what that leaves uncovered.
UpdateYearSettings ==
  /\ Room
  /\ \E b \in Bases, c \in BOOLEAN :
       /\ b # basis => yearStatus = "PLANNING"
       /\ basis' = b
       /\ counted' = c
       /\ byPolicy' = [l \in Lines |->
            LET before == Available(basis, counted, balance[l])
                after  == Available(b, c, balance[l])
            IN byPolicy[l] + IF after < before THEN Shortfall(before, before - after) ELSE 0]
       /\ \A l \in Lines : byPolicy'[l] <= MaxUncovered
       /\ UNCHANGED <<yearStatus, period, ledger, balance, grants, byGrant, byHistory>>

ClosePeriod(p) ==
  /\ Room
  /\ period[p] = "OPEN"
  /\ period' = [period EXCEPT ![p] = "CLOSED"]
  /\ UNCHANGED <<yearStatus, basis, counted, ledger, balance, grants, excuses>>

ReopenPeriod(p) ==
  /\ Room
  /\ period[p] = "CLOSED"
  /\ period' = [period EXCEPT ![p] = "OPEN"]
  /\ UNCHANGED <<yearStatus, basis, counted, ledger, balance, grants, excuses>>

-----------------------------------------------------------------------------
(* Override grants: ledger/router.py.                                      *)

\* Nobody grants an exception to themselves (SELF_GRANT).
CreateGrant(g) ==
  /\ Room
  /\ grants[g].status = "NONE"
  /\ \E granter, user \in Users, line \in Lines \cup {AnyLine}, max \in Amounts :
       /\ user # granter
       /\ grants' = [grants EXCEPT ![g] = [status |-> "VALID", user |-> user, line |-> line,
                                           max |-> max, used |-> 0]]
  /\ UNCHANGED <<yearStatus, basis, counted, period, ledger, balance, excuses>>

\* revoke_grant, or valid_to passes: either way the grant is of no more use.
EndGrant(g) ==
  /\ Room
  /\ grants[g].status = "VALID"
  /\ grants' = [grants EXCEPT ![g].status = "ENDED"]
  /\ UNCHANGED <<yearStatus, basis, counted, period, ledger, balance, excuses>>

-----------------------------------------------------------------------------

Init ==
  /\ yearStatus = "PLANNING"
  /\ basis \in Bases
  /\ counted \in BOOLEAN
  /\ period = [p \in Periods |-> "OPEN"]
  /\ ledger = <<>>
  /\ balance = [l \in Lines |-> NoMovement]
  /\ \E u \in Users :                    \* no grant is there yet: its fields mean nothing
       grants = [g \in Grants |-> [status |-> "NONE", user |-> u, line |-> AnyLine,
                                   max |-> 0, used |-> 0]]
  /\ byGrant = [l \in Lines |-> 0]
  /\ byHistory = [l \in Lines |-> 0]
  /\ byPolicy = [l \in Lines |-> 0]

Next ==
  \/ PostOriginalBudget
  \/ PostDocument
  \/ PostHistory
  \/ PostReversal
  \/ OpenYear
  \/ UpdateYearSettings
  \/ \E p \in Periods : ClosePeriod(p) \/ ReopenPeriod(p)
  \/ \E g \in Grants : CreateGrant(g) \/ EndGrant(g)

Spec == Init /\ [][Next]_vars

-----------------------------------------------------------------------------
(* Properties.                                                             *)

FundsOn(l) == AvailableIn(balance[l])

ExcusedOn(l) == byGrant[l] + byHistory[l] + byPolicy[l]

\* A line is never overdrawn by more than what override grants covered on it,
\* imported history brought, and a change of the settings uncovered: the check
\* of engine._evaluate lets nothing else through, reversals included.
OverdraftAccounted == \A l \in Lines : FundsOn(l) >= -ExcusedOn(l)

\* Under two-level control the allocations of a line stay within its
\* appropriation, whichever of the two a document moves, unless history was
\* imported on the line (EXCEEDS_APPROPRIATION in engine._evaluate).
AllocationWithinAppropriation ==
  basis = "TWO_LEVEL" =>
    \A l \in Lines :
      \/ Unallocated(balance[l]) >= 0
      \/ \E i \in 1 .. Len(ledger) : ledger[i].historical /\ Touches(i, l)

SumOverLines(c) == SumFunction([l \in Lines |-> balance[l][c]])

\* Transfers create no money: over the year, what left lines is what reached
\* lines (INV-03), also after transfers were reversed.
TransfersCreateNoMoney == SumOverLines("TRANSFER_OUT") = SumOverLines("TRANSFER_IN")

InForce == {i \in 1 .. Len(ledger) : ledger[i].kind # "REVERSAL" /\ ~Reversed(i)}

\* A balance is what the documents in force moved: a reversed document and its
\* reversal leave no trace on any component of any line.
BalanceIsDocumentsInForce ==
  \A l \in Lines, c \in Components :
    balance[l][c] = SumFunction([i \in InForce |-> ledger[i].delta[l][c]])

\* The exceptions used are the exceptions granted: the grants' used_amount adds
\* up to the shortfall they covered, never beyond a grant's maximum, and a
\* grant tied to a line covered nothing elsewhere (engine.post).
GrantsAccounted ==
  /\ \A g \in Grants : grants[g].used <= grants[g].max
  /\ SumFunction([g \in Grants |-> grants[g].used]) = SumFunction(byGrant)
  /\ \A l \in Lines :
       byGrant[l] <= SumFunction([g \in {h \in Grants : Covers(h, l)} |-> grants[g].used])

\* The engine implements the abstract control of funds.
Funds == INSTANCE FundsControl WITH
           funds   <- [l \in Lines |-> FundsOn(l)],
           excused <- [l \in Lines |-> ExcusedOn(l)]

FundsSpec == Funds!Spec

\* INV-05 as docs/blueprint/03-financial-model.md states it: a posting leaves
\* the lines it touches with nothing less than zero, unless a grant covers it
\* or history is imported (here: unless either ever did, on that line).
PostingLeavesLineFunded ==
  [][\A l \in Lines :
       /\ Len(ledger') > Len(ledger)
       /\ ledger'[Len(ledger')].delta[l] # NoMovement
       /\ byGrant'[l] = 0 /\ byHistory'[l] = 0
       => FundsOn(l)' >= 0]_vars

=============================================================================
