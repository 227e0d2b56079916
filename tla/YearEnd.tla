------------------------------ MODULE YearEnd ------------------------------
(***************************************************************************)
(* Closing a fiscal year (fiscal/closing.py) while documents of this and   *)
(* the next year are drafted, posted, cancelled and reversed: what is      *)
(* still reserved is released, and every outstanding order is closed here  *)
(* and carried to a new commitment of the next year, in one transaction.   *)
(*                                                                         *)
(* A budget line belongs to a year and an item; the documents on the lines *)
(* are those of Procurement.  The status CLOSING is set and left in the    *)
(* same transaction, so that nobody ever sees it; and nothing is posted in  *)
(* period 13, so that only the months of a year are here.                   *)
(***************************************************************************)
EXTENDS Procurement

CONSTANTS
  LastYear,       \* bound: the last year there is
  CarryItem,      \* fiscal_years.carry_forward_item_id
  SameItem,       \* where it is null: orders stay on their item
  LastMonth,      \* the number of months of a year
  MaxChanges      \* bound: changes of budgets and months

Years  == 1 .. LastYear
Items  == {l[2] : l \in Lines}
Months == 1 .. LastMonth

YearOf(l) == l[1]

ASSUME YearEndAssumption ==
  /\ LastYear \in Nat \ {0} /\ LastMonth \in 1 .. 12
  /\ \A l \in Lines : l = <<l[1], l[2]>> /\ YearOf(l) \in Years
  /\ SameItem \notin Items /\ CarryItem \in Items \cup {SameItem}
  /\ MaxChanges \in Nat

VARIABLES
  year,           \* fiscal_years.status
  closed,         \* <<year, period_no>> of the months with status CLOSED
  changes,        \* how often budgets and months were changed
  carriedTo       \* <<old, new>>: commitments.carried_from_id of the new one

years    == <<year, closed, changes, carriedTo>>
allVars  == <<vars, years>>

YearTypeOK ==
  /\ TypeOK
  /\ year \in [Years -> {"NONE", "PLANNING", "OPEN", "CLOSED"}]
  /\ closed \subseteq Years \X Months
  /\ changes \in Nat
  /\ carriedTo \subseteq Ids(docs) \X Ids(docs)

\* Within the bound on changes by those who administer the years.
Change == changes < MaxChanges /\ changes' = changes + 1

PeriodOpen(y, p) == <<y, p>> \notin closed

-----------------------------------------------------------------------------
(* The documents of a year.                                                *)

\* year_for_new_document: a year still planned takes drafts.
DraftDocument ==
  /\ DraftRequest \/ DraftOrder \/ DraftExpenditure \/ DraftCancellation \/ DraftReversal
  /\ year[YearOf(Last(docs').line)] \in {"PLANNING", "OPEN"}
  /\ UNCHANGED years

DropDocument(d) == Drop(d) /\ UNCHANGED years

\* engine._evaluate: in an open year, on a date in one of its open months.
PostDocument(d) ==
  /\ year[YearOf(docs[d].line)] = "OPEN"
  /\ \E p \in Months : PeriodOpen(YearOf(docs[d].line), p)
  /\ Post(d)
  /\ UNCHANGED years

\* A budget document raises or lowers the appropriation of a line.
ChangeBudget(l, n) ==
  LET after == [balance[l] EXCEPT !["APPROPRIATION"] = @ + n]
  IN /\ Change
     /\ year[YearOf(l)] = "OPEN"
     /\ \E p \in Months : PeriodOpen(YearOf(l), p)
     /\ n < 0 => AvailableOn(after) >= 0
     /\ balance' = [balance EXCEPT ![l] = after]
     /\ UNCHANGED <<docs, ledger, year, closed, carriedTo>>

-----------------------------------------------------------------------------
(* The years and their periods: fiscal/service.py.                         *)

CreateYear(y) ==
  /\ year[y] = "NONE"
  /\ year' = [year EXCEPT ![y] = "PLANNING"]
  /\ UNCHANGED <<vars, closed, changes, carriedTo>>

OpenYear(y) ==
  /\ year[y] = "PLANNING"
  /\ year' = [year EXCEPT ![y] = "OPEN"]
  /\ UNCHANGED <<vars, closed, changes, carriedTo>>

ClosePeriod(y, p) ==
  /\ Change
  /\ year[y] # "NONE"
  /\ PeriodOpen(y, p)
  /\ closed' = closed \cup {<<y, p>>}
  /\ UNCHANGED <<vars, year, carriedTo>>

ReopenPeriod(y, p) ==
  /\ year[y] # "CLOSED"
  /\ ~PeriodOpen(y, p)
  /\ closed' = closed \ {<<y, p>>}
  /\ UNCHANGED <<vars, year, changes, carriedTo>>

-----------------------------------------------------------------------------
(* Closing.                                                                *)

InYear(y) == {d \in Ids(docs) : YearOf(docs[d].line) = y}

\* Mutant of OpenOf: what was paid or cancelled in full is closed again.
EveryCommitmentOf(y) ==
  {d \in InYear(y) : docs[d].kind \in Commitments /\ docs[d].status = "POSTED"}

\* The posted commitments of the year that still hold something.
OpenOf(y) ==
  {d \in InYear(y) : /\ docs[d].kind \in Commitments
                     /\ docs[d].status = "POSTED"
                     /\ Outstanding(docs, ledger, d) > 0}

\* Mutant of ToRelease: reservations are left as they are.
OrdersAlone(y) == InOrder({d \in OpenOf(y) : docs[d].kind = "ORDER"})

\* By commitment_date; here in the order in which they were drafted.
ToRelease(y) == InOrder(OpenOf(y))

ToCarry(y) == InOrder({d \in OpenOf(y) : docs[d].kind = "ORDER"})

\* get_or_create_line: the line the next year carries an order to.
Target(d) ==
  LET next == YearOf(docs[d].line) + 1
  IN <<next, IF CarryItem = SameItem THEN docs[d].line[2] ELSE CarryItem>>

\* Mutant of Needed: the largest of the commitments carried to the line.
NeededByOne(y, l) ==
  Max({0} \cup {Outstanding(docs, ledger, d) : d \in {x \in OpenOf(y) : /\ docs[x].kind = "ORDER"
                                                                      /\ Target(x) = l}})

\* _carry_needs: what the commitments carried to a line come to.
Needed(y, l) ==
  SumFunctionOnSet([d \in Ids(docs) |-> Outstanding(docs, ledger, d)],
                   {d \in OpenOf(y) : docs[d].kind = "ORDER" /\ Target(d) = l})

\* CARRY_FORWARD_UNFUNDED: a line that does not exist has nothing available.
CarryFunded(y) ==
  /\ \A d \in OpenOf(y) : docs[d].kind = "ORDER" => Target(d) \in Lines
  /\ \A l \in Lines : Needed(y, l) > 0 => Needed(y, l) <= AvailableOn(balance[l])

\* NEXT_YEAR_REQUIRED
NextYearOpen(y) == y + 1 \in Years /\ year[y + 1] = "OPEN"

\* PENDING_DOCUMENTS
Unfinished(y) == Pending \cap InYear(y) # {}

\* Of no document.
ClosingEntry(d) ==
  [MkEntry(d, "CLOSING", ComponentOf(docs, d), -Outstanding(docs, ledger, d), d) EXCEPT !.doc = None]

\* Mutant of CarriedDoc: the amount of the order, not what is left of it.
CarriedWhole(d) ==
  [kind |-> "ORDER", line |-> Target(d), of |-> None, amount |-> docs[d].amount,
   status |-> "POSTED", state |-> "APPROVED"]

\* _carry_forward: a new commitment of what is outstanding.
CarriedDoc(d) ==
  [kind |-> "ORDER", line |-> Target(d), of |-> None, amount |-> Outstanding(docs, ledger, d),
   status |-> "POSTED", state |-> "APPROVED"]

\* Mutant of CarriedEntry: commitment_id is forgotten.
CarriedEntryUnlinked(new, doc) ==
  [doc |-> new, type |-> "CARRY_FORWARD", line |-> doc.line, component |-> "COMMITMENT",
   amount |-> doc.amount, commitment |-> None, reverses |-> None]

CarriedEntry(new, doc) ==
  [doc |-> new, type |-> "CARRY_FORWARD", line |-> doc.line, component |-> "COMMITMENT",
   amount |-> doc.amount, commitment |-> new, reverses |-> None]

CarriedDocs(y) == [n \in 1 .. Len(ToCarry(y)) |-> CarriedDoc(ToCarry(y)[n])]

\* The postings of a closing, on lines of two years.  Those on one line go in
\* the same direction, so that all pass the engine's checks if the last does.
ClosingEntries(y) ==
  [n \in 1 .. Len(ToRelease(y)) |-> ClosingEntry(ToRelease(y)[n])]
    \o [n \in 1 .. Len(ToCarry(y)) |-> CarriedEntry(Len(docs) + n, CarriedDocs(y)[n])]

\* period_for_date takes the first of the periods the last day of the year lies
\* in: its last month, though the period of adjustments was opened for it.
ClosingPeriod == LastMonth

\* Entries are dated on the last day of the year, and on the first of the next.
PeriodsLetClose(y) ==
  /\ OpenOf(y) # {} => PeriodOpen(y, ClosingPeriod)
  /\ Len(ToCarry(y)) > 0 => PeriodOpen(y + 1, 1)

\* What close_year asks for before it posts anything.
ReadyToClose(y) ==
  /\ year[y] = "OPEN"
  /\ ~Unfinished(y)
  /\ Len(ToCarry(y)) > 0 => NextYearOpen(y) /\ CarryFunded(y)

CloseYear(y) ==
  /\ ReadyToClose(y)
  /\ PeriodsLetClose(y)
  /\ Affordable(ClosingEntries(y))
  /\ OutstandingNonNegative(ClosingEntries(y))
  /\ ledger' = ledger \o ClosingEntries(y)
  /\ balance' = AfterPosting(ClosingEntries(y))
  /\ docs' = [d \in Ids(docs) |-> IF d \in OpenOf(y) THEN [docs[d] EXCEPT !.state = "CLOSED"]
                                  ELSE docs[d]] \o CarriedDocs(y)
  /\ carriedTo' = carriedTo \cup {<<ToCarry(y)[n], Len(docs) + n>> : n \in 1 .. Len(ToCarry(y))}
  /\ closed' = closed \cup {<<y, p>> : p \in Months}
  /\ year' = [year EXCEPT ![y] = "CLOSED"]
  /\ UNCHANGED changes

-----------------------------------------------------------------------------

\* The first year is open and its lines have their appropriation; the next
\* ones are not there yet.
YearInit ==
  /\ docs = <<>>
  /\ ledger = <<>>
  /\ balance = [l \in Lines |->
                  [NoMovement EXCEPT !["APPROPRIATION"] = IF YearOf(l) = 1 THEN Budget ELSE 0]]
  /\ year = [y \in Years |-> IF y = 1 THEN "OPEN" ELSE "NONE"]
  /\ closed = {}
  /\ changes = 0
  /\ carriedTo = {}

YearNext ==
  \/ DraftDocument
  \/ \E d \in Ids(docs) : DropDocument(d) \/ PostDocument(d)
  \/ \E l \in Lines, n \in Amounts : ChangeBudget(l, n) \/ ChangeBudget(l, -n)
  \/ \E y \in Years : CreateYear(y) \/ OpenYear(y) \/ CloseYear(y)
  \/ \E y \in Years, p \in Months : ClosePeriod(y, p) \/ ReopenPeriod(y, p)

YearSpec == YearInit /\ [][YearNext]_allVars

-----------------------------------------------------------------------------
(* What closing promises.                                                  *)

\* A closed year has nothing reserved or committed and nothing on its way,
\* whatever is reversed, paid or drafted afterwards: its postings are final
\* (close_year, year_for_new_document and engine._evaluate together).
ClosedYearHoldsNothing ==
  \A y \in Years : year[y] = "CLOSED" =>
    /\ ~Unfinished(y)
    /\ \A d \in InYear(y) : docs[d].kind \in Commitments => Outstanding(docs, ledger, d) = 0
    /\ \A l \in Lines : YearOf(l) = y =>
         balance[l]["RESERVATION"] = 0 /\ balance[l]["COMMITMENT"] = 0

\* Nothing is lost between two years, and nothing carried twice: what was
\* neither paid nor cancelled of an order of a closed year is the amount of the
\* one commitment of the following year that it was carried to.
CarriedInFull ==
  \A y \in Years : year[y] = "CLOSED" =>
    \A d \in InYear(y) :
      docs[d].kind = "ORDER" /\ docs[d].status = "POSTED" =>
        LET left == docs[d].amount - Paid(docs, ledger, d)
                      - NetByType(docs, ledger, d, {"CANCELLATION"})
            news == {n \in Ids(docs) : <<d, n>> \in carriedTo}
        IN IF left = 0 THEN news = {}
           ELSE \E n \in news : news = {n} /\ docs[n].amount = left /\ YearOf(docs[n].line) = y + 1

\* The funding the preview asks for is enough: a closing that passed the check
\* on the sums is not refused by the engine at one of its postings.
PreviewIsEnough ==
  \A y \in Years : ReadyToClose(y) => Affordable(ClosingEntries(y))

\* closing.py, lines 3 to 8: the entries of closing go into the adjustment
\* period, which close_year opens for them; so a year with nothing else in the
\* way can be closed though its months are closed.
MonthsDoNotBlockClosing ==
  \A y \in Years :
    /\ ReadyToClose(y)
    /\ Len(ToCarry(y)) > 0 => PeriodOpen(y + 1, 1)
    => ENABLED CloseYear(y)

=============================================================================
