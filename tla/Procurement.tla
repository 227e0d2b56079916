---------------------------- MODULE Procurement ----------------------------
(***************************************************************************)
(* The life of purchase requests, orders, payments, cancellations and      *)
(* reversals (commitments, expenditures and adjustments services) over the *)
(* entries they post.  A document is pending from its draft to its final   *)
(* approval, and everything its draft was checked against may change       *)
(* meanwhile.  What a commitment still holds is summed from its entries;   *)
(* its commercial state is a column the services refresh.                  *)
(***************************************************************************)
EXTENDS Position, SequencesExt

CONSTANTS
  Lines,        \* budget lines
  Budget,       \* appropriation of each line when the documents start
  Counted,      \* fiscal_years.count_reservations
  MaxAmount,    \* bound: the largest amount of a document
  MaxDocs,      \* bound: none is drafted when there are so many
  MaxPending    \* bound: how many wait for approval at once

ASSUME ProcurementAssumption ==
  /\ Budget \in Nat /\ Counted \in BOOLEAN
  /\ MaxAmount \in Nat /\ MaxDocs \in Nat /\ MaxPending \in Nat

VARIABLES
  docs,         \* the documents, in order of drafting
  ledger,       \* ledger_entries
  balance       \* budget_balances

vars == <<docs, ledger, balance>>

Amounts == 1 .. MaxAmount
None    == 0                        \* a document that refers to no other
DocIds  == Nat \ {None}

Commitments == {"REQUEST", "ORDER"}
Kinds == Commitments \cup {"EXPENDITURE", "CANCELLATION", "REVERSAL"}

\* of: the request an order converts, the commitment a payment or cancellation
\* is on, the document a reversal reverses.
Doc == [kind   : Kinds,
        line   : Lines,
        of     : DocIds \cup {None},
        amount : Amounts,
        status : {"PENDING", "POSTED", "REVERSED", "DROPPED"},
        state  : {"NONE", "APPROVED", "PARTIALLY_PAID", "FULLY_PAID", "CLOSED", "CANCELLED"}]

\* amount is signed: direction * amount in the program.
\* CLOSING and CARRY_FORWARD come from year end (YearEnd); the first is of no document.
Entry == [doc        : DocIds \cup {None},
          type       : {"PRE_COMMITMENT", "RESERVATION_RELEASE", "COMMITMENT", "ACTUAL_EXPENDITURE",
                        "COMMITMENT_LIQUIDATION", "CANCELLATION", "REVERSAL",
                        "CLOSING", "CARRY_FORWARD"},
          line       : Lines,
          component  : {"RESERVATION", "COMMITMENT", "ACTUAL"},
          amount     : Int \ {0},
          commitment : DocIds \cup {None},
          reverses   : Nat]

TypeOK == /\ docs \in Seq(Doc)
          /\ ledger \in Seq(Entry)
          /\ balance \in [Lines -> Positions]

-----------------------------------------------------------------------------
(* What the services read.  D and L are the documents and entries read.    *)

Ids(D) == 1 .. Len(D)

ComponentOf(D, c) == IF D[c].kind = "REQUEST" THEN "RESERVATION" ELSE "COMMITMENT"

\* What the entries of L at the places S come to.
Total(L, S) == SumFunctionOnSet([i \in DOMAIN L |-> L[i].amount], S)

OnCommitment(D, L, c) ==
  {i \in DOMAIN L : L[i].commitment = c /\ L[i].component = ComponentOf(D, c)}

\* commitments.outstanding
Outstanding(D, L, c) == Total(L, OnCommitment(D, L, c))

OfTypes(L, types) == {i \in DOMAIN L : L[i].type \in types}

Reversing(L, S) == {i \in DOMAIN L : L[i].reverses \in S}

\* Mutant of NetByType: what was reversed still counts.
GrossByType(D, L, c, types) == -Total(L, OnCommitment(D, L, c) \cap OfTypes(L, types))

\* commitments._net_by_type: entries of these types, less what reversed them.
NetByType(D, L, c, types) ==
  LET S == OfTypes(L, types)
  IN -Total(L, OnCommitment(D, L, c) \cap (S \cup Reversing(L, S)))

Paid(D, L, c) == NetByType(D, L, c, {"COMMITMENT_LIQUIDATION"})

Cancelled(D, L, c) == NetByType(D, L, c, {"CANCELLATION", "CLOSING"})

Converted(D, c) ==
  \E k \in Ids(D) : D[k].kind = "ORDER" /\ D[k].of = c /\ D[k].status = "POSTED"

\* commitments.refresh_status: the state the entries call for.
StateOf(D, L, c) ==
  LET held == Outstanding(D, L, c)
      paid == Paid(D, L, c)
  IN IF D[c].kind = "REQUEST"
     THEN CASE Converted(D, c) -> "CLOSED"
            [] ~Converted(D, c) /\ held > 0 -> "APPROVED"
            [] OTHER -> "CANCELLED"
     ELSE CASE held = 0 /\ paid > 0 /\ Cancelled(D, L, c) = 0 -> "FULLY_PAID"
            [] held = 0 /\ paid > 0 /\ Cancelled(D, L, c) # 0 -> "CLOSED"
            [] held = 0 /\ paid <= 0 -> "CANCELLED"
            [] held # 0 /\ paid > 0 -> "PARTIALLY_PAID"
            [] OTHER -> "APPROVED"

\* Only posted commitments among cs are refreshed.
Refresh(D, L, cs) ==
  [d \in Ids(D) |-> IF d \in cs /\ D[d].status = "POSTED"
                    THEN [D[d] EXCEPT !.state = StateOf(D, L, d)] ELSE D[d]]

-----------------------------------------------------------------------------
(* The checks of a document, at its draft and again when it is posted.     *)

\* Mutant of OrderValid: an order awaiting approval is overlooked.
OrderValidButForPending(request, line, self) ==
  request # None =>
    /\ docs[request].kind = "REQUEST"
    /\ docs[request].status = "POSTED"
    /\ docs[request].state = "APPROVED"
    /\ docs[request].line = line

\* commitments._validate; self is the order's own id.
OrderValid(request, line, self) ==
  request # None =>
    /\ docs[request].kind = "REQUEST"
    /\ docs[request].status = "POSTED"
    /\ docs[request].state = "APPROVED"
    /\ docs[request].line = line
    /\ \A k \in Ids(docs) :
         docs[k].kind = "ORDER" /\ docs[k].of = request /\ k # self => docs[k].status = "DROPPED"

\* expenditures._validate
PaymentValid(order, line) ==
  order # None =>
    /\ docs[order].kind = "ORDER"
    /\ docs[order].status = "POSTED"
    /\ docs[order].state \notin {"CANCELLED", "CLOSED", "FULLY_PAID"}
    /\ docs[order].line = line

\* adjustments.create and post: no more than what is outstanding now.
CancellationValid(c, amount) == amount <= Outstanding(docs, ledger, c)

\* adjustments._check_reversible
Reversible(d) ==
  /\ docs[d].kind # "REVERSAL"
  /\ docs[d].status = "POSTED"
  /\ docs[d].kind = "ORDER" => Paid(docs, ledger, d) <= 0
  /\ docs[d].kind \in Commitments => ~Converted(docs, d)

\* The check a document passes when it is drafted and when it is posted.
Valid(d) ==
  LET doc == docs[d]
  IN CASE doc.kind = "REQUEST"      -> TRUE
       [] doc.kind = "ORDER"        -> OrderValid(doc.of, doc.line, d)
       [] doc.kind = "EXPENDITURE"  -> PaymentValid(doc.of, doc.line)
       [] doc.kind = "CANCELLATION" -> CancellationValid(doc.of, doc.amount)
       [] doc.kind = "REVERSAL"     -> Reversible(doc.of)

-----------------------------------------------------------------------------
(* Drafts.                                                                 *)

Pending == {d \in Ids(docs) : docs[d].status = "PENDING"}

Draft(kind, line, of, amount) ==
  /\ Len(docs) < MaxDocs
  /\ Cardinality(Pending) < MaxPending
  /\ docs' = Append(docs, [kind |-> kind, line |-> line, of |-> of, amount |-> amount,
                           status |-> "PENDING", state |-> "NONE"])
  /\ UNCHANGED <<ledger, balance>>

DraftRequest == \E l \in Lines, a \in Amounts : Draft("REQUEST", l, None, a)

\* A new order, or the conversion of an approved request.
DraftOrder ==
  \E l \in Lines, request \in Ids(docs) \cup {None}, a \in Amounts :
    OrderValid(request, l, None) /\ Draft("ORDER", l, request, a)

DraftExpenditure ==
  \E l \in Lines, order \in Ids(docs) \cup {None}, a \in Amounts :
    PaymentValid(order, l) /\ Draft("EXPENDITURE", l, order, a)

DraftCancellation ==
  \E c \in Ids(docs), a \in Amounts :
    /\ docs[c].kind \in Commitments
    /\ docs[c].status = "POSTED"
    /\ CancellationValid(c, a)
    /\ Draft("CANCELLATION", docs[c].line, c, a)

\* REVERSAL_EXISTS: one reversal of a document at a time.
DraftReversal ==
  \E d \in Ids(docs) :
    /\ Reversible(d)
    /\ \A k \in Ids(docs) :
         docs[k].kind = "REVERSAL" /\ docs[k].of = d => docs[k].status = "DROPPED"
    /\ Draft("REVERSAL", docs[d].line, d, docs[d].amount)

\* Rejected by an approver or withdrawn by its creator.
Drop(d) ==
  /\ docs[d].status = "PENDING"
  /\ docs' = [docs EXCEPT ![d].status = "DROPPED",
                          ![d].state = IF docs[d].kind \in Commitments THEN "CANCELLED" ELSE @]
  /\ UNCHANGED <<ledger, balance>>

-----------------------------------------------------------------------------
(* Posting: the document, its entries, the balance and the states of the   *)
(* commitments it touches, in one transaction.                             *)

MkEntry(d, type, component, amount, commitment) ==
  [doc |-> d, type |-> type, line |-> docs[d].line, component |-> component,
   amount |-> amount, commitment |-> commitment, reverses |-> None]

\* Mutant of IfPositive: the entry is made whatever its amount.
Always(n, e) == <<e>>

IfPositive(n, e) == IF n > 0 THEN <<e>> ELSE <<>>

\* commitments.build_posting: converting a request releases what it still holds.
OrderEntries(d) ==
  LET request == docs[d].of
      held    == IF request = None THEN 0 ELSE Outstanding(docs, ledger, request)
  IN IfPositive(held, MkEntry(d, "RESERVATION_RELEASE", "RESERVATION", -held, request))
       \o <<MkEntry(d, "COMMITMENT", "COMMITMENT", docs[d].amount, d)>>

\* expenditures.build_posting: a payment liquidates no more than is outstanding.
PaymentEntries(d) ==
  LET order  == docs[d].of
      held   == IF order = None THEN 0 ELSE Outstanding(docs, ledger, order)
      liquid == IF docs[d].amount < held THEN docs[d].amount ELSE held
  IN <<MkEntry(d, "ACTUAL_EXPENDITURE", "ACTUAL", docs[d].amount, order)>>
       \o IfPositive(liquid, MkEntry(d, "COMMITMENT_LIQUIDATION", "COMMITMENT", -liquid, order))

\* Mutant of Opposite: commitment_id is not carried over.
OppositeUnlinked(d, i) ==
  [ledger[i] EXCEPT !.doc = d, !.type = "REVERSAL", !.amount = -@, !.reverses = i,
                    !.commitment = None]

\* The same line, component and commitment in the other direction.
Opposite(d, i) ==
  [ledger[i] EXCEPT !.doc = d, !.type = "REVERSAL", !.amount = -@, !.reverses = i]

\* A set of places in the ledger, in order.
InOrder(S) == CHOOSE s \in [1 .. Cardinality(S) -> S] : IsSorted(s, <)

\* engine.reversal_specs: the entries of the document not reversed yet.
ReversalEntries(d) ==
  LET todo  == {i \in 1 .. Len(ledger) : /\ ledger[i].doc = docs[d].of
                                         /\ ledger[i].type # "REVERSAL"
                                         /\ \A j \in 1 .. Len(ledger) : ledger[j].reverses # i}
      order == InOrder(todo)
  IN [n \in 1 .. Len(order) |-> Opposite(d, order[n])]

EntriesOf(d) ==
  LET doc == docs[d]
  IN CASE doc.kind = "REQUEST"     -> <<MkEntry(d, "PRE_COMMITMENT", "RESERVATION", doc.amount, d)>>
       [] doc.kind = "ORDER"       -> OrderEntries(d)
       [] doc.kind = "EXPENDITURE" -> PaymentEntries(d)
       [] doc.kind = "CANCELLATION" ->
            <<MkEntry(d, "CANCELLATION", ComponentOf(docs, doc.of), -doc.amount, doc.of)>>
       [] doc.kind = "REVERSAL"    -> ReversalEntries(d)

Moved(entries, l, c) ==
  Total(entries, {n \in DOMAIN entries : entries[n].line = l /\ entries[n].component = c})

AfterPosting(entries) ==
  [l \in Lines |-> WithDeltas(balance[l], [c \in Components |-> Moved(entries, l, c)])]

\* Mutant of AvailableOn: what is reserved is never taken off.
AvailableWithHold(p) == Available("APPROPRIATION", FALSE, p)

AvailableOn(p) == Available("APPROPRIATION", Counted, p)

\* engine._evaluate without exceptions, and INV-04 on the line.
Affordable(entries) ==
  \A l \in Lines :
    LET before == AvailableOn(balance[l])
        after  == AvailableOn(AfterPosting(entries)[l])
    IN /\ after < before => Shortfall(before, before - after) = 0
       /\ AfterPosting(entries)[l]["RESERVATION"] >= 0
       /\ AfterPosting(entries)[l]["COMMITMENT"] >= 0

\* Mutant of OutstandingNonNegative: the deferred trigger is missing.
OutstandingUnchecked(entries) == TRUE

\* INV-04 on the document: the deferred trigger of migration 0006.
OutstandingNonNegative(entries) ==
  \A n \in 1 .. Len(entries) :
    LET e   == entries[n]
        all == ledger \o entries
    IN e.commitment # None /\ e.component # "ACTUAL" =>
         Total(all, {i \in DOMAIN all : /\ all[i].commitment = e.commitment
                                       /\ all[i].component = e.component}) >= 0

\* A document becomes POSTED, and a commitment APPROVED with it.
Settle(d) ==
  [docs EXCEPT ![d].status = "POSTED",
               ![d].state = IF docs[d].kind \in Commitments THEN "APPROVED" ELSE @]

\* adjustments.post: the document that was reversed becomes REVERSED.
MarkReversed(D, d) ==
  IF D[d].kind = "REVERSAL" THEN [D EXCEPT ![D[d].of].status = "REVERSED"] ELSE D

\* Mutant of Affected: an adjustment refreshes only the document it names.
AffectedByName(d, entries) ==
  IF docs[d].kind = "REQUEST" THEN {} ELSE {docs[d].of}

\* Whose state is refreshed: the request an order converts, the order a payment
\* is on, and every commitment the entries of an adjustment are on.
Affected(d, entries) ==
  IF docs[d].kind \in {"ORDER", "EXPENDITURE"} THEN {docs[d].of}
  ELSE IF docs[d].kind \in {"CANCELLATION", "REVERSAL"}
       THEN {entries[n].commitment : n \in 1 .. Len(entries)}
       ELSE {}

Post(d) ==
  LET entries == EntriesOf(d)
  IN /\ docs[d].status = "PENDING"
     /\ Valid(d)
     /\ entries # <<>>
     /\ Affordable(entries)
     /\ OutstandingNonNegative(entries)
     /\ ledger' = ledger \o entries
     /\ balance' = AfterPosting(entries)
     /\ docs' = Refresh(MarkReversed(Settle(d), d), ledger', Affected(d, entries))

-----------------------------------------------------------------------------

Init ==
  /\ docs = <<>>
  /\ ledger = <<>>
  /\ balance = [l \in Lines |-> [NoMovement EXCEPT !["APPROPRIATION"] = Budget]]

Next ==
  \/ DraftRequest
  \/ DraftOrder
  \/ DraftExpenditure
  \/ DraftCancellation
  \/ DraftReversal
  \/ \E d \in Ids(docs) : Drop(d) \/ Post(d)

Spec == Init /\ [][Next]_vars

-----------------------------------------------------------------------------
(* Properties.                                                             *)

PostedCommitments == {d \in Ids(docs) : docs[d].kind \in Commitments /\ docs[d].status = "POSTED"}

\* The state of a posted commitment is always the one its entries and orders
\* call for, though it is refreshed only where the services thought to: a
\* request is CLOSED exactly while an order in force converts it, and open to
\* payments exactly while something is outstanding.
StateFollowsLedger ==
  \A c \in PostedCommitments : docs[c].state = StateOf(docs, ledger, c)

\* What a line holds reserved and committed is what its posted commitments have
\* outstanding: one that was reversed or dropped holds nothing.
LineHoldsOutstanding ==
  \A l \in Lines, c \in {"RESERVATION", "COMMITMENT"} :
    balance[l][c] = SumFunctionOnSet([d \in Ids(docs) |-> Outstanding(docs, ledger, d)],
                      {d \in PostedCommitments : docs[d].line = l /\ ComponentOf(docs, d) = c})

\* No commitment, whatever its status, holds less than nothing (INV-04).
NothingBelowZero ==
  \A d \in Ids(docs) : docs[d].kind \in Commitments => Outstanding(docs, ledger, d) >= 0

\* An order's amount is what is outstanding, paid and cancelled, also after
\* payments and cancellations were reversed.
OrderAddsUp ==
  \A d \in PostedCommitments :
    docs[d].kind = "ORDER" =>
      docs[d].amount = Outstanding(docs, ledger, d) + Paid(docs, ledger, d)
                         + Cancelled(docs, ledger, d)

\* A request is converted once: at most one order of it is in force or awaits
\* approval (ALREADY_CONVERTED).
ConvertedOnce ==
  \A j, k \in Ids(docs) :
    /\ j # k
    /\ docs[j].kind = "ORDER" /\ docs[j].of # None
    /\ docs[k].kind = "ORDER" /\ docs[k].of = docs[j].of
    => docs[j].status = "DROPPED" \/ docs[k].status = "DROPPED"

\* No document overdraws a line (INV-05).
NeverOverdrawn == \A l \in Lines : Available("APPROPRIATION", Counted, balance[l]) >= 0

\* A reservation is held by an approved request that was not converted
\* (docs/blueprint/03-financial-model.md, the component RESERVATION).
OnlyUnconvertedHold ==
  \A c \in PostedCommitments : Converted(docs, c) => Outstanding(docs, ledger, c) = 0

\* An approved request with no order in force or awaiting approval can be
\* converted: its reservation is not stuck.
RequestConvertible ==
  \A c \in PostedCommitments :
    /\ docs[c].kind = "REQUEST" /\ docs[c].state = "APPROVED"
    /\ \A k \in Ids(docs) : docs[k].kind = "ORDER" /\ docs[k].of = c =>
         docs[k].status \notin {"PENDING", "POSTED"}
    => OrderValid(c, docs[c].line, None)

=============================================================================
