------------------------------- MODULE Forms -------------------------------
(***************************************************************************)
(* The forms documents are drafted with (features/documents/*.tsx), the    *)
(* pages that lead to them, and what the services make of their requests   *)
(* (create_draft of the document services).                                *)
(*                                                                         *)
(* The fiscal year is none of a form's fields: it is the one chosen in the *)
(* header when the form is sent, and may be chosen anew while the form is  *)
(* on screen.  The commitments an expenditure may pay are asked for when   *)
(* an item is chosen; the answers come in any order, and none is dropped   *)
(* because the item or the year has changed since.  The button of a form   *)
(* is not disabled while a request is under way.                           *)
(*                                                                         *)
(* Of what is filled in there is the item and the commitment: the rest,    *)
(* and a date outside the year, decides whether the draft is refused.      *)
(***************************************************************************)
EXTENDS Integers, Sequences

CONSTANTS
  Years,
  Items,
  Sources,      \* documents that are posted
  KindOf,       \* the kind of each
  LineOf,       \* the budget line of each: its year and its item
  Creates,      \* the kinds the user may draft
  None,         \* no year, form, item or source
  MaxDrafts,    \* bound: documents drafted
  MaxTurns      \* bound: years chosen anew or closed, sources paid, drafts ended

\* Kinds drafted from a list; a PURCHASE_REQUEST is a commitment too.
Listed == {"BUDGET_DOCUMENT", "AUTHORIZATION", "TRANSFER", "COMMITMENT", "EXPENDITURE", "ADJUSTMENT"}

\* Those drafted from the page of a posted document.
Derived == {"CONVERSION", "CANCELLATION", "REVERSAL"}

Form == [kind    : Listed \cup Derived,
         item    : Items \cup {None},
         source  : Sources \cup {None},   \* commitment_id, or the document the page is of
         offered : SUBSET Sources]        \* commitments

ASSUME FormsAssumption ==
  /\ KindOf \in [Sources -> Listed \cup {"PURCHASE_REQUEST"}]
  /\ LineOf \in [Sources -> Years \X Items]
  /\ Creates \subseteq Listed \cup Derived
  /\ None \notin Years \cup Items \cup Sources \cup Form
  /\ MaxDrafts \in Nat /\ MaxTurns \in Nat

VARIABLES
  header,     \* the fiscal year chosen in the header
  openYears,  \* years neither CLOSING nor CLOSED
  form,       \* the form on screen
  loads,      \* queries of commitments that are not answered
  drafts,     \* the documents drafted
  paid,       \* orders that are FULLY_PAID
  turns       \* how often the surroundings changed

formVars == <<header, openYears, form, loads, drafts, paid, turns>>

\* active: neither CANCELLED nor REJECTED
Draft == [kind   : Listed \cup Derived,
          line   : Years \X (Items \cup {None}),
          source : Sources \cup {None},
          active : BOOLEAN]

FormTypeOK ==
  /\ header \in Years \cup {None}
  /\ openYears \subseteq Years
  /\ form \in Form \cup {None}
  /\ loads \subseteq Years \X Items
  /\ drafts \in Seq(Draft)
  /\ paid \subseteq Sources
  /\ turns \in Nat

Turn == turns < MaxTurns /\ turns' = turns + 1

-----------------------------------------------------------------------------
(* The header.                                                             *)

\* YearProvider: the one remembered, else the one that is OPEN, else the first.
LoadYears ==
  /\ header = None
  /\ header' \in Years
  /\ UNCHANGED <<openYears, form, loads, drafts, paid, turns>>

ChooseYear ==
  /\ header # None
  /\ Turn
  /\ header' \in Years \ {header}
  /\ UNCHANGED <<openYears, form, loads, drafts, paid>>

-----------------------------------------------------------------------------
(* The pages that lead to forms.  What a page shows may be out of date.    *)

Blank(kind, source) == [kind |-> kind, item |-> None, source |-> source, offered |-> {}]

\* Shell shows no page but some of the settings before there is a year.
Goes(kind, source) ==
  /\ header # None
  /\ form = None
  /\ kind \in Creates
  /\ form' = Blank(kind, source)
  /\ UNCHANGED <<header, openYears, loads, drafts, paid, turns>>

BudgetDocList == Goes("BUDGET_DOCUMENT", None)
AuthorizationList == Goes("AUTHORIZATION", None)
TransferList == Goes("TRANSFER", None)
CommitmentList == Goes("COMMITMENT", None)
ExpenditureList == Goes("EXPENDITURE", None)
AdjustmentList == Goes("ADJUSTMENT", None)

\* The reversal is offered by the panel of the page, for all but adjustments.
Reverses(kind, s) == KindOf[s] = kind /\ Goes("REVERSAL", s)

BudgetDocView(s) == Reverses("BUDGET_DOCUMENT", s)
AuthorizationView(s) == Reverses("AUTHORIZATION", s)
TransferView(s) == Reverses("TRANSFER", s)
ExpenditureView(s) == Reverses("EXPENDITURE", s)

CommitmentView(s) ==
  \/ KindOf[s] \in {"COMMITMENT", "PURCHASE_REQUEST"} /\ Goes("REVERSAL", s)
  \/ KindOf[s] = "PURCHASE_REQUEST" /\ Goes("CONVERSION", s)
  \/ KindOf[s] = "COMMITMENT" /\ Goes("CANCELLATION", s)

Leave ==
  /\ form # None
  /\ form' = None
  /\ loads' = {}
  /\ UNCHANGED <<header, openYears, drafts, paid, turns>>

-----------------------------------------------------------------------------
(* What a request to draft a document comes to, if it is not refused.      *)

Ids == 1 .. Len(drafts)

\* The draft's page is navigated to; before that, or should the answer be lost, the
\* form is still there to be sent again.
Makes(kind, line, source) ==
  /\ line[1] \in openYears
  /\ Len(drafts) < MaxDrafts
  /\ drafts' = Append(drafts, [kind |-> kind, line |-> line, source |-> source, active |-> TRUE])
  /\ \/ form' = None /\ loads' = {}
     \/ UNCHANGED <<form, loads>>
  /\ UNCHANGED <<header, openYears, paid, turns>>

Sends(kind) == form # None /\ form.kind = kind

BudgetDocForm == Sends("BUDGET_DOCUMENT") /\ Makes("BUDGET_DOCUMENT", <<header, None>>, None)
AuthorizationForm == Sends("AUTHORIZATION") /\ Makes("AUTHORIZATION", <<header, None>>, None)
TransferForm == Sends("TRANSFER") /\ Makes("TRANSFER", <<header, None>>, None)
CommitmentForm == Sends("COMMITMENT") /\ Makes("COMMITMENT", <<header, None>>, None)

\* With a commitment in its address the page cancels what is left of it: in the year of
\* the header, which need not be that of the commitment.
AdjustmentForm ==
  \/ Sends("ADJUSTMENT") /\ Makes("ADJUSTMENT", <<header, None>>, None)
  \/ /\ Sends("CANCELLATION")
     /\ form.source \notin paid
     /\ Makes("CANCELLATION", <<header, LineOf[form.source][2]>>, form.source)

\* The expenditure form: with the item the commitment is taken back.
ChooseItem(i) ==
  /\ Sends("EXPENDITURE")
  /\ form.item # i
  /\ form' = [form EXCEPT !.item = i, !.source = None, !.offered = IF i = None THEN {} ELSE @]
  /\ loads' = IF i = None THEN loads ELSE loads \cup {<<header, i>>}
  /\ UNCHANGED <<header, openYears, drafts, paid, turns>>

\* loadCommitments: the orders of the line that was asked for.
AnswerLoad(line) ==
  /\ line \in loads
  /\ loads' = loads \ {line}
  /\ form' = [form EXCEPT !.offered =
                {s \in Sources : KindOf[s] = "COMMITMENT" /\ LineOf[s] = line /\ s \notin paid}]
  /\ UNCHANGED <<header, openYears, drafts, paid, turns>>

\* What is chosen stays chosen though it be offered no longer.
ChooseCommitment(s) ==
  /\ Sends("EXPENDITURE")
  /\ s \in form.offered \cup {None}
  /\ form.source # s
  /\ form' = [form EXCEPT !.source = s]
  /\ UNCHANGED <<header, openYears, loads, drafts, paid, turns>>

\* Mutant of Payable: the line is not compared.
PayableAnyLine(s, line) == KindOf[s] = "COMMITMENT" /\ s \notin paid

\* _validate of the expenditures
Payable(s, line) == KindOf[s] = "COMMITMENT" /\ s \notin paid /\ LineOf[s] = line

ExpenditureForm ==
  LET line == <<header, form.item>>
  IN /\ Sends("EXPENDITURE")
     /\ form.item # None
     /\ form.source # None => Payable(form.source, line)
     /\ Makes("EXPENDITURE", line, form.source)

\* Mutant of NoneUnderWay: another one under way is not looked for.
NoneAsked(kind, s) == TRUE

NoneUnderWay(kind, s) ==
  \A i \in Ids : drafts[i].active => drafts[i].kind # kind \/ drafts[i].source # s

\* The year and the line are those of the request.
ConvertModal ==
  LET s == form.source
  IN /\ Sends("CONVERSION")
     /\ NoneUnderWay("CONVERSION", s)
     /\ Makes("CONVERSION", LineOf[s], s)

\* _check_reversible refuses an order that was paid.
ReversalModal ==
  LET s == form.source
  IN /\ Sends("REVERSAL")
     /\ s \notin paid
     /\ NoneUnderWay("REVERSAL", s)
     /\ Makes("REVERSAL", LineOf[s], s)

-----------------------------------------------------------------------------
(* What happens elsewhere.                                                 *)

CloseYear ==
  /\ Turn
  /\ \E y \in openYears : openYears' = openYears \ {y}
  /\ UNCHANGED <<header, form, loads, drafts, paid>>

Pay ==
  /\ Turn
  /\ \E s \in Sources \ paid : KindOf[s] = "COMMITMENT" /\ paid' = paid \cup {s}
  /\ UNCHANGED <<header, openYears, form, loads, drafts>>

\* A draft is cancelled, or rejected once it was submitted.
EndDraft(i) ==
  /\ Turn
  /\ drafts[i].active
  /\ drafts' = [drafts EXCEPT ![i].active = FALSE]
  /\ UNCHANGED <<header, openYears, form, loads, paid>>

FormInit ==
  /\ header = None /\ openYears = Years
  /\ form = None /\ loads = {} /\ drafts = <<>> /\ paid = {} /\ turns = 0

FormNext ==
  \/ LoadYears \/ ChooseYear
  \/ BudgetDocList \/ AuthorizationList \/ TransferList
  \/ CommitmentList \/ ExpenditureList \/ AdjustmentList
  \/ \E s \in Sources : \/ BudgetDocView(s) \/ AuthorizationView(s) \/ TransferView(s)
                        \/ ExpenditureView(s) \/ CommitmentView(s)
  \/ Leave
  \/ BudgetDocForm \/ AuthorizationForm \/ TransferForm \/ CommitmentForm \/ AdjustmentForm
  \/ \E i \in Items \cup {None} : ChooseItem(i)
  \/ \E line \in loads : AnswerLoad(line)
  \/ \E s \in Sources \cup {None} : ChooseCommitment(s)
  \/ ExpenditureForm \/ ConvertModal \/ ReversalModal
  \/ CloseYear \/ Pay
  \/ \E i \in Ids : EndDraft(i)

FormSpec == FormInit /\ [][FormNext]_formVars

-----------------------------------------------------------------------------
(* What the forms promise.                                                 *)

\* An expenditure pays an order of its own line, though the list the order was chosen
\* from may be of another item or year than the form is sent with.
PaysItsOwnLine ==
  \A i \in Ids : drafts[i].kind = "EXPENDITURE" /\ drafts[i].source # None =>
    KindOf[drafts[i].source] = "COMMITMENT" /\ LineOf[drafts[i].source] = drafts[i].line

\* However often a form is sent, a request has one conversion under way and a document
\* one reversal.
OneUnderWay ==
  \A i, j \in Ids :
    /\ drafts[i].active /\ drafts[j].active
    /\ drafts[i].kind = drafts[j].kind /\ drafts[i].kind \in {"CONVERSION", "REVERSAL"}
    /\ drafts[i].source = drafts[j].source
    => i = j

=============================================================================
