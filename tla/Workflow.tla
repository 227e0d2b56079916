------------------------------ MODULE Workflow ------------------------------
(***************************************************************************)
(* The approval of one document (workflow/service.py): submission, the     *)
(* steps its amount calls for, delegation, separation of duties, return    *)
(* for correction, the posting that completes it, and the reversal of a    *)
(* document that was posted.  Administrators change rights, delegations    *)
(* and the bands of the steps meanwhile.                                   *)
(*                                                                         *)
(* Requests are serialised by the lock of begin_write, but the principal a *)
(* request acts as is loaded before it waits for that lock: it may act     *)
(* with rights it had when it arrived.                                     *)
(***************************************************************************)
EXTENDS Integers, Sequences, FiniteSets

CONSTANTS
  Users,
  Creator,          \* who drafts the document
  Roles,            \* what roles may amount to: sets of rights
  Rights,           \* the rights users start with
  NoUser,           \* on_behalf_of IS NULL
  NoStep,           \* current_step_id IS NULL
  SuperviseFrom,    \* the amount from which the supervisor is asked at first
  MaxAmount,        \* bound: the largest amount of the document
  MaxRounds,        \* bound: how often the document is submitted
  MaxDelegations,   \* bound: delegations in force at once
  MaxChanges,       \* bound: changes of rights
  MaxBandChanges,   \* bound: changes of bands
  Together(_, _, _) \* bound: which amounts, changes of people and changes of bands meet

\* workflow/definitions.py: the actions of the steps of an expenditure, by seq.
Order == [review |-> 1, control |-> 2, supervise |-> 3, approve |-> 4]

StepNames == DOMAIN Order

Powers == StepNames \cup {"submit", "cancel"}

ASSUME WorkflowAssumption ==
  /\ Creator \in Users
  /\ NoUser \notin Users
  /\ NoStep \notin StepNames
  /\ Roles \subseteq SUBSET Powers
  /\ Rights \in [Users -> Roles]
  /\ SuperviseFrom \in Nat
  /\ MaxAmount \in Nat \ {0} /\ MaxRounds \in Nat
  /\ MaxDelegations \in Nat /\ MaxChanges \in Nat /\ MaxBandChanges \in Nat

Amounts == 1 .. MaxAmount

\* Mutant of Banded: update_step fixes the posting step alone.
BandedBeforePosting == {"review", "control", "supervise"}

\* update_step fixes the control and the posting step: they apply to all amounts.
Banded == {"review", "supervise"}

VARIABLES
  status,         \* the document's status
  amount,         \* and amount
  state,          \* workflow_instances.state, "NONE" before the first submission
  round,          \* .round
  step,           \* .current_step
  asked,          \* .amount: the amount that was submitted
  log,            \* workflow_actions
  bands,          \* the amounts each banded step applies to
  rights,         \* what the users may do, from their roles
  formerRights,   \* what requests still waiting for the lock were loaded with
  changes,        \* how often rights were changed
  bandChanges,    \* how often bands were changed
  delegations     \* pairs <<delegator, delegate>> in force

document == <<status, amount>>
instance == <<state, round, step, asked, log>>
settings == <<bands, rights, formerRights, changes, bandChanges, delegations>>
vars == <<document, instance, settings>>

Editable == {"DRAFT", "RETURNED"}

InProgress == {"SUBMITTED", "IN_REVIEW"}

Final == {"REJECTED", "CANCELLED", "REVERSED"}

Statuses == Editable \cup InProgress \cup {"POSTED"} \cup Final

\* What a document may be drafted with; submit refuses zero.
Drafted == 0 .. MaxAmount

Action == [round  : Nat,
           action : {"SUBMIT", "APPROVE", "POST", "REJECT", "RETURN", "CANCEL"},
           step   : StepNames \cup {NoStep},
           actor  : Users,
           behalf : Users \cup {NoUser},
           amount : Drafted]                  \* of the document, as acted upon

TypeOK ==
  /\ status \in Statuses
  /\ amount \in Drafted
  /\ state \in {"NONE", "ACTIVE", "RETURNED", "COMPLETED", "REJECTED", "CANCELLED"}
  /\ round \in Nat
  /\ step \in StepNames \cup {NoStep}
  /\ asked \in IF state = "NONE" THEN {0} ELSE Amounts
  /\ log \in Seq(Action)
  /\ bands \in [Banded -> SUBSET Amounts]
  /\ rights \in [Users -> Roles]
  /\ formerRights \in [Users -> SUBSET Roles]
  /\ changes \in Nat /\ bandChanges \in Nat
  /\ delegations \subseteq Users \X Users

-----------------------------------------------------------------------------
(* Who may act.                                                            *)

Applies(s, a) == s \in Banded => a \in bands[s]

\* applicable_steps: the first of them, and the one that comes after a step.
IsNext(s, after, a) ==
  /\ Applies(s, a)
  /\ Order[s] > after
  /\ \A t \in StepNames : Order[t] > after /\ Order[t] < Order[s] => ~Applies(t, a)

\* The rights a request of user u may act with.
SeenBy(u) == {rights[u]} \cup formerRights[u]

\* _delegator_for: in no particular order, someone who holds the right now.
Authorities(u, power, seen) ==
  IF power \in seen THEN {NoUser}
  ELSE {d \in Users : <<d, u>> \in delegations /\ power \in rights[d]}

ApprovedThisRound(i) == log[i].round = round /\ log[i].action = "APPROVE"

\* Mutant of Distinct: only who acted for somebody else is compared.
DistinctAuthorities(u, behalf) ==
  \A i \in 1 .. Len(log) :
    ApprovedThisRound(i) => log[i].behalf = NoUser \/ log[i].behalf # behalf

\* separate_approvers: who approved a step of this round, or for whom, approves
\* no other.
Distinct(u, behalf) ==
  \A i \in 1 .. Len(log) :
    ApprovedThisRound(i) =>
      /\ log[i].actor # u
      /\ log[i].behalf = NoUser \/ log[i].behalf # behalf

\* _authorize_step
Authorized(u, behalf) ==
  /\ \E seen \in SeenBy(u) : behalf \in Authorities(u, step, seen)
  /\ Creator \notin {u, behalf}
  /\ Distinct(u, behalf)

Record(action, u, behalf) ==
  log' = Append(log, [round |-> round, action |-> action, step |-> step, actor |-> u,
                      behalf |-> behalf, amount |-> amount])

Active == state = "ACTIVE" /\ status \in InProgress

-----------------------------------------------------------------------------
(* The creator.                                                            *)

\* Changes of rights, and delegations in force.
PeopleChanges == changes + Cardinality(delegations)

\* Mutant of EditDraft: the status is not looked at.
EditAnytime ==
  /\ status \notin Final
  /\ amount' \in {n \in Drafted : Together(n, PeopleChanges, bandChanges)}
  /\ UNCHANGED <<status, instance, settings>>

\* update_draft of the document services: in DRAFT and RETURNED only.
EditDraft ==
  /\ status \in Editable
  /\ amount' \in {n \in Drafted : Together(n, PeopleChanges, bandChanges)}
  /\ UNCHANGED <<status, instance, settings>>

Submittable == status \in Editable /\ state \in {"NONE", "RETURNED"} /\ amount > 0

Submit ==
  /\ \E seen \in SeenBy(Creator) : "submit" \in seen
  /\ Submittable
  /\ round < MaxRounds
  /\ status' = "SUBMITTED"
  /\ state' = "ACTIVE"
  /\ round' = round + 1
  /\ step' \in {s \in StepNames : IsNext(s, 0, amount)}
  /\ asked' = amount
  /\ log' = Append(log, [round |-> round + 1, action |-> "SUBMIT", step |-> NoStep,
                         actor |-> Creator, behalf |-> NoUser, amount |-> amount])
  /\ UNCHANGED <<amount, settings>>

-----------------------------------------------------------------------------
(* The approvers.                                                          *)

\* A step that does not post.  Should the bands have changed so that the step
\* is no longer among the applicable ones, approve finds no successor and fails.
Approve(u) ==
  \E behalf \in Users \cup {NoUser} :
    /\ Active
    /\ step # "approve"
    /\ Authorized(u, behalf)
    /\ Applies(step, asked)
    /\ step' \in {s \in StepNames : IsNext(s, Order[step], asked)}
    /\ status' = "IN_REVIEW"
    /\ Record("APPROVE", u, behalf)
    /\ UNCHANGED <<amount, state, round, asked, settings>>

\* The last step posts; the budget may refuse, and then nothing happens.
ApproveAndPost(u) ==
  \E behalf \in Users \cup {NoUser} :
    /\ Active
    /\ step = "approve"
    /\ Authorized(u, behalf)
    /\ status' = "POSTED"
    /\ state' = "COMPLETED"
    /\ step' = NoStep
    /\ Record("POST", u, behalf)
    /\ UNCHANGED <<amount, round, asked, settings>>

Reject(u) ==
  \E behalf \in Users \cup {NoUser} :
    /\ Active
    /\ Authorized(u, behalf)
    /\ status' = "REJECTED"
    /\ state' = "REJECTED"
    /\ step' = NoStep
    /\ Record("REJECT", u, behalf)
    /\ UNCHANGED <<amount, round, asked, settings>>

ReturnToCreator(u) ==
  \E behalf \in Users \cup {NoUser} :
    /\ Active
    /\ Authorized(u, behalf)
    /\ status' = "RETURNED"
    /\ state' = "RETURNED"
    /\ step' = NoStep
    /\ Record("RETURN", u, behalf)
    /\ UNCHANGED <<amount, round, asked, settings>>

\* Mutant of Cancellable: the right is enough.
CancellableByRight(u) ==
  \/ status \in Editable /\ u = Creator
  \/ \E seen \in SeenBy(u) : "cancel" \in seen

\* A draft is withdrawn by its creator, it or a document in progress by whoever
\* has the right.
Cancellable(u) ==
  \/ status \in Editable /\ u = Creator
  \/ status \in Editable \cup InProgress /\ \E seen \in SeenBy(u) : "cancel" \in seen

\* Mutant of CloseInstance: only the document is cancelled.
InstanceLeftOpen(u) == UNCHANGED instance

\* A document never submitted has no instance to close.
CloseInstance(u) ==
  IF state = "NONE" THEN UNCHANGED instance
  ELSE /\ state' = "CANCELLED"
       /\ step' = NoStep
       /\ UNCHANGED <<round, asked>>
       /\ Record("CANCEL", u, NoUser)

Cancel(u) ==
  /\ Cancellable(u)
  /\ status' = "CANCELLED"
  /\ CloseInstance(u)
  /\ UNCHANGED <<amount, settings>>

-----------------------------------------------------------------------------
(* Other documents.                                                        *)

\* A reversal of the document, approved on its own, is posted (adjustments.post): the
\* instance of the document stays completed.
Reverse ==
  /\ status = "POSTED"
  /\ status' = "REVERSED"
  /\ UNCHANGED <<amount, instance, settings>>

-----------------------------------------------------------------------------
(* The administrators.                                                     *)

\* Roles are assigned or withdrawn, or the user is deactivated; requests that
\* arrived before keep what they were loaded with.
ChangeRights(u) ==
  \E r \in Roles :
    /\ changes < MaxChanges /\ Together(amount, PeopleChanges + 1, bandChanges)
    /\ changes' = changes + 1
    /\ rights' = [rights EXCEPT ![u] = r]
    /\ formerRights' = [formerRights EXCEPT ![u] = @ \cup {rights[u]}]
    /\ UNCHANGED <<document, instance, bands, bandChanges, delegations>>

Delegate(u, v) ==
  /\ u # v
  /\ <<u, v>> \notin delegations
  /\ Cardinality(delegations) < MaxDelegations
  /\ Together(amount, PeopleChanges + 1, bandChanges)
  /\ delegations' = delegations \cup {<<u, v>>}
  /\ UNCHANGED <<document, instance, bands, rights, formerRights, changes, bandChanges>>

\* Revoked by the delegator, or past its valid_to.
EndDelegation(u, v) ==
  /\ <<u, v>> \in delegations
  /\ delegations' = delegations \ {<<u, v>>}
  /\ UNCHANGED <<document, instance, bands, rights, formerRights, changes, bandChanges>>

\* update_step
SetBand(s) ==
  /\ bandChanges < MaxBandChanges /\ Together(amount, PeopleChanges, bandChanges + 1)
  /\ bandChanges' = bandChanges + 1
  /\ \E lo, hi \in 1 .. MaxAmount + 1 :
       /\ lo <= hi
       /\ bands' = [bands EXCEPT ![s] = {a \in Amounts : lo <= a /\ a <= hi}]
  /\ UNCHANGED <<document, instance, rights, formerRights, changes, delegations>>

-----------------------------------------------------------------------------

Init ==
  /\ status = "DRAFT" /\ amount \in Drafted
  /\ state = "NONE" /\ round = 0 /\ step = NoStep /\ asked = 0 /\ log = <<>>
  /\ bands = [s \in Banded |-> {a \in Amounts : s = "supervise" => a >= SuperviseFrom}]
  /\ rights = Rights /\ formerRights = [u \in Users |-> {}] /\ changes = 0
  /\ bandChanges = 0
  /\ delegations = {}

Next ==
  \/ EditDraft
  \/ Submit
  \/ Reverse
  \/ \E u \in Users : \/ Approve(u) \/ ApproveAndPost(u) \/ Reject(u) \/ ReturnToCreator(u)
                      \/ Cancel(u)
                      \/ ChangeRights(u)
                      \/ \E v \in Users : Delegate(u, v) \/ EndDelegation(u, v)
  \/ \E s \in Banded : SetBand(s)

Spec == Init /\ [][Next]_vars

-----------------------------------------------------------------------------
(* What the approval promises.                                             *)

\* The entries of the steps taken in a round, and what ends the round.
Taken(i) == log[i].action \in {"APPROVE", "POST", "REJECT", "RETURN"}

SameRound(i, j) == log[i].round = log[j].round

\* The status that lists and year end look at and the state of the instance that
\* the inbox looks at tell the same story, whatever order the actions came in.
InstanceMatchesDocument ==
  /\ status \in InProgress <=> state = "ACTIVE"
  /\ state = "ACTIVE" <=> step # NoStep
  /\ status = "RETURNED" <=> state = "RETURNED"
  /\ status \in {"POSTED", "REVERSED"} <=> state = "COMPLETED"
  /\ status = "REJECTED" <=> state = "REJECTED"
  /\ state = "CANCELLED" => status = "CANCELLED"
  /\ status = "DRAFT" => state = "NONE"
  /\ state = "NONE" <=> log = <<>>
  /\ status = "IN_REVIEW" <=> state = "ACTIVE" /\ \E i \in 1 .. Len(log) : ApprovedThisRound(i)

\* WF-02 as far as _authorize_step goes: whoever created the document takes no step of
\* it, in person or through a delegate; who approved a step of a round takes no other
\* of it himself, and nobody for whom one was approved has another taken for him,
\* however roles and delegations change between them.  That one and the same person
\* takes a step himself and has another taken for him is not excluded.
SeparationOfDuties ==
  \A i \in 1 .. Len(log) : Taken(i) =>
    /\ Creator \notin {log[i].actor, log[i].behalf}
    /\ \A j \in 1 .. i - 1 : SameRound(i, j) /\ log[j].action = "APPROVE" =>
         /\ log[j].actor # log[i].actor
         /\ log[j].behalf = NoUser \/ log[j].behalf # log[i].behalf

\* WF-03: the steps of a round are taken in their order, each once, and nothing is
\* posted that budget control did not approve in the same round, whatever the
\* bands were set to while the document was under way.
StepsInOrder ==
  \A i \in 1 .. Len(log) : Taken(i) =>
    /\ \A j \in 1 .. i - 1 : Taken(j) /\ SameRound(i, j) =>
         log[j].action = "APPROVE" /\ Order[log[j].step] < Order[log[i].step]
    /\ log[i].action = "POST" =>
         \E j \in 1 .. i - 1 : SameRound(i, j) /\ log[j].action = "APPROVE" /\ log[j].step = "control"

\* WF-05: what is approved and posted in a round is the amount that was submitted.
AmountApprovedIsPosted ==
  \A i, j \in 1 .. Len(log) :
    SameRound(i, j) /\ log[i].action = "SUBMIT" /\ Taken(j) => log[j].amount = log[i].amount

\* A document that was rejected, cancelled or reversed stays as it is, and so does its
\* record.  One that was posted may only be reversed, with its amount and its record
\* as they were posted: no edit, return or cancellation reaches it any more.
FinalStaysFinal ==
  [][/\ status \in Final => UNCHANGED <<document, instance>>
     /\ status = "POSTED" => status' \in {"POSTED", "REVERSED"} /\ UNCHANGED <<amount, instance>>]_vars

\* WF-08, which the code breaks: the step a document waits at is one that its
\* amount calls for.
WaitsWhereItApplies == Active => Applies(step, asked)

=============================================================================
