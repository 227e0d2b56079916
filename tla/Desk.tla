-------------------------------- MODULE Desk --------------------------------
(***************************************************************************)
(* The approval of a document at the desks of its users: the page of the   *)
(* document with its panel of actions and its attachments                  *)
(* (features/documents/common.tsx), composed with the forms that draft it  *)
(* and with the service's workflow.                                        *)
(*                                                                         *)
(* A page goes on showing what it fetched.  The panel's step is cached by  *)
(* the status of the document, so it stays as it was when a step is taken  *)
(* that leaves the status alone, though the document itself be fetched     *)
(* anew.  A request waits for the service's lock   *)
(* as a page may wait to be pressed, so pressing a button and the request  *)
(* it sends are one step; one that is refused or lost changes nothing, and *)
(* an answer that is lost leaves the page as it is.                        *)
(***************************************************************************)
EXTENDS Workflow, Forms

CONSTANTS
  Files,            \* what may be attached
  Followed(_, _),   \* bound: which year in the header and drafts are followed further
  MaxOpen           \* bound: users who have the document on screen

ASSUME DeskAssumption ==
  /\ None \notin StepNames \cup {NoStep}
  /\ MaxOpen \in Nat

VARIABLES
  page,       \* the document as each user has it on screen, None if not
  files,      \* the attachments of the document
  support     \* (history) those it was posted with

deskVars == <<page, files, support>>
allVars == <<vars, formVars, deskVars>>

\* What the page shows: status and amount of the document and (history) the round they
\* are of, fetched together, and the current step, None until it is answered.
DocumentPage == [status : Statuses,
                 amount : Drafted,
                 round  : Nat,
                 step   : StepNames \cup {NoStep, None}]

DeskTypeOK ==
  /\ page \in [Users -> DocumentPage \cup {None}]
  /\ files \in [Files -> {"NONE", "LINKED", "LOCKED"}]
  /\ support \subseteq Files

\* The document is the one draft that is followed.
Exists == Followed(header, drafts) /\ form = None /\ turns = 0

\* The draft ends with the document.
SameDraft ==
  /\ drafts' = [drafts EXCEPT ![1].active = status' \notin {"CANCELLED", "REJECTED"}]
  /\ UNCHANGED <<header, openYears, form, loads, paid, turns>>

-----------------------------------------------------------------------------
(* The page of the document.                                               *)

OnPage(u) == page[u] # None

Unmoved == UNCHANGED <<vars, formVars, files, support>>

\* The document as it is now, the query for its step not answered.
Fetched == [status |-> status, amount |-> amount, round |-> round, step |-> None]

\* From the inbox, a list or the form that drafted it.  Bound: only its creator opens what
\* may be edited, and nobody what is decided, since there is nothing to be done to it.
OpenDocument(u) ==
  /\ Exists
  /\ state = "ACTIVE" \/ (status \in Editable /\ u = Creator)
  /\ page[u] = None
  /\ Cardinality({v \in Users : OnPage(v)}) < MaxOpen
  /\ page' = [page EXCEPT ![u] = Fetched]
  /\ Unmoved

Close(u) ==
  /\ OnPage(u)
  /\ page' = [page EXCEPT ![u] = None]
  /\ Unmoved

\* The answer to the query ["wf", type, id, status], which is asked once for a status.
FetchStep(u) ==
  /\ OnPage(u) /\ page[u].step = None
  /\ page' = [page EXCEPT ![u].step = step]
  /\ Unmoved

\* onChange has the document fetched; the step only if the status is another.
Refetched(p) == IF p.status = status THEN [Fetched EXCEPT !.step = p.step] ELSE Fetched

Refresh(u) ==
  /\ OnPage(u) /\ page[u] # Refetched(page[u])
  /\ page' = [page EXCEPT ![u] = Refetched(page[u])]
  /\ Unmoved

\* step, in the panel.
StepShown(u) == OnPage(u) /\ page[u].step \in StepNames

\* can goes by the rights the page knows of, be they former ones.
Can(u, power) == \E seen \in SeenBy(u) : power \in seen

CanStep(u) == StepShown(u) /\ Can(u, page[u].step) /\ u # Creator

\* editable
EditableShown(u) == OnPage(u) /\ page[u].status \in Editable /\ u = Creator

Pressed == Exists /\ SameDraft /\ UNCHANGED <<page, files, support>>

PressSubmit == EditableShown(Creator) /\ Submit /\ Pressed

\* expected_step
AsExpected(u) == page[u].step = step

PressApprove(u) == CanStep(u) /\ AsExpected(u) /\ Approve(u) /\ Pressed

\* Mutant of LockSupport: what is attached stays as it is.
LeaveUnlocked == UNCHANGED files

\* lock_for_source
LockSupport == files' = [f \in Files |-> IF files[f] = "NONE" THEN "NONE" ELSE "LOCKED"]

PressPost(u) ==
  /\ CanStep(u) /\ AsExpected(u)
  /\ ApproveAndPost(u)
  /\ LockSupport
  /\ support' = {f \in Files : files[f] # "NONE"}
  /\ Exists /\ SameDraft /\ UNCHANGED page

\* These are sent without the step that is shown.
PressReturn(u) == CanStep(u) /\ ReturnToCreator(u) /\ Pressed
PressReject(u) == CanStep(u) /\ Reject(u) /\ Pressed

PressCancel(u) ==
  /\ EditableShown(u) \/ (StepShown(u) /\ Can(u, "cancel"))
  /\ Cancel(u)
  /\ Pressed

\* The attachments of the page: a file may be added at any status.
Attachments(u, f) ==
  /\ OnPage(u)
  /\ files[f] = "NONE"
  /\ files' = [files EXCEPT ![f] = "LINKED"]
  /\ UNCHANGED <<vars, formVars, page, support>>

-----------------------------------------------------------------------------
(* Calls of the API that this page does not make, and the settings.        *)

\* From the page of the document that reverses this one.
ReversalPosted == Reverse /\ Pressed

\* update_draft: there is no form to edit a draft with.  Bound: what is drafted is edited
\* when it was returned.
Edit == status # "DRAFT" /\ EditDraft /\ Pressed

\* unlink
Unlink(f) ==
  /\ files[f] = "LINKED"
  /\ files' = [files EXCEPT ![f] = "NONE"]
  /\ UNCHANGED <<vars, formVars, page, support>>

\* Bound: bands and people change while the document is on its way for the first time,
\* and a step is then asked for at every amount or at none.
FirstTime == round = 1 /\ state = "ACTIVE"

StepRow(s) == FirstTime /\ SetBand(s) /\ bands'[s] \in {{}, Amounts} /\ Pressed

\* Bound: who may take the step the document waits at delegates it to one who may not.
Delegations(u, v) ==
  /\ FirstTime
  /\ \/ Can(u, step) /\ ~Can(v, step) /\ Delegate(u, v)
     \/ EndDelegation(u, v)
  /\ Pressed

AssignRoles(u) == FirstTime /\ ChangeRights(u) /\ Pressed

-----------------------------------------------------------------------------

DeskInit ==
  /\ Init /\ amount = MaxAmount  \* bound: what it is drafted with
  /\ FormInit
  /\ page = [u \in Users |-> None]
  /\ files = [f \in Files |-> "NONE"]
  /\ support = {}

\* Bound: the forms rest while the document is on its way.
Drafting == FormNext /\ UNCHANGED <<vars, deskVars>>

NotStarted ==
  /\ status = "DRAFT" /\ log = <<>> /\ amount = MaxAmount
  /\ PeopleChanges + bandChanges = 0
  /\ \A u \in Users : page[u] = None

DeskNext ==
  \/ NotStarted /\ Drafting
  \/ \E u \in Users :
       \/ OpenDocument(u) \/ Close(u) \/ FetchStep(u) \/ Refresh(u)
       \/ PressApprove(u) \/ PressPost(u) \/ PressReturn(u) \/ PressReject(u) \/ PressCancel(u)
       \/ \E f \in Files : Attachments(u, f)
       \/ AssignRoles(u)
       \/ \E v \in Users : Delegations(u, v)
  \/ PressSubmit
  \/ ReversalPosted
  \/ Edit
  \/ \E f \in Files : Unlink(f)
  \/ \E s \in Banded : StepRow(s)

DeskSpec == DeskInit /\ [][DeskNext]_allVars

-----------------------------------------------------------------------------
(* What the desks promise.                                                 *)

\* Whoever takes a step from a page (approves, posts, returns or rejects) decides on the
\* amount the page shows, however far the document has moved on since and whatever step
\* the page shows, unless it was returned and submitted anew since the page fetched it.
\* For that case the code has no guard: expected_step is a step of any round.
DecidedAsShown ==
  [][\A u \in Users :
       PressApprove(u) \/ PressPost(u) \/ PressReturn(u) \/ PressReject(u) =>
         \/ log'[Len(log')].amount = page[u].amount
         \/ page[u].round < round]_allVars

\* What was attached when the document was posted stays attached.
SupportKept == \A f \in support : files[f] # "NONE"

=============================================================================
