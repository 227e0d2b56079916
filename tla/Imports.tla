------------------------------ MODULE Imports ------------------------------
(***************************************************************************)
(* The import of one workbook (imports/service.py) by the users whose      *)
(* pages show its batches (imports/Imports.tsx).  A batch is uploaded,     *)
(* analysed, validated, decided upon and at last committed or discarded.   *)
(* Requests are serialised by the lock of begin_write, and the batch is    *)
(* read under it; but a page shows what it read before, and what its user  *)
(* decides goes by that.                                                   *)
(*                                                                         *)
(* Of the decisions there is the acceptance of historical exceptions and   *)
(* the amounts of authorizations; of the findings those that block, those  *)
(* that call for the acceptance and those that ask for an amount.          *)
(***************************************************************************)
EXTENDS Integers, Sequences

CONSTANTS
  Preparers,    \* users with imports.prepare
  Committers,   \* those with imports.commit among them
  Figures,      \* what the amounts may be decided to be
  Undecided,    \* no amounts are declared
  Asks,         \* what the findings may ask for: sets of fields of the decisions
  None,         \* no decisions
  MaxBatches,   \* bound: uploads
  MaxChanges    \* bound: changes of the catalogue or the year

Fields == {"accept", "amounts"}

ASSUME ImportsAssumption ==
  /\ Committers \subseteq Preparers
  /\ Undecided \in Figures
  /\ Asks \subseteq SUBSET Fields
  /\ MaxBatches \in Nat /\ MaxChanges \in Nat

VARIABLES
  batch,      \* import_batches of the workbook, in order of upload
  asks,       \* what its findings ask the user to decide
  sound,      \* whether the catalogue has all its items
  open,       \* whether the year is OPEN
  changes,    \* how often these two changed
  tab         \* the page of each user

around == <<asks, sound, open, changes>>
vars == <<batch, around, tab>>

Ids == 1 .. Len(batch)

Statuses == {"UPLOADED", "ANALYZED", "VALIDATED", "IMPORTED", "DISCARDED"}

Analyzed == {"ANALYZED", "VALIDATED"}

Unfinished == {"UPLOADED"} \cup Analyzed

Decisions == [accept : {"UNSET", "NO", "YES"}, amounts : Figures]

NoDecisions == [accept |-> "UNSET", amounts |-> Undecided]

\* checked (history): the decisions that were validated.
Batch == [creator   : Preparers,
          status    : Statuses,
          decisions : Decisions,
          blocking  : BOOLEAN,
          checked   : Decisions \cup {None}]

\* of: the batch shown, 0 for the list; stage: by its status when it was fetched;
\* uploaded: the batch that is still to be analysed.
Tab == [of       : Ids \cup {0},
        stage    : {"PREPARED", "VALIDATED", "DONE"},
        uploaded : Ids \cup {0}]

TypeOK ==
  /\ batch \in Seq(Batch)
  /\ asks \in Asks
  /\ sound \in BOOLEAN /\ open \in BOOLEAN /\ changes \in Nat
  /\ tab \in [Preparers -> Tab]

-----------------------------------------------------------------------------
(* The service: what a request does that is not turned down.               *)

Imported == {b \in Ids : batch[b].status = "IMPORTED"}

Set(b, r) == batch' = [batch EXCEPT ![b] = r]

\* upload: a workbook imported already is refused.
Upload(u) ==
  /\ Imported = {}
  /\ Len(batch) < MaxBatches
  /\ batch' = Append(batch, [creator |-> u, status |-> "UPLOADED", decisions |-> NoDecisions,
                             blocking |-> FALSE, checked |-> None])

Analyze(b) ==
  /\ batch[b].status \in Unfinished
  /\ Set(b, [batch[b] EXCEPT !.status = "ANALYZED", !.blocking = FALSE])

Validate(b) ==
  /\ batch[b].status \in Analyzed
  /\ Set(b, [batch[b] EXCEPT !.status = "VALIDATED", !.blocking = ~sound,
                             !.checked = batch[b].decisions])

\* {**old, **new}: what the body leaves out stays, and the amounts are all in it.
Merged(old, new) ==
  [accept |-> IF new.accept = "UNSET" THEN old.accept ELSE new.accept, amounts |-> new.amounts]

\* Mutant of AfterDecisions: the validation is kept.
ValidatedStill(status) == status

\* A new decision calls for a new validation.
AfterDecisions(status) == "ANALYZED"

SetDecisions(b, body) ==
  /\ batch[b].status \in Analyzed
  /\ Set(b, [batch[b] EXCEPT !.decisions = Merged(@, body), !.status = AfterDecisions(@)])

\* Mutant of FirstImport: what upload checked is relied upon.
FirstUpload == TRUE

\* ux_import_sha_imported
FirstImport == Imported = {}

\* Documents are made and posted for all rows in one transaction.  A line that has to be
\* created fails it if the item has gone from the catalogue since: it is left to chance.
Commit(u, b) ==
  /\ u \in Committers
  /\ batch[b].status = "VALIDATED"
  /\ batch[b].creator # u
  /\ ~batch[b].blocking
  /\ open
  /\ "accept" \in asks => batch[b].decisions.accept = "YES"
  /\ FirstImport
  /\ Set(b, [batch[b] EXCEPT !.status = "IMPORTED"])

\* Mutant of Discardable: any batch is.
DiscardableEver(b) == TRUE

Discardable(b) == batch[b].status # "IMPORTED"

Discard(b) ==
  /\ Discardable(b)
  /\ Set(b, [batch[b] EXCEPT !.status = "DISCARDED"])

-----------------------------------------------------------------------------
(* The pages.  What is pressed goes by what was fetched, however long ago; *)
(* a request waits for the lock as a page may wait to be pressed, so the   *)
(* two are one step.  A request turned down or lost leaves the page as it  *)
(* is, and so does a lost answer to one that was not.                      *)

Turn(u, t) == tab' = [tab EXCEPT ![u] = t]

List == [of |-> 0, stage |-> "DONE", uploaded |-> 0]

\* step, done
Stage(b) ==
  CASE b = 0 -> "DONE"
    [] b \in Ids /\ batch[b].status \in {"IMPORTED", "DISCARDED"} -> "DONE"
    [] b \in Ids /\ batch[b].status = "VALIDATED" -> "VALIDATED"
    [] OTHER -> "PREPARED"

\* From the list to a batch, or back.
Open(u, b) ==
  /\ tab[u].of # b
  /\ Turn(u, [tab[u] EXCEPT !.of = b, !.stage = Stage(b)])
  /\ UNCHANGED <<batch, around>>

Refetch(u) ==
  /\ tab[u].of # 0
  /\ Turn(u, [tab[u] EXCEPT !.stage = Stage(tab[u].of)])
  /\ UNCHANGED <<batch, around>>

\* upload: the first of two calls.  Without an answer the second is not made.
AskUpload(u) ==
  /\ tab[u].of = 0 /\ tab[u].uploaded = 0
  /\ Upload(u)
  /\ Turn(u, [tab[u] EXCEPT !.uploaded = Len(batch) + 1]) \/ UNCHANGED tab
  /\ UNCHANGED around

\* The second goes on to the page of the batch.
AskAnalyze(u) ==
  LET b == tab[u].uploaded
  IN /\ b # 0
     /\ \/ Analyze(b) /\ Turn(u, [of |-> b, stage |-> "PREPARED", uploaded |-> 0])
        \/ UNCHANGED batch /\ Turn(u, [tab[u] EXCEPT !.uploaded = 0])
     /\ UNCHANGED around

\* What a page may show and so send: the decisions fetched, now or once, or edited; the
\* findings tell which are offered.
Shown == {d \in Decisions : \A f \in Fields : d[f] # NoDecisions[f] => f \in asks}

\* The buttons of a batch that is not done.
Ask(u) ==
  LET b == tab[u].of
  IN /\ b # 0 /\ tab[u].stage # "DONE"
     /\ \/ \E d \in Shown : SetDecisions(b, d)
        \/ Validate(b)
        \/ tab[u].stage = "VALIDATED" /\ Commit(u, b)
        \/ Discard(b)
     /\ UNCHANGED <<around, tab>>

-----------------------------------------------------------------------------

\* An item is deactivated or activated, the year closed.
Elsewhere ==
  /\ changes < MaxChanges /\ changes' = changes + 1
  /\ \/ sound' = ~sound /\ UNCHANGED open
     \/ open /\ open' = FALSE /\ UNCHANGED sound
  /\ UNCHANGED <<batch, asks, tab>>

\* A batch is analysed again, by a call no page makes.
Reanalyze(b) == Analyze(b) /\ UNCHANGED <<around, tab>>

Init ==
  /\ batch = <<>> /\ asks \in Asks /\ sound \in BOOLEAN /\ open = TRUE /\ changes = 0
  /\ tab = [u \in Preparers |-> List]

Next ==
  \/ \E u \in Preparers :
       \/ Refetch(u)
       \/ AskUpload(u) \/ AskAnalyze(u) \/ Ask(u)
       \/ \E b \in Ids \cup {0} : Open(u, b)
  \/ Elsewhere
  \/ \E b \in Ids : Reanalyze(b)

Spec == Init /\ [][Next]_vars

-----------------------------------------------------------------------------
(* What the import promises.                                               *)

\* A workbook is imported once, though it was uploaded several times before any of
\* its batches was committed.
ImportedOnce == \A b, c \in Imported : b = c

\* What was committed is what was validated last: no page that is behind, no
\* decision saved meanwhile and no change of the catalogue puts anything else into
\* the ledger, nor anything overspent that the decisions do not accept.
CommittedAsValidated ==
  \A b \in Imported :
    /\ batch[b].decisions = batch[b].checked
    /\ ~batch[b].blocking
    /\ "accept" \in asks => batch[b].decisions.accept = "YES"

\* Nothing that is still under way, or sent from a page that is behind, touches an
\* imported batch: its documents are corrected by reversals.
ImportedForGood == [][\A b \in Imported : batch'[b] = batch[b]]_vars

=============================================================================
