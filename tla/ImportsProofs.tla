---------------------------- MODULE ImportsProofs ----------------------------
(***************************************************************************)
(* What the import of a workbook promises, for any users, findings and     *)
(* number of batches.                                                      *)
(***************************************************************************)
EXTENDS Imports, SequenceTheorems, TLAPS

-----------------------------------------------------------------------------
(* What each action does to the batches: nothing, one of them more, or one *)
(* of them otherwise.                                                      *)

Adds == \E u \in Preparers : Upload(u)

Turns(b) ==
  \/ Analyze(b) \/ Validate(b) \/ Discard(b)
  \/ \E d \in Decisions : SetDecisions(b, d)
  \/ \E u \in Preparers : Commit(u, b)

\* The pages reach the batches by the operations of the service alone.
LEMMA EveryStep ==
  ASSUME TypeOK, [Next]_vars
  PROVE  /\ asks' = asks
         /\ UNCHANGED batch \/ Adds \/ \E b \in Ids : Turns(b)
<1>1. CASE UNCHANGED vars
  BY <1>1 DEF vars, around
<1>2. ASSUME NEW u \in Preparers, Refetch(u)
      PROVE  asks' = asks /\ UNCHANGED batch
  BY <1>2 DEF Refetch, around
<1>3. ASSUME NEW u \in Preparers, NEW b \in Ids \cup {0}, Open(u, b)
      PROVE  asks' = asks /\ UNCHANGED batch
  BY <1>3 DEF Open, around
<1>4. ASSUME NEW u \in Preparers, AskUpload(u)
      PROVE  asks' = asks /\ Adds
  BY <1>4 DEF AskUpload, Adds, around
<1>5. ASSUME NEW u \in Preparers, AskAnalyze(u)
      PROVE  asks' = asks /\ (UNCHANGED batch \/ \E b \in Ids : Turns(b))
  <2>1. tab[u].uploaded # 0 /\ tab[u].uploaded \in Ids
    BY <1>5 DEF AskAnalyze, TypeOK, Tab
  <2> QED
    BY <1>5, <2>1 DEF AskAnalyze, Turns, around
<1>6. ASSUME NEW u \in Preparers, Ask(u)
      PROVE  asks' = asks /\ \E b \in Ids : Turns(b)
  <2>1. tab[u].of # 0 /\ tab[u].of \in Ids
    BY <1>6 DEF Ask, TypeOK, Tab
  <2>2. Shown \subseteq Decisions
    BY DEF Shown
  <2> QED
    BY <1>6, <2>1, <2>2 DEF Ask, Turns, around
<1>7. CASE Elsewhere
  BY <1>7 DEF Elsewhere
<1>8. ASSUME NEW b \in Ids, Reanalyze(b)
      PROVE  asks' = asks /\ Turns(b)
  BY <1>8 DEF Reanalyze, Turns, around
<1> QED
  BY <1>1, <1>2, <1>3, <1>4, <1>5, <1>6, <1>7, <1>8 DEF Next

-----------------------------------------------------------------------------
(* Types.                                                                  *)

LEMMA MergedDecides ==
  ASSUME NEW old \in Decisions, NEW new \in Decisions
  PROVE  Merged(old, new) \in Decisions
BY DEF Merged, Decisions

LEMMA NothingDecided ==
  ASSUME ImportsAssumption
  PROVE  NoDecisions \in Decisions
BY DEF ImportsAssumption, NoDecisions, Decisions

\* The batches stay batches, and no identity is lost.
LEMMA BatchesStay ==
  ASSUME TypeOK, [Next]_vars
  PROVE  /\ batch' \in Seq(Batch)
         /\ Len(batch') \in Nat /\ Ids \subseteq Ids'
<1> USE ImportsAssumption
<1>1. CASE UNCHANGED batch
  BY <1>1 DEF TypeOK, Ids
<1>2. CASE Adds
  <2>1. PICK u \in Preparers : Upload(u)
    BY <1>2 DEF Adds
  <2> DEFINE r == [creator |-> u, status |-> "UPLOADED", decisions |-> NoDecisions,
                   blocking |-> FALSE, checked |-> None]
  <2>2. r \in Batch
    BY NothingDecided DEF Batch, Statuses
  <2>3. batch' = Append(batch, r)
    BY <2>1 DEF Upload
  <2> QED
    BY <2>2, <2>3 DEF TypeOK, Ids
<1>3. ASSUME NEW b \in Ids, Turns(b)
      PROVE  batch' \in Seq(Batch) /\ Len(batch') = Len(batch)
  <2>0. batch[b] \in Batch
    BY DEF TypeOK, Ids
  <2>1. batch[b] \in Batch /\ batch[b].decisions \in Decisions
    BY <2>0 DEF Batch
  <2>2. PICK r \in Batch : batch' = [batch EXCEPT ![b] = r]
    <3>1. CASE Analyze(b)
      BY <3>1, <2>1 DEF Analyze, Set, Batch, Statuses
    <3>2. CASE Validate(b)
      BY <3>2, <2>1 DEF Validate, Set, Batch, Statuses
    <3>3. CASE Discard(b)
      BY <3>3, <2>1 DEF Discard, Set, Batch, Statuses
    <3>4. ASSUME NEW d \in Decisions, SetDecisions(b, d)
          PROVE  \E r \in Batch : batch' = [batch EXCEPT ![b] = r]
      BY <3>4, <2>1, MergedDecides DEF SetDecisions, AfterDecisions, Set, Batch, Statuses
    <3>5. ASSUME NEW u \in Preparers, Commit(u, b)
          PROVE  \E r \in Batch : batch' = [batch EXCEPT ![b] = r]
      BY <3>5, <2>1 DEF Commit, Set, Batch, Statuses
    <3> QED
      BY <1>3, <3>1, <3>2, <3>3, <3>4, <3>5 DEF Turns
  <2>3. batch' \in Seq(Batch)
    BY <2>2, ExceptSeq DEF TypeOK, Ids
  <2>4. Len(batch') = Len(batch)
    BY <2>2, ExceptSeq DEF TypeOK, Ids
  <2> QED
    BY <2>3, <2>4
<1> QED
  BY <1>1, <1>2, <1>3, EveryStep DEF TypeOK, Ids

\* Batches and pages keep their types; a page shows no batch that is not there.
THEOREM ImportsTypes == Spec => []TypeOK
<1> USE ImportsAssumption
<1>1. Init => TypeOK
  BY DEF Init, TypeOK, List, Tab, Ids
<1>2. TypeOK /\ [Next]_vars => TypeOK'
  <2> SUFFICES ASSUME TypeOK, [Next]_vars
               PROVE  TypeOK'
    OBVIOUS
  <2>1. batch' \in Seq(Batch) /\ Len(batch') \in Nat /\ Ids \subseteq Ids'
    BY BatchesStay
  <2>2. /\ asks' \in Asks /\ sound' \in BOOLEAN /\ open' \in BOOLEAN /\ changes' \in Nat
    <3>1. CASE UNCHANGED around
      BY <3>1 DEF TypeOK, around
    <3>2. CASE Elsewhere
      <4>1. changes' \in Nat
        BY <3>2, SMT DEF TypeOK, Elsewhere
      <4>2. asks' \in Asks /\ sound' \in BOOLEAN /\ open' \in BOOLEAN
        BY <3>2, Zenon DEF TypeOK, Elsewhere
      <4> QED
        BY <4>1, <4>2
    <3> QED
      BY <3>1, <3>2 DEF Next, vars, Refetch, Open, AskUpload, AskAnalyze, Ask, Reanalyze
  <2>3. Tab \subseteq Tab'
    BY <2>1 DEF Tab
  <2>4. tab' \in [Preparers -> Tab']
    <3>1. UNCHANGED tab => tab' \in [Preparers -> Tab']
      BY <2>3 DEF TypeOK
    <3>2. ASSUME NEW u \in Preparers, NEW t \in Tab', Turn(u, t)
          PROVE  tab' \in [Preparers -> Tab']
      BY <3>2, <2>3 DEF TypeOK, Turn
    <3>3. \A b : Stage(b) \in {"PREPARED", "VALIDATED", "DONE"}
      BY DEF Stage
    <3>4. ASSUME NEW u \in Preparers, Refetch(u)
          PROVE  tab' \in [Preparers -> Tab']
      BY <3>4, <3>2, <3>3, <2>3 DEF Refetch, TypeOK, Tab
    <3>5. ASSUME NEW u \in Preparers, NEW b \in Ids \cup {0}, Open(u, b)
          PROVE  tab' \in [Preparers -> Tab']
      <4>1. [tab[u] EXCEPT !.of = b, !.stage = Stage(b)] \in Tab'
        <5> DEFINE s == Stage(b)
        <5>1. s \in {"PREPARED", "VALIDATED", "DONE"}
          BY <3>3
        <5>2. tab[u] \in Tab' /\ b \in Ids' \cup {0}
          BY <2>1, <2>3 DEF TypeOK
        <5> HIDE DEF s
        <5>3. [tab[u] EXCEPT !.of = b, !.stage = s] \in Tab'
          BY <5>1, <5>2 DEF Tab
        <5> QED
          BY <5>3 DEF s
      <4> QED
        BY <3>5, <3>2, <4>1 DEF Open
    <3>6. ASSUME NEW u \in Preparers, AskUpload(u)
          PROVE  tab' \in [Preparers -> Tab']
      <4>1. Len(batch) + 1 \in Ids'
        <5>1. Len(batch') = Len(batch) + 1 /\ Len(batch) \in Nat
          BY <3>6 DEF AskUpload, Upload, TypeOK
        <5> QED
          BY <5>1 DEF Ids
      <4>2. [tab[u] EXCEPT !.uploaded = Len(batch) + 1] \in Tab'
        BY <4>1, <2>1, <2>3 DEF TypeOK, Tab
      <4> QED
        BY <3>6, <3>1, <3>2, <4>2 DEF AskUpload
    <3>7. ASSUME NEW u \in Preparers, AskAnalyze(u)
          PROVE  tab' \in [Preparers -> Tab']
      <4>1. [of |-> tab[u].uploaded, stage |-> "PREPARED", uploaded |-> 0] \in Tab'
        BY <2>1 DEF TypeOK, Tab
      <4>2. [tab[u] EXCEPT !.uploaded = 0] \in Tab'
        BY <2>1 DEF TypeOK, Tab
      <4> QED
        BY <3>7, <3>2, <4>1, <4>2 DEF AskAnalyze
    <3>8. ASSUME NEW u \in Preparers, Ask(u)
          PROVE  UNCHANGED tab
      BY <3>8 DEF Ask
    <3>9. ASSUME Elsewhere \/ (\E b \in Ids : Reanalyze(b)) \/ UNCHANGED vars
          PROVE  UNCHANGED tab
      BY <3>9 DEF Elsewhere, Reanalyze, vars
    <3> QED
      BY <3>1, <3>4, <3>5, <3>6, <3>7, <3>8, <3>9 DEF Next
  <2> QED
    BY <2>1, <2>2, <2>4 DEF TypeOK
<1> QED
  BY <1>1, <1>2, PTL DEF Spec

-----------------------------------------------------------------------------
(* The promises.                                                           *)

\* A validation that stands was of the decisions as they are.
StandsAsValidated ==
  \A b \in Ids : batch[b].status \in {"VALIDATED", "IMPORTED"} => batch[b].decisions = batch[b].checked

IInv == TypeOK /\ StandsAsValidated /\ ImportedOnce /\ CommittedAsValidated

\* What becomes of each batch when one of them turns.
LEMMA OneTurns ==
  ASSUME TypeOK, NEW b \in Ids, NEW r, Set(b, r)
  PROVE  /\ Ids' = Ids
         /\ batch'[b] = r
         /\ \A c \in Ids : c # b => batch'[c] = batch[c]
<1>1. batch \in [Ids -> Batch] /\ Len(batch) \in Nat
  BY DEF TypeOK, Ids
<1>2. DOMAIN batch' = DOMAIN batch
  BY DEF Set
<1>3. Len(batch') = Len(batch)
  BY <1>1, <1>2, LenProperties DEF Set, TypeOK
<1> QED
  BY <1>1, <1>3 DEF Set, Ids

\* Adding a batch leaves the others alone, and the new one is not imported.
LEMMA OneMore ==
  ASSUME TypeOK, Adds
  PROVE  \A b \in Ids' : \/ b \in Ids /\ batch'[b] = batch[b]
                         \/ b \notin Ids /\ batch'[b].status = "UPLOADED"
<1>1. PICK u \in Preparers : Upload(u)
  BY DEF Adds
<1> DEFINE r == [creator |-> u, status |-> "UPLOADED", decisions |-> NoDecisions,
                 blocking |-> FALSE, checked |-> None]
<1>2. batch' = Append(batch, r)
  BY <1>1 DEF Upload
<1>3. r.status = "UPLOADED"
  OBVIOUS
<1> HIDE DEF r
<1>4. Len(batch') = Len(batch) + 1 /\ Len(batch) \in Nat /\ batch'[Len(batch) + 1] = r
  BY <1>2 DEF TypeOK
<1>5. \A b \in 1 .. Len(batch) : batch'[b] = batch[b]
  BY <1>2 DEF TypeOK
<1> QED
  BY <1>3, <1>4, <1>5 DEF Ids

\* What a batch is imported from: nothing else was, and its validation stands.
LEMMA Kept ==
  ASSUME IInv, NEW b \in Ids, Turns(b)
  PROVE  \E r : /\ Set(b, r)
                /\ batch[b].status # "IMPORTED"
                /\ r.status = "VALIDATED" => r.decisions = r.checked
                /\ r.status = "IMPORTED" =>
                     /\ Imported = {} /\ r.decisions = r.checked /\ ~r.blocking
                     /\ "accept" \in asks => r.decisions.accept = "YES"
<1>1. batch[b] \in Batch
  BY DEF IInv, TypeOK, Ids
<1>2. ASSUME Analyze(b)
      PROVE  LET r == [batch[b] EXCEPT !.status = "ANALYZED", !.blocking = FALSE]
             IN  Set(b, r) /\ batch[b].status # "IMPORTED" /\ r.status = "ANALYZED"
  BY <1>1, <1>2 DEF Analyze, Unfinished, Analyzed, Batch
<1>3. ASSUME Validate(b)
      PROVE  LET r == [batch[b] EXCEPT !.status = "VALIDATED", !.blocking = ~sound,
                                       !.checked = batch[b].decisions]
             IN  /\ Set(b, r) /\ batch[b].status # "IMPORTED"
                 /\ r.status = "VALIDATED" /\ r.decisions = r.checked
  BY <1>1, <1>3 DEF Validate, Analyzed, Batch
<1>4. ASSUME Discard(b)
      PROVE  LET r == [batch[b] EXCEPT !.status = "DISCARDED"]
             IN  Set(b, r) /\ batch[b].status # "IMPORTED" /\ r.status = "DISCARDED"
  BY <1>1, <1>4 DEF Discard, Discardable, Batch
<1>5. ASSUME NEW d \in Decisions, SetDecisions(b, d)
      PROVE  LET r == [batch[b] EXCEPT !.decisions = Merged(@, d), !.status = AfterDecisions(@)]
             IN  Set(b, r) /\ batch[b].status # "IMPORTED" /\ r.status = "ANALYZED"
  BY <1>1, <1>5 DEF SetDecisions, AfterDecisions, Analyzed, Batch
<1>6. ASSUME NEW u \in Preparers, Commit(u, b)
      PROVE  LET r == [batch[b] EXCEPT !.status = "IMPORTED"]
             IN  /\ Set(b, r) /\ batch[b].status # "IMPORTED" /\ r.status = "IMPORTED"
                 /\ Imported = {} /\ r.decisions = r.checked /\ ~r.blocking
                 /\ "accept" \in asks => r.decisions.accept = "YES"
  BY <1>1, <1>6 DEF Commit, FirstImport, Batch, IInv, StandsAsValidated
<1> QED
  BY <1>2, <1>3, <1>4, <1>5, <1>6 DEF Turns

\* The promises are kept together by every step.
LEMMA PromisesKept ==
  ASSUME IInv, [Next]_vars
  PROVE  /\ (StandsAsValidated /\ ImportedOnce /\ CommittedAsValidated)'
         /\ \A b \in Imported : batch'[b] = batch[b]
<1>1. TypeOK /\ asks' = asks
  BY EveryStep DEF IInv
<1>2. CASE UNCHANGED batch
  BY <1>1, <1>2 DEF IInv, StandsAsValidated, ImportedOnce, CommittedAsValidated, Imported, Ids
<1>3. CASE Adds
  <2>1. \A b \in Ids' : \/ b \in Ids /\ batch'[b] = batch[b]
                        \/ b \notin Ids /\ batch'[b].status = "UPLOADED"
    BY <1>1, <1>3, OneMore
  <2>2. \A b \in Ids : b \in Ids'
    BY <1>1, BatchesStay
  <2> QED
    BY <1>1, <2>1, <2>2 DEF IInv, StandsAsValidated, ImportedOnce, CommittedAsValidated, Imported
<1>4. ASSUME NEW b \in Ids, Turns(b)
      PROVE  /\ (StandsAsValidated /\ ImportedOnce /\ CommittedAsValidated)'
             /\ \A c \in Imported : batch'[c] = batch[c]
  <2>1. PICK r : /\ Set(b, r)
                 /\ batch[b].status # "IMPORTED"
                 /\ r.status = "VALIDATED" => r.decisions = r.checked
                 /\ r.status = "IMPORTED" =>
                      /\ Imported = {} /\ r.decisions = r.checked /\ ~r.blocking
                      /\ "accept" \in asks => r.decisions.accept = "YES"
    BY <1>4, Kept
  <2>2. /\ Ids' = Ids
        /\ batch'[b] = r
        /\ \A c \in Ids : c # b => batch'[c] = batch[c]
    BY <1>1, <2>1, OneTurns
  <2>3. CASE r.status = "IMPORTED"
    <3>1. Imported' = {b}
      BY <2>1, <2>2, <2>3 DEF Imported
    <3> QED
      BY <1>1, <2>1, <2>2, <2>3, <3>1
         DEF IInv, StandsAsValidated, ImportedOnce, CommittedAsValidated, Imported
  <2>4. CASE r.status # "IMPORTED"
    <3>1. Imported' = Imported
      BY <2>1, <2>2, <2>4 DEF Imported
    <3> QED
      BY <1>1, <2>1, <2>2, <2>4, <3>1
         DEF IInv, StandsAsValidated, ImportedOnce, CommittedAsValidated, Imported
  <2> QED
    BY <2>3, <2>4
<1> QED
  BY <1>1, <1>2, <1>3, <1>4, EveryStep

LEMMA Inductive == Spec => []IInv
<1>1. Init => IInv
  <2> SUFFICES ASSUME Init PROVE IInv
    OBVIOUS
  <2>1. TypeOK
    BY ImportsAssumption DEF Init, TypeOK, List, Tab, Ids
  <2>2. Ids = {}
    BY DEF Init, Ids
  <2> QED
    BY <2>1, <2>2 DEF IInv, StandsAsValidated, ImportedOnce, CommittedAsValidated, Imported
<1>2. TypeOK /\ IInv /\ [Next]_vars /\ TypeOK' => IInv'
  BY PromisesKept DEF IInv
<1> QED
  BY <1>1, <1>2, ImportsTypes, PTL DEF Spec

\* A workbook is imported once, however often it was uploaded before: what upload
\* looks at may be behind, the unique index is not.
THEOREM Once == Spec => []ImportedOnce
BY Inductive, PTL DEF IInv

\* Nothing is imported but what was validated and decided last, whoever pressed what
\* on which page.
THEOREM AsValidated == Spec => []CommittedAsValidated
BY Inductive, PTL DEF IInv

\* No request reaches a batch that was imported.
THEOREM ForGood == Spec => ImportedForGood
<1>1. IInv /\ [Next]_vars => [\A b \in Imported : batch'[b] = batch[b]]_vars
  BY PromisesKept
<1> QED
  BY <1>1, Inductive, PTL DEF Spec, ImportedForGood
=============================================================================
