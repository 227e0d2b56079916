----------------------------- MODULE DeskProofs -----------------------------
(***************************************************************************)
(* Proofs about the approval of a document and the desks it is approved    *)
(* at, for any users, rights, bands, documents, years, items, files and    *)
(* bounds.  Of the workflow: what it promises of the record of actions, by *)
(* an inductive invariant that also says where the present round stands.   *)
(* Of the desks and forms: that whatever is pressed, and on however old a  *)
(* page, the document goes the way Workflow describes, and what the forms, *)
(* the attachments and the pages promise.                                  *)
(***************************************************************************)
EXTENDS Desk, TLAPS

-----------------------------------------------------------------------------
(* The steps and the record.                                               *)

\* The steps are four, in this order.
LEMMA Steps ==
  /\ StepNames = {"review", "control", "supervise", "approve"}
  /\ Order["review"] = 1 /\ Order["control"] = 2
  /\ Order["supervise"] = 3 /\ Order["approve"] = 4
BY DEF StepNames, Order

\* A record with an action appended has it last, and the earlier ones before.
LEMMA Appended ==
  ASSUME NEW S, NEW s \in Seq(S), NEW e \in S
  PROVE  /\ Append(s, e) \in Seq(S)
         /\ Len(s) \in Nat
         /\ Len(Append(s, e)) = Len(s) + 1
         /\ \A i \in 1 .. Len(s) : Append(s, e)[i] = s[i]
         /\ Append(s, e)[Len(s) + 1] = e
OBVIOUS

-----------------------------------------------------------------------------
(* The inductive invariant.                                                *)

InRound(i) == log[i].round = round

\* No action belongs to a round that has not begun.
RoundsSoFar == \A i \in 1 .. Len(log) : log[i].round <= round

\* A round under way was submitted with the document's present amount, and its
\* approvals so far are of steps before the one it is at, budget control among
\* them once that is behind.
RoundStands ==
  state = "ACTIVE" =>
    /\ \A i \in 1 .. Len(log) :
         InRound(i) =>
           /\ Taken(i) => /\ log[i].action = "APPROVE" /\ log[i].step \in StepNames
                          /\ Order[log[i].step] < Order[step]
           /\ log[i].action = "SUBMIT" => log[i].amount = amount
    /\ Order[step] > Order["control"] =>
         \E i \in 1 .. Len(log) :
           InRound(i) /\ log[i].action = "APPROVE" /\ log[i].step = "control"

IInv ==
  /\ TypeOK
  /\ InstanceMatchesDocument
  /\ SeparationOfDuties
  /\ StepsInOrder
  /\ AmountApprovedIsPosted
  /\ RoundsSoFar
  /\ RoundStands

\* The invariant holds of a new draft.
LEMMA InitInvariant == Init => IInv
<1> SUFFICES ASSUME Init PROVE IInv
  OBVIOUS
<1> USE WorkflowAssumption
<1>1. log = <<>> /\ Len(log) = 0 /\ 1 .. Len(log) = {}
  BY DEF Init
<1>2. log \in Seq(Action)
  BY <1>1
<1>3. bands \in [Banded -> SUBSET Amounts]
  BY DEF Init
<1>4. TypeOK
  BY <1>2, <1>3 DEF Init, TypeOK, Statuses, Editable, Drafted
<1>5. InstanceMatchesDocument
  BY <1>1 DEF Init, InstanceMatchesDocument, InProgress
<1> QED
  BY <1>1, <1>4, <1>5 DEF Init, IInv, SeparationOfDuties, StepsInOrder, AmountApprovedIsPosted,
     RoundsSoFar, RoundStands

-----------------------------------------------------------------------------
(* What an action of the record leaves true of it.                         *)

\* A step taken by somebody authorised keeps the record in order: the separation
\* of duties because Authorized compares with the approvals of the round, the
\* order of the steps because the round is at that step.
LEMMA StepKeepsRecord ==
  ASSUME IInv, Active,
         NEW u \in Users, NEW behalf \in Users \cup {NoUser}, Authorized(u, behalf),
         NEW a \in {"APPROVE", "POST", "REJECT", "RETURN"}, a = "POST" => step = "approve",
         Record(a, u, behalf), UNCHANGED <<amount, round>>
  PROVE  /\ log' \in Seq(Action)
         /\ Len(log') = Len(log) + 1 /\ Len(log) \in Nat
         /\ \A i \in 1 .. Len(log) : log'[i] = log[i]
         /\ log'[Len(log) + 1] = [round |-> round, action |-> a, step |-> step, actor |-> u,
                                  behalf |-> behalf, amount |-> amount]
         /\ SeparationOfDuties'
         /\ StepsInOrder'
         /\ AmountApprovedIsPosted'
         /\ RoundsSoFar'
<1> DEFINE e == [round |-> round, action |-> a, step |-> step, actor |-> u,
                 behalf |-> behalf, amount |-> amount]
<1> DEFINE n == Len(log) + 1
<1>1. log \in Seq(Action) /\ round \in Nat /\ step \in StepNames /\ amount \in Drafted
  BY DEF IInv, TypeOK, InstanceMatchesDocument, Active
<1>2. e \in Action
  BY <1>1 DEF Action
<1>3. log' = Append(log, e)
  BY DEF Record
<1> HIDE DEF e
<1>4. /\ log' \in Seq(Action)
      /\ Len(log) \in Nat
      /\ Len(log') = n
      /\ \A i \in 1 .. Len(log) : log'[i] = log[i]
      /\ log'[n] = e
  BY <1>1, <1>2, <1>3, Appended
<1>5. /\ e.round = round /\ e.action = a /\ e.step = step /\ e.actor = u
      /\ e.behalf = behalf /\ e.amount = amount
  BY DEF e
<1>6. \A i \in 1 .. n : i = n \/ i \in 1 .. Len(log)
  BY <1>4
<1>7. \A i \in 1 .. Len(log) : i \in 1 .. n /\ \A j \in 1 .. i - 1 : j \in 1 .. Len(log)
  BY <1>4
<1>8. \A j \in 1 .. n - 1 : j \in 1 .. Len(log)
  BY <1>4
<1> HIDE DEF n
<1>9. \A j \in 1 .. Len(log) : log[j].round = round =>
        /\ Taken(j) => log[j].action = "APPROVE" /\ Order[log[j].step] < Order[step]
        /\ log[j].action = "SUBMIT" => log[j].amount = amount
  BY DEF IInv, RoundStands, Active, InRound
<1>10. SeparationOfDuties'
  <2>1. ASSUME NEW i \in 1 .. n, Taken(i)'
        PROVE  /\ Creator \notin {log'[i].actor, log'[i].behalf}
               /\ \A j \in 1 .. i - 1 : SameRound(i, j)' /\ log'[j].action = "APPROVE" =>
                    /\ log'[j].actor # log'[i].actor
                    /\ log'[j].behalf = NoUser \/ log'[j].behalf # log'[i].behalf
    <3>1. CASE i = n
      <4>1. Creator \notin {u, behalf} /\ Distinct(u, behalf)
        BY DEF Authorized
      <4> QED
        BY <1>4, <1>5, <1>8, <3>1, <4>1 DEF Distinct, ApprovedThisRound, SameRound
    <3>2. CASE i \in 1 .. Len(log)
      BY <1>4, <1>7, <2>1, <3>2 DEF IInv, SeparationOfDuties, Taken, SameRound
    <3> QED
      BY <1>6, <3>1, <3>2
  <2> QED
    BY <1>4, <2>1 DEF SeparationOfDuties
<1>11. StepsInOrder'
  <2>1. ASSUME NEW i \in 1 .. n, Taken(i)'
        PROVE  /\ \A j \in 1 .. i - 1 : Taken(j)' /\ SameRound(i, j)' =>
                    log'[j].action = "APPROVE" /\ Order[log'[j].step] < Order[log'[i].step]
               /\ log'[i].action = "POST" =>
                    \E j \in 1 .. i - 1 : /\ SameRound(i, j)' /\ log'[j].action = "APPROVE"
                                          /\ log'[j].step = "control"
    <3>1. CASE i = n
      <4>1. ASSUME a = "POST"
            PROVE  \E j \in 1 .. Len(log) :
                     log[j].round = round /\ log[j].action = "APPROVE" /\ log[j].step = "control"
        BY <4>1, Steps DEF IInv, RoundStands, Active, InRound
      <4>2. 1 .. n - 1 = 1 .. Len(log)
        BY <1>4 DEF n
      <4> QED
        BY <1>4, <1>5, <1>9, <3>1, <4>1, <4>2 DEF Taken, SameRound
    <3>2. CASE i \in 1 .. Len(log)
      <4>1. log'[i] = log[i] /\ \A j \in 1 .. i - 1 : log'[j] = log[j]
        BY <1>4, <1>7, <3>2
      <4>2. /\ \A j \in 1 .. i - 1 : Taken(j) /\ SameRound(i, j) =>
                 log[j].action = "APPROVE" /\ Order[log[j].step] < Order[log[i].step]
            /\ log[i].action = "POST" =>
                 \E j \in 1 .. i - 1 : /\ SameRound(i, j) /\ log[j].action = "APPROVE"
                                       /\ log[j].step = "control"
        BY <2>1, <3>2, <4>1 DEF IInv, StepsInOrder, Taken
      <4> QED
        BY <4>1, <4>2 DEF Taken, SameRound
    <3> QED
      BY <1>6, <3>1, <3>2
  <2> QED
    BY <1>4, <2>1 DEF StepsInOrder
<1>12. AmountApprovedIsPosted'
  <2>1. ASSUME NEW i \in 1 .. n, NEW j \in 1 .. n,
               SameRound(i, j)', log'[i].action = "SUBMIT", Taken(j)'
        PROVE  log'[j].amount = log'[i].amount
    <3>1. i \in 1 .. Len(log)
      BY <1>4, <1>5, <1>6, <2>1
    <3>2. CASE j = n
      BY <1>4, <1>5, <1>9, <2>1, <3>1, <3>2 DEF SameRound
    <3>3. CASE j \in 1 .. Len(log)
      BY <1>4, <2>1, <3>1, <3>3 DEF IInv, AmountApprovedIsPosted, SameRound, Taken
    <3> QED
      BY <1>6, <3>2, <3>3
  <2> QED
    BY <1>4, <2>1 DEF AmountApprovedIsPosted
<1>13. RoundsSoFar'
  BY <1>1, <1>4, <1>5, <1>6 DEF IInv, RoundsSoFar
<1> QED
  BY <1>4, <1>10, <1>11, <1>12, <1>13 DEF e, n

\* A submission, which opens a round of its own, or a cancellation is no step
\* taken, and changes nothing in what was.
LEMMA OtherEntryKeepsRecord ==
  ASSUME IInv, NEW e \in Action, e.action \in {"SUBMIT", "CANCEL"},
         log' = Append(log, e), round' \in Nat, round <= round', e.round <= round',
         e.action = "SUBMIT" => e.round > round
  PROVE  /\ log' \in Seq(Action)
         /\ Len(log') = Len(log) + 1 /\ Len(log) \in Nat
         /\ \A i \in 1 .. Len(log) : log'[i] = log[i]
         /\ log'[Len(log) + 1] = e
         /\ SeparationOfDuties'
         /\ StepsInOrder'
         /\ AmountApprovedIsPosted'
         /\ RoundsSoFar'
<1> DEFINE n == Len(log) + 1
<1>1. /\ log \in Seq(Action)
      /\ round \in Nat
      /\ \A i \in 1 .. Len(log) : log[i].round \in Nat /\ log[i].round <= round
  <2>1. log \in Seq(Action) /\ round \in Nat
    BY DEF IInv, TypeOK
  <2>2. \A i \in 1 .. Len(log) : log[i] \in Action
    BY <2>1
  <2> QED
    BY <2>1, <2>2 DEF IInv, RoundsSoFar, Action
<1>2. /\ log' \in Seq(Action)
      /\ Len(log) \in Nat
      /\ Len(log') = n
      /\ \A i \in 1 .. Len(log) : log'[i] = log[i]
      /\ log'[n] = e
  BY <1>1, Appended
<1>3. \A i \in 1 .. n : i = n \/ i \in 1 .. Len(log)
  BY <1>2
<1>4. \A i \in 1 .. Len(log) : i \in 1 .. n /\ \A j \in 1 .. i - 1 : j \in 1 .. Len(log)
  BY <1>2
<1> HIDE DEF n
<1>5. \A i \in 1 .. n : Taken(i)' => i \in 1 .. Len(log) /\ Taken(i)
  BY <1>2, <1>3 DEF Taken
<1>6. SeparationOfDuties'
  <2>1. ASSUME NEW i \in 1 .. n, Taken(i)'
        PROVE  /\ Creator \notin {log'[i].actor, log'[i].behalf}
               /\ \A j \in 1 .. i - 1 : SameRound(i, j)' /\ log'[j].action = "APPROVE" =>
                    /\ log'[j].actor # log'[i].actor
                    /\ log'[j].behalf = NoUser \/ log'[j].behalf # log'[i].behalf
    BY <1>2, <1>4, <1>5, <2>1 DEF IInv, SeparationOfDuties, SameRound
  <2> QED
    BY <1>2, <2>1 DEF SeparationOfDuties
<1>7. StepsInOrder'
  <2>1. ASSUME NEW i \in 1 .. n, Taken(i)'
        PROVE  /\ \A j \in 1 .. i - 1 : Taken(j)' /\ SameRound(i, j)' =>
                    log'[j].action = "APPROVE" /\ Order[log'[j].step] < Order[log'[i].step]
               /\ log'[i].action = "POST" =>
                    \E j \in 1 .. i - 1 : /\ SameRound(i, j)' /\ log'[j].action = "APPROVE"
                                          /\ log'[j].step = "control"
    <3>1. /\ i \in 1 .. Len(log) /\ Taken(i) /\ log'[i] = log[i]
          /\ \A j \in 1 .. i - 1 : log'[j] = log[j]
      BY <1>2, <1>4, <1>5, <2>1
    <3>2. /\ \A j \in 1 .. i - 1 : Taken(j) /\ SameRound(i, j) =>
               log[j].action = "APPROVE" /\ Order[log[j].step] < Order[log[i].step]
          /\ log[i].action = "POST" =>
               \E j \in 1 .. i - 1 : /\ SameRound(i, j) /\ log[j].action = "APPROVE"
                                     /\ log[j].step = "control"
      BY <3>1 DEF IInv, StepsInOrder
    <3> QED
      BY <3>1, <3>2 DEF Taken, SameRound
  <2> QED
    BY <1>2, <2>1 DEF StepsInOrder
<1>8. AmountApprovedIsPosted'
  <2>1. ASSUME NEW i \in 1 .. n, NEW j \in 1 .. n,
               SameRound(i, j)', log'[i].action = "SUBMIT", Taken(j)'
        PROVE  log'[j].amount = log'[i].amount
    <3>1. j \in 1 .. Len(log) /\ Taken(j) /\ log[j].round \in Nat /\ log[j].round <= round
      BY <1>1, <1>2, <1>5, <2>1
    <3>2. i \in 1 .. Len(log)
      <4>1. e.round \in Nat
        BY DEF Action
      <4> QED
        BY <1>1, <1>2, <1>3, <2>1, <3>1, <4>1 DEF SameRound
    <3> QED
      BY <1>2, <2>1, <3>1, <3>2 DEF IInv, AmountApprovedIsPosted, SameRound
  <2> QED
    BY <1>2, <2>1 DEF AmountApprovedIsPosted
<1>9. RoundsSoFar'
  <2>1. ASSUME NEW i \in 1 .. n
        PROVE  log'[i].round <= round'
    <3>1. CASE i = n
      BY <1>2, <3>1
    <3>2. CASE i \in 1 .. Len(log)
      BY <1>1, <1>2, <3>2
    <3> QED
      BY <1>3, <3>1, <3>2
  <2> QED
    BY <1>2, <2>1 DEF RoundsSoFar
<1> QED
  BY <1>2, <1>6, <1>7, <1>8, <1>9 DEF n

-----------------------------------------------------------------------------
(* The actions, one by one.                                                *)

\* What the administrators do leaves the document, its instance and its record.
LEMMA SettingsKeep ==
  ASSUME IInv, TypeOK', UNCHANGED <<document, instance>>
  PROVE  IInv'
BY DEF IInv, document, instance, InstanceMatchesDocument, ApprovedThisRound, SeparationOfDuties,
   StepsInOrder, AmountApprovedIsPosted, RoundsSoFar, RoundStands, InRound, Taken, SameRound

\* Budget control is asked whatever the amount, so no step after it comes next
\* before it.
LEMMA ControlComesFirst ==
  ASSUME NEW s \in StepNames, NEW after \in 0 .. 1, NEW a, IsNext(s, after, a)
  PROVE  Order[s] <= Order["control"]
<1>1. Applies("control", a)
  BY DEF Applies, Banded
<1>2. \A t \in StepNames : Order[t] > after /\ Order[t] < Order[s] => ~Applies(t, a)
  BY DEF IsNext
<1>3. Order[s] \in Nat /\ "control" \in StepNames
  BY Steps
<1> QED
  BY <1>1, <1>2, <1>3, Steps

\* A draft's amount is free to change: no round is under way.
LEMMA EditKeeps ==
  ASSUME IInv, EditDraft
  PROVE  IInv'
<1>1. UNCHANGED <<status, instance, settings>> /\ amount' \in Drafted /\ status \in Editable
  BY DEF EditDraft
<1>2. TypeOK'
  BY <1>1 DEF IInv, TypeOK, instance, settings
<1>3. state # "ACTIVE"
  BY <1>1 DEF IInv, InstanceMatchesDocument, Editable, InProgress
<1>4. RoundStands'
  BY <1>1, <1>3 DEF RoundStands, instance
<1> QED
  BY <1>1, <1>2, <1>4 DEF IInv, instance, InstanceMatchesDocument, ApprovedThisRound,
     SeparationOfDuties, StepsInOrder, AmountApprovedIsPosted, RoundsSoFar, Taken, SameRound

\* Submission opens a round with nothing approved in it, at a step no later than
\* budget control.
LEMMA SubmitKeeps ==
  ASSUME IInv, Submit
  PROVE  IInv'
<1> DEFINE e == [round |-> round + 1, action |-> "SUBMIT", step |-> NoStep,
                 actor |-> Creator, behalf |-> NoUser, amount |-> amount]
<1>1. /\ log \in Seq(Action) /\ round \in Nat /\ amount \in Amounts /\ amount \in Drafted
      /\ status \in Editable
  BY WorkflowAssumption DEF IInv, TypeOK, Submit, Submittable, Amounts, Drafted
<1>2. e \in Action /\ e.action = "SUBMIT" /\ e.round = round + 1 /\ e.amount = amount
  BY <1>1, WorkflowAssumption DEF Action
<1>3. log' = Append(log, e) /\ round' = round + 1
  BY DEF Submit
<1> HIDE DEF e
<1>4. round' \in Nat /\ round <= round' /\ e.round <= round' /\ e.round > round
  BY <1>1, <1>2, <1>3
<1>5. /\ log' \in Seq(Action)
      /\ Len(log') = Len(log) + 1 /\ Len(log) \in Nat
      /\ \A i \in 1 .. Len(log) : log'[i] = log[i]
      /\ log'[Len(log) + 1] = e
      /\ SeparationOfDuties' /\ StepsInOrder' /\ AmountApprovedIsPosted' /\ RoundsSoFar'
  BY <1>2, <1>3, <1>4, OtherEntryKeepsRecord
<1>6. /\ status' = "SUBMITTED" /\ state' = "ACTIVE" /\ asked' = amount /\ amount' = amount
      /\ step' \in StepNames /\ IsNext(step', 0, amount) /\ UNCHANGED settings
  BY DEF Submit
<1>7. TypeOK'
  BY <1>1, <1>4, <1>5, <1>6 DEF IInv, TypeOK, settings, Statuses, InProgress
<1>8. \A i \in 1 .. Len(log') : i \in 1 .. Len(log) \/ i = Len(log) + 1
  BY <1>5
<1>9. \A i \in 1 .. Len(log) : log[i].round # round + 1
  <2>1. \A i \in 1 .. Len(log) : log[i] \in Action
    BY <1>1
  <2> QED
    BY <1>1, <2>1 DEF IInv, RoundsSoFar, Action
<1>10. \A i \in 1 .. Len(log') : log'[i].round = round' => log'[i] = e
  BY <1>3, <1>5, <1>8, <1>9
<1>11. InstanceMatchesDocument'
  <2>1. log' # <<>>
    BY <1>5
  <2>2. \A i \in 1 .. Len(log') : ~ApprovedThisRound(i)'
    BY <1>2, <1>10 DEF ApprovedThisRound
  <2> QED
    BY <1>6, <2>1, <2>2, WorkflowAssumption DEF InstanceMatchesDocument, InProgress
<1>12. RoundStands'
  <2>1. Order[step'] <= Order["control"] /\ Order[step'] \in Nat
    BY <1>6, ControlComesFirst, Steps
  <2> QED
    BY <1>2, <1>6, <1>10, <2>1, Steps DEF RoundStands, InRound, Taken
<1> QED
  BY <1>5, <1>7, <1>11, <1>12 DEF IInv

\* A step approved leads to a later one, and past budget control only by it.
LEMMA ApproveKeeps ==
  ASSUME IInv, NEW u \in Users, Approve(u)
  PROVE  IInv'
<1>1. PICK behalf \in Users \cup {NoUser} :
        /\ Active
        /\ Authorized(u, behalf)
        /\ step' \in {s \in StepNames : IsNext(s, Order[step], asked)}
        /\ status' = "IN_REVIEW"
        /\ Record("APPROVE", u, behalf)
        /\ UNCHANGED <<amount, state, round, asked, settings>>
  BY DEF Approve
<1> DEFINE e == [round |-> round, action |-> "APPROVE", step |-> step, actor |-> u,
                 behalf |-> behalf, amount |-> amount]
<1>2. /\ log' \in Seq(Action)
      /\ Len(log') = Len(log) + 1 /\ Len(log) \in Nat
      /\ \A i \in 1 .. Len(log) : log'[i] = log[i]
      /\ log'[Len(log) + 1] = e
      /\ SeparationOfDuties' /\ StepsInOrder' /\ AmountApprovedIsPosted' /\ RoundsSoFar'
  BY <1>1, StepKeepsRecord
<1>3. e.round = round /\ e.action = "APPROVE" /\ e.step = step
  OBVIOUS
<1> HIDE DEF e
<1>4. /\ state = "ACTIVE" /\ state' = "ACTIVE" /\ step \in StepNames /\ step' \in StepNames
      /\ IsNext(step', Order[step], asked)
  BY <1>1 DEF Active, IInv, TypeOK, InstanceMatchesDocument
<1>5. TypeOK'
  BY <1>1, <1>2, <1>4 DEF IInv, TypeOK, settings, Statuses, InProgress
<1>6. Len(log) + 1 \in 1 .. Len(log')
  BY <1>2
<1>7. InstanceMatchesDocument'
  <2>1. log' # <<>>
    BY <1>2
  <2>2. \E i \in 1 .. Len(log') : ApprovedThisRound(i)'
    BY <1>1, <1>2, <1>3, <1>6 DEF ApprovedThisRound
  <2> QED
    BY <1>1, <1>4, <2>1, <2>2, WorkflowAssumption DEF InstanceMatchesDocument, InProgress
<1>8. RoundStands'
  <2>1. Order[step'] > Order[step] /\ Order[step] \in Nat /\ Order[step'] \in Nat
    BY <1>4, Steps DEF IsNext
  <2>2. \A i \in 1 .. Len(log') : i \in 1 .. Len(log) \/ i = Len(log) + 1
    BY <1>2
  <2>3. ASSUME NEW i \in 1 .. Len(log'), InRound(i)'
        PROVE  /\ Taken(i)' => /\ log'[i].action = "APPROVE" /\ log'[i].step \in StepNames
                               /\ Order[log'[i].step] < Order[step']
               /\ log'[i].action = "SUBMIT" => log'[i].amount = amount'
    <3>1. CASE i = Len(log) + 1
      BY <1>2, <1>3, <1>4, <2>1, <3>1
    <3>2. CASE i \in 1 .. Len(log)
      <4>1. /\ Taken(i) => /\ log[i].action = "APPROVE" /\ log[i].step \in StepNames
                           /\ Order[log[i].step] < Order[step]
            /\ log[i].action = "SUBMIT" => log[i].amount = amount
        BY <1>1, <1>2, <1>4, <2>3, <3>2 DEF IInv, RoundStands, InRound
      <4>2. \A s \in StepNames : Order[s] \in Nat
        BY Steps
      <4> QED
        BY <1>1, <1>2, <2>1, <3>2, <4>1, <4>2 DEF Taken
    <3> QED
      BY <2>2, <3>1, <3>2
  <2>4. ASSUME Order[step'] > Order["control"]
        PROVE  \E i \in 1 .. Len(log') :
                 InRound(i)' /\ log'[i].action = "APPROVE" /\ log'[i].step = "control"
    <3>1. CASE step = "review"
      BY <1>4, <2>4, <3>1, ControlComesFirst, Steps
    <3>2. CASE step = "control"
      BY <1>1, <1>2, <1>3, <1>6, <3>2 DEF InRound
    <3>3. CASE Order[step] > Order["control"]
      <4>1. PICK i \in 1 .. Len(log) :
              InRound(i) /\ log[i].action = "APPROVE" /\ log[i].step = "control"
        BY <1>4, <3>3 DEF IInv, RoundStands
      <4>2. i \in 1 .. Len(log')
        BY <1>2
      <4> QED
        BY <1>1, <1>2, <4>1, <4>2 DEF InRound
    <3> QED
      BY <1>4, <3>1, <3>2, <3>3, Steps
  <2> QED
    BY <2>3, <2>4 DEF RoundStands
<1> QED
  BY <1>2, <1>5, <1>7, <1>8 DEF IInv

\* A posting, a rejection or a return ends the round: nothing stands any more.
LEMMA EndOfRoundKeeps ==
  ASSUME IInv, NEW u \in Users, NEW behalf \in Users \cup {NoUser},
         Active, Authorized(u, behalf),
         NEW a \in {"POST", "REJECT", "RETURN"}, a = "POST" => step = "approve",
         <<status', state', a>> \in {<<"POSTED", "COMPLETED", "POST">>,
                                     <<"REJECTED", "REJECTED", "REJECT">>,
                                     <<"RETURNED", "RETURNED", "RETURN">>},
         step' = NoStep, Record(a, u, behalf), UNCHANGED <<amount, round, asked, settings>>
  PROVE  IInv'
<1>1. /\ log' \in Seq(Action)
      /\ Len(log') = Len(log) + 1 /\ Len(log) \in Nat
      /\ SeparationOfDuties' /\ StepsInOrder' /\ AmountApprovedIsPosted' /\ RoundsSoFar'
  BY StepKeepsRecord
<1>2. /\ status' \in {"POSTED", "REJECTED", "RETURNED"}
      /\ state' \in {"COMPLETED", "REJECTED", "RETURNED"}
      /\ state = "ACTIVE"
  BY DEF Active
<1>3. TypeOK'
  BY <1>1, <1>2 DEF IInv, TypeOK, settings, Statuses, Editable, Final
<1>4. InstanceMatchesDocument'
  <2>1. log' # <<>>
    BY <1>1
  <2> QED
    BY <1>2, <2>1 DEF InstanceMatchesDocument, InProgress
<1>5. RoundStands'
  BY <1>2 DEF RoundStands
<1> QED
  BY <1>1, <1>3, <1>4, <1>5 DEF IInv

\* A cancellation closes the instance there is, if there is one.
LEMMA CancelKeeps ==
  ASSUME IInv, NEW u \in Users, Cancel(u)
  PROVE  IInv'
<1>1. /\ status' = "CANCELLED" /\ UNCHANGED <<amount, settings>>
      /\ status \in Editable \cup InProgress /\ CloseInstance(u)
  BY DEF Cancel, Cancellable
<1>2. CASE state = "NONE"
  <2>1. UNCHANGED instance
    BY <1>1, <1>2 DEF CloseInstance
  <2>2. TypeOK'
    BY <1>1, <2>1 DEF IInv, TypeOK, settings, instance, Statuses, Final
  <2>3. InstanceMatchesDocument'
    BY <1>1, <1>2, <2>1 DEF IInv, InstanceMatchesDocument, instance, InProgress
  <2>4. RoundStands'
    BY <1>2, <2>1 DEF RoundStands, instance
  <2> QED
    BY <1>1, <2>1, <2>2, <2>3, <2>4 DEF IInv, instance, SeparationOfDuties, StepsInOrder,
       AmountApprovedIsPosted, RoundsSoFar, Taken, SameRound
<1>3. CASE state # "NONE"
  <2> DEFINE e == [round |-> round, action |-> "CANCEL", step |-> step, actor |-> u,
                   behalf |-> NoUser, amount |-> amount]
  <2>1. /\ state' = "CANCELLED" /\ step' = NoStep /\ UNCHANGED <<round, asked>>
        /\ log' = Append(log, e)
    BY <1>1, <1>3 DEF CloseInstance, Record
  <2>2. e \in Action /\ e.action = "CANCEL" /\ e.round = round /\ round \in Nat
    BY DEF IInv, TypeOK, Action
  <2> HIDE DEF e
  <2>3. /\ log' \in Seq(Action)
        /\ Len(log') = Len(log) + 1 /\ Len(log) \in Nat
        /\ SeparationOfDuties' /\ StepsInOrder' /\ AmountApprovedIsPosted' /\ RoundsSoFar'
    <3>1. round' \in Nat /\ round <= round' /\ e.round <= round'
      BY <2>1, <2>2
    <3> QED
      BY <2>1, <2>2, <3>1, OtherEntryKeepsRecord
  <2>4. TypeOK'
    BY <1>1, <1>3, <2>1, <2>3 DEF IInv, TypeOK, settings, Statuses, Final
  <2>5. InstanceMatchesDocument'
    <3>1. log' # <<>>
      BY <2>3
    <3> QED
      BY <1>1, <2>1, <3>1 DEF InstanceMatchesDocument, InProgress
  <2>6. RoundStands'
    BY <2>1 DEF RoundStands
  <2> QED
    BY <2>3, <2>4, <2>5, <2>6 DEF IInv
<1> QED
  BY <1>2, <1>3

\* A reversal leaves the instance completed, and with it the record.
LEMMA ReverseKeeps ==
  ASSUME IInv, Reverse
  PROVE  IInv'
<1>1. /\ status = "POSTED" /\ status' = "REVERSED"
      /\ UNCHANGED <<amount, state, round, step, asked, log, settings>>
  BY DEF Reverse, instance
<1>2. TypeOK'
  BY <1>1 DEF IInv, TypeOK, settings, Statuses, Final
<1>3. state = "COMPLETED"
  BY <1>1 DEF IInv, InstanceMatchesDocument
<1>4. InstanceMatchesDocument'
  BY <1>1, <1>3 DEF IInv, InstanceMatchesDocument, InProgress
<1> QED
  BY <1>1, <1>2, <1>4 DEF IInv, SeparationOfDuties, StepsInOrder, AmountApprovedIsPosted, RoundsSoFar,
     RoundStands, InRound, Taken, SameRound

\* Rights, delegations and bands stay of their types.
LEMMA AdministrationKeeps ==
  ASSUME IInv,
         \/ \E u \in Users : ChangeRights(u) \/ \E v \in Users : Delegate(u, v) \/ EndDelegation(u, v)
         \/ \E s \in Banded : SetBand(s)
  PROVE  IInv'
<1>1. ASSUME NEW u \in Users, ChangeRights(u) PROVE TypeOK' /\ UNCHANGED <<document, instance>>
  <2>1. PICK r \in Roles :
          /\ changes' = changes + 1
          /\ rights' = [rights EXCEPT ![u] = r]
          /\ formerRights' = [formerRights EXCEPT ![u] = @ \cup {rights[u]}]
          /\ UNCHANGED <<document, instance, bands, bandChanges, delegations>>
    BY <1>1 DEF ChangeRights
  <2>2. rights' \in [Users -> Roles] /\ formerRights' \in [Users -> SUBSET Roles]
    BY <2>1 DEF IInv, TypeOK
  <2> QED
    BY <2>1, <2>2 DEF IInv, TypeOK, document, instance
<1>2. ASSUME NEW u \in Users, NEW v \in Users, Delegate(u, v) \/ EndDelegation(u, v)
      PROVE  TypeOK' /\ UNCHANGED <<document, instance>>
  BY <1>2 DEF Delegate, EndDelegation, IInv, TypeOK, document, instance
<1>3. ASSUME NEW s \in Banded, SetBand(s) PROVE TypeOK' /\ UNCHANGED <<document, instance>>
  <2>1. PICK lo \in 1 .. MaxAmount + 1, hi \in 1 .. MaxAmount + 1 :
          bands' = [bands EXCEPT ![s] = {a \in Amounts : lo <= a /\ a <= hi}]
    BY <1>3 DEF SetBand
  <2>2. bands' \in [Banded -> SUBSET Amounts]
    BY <2>1 DEF IInv, TypeOK
  <2> QED
    BY <1>3, <2>2 DEF SetBand, IInv, TypeOK, document, instance
<1> QED
  BY <1>1, <1>2, <1>3, SettingsKeep

-----------------------------------------------------------------------------
(* The theorems.                                                           *)

\* Every step preserves the invariant.
LEMMA StepInvariant == IInv /\ [Next]_vars => IInv'
<1> SUFFICES ASSUME IInv, [Next]_vars PROVE IInv'
  OBVIOUS
<1>1. CASE EditDraft
  BY <1>1, EditKeeps
<1>2. CASE Submit
  BY <1>2, SubmitKeeps
<1>3. ASSUME NEW u \in Users, Approve(u) PROVE IInv'
  BY <1>3, ApproveKeeps
<1>4. ASSUME NEW u \in Users, ApproveAndPost(u) PROVE IInv'
  BY <1>4, EndOfRoundKeeps DEF ApproveAndPost
<1>5. ASSUME NEW u \in Users, Reject(u) PROVE IInv'
  BY <1>5, EndOfRoundKeeps DEF Reject
<1>6. ASSUME NEW u \in Users, ReturnToCreator(u) PROVE IInv'
  BY <1>6, EndOfRoundKeeps DEF ReturnToCreator
<1>7. ASSUME NEW u \in Users, Cancel(u) PROVE IInv'
  BY <1>7, CancelKeeps
<1>8. CASE \/ \E u \in Users : \/ ChangeRights(u)
                               \/ \E v \in Users : Delegate(u, v) \/ EndDelegation(u, v)
           \/ \E s \in Banded : SetBand(s)
  BY <1>8, AdministrationKeeps
<1>9. CASE UNCHANGED vars
  <2>1. UNCHANGED <<document, instance, settings>> /\ TypeOK'
    BY <1>9 DEF vars, document, instance, settings, IInv, TypeOK
  <2> QED
    BY <2>1, SettingsKeep
<1>10. CASE Reverse
  BY <1>10, ReverseKeeps
<1> QED
  BY <1>1, <1>2, <1>3, <1>4, <1>5, <1>6, <1>7, <1>8, <1>9, <1>10 DEF Next

\* The invariant holds in every reachable state.
LEMMA Invariant == Spec => []IInv
BY InitInvariant, StepInvariant, PTL DEF Spec

\* Types, for any users, rights, bands and bounds.
THEOREM TypeCorrect == Spec => []TypeOK
<1>1. IInv => TypeOK
  BY DEF IInv
<1> QED
  BY <1>1, Invariant, PTL

\* The document's status and its instance agree after any order of submissions,
\* approvals, returns, cancellations and reversals.
THEOREM DocumentAndInstanceAgree == Spec => []InstanceMatchesDocument
<1>1. IInv => InstanceMatchesDocument
  BY DEF IInv
<1> QED
  BY <1>1, Invariant, PTL

\* WF-02 as far as SeparationOfDuties goes, whatever happens to rights and delegations
\* meanwhile and whatever rights a request was loaded with: the creator takes no step,
\* nobody takes one himself after he took another, and for nobody is one taken after
\* one was taken for him.
THEOREM DutiesStaySeparate == Spec => []SeparationOfDuties
<1>1. IInv => SeparationOfDuties
  BY DEF IInv
<1> QED
  BY <1>1, Invariant, PTL

\* WF-03, whatever the bands are set to meanwhile.
THEOREM StepsTakenInOrder == Spec => []StepsInOrder
<1>1. IInv => StepsInOrder
  BY DEF IInv
<1> QED
  BY <1>1, Invariant, PTL

\* WF-05: no edit comes between the submission of a round and its end.
THEOREM PostedAsSubmitted == Spec => []AmountApprovedIsPosted
<1>1. IInv => AmountApprovedIsPosted
  BY DEF IInv
<1> QED
  BY <1>1, Invariant, PTL

\* No request, however late, moves a document that is rejected, cancelled or reversed
\* or adds to its record, and one that is posted can but be reversed, its amount and its
\* record left as they were posted.
THEOREM FinalForGood == Spec => FinalStaysFinal
<1>1. ASSUME Next, status \in Final \cup {"POSTED"}
      PROVE  Reverse \/ UNCHANGED <<document, instance>>
  <2>1. status \notin Editable /\ status \notin InProgress
    BY <1>1 DEF Final, Editable, InProgress
  <2>2. ~EditDraft /\ ~Submit
    BY <2>1 DEF EditDraft, Submit, Submittable
  <2>3. ASSUME NEW u \in Users
        PROVE  ~Approve(u) /\ ~ApproveAndPost(u) /\ ~Reject(u) /\ ~ReturnToCreator(u) /\ ~Cancel(u)
    BY <2>1 DEF Approve, ApproveAndPost, Reject, ReturnToCreator, Active, Cancel, Cancellable
  <2> QED
    BY <1>1, <2>2, <2>3 DEF Next, ChangeRights, Delegate, EndDelegation, SetBand
<1> DEFINE Ends == /\ status \in Final => UNCHANGED <<document, instance>>
                   /\ status = "POSTED" => /\ status' \in {"POSTED", "REVERSED"}
                                           /\ UNCHANGED <<amount, instance>>
<1>2. ASSUME Next PROVE Ends
  <2>1. CASE Reverse
    BY <2>1 DEF Reverse, Final
  <2>2. CASE UNCHANGED <<document, instance>>
    BY <2>2 DEF document
  <2>3. CASE status \notin Final \cup {"POSTED"}
    BY <2>3
  <2> QED
    BY <1>1, <1>2, <2>1, <2>2, <2>3
<1>3. [Next]_vars => [Ends]_vars
  BY <1>2
<1> QED
  BY <1>3, PTL DEF Spec, FinalStaysFinal

-----------------------------------------------------------------------------
(* The desks implement the workflow.                                       *)

\* What is pressed or set is a step of the workflow.
PressedStep ==
  \/ \E u \in Users : \/ PressApprove(u) \/ PressReturn(u) \/ PressReject(u) \/ PressCancel(u)
                      \/ AssignRoles(u)
                      \/ \E v \in Users : Delegations(u, v)
  \/ PressSubmit \/ ReversalPosted \/ Edit
  \/ \E s \in Banded : StepRow(s)

\* What only concerns a page, the attachments or the forms.
PageStep == \E u \in Users : OpenDocument(u) \/ Close(u) \/ FetchStep(u) \/ Refresh(u)

FileStep ==
  \/ \E u \in Users, f \in Files : Attachments(u, f)
  \/ \E f \in Files : Unlink(f)

\* The steps there are.
LEMMA DeskSteps ==
  ASSUME DeskNext
  PROVE  \/ NotStarted /\ Drafting
         \/ PageStep \/ FileStep \/ PressedStep
         \/ \E u \in Users : PressPost(u)
BY DEF DeskNext, PageStep, FileStep, PressedStep

\* A step that is pressed is one of the workflow, and of the forms' variables changes
\* the state of the draft alone.
LEMMA PressedIsNext ==
  ASSUME PressedStep
  PROVE  Next /\ Pressed
<1>1. CASE \E u \in Users : PressApprove(u) \/ PressReturn(u) \/ PressReject(u) \/ PressCancel(u)
  BY <1>1 DEF PressApprove, PressReturn, PressReject, PressCancel, Next
<1>2. CASE \E u \in Users : AssignRoles(u) \/ \E v \in Users : Delegations(u, v)
  BY <1>2 DEF AssignRoles, Delegations, Next
<1>3. CASE PressSubmit \/ ReversalPosted \/ Edit \/ \E s \in Banded : StepRow(s)
  BY <1>3 DEF PressSubmit, ReversalPosted, Edit, StepRow, Next
<1> QED
  BY <1>1, <1>2, <1>3 DEF PressedStep

\* Posting too.
LEMMA PostIsNext ==
  ASSUME NEW u \in Users, PressPost(u)
  PROVE  Next
BY DEF PressPost, Next

\* Every step at the desks is a step of the workflow or leaves it alone.
LEMMA DeskStepSimulates == [DeskNext]_allVars => [Next]_vars
<1> SUFFICES ASSUME [DeskNext]_allVars PROVE [Next]_vars
  OBVIOUS
<1>1. CASE UNCHANGED allVars
  BY <1>1 DEF allVars
<1>2. CASE NotStarted /\ Drafting
  BY <1>2 DEF Drafting
<1>3. CASE PageStep
  BY <1>3 DEF PageStep, OpenDocument, Close, FetchStep, Refresh, Unmoved
<1>4. CASE FileStep
  BY <1>4 DEF FileStep, Attachments, Unlink
<1>5. CASE PressedStep
  BY <1>5, PressedIsNext
<1>6. CASE \E u \in Users : PressPost(u)
  BY <1>6, PostIsNext
<1> QED
  BY <1>1, <1>2, <1>3, <1>4, <1>5, <1>6, DeskSteps

\* The buttons of the pages, whatever they show, do with a document what the workflow
\* allows and nothing else.
THEOREM DeskImplementsWorkflow == DeskSpec => Spec
<1>1. DeskInit => Init
  BY DEF DeskInit
<1> QED
  BY <1>1, DeskStepSimulates, PTL DEF DeskSpec, Spec

\* WF-02 as far as SeparationOfDuties goes, at the desks: no page, however old, has the
\* creator take a step, or anybody approve one and take another of the round himself, or
\* one approved and another taken for the same person.
THEOREM DutiesStaySeparateAtDesks == DeskSpec => []SeparationOfDuties
BY DeskImplementsWorkflow, DutiesStaySeparate, PTL

-----------------------------------------------------------------------------
(* What was attached stays attached.                                       *)

FilesInv ==
  /\ files \in [Files -> {"NONE", "LINKED", "LOCKED"}]
  /\ \A f \in support : f \in Files /\ files[f] = "LOCKED"

\* What was attached when the document was posted is locked, and what is locked is
\* neither attached anew nor detached.
LEMMA FilesKept == FilesInv /\ [DeskNext]_allVars => FilesInv'
<1> SUFFICES ASSUME FilesInv, [DeskNext]_allVars PROVE FilesInv'
  OBVIOUS
<1>1. CASE UNCHANGED <<files, support>>
  BY <1>1 DEF FilesInv
<1>2. CASE FileStep
  BY <1>2 DEF FileStep, Attachments, Unlink, FilesInv
<1>3. CASE \E u \in Users : PressPost(u)
  BY <1>3 DEF PressPost, LockSupport, FilesInv
<1>4. CASE PageStep
  BY <1>1, <1>4 DEF PageStep, OpenDocument, Close, FetchStep, Refresh, Unmoved
<1>5. CASE PressedStep
  BY <1>1, <1>5, PressedIsNext DEF Pressed
<1>6. CASE NotStarted /\ Drafting
  BY <1>1, <1>6 DEF Drafting, deskVars
<1>7. CASE UNCHANGED allVars
  BY <1>1, <1>7 DEF allVars, deskVars
<1> QED
  BY <1>2, <1>3, <1>4, <1>5, <1>6, <1>7, DeskSteps

\* FR-DOC-03: what was attached to the document when it was posted stays attached.
THEOREM SupportStays == DeskSpec => []SupportKept
<1>1. DeskInit => FilesInv
  BY DEF DeskInit, FilesInv
<1>2. FilesInv => SupportKept
  BY DEF FilesInv, SupportKept
<1> QED
  BY <1>1, <1>2, FilesKept, PTL DEF DeskSpec

-----------------------------------------------------------------------------
(* The drafts.                                                             *)

\* A form is on screen in a year, and if it is derived from a document names it;
\* queries are under way for a form only.
FormStands ==
  /\ form # None => header \in Years /\ (form.kind \in Derived => form.source \in Sources)
  /\ form = None => loads = {}

\* Until a draft was ended elsewhere the first of them stands and falls with the
\* document, and the others stand.
DraftsStand ==
  turns = 0 =>
    \A i \in Ids : drafts[i].active <=> (i = 1 => status \notin {"CANCELLED", "REJECTED"})

DraftsInv ==
  /\ FormTypeOK
  /\ FormStands
  /\ DraftsStand
  /\ PaysItsOwnLine
  /\ OneUnderWay

LEMMA DraftsBegin == DeskInit => DraftsInv
BY DEF DeskInit, FormInit, DraftsInv, FormTypeOK, FormStands, DraftsStand, PaysItsOwnLine,
       OneUnderWay, Ids

\* A draft that is made keeps the invariant if it pays an order of its line, if any, and
\* if no other of its kind is under way where there may be one only.
LEMMA MakesKeeps ==
  ASSUME DraftsInv,
         NEW kind \in Listed \cup Derived,
         NEW line \in Years \X (Items \cup {None}),
         NEW source \in Sources \cup {None},
         Makes(kind, line, source),
         kind = "EXPENDITURE" /\ source # None => Payable(source, line),
         kind \in {"CONVERSION", "REVERSAL"} => NoneUnderWay(kind, source),
         status = "DRAFT", status' = status
  PROVE  DraftsInv'
<1> DEFINE d == [kind |-> kind, line |-> line, source |-> source, active |-> TRUE]
<1>1. drafts \in Seq(Draft) /\ d \in Draft /\ drafts' = Append(drafts, d)
  BY DEF DraftsInv, FormTypeOK, Makes, Draft
<1>2. /\ drafts' \in Seq(Draft)
      /\ Len(drafts) \in Nat
      /\ Len(drafts') = Len(drafts) + 1
      /\ \A i \in 1 .. Len(drafts) : drafts'[i] = drafts[i]
      /\ drafts'[Len(drafts) + 1] = d
  BY ONLY <1>1, Appended
<1>3. FormTypeOK' /\ FormStands'
  BY <1>2 DEF DraftsInv, FormTypeOK, FormStands, Makes
<1>4. DraftsStand'
  BY <1>2 DEF DraftsInv, DraftsStand, Ids, Makes
<1>5. PaysItsOwnLine'
  BY <1>2 DEF DraftsInv, PaysItsOwnLine, Ids, Payable
<1>6. OneUnderWay'
  <2> SUFFICES ASSUME NEW i \in Ids', NEW j \in Ids',
                      drafts'[i].active /\ drafts'[j].active,
                      drafts'[i].kind = drafts'[j].kind,
                      drafts'[i].kind \in {"CONVERSION", "REVERSAL"},
                      drafts'[i].source = drafts'[j].source
               PROVE  i = j
    BY DEF OneUnderWay
  <2>1. CASE i \in Ids /\ j \in Ids
    BY <1>2, <2>1 DEF DraftsInv, OneUnderWay, Ids
  <2>2. CASE i = Len(drafts) + 1 /\ j \in Ids
    BY <1>2, <2>2 DEF NoneUnderWay, Ids
  <2>3. CASE j = Len(drafts) + 1 /\ i \in Ids
    BY <1>2, <2>3 DEF NoneUnderWay, Ids
  <2> QED
    BY <1>2, <2>1, <2>2, <2>3 DEF Ids
<1> QED
  BY <1>3, <1>4, <1>5, <1>6 DEF DraftsInv

\* Steps of the forms that leave the drafts alone.
LEMMA DraftsUntouchedKeep ==
  ASSUME DraftsInv, UNCHANGED drafts,
         FormTypeOK', FormStands',
         turns' = 0 => turns = 0 /\ status' = status
  PROVE  DraftsInv'
BY DEF DraftsInv, DraftsStand, PaysItsOwnLine, OneUnderWay, Ids

\* Sending a form.
SendsOne ==
  \/ BudgetDocForm \/ AuthorizationForm \/ TransferForm \/ CommitmentForm \/ AdjustmentForm
  \/ ExpenditureForm \/ ConvertModal \/ ReversalModal

LEMMA SendingKeeps ==
  ASSUME FormsAssumption, DraftsInv, SendsOne, status = "DRAFT", status' = status
  PROVE  DraftsInv'
<1> USE DEF Listed, Derived
<1>1. /\ header \in Years \cup {None}
      /\ openYears \subseteq Years
      /\ form # None => form \in Form
      /\ form # None /\ form.kind \in Derived => form.source \in Sources
  BY DEF DraftsInv, FormTypeOK, FormStands
<1>2. ASSUME NEW kind, NEW line, NEW source, Makes(kind, line, source)
      PROVE  line[1] \in Years
  BY <1>1, <1>2 DEF Makes
<1>3. CASE BudgetDocForm \/ AuthorizationForm \/ TransferForm \/ CommitmentForm
  <2>1. PICK kind \in Listed \ {"EXPENDITURE"} : Makes(kind, <<header, None>>, None)
    BY <1>3 DEF BudgetDocForm, AuthorizationForm, TransferForm, CommitmentForm
  <2>2. <<header, None>> \in Years \X (Items \cup {None})
    BY <1>2, <2>1
  <2> QED
    BY <2>1, <2>2, MakesKeeps
<1>4. CASE AdjustmentForm
  <2>1. CASE Makes("ADJUSTMENT", <<header, None>>, None)
    <3>1. <<header, None>> \in Years \X (Items \cup {None})
      BY <1>2, <2>1
    <3> QED
      BY <2>1, <3>1, MakesKeeps
  <2>2. CASE Sends("CANCELLATION") /\ Makes("CANCELLATION", <<header, LineOf[form.source][2]>>, form.source)
    <3>1. form.source \in Sources
      BY <1>1, <2>2 DEF Sends
    <3>2. <<header, LineOf[form.source][2]>> \in Years \X (Items \cup {None})
      BY <1>2, <2>2, <3>1 DEF FormsAssumption
    <3> QED
      BY <2>2, <3>1, <3>2, MakesKeeps
  <2> QED
    BY <1>4, <2>1, <2>2 DEF AdjustmentForm
<1>5. CASE ExpenditureForm
  <2>1. form \in Form /\ form.item \in Items
    BY <1>1, <1>5 DEF ExpenditureForm, Sends, Form
  <2>2. /\ Makes("EXPENDITURE", <<header, form.item>>, form.source)
        /\ form.source # None => Payable(form.source, <<header, form.item>>)
    BY <1>5 DEF ExpenditureForm
  <2>3. <<header, form.item>> \in Years \X (Items \cup {None}) /\ form.source \in Sources \cup {None}
    BY <1>2, <2>1, <2>2 DEF Form
  <2> QED
    BY <2>2, <2>3, MakesKeeps
<1>6. CASE ConvertModal \/ ReversalModal
  <2>1. PICK kind \in {"CONVERSION", "REVERSAL"} :
          /\ Sends(kind)
          /\ NoneUnderWay(kind, form.source)
          /\ Makes(kind, LineOf[form.source], form.source)
    BY <1>6 DEF ConvertModal, ReversalModal
  <2>2. form.source \in Sources
    BY <1>1, <2>1 DEF Sends
  <2>3. LineOf[form.source] \in Years \X (Items \cup {None})
    BY <2>2 DEF FormsAssumption
  <2> QED
    BY <2>1, <2>2, <2>3, MakesKeeps
<1> QED
  BY <1>3, <1>4, <1>5, <1>6 DEF SendsOne

\* Going to a form.
GoesToOne ==
  \/ BudgetDocList \/ AuthorizationList \/ TransferList
  \/ CommitmentList \/ ExpenditureList \/ AdjustmentList
  \/ \E s \in Sources : \/ BudgetDocView(s) \/ AuthorizationView(s) \/ TransferView(s)
                        \/ ExpenditureView(s) \/ CommitmentView(s)

LEMMA GoingKeeps ==
  ASSUME DraftsInv, GoesToOne, status' = status
  PROVE  DraftsInv'
<1> USE DEF Listed, Derived
<1>1. PICK kind \in Listed \cup Derived, source \in Sources \cup {None} :
        Goes(kind, source) /\ (kind \in Derived => source \in Sources)
  BY DEF GoesToOne, BudgetDocList, AuthorizationList, TransferList, CommitmentList, ExpenditureList,
         AdjustmentList, BudgetDocView, AuthorizationView, TransferView, ExpenditureView,
         CommitmentView, Reverses
<1>2. form' \in Form /\ form'.kind = kind /\ form'.source = source
  BY <1>1 DEF Goes, Blank, Form
<1>3. FormTypeOK' /\ FormStands' /\ UNCHANGED <<drafts, turns>>
  BY <1>1, <1>2 DEF Goes, DraftsInv, FormTypeOK, FormStands
<1> QED
  BY <1>3, DraftsUntouchedKeep

\* Filling in the expenditure form.
FillsIn ==
  \/ \E i \in Items \cup {None} : ChooseItem(i)
  \/ \E line \in loads : AnswerLoad(line)
  \/ \E s \in Sources \cup {None} : ChooseCommitment(s)

LEMMA FillingInKeeps ==
  ASSUME FormsAssumption, DraftsInv, FillsIn, status' = status
  PROVE  DraftsInv'
<1> USE DEF Listed, Derived
<1> DEFINE StillStands ==
             /\ form # None
             /\ form' \in Form
             /\ form'.kind \in Derived => form'.source \in Sources
             /\ loads' \subseteq Years \X Items
<1>1. UNCHANGED <<header, openYears, drafts, paid, turns>>
  BY DEF FillsIn, ChooseItem, AnswerLoad, ChooseCommitment
<1>2. /\ loads \subseteq Years \X Items
      /\ form # None => form \in Form /\ header \in Years /\ (form.kind \in Derived => form.source \in Sources)
      /\ form = None => loads = {}
  BY DEF DraftsInv, FormTypeOK, FormStands
<1>3. ASSUME NEW i \in Items \cup {None}, ChooseItem(i) PROVE StillStands
  <2>1. form # None /\ form \in Form /\ form.kind = "EXPENDITURE" /\ header \in Years
    BY <1>2, <1>3 DEF ChooseItem, Sends
  <2>2. form' \in Form /\ form'.kind = "EXPENDITURE"
    BY <1>3, <2>1 DEF ChooseItem, Form
  <2>3. loads' \subseteq Years \X Items
    BY <1>2, <1>3, <2>1 DEF ChooseItem
  <2> QED
    BY <2>1, <2>2, <2>3
<1>4. ASSUME NEW line \in loads, AnswerLoad(line) PROVE StillStands
  BY <1>2, <1>4 DEF AnswerLoad, Form
<1>5. ASSUME NEW s \in Sources \cup {None}, ChooseCommitment(s) PROVE StillStands
  <2>1. form # None /\ form \in Form /\ form.kind = "EXPENDITURE"
    BY <1>2, <1>5 DEF ChooseCommitment, Sends
  <2>2. form' \in Form /\ form'.kind = "EXPENDITURE"
    BY <1>5, <2>1 DEF ChooseCommitment, Form
  <2> QED
    BY <1>2, <1>5, <2>1, <2>2 DEF ChooseCommitment
<1>6. StillStands
  BY <1>3, <1>4, <1>5 DEF FillsIn
<1>7. FormTypeOK' /\ FormStands'
  <2> HIDE DEF StillStands
  <2>1. form # None /\ form' \in Form /\ form' # None
    BY <1>6 DEF StillStands, FormsAssumption
  <2>2. (form'.kind \in Derived => form'.source \in Sources) /\ loads' \subseteq Years \X Items
    BY <1>6 DEF StillStands
  <2> QED
    BY <1>1, <1>2, <2>1, <2>2 DEF DraftsInv, FormTypeOK, FormStands
<1> QED
  BY <1>1, <1>7, DraftsUntouchedKeep

\* A draft that is ended, or revived, is otherwise the same.
WithActive(s, i, b) == [s EXCEPT ![i].active = b]

LEMMA OtherwiseTheSame ==
  ASSUME NEW s \in Seq(Draft), NEW i, NEW b \in BOOLEAN
  PROVE  /\ WithActive(s, i, b) \in Seq(Draft)
         /\ Len(WithActive(s, i, b)) = Len(s)
         /\ \A j \in 1 .. Len(s) :
              /\ WithActive(s, i, b)[j].kind = s[j].kind
              /\ WithActive(s, i, b)[j].line = s[j].line
              /\ WithActive(s, i, b)[j].source = s[j].source
              /\ WithActive(s, i, b)[j].active = IF j = i THEN b ELSE s[j].active
<1> DEFINE t == WithActive(s, i, b)
<1>1. s \in [1 .. Len(s) -> Draft] /\ Len(s) \in Nat
  OBVIOUS
<1>2. \A j \in 1 .. Len(s) : t[j] = IF j = i THEN [s[j] EXCEPT !.active = b] ELSE s[j]
  BY <1>1 DEF WithActive
<1>3. \A j \in 1 .. Len(s) :
        /\ t[j] \in Draft
        /\ t[j].kind = s[j].kind
        /\ t[j].line = s[j].line
        /\ t[j].source = s[j].source
        /\ t[j].active = IF j = i THEN b ELSE s[j].active
  <2> SUFFICES ASSUME NEW j \in 1 .. Len(s)
               PROVE  /\ t[j] \in Draft
                      /\ t[j].kind = s[j].kind
                      /\ t[j].line = s[j].line
                      /\ t[j].source = s[j].source
                      /\ t[j].active = IF j = i THEN b ELSE s[j].active
    OBVIOUS
  <2>1. s[j] \in Draft /\ t[j] = IF j = i THEN [s[j] EXCEPT !.active = b] ELSE s[j]
    BY <1>1, <1>2
  <2> QED
    BY ONLY <2>1, b \in BOOLEAN DEF Draft
<1>4. t \in [1 .. Len(s) -> Draft]
  BY <1>1, <1>3 DEF WithActive
<1>5. t \in Seq(Draft) /\ Len(t) = Len(s)
  BY ONLY <1>1, <1>4
<1> QED
  BY <1>3, <1>5

\* The forms' surroundings.
Surroundings ==
  \/ LoadYears \/ ChooseYear \/ Leave
  \/ CloseYear \/ Pay
  \/ \E i \in Ids : EndDraft(i)

LEMMA SurroundingsKeep ==
  ASSUME DraftsInv, Surroundings, status' = status
  PROVE  DraftsInv'
<1>1. ASSUME LoadYears \/ ChooseYear \/ Leave \/ CloseYear \/ Pay
      PROVE  DraftsInv'
  <2>1. FormTypeOK' /\ FormStands'
    BY <1>1 DEF LoadYears, ChooseYear, Leave, CloseYear, Pay, Turn, DraftsInv, FormTypeOK, FormStands
  <2>2. UNCHANGED drafts /\ turns \in Nat /\ turns' \in {turns, turns + 1}
    BY <1>1 DEF LoadYears, ChooseYear, Leave, CloseYear, Pay, Turn, DraftsInv, FormTypeOK
  <2> QED
    BY <2>1, <2>2, DraftsUntouchedKeep
<1>2. ASSUME NEW i \in Ids, EndDraft(i)
      PROVE  DraftsInv'
  <2>1. drafts \in Seq(Draft) /\ turns \in Nat /\ turns' = turns + 1
    BY <1>2 DEF EndDraft, Turn, DraftsInv, FormTypeOK
  <2>2. /\ drafts' \in Seq(Draft)
        /\ Len(drafts') = Len(drafts)
        /\ \A j \in Ids : /\ drafts'[j].kind = drafts[j].kind
                          /\ drafts'[j].line = drafts[j].line
                          /\ drafts'[j].source = drafts[j].source
                          /\ drafts'[j].active => drafts[j].active
    <3>1. \E b \in BOOLEAN : ~b /\ drafts' = WithActive(drafts, i, b)
      <4> WITNESS FALSE \in BOOLEAN
      <4> QED
        BY <1>2 DEF EndDraft, WithActive
    <3>2. PICK b \in BOOLEAN : ~b /\ drafts' = WithActive(drafts, i, b)
      BY ONLY <3>1
    <3> QED
      BY ONLY <2>1, <3>2, OtherwiseTheSame DEF Ids
  <2>3. FormTypeOK' /\ FormStands' /\ DraftsStand'
    BY <1>2, <2>1, <2>2 DEF EndDraft, DraftsInv, FormTypeOK, FormStands, DraftsStand
  <2>4. PaysItsOwnLine' /\ OneUnderWay'
    BY <2>2 DEF DraftsInv, PaysItsOwnLine, OneUnderWay, Ids
  <2> QED
    BY <2>3, <2>4 DEF DraftsInv
<1> QED
  BY <1>1, <1>2 DEF Surroundings

\* What was rejected or cancelled stays so.
LEMMA EndedStaysEnded ==
  ASSUME Next, status \in {"CANCELLED", "REJECTED"}
  PROVE  status' = status
BY DEF Next, EditDraft, Submit, Submittable, Approve, ApproveAndPost, Reject, ReturnToCreator, Active, Cancel,
       Cancellable, Editable, InProgress, Reverse, ChangeRights, Delegate, EndDelegation, SetBand, document

\* The draft goes with the document, and no ended draft is revived.
LEMMA SameDraftKeeps ==
  ASSUME DraftsInv, Next, Exists, SameDraft
  PROVE  DraftsInv'
<1>1. drafts \in Seq(Draft) /\ turns = 0
  BY DEF DraftsInv, FormTypeOK, Exists
<1>2. /\ drafts' \in Seq(Draft)
      /\ Len(drafts') = Len(drafts)
      /\ \A j \in Ids : /\ drafts'[j].kind = drafts[j].kind
                        /\ drafts'[j].line = drafts[j].line
                        /\ drafts'[j].source = drafts[j].source
                        /\ drafts'[j].active =
                             IF j = 1 THEN status' \notin {"CANCELLED", "REJECTED"} ELSE drafts[j].active
  <2> DEFINE lasts == status' \notin {"CANCELLED", "REJECTED"}
  <2>1. \E b \in BOOLEAN : (b <=> lasts) /\ drafts' = WithActive(drafts, 1, b)
    <3> WITNESS lasts \in BOOLEAN
    <3> QED
      BY DEF SameDraft, WithActive
  <2>2. PICK b \in BOOLEAN : (b <=> lasts) /\ drafts' = WithActive(drafts, 1, b)
    BY ONLY <2>1
  <2> QED
    BY ONLY <1>1, <2>2, OtherwiseTheSame DEF Ids
<1>3. \A j \in Ids : drafts'[j].active => drafts[j].active
  BY <1>1, <1>2, EndedStaysEnded DEF DraftsInv, DraftsStand
<1>4. FormTypeOK' /\ FormStands'
  BY <1>2 DEF SameDraft, DraftsInv, FormTypeOK, FormStands
<1>5. DraftsStand'
  BY <1>1, <1>2 DEF DraftsInv, DraftsStand, Ids, SameDraft
<1>6. PaysItsOwnLine' /\ OneUnderWay'
  BY <1>2, <1>3 DEF DraftsInv, PaysItsOwnLine, OneUnderWay, Ids
<1> QED
  BY <1>4, <1>5, <1>6 DEF DraftsInv

LEMMA DraftsKept == FormsAssumption /\ DraftsInv /\ [DeskNext]_allVars => DraftsInv'
<1> SUFFICES ASSUME FormsAssumption, DraftsInv, [DeskNext]_allVars PROVE DraftsInv'
  OBVIOUS
<1>1. CASE UNCHANGED <<formVars, status>>
  BY <1>1 DEF formVars, DraftsInv, FormTypeOK, FormStands, DraftsStand, PaysItsOwnLine, OneUnderWay, Ids
<1>2. CASE NotStarted /\ Drafting
  <2>1. FormNext /\ status = "DRAFT" /\ status' = status
    BY <1>2 DEF NotStarted, Drafting, vars, document
  <2>2. GoesToOne \/ SendsOne \/ FillsIn \/ Surroundings
    BY <2>1 DEF FormNext, GoesToOne, SendsOne, FillsIn, Surroundings
  <2> QED
    BY <2>1, <2>2, GoingKeeps, SendingKeeps, FillingInKeeps, SurroundingsKeep
<1>3. CASE PressedStep
  BY <1>3, PressedIsNext, SameDraftKeeps DEF Pressed
<1>4. CASE \E u \in Users : PressPost(u)
  <2>1. PICK u \in Users : PressPost(u)
    BY <1>4
  <2> QED
    BY <2>1, PostIsNext, SameDraftKeeps DEF PressPost
<1>5. CASE PageStep
  BY <1>1, <1>5 DEF PageStep, OpenDocument, Close, FetchStep, Refresh, Unmoved, vars, document
<1>6. CASE FileStep
  BY <1>1, <1>6 DEF FileStep, Attachments, Unlink, vars, document
<1>7. CASE UNCHANGED allVars
  BY <1>1, <1>7 DEF allVars, vars, document
<1> QED
  BY <1>2, <1>3, <1>4, <1>5, <1>6, <1>7, DeskSteps

LEMMA DraftsInvariant == DeskSpec => []DraftsInv
BY DraftsBegin, DraftsKept, FormsAssumption, PTL DEF DeskSpec

\* The forms and drafts are what they are declared to be.
THEOREM FormsTypes == DeskSpec => []FormTypeOK
<1>1. DraftsInv => FormTypeOK
  BY DEF DraftsInv
<1> QED
  BY <1>1, DraftsInvariant, PTL

\* However late the answers and whatever year the header is turned to, an expenditure
\* pays an order of its own line.
THEOREM PaymentsPayTheirLine == DeskSpec => []PaysItsOwnLine
<1>1. DraftsInv => PaysItsOwnLine
  BY DEF DraftsInv
<1> QED
  BY <1>1, DraftsInvariant, PTL

\* However often the forms are sent, a request has one conversion under way and a
\* document one reversal.
THEOREM NoSecondUnderWay == DeskSpec => []OneUnderWay
<1>1. DraftsInv => OneUnderWay
  BY DEF DraftsInv
<1> QED
  BY <1>1, DraftsInvariant, PTL

-----------------------------------------------------------------------------
(* The pages.                                                              *)

PagesOK == page \in [Users -> DocumentPage \cup {None}]

LEMMA PagesKept == TypeOK /\ PagesOK /\ [DeskNext]_allVars => PagesOK'
<1> SUFFICES ASSUME TypeOK, PagesOK, [DeskNext]_allVars PROVE PagesOK'
  OBVIOUS
<1>1. CASE UNCHANGED page
  BY <1>1 DEF PagesOK
<1>2. CASE PageStep
  <2>1. PICK u \in Users : OpenDocument(u) \/ Close(u) \/ FetchStep(u) \/ Refresh(u)
    BY <1>2 DEF PageStep
  <2>2. CASE OpenDocument(u) \/ Close(u) \/ Refresh(u)
    <3>1. Fetched \in DocumentPage
      BY DEF Fetched, DocumentPage, TypeOK
    <3>2. ASSUME OnPage(u) PROVE Refetched(page[u]) \in DocumentPage
      BY <3>1, <3>2 DEF Refetched, OnPage, PagesOK, DocumentPage
    <3> QED
      BY <2>2, <3>1, <3>2 DEF OpenDocument, Close, Refresh, PagesOK
  <2>3. CASE FetchStep(u)
    BY <2>3 DEF FetchStep, OnPage, PagesOK, DocumentPage, TypeOK
  <2> QED
    BY <2>1, <2>2, <2>3
<1>3. CASE FileStep
  BY <1>1, <1>3 DEF FileStep, Attachments, Unlink
<1>4. CASE \E u \in Users : PressPost(u)
  BY <1>1, <1>4 DEF PressPost
<1>5. CASE PressedStep
  BY <1>1, <1>5, PressedIsNext DEF Pressed
<1>6. CASE NotStarted /\ Drafting
  BY <1>1, <1>6 DEF Drafting, deskVars
<1>7. CASE UNCHANGED allVars
  BY <1>1, <1>7 DEF allVars, deskVars
<1> QED
  BY <1>2, <1>3, <1>4, <1>5, <1>6, <1>7, DeskSteps

\* The pages and the attachments are what they are declared to be.
THEOREM DeskTypes == DeskSpec => []DeskTypeOK
<1>1. DeskInit => PagesOK /\ FilesInv
  BY DEF DeskInit, PagesOK, FilesInv
<1>2. DeskSpec => []TypeOK
  BY DeskImplementsWorkflow, TypeCorrect, PTL
<1>3. PagesOK /\ FilesInv => DeskTypeOK
  BY DEF PagesOK, FilesInv, DeskTypeOK
<1> QED
  BY <1>1, <1>2, <1>3, PagesKept, FilesKept, PTL DEF DeskSpec

-----------------------------------------------------------------------------
(* What is decided from a page.                                            *)

\* A page is of the present round or of an earlier one, and shows the amount of a round
\* that is under way if it is of that round.
PagesInv ==
  \A u \in Users : OnPage(u) =>
    /\ page[u].round <= round
    /\ state = "ACTIVE" /\ page[u].round = round => page[u].amount = amount

\* The amount of a round under way does not change: an edit comes between rounds, and
\* the submission after it begins another.
LEMMA AmountOfTheRound ==
  ASSUME IInv, Next
  PROVE  /\ round \in Nat /\ round' \in Nat /\ round <= round'
         /\ state' = "ACTIVE" /\ round' = round => state = "ACTIVE" /\ amount' = amount
<1>1. round \in Nat
  BY DEF IInv, TypeOK
<1>2. CASE EditDraft
  <2>1. state # "ACTIVE" /\ UNCHANGED <<state, round>>
    BY <1>2 DEF EditDraft, IInv, InstanceMatchesDocument, Editable, InProgress, instance
  <2> QED
    BY <1>1, <2>1
<1>3. CASE Submit
  BY <1>1, <1>3 DEF Submit
<1>4. CASE \/ Reverse
           \/ \E u \in Users : \/ ChangeRights(u)
                               \/ \E v \in Users : Delegate(u, v) \/ EndDelegation(u, v)
           \/ \E s \in Banded : SetBand(s)
  <2>1. UNCHANGED <<amount, instance>>
    BY <1>4 DEF Reverse, ChangeRights, Delegate, EndDelegation, SetBand, document
  <2> QED
    BY <1>1, <2>1 DEF instance
<1>5. CASE \E u \in Users : Approve(u) \/ ApproveAndPost(u) \/ Reject(u) \/ ReturnToCreator(u)
  BY <1>1, <1>5 DEF Approve, ApproveAndPost, Reject, ReturnToCreator, Active
<1>6. CASE \E u \in Users : Cancel(u)
  <2>1. PICK u \in Users : Cancel(u)
    BY <1>6
  <2>2. UNCHANGED <<amount, round>> /\ (state' = state \/ state' = "CANCELLED")
    BY <2>1 DEF Cancel, CloseInstance, instance
  <2> QED
    BY <1>1, <2>2
<1> QED
  BY <1>2, <1>3, <1>4, <1>5, <1>6 DEF Next

LEMMA PagesInvKept == IInv /\ PagesOK /\ PagesInv /\ [DeskNext]_allVars => PagesInv'
<1> SUFFICES ASSUME IInv, PagesOK, PagesInv, [DeskNext]_allVars PROVE PagesInv'
  OBVIOUS
<1>1. CASE UNCHANGED page /\ UNCHANGED vars
  BY <1>1 DEF PagesInv, OnPage, vars, document, instance
<1>2. CASE UNCHANGED page /\ Next
  <2> SUFFICES ASSUME NEW u \in Users, OnPage(u)
               PROVE  /\ page[u].round <= round'
                      /\ state' = "ACTIVE" /\ page[u].round = round' => page[u].amount = amount'
    BY <1>2 DEF PagesInv, OnPage
  <2>1. page[u].round \in Nat /\ page[u].round <= round
    BY DEF PagesOK, PagesInv, DocumentPage, OnPage
  <2>2. state = "ACTIVE" /\ page[u].round = round => page[u].amount = amount
    BY DEF PagesInv
  <2>3. /\ round \in Nat /\ round' \in Nat /\ round <= round'
        /\ state' = "ACTIVE" /\ round' = round => state = "ACTIVE" /\ amount' = amount
    BY <1>2, AmountOfTheRound
  <2>4. page[u].round = round' => round' = round
    BY <2>1, <2>3
  <2> QED
    BY <2>1, <2>2, <2>3, <2>4
<1>3. CASE PageStep
  <2>1. PICK u \in Users : OpenDocument(u) \/ Close(u) \/ FetchStep(u) \/ Refresh(u)
    BY <1>3 DEF PageStep
  <2>2. UNCHANGED <<amount, state, round>>
    BY <2>1 DEF OpenDocument, Close, FetchStep, Refresh, Unmoved, vars, document, instance
  <2>3. \A v \in Users : v # u => page'[v] = page[v]
    BY <2>1 DEF OpenDocument, Close, FetchStep, Refresh, PagesOK
  <2>4. /\ round \in Nat
        /\ \/ page'[u] = None
           \/ page'[u].round = round /\ page'[u].amount = amount
           \/ OnPage(u) /\ page'[u].round = page[u].round /\ page'[u].amount = page[u].amount
    <3>1. Fetched.round = round /\ Fetched.amount = amount
      BY DEF Fetched
    <3>2. Refetched(page[u]).round = round /\ Refetched(page[u]).amount = amount
      BY DEF Refetched, Fetched
    <3>3. CASE OpenDocument(u)
      <4>1. page'[u] = Fetched
        BY <3>3 DEF OpenDocument, PagesOK
      <4> QED
        BY <3>1, <4>1 DEF IInv, TypeOK
    <3>4. CASE Refresh(u)
      <4>1. page'[u] = Refetched(page[u])
        BY <3>4 DEF Refresh, PagesOK
      <4> QED
        BY <3>2, <4>1 DEF IInv, TypeOK
    <3>5. CASE Close(u)
      <4>1. page'[u] = None
        BY <3>5 DEF Close, PagesOK
      <4> QED
        BY <4>1 DEF IInv, TypeOK
    <3>6. CASE FetchStep(u)
      BY <3>6 DEF FetchStep, OnPage, PagesOK, DocumentPage, IInv, TypeOK
    <3> QED
      BY <2>1, <3>3, <3>4, <3>5, <3>6
  <2>5. ASSUME NEW v \in Users, OnPage(v)'
        PROVE  /\ page'[v].round <= round
               /\ state = "ACTIVE" /\ page'[v].round = round => page'[v].amount = amount
    <3>1. CASE v = u
      BY <2>4, <2>5, <3>1 DEF PagesInv, OnPage
    <3>2. CASE v # u
      BY <2>3, <2>5, <3>2 DEF PagesInv, OnPage
    <3> QED
      BY <3>1, <3>2
  <2> QED
    BY <2>2, <2>5 DEF PagesInv
<1>4. CASE FileStep
  BY <1>1, <1>4 DEF FileStep, Attachments, Unlink
<1>5. CASE \E u \in Users : PressPost(u)
  BY <1>2, <1>5, PostIsNext DEF PressPost
<1>6. CASE PressedStep
  BY <1>2, <1>6, PressedIsNext DEF Pressed
<1>7. CASE NotStarted /\ Drafting
  BY <1>1, <1>7 DEF Drafting, deskVars
<1>8. CASE UNCHANGED allVars
  BY <1>1, <1>8 DEF allVars, deskVars
<1> QED
  BY <1>3, <1>4, <1>5, <1>6, <1>7, <1>8, DeskSteps

\* Who takes a step records the document's amount.
LEMMA RecordsTheAmount ==
  ASSUME TypeOK, NEW u \in Users, Approve(u) \/ ApproveAndPost(u) \/ ReturnToCreator(u) \/ Reject(u)
  PROVE  state = "ACTIVE" /\ log'[Len(log')].amount = amount
<1>1. state = "ACTIVE" /\ \E action, behalf : Record(action, u, behalf)
  BY DEF Approve, ApproveAndPost, ReturnToCreator, Reject, Active
<1>2. PICK action, behalf : Record(action, u, behalf)
  BY <1>1
<1>3. log \in Seq(Action)
  BY DEF TypeOK
<1> QED
  BY <1>1, <1>2, <1>3 DEF Record

\* H19, H38: however old a page and whatever step it shows, who takes a step from it
\* decides on the amount it shows, unless the document was returned and submitted anew
\* since.
THEOREM DecidesOnWhatIsShown == DeskSpec => DecidedAsShown
<1> DEFINE Decides(u) == PressApprove(u) \/ PressPost(u) \/ PressReturn(u) \/ PressReject(u)
<1> DEFINE AsShown == \A u \in Users : Decides(u) => \/ log'[Len(log')].amount = page[u].amount
                                                     \/ page[u].round < round
<1>1. DeskInit => PagesOK /\ PagesInv
  BY DEF DeskInit, PagesOK, PagesInv, OnPage
<1>2. DeskSpec => []IInv
  BY DeskImplementsWorkflow, Invariant, PTL
<1>3. IInv => TypeOK
  BY DEF IInv
<1>4. ASSUME IInv, PagesOK, PagesInv, NEW u \in Users, Decides(u)
      PROVE  log'[Len(log')].amount = page[u].amount \/ page[u].round < round
  <2>1. state = "ACTIVE" /\ log'[Len(log')].amount = amount
    BY <1>3, <1>4, RecordsTheAmount DEF PressApprove, PressPost, PressReturn, PressReject
  <2>2. OnPage(u)
    BY <1>4 DEF PressApprove, PressPost, PressReturn, PressReject, CanStep, StepShown
  <2>3. page[u].round \in Nat /\ round \in Nat
    BY <1>4, <2>2 DEF PagesOK, DocumentPage, OnPage, IInv, TypeOK
  <2>4. /\ page[u].round <= round
        /\ page[u].round = round => page[u].amount = amount
    BY <1>4, <2>1, <2>2 DEF PagesInv
  <2> QED
    BY <2>1, <2>3, <2>4
<1>5. IInv /\ PagesOK /\ PagesInv => [AsShown]_allVars
  BY <1>4
<1> QED
  BY <1>1, <1>2, <1>3, <1>5, PagesKept, PagesInvKept, PTL DEF DeskSpec, DecidedAsShown

=============================================================================
