---------------------------- MODULE FundsControl ----------------------------
(***************************************************************************)
(* What the budget engine promises, with no ledger, documents or grants:   *)
(* each budget line has funds, and a step of the system either does not    *)
(* lower them, or spends what is there, or goes beyond what is there by an *)
(* amount for which an exception is recorded at the same moment.           *)
(***************************************************************************)
EXTENDS Integers

CONSTANT Lines

VARIABLES funds,    \* [Lines -> Int]: what is available on each line
          excused   \* [Lines -> Nat]: overdraft recorded exceptions account for

vars == <<funds, excused>>

Keep(l)  == /\ funds'[l] >= funds[l]
            /\ excused'[l] = excused[l]

Spend(l) == /\ funds'[l] < funds[l]
            /\ funds'[l] >= 0
            /\ excused'[l] = excused[l]

\* Everything beyond what was there (nothing, if the line was overdrawn) is
\* added to the recorded exceptions, no more and no less.
Overdraw(l) ==
  /\ funds'[l] < funds[l]
  /\ funds'[l] < 0
  /\ excused'[l] = excused[l] + (IF funds[l] > 0 THEN -funds'[l]
                                 ELSE funds[l] - funds'[l])

Init == /\ funds = [l \in Lines |-> 0]
        /\ excused = [l \in Lines |-> 0]

Next == /\ \A l \in Lines : Keep(l) \/ Spend(l) \/ Overdraw(l)
        /\ funds' \in [Lines -> Int]
        /\ excused' \in [Lines -> Nat]

Spec == Init /\ [][Next]_vars

\* No line is ever overdrawn beyond the exceptions recorded for it.
NoUnexcusedOverdraft == \A l \in Lines : funds[l] >= -excused[l]
=============================================================================
