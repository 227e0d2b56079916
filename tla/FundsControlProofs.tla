------------------------- MODULE FundsControlProofs -------------------------
(***************************************************************************)
(* What the abstract control of funds guarantees, for any set of lines.    *)
(***************************************************************************)
EXTENDS FundsControl, TLAPS

FundsInv == /\ funds \in [Lines -> Int]
            /\ excused \in [Lines -> Nat]
            /\ NoUnexcusedOverdraft

\* Whoever implements the abstract control of funds never overdraws a line
\* beyond the exceptions recorded for it.
THEOREM AbstractOverdraftExcused == Spec => []NoUnexcusedOverdraft
<1>1. Init => FundsInv
  BY DEF Init, FundsInv, NoUnexcusedOverdraft
<1>2. FundsInv /\ [Next]_vars => FundsInv'
  <2> SUFFICES ASSUME FundsInv, [Next]_vars PROVE FundsInv'
    OBVIOUS
  <2>1. CASE Next
    <3>1. funds' \in [Lines -> Int] /\ excused' \in [Lines -> Nat]
      BY <2>1 DEF Next
    <3>2. ASSUME NEW l \in Lines PROVE funds'[l] >= -excused'[l]
      <4>1. /\ funds[l] \in Int /\ excused[l] \in Nat /\ funds[l] >= -excused[l]
            /\ funds'[l] \in Int /\ excused'[l] \in Nat
        BY <3>1 DEF FundsInv, NoUnexcusedOverdraft
      <4>2. CASE Keep(l)
        BY <4>1, <4>2 DEF Keep
      <4>3. CASE Spend(l)
        BY <4>1, <4>3 DEF Spend
      <4>4. CASE Overdraw(l)
        BY <4>1, <4>4 DEF Overdraw
      <4> QED
        BY <2>1, <4>2, <4>3, <4>4 DEF Next
    <3> QED
      BY <3>1, <3>2 DEF FundsInv, NoUnexcusedOverdraft
  <2>2. CASE UNCHANGED vars
    BY <2>2 DEF vars, FundsInv, NoUnexcusedOverdraft
  <2> QED
    BY <2>1, <2>2
<1>3. FundsInv => NoUnexcusedOverdraft
  BY DEF FundsInv
<1> QED
  BY <1>1, <1>2, <1>3, PTL DEF Spec

=============================================================================
