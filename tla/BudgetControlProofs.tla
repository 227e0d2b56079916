------------------------- MODULE BudgetControlProofs -------------------------
(***************************************************************************)
(* Proofs about the budget engine, for any lines, users, grants, periods   *)
(* and bounds: its types, the overdraft it can account for, two-level      *)
(* control, and that it implements FundsControl.                           *)
(***************************************************************************)
EXTENDS BudgetControl, PositionProofs

-----------------------------------------------------------------------------
(* Lemmas about positions and movements.                                   *)

\* The available balance of a position is an integer.
LEMMA AvailableType ==
  ASSUME NEW p \in Positions, NEW b, NEW c
  PROVE  Available(b, c, p) \in Int
BY DEF Available, AdjustedBudget, ControlBase, CountedReservation, Positions, Components

\* A movement added to a position is a position.
LEMMA WithDeltasType ==
  ASSUME NEW p \in Positions, NEW d \in Positions
  PROVE  WithDeltas(p, d) \in Positions
BY DEF WithDeltas, Positions

\* Nothing added to a position leaves it as it is.
LEMMA WithNoMovement ==
  ASSUME NEW p \in Positions
  PROVE  WithDeltas(p, NoMovement) = p
BY DEF WithDeltas, Positions, NoMovement

\* The shortfall check_amount reports covers exactly what falls below zero, or
\* below the overdraft that was there before.
LEMMA ShortfallCovers ==
  ASSUME NEW before \in Int, NEW after \in Int, after < before
  PROVE  /\ Shortfall(before, before - after) \in Nat
         /\ Shortfall(before, before - after) = 0 <=> after >= 0
         /\ after < 0 => Shortfall(before, before - after)
                           = IF before > 0 THEN -after ELSE before - after
BY DEF Shortfall, Positive

\* An entry on one component of one line is a movement.
LEMMA OnType ==
  ASSUME NEW l \in Lines, NEW c \in Components, NEW n \in Int
  PROVE  On(l, c, n) \in Movements
BY DEF On, Movements, Positions

\* Two movements together are a movement.
LEMMA AndType ==
  ASSUME NEW d \in Movements, NEW e \in Movements
  PROVE  And(d, e) \in Movements
BY WithDeltasType DEF And, Movements

\* A document with a line for each budget line it names is a movement.
LEMMA SpreadType ==
  ASSUME NEW c \in Components, NEW sign \in {1, -1}
  PROVE  Spread(c, sign) \subseteq Movements
<1> SUFFICES ASSUME NEW a \in [Lines -> 0 .. MaxAmount]
             PROVE  [l \in Lines |-> On(l, c, sign * a[l])[l]] \in Movements
  BY DEF Spread
<1>1. ASSUME NEW l \in Lines PROVE On(l, c, sign * a[l])[l] \in Positions
  <2>1. sign * a[l] \in Int
    BY AmountsAssumption
  <2> QED
    BY <2>1, OnType DEF Movements
<1> QED
  BY <1>1 DEF Movements

\* Every document movement, imported or not, is a movement.
LEMMA DocumentMovementsType ==
  /\ OriginalBudgets \subseteq Movements
  /\ DocumentMovements \subseteq Movements
  /\ HistoricalMovements \subseteq Movements
<1> USE AmountsAssumption
<1>1. Amounts \subseteq Int /\ 0 .. MaxAmount \subseteq Int
  BY DEF Amounts
<1>2. OriginalBudgets \subseteq Movements /\ Allocations \subseteq Movements
  BY SpreadType DEF OriginalBudgets, Allocations, Components
<1>3. BudgetChanges \subseteq Movements
  <2>1. BudgetComponent \in Components
    BY DEF BudgetComponent, Components
  <2> QED
    BY <2>1, SpreadType DEF BudgetChanges
<1>4. Transfers \subseteq Movements
  <2> SUFFICES ASSUME NEW f \in Lines, NEW t \in Lines, NEW a \in Amounts
               PROVE  And(On(f, "TRANSFER_OUT", a), On(t, "TRANSFER_IN", a)) \in Movements
    BY DEF Transfers
  <2> QED
    BY <1>1, OnType, AndType DEF Components
<1>5. Reservations \subseteq Movements
  BY <1>1, OnType DEF Reservations, Components
<1>6. Orders \subseteq Movements
  <2> SUFFICES ASSUME NEW l \in Lines, NEW held \in 0 .. MaxAmount, NEW a \in Amounts
               PROVE  And(On(l, "RESERVATION", -held), On(l, "COMMITMENT", a)) \in Movements
    BY DEF Orders
  <2>1. a \in Int /\ -held \in Int
    BY <1>1
  <2> QED
    BY <2>1, OnType, AndType DEF Components
<1>7. Expenditures \subseteq Movements
  <2> SUFFICES ASSUME NEW l \in Lines, NEW a \in Amounts, NEW q \in 0 .. MaxAmount
               PROVE  And(On(l, "ACTUAL", a), On(l, "COMMITMENT", -q)) \in Movements
    BY DEF Expenditures
  <2>1. a \in Int /\ -q \in Int
    BY <1>1
  <2> QED
    BY <2>1, OnType, AndType DEF Components
<1>8. Cancellations \subseteq Movements
  <2> SUFFICES ASSUME NEW l \in Lines, NEW c \in {"RESERVATION", "COMMITMENT"}, NEW a \in Amounts
               PROVE  On(l, c, -a) \in Movements
    BY DEF Cancellations
  <2>1. -a \in Int
    BY <1>1
  <2> QED
    BY <2>1, OnType DEF Components
<1>9. Adjustments \subseteq Movements
  <2> SUFFICES ASSUME NEW l \in Lines, NEW c \in {"APPROPRIATION", "ALLOCATION", "ACTUAL"},
                      NEW s \in {1, -1}, NEW a \in Amounts
               PROVE  On(l, c, s * a) \in Movements
    BY DEF Adjustments
  <2>1. s * a \in Int
    BY <1>1
  <2> QED
    BY <2>1, OnType DEF Components
<1>10. DocumentMovements \subseteq Movements
  BY <1>2, <1>3, <1>4, <1>5, <1>6, <1>7, <1>8, <1>9 DEF DocumentMovements
<1>11. HistoricalMovements \subseteq Movements
  <2>1. {On(l, c, a) : l \in Lines, c \in {"COMMITMENT", "ACTUAL"}, a \in Amounts} \subseteq Movements
    BY <1>1, OnType DEF Components
  <2> QED
    BY <1>2, <1>4, <2>1 DEF HistoricalMovements
<1> QED
  BY <1>2, <1>10, <1>11

\* The reverse of a movement is a movement.
LEMMA OppositeType ==
  ASSUME NEW d \in Movements
  PROVE  Opposite(d) \in Movements
BY DEF Opposite, Movements, Positions


-----------------------------------------------------------------------------
(* The inductive invariant.                                                *)

\* Nothing is posted before the year is open: the control basis, which can
\* only change before that, changes under empty balances.
PlanningIsEmpty ==
  yearStatus = "PLANNING" => balance = [l \in Lines |-> NoMovement]

IInv == /\ TypeOK
        /\ OverdraftAccounted
        /\ AllocationWithinAppropriation
        /\ PlanningIsEmpty

\* What a movement changes on a line, and what it is short of there.
LEMMA PostingOnLine ==
  ASSUME TypeOK, NEW delta \in Movements, NEW l \in Lines
  PROVE  /\ After(delta, l) \in Positions
         /\ AvailableIn(balance[l]) \in Int
         /\ AvailableIn(After(delta, l)) \in Int
         /\ ShortOn(delta, l) \in Nat
         /\ AvailableIn(After(delta, l)) < AvailableIn(balance[l]) =>
              /\ ShortOn(delta, l) = 0 <=> AvailableIn(After(delta, l)) >= 0
              /\ AvailableIn(After(delta, l)) < 0 =>
                   ShortOn(delta, l) = IF AvailableIn(balance[l]) > 0
                                       THEN -AvailableIn(After(delta, l))
                                       ELSE AvailableIn(balance[l]) - AvailableIn(After(delta, l))
         /\ AvailableIn(After(delta, l)) >= AvailableIn(balance[l]) => ShortOn(delta, l) = 0
<1>1. balance[l] \in Positions /\ delta[l] \in Positions
  BY DEF TypeOK, Movements
<1>2. After(delta, l) \in Positions
  BY <1>1, WithDeltasType DEF After
<1>3. AvailableIn(balance[l]) \in Int /\ AvailableIn(After(delta, l)) \in Int
  BY <1>1, <1>2, AvailableType DEF AvailableIn
<1>4. CASE AvailableIn(After(delta, l)) < AvailableIn(balance[l])
  BY <1>2, <1>3, <1>4 DEF ShortOn, Shortfall, Positive
<1>5. CASE ~(AvailableIn(After(delta, l)) < AvailableIn(balance[l]))
  BY <1>2, <1>3, <1>5 DEF ShortOn
<1> QED
  BY <1>4, <1>5

\* What a change of the settings uncovers on a line.
UncoveredOn(b, c, l) ==
  LET before == Available(basis, counted, balance[l])
      after  == Available(b, c, balance[l])
  IN IF after < before THEN Shortfall(before, before - after) ELSE 0

\* When a change of the settings lowers what is available on a line, what it
\* uncovers is a natural number, and is exactly what the line then lacks.
LEMMA SettingsOnLine ==
  ASSUME TypeOK, NEW b, NEW c, NEW l \in Lines
  PROVE  /\ AvailableIn(balance[l]) \in Int
         /\ Available(b, c, balance[l]) \in Int
         /\ UncoveredOn(b, c, l) \in Nat
         /\ Available(b, c, balance[l]) < AvailableIn(balance[l]) =>
              /\ UncoveredOn(b, c, l) = 0 <=> Available(b, c, balance[l]) >= 0
              /\ Available(b, c, balance[l]) < 0 =>
                   UncoveredOn(b, c, l) = IF AvailableIn(balance[l]) > 0
                                          THEN -Available(b, c, balance[l])
                                          ELSE AvailableIn(balance[l]) - Available(b, c, balance[l])
         /\ Available(b, c, balance[l]) >= AvailableIn(balance[l]) => UncoveredOn(b, c, l) = 0
<1>1. balance[l] \in Positions
  BY DEF TypeOK
<1>2. AvailableIn(balance[l]) \in Int /\ Available(b, c, balance[l]) \in Int
  BY <1>1, AvailableType DEF AvailableIn
<1>3. CASE Available(b, c, balance[l]) < AvailableIn(balance[l])
  BY <1>2, <1>3, ShortfallCovers DEF UncoveredOn, AvailableIn
<1>4. CASE ~(Available(b, c, balance[l]) < AvailableIn(balance[l]))
  BY <1>2, <1>4 DEF UncoveredOn, AvailableIn
<1> QED
  BY <1>3, <1>4

\* The invariant holds of an empty year.
LEMMA InitInvariant == Init => IInv
<1> SUFFICES ASSUME Init PROVE IInv
  OBVIOUS
<1>1. NoMovement \in Positions
  BY DEF NoMovement, Positions
<1>2. TypeOK
  <2>1. grants \in [Grants -> Grant]
    BY DEF Init, Grant
  <2>2. ledger \in Seq(Posting)
    BY DEF Init
  <2>3. \A l \in Lines, c \in NonNegative : balance[l][c] >= 0
    BY DEF Init, NoMovement, NonNegative, Components
  <2> QED
    BY <1>1, <2>1, <2>2, <2>3 DEF Init, TypeOK
<1>3. \A l \in Lines : AvailableIn(balance[l]) = 0 /\ Unallocated(balance[l]) = 0
  BY DEF Init, AvailableIn, Available, AdjustedBudget, ControlBase, CountedReservation,
         Unallocated, NoMovement, Components
<1>4. OverdraftAccounted
  BY <1>3 DEF Init, OverdraftAccounted, FundsOn, ExcusedOn
<1>5. AllocationWithinAppropriation
  BY <1>3 DEF AllocationWithinAppropriation
<1> QED
  BY <1>2, <1>4, <1>5 DEF IInv, PlanningIsEmpty, Init

\* A posting moves the funds of a line as its delta says, and records as
\* exceptions exactly what the line is short of.
LEMMA PostOnLine ==
  ASSUME TypeOK, NEW kind, NEW delta \in Movements, NEW reverses, NEW user,
         NEW g, NEW historical \in BOOLEAN,
         Post(kind, delta, reverses, user, g, historical),
         NEW l \in Lines
  PROVE  /\ FundsOn(l)' = AvailableIn(After(delta, l))
         /\ ExcusedOn(l) \in Nat
         /\ ExcusedOn(l)' = ExcusedOn(l) + ShortOn(delta, l)
         /\ byGrant'[l] \in Nat
         /\ byHistory'[l] \in Nat
<1>1. FundsOn(l)' = AvailableIn(After(delta, l))
  BY DEF Post, FundsOn, AvailableIn
<1>2. ShortOn(delta, l) \in Nat
  BY PostingOnLine
<1>3. byGrant[l] \in Nat /\ byHistory[l] \in Nat /\ byPolicy[l] \in Nat
  BY DEF TypeOK
<1>4. /\ byGrant'[l] = byGrant[l] + (IF Covers(g, l) THEN ShortOn(delta, l) ELSE 0)
      /\ byHistory'[l] = byHistory[l]
           + (IF historical /\ ~Covers(g, l) THEN ShortOn(delta, l) ELSE 0)
      /\ byPolicy'[l] = byPolicy[l]
  BY DEF Post, GrantedBy
<1>5. ShortOn(delta, l) = 0 \/ Covers(g, l) \/ historical
  BY <1>2 DEF Post, Funded
<1>6. CASE Covers(g, l)
  BY <1>1, <1>2, <1>3, <1>4, <1>6 DEF ExcusedOn
<1>7. CASE ~Covers(g, l) /\ historical
  BY <1>1, <1>2, <1>3, <1>4, <1>7 DEF ExcusedOn
<1>8. CASE ~Covers(g, l) /\ ~historical
  BY <1>1, <1>2, <1>3, <1>4, <1>5, <1>8 DEF ExcusedOn
<1> QED
  BY <1>6, <1>7, <1>8

\* A posting keeps the invariant.
LEMMA PostInvariant ==
  ASSUME IInv, NEW kind \in {"ORIGINAL_BUDGET", "DOCUMENT", "REVERSAL"},
         NEW delta \in Movements, NEW reverses \in Nat, NEW user,
         NEW g \in Grants \cup {NoGrant}, NEW historical \in BOOLEAN,
         Post(kind, delta, reverses, user, g, historical)
  PROVE  IInv'
<1>1. TypeOK
  BY DEF IInv
<1>2. TypeOK'
  <2>1. ledger' \in Seq(Posting)
    <3>1. PICK p \in Periods :
            ledger' = Append(ledger, [kind |-> kind, delta |-> delta, reverses |-> reverses,
                                      period |-> p, historical |-> historical,
                                      grant |-> IF OverrideNeeded(delta, g) > 0 THEN g ELSE NoGrant])
      BY DEF Post
    <3>2. [kind |-> kind, delta |-> delta, reverses |-> reverses, period |-> p,
           historical |-> historical,
           grant |-> IF OverrideNeeded(delta, g) > 0 THEN g ELSE NoGrant] \in Posting
      BY DEF Posting
    <3> QED
      BY <1>1, <3>1, <3>2 DEF TypeOK
  <2>2. balance' \in [Lines -> Positions]
    BY <1>1, PostingOnLine DEF Post
  <2>3. \A l \in Lines, c \in NonNegative : balance'[l][c] >= 0
    BY DEF Post, ColumnsNonNegative
  <2>4. grants' \in [Grants -> Grant]
    <3>1. CASE g = NoGrant
      BY <1>1, <3>1 DEF Post, ChargeGrant, TypeOK
    <3>2. CASE g # NoGrant
      <4>1. g \in Grants /\ grants[g] \in Grant
        BY <1>1, <3>2 DEF TypeOK
      <4>2. PICK needed \in 0 .. (grants[g].max - grants[g].used) :
              grants' = [grants EXCEPT ![g].used = @ + needed]
        BY <3>2 DEF Post, ChargeGrant
      <4>3. [grants[g] EXCEPT !.used = @ + needed] \in Grant
        BY <4>1, <4>2 DEF Grant
      <4> QED
        BY <1>1, <4>1, <4>2, <4>3 DEF TypeOK
    <3> QED
      BY <3>1, <3>2
  <2>5. byGrant' \in [Lines -> Nat] /\ byHistory' \in [Lines -> Nat]
    BY <1>1, PostOnLine DEF Post
  <2> QED
    BY <1>1, <2>1, <2>2, <2>3, <2>4, <2>5 DEF TypeOK, Post
<1>3. OverdraftAccounted'
  <2> SUFFICES ASSUME NEW l \in Lines PROVE FundsOn(l)' >= -(ExcusedOn(l)')
    BY DEF OverdraftAccounted
  <2>1. FundsOn(l) >= -ExcusedOn(l)
    BY DEF IInv, OverdraftAccounted
  <2>2. /\ FundsOn(l)' = AvailableIn(After(delta, l))
        /\ ExcusedOn(l) \in Nat
        /\ ExcusedOn(l)' = ExcusedOn(l) + ShortOn(delta, l)
    BY <1>1, PostOnLine
  <2>3. /\ AvailableIn(balance[l]) \in Int
        /\ AvailableIn(After(delta, l)) \in Int
        /\ ShortOn(delta, l) \in Nat
        /\ \/ AvailableIn(After(delta, l)) >= AvailableIn(balance[l])
           \/ AvailableIn(After(delta, l)) >= 0
           \/ ShortOn(delta, l) = -AvailableIn(After(delta, l))
           \/ ShortOn(delta, l) = AvailableIn(balance[l]) - AvailableIn(After(delta, l))
    BY <1>1, PostingOnLine
  <2> QED
    BY <2>1, <2>2, <2>3 DEF FundsOn
<1>4. AllocationWithinAppropriation'
  <2> SUFFICES ASSUME basis = "TWO_LEVEL", NEW l \in Lines, Unallocated(After(delta, l)) < 0
               PROVE  \E i \in 1 .. Len(ledger)' : ledger'[i].historical /\ ledger'[i].delta[l] # NoMovement
    <3>1. basis' = basis /\ \A l \in Lines : balance'[l] = After(delta, l)
      BY DEF Post
    <3>2. \A l \in Lines : Unallocated(After(delta, l)) \in Int
      BY <1>1, PostingOnLine DEF Unallocated, Positions, Components
    <3> QED
      BY <3>1, <3>2 DEF AllocationWithinAppropriation, Touches
  <2>1. PICK r : /\ ledger' = Append(ledger, r)
                 /\ r.historical = historical
                 /\ r.delta = delta
    BY DEF Post
  <2>2. /\ Len(ledger) \in Nat
        /\ Len(ledger') = Len(ledger) + 1
        /\ ledger'[Len(ledger) + 1] = r
        /\ \A i \in 1 .. Len(ledger) : ledger'[i] = ledger[i]
    BY <1>1, <2>1 DEF TypeOK
  <2>3. balance[l] \in Positions /\ After(delta, l) \in Positions
    BY <1>1, PostingOnLine DEF TypeOK
  <2>4. CASE historical /\ delta[l] # NoMovement
    <3>1. Len(ledger) + 1 \in 1 .. Len(ledger)'
      BY <2>2
    <3>2. ledger'[Len(ledger) + 1].historical
      BY <2>1, <2>2, <2>4
    <3>3. ledger'[Len(ledger) + 1].delta[l] # NoMovement
      BY <2>1, <2>2, <2>4
    <3> QED
      BY <3>1, <3>2, <3>3
  <2>5. CASE ~(historical /\ delta[l] # NoMovement)
    <3>1. Unallocated(balance[l]) < 0
      <4>1. CASE ~historical
        <5>1. Unallocated(After(delta, l)) >= Unallocated(balance[l])
          BY <4>1 DEF Post, WithinAppropriation
        <5> QED
          BY <2>3, <5>1 DEF Unallocated, Positions, Components
      <4>2. CASE delta[l] = NoMovement
        BY <2>3, <4>2, WithNoMovement DEF After
      <4> QED
        BY <2>5, <4>1, <4>2
    <3>2. PICK i \in 1 .. Len(ledger) : ledger[i].historical /\ Touches(i, l)
      <4>1. ~(Unallocated(balance[l]) >= 0)
        BY <2>3, <3>1 DEF Unallocated, Positions, Components
      <4> QED
        BY <4>1 DEF IInv, AllocationWithinAppropriation
    <3> QED
      BY <2>2, <3>2 DEF Touches
  <2> QED
    BY <2>4, <2>5
<1>5. PlanningIsEmpty'
  BY DEF Post, PlanningIsEmpty
<1> QED
  BY <1>2, <1>3, <1>4, <1>5 DEF IInv

\* A change of the settings moves the funds of a line to what the new settings
\* make available, and records what that uncovers.
LEMMA SettingsFunds ==
  ASSUME TypeOK, UpdateYearSettings, NEW l \in Lines
  PROVE  /\ FundsOn(l) \in Int
         /\ FundsOn(l)' \in Int
         /\ ExcusedOn(l) \in Nat
         /\ ExcusedOn(l)' \in Nat
         /\ byPolicy'[l] \in Nat
         /\ FundsOn(l)' >= FundsOn(l) => ExcusedOn(l)' = ExcusedOn(l)
         /\ FundsOn(l)' < FundsOn(l) /\ FundsOn(l)' >= 0 => ExcusedOn(l)' = ExcusedOn(l)
         /\ FundsOn(l)' < FundsOn(l) /\ FundsOn(l)' < 0 =>
              ExcusedOn(l)' = ExcusedOn(l) + (IF FundsOn(l) > 0 THEN -(FundsOn(l)')
                                              ELSE FundsOn(l) - FundsOn(l)')
<1>1. PICK b \in Bases, c \in BOOLEAN :
        /\ basis' = b /\ counted' = c
        /\ byPolicy' = [k \in Lines |-> byPolicy[k] + UncoveredOn(b, c, k)]
  BY DEF UpdateYearSettings, UncoveredOn
<1>2. FundsOn(l) = AvailableIn(balance[l]) /\ FundsOn(l)' = Available(b, c, balance[l])
  BY <1>1 DEF FundsOn, AvailableIn, UpdateYearSettings
<1>3. /\ byGrant[l] \in Nat /\ byHistory[l] \in Nat /\ byPolicy[l] \in Nat
      /\ ExcusedOn(l) = byGrant[l] + byHistory[l] + byPolicy[l]
      /\ ExcusedOn(l)' = byGrant[l] + byHistory[l] + byPolicy[l] + UncoveredOn(b, c, l)
      /\ byPolicy'[l] = byPolicy[l] + UncoveredOn(b, c, l)
  <2>1. UncoveredOn(b, c, l) \in Nat
    BY SettingsOnLine
  <2> QED
    BY <1>1, <2>1 DEF TypeOK, ExcusedOn, UpdateYearSettings
<1>4. /\ AvailableIn(balance[l]) \in Int
      /\ Available(b, c, balance[l]) \in Int
      /\ UncoveredOn(b, c, l) \in Nat
      /\ Available(b, c, balance[l]) < AvailableIn(balance[l]) =>
           /\ UncoveredOn(b, c, l) = 0 <=> Available(b, c, balance[l]) >= 0
           /\ Available(b, c, balance[l]) < 0 =>
                UncoveredOn(b, c, l) = IF AvailableIn(balance[l]) > 0
                                       THEN -Available(b, c, balance[l])
                                       ELSE AvailableIn(balance[l]) - Available(b, c, balance[l])
      /\ Available(b, c, balance[l]) >= AvailableIn(balance[l]) => UncoveredOn(b, c, l) = 0
  BY SettingsOnLine
<1> HIDE DEF UncoveredOn
<1> QED
  BY <1>2, <1>3, <1>4

\* A change of the settings keeps the invariant.
LEMMA SettingsInvariant ==
  ASSUME IInv, UpdateYearSettings
  PROVE  IInv'
<1>1. TypeOK
  BY DEF IInv
<1>2. TypeOK'
  <2>1. byPolicy' \in [Lines -> Nat]
    BY <1>1, SettingsFunds DEF UpdateYearSettings
  <2>2. basis' \in Bases /\ counted' \in BOOLEAN
    BY DEF UpdateYearSettings
  <2> QED
    BY <1>1, <2>1, <2>2 DEF TypeOK, UpdateYearSettings
<1>3. OverdraftAccounted'
  <2> SUFFICES ASSUME NEW l \in Lines PROVE FundsOn(l)' >= -(ExcusedOn(l)')
    BY DEF OverdraftAccounted
  <2>1. FundsOn(l) >= -ExcusedOn(l)
    BY DEF IInv, OverdraftAccounted
  <2> QED
    BY <1>1, <2>1, SettingsFunds
<1>4. AllocationWithinAppropriation'
  <2>1. CASE yearStatus = "PLANNING"
    <3>1. \A l \in Lines : balance'[l] = NoMovement
      BY <2>1 DEF IInv, PlanningIsEmpty, UpdateYearSettings
    <3>2. Unallocated(NoMovement) = 0
      BY DEF Unallocated, NoMovement, Components
    <3> QED
      BY <3>1, <3>2 DEF AllocationWithinAppropriation
  <2>2. CASE yearStatus # "PLANNING"
    BY <2>2 DEF IInv, UpdateYearSettings, AllocationWithinAppropriation, Touches
  <2> QED
    BY <2>1, <2>2
<1>5. PlanningIsEmpty'
  BY DEF IInv, PlanningIsEmpty, UpdateYearSettings
<1> QED
  BY <1>2, <1>3, <1>4, <1>5 DEF IInv

\* Every action that posts is a posting of a movement.
LEMMA PostingActions ==
  ASSUME TypeOK, PostOriginalBudget \/ PostDocument \/ PostHistory \/ PostReversal
  PROVE  \E kind \in {"ORIGINAL_BUDGET", "DOCUMENT", "REVERSAL"}, delta \in Movements,
            reverses \in Nat, user \in Users, g \in Grants \cup {NoGrant},
            historical \in BOOLEAN :
           Post(kind, delta, reverses, user, g, historical)
<1>1. CASE PostOriginalBudget
  <2>1. PICK delta \in Movements, u \in Users, g \in Grants \cup {NoGrant} :
          Post("ORIGINAL_BUDGET", delta, 0, u, g, FALSE)
    BY <1>1, DocumentMovementsType DEF PostOriginalBudget
  <2> QED
    BY <2>1
<1>2. CASE PostDocument
  <2>1. PICK delta \in Movements, u \in Users, g \in Grants \cup {NoGrant} :
          Post("DOCUMENT", delta, 0, u, g, FALSE)
    BY <1>2, DocumentMovementsType DEF PostDocument
  <2> QED
    BY <2>1
<1>3. CASE PostHistory
  <2>1. PICK delta \in Movements, u \in Users : Post("DOCUMENT", delta, 0, u, NoGrant, TRUE)
    BY <1>3, DocumentMovementsType DEF PostHistory
  <2> QED
    BY <2>1
<1>4. CASE PostReversal
  <2>1. PICK i \in 1 .. Len(ledger), u \in Users, g \in Grants \cup {NoGrant} :
          Post("REVERSAL", Opposite(ledger[i].delta), i, u, g, FALSE)
    BY <1>4 DEF PostReversal
  <2>2. ledger[i].delta \in Movements /\ i \in Nat
    <3>1. ledger \in Seq(Posting)
      BY DEF TypeOK
    <3>2. ledger[i] \in Posting /\ i \in Nat
      BY <3>1
    <3> QED
      BY <3>2 DEF Posting
  <2>3. Opposite(ledger[i].delta) \in Movements
    BY <2>2, OppositeType
  <2> QED
    BY <2>1, <2>2, <2>3
<1> QED
  BY <1>1, <1>2, <1>3, <1>4

\* Every step keeps the invariant.
LEMMA StepInvariant == IInv /\ [Next]_vars => IInv'
<1> SUFFICES ASSUME IInv, [Next]_vars PROVE IInv'
  OBVIOUS
<1>1. TypeOK
  BY DEF IInv
<1>2. CASE PostOriginalBudget \/ PostDocument \/ PostHistory \/ PostReversal
  BY <1>1, <1>2, PostingActions, PostInvariant
<1>3. CASE UpdateYearSettings
  BY <1>3, SettingsInvariant
<1>4. CASE OpenYear
  BY <1>4 DEF OpenYear, excuses, IInv, TypeOK, OverdraftAccounted, FundsOn, ExcusedOn, AvailableIn,
              AllocationWithinAppropriation, Touches, PlanningIsEmpty
<1>5. ASSUME NEW p \in Periods, ClosePeriod(p) \/ ReopenPeriod(p) PROVE IInv'
  BY <1>5 DEF ClosePeriod, ReopenPeriod, excuses, IInv, TypeOK, OverdraftAccounted, FundsOn,
              ExcusedOn, AvailableIn, AllocationWithinAppropriation, Touches, PlanningIsEmpty
<1>6. ASSUME NEW g \in Grants, CreateGrant(g) \/ EndGrant(g) PROVE IInv'
  <2>1. grants' \in [Grants -> Grant]
    <3>1. CASE CreateGrant(g)
      <4>1. PICK user \in Users, line \in Lines \cup {AnyLine}, max \in Amounts :
              grants' = [grants EXCEPT ![g] = [status |-> "VALID", user |-> user, line |-> line,
                                               max |-> max, used |-> 0]]
        BY <3>1 DEF CreateGrant
      <4>2. max \in Nat
        BY AmountsAssumption DEF Amounts
      <4> QED
        BY <1>1, <4>1, <4>2 DEF TypeOK, Grant
    <3>2. CASE EndGrant(g)
      BY <1>1, <3>2 DEF EndGrant, TypeOK, Grant
    <3> QED
      BY <1>6, <3>1, <3>2
  <2>2. UNCHANGED <<yearStatus, basis, counted, period, ledger, balance, excuses>>
    BY <1>6 DEF CreateGrant, EndGrant
  <2> QED
    BY <2>1, <2>2 DEF excuses, IInv, TypeOK, OverdraftAccounted, FundsOn, ExcusedOn, AvailableIn,
                      AllocationWithinAppropriation, Touches, PlanningIsEmpty
<1>7. CASE UNCHANGED vars
  BY <1>7 DEF vars, excuses, IInv, TypeOK, OverdraftAccounted, FundsOn, ExcusedOn, AvailableIn,
              AllocationWithinAppropriation, Touches, PlanningIsEmpty
<1> QED
  BY <1>2, <1>3, <1>4, <1>5, <1>6, <1>7 DEF Next

-----------------------------------------------------------------------------
(* The theorems.                                                           *)

\* The strengthened invariant holds in every reachable state of the engine.
LEMMA Invariant == Spec => []IInv
BY InitInvariant, StepInvariant, PTL DEF Spec

\* The engine keeps its types: in particular no balance column with a CHECK
\* ever goes below zero and no grant's use leaves the natural numbers.
THEOREM TypeCorrect == Spec => []TypeOK
<1>1. IInv => TypeOK
  BY DEF IInv
<1> QED
  BY <1>1, Invariant, PTL

\* No line is ever overdrawn by more than grants covered on it, history
\* brought, and a change of the settings uncovered.
THEOREM OverdraftAlwaysAccounted == Spec => []OverdraftAccounted
<1>1. IInv => OverdraftAccounted
  BY DEF IInv
<1> QED
  BY <1>1, Invariant, PTL

\* Under two-level control no sequence of documents, reversals included,
\* allocates a line beyond its appropriation, but for imported history.
THEOREM AllocationStaysWithin == Spec => []AllocationWithinAppropriation
<1>1. IInv => AllocationWithinAppropriation
  BY DEF IInv
<1> QED
  BY <1>1, Invariant, PTL

-----------------------------------------------------------------------------
(* The engine implements the abstract control of funds.                    *)

\* A posting is, on each line, a step of the abstract control of funds.
LEMMA PostRefines ==
  ASSUME TypeOK, NEW kind, NEW delta \in Movements, NEW reverses, NEW user,
         NEW g, NEW historical \in BOOLEAN,
         Post(kind, delta, reverses, user, g, historical)
  PROVE  Funds!Next
<1> SUFFICES ASSUME NEW l \in Lines
             PROVE  /\ Funds!Keep(l) \/ Funds!Spend(l) \/ Funds!Overdraw(l)
                    /\ FundsOn(l)' \in Int
                    /\ ExcusedOn(l)' \in Nat
  BY DEF Funds!Next
<1>1. /\ FundsOn(l)' = AvailableIn(After(delta, l))
      /\ FundsOn(l) = AvailableIn(balance[l])
      /\ ExcusedOn(l) \in Nat
      /\ ExcusedOn(l)' = ExcusedOn(l) + ShortOn(delta, l)
  BY PostOnLine DEF FundsOn
<1>2. /\ AvailableIn(balance[l]) \in Int
      /\ AvailableIn(After(delta, l)) \in Int
      /\ ShortOn(delta, l) \in Nat
      /\ AvailableIn(After(delta, l)) < AvailableIn(balance[l]) =>
           /\ ShortOn(delta, l) = 0 <=> AvailableIn(After(delta, l)) >= 0
           /\ AvailableIn(After(delta, l)) < 0 =>
                ShortOn(delta, l) = IF AvailableIn(balance[l]) > 0
                                    THEN -AvailableIn(After(delta, l))
                                    ELSE AvailableIn(balance[l]) - AvailableIn(After(delta, l))
      /\ AvailableIn(After(delta, l)) >= AvailableIn(balance[l]) => ShortOn(delta, l) = 0
  BY PostingOnLine
<1>3. CASE FundsOn(l)' >= FundsOn(l)
  BY <1>1, <1>2, <1>3 DEF Funds!Keep
<1>4. CASE FundsOn(l)' < FundsOn(l) /\ FundsOn(l)' >= 0
  BY <1>1, <1>2, <1>4 DEF Funds!Spend
<1>5. CASE FundsOn(l)' < FundsOn(l) /\ FundsOn(l)' < 0
  BY <1>1, <1>2, <1>5 DEF Funds!Overdraw
<1> QED
  BY <1>1, <1>2, <1>3, <1>4, <1>5

\* So is a change of the year's settings.
LEMMA SettingsRefine ==
  ASSUME TypeOK, UpdateYearSettings
  PROVE  Funds!Next
<1> SUFFICES ASSUME NEW l \in Lines
             PROVE  /\ Funds!Keep(l) \/ Funds!Spend(l) \/ Funds!Overdraw(l)
                    /\ FundsOn(l)' \in Int
                    /\ ExcusedOn(l)' \in Nat
  BY DEF Funds!Next
<1>1. CASE FundsOn(l)' >= FundsOn(l)
  BY <1>1, SettingsFunds DEF Funds!Keep
<1>2. CASE FundsOn(l)' < FundsOn(l) /\ FundsOn(l)' >= 0
  BY <1>2, SettingsFunds DEF Funds!Spend
<1>3. CASE FundsOn(l)' < FundsOn(l) /\ FundsOn(l)' < 0
  BY <1>3, SettingsFunds DEF Funds!Overdraw
<1> QED
  BY <1>1, <1>2, <1>3, SettingsFunds

\* The engine implements the abstract control of funds: every posting, every
\* change of settings, period or grant is one of its steps or a stutter.
THEOREM EngineControlsFunds == Spec => FundsSpec
<1>1. Init => Funds!Init
  <2>1. \A l \in Lines : AvailableIn(NoMovement) = 0
    BY DEF AvailableIn, Available, AdjustedBudget, ControlBase, CountedReservation,
           NoMovement, Components
  <2> QED
    BY <2>1 DEF Init, Funds!Init, FundsOn, ExcusedOn
<1>2. TypeOK /\ [Next]_vars => [Funds!Next]_(Funds!vars)
  <2> SUFFICES ASSUME TypeOK, [Next]_vars PROVE [Funds!Next]_(Funds!vars)
    OBVIOUS
  <2>1. CASE PostOriginalBudget \/ PostDocument \/ PostHistory \/ PostReversal
    BY <2>1, PostingActions, PostRefines
  <2>2. CASE UpdateYearSettings
    BY <2>2, SettingsRefine
  <2>3. CASE UNCHANGED <<basis, counted, balance, excuses>>
    BY <2>3 DEF excuses, Funds!vars, FundsOn, ExcusedOn, AvailableIn
  <2> QED
    BY <2>1, <2>2, <2>3 DEF Next, vars, OpenYear, ClosePeriod, ReopenPeriod, CreateGrant, EndGrant
<1>3. Spec => []TypeOK
  BY TypeCorrect
<1> QED
  BY <1>1, <1>2, <1>3, PTL DEF Spec, FundsSpec, Funds!Spec

-----------------------------------------------------------------------------
(* The accounts: what moved, what is in force, what grants covered.        *)

\* What a movement takes from lines by transfers is what it brings to lines.
Paired(delta) ==
  SumFunction([l \in Lines |-> delta[l]["TRANSFER_OUT"]])
    = SumFunction([l \in Lines |-> delta[l]["TRANSFER_IN"]])

\* Every posting pairs its transfers, so that its reversal does too; only
\* reversals name a posting, and it is an earlier one.
LedgerInOrder ==
  \A i \in 1 .. Len(ledger) :
    /\ Paired(ledger[i].delta)
    /\ ledger[i].reverses < i

\* A grant that was not issued covered nothing.
UnissuedCoverNothing == \A g \in Grants : grants[g].status = "NONE" => grants[g].used = 0

AccountsInv == /\ LedgerInOrder
               /\ UnissuedCoverNothing
               /\ TransfersCreateNoMoney
               /\ BalanceIsDocumentsInForce
               /\ GrantsAccounted

\* A movement without transfers pairs them.
LEMMA NoTransfersPaired ==
  ASSUME NEW d, \A l \in Lines : d[l]["TRANSFER_OUT"] = 0 /\ d[l]["TRANSFER_IN"] = 0
  PROVE  Paired(d)
BY SumZero, FiniteAssumption DEF Paired, SumFunction

\* The two sides of a transfer are paired.
LEMMA TransferPaired ==
  ASSUME NEW f \in Lines, NEW t \in Lines, NEW a \in Int
  PROVE  Paired(And(On(f, "TRANSFER_OUT", a), On(t, "TRANSFER_IN", a)))
<1> DEFINE d   == And(On(f, "TRANSFER_OUT", a), On(t, "TRANSFER_IN", a))
           out == [l \in Lines |-> d[l]["TRANSFER_OUT"]]
           in  == [l \in Lines |-> d[l]["TRANSFER_IN"]]
<1>1. \A l \in Lines : /\ out[l] = IF l = f THEN a ELSE 0
                       /\ in[l] = IF l = t THEN a ELSE 0
  BY DEF And, On, WithDeltas, Components
<1>2. DOMAIN out = Lines /\ DOMAIN in = Lines
  OBVIOUS
<1> HIDE DEF out, in
<1>3. SumFunctionOnSet(out, Lines) = out[f] /\ SumFunctionOnSet(in, Lines) = in[t]
  BY <1>1, SumOneTerm, FiniteAssumption
<1>4. SumFunctionOnSet(out, Lines) = SumFunctionOnSet(in, Lines)
  BY <1>1, <1>3
<1>5. SumFunction(out) = SumFunction(in)
  BY <1>2, <1>4 DEF SumFunction
<1> QED
  BY <1>5 DEF Paired, out, in

\* Every document, imported or not, pairs its transfers.
LEMMA DocumentsPaired ==
  ASSUME NEW d \in OriginalBudgets \cup DocumentMovements \cup HistoricalMovements
  PROVE  Paired(d)
<1> USE AmountsAssumption
<1>1. ASSUME d \in Transfers PROVE Paired(d)
  <2>1. PICK f \in Lines, t \in Lines, a \in Amounts :
          d = And(On(f, "TRANSFER_OUT", a), On(t, "TRANSFER_IN", a))
    BY <1>1 DEF Transfers
  <2> QED
    BY <2>1, TransferPaired DEF Amounts
<1>2. ASSUME NEW c, NEW sign, c \notin {"TRANSFER_OUT", "TRANSFER_IN"}, d \in Spread(c, sign)
      PROVE  Paired(d)
  <2>1. PICK a : d = [l \in Lines |-> On(l, c, sign * a[l])[l]]
    BY <1>2 DEF Spread
  <2>2. \A l \in Lines : d[l]["TRANSFER_OUT"] = 0 /\ d[l]["TRANSFER_IN"] = 0
    BY <1>2, <2>1 DEF On, Components
  <2> QED
    BY <2>2, NoTransfersPaired
<1>3. ASSUME d \in OriginalBudgets \cup BudgetChanges \cup Allocations PROVE Paired(d)
  <2>1. BudgetComponent \notin {"TRANSFER_OUT", "TRANSFER_IN"}
    BY DEF BudgetComponent
  <2> QED
    BY <1>2, <1>3, <2>1 DEF OriginalBudgets, BudgetChanges, Allocations
<1>4. ASSUME d \notin Transfers, d \notin OriginalBudgets \cup BudgetChanges \cup Allocations
      PROVE  Paired(d)
  <2>1. \/ \E l \in Lines, c \in Components \ {"TRANSFER_OUT", "TRANSFER_IN"} : \E n : d = On(l, c, n)
        \/ \E l \in Lines, b, c \in Components \ {"TRANSFER_OUT", "TRANSFER_IN"} : \E m, n :
             d = And(On(l, b, m), On(l, c, n))
    <3>1. d \in Reservations \cup Orders \cup Expenditures \cup Cancellations \cup Adjustments
            \cup {On(l, c, a) : l \in Lines, c \in {"COMMITMENT", "ACTUAL"}, a \in Amounts}
      BY <1>4 DEF DocumentMovements, HistoricalMovements
    <3>2. CASE d \in Reservations
      BY <3>2 DEF Reservations, Components
    <3>3. CASE d \in Orders
      BY <3>3 DEF Orders, Components
    <3>4. CASE d \in Expenditures
      BY <3>4 DEF Expenditures, Components
    <3>5. CASE d \in Cancellations
      BY <3>5 DEF Cancellations, Components
    <3>6. CASE d \in Adjustments
      BY <3>6 DEF Adjustments, Components
    <3>7. CASE d \in {On(l, c, a) : l \in Lines, c \in {"COMMITMENT", "ACTUAL"}, a \in Amounts}
      BY <3>7 DEF Components
    <3> QED
      BY <3>1, <3>2, <3>3, <3>4, <3>5, <3>6, <3>7
  <2>2. \A l \in Lines : d[l]["TRANSFER_OUT"] = 0 /\ d[l]["TRANSFER_IN"] = 0
    BY <2>1 DEF On, And, WithDeltas, Components
  <2> QED
    BY <2>2, NoTransfersPaired
<1> QED
  BY <1>1, <1>3, <1>4

\* The reverse of a movement pairs its transfers if the movement does.
LEMMA OppositePaired ==
  ASSUME NEW d \in Movements, Paired(d)
  PROVE  Paired(Opposite(d))
<1> DEFINE Side(e, c) == [l \in Lines |-> e[l][c]]
<1>1. ASSUME NEW c \in Components
      PROVE  SumFunction(Side(d, c)) \in Int /\ SumFunction(Side(Opposite(d), c)) = -SumFunction(Side(d, c))
  <2> DEFINE f == Side(d, c)
             g == Side(Opposite(d), c)
             none == [l \in Lines |-> 0]
  <2>1. /\ DOMAIN f = Lines /\ DOMAIN g = Lines
        /\ \A l \in Lines : f[l] \in Int /\ g[l] \in Int /\ none[l] = f[l] + g[l]
    BY DEF Opposite, Movements, Positions
  <2>2. SumFunctionOnSet(none, Lines) = 0
    BY SumZero, FiniteAssumption
  <2> HIDE DEF f, g, none
  <2>3. SumFunctionOnSet(none, Lines) = SumFunctionOnSet(f, Lines) + SumFunctionOnSet(g, Lines)
    BY <2>1, SumAdd, FiniteAssumption
  <2>4. SumFunctionOnSet(f, Lines) \in Int /\ SumFunctionOnSet(g, Lines) \in Int
    BY <2>1, SumType, FiniteAssumption
  <2>5. SumFunction(f) \in Int /\ SumFunction(g) = -SumFunction(f)
    BY <2>1, <2>2, <2>3, <2>4 DEF SumFunction
  <2> QED
    BY <2>5 DEF f, g
<1>2. "TRANSFER_OUT" \in Components /\ "TRANSFER_IN" \in Components
  BY DEF Components
<1>3. SumFunction(Side(d, "TRANSFER_OUT")) = SumFunction(Side(d, "TRANSFER_IN"))
  BY DEF Paired
<1>4. SumFunction(Side(Opposite(d), "TRANSFER_OUT")) = SumFunction(Side(Opposite(d), "TRANSFER_IN"))
  <2> HIDE DEF Side
  <2> QED
    BY <1>1, <1>2, <1>3
<1> QED
  BY <1>4 DEF Paired

\* Every action that posts is a posting of a movement that pairs its transfers;
\* what it reverses, if anything, is a posting in force.
LEMMA PostedMovements ==
  ASSUME TypeOK, LedgerInOrder, PostOriginalBudget \/ PostDocument \/ PostHistory \/ PostReversal
  PROVE  \E kind \in {"ORIGINAL_BUDGET", "DOCUMENT", "REVERSAL"}, delta \in Movements,
            reverses \in 0 .. Len(ledger), user \in Users, g \in Grants \cup {NoGrant},
            historical \in BOOLEAN :
           /\ Post(kind, delta, reverses, user, g, historical)
           /\ Paired(delta)
           /\ \/ kind # "REVERSAL" /\ reverses = 0
              \/ /\ kind = "REVERSAL" /\ reverses \in InForce
                 /\ delta = Opposite(ledger[reverses].delta)
<1>0. 0 \in 0 .. Len(ledger)
  BY DEF TypeOK
<1>1. CASE PostOriginalBudget
  <2>1. PICK delta \in OriginalBudgets, u \in Users, g \in Grants \cup {NoGrant} :
          Post("ORIGINAL_BUDGET", delta, 0, u, g, FALSE)
    BY <1>1 DEF PostOriginalBudget
  <2>2. delta \in Movements /\ Paired(delta)
    BY DocumentMovementsType, DocumentsPaired
  <2> QED
    BY <1>0, <2>1, <2>2
<1>2. CASE PostDocument
  <2>1. PICK delta \in DocumentMovements, u \in Users, g \in Grants \cup {NoGrant} :
          Post("DOCUMENT", delta, 0, u, g, FALSE)
    BY <1>2 DEF PostDocument
  <2>2. delta \in Movements /\ Paired(delta)
    BY DocumentMovementsType, DocumentsPaired
  <2> QED
    BY <1>0, <2>1, <2>2
<1>3. CASE PostHistory
  <2>1. PICK delta \in HistoricalMovements, u \in Users : Post("DOCUMENT", delta, 0, u, NoGrant, TRUE)
    BY <1>3 DEF PostHistory
  <2>2. delta \in Movements /\ Paired(delta)
    BY DocumentMovementsType, DocumentsPaired
  <2> QED
    BY <1>0, <2>1, <2>2
<1>4. CASE PostReversal
  <2>1. PICK i \in 1 .. Len(ledger), u \in Users, g \in Grants \cup {NoGrant} :
          Reversible(i) /\ Post("REVERSAL", Opposite(ledger[i].delta), i, u, g, FALSE)
    BY <1>4 DEF PostReversal
  <2>2. ledger[i].delta \in Movements /\ i \in 0 .. Len(ledger)
    <3>1. ledger[i] \in Posting /\ Len(ledger) \in Nat
      BY DEF TypeOK
    <3> QED
      BY <3>1 DEF Posting
  <2>3. Opposite(ledger[i].delta) \in Movements /\ Paired(Opposite(ledger[i].delta))
    BY <2>2, OppositeType, OppositePaired DEF LedgerInOrder
  <2>4. i \in InForce
    BY <2>1 DEF InForce, Reversible
  <2> QED
    BY <2>1, <2>2, <2>3, <2>4
<1> QED
  BY <1>1, <1>2, <1>3, <1>4

\* The entry a posting appends, and the entries before it.
LEMMA PostAppends ==
  ASSUME TypeOK, NEW kind, NEW delta, NEW reverses, NEW user, NEW g, NEW historical,
         Post(kind, delta, reverses, user, g, historical)
  PROVE  /\ Len(ledger) \in Nat
         /\ Len(ledger') = Len(ledger) + 1
         /\ \A i \in 1 .. Len(ledger) : ledger'[i] = ledger[i]
         /\ ledger'[Len(ledger) + 1].kind = kind
         /\ ledger'[Len(ledger) + 1].delta = delta
         /\ ledger'[Len(ledger) + 1].reverses = reverses
<1>1. PICK r : /\ ledger' = Append(ledger, r)
               /\ r.kind = kind /\ r.delta = delta /\ r.reverses = reverses
  BY DEF Post
<1> QED
  BY <1>1 DEF TypeOK

\* A posting pairs transfers in the balances if its movement does.
LEMMA PostKeepsTransfers ==
  ASSUME TypeOK, TransfersCreateNoMoney, NEW kind, NEW delta \in Movements, NEW reverses,
         NEW user, NEW g, NEW historical, Paired(delta),
         Post(kind, delta, reverses, user, g, historical)
  PROVE  TransfersCreateNoMoney'
<1> DEFINE Old(c) == [l \in Lines |-> balance[l][c]]
           Moves(c) == [l \in Lines |-> delta[l][c]]
           New(c) == [l \in Lines |-> balance'[l][c]]
<1>1. ASSUME NEW c \in Components
      PROVE  SumFunction(New(c)) = SumFunction(Old(c)) + SumFunction(Moves(c))
  <2> DEFINE o == Old(c)
             m == Moves(c)
             n == New(c)
  <2>1. /\ DOMAIN o = Lines /\ DOMAIN m = Lines /\ DOMAIN n = Lines
        /\ \A l \in Lines : o[l] \in Int /\ m[l] \in Int /\ n[l] = o[l] + m[l]
    BY DEF TypeOK, Movements, Positions, Post, After, WithDeltas
  <2> HIDE DEF o, m, n
  <2>2. SumFunctionOnSet(n, Lines) = SumFunctionOnSet(o, Lines) + SumFunctionOnSet(m, Lines)
    BY <2>1, SumAdd, FiniteAssumption
  <2>3. SumFunction(n) = SumFunction(o) + SumFunction(m)
    BY <2>1, <2>2 DEF SumFunction
  <2> QED
    BY <2>3 DEF o, m, n
<1>2. "TRANSFER_OUT" \in Components /\ "TRANSFER_IN" \in Components
  BY DEF Components
<1>3. /\ SumFunction(Old("TRANSFER_OUT")) = SumFunction(Old("TRANSFER_IN"))
      /\ SumFunction(Moves("TRANSFER_OUT")) = SumFunction(Moves("TRANSFER_IN"))
  BY DEF TransfersCreateNoMoney, SumOverLines, Paired
<1>4. SumFunction(New("TRANSFER_OUT")) = SumFunction(New("TRANSFER_IN"))
  <2> HIDE DEF Old, New, Moves
  <2> QED
    BY <1>1, <1>2, <1>3
<1> QED
  BY <1>4 DEF TransfersCreateNoMoney, SumOverLines

\* A posting leaves each balance what the documents then in force moved.
LEMMA PostKeepsBalance ==
  ASSUME TypeOK, LedgerInOrder, BalanceIsDocumentsInForce,
         NEW kind, NEW delta \in Movements, NEW reverses \in 0 .. Len(ledger),
         NEW user, NEW g, NEW historical,
         Post(kind, delta, reverses, user, g, historical),
         \/ kind # "REVERSAL" /\ reverses = 0
         \/ /\ kind = "REVERSAL" /\ reverses \in InForce
            /\ delta = Opposite(ledger[reverses].delta)
  PROVE  BalanceIsDocumentsInForce'
<1> SUFFICES ASSUME NEW l \in Lines, NEW c \in Components
             PROVE  balance'[l][c] = SumFunction([i \in InForce' |-> ledger'[i].delta[l][c]])
  BY DEF BalanceIsDocumentsInForce
<1> DEFINE f == [i \in InForce |-> ledger[i].delta[l][c]]
           now == [i \in InForce' |-> ledger'[i].delta[l][c]]
           n == Len(ledger) + 1
<1>1. /\ Len(ledger) \in Nat
      /\ Len(ledger') = n
      /\ \A i \in 1 .. Len(ledger) : ledger'[i] = ledger[i]
      /\ ledger'[n].kind = kind /\ ledger'[n].delta = delta /\ ledger'[n].reverses = reverses
  BY PostAppends
<1>2. IsFiniteSet(InForce) /\ InForce \subseteq 1 .. Len(ledger) /\ n \notin InForce
  <2>1. InForce \in SUBSET (1 .. Len(ledger))
    BY DEF InForce
  <2>2. IsFiniteSet(1 .. Len(ledger))
    BY <1>1, FS_Interval
  <2>3. IsFiniteSet(InForce)
    BY <2>1, <2>2, FS_Subset
  <2> QED
    BY <1>1, <2>1, <2>3
<1>3. /\ \A i \in InForce : ledger[i].delta \in Movements
      /\ balance'[l][c] = balance[l][c] + delta[l][c]
      /\ balance[l][c] \in Int /\ delta[l][c] \in Int
  <2>1. \A i \in 1 .. Len(ledger) : ledger[i] \in Posting
    BY DEF TypeOK
  <2> QED
    BY <1>2, <2>1 DEF Posting, TypeOK, Movements, Positions, Post, After, WithDeltas
<1>4. \A i \in InForce : f[i] \in Int /\ f[i] = ledger[i].delta[l][c]
  BY <1>3 DEF Movements, Positions
<1>5. balance[l][c] = SumFunctionOnSet(f, InForce)
  BY DEF BalanceIsDocumentsInForce, SumFunction
<1>6. SumFunction(now) = SumFunctionOnSet(now, InForce')
  BY DEF SumFunction
<1>7. CASE kind # "REVERSAL" /\ reverses = 0
  <2>1. InForce' = InForce \cup {n}
    <3>1. \A i \in 1 .. Len(ledger) : Reversed(i)' <=> Reversed(i)
      BY <1>1, <1>7 DEF Reversed
    <3>2. \A j \in 1 .. Len(ledger') : ledger'[j].reverses # n
      BY <1>1, <1>7 DEF LedgerInOrder
    <3>3. 1 .. Len(ledger') = 1 .. Len(ledger) \cup {n}
      BY <1>1
    <3>4. \A i \in 1 .. Len(ledger) : i \in InForce' <=> i \in InForce
      BY <1>1, <3>1, <3>3 DEF InForce
    <3>5. n \in InForce'
      BY <1>1, <1>7, <3>2, <3>3 DEF InForce, Reversed
    <3>6. InForce' \subseteq 1 .. Len(ledger) \cup {n}
      BY <3>3 DEF InForce
    <3> HIDE DEF n
    <3> QED
      BY <1>2, <3>4, <3>5, <3>6
  <2>2. /\ \A i \in InForce : now[i] = f[i]
        /\ now[n] = delta[l][c]
    BY <1>1, <1>2, <2>1
  <2> HIDE DEF f, now, n
  <2>3. SumFunctionOnSet(now, InForce \cup {n}) = SumFunctionOnSet(now, InForce) + now[n]
    <3>1. now[n] \in Int /\ \A i \in InForce : now[i] \in Int
      BY <1>3, <1>4, <2>2
    <3> QED
      BY <1>2, <3>1, SumPutIn
  <2>4. SumFunctionOnSet(now, InForce) = SumFunctionOnSet(f, InForce)
    BY <1>2, <1>4, <2>2, SumEqual
  <2> QED
    BY <1>3, <1>5, <1>6, <2>1, <2>2, <2>3, <2>4 DEF now
<1>8. CASE kind = "REVERSAL" /\ reverses \in InForce /\ delta = Opposite(ledger[reverses].delta)
  <2>1. InForce' = InForce \ {reverses}
    <3>1. \A i \in 1 .. Len(ledger) : Reversed(i)' <=> Reversed(i) \/ i = reverses
      BY <1>1, <1>2, <1>8 DEF Reversed
    <3>2. 1 .. Len(ledger') = 1 .. Len(ledger) \cup {n}
      BY <1>1
    <3> QED
      BY <1>1, <1>8, <3>1, <3>2 DEF InForce
  <2>2. /\ \A i \in InForce \ {reverses} : now[i] = f[i]
        /\ delta[l][c] = -f[reverses]
    BY <1>1, <1>2, <1>8, <2>1 DEF Opposite
  <2> HIDE DEF f, now
  <2>3. IsFiniteSet(InForce \ {reverses})
    BY <1>2, FS_RemoveElement
  <2>4. SumFunctionOnSet(f, InForce) = f[reverses] + SumFunctionOnSet(f, InForce \ {reverses})
    BY <1>2, <1>4, <1>8, SumTakeOut
  <2>5. SumFunctionOnSet(f, InForce \ {reverses}) = SumFunctionOnSet(now, InForce \ {reverses})
    BY <1>4, <2>2, <2>3, SumEqual
  <2>6. SumFunctionOnSet(f, InForce \ {reverses}) \in Int /\ f[reverses] \in Int
    BY <1>4, <1>8, <2>3, SumType
  <2> QED
    BY <1>3, <1>5, <1>6, <2>1, <2>2, <2>4, <2>5, <2>6 DEF now
<1> QED
  BY <1>7, <1>8

\* The grants that cover a line.
CoveringGrants(l) == {h \in Grants : Covers(h, l)}

\* What is used of the grants, one by one.
UsedOf == [h \in Grants |-> grants[h].used]

\* GrantsAccounted, with sums over the same function.
LEMMA GrantsAccountedBySums ==
  GrantsAccounted <=>
    /\ \A g \in Grants : grants[g].used <= grants[g].max
    /\ SumFunctionOnSet(UsedOf, Grants) = SumFunction(byGrant)
    /\ \A l \in Lines :
         byGrant[l] <= SumFunction([h \in CoveringGrants(l) |-> grants[h].used])
BY DEF GrantsAccounted, UsedOf, SumFunction, CoveringGrants

\* A sum over some of the grants is one over the same function.
LEMMA SumOverGrants ==
  ASSUME NEW G \in [Grants -> Grant], NEW C \in SUBSET Grants
  PROVE  /\ IsFiniteSet(C)
         /\ SumFunction([h \in C |-> G[h].used])
              = SumFunctionOnSet([h \in Grants |-> G[h].used], C)
<1> DEFINE f == [h \in C |-> G[h].used]
           g == [h \in Grants |-> G[h].used]
<1>1. IsFiniteSet(C)
  BY FS_Subset, FiniteAssumption
<1>2. \A h \in C : f[h] \in Int /\ f[h] = g[h]
  BY DEF Grant
<1>3. DOMAIN f = C
  OBVIOUS
<1> HIDE DEF f, g
<1>4. SumFunctionOnSet(f, C) = SumFunctionOnSet(g, C)
  BY <1>1, <1>2, SumEqual
<1>5. SumFunction(f) = SumFunctionOnSet(g, C)
  BY <1>3, <1>4 DEF SumFunction
<1> QED
  BY <1>1, <1>5 DEF f, g

\* The sum over the grants that cover a line, before and after a step.
LEMMA CoveringSum ==
  ASSUME NEW l \in Lines
  PROVE  /\ IsFiniteSet(CoveringGrants(l)) /\ CoveringGrants(l) \subseteq Grants
         /\ IsFiniteSet(CoveringGrants(l)') /\ CoveringGrants(l)' \subseteq Grants
         /\ TypeOK => SumFunction([h \in CoveringGrants(l) |-> grants[h].used])
                        = SumFunctionOnSet(UsedOf, CoveringGrants(l))
         /\ TypeOK' => SumFunction([h \in CoveringGrants(l)' |-> grants'[h].used])
                         = SumFunctionOnSet(UsedOf', CoveringGrants(l)')
<1>1. CoveringGrants(l) \in SUBSET Grants /\ CoveringGrants(l)' \in SUBSET Grants
  BY DEF CoveringGrants
<1>2. IsFiniteSet(CoveringGrants(l)) /\ IsFiniteSet(CoveringGrants(l)')
  BY <1>1, FS_Subset, FiniteAssumption
<1> QED
  BY <1>1, <1>2, SumOverGrants DEF TypeOK, UsedOf

\* A posting charges its grant with what the grant covers of its lines.
LEMMA PostKeepsGrants ==
  ASSUME TypeOK, TypeOK', GrantsAccounted, NEW kind, NEW delta \in Movements, NEW reverses,
         NEW user, NEW g \in Grants \cup {NoGrant}, NEW historical,
         Post(kind, delta, reverses, user, g, historical)
  PROVE  GrantsAccounted'
<1> DEFINE charged == [l \in Lines |-> GrantedBy(delta, g, l)]
<1>1. /\ \A l \in Lines : charged[l] \in Nat /\ byGrant[l] \in Nat
                          /\ byGrant'[l] = byGrant[l] + charged[l]
      /\ DOMAIN byGrant = Lines /\ DOMAIN byGrant' = Lines /\ DOMAIN charged = Lines
      /\ \A l \in Lines : ~Covers(g, l) => charged[l] = 0
  BY PostingOnLine DEF Post, TypeOK, GrantedBy
<1>2. OverrideNeeded(delta, g) = SumFunctionOnSet(charged, Lines)
  BY DEF OverrideNeeded, SumFunction
<1> HIDE DEF charged
<1>3. SumFunctionOnSet(byGrant', Lines)
        = SumFunctionOnSet(byGrant, Lines) + SumFunctionOnSet(charged, Lines)
  BY <1>1, SumAdd, FiniteAssumption
<1>4. /\ SumFunctionOnSet(charged, Lines) \in Nat
      /\ \A l \in Lines : charged[l] <= SumFunctionOnSet(charged, Lines)
  BY <1>1, SumNonNegative, SumCoversTerm, FiniteAssumption
<1>5. /\ \A h \in Grants : grants[h].used \in Nat /\ grants[h].max \in Nat /\ UsedOf[h] = grants[h].used
      /\ \A h \in Grants : grants'[h].used \in Nat /\ UsedOf'[h] = grants'[h].used
  BY DEF TypeOK, Grant, UsedOf
<1>6. /\ \A h \in Grants : grants[h].used <= grants[h].max
      /\ SumFunctionOnSet(UsedOf, Grants) = SumFunctionOnSet(byGrant, Lines)
      /\ \A l \in Lines : byGrant[l] <= SumFunctionOnSet(UsedOf, CoveringGrants(l))
  BY <1>1, GrantsAccountedBySums, CoveringSum DEF SumFunction
<1>7. CASE g = NoGrant
  <2>1. grants' = grants /\ \A l \in Lines : charged[l] = 0
    BY <1>1, <1>7 DEF Post, ChargeGrant, Covers
  <2>2. byGrant' = byGrant
    BY <1>1, <2>1 DEF TypeOK
  <2> QED
    BY <2>1, <2>2 DEF GrantsAccounted, Covers
<1>8. CASE g \in Grants
  <2>1. g # NoGrant
    BY <1>8, NamesAssumption
  <2> DEFINE needed == SumFunctionOnSet(charged, Lines)
  <2>2. /\ grants[g].used + needed <= grants[g].max
        /\ grants' = [grants EXCEPT ![g].used = @ + needed]
    BY <1>2, <1>4, <1>5, <1>8, <2>1 DEF Post, ChargeGrant
  <2> HIDE DEF needed
  <2>3. /\ \A h \in Grants : h # g => grants'[h] = grants[h]
        /\ grants'[g].used = grants[g].used + needed
        /\ grants'[g].max = grants[g].max /\ grants'[g].line = grants[g].line
    BY <1>8, <2>2 DEF TypeOK, Grant
  <2>4. \A h \in Grants : grants'[h].used <= grants'[h].max
    BY <1>6, <2>2, <2>3
  <2>5. /\ \A h \in Grants : UsedOf[h] \in Int /\ UsedOf'[h] \in Int
        /\ \A h \in Grants : h # g => UsedOf'[h] = UsedOf[h]
        /\ UsedOf'[g] - UsedOf[g] = needed
    BY <1>4, <1>5, <1>8, <2>3 DEF needed
  <2>6. needed \in Nat /\ SumFunctionOnSet(charged, Lines) = needed
    BY <1>4 DEF needed
  <2>7. SumFunctionOnSet(UsedOf', Grants) = SumFunctionOnSet(byGrant', Lines)
    <3>1. SumFunctionOnSet(UsedOf', Grants) = SumFunctionOnSet(UsedOf, Grants) + needed
      <4>1. SumFunctionOnSet(UsedOf', Grants)
              = SumFunctionOnSet(UsedOf, Grants) + (UsedOf'[g] - UsedOf[g])
        BY <1>8, <2>5, SumChange, FiniteAssumption
      <4> QED
        BY <2>5, <4>1
    <3> QED
      BY <1>3, <1>6, <2>6, <3>1
  <2>8. ASSUME NEW l \in Lines
        PROVE  byGrant'[l] <= SumFunctionOnSet(UsedOf', CoveringGrants(l)')
    <3>1. CoveringGrants(l)' = CoveringGrants(l)
      BY <1>8, <2>3 DEF CoveringGrants, Covers
    <3>2. /\ IsFiniteSet(CoveringGrants(l)) /\ CoveringGrants(l) \subseteq Grants
          /\ g \in CoveringGrants(l) <=> Covers(g, l)
      BY <1>8, CoveringSum DEF CoveringGrants
    <3>3. SumFunctionOnSet(UsedOf, CoveringGrants(l)) \in Int
      BY <2>5, <3>2, SumType
    <3>4. /\ byGrant[l] <= SumFunctionOnSet(UsedOf, CoveringGrants(l))
          /\ byGrant[l] \in Nat /\ charged[l] \in Nat
          /\ byGrant'[l] = byGrant[l] + charged[l] /\ charged[l] <= needed
      BY <1>1, <1>4, <1>6, <2>6
    <3>5. CASE Covers(g, l)
      <4>1. SumFunctionOnSet(UsedOf', CoveringGrants(l))
              = SumFunctionOnSet(UsedOf, CoveringGrants(l)) + (UsedOf'[g] - UsedOf[g])
        BY <2>5, <3>2, <3>5, SumChange
      <4> QED
        BY <2>5, <2>6, <3>1, <3>3, <3>4, <4>1
    <3>6. CASE ~Covers(g, l)
      <4>1. SumFunctionOnSet(UsedOf, CoveringGrants(l)) = SumFunctionOnSet(UsedOf', CoveringGrants(l))
        BY <2>5, <3>2, <3>6, SumEqual
      <4>2. charged[l] = 0
        BY <1>1, <3>6
      <4> QED
        BY <3>1, <3>4, <4>1, <4>2
    <3> QED
      BY <3>5, <3>6
  <2>9. SumFunction(byGrant') = SumFunctionOnSet(byGrant', Lines)
    BY <1>1 DEF SumFunction
  <2>10. \A l \in Lines : SumFunction([h \in CoveringGrants(l)' |-> grants'[h].used])
                            = SumFunctionOnSet(UsedOf', CoveringGrants(l)')
    BY CoveringSum
  <2> QED
    BY <2>4, <2>7, <2>8, <2>9, <2>10 DEF GrantsAccounted, UsedOf, SumFunction, CoveringGrants
<1> QED
  BY <1>7, <1>8

\* Issuing a grant, or ending one, keeps what is used and covered: a grant that
\* is issued was not used before.
LEMMA GrantStepsKeepAccounts ==
  ASSUME TypeOK, TypeOK', UnissuedCoverNothing, GrantsAccounted,
         NEW g \in Grants, CreateGrant(g) \/ EndGrant(g)
  PROVE  UnissuedCoverNothing' /\ GrantsAccounted'
<1>1. /\ \A h \in Grants : h # g => grants'[h] = grants[h]
      /\ grants'[g].used = grants[g].used /\ grants'[g].used <= grants'[g].max
      /\ grants'[g].status # "NONE"
      /\ \/ grants'[g].line = grants[g].line
         \/ grants[g].used = 0
      /\ byGrant' = byGrant
  <2>1. grants[g].used <= grants[g].max
    BY DEF GrantsAccounted
  <2>2. CASE CreateGrant(g)
    <3>1. PICK user \in Users, line \in Lines \cup {AnyLine}, max \in Amounts :
            grants' = [grants EXCEPT ![g] = [status |-> "VALID", user |-> user, line |-> line,
                                             max |-> max, used |-> 0]]
      BY <2>2 DEF CreateGrant
    <3>2. grants[g].used = 0
      BY <2>2 DEF CreateGrant, UnissuedCoverNothing
    <3>3. max >= 0
      BY DEF Amounts
    <3> QED
      BY <2>2, <3>1, <3>2, <3>3 DEF TypeOK, CreateGrant, excuses
  <2>3. CASE EndGrant(g)
    BY <2>1, <2>3 DEF EndGrant, TypeOK, Grant, excuses
  <2> QED
    BY <2>2, <2>3
<1>2. UnissuedCoverNothing'
  BY <1>1 DEF UnissuedCoverNothing
<1>3. UsedOf' = UsedOf
  BY <1>1 DEF UsedOf
<1>4. \A h \in Grants : UsedOf[h] \in Int
  BY DEF UsedOf, TypeOK, Grant
<1>5. ASSUME NEW l \in Lines
      PROVE  byGrant'[l] <= SumFunction([h \in CoveringGrants(l)' |-> grants'[h].used])
  <2> DEFINE C == CoveringGrants(l)
             D == CoveringGrants(l)'
  <2>1. /\ byGrant[l] <= SumFunctionOnSet(UsedOf, C)
        /\ IsFiniteSet(C) /\ IsFiniteSet(D) /\ C \subseteq Grants /\ D \subseteq Grants
        /\ SumFunction([h \in D |-> grants'[h].used]) = SumFunctionOnSet(UsedOf', D)
    BY CoveringSum, GrantsAccountedBySums
  <2>2. C \ {g} = D \ {g}
    BY <1>1 DEF CoveringGrants, Covers
  <2>3. CASE grants'[g].line = grants[g].line
    <3>1. C = D
      BY <1>1, <2>3 DEF CoveringGrants, Covers
    <3> QED
      BY <1>1, <1>3, <2>1, <3>1
  <2>4. CASE grants[g].used = 0
    <3> HIDE DEF C, D
    <3>1. UsedOf[g] = 0
      BY <2>4 DEF UsedOf
    <3>2. SumFunctionOnSet(UsedOf, C) = SumFunctionOnSet(UsedOf, C \ {g})
      BY <1>4, <2>1, <3>1, SumLeaveOut
    <3>3. SumFunctionOnSet(UsedOf, D) = SumFunctionOnSet(UsedOf, D \ {g})
      BY <1>4, <2>1, <3>1, SumLeaveOut
    <3> QED
      BY <1>1, <1>3, <2>1, <2>2, <3>2, <3>3 DEF D
  <2> QED
    BY <1>1, <2>3, <2>4
<1>6. /\ \A h \in Grants : grants'[h].used <= grants'[h].max
      /\ SumFunctionOnSet(UsedOf', Grants) = SumFunction(byGrant')
  BY <1>1, <1>3, GrantsAccountedBySums
<1>7. GrantsAccounted'
  BY <1>5, <1>6 DEF GrantsAccounted, UsedOf, SumFunction, CoveringGrants
<1> QED
  BY <1>2, <1>7

\* An empty year has its accounts in order.
LEMMA InitAccounts == Init => AccountsInv
<1> SUFFICES ASSUME Init PROVE AccountsInv
  OBVIOUS
<1>1. LedgerInOrder /\ UnissuedCoverNothing /\ InForce = {}
  BY DEF Init, LedgerInOrder, UnissuedCoverNothing, InForce
<1>2. TransfersCreateNoMoney
  <2>1. \A l \in Lines : balance[l]["TRANSFER_OUT"] = 0 /\ balance[l]["TRANSFER_IN"] = 0
    BY DEF Init, NoMovement, Components
  <2> QED
    BY <2>1 DEF TransfersCreateNoMoney, SumOverLines
<1>3. BalanceIsDocumentsInForce
  <2> SUFFICES ASSUME NEW l \in Lines, NEW c \in Components
               PROVE  balance[l][c] = SumFunction([i \in InForce |-> ledger[i].delta[l][c]])
    BY DEF BalanceIsDocumentsInForce
  <2>1. balance[l][c] = 0
    BY DEF Init, NoMovement
  <2>2. SumFunctionOnSet([i \in InForce |-> ledger[i].delta[l][c]], {}) = 0
    BY SumEmpty
  <2> QED
    BY <1>1, <2>1, <2>2 DEF SumFunction
<1>4. GrantsAccounted
  <2>1. TypeOK
    BY InitInvariant DEF IInv
  <2>2. /\ \A g \in Grants : UsedOf[g] = 0 /\ grants[g].used <= grants[g].max
        /\ byGrant = [l \in Lines |-> 0]
    BY DEF Init, UsedOf
  <2>3. SumFunctionOnSet(UsedOf, Grants) = 0 /\ SumFunction(byGrant) = 0
    BY <2>2, SumZero, FiniteAssumption DEF SumFunction
  <2>4. \A l \in Lines : SumFunction([h \in CoveringGrants(l) |-> grants[h].used]) = 0
    <3>1. \A l \in Lines : SumFunctionOnSet(UsedOf, CoveringGrants(l)) = 0
      BY <2>2, CoveringSum, SumZero
    <3> QED
      BY <2>1, <3>1, CoveringSum
  <2> QED
    BY <2>2, <2>3, <2>4, GrantsAccountedBySums
<1> QED
  BY <1>1, <1>2, <1>3, <1>4 DEF AccountsInv

\* A step that leaves postings, balances and grants alone keeps the accounts.
LEMMA AccountsRest ==
  ASSUME AccountsInv, UNCHANGED <<ledger, balance, grants, byGrant>>
  PROVE  AccountsInv'
<1>1. LedgerInOrder' /\ UnissuedCoverNothing' /\ TransfersCreateNoMoney'
  BY DEF AccountsInv, LedgerInOrder, UnissuedCoverNothing, TransfersCreateNoMoney, SumOverLines
<1>2. BalanceIsDocumentsInForce'
  <2>1. InForce' = InForce
    BY DEF InForce, Reversed
  <2> QED
    BY <2>1 DEF AccountsInv, BalanceIsDocumentsInForce
<1>3. GrantsAccounted'
  BY DEF AccountsInv, GrantsAccounted, Covers
<1> QED
  BY <1>1, <1>2, <1>3 DEF AccountsInv

\* Every step keeps the accounts.
LEMMA StepAccounts ==
  ASSUME TypeOK, TypeOK', AccountsInv, [Next]_vars
  PROVE  AccountsInv'
<1>1. CASE PostOriginalBudget \/ PostDocument \/ PostHistory \/ PostReversal
  <2>1. PICK kind \in {"ORIGINAL_BUDGET", "DOCUMENT", "REVERSAL"}, delta \in Movements,
             reverses \in 0 .. Len(ledger), user \in Users, g \in Grants \cup {NoGrant},
             historical \in BOOLEAN :
           /\ Post(kind, delta, reverses, user, g, historical)
           /\ Paired(delta)
           /\ \/ kind # "REVERSAL" /\ reverses = 0
              \/ /\ kind = "REVERSAL" /\ reverses \in InForce
                 /\ delta = Opposite(ledger[reverses].delta)
    BY <1>1, PostedMovements DEF AccountsInv
  <2>2. LedgerInOrder'
    <3>1. /\ Len(ledger) \in Nat
          /\ Len(ledger') = Len(ledger) + 1
          /\ \A i \in 1 .. Len(ledger) : ledger'[i] = ledger[i]
          /\ ledger'[Len(ledger) + 1].delta = delta
          /\ ledger'[Len(ledger) + 1].reverses = reverses
      BY <2>1, PostAppends
    <3>2. ASSUME NEW i \in 1 .. Len(ledger')
          PROVE  Paired(ledger'[i].delta) /\ ledger'[i].reverses < i
      <4>1. CASE i = Len(ledger) + 1
        BY <2>1, <3>1, <4>1
      <4>2. CASE i \in 1 .. Len(ledger)
        BY <3>1, <4>2 DEF AccountsInv, LedgerInOrder
      <4> QED
        BY <3>1, <4>1, <4>2
    <3> QED
      BY <3>2 DEF LedgerInOrder, Paired
  <2>3. UnissuedCoverNothing'
    <3>1. CASE g = NoGrant
      BY <2>1, <3>1 DEF Post, ChargeGrant, AccountsInv, UnissuedCoverNothing
    <3>2. CASE g # NoGrant
      <4>1. grants[g].status = "VALID" /\ g \in Grants
        BY <2>1, <3>2 DEF Post, GrantUsable
      <4>2. \A h \in Grants : /\ grants'[h].status = grants[h].status
                              /\ h # g => grants'[h].used = grants[h].used
        BY <2>1, <3>2, <4>1 DEF Post, ChargeGrant, TypeOK, Grant
      <4> QED
        BY <4>1, <4>2 DEF AccountsInv, UnissuedCoverNothing
    <3> QED
      BY <3>1, <3>2
  <2>4. TransfersCreateNoMoney' /\ BalanceIsDocumentsInForce' /\ GrantsAccounted'
    BY <2>1, PostKeepsTransfers, PostKeepsBalance, PostKeepsGrants DEF AccountsInv
  <2> QED
    BY <2>2, <2>3, <2>4 DEF AccountsInv
<1>2. ASSUME NEW g \in Grants, CreateGrant(g) \/ EndGrant(g) PROVE AccountsInv'
  <2>1. UNCHANGED <<ledger, balance>>
    BY <1>2 DEF CreateGrant, EndGrant
  <2>2. UnissuedCoverNothing' /\ GrantsAccounted'
    BY <1>2, GrantStepsKeepAccounts DEF AccountsInv
  <2> QED
    BY <2>1, <2>2 DEF AccountsInv, LedgerInOrder, TransfersCreateNoMoney, SumOverLines,
                      BalanceIsDocumentsInForce, InForce, Reversed
<1>3. CASE UNCHANGED <<ledger, balance, grants, byGrant>>
  BY <1>3, AccountsRest
<1> QED
  BY <1>1, <1>2, <1>3 DEF Next, vars, excuses, OpenYear, UpdateYearSettings, ClosePeriod, ReopenPeriod

\* The accounts are in order in every reachable state.
LEMMA AccountsInvariant == Spec => []AccountsInv
<1>1. Init => AccountsInv
  BY InitAccounts
<1>2. TypeOK /\ TypeOK' /\ AccountsInv /\ [Next]_vars => AccountsInv'
  BY StepAccounts
<1>3. Spec => []TypeOK
  BY TypeCorrect
<1> QED
  BY <1>1, <1>2, <1>3, PTL DEF Spec

\* However lines, transfers and their reversals follow one another, over the
\* year what transfers took from lines is what they brought to lines (INV-03).
THEOREM NoMoneyCreated == Spec => []TransfersCreateNoMoney
<1>1. AccountsInv => TransfersCreateNoMoney
  BY DEF AccountsInv
<1> QED
  BY <1>1, AccountsInvariant, PTL

\* Each component of each balance is the sum of what the documents in force
\* moved on it: a reversed document and its reversal leave no trace.
THEOREM BalanceFollowsDocuments == Spec => []BalanceIsDocumentsInForce
<1>1. AccountsInv => BalanceIsDocumentsInForce
  BY DEF AccountsInv
<1> QED
  BY <1>1, AccountsInvariant, PTL

\* What grants are charged is what they covered, within their maxima and on the
\* lines they are tied to, for any set of grants and lines.
THEOREM GrantsAddUp == Spec => []GrantsAccounted
<1>1. AccountsInv => GrantsAccounted
  BY DEF AccountsInv
<1> QED
  BY <1>1, AccountsInvariant, PTL

=============================================================================
