------------------------- MODULE ProcurementProofs -------------------------
(***************************************************************************)
(* Proofs about requests, orders, payments, cancellations and reversals,   *)
(* for any lines, budget and bounds: what the entries say of a commitment  *)
(* is what became of it.                                                   *)
(***************************************************************************)
EXTENDS Procurement, PositionProofs

-----------------------------------------------------------------------------
(* A set of places in order.                                               *)

\* A finite set of numbers has a largest.
LEMMA Largest ==
  ASSUME NEW S, IsFiniteSet(S), S \subseteq Nat, S # {}
  PROVE  \E m \in S : \A x \in S : x <= m
<1> DEFINE G == {T \in SUBSET S : T # {} => \E m \in T : \A x \in T : x <= m}
<1>1. {} \in G
  OBVIOUS
<1>2. ASSUME NEW T \in SUBSET S, NEW x \in S, T \in G, x \notin T PROVE T \cup {x} \in G
  <2>1. CASE T = {}
    BY <2>1
  <2>2. CASE T # {}
    <3>1. PICK m \in T : \A y \in T : y <= m
      BY <1>2, <2>2
    <3>2. CASE x <= m
      BY <3>1, <3>2
    <3>3. CASE ~(x <= m)
      <4>1. \A y \in T \cup {x} : y <= x
        BY <3>1, <3>3
      <4> QED
        BY <4>1
    <3> QED
      BY <3>2, <3>3
  <2> QED
    BY <2>1, <2>2
<1> HIDE DEF G
<1>3. S \in G
  BY <1>1, <1>2, FiniteInduction
<1> QED
  BY <1>3 DEF G

Increasing(S, s) == s \in [1 .. Cardinality(S) -> S] /\ \A m, n \in 1 .. Cardinality(S) : m < n => s[m] < s[n]

\* It can be put in order.
LEMMA CanBeOrdered ==
  ASSUME NEW S, IsFiniteSet(S), S \subseteq Nat
  PROVE  \E s : Increasing(S, s)
<1> DEFINE F == {T \in SUBSET S : ~ \E s : Increasing(T, s)}
<1> SUFFICES ASSUME F # {} PROVE FALSE
  OBVIOUS
<1>1. \A T \in F : IsFiniteSet(T)
  BY FS_Subset
<1> HIDE DEF F
<1>2. PICK T \in F : \A R \in F : R \subseteq T => R = T
  BY <1>1, LeastFiniteSet
<1> T \in SUBSET S /\ IsFiniteSet(T)
  BY <1>1, <1>2 DEF F
<1>3. T # {}
  <2>1. Increasing({}, <<>>)
    BY FS_EmptySet DEF Increasing
  <2> QED
    BY <1>2, <2>1 DEF F
<1>4. PICK m \in T : \A x \in T : x <= m
  BY <1>1, <1>2, <1>3, Largest
<1>5. PICK s : Increasing(T \ {m}, s)
  <2>1. T \ {m} \notin F /\ T \ {m} \in SUBSET S
    BY <1>2, <1>4 DEF F
  <2> QED
    BY <2>1 DEF F
<1>6. Cardinality(T) \in Nat /\ Cardinality(T \ {m}) = Cardinality(T) - 1 /\ Cardinality(T) > 0
  <2>1. Cardinality(T) \in Nat
    BY FS_CardinalityType
  <2>2. Cardinality(T \ {m}) = Cardinality(T) - 1
    BY <1>4, FS_RemoveElement
  <2>3. Cardinality(T) # 0
    BY <1>3, FS_EmptySet
  <2> QED
    BY <2>1, <2>2, <2>3
<1> DEFINE c == Cardinality(T)
           t == [n \in 1 .. c |-> IF n = c THEN m ELSE s[n]]
<1>7. s \in [1 .. c - 1 -> T \ {m}] /\ \A i, j \in 1 .. c - 1 : i < j => s[i] < s[j]
  BY <1>5, <1>6 DEF Increasing
<1>8. \A n \in 1 .. c : t[n] \in T /\ (n # c => n \in 1 .. c - 1 /\ t[n] = s[n] /\ t[n] # m)
  BY <1>6, <1>7
<1>9. ASSUME NEW i \in 1 .. c, NEW j \in 1 .. c, i < j PROVE t[i] < t[j]
  <2>1. i # c /\ t[i] = s[i] /\ t[i] \in T /\ t[i] # m /\ i \in 1 .. c - 1
    BY <1>6, <1>8, <1>9
  <2> T \subseteq Nat
    BY <1>2 DEF F
  <2>2. CASE j = c
    <3>1. t[j] = m /\ t[i] <= m /\ t[i] \in Nat /\ m \in Nat
      BY <1>4, <2>1, <2>2
    <3> QED
      BY <2>1, <3>1
  <2>3. CASE j # c
    BY <1>7, <1>8, <1>9, <2>1, <2>3
  <2> QED
    BY <2>2, <2>3
<1>10. Increasing(T, t)
  BY <1>8, <1>9 DEF Increasing
<1> QED
  BY <1>2, <1>10 DEF F

\* InOrder goes through the set, upwards, and leaves none out.
LEMMA InOrderIs ==
  ASSUME NEW S, IsFiniteSet(S), S \subseteq Nat
  PROVE  /\ Cardinality(S) \in Nat
         /\ InOrder(S) \in [1 .. Cardinality(S) -> S]
         /\ Len(InOrder(S)) = Cardinality(S)
         /\ \A m, n \in 1 .. Cardinality(S) : m < n => InOrder(S)[m] < InOrder(S)[n]
         /\ \A x \in S : \E n \in 1 .. Cardinality(S) : InOrder(S)[n] = x
<1> DEFINE c == Cardinality(S)
           s == InOrder(S)
<1>1. c \in Nat
  BY FS_CardinalityType
<1>2. PICK r : Increasing(S, r)
  BY CanBeOrdered
<1>3. r \in [1 .. c -> S] /\ \A m, n \in 1 .. Len(r) : m < n => r[m] < r[n]
  BY <1>1, <1>2 DEF Increasing
<1>4. s \in [1 .. c -> S] /\ \A m, n \in 1 .. Len(s) : m < n => s[m] < s[n]
  BY <1>3 DEF InOrder, IsSorted
<1>5. Len(s) = c
  BY <1>1, <1>4
<1>6. \A m, n \in 1 .. c : m < n => s[m] < s[n]
  BY <1>4, <1>5
<1>7. \A m, n \in 1 .. c : s[m] = s[n] => m = n
  <2> SUFFICES ASSUME NEW m \in 1 .. c, NEW n \in 1 .. c, m < n PROVE s[m] # s[n]
    BY <1>1
  <2>1. s[m] \in Nat /\ s[n] \in Nat /\ s[m] < s[n]
    BY <1>4, <1>6
  <2> QED
    BY <2>1
<1>8. s \in Injection(1 .. c, S)
  BY <1>4, <1>7 DEF Injection, IsInjective
<1>9. Cardinality(1 .. c) = c
  BY <1>1, FS_Interval
<1>10. s \in Surjection(1 .. c, S)
  BY <1>8, <1>9, FS_Injection
<1> QED
  BY <1>1, <1>4, <1>5, <1>6, <1>10 DEF Surjection

-----------------------------------------------------------------------------
(* What entries come to.                                                   *)

AmountsOf(L) == [i \in DOMAIN L |-> L[i].amount]

LEMMA EntriesAre ==
  ASSUME NEW L \in Seq(Entry)
  PROVE  /\ Len(L) \in Nat /\ DOMAIN L = 1 .. Len(L) /\ IsFiniteSet(DOMAIN L)
         /\ \A i \in DOMAIN L : L[i] \in Entry /\ L[i].amount \in Int /\ AmountsOf(L)[i] = L[i].amount
<1>1. Len(L) \in Nat /\ DOMAIN L = 1 .. Len(L) /\ \A i \in DOMAIN L : L[i] \in Entry
  OBVIOUS
<1>2. \A e \in Entry : e.amount \in Int
  BY DEF Entry
<1> QED
  BY <1>1, <1>2, FS_Interval DEF AmountsOf

\* The total is a number.
LEMMA TotalType ==
  ASSUME NEW L \in Seq(Entry), NEW S, S \subseteq DOMAIN L
  PROVE  /\ IsFiniteSet(S)
         /\ Total(L, S) = SumFunctionOnSet(AmountsOf(L), S)
         /\ Total(L, S) \in Int
<1>1. IsFiniteSet(S) /\ \A i \in S : AmountsOf(L)[i] \in Int
  BY EntriesAre, FS_Subset
<1>2. Total(L, S) = SumFunctionOnSet(AmountsOf(L), S)
  BY DEF Total, AmountsOf
<1> QED
  BY <1>1, <1>2, SumType

LEMMA TotalEmpty ==
  ASSUME NEW L
  PROVE  Total(L, {}) = 0
BY SumEmpty DEF Total

LEMMA TotalSplit ==
  ASSUME NEW L \in Seq(Entry), NEW S, NEW T, S \subseteq DOMAIN L, T \subseteq DOMAIN L, S \cap T = {}
  PROVE  Total(L, S \cup T) = Total(L, S) + Total(L, T)
<1>1. \A i \in S \cup T : AmountsOf(L)[i] \in Int
  BY EntriesAre
<1>2. IsFiniteSet(S) /\ IsFiniteSet(T) /\ S \cup T \subseteq DOMAIN L
  BY TotalType
<1>3. SumFunctionOnSet(AmountsOf(L), S \cup T) = SumFunctionOnSet(AmountsOf(L), S) + SumFunctionOnSet(AmountsOf(L), T)
  BY <1>1, <1>2, SumUnion
<1>4. Total(L, S \cup T) = SumFunctionOnSet(AmountsOf(L), S \cup T)
  BY <1>2, TotalType
<1> QED
  BY <1>3, <1>4, TotalType

LEMMA TotalOfOne ==
  ASSUME NEW L \in Seq(Entry), NEW i \in DOMAIN L
  PROVE  Total(L, {i}) = L[i].amount
<1>1. IsFiniteSet({i}) /\ AmountsOf(L)[i] = L[i].amount /\ L[i].amount \in Int
  BY EntriesAre, FS_Singleton
<1>2. SumFunctionOnSet(AmountsOf(L), {i}) = AmountsOf(L)[i]
  BY <1>1, SumOneTerm
<1> QED
  BY <1>1, <1>2, TotalType

\* What only takes away comes to nothing or less.
LEMMA TotalTaken ==
  ASSUME NEW L \in Seq(Entry), NEW S, S \subseteq DOMAIN L, \A i \in S : L[i].amount <= 0
  PROVE  Total(L, S) <= 0
<1> DEFINE taken == [i \in DOMAIN L |-> -L[i].amount]
           none == [i \in DOMAIN L |-> 0]
<1>1. IsFiniteSet(S) /\ \A i \in S : AmountsOf(L)[i] \in Int /\ taken[i] \in Nat /\ none[i] = AmountsOf(L)[i] + taken[i]
                                     /\ none[i] = 0
  BY EntriesAre, FS_Subset
<1> HIDE DEF taken, none
<1>2. SumFunctionOnSet(taken, S) \in Nat
  BY <1>1, SumNonNegative
<1>3. SumFunctionOnSet(none, S) = 0
  BY <1>1, SumZero
<1>4. SumFunctionOnSet(none, S) = SumFunctionOnSet(AmountsOf(L), S) + SumFunctionOnSet(taken, S)
  <2>1. \A i \in S : AmountsOf(L)[i] \in Int /\ taken[i] \in Int /\ none[i] = AmountsOf(L)[i] + taken[i]
    BY <1>1
  <2> QED
    BY <1>1, <2>1, SumAdd
<1> QED
  BY <1>2, <1>3, <1>4, TotalType

\* Entries that others are appended to come to the same.
LEMMA TotalOfOld ==
  ASSUME NEW L \in Seq(Entry), NEW es \in Seq(Entry), NEW S, S \subseteq DOMAIN L
  PROVE  Total(L \o es, S) = Total(L, S)
<1>1. L \o es \in Seq(Entry) /\ \A i \in S : (L \o es)[i] = L[i] /\ i \in DOMAIN (L \o es)
  BY EntriesAre
<1>2. S \subseteq DOMAIN (L \o es) /\ IsFiniteSet(S)
  BY <1>1, TotalType
<1>3. \A i \in S : AmountsOf(L \o es)[i] \in Int /\ AmountsOf(L \o es)[i] = AmountsOf(L)[i]
  BY <1>1, <1>2, EntriesAre
<1>4. SumFunctionOnSet(AmountsOf(L \o es), S) = SumFunctionOnSet(AmountsOf(L), S)
  BY <1>2, <1>3, SumEqual
<1> QED
  BY <1>1, <1>2, <1>4, TotalType

\* The places of the entries that are appended to n others.
Shifted(n, T) == {n + k : k \in T}

\* And with them to so much more.
LEMMA TotalAppended ==
  ASSUME NEW L \in Seq(Entry), NEW es \in Seq(Entry),
         NEW S, S \subseteq DOMAIN L, NEW T, T \subseteq DOMAIN es
  PROVE  Total(L \o es, S \cup Shifted(Len(L), T)) = Total(L, S) + Total(es, T)
<1> DEFINE M == L \o es
           h == [n \in DOMAIN es |-> Len(L) + n]
           U == Shifted(Len(L), T)
<1>1. /\ M \in Seq(Entry)
      /\ DOMAIN M = 1 .. Len(L) + Len(es)
      /\ \A n \in DOMAIN es : Len(L) + n \in DOMAIN M /\ M[Len(L) + n] = es[n]
  BY EntriesAre
<1>2. U \subseteq DOMAIN M /\ S \subseteq DOMAIN M /\ S \cap U = {}
  BY <1>1, EntriesAre DEF Shifted
<1>3. Total(M, S \cup U) = Total(M, S) + Total(M, U)
  BY <1>1, <1>2, TotalSplit
<1>4. Total(M, S) = Total(L, S)
  BY TotalOfOld
<1>5. Total(es, T) = Total(M, U)
  <2>1. U = {h[n] : n \in T}
    BY DEF Shifted
  <2>2. \A m, n \in T : h[m] = h[n] => m = n
    BY EntriesAre
  <2>3. \A n \in T : AmountsOf(M)[h[n]] \in Int /\ AmountsOf(es)[n] = AmountsOf(M)[h[n]]
    <3> SUFFICES ASSUME NEW n \in T
                 PROVE  AmountsOf(M)[h[n]] \in Int /\ AmountsOf(es)[n] = AmountsOf(M)[h[n]]
      OBVIOUS
    <3> HIDE DEF M
    <3>1. h[n] \in DOMAIN M /\ M[h[n]] = es[n]
      BY <1>1
    <3>2. AmountsOf(M)[h[n]] = M[h[n]].amount /\ M[h[n]].amount \in Int
      BY <1>1, <3>1, EntriesAre
    <3>3. AmountsOf(es)[n] = es[n].amount
      BY EntriesAre
    <3> QED
      BY <3>1, <3>2, <3>3
  <2> HIDE DEF h, M, U
  <2>4. SumFunctionOnSet(AmountsOf(es), T) = SumFunctionOnSet(AmountsOf(M), U)
    <3>1. IsFiniteSet(T)
      BY TotalType
    <3> QED
      BY <2>1, <2>2, <2>3, <3>1, SumRename, SMTT(60)
  <2> QED
    BY <1>1, <1>2, <2>4, TotalType
<1> QED
  BY <1>3, <1>4, <1>5

-----------------------------------------------------------------------------
(* The inductive invariant.                                                *)

InBooks == {"POSTED", "REVERSED"}

\* What a commitment is entered with; all that comes after takes from it.
BaseTypes == {"PRE_COMMITMENT", "COMMITMENT", "CARRY_FORWARD"}

\* A document is of an earlier one in the books, on its line.
IsOf(D, d, kinds) ==
  /\ D[d].of \in 1 .. d - 1
  /\ D[D[d].of].kind \in kinds
  /\ D[D[d].of].line = D[d].line
  /\ D[D[d].of].status \in InBooks

DocRefers(D, d) ==
  /\ D[d].kind = "REQUEST" => D[d].of = None
  /\ D[d].kind = "ORDER" => D[d].of = None \/ IsOf(D, d, {"REQUEST"})
  /\ D[d].kind = "EXPENDITURE" => D[d].of = None \/ IsOf(D, d, {"ORDER"})
  /\ D[d].kind = "CANCELLATION" => IsOf(D, d, Commitments)
  /\ D[d].kind = "REVERSAL" => IsOf(D, d, Kinds \ {"REVERSAL"}) /\ D[d].status # "REVERSED"

DocsRefer(D) == \A d \in Ids(D) : DocRefers(D, d)

\* A commitment in the books, on the line of the entry.
OnBooks(D, e) ==
  /\ e.commitment \in Ids(D)
  /\ D[e.commitment].kind \in Commitments
  /\ D[e.commitment].line = e.line
  /\ D[e.commitment].status \in InBooks

\* An entry that reverses no other.
EntryStands(D, e) ==
  /\ e.commitment # None => OnBooks(D, e)
  /\ e.component # "ACTUAL" => e.commitment # None /\ e.component = ComponentOf(D, e.commitment)
  /\ e.type = "ACTUAL_EXPENDITURE" <=> e.component = "ACTUAL"
  /\ e.type = "RESERVATION_RELEASE" => e.component = "RESERVATION"
  /\ e.type \in BaseTypes => /\ e.doc = e.commitment
                             /\ e.amount = D[e.doc].amount
                             /\ D[e.doc].kind = "REQUEST" <=> e.type = "PRE_COMMITMENT"
  /\ e.type \notin BaseTypes \cup {"ACTUAL_EXPENDITURE"} => e.amount < 0
  /\ e.doc = None <=> e.type = "CLOSING"
  /\ e.doc # None => /\ e.doc \in Ids(D)
                     /\ D[e.doc].status \in InBooks
                     /\ D[e.doc].line = e.line

\* An entry that reverses another, earlier one, of a document.
EntryReverses(L, i) ==
  LET e == L[i]
      r == L[e.reverses]
  IN /\ e.reverses \in 1 .. i - 1
     /\ r.type # "REVERSAL" /\ r.doc # None
     /\ e.line = r.line /\ e.component = r.component /\ e.commitment = r.commitment
     /\ e.amount = -r.amount

EntryOK(D, L, i) ==
  /\ L[i].type = "REVERSAL" <=> L[i].reverses # None
  /\ IF L[i].type = "REVERSAL" THEN EntryReverses(L, i) ELSE EntryStands(D, L[i])

EntriesOK(D, L) == \A i \in DOMAIN L : EntryOK(D, L, i)

\* No entry is reversed twice.
ReversedOnce(L) ==
  \A i, j \in DOMAIN L : i # j /\ L[i].reverses # None => L[i].reverses # L[j].reverses

IsReversed(L, i) == \E j \in DOMAIN L : L[j].reverses = i

\* The entries of a document are reversed with it, all of them.
ReversedTogether(D, L) ==
  \A i \in DOMAIN L :
    L[i].type # "REVERSAL" /\ L[i].doc # None =>
      (IsReversed(L, i) <=> D[L[i].doc].status = "REVERSED")

IsBase(L, c, i) == L[i].type \in BaseTypes /\ L[i].commitment = c

\* A commitment in the books was entered once.
EnteredOnce(D, L) ==
  /\ \A c \in Ids(D) : D[c].kind \in Commitments /\ D[c].status \in InBooks =>
       \E i \in DOMAIN L : IsBase(L, c, i)
  /\ \A i, j \in DOMAIN L : \A c \in Ids(D) : IsBase(L, c, i) /\ IsBase(L, c, j) => i = j

\* An order that converts a request released it, so that reversing the order
\* concerns the request.
ReleasesRequest(D, L) ==
  \A k \in Ids(D) :
    D[k].kind = "ORDER" /\ D[k].of # None /\ D[k].status \in InBooks =>
      \E i \in DOMAIN L : L[i].doc = k /\ L[i].type # "REVERSAL" /\ L[i].commitment = D[k].of

OnLine(L, l, c) == {i \in DOMAIN L : L[i].line = l /\ L[i].component = c}

\* The balance is the sum of the entries.
BalanceIsLedger ==
  \A l \in Lines, c \in {"RESERVATION", "COMMITMENT"} :
    balance[l][c] = Total(ledger, OnLine(ledger, l, c))

\* The part that year end has, too.
LedgerInv ==
  /\ TypeOK
  /\ DocsRefer(docs)
  /\ EntriesOK(docs, ledger)
  /\ ReversedOnce(ledger)
  /\ ReversedTogether(docs, ledger)
  /\ EnteredOnce(docs, ledger)
  /\ BalanceIsLedger
  /\ NothingBelowZero
  /\ ConvertedOnce

ProcInv ==
  /\ LedgerInv
  /\ ReleasesRequest(docs, ledger)
  /\ StateFollowsLedger


-----------------------------------------------------------------------------
(* What the invariant says of the entries of a commitment.                 *)

\* Where an entry belongs.
Belongs(D, e) ==
  /\ e.commitment # None => OnBooks(D, e)
  /\ e.component # "ACTUAL" => e.commitment # None /\ e.component = ComponentOf(D, e.commitment)

\* An entry that reverses another belongs where that one does.
LEMMA EntriesBelong ==
  ASSUME NEW D, NEW L \in Seq(Entry), EntriesOK(D, L), NEW i \in DOMAIN L
  PROVE  Belongs(D, L[i])
<1>1. CASE L[i].type # "REVERSAL"
  BY <1>1 DEF EntriesOK, EntryOK, EntryStands, Belongs
<1>2. CASE L[i].type = "REVERSAL"
  <2> DEFINE j == L[i].reverses
  <2>1. /\ j \in DOMAIN L /\ L[j].type # "REVERSAL"
        /\ L[i].line = L[j].line /\ L[i].component = L[j].component /\ L[i].commitment = L[j].commitment
    BY <1>2, EntriesAre DEF EntriesOK, EntryOK, EntryReverses
  <2>2. Belongs(D, L[j])
    BY <2>1 DEF EntriesOK, EntryOK, EntryStands, Belongs
  <2> QED
    BY <2>1, <2>2 DEF Belongs, OnBooks
<1> QED
  BY <1>1, <1>2

\* What neither reverses another entry nor is reversed.
InForce(L, S) == {i \in S : L[i].type # "REVERSAL" /\ ~IsReversed(L, i)}

\* Entries and what reverses them come to nothing: a set with both comes to what is
\* in force.
LEMMA TotalInForce ==
  ASSUME NEW D, NEW L \in Seq(Entry), EntriesOK(D, L), ReversedOnce(L),
         NEW S, S \subseteq DOMAIN L,
         \A i \in DOMAIN L : L[i].type = "REVERSAL" => (i \in S <=> L[i].reverses \in S)
  PROVE  Total(L, S) = Total(L, InForce(L, S))
<1> DEFINE R == {i \in S : L[i].type = "REVERSAL"}
           V == {i \in S : IsReversed(L, i)}
           F == InForce(L, S)
           h == [i \in DOMAIN L |-> L[i].reverses]
           opposite == [i \in DOMAIN L |-> -L[i].amount]
           none == [i \in DOMAIN L |-> 0]
<1>1. \A i \in DOMAIN L : L[i].reverses # None <=> L[i].type = "REVERSAL"
  BY DEF EntriesOK, EntryOK
<1>2. \A i \in DOMAIN L : L[i].type = "REVERSAL" =>
        /\ h[i] \in DOMAIN L /\ L[h[i]].type # "REVERSAL" /\ AmountsOf(L)[i] = opposite[h[i]]
  <2> SUFFICES ASSUME NEW i \in DOMAIN L, L[i].type = "REVERSAL"
               PROVE  h[i] \in DOMAIN L /\ L[h[i]].type # "REVERSAL" /\ AmountsOf(L)[i] = opposite[h[i]]
    OBVIOUS
  <2>1. h[i] \in 1 .. i - 1 /\ L[h[i]].type # "REVERSAL" /\ L[i].amount = -L[h[i]].amount
    BY DEF EntriesOK, EntryOK, EntryReverses
  <2> QED
    BY <2>1, EntriesAre
<1>3. /\ R \subseteq DOMAIN L /\ V \subseteq DOMAIN L /\ F \subseteq DOMAIN L
      /\ R \cap V = {} /\ (R \cup V) \cap F = {} /\ S = (R \cup V) \cup F
  <2>1. \A i \in V : L[i].type # "REVERSAL"
    <3> SUFFICES ASSUME NEW i \in V PROVE L[i].type # "REVERSAL"
      OBVIOUS
    <3>1. PICK j \in DOMAIN L : L[j].reverses = i
      BY DEF IsReversed
    <3>2. i # None
      BY EntriesAre DEF None
    <3> QED
      BY <1>1, <1>2, <3>1, <3>2
  <2> QED
    BY <2>1 DEF InForce
<1>4. {h[i] : i \in R} = V
  <2>1. ASSUME NEW i \in R PROVE h[i] \in V
    BY <1>2 DEF IsReversed
  <2>2. ASSUME NEW v \in V PROVE \E i \in R : h[i] = v
    <3>1. PICK j \in DOMAIN L : L[j].reverses = v
      BY DEF IsReversed
    <3>2. v # None
      BY EntriesAre DEF None
    <3> QED
      BY <1>1, <3>1, <3>2
  <2> QED
    BY <2>1, <2>2
<1>5. \A i, j \in R : h[i] = h[j] => i = j
  BY <1>1 DEF ReversedOnce
<1>6. \A i \in DOMAIN L : /\ AmountsOf(L)[i] \in Int /\ opposite[i] \in Int
                          /\ none[i] = AmountsOf(L)[i] + opposite[i] /\ none[i] = 0
  BY EntriesAre
<1>7. IsFiniteSet(R) /\ IsFiniteSet(V)
  BY <1>3, TotalType
<1> HIDE DEF R, V, F, h, opposite, none
<1>8. SumFunctionOnSet(AmountsOf(L), R) = SumFunctionOnSet(opposite, V)
  <2>1. \A i \in R : opposite[h[i]] \in Int /\ AmountsOf(L)[i] = opposite[h[i]]
    BY <1>2, <1>6 DEF R
  <2>2. SumFunctionOnSet(AmountsOf(L), R) = SumFunctionOnSet(opposite, {h[i] : i \in R})
    BY <1>5, <1>7, <2>1, SumRename
  <2> QED
    BY <1>4, <2>2
<1>9. SumFunctionOnSet(none, V) = SumFunctionOnSet(AmountsOf(L), V) + SumFunctionOnSet(opposite, V)
  <2>1. \A i \in V : AmountsOf(L)[i] \in Int /\ opposite[i] \in Int /\ none[i] = AmountsOf(L)[i] + opposite[i]
    BY <1>3, <1>6
  <2> QED
    BY <1>7, <2>1, SumAdd
<1>10. SumFunctionOnSet(none, V) = 0
  BY <1>3, <1>6, <1>7, SumZero
<1>11. Total(L, R \cup V) = 0
  <2>1. Total(L, R \cup V) = Total(L, R) + Total(L, V)
    BY <1>3, TotalSplit
  <2>2. /\ Total(L, R) = SumFunctionOnSet(opposite, V) /\ Total(L, V) = SumFunctionOnSet(AmountsOf(L), V)
        /\ Total(L, R) \in Int /\ Total(L, V) \in Int
    BY <1>3, <1>8, TotalType
  <2> QED
    BY <1>9, <1>10, <2>1, <2>2
<1>12. Total(L, S) = Total(L, R \cup V) + Total(L, F)
  <2>1. Total(L, (R \cup V) \cup F) = Total(L, R \cup V) + Total(L, F)
    BY <1>3, TotalSplit
  <2> QED
    BY <1>3, <2>1
<1>13. Total(L, F) \in Int
  BY <1>3, TotalType
<1> QED
  BY <1>11, <1>12, <1>13 DEF F


\* What a commitment has at all are entries on it, of which those in force come to
\* the same.
LEMMA OutstandingInForce ==
  ASSUME NEW D, NEW L \in Seq(Entry), EntriesOK(D, L), ReversedOnce(L), NEW c
  PROVE  /\ OnCommitment(D, L, c) \subseteq DOMAIN L
         /\ Outstanding(D, L, c) \in Int
         /\ Outstanding(D, L, c) = Total(L, InForce(L, OnCommitment(D, L, c)))
<1> DEFINE S == OnCommitment(D, L, c)
<1>1. S \subseteq DOMAIN L
  BY DEF OnCommitment
<1>2. ASSUME NEW i \in DOMAIN L, L[i].type = "REVERSAL"
      PROVE  i \in S <=> L[i].reverses \in S
  <2>1. L[i].reverses \in 1 .. i - 1 /\ L[i].commitment = L[L[i].reverses].commitment
        /\ L[i].component = L[L[i].reverses].component
    BY <1>2 DEF EntriesOK, EntryOK, EntryReverses
  <2>2. L[i].reverses \in DOMAIN L
    BY <2>1, EntriesAre
  <2> QED
    BY <2>1, <2>2 DEF OnCommitment
<1> HIDE DEF S
<1>3. Total(L, S) = Total(L, InForce(L, S))
  BY <1>1, <1>2, TotalInForce
<1> QED
  BY <1>1, <1>3, TotalType DEF Outstanding, S

\* Beyond what it was entered with, what is in force on a commitment takes from it.
LEMMA TakesUnlessBase ==
  ASSUME NEW D, NEW L \in Seq(Entry), EntriesOK(D, L), NEW c,
         NEW i \in InForce(L, OnCommitment(D, L, c))
  PROVE  IsBase(L, c, i) \/ L[i].amount < 0
<1>1. i \in DOMAIN L /\ L[i].type # "REVERSAL" /\ L[i].component # "ACTUAL" /\ L[i].commitment = c
  BY DEF InForce, OnCommitment, ComponentOf
<1>2. EntryStands(D, L[i])
  BY <1>1 DEF EntriesOK, EntryOK
<1> QED
  BY <1>1, <1>2 DEF EntryStands, IsBase

\* A commitment that was reversed has been taken from alone.
LEMMA ReversedHoldsNoMore ==
  ASSUME NEW D, NEW L \in Seq(Entry), EntriesOK(D, L), ReversedOnce(L), ReversedTogether(D, L),
         NEW c \in Ids(D), D[c].status = "REVERSED"
  PROVE  Outstanding(D, L, c) <= 0
<1> DEFINE F == InForce(L, OnCommitment(D, L, c))
<1>1. F \subseteq DOMAIN L
  BY DEF InForce, OnCommitment
<1>2. ASSUME NEW i \in F PROVE L[i].amount <= 0
  <2>1. i \in DOMAIN L /\ L[i].type # "REVERSAL" /\ ~IsReversed(L, i)
    BY DEF InForce, OnCommitment
  <2>2. ~IsBase(L, c, i)
    <3> SUFFICES ASSUME IsBase(L, c, i) PROVE FALSE
      OBVIOUS
    <3>1. L[i].doc = c /\ c # None
      BY <2>1 DEF EntriesOK, EntryOK, EntryStands, IsBase, Ids, None
    <3> QED
      BY <2>1, <3>1 DEF ReversedTogether
  <2>3. L[i].amount < 0 /\ L[i].amount \in Int
    BY <2>1, <2>2, TakesUnlessBase, EntriesAre
  <2> QED
    BY <2>3
<1> HIDE DEF F
<1>3. Total(L, F) <= 0
  BY <1>1, <1>2, TotalTaken
<1> QED
  BY <1>3, OutstandingInForce DEF F

\* Nor has one that is not in the books anything.
LEMMA UnbookedHoldsNothing ==
  ASSUME NEW D, NEW L \in Seq(Entry), EntriesOK(D, L), NEW c \in Ids(D), D[c].status \notin InBooks
  PROVE  OnCommitment(D, L, c) = {} /\ Outstanding(D, L, c) = 0
<1>1. c # None
  BY DEF Ids, None
<1>2. \A i \in DOMAIN L : L[i].commitment # c
  BY <1>1, EntriesBelong DEF Belongs, OnBooks
<1>3. OnCommitment(D, L, c) = {}
  BY <1>2 DEF OnCommitment
<1> QED
  BY <1>3, TotalEmpty DEF Outstanding

\* A line holds what its commitments in force hold.
LEMMA LineHolds ==
  ASSUME LedgerInv
  PROVE  LineHoldsOutstanding
<1> SUFFICES ASSUME NEW l \in Lines, NEW c \in {"RESERVATION", "COMMITMENT"}
             PROVE  balance[l][c] = SumFunctionOnSet([d \in Ids(docs) |-> Outstanding(docs, ledger, d)],
                      {d \in PostedCommitments : docs[d].line = l /\ ComponentOf(docs, d) = c})
  BY DEF LineHoldsOutstanding
<1> DEFINE S == OnLine(ledger, l, c)
           held == [d \in Ids(docs) |-> Outstanding(docs, ledger, d)]
           Theirs == {d \in Ids(docs) : docs[d].kind \in Commitments /\ docs[d].line = l /\ ComponentOf(docs, d) = c}
           Posted == {d \in PostedCommitments : docs[d].line = l /\ ComponentOf(docs, d) = c}
           h == [i \in DOMAIN ledger |-> ledger[i].commitment]
           on == [d \in Ids(docs) |-> OnCommitment(docs, ledger, d)]
<1>1. /\ docs \in Seq(Doc) /\ ledger \in Seq(Entry)
      /\ EntriesOK(docs, ledger) /\ ReversedOnce(ledger) /\ ReversedTogether(docs, ledger)
      /\ NothingBelowZero
  BY DEF LedgerInv, TypeOK
<1>2. IsFiniteSet(Ids(docs)) /\ \A d \in Ids(docs) : docs[d] \in Doc
  BY <1>1, FS_Interval DEF Ids
<1>3. IsFiniteSet(Theirs) /\ Posted \in SUBSET Theirs
  BY <1>2, FS_Subset DEF PostedCommitments
<1>4. S \subseteq DOMAIN ledger /\ IsFiniteSet(S) /\ \A i \in S : AmountsOf(ledger)[i] \in Int
  <2>1. S \subseteq DOMAIN ledger
    BY DEF OnLine
  <2> QED
    BY <1>1, <2>1, TotalType, EntriesAre
<1>5. \A i \in S : h[i] \in Theirs
  <2> SUFFICES ASSUME NEW i \in S PROVE h[i] \in Theirs
    OBVIOUS
  <2>1. i \in DOMAIN ledger /\ ledger[i].line = l /\ ledger[i].component = c
    BY DEF OnLine
  <2>2. Belongs(docs, ledger[i])
    BY <1>1, <2>1, EntriesBelong
  <2> QED
    BY <2>1, <2>2 DEF Belongs, OnBooks
<1>6. \A d \in Theirs : /\ \A i : i \in on[d] <=> i \in S /\ h[i] = d
                        /\ held[d] = SumFunctionOnSet(AmountsOf(ledger), on[d])
  <2> SUFFICES ASSUME NEW d \in Theirs
               PROVE  /\ \A i : i \in on[d] <=> i \in S /\ h[i] = d
                      /\ held[d] = SumFunctionOnSet(AmountsOf(ledger), on[d])
    OBVIOUS
  <2>1. d # None
    BY DEF Ids, None
  <2>2. ASSUME NEW i \in OnCommitment(docs, ledger, d) PROVE i \in S
    <3>1. i \in DOMAIN ledger /\ ledger[i].commitment = d /\ ledger[i].component = c
      BY DEF OnCommitment
    <3>2. ledger[i].line = l
      BY <1>1, <2>1, <3>1, EntriesBelong DEF Belongs, OnBooks
    <3> QED
      BY <3>1, <3>2 DEF OnLine
  <2>3. \A i : i \in OnCommitment(docs, ledger, d) <=> i \in S /\ h[i] = d
    BY <2>2 DEF OnLine, OnCommitment
  <2>4. OnCommitment(docs, ledger, d) \subseteq DOMAIN ledger
    BY DEF OnCommitment
  <2>5. Outstanding(docs, ledger, d) = SumFunctionOnSet(AmountsOf(ledger), OnCommitment(docs, ledger, d))
    BY <1>1, <2>4, TotalType DEF Outstanding
  <2> QED
    BY <2>3, <2>5
<1>7. \A d \in Theirs : held[d] \in Int /\ (d \notin Posted => held[d] = 0)
  <2> SUFFICES ASSUME NEW d \in Theirs PROVE held[d] \in Int /\ (d \notin Posted => held[d] = 0)
    OBVIOUS
  <2>1. held[d] = Outstanding(docs, ledger, d) /\ Outstanding(docs, ledger, d) \in Int
    BY <1>1, OutstandingInForce
  <2>2. CASE docs[d].status = "POSTED"
    BY <2>1, <2>2 DEF PostedCommitments
  <2>3. CASE docs[d].status = "REVERSED"
    BY <1>1, <2>1, <2>3, ReversedHoldsNoMore DEF NothingBelowZero
  <2>4. CASE docs[d].status \notin InBooks
    BY <1>1, <2>1, <2>4, UnbookedHoldsNothing
  <2> QED
    BY <2>2, <2>3, <2>4 DEF InBooks
<1> HIDE DEF S, held, Theirs, Posted, h, on
<1>8. SumFunctionOnSet(AmountsOf(ledger), S) = SumFunctionOnSet(held, Theirs)
  BY <1>3, <1>4, <1>5, <1>6, SumByGroup
<1>9. SumFunctionOnSet(held, Theirs) = SumFunctionOnSet(held, Posted)
  BY <1>3, <1>7, SumLeaveOut
<1>10. balance[l][c] = SumFunctionOnSet(AmountsOf(ledger), S)
  BY <1>1, <1>4, TotalType DEF LedgerInv, BalanceIsLedger, S
<1> QED
  BY <1>8, <1>9, <1>10 DEF held, Posted


\* An order in force was entered once, and that entry is not reversed.
LEMMA OrderEntry ==
  ASSUME NEW D, NEW L \in Seq(Entry), EntriesOK(D, L), EnteredOnce(D, L), ReversedTogether(D, L),
         NEW d \in Ids(D), D[d].kind = "ORDER", D[d].status = "POSTED"
  PROVE  \E b \in OnCommitment(D, L, d) :
           /\ L[b].type \in BaseTypes /\ L[b].amount = D[d].amount
           /\ ~IsReversed(L, b)
           /\ \A i \in DOMAIN L : IsBase(L, d, i) => i = b
<1>1. PICK b \in DOMAIN L : IsBase(L, d, b)
  BY DEF EnteredOnce, Commitments, InBooks
<1>2. L[b].type \in BaseTypes /\ L[b].commitment = d /\ d # None /\ L[b].type # "REVERSAL"
  BY <1>1 DEF IsBase, BaseTypes, Ids, None
<1>3. EntryStands(D, L[b])
  BY <1>2 DEF EntriesOK, EntryOK
<1>4. L[b].doc = d /\ L[b].amount = D[d].amount /\ L[b].component = ComponentOf(D, d)
  BY <1>2, <1>3 DEF EntryStands, BaseTypes
<1>5. b \in OnCommitment(D, L, d)
  BY <1>2, <1>4 DEF OnCommitment
<1>6. ~IsReversed(L, b)
  BY <1>2, <1>4 DEF ReversedTogether
<1>7. \A i \in DOMAIN L : IsBase(L, d, i) => i = b
  BY <1>1 DEF EnteredOnce
<1> QED
  BY <1>2, <1>4, <1>5, <1>6, <1>7

\* What is on an order and was not paid or taken back is its own entry.
LEMMA OrderSplits ==
  ASSUME NEW D, NEW L \in Seq(Entry), EntriesOK(D, L), EnteredOnce(D, L), ReversedTogether(D, L),
         NEW d \in Ids(D), D[d].kind = "ORDER", D[d].status = "POSTED"
  PROVE  D[d].amount = Outstanding(D, L, d) + Paid(D, L, d) + Cancelled(D, L, d)
<1> DEFINE O == OnCommitment(D, L, d)
           Liquid == OfTypes(L, {"COMMITMENT_LIQUIDATION"})
           Back == OfTypes(L, {"CANCELLATION", "CLOSING"})
           P == O \cap (Liquid \cup Reversing(L, Liquid))
           C == O \cap (Back \cup Reversing(L, Back))
<1>1. PICK b \in O : /\ L[b].type \in BaseTypes /\ L[b].amount = D[d].amount
                     /\ ~IsReversed(L, b)
                     /\ \A i \in DOMAIN L : IsBase(L, d, i) => i = b
  BY OrderEntry
<1>2. O \subseteq DOMAIN L
  BY DEF OnCommitment
<1>3. ASSUME NEW i \in O, L[i].type # "REVERSAL"
      PROVE  /\ L[i].type \in BaseTypes <=> i = b
             /\ L[i].type \in BaseTypes \/ i \in Liquid \/ i \in Back
             /\ L[i].reverses = None
  <2>1. i \in DOMAIN L /\ L[i].commitment = d /\ L[i].component = "COMMITMENT" /\ L[i] \in Entry
    BY EntriesAre DEF OnCommitment, ComponentOf
  <2>2. L[i].type \notin {"ACTUAL_EXPENDITURE", "RESERVATION_RELEASE"} /\ L[i].reverses = None
    BY <1>3, <2>1 DEF EntriesOK, EntryOK, EntryStands
  <2>3. L[i].type \in BaseTypes \cup {"COMMITMENT_LIQUIDATION", "CANCELLATION", "CLOSING"}
    BY <1>3, <2>1, <2>2 DEF Entry, BaseTypes
  <2> QED
    BY <1>1, <2>1, <2>2, <2>3 DEF OfTypes, IsBase
<1>4. ASSUME NEW i \in O, L[i].type = "REVERSAL"
      PROVE  /\ i \notin Liquid \cup Back
             /\ L[i].reverses \in Liquid \/ L[i].reverses \in Back
  <2> DEFINE r == L[i].reverses
  <2>1. r \in 1 .. i - 1 /\ L[r].type # "REVERSAL" /\ L[i].component = L[r].component /\ L[i].commitment = L[r].commitment
    BY <1>2, <1>4 DEF EntriesOK, EntryOK, EntryReverses
  <2>2. r \in O
    BY <1>2, <2>1, EntriesAre DEF OnCommitment
  <2>3. r # b
    BY <1>1, <1>2 DEF IsReversed
  <2> QED
    BY <1>3, <1>4, <2>1, <2>2, <2>3 DEF OfTypes
<1>5. P \cap C = {}
  <2> SUFFICES ASSUME NEW i \in P, i \in C PROVE FALSE
    OBVIOUS
  <2>1. \A j \in Liquid : j \notin Back /\ j # None
    BY EntriesAre DEF OfTypes, None
  <2>2. \A j \in Back : j # None
    BY EntriesAre DEF OfTypes, None
  <2>3. CASE L[i].type = "REVERSAL"
    BY <1>4, <2>1, <2>3 DEF Reversing
  <2>4. CASE L[i].type # "REVERSAL"
    BY <1>3, <2>1, <2>2, <2>4 DEF Reversing
  <2> QED
    BY <2>3, <2>4
<1>6. O = (P \cup C) \cup {b}
  <2>1. ASSUME NEW i \in O, i # b PROVE i \in P \cup C
    <3>1. CASE L[i].type = "REVERSAL"
      BY <1>2, <1>4, <3>1 DEF Reversing
    <3>2. CASE L[i].type # "REVERSAL"
      BY <1>3, <2>1, <3>2
    <3> QED
      BY <3>1, <3>2
  <2> QED
    BY <2>1
<1>7. (P \cup C) \cap {b} = {}
  <2>1. L[b].type # "REVERSAL" /\ L[b].reverses = None
    BY <1>1, <1>3 DEF BaseTypes
  <2>2. b \notin Liquid \cup Back
    BY <1>1 DEF OfTypes, BaseTypes
  <2>3. None \notin Liquid \cup Back
    BY EntriesAre DEF OfTypes, None
  <2> QED
    BY <2>1, <2>2, <2>3 DEF Reversing
<1>8. P \subseteq DOMAIN L /\ C \subseteq DOMAIN L /\ b \in DOMAIN L
  BY <1>2
<1>9. /\ Outstanding(D, L, d) = Total(L, O)
      /\ Paid(D, L, d) = -Total(L, P)
      /\ Cancelled(D, L, d) = -Total(L, C)
  BY DEF Outstanding, Paid, Cancelled, NetByType
<1> HIDE DEF O, P, C, Liquid, Back
<1>10. Total(L, P \cup C) = Total(L, P) + Total(L, C)
  BY <1>5, <1>8, TotalSplit
<1>11. Total(L, (P \cup C) \cup {b}) = Total(L, P \cup C) + Total(L, {b})
  BY <1>7, <1>8, TotalSplit
<1>12. Total(L, {b}) = D[d].amount /\ D[d].amount \in Int
  BY <1>1, <1>8, TotalOfOne, EntriesAre
<1>13. Total(L, P) \in Int /\ Total(L, C) \in Int
  BY <1>8, TotalType
<1>14. Total(L, O) = Total(L, P) + Total(L, C) + D[d].amount
  BY <1>6, <1>10, <1>11, <1>12
<1> QED
  BY <1>9, <1>12, <1>13, <1>14


-----------------------------------------------------------------------------
(* What lasts while documents advance and entries are appended.            *)

Advances(D, E) ==
  /\ Len(D) <= Len(E)
  /\ \A d \in Ids(D) : /\ E[d].kind = D[d].kind /\ E[d].line = D[d].line
                       /\ E[d].of = D[d].of /\ E[d].amount = D[d].amount
                       /\ D[d].status \in InBooks => E[d].status \in InBooks

LEMMA RefersStill ==
  ASSUME NEW D \in Seq(Doc), NEW E \in Seq(Doc), Advances(D, E), NEW d \in Ids(D), DocRefers(D, d),
         E[d].kind = "REVERSAL" => E[d].status # "REVERSED"
  PROVE  DocRefers(E, d)
<1>1. ASSUME NEW kinds, IsOf(D, d, kinds) PROVE IsOf(E, d, kinds)
  <2>1. D[d].of \in Ids(D)
    BY <1>1 DEF IsOf, Ids
  <2> QED
    BY <1>1, <2>1 DEF IsOf, Advances
<1> QED
  BY <1>1 DEF DocRefers, Advances

LEMMA StandsStill ==
  ASSUME NEW D \in Seq(Doc), NEW E \in Seq(Doc), Advances(D, E), NEW e \in Entry, EntryStands(D, e)
  PROVE  EntryStands(E, e)
<1>1. Ids(D) \subseteq Ids(E)
  BY DEF Advances, Ids
<1>2. e.commitment # None => OnBooks(E, e) /\ ComponentOf(E, e.commitment) = ComponentOf(D, e.commitment)
  BY <1>1 DEF EntryStands, OnBooks, Advances, ComponentOf
<1>3. e.doc # None => e.doc \in Ids(D)
  BY DEF EntryStands
<1>4. e.type \in BaseTypes => e.doc # None
  BY DEF EntryStands, BaseTypes
<1> QED
  BY <1>1, <1>2, <1>3, <1>4 DEF EntryStands, Advances

LEMMA OldEntryOK ==
  ASSUME NEW D \in Seq(Doc), NEW E \in Seq(Doc), Advances(D, E),
         NEW L \in Seq(Entry), NEW es \in Seq(Entry), EntriesOK(D, L), NEW i \in DOMAIN L
  PROVE  i \in DOMAIN (L \o es) /\ (L \o es)[i] = L[i] /\ EntryOK(E, L \o es, i)
<1> DEFINE M == L \o es
<1>1. M \in Seq(Entry) /\ DOMAIN L \subseteq DOMAIN M /\ \A j \in DOMAIN L : M[j] = L[j]
  BY EntriesAre
<1>2. EntryOK(D, L, i) /\ L[i] \in Entry
  BY EntriesAre DEF EntriesOK
<1> HIDE DEF M
<1>3. CASE L[i].type = "REVERSAL"
  <2>1. L[i].reverses \in DOMAIN L
    BY <1>2, <1>3, EntriesAre DEF EntryOK, EntryReverses
  <2>2. EntryReverses(M, i)
    BY <1>1, <1>2, <1>3, <2>1 DEF EntryOK, EntryReverses
  <2> QED
    BY <1>1, <1>2, <1>3, <2>2 DEF EntryOK, M
<1>4. CASE L[i].type # "REVERSAL"
  BY <1>1, <1>2, <1>4, StandsStill DEF EntryOK, M
<1> QED
  BY <1>3, <1>4

\* A commitment that nothing is entered on holds what it held.
LEMMA UntouchedHolds ==
  ASSUME NEW D \in Seq(Doc), NEW E \in Seq(Doc), Advances(D, E),
         NEW L \in Seq(Entry), NEW es \in Seq(Entry), EntriesOK(D, L), NEW c \in Ids(D),
         \A n \in DOMAIN es : es[n].commitment # c \/ es[n].component # ComponentOf(D, c)
  PROVE  /\ Outstanding(E, L \o es, c) = Outstanding(D, L, c)
         /\ \A types : NetByType(E, L \o es, c, types) = NetByType(D, L, c, types)
<1> DEFINE M == L \o es
<1>1. /\ M \in Seq(Entry) /\ DOMAIN L \subseteq DOMAIN M /\ \A j \in DOMAIN L : M[j] = L[j]
      /\ \A i \in DOMAIN M : i \in DOMAIN L \/ \E n \in DOMAIN es : M[i] = es[n]
  <2>1. ASSUME NEW i \in DOMAIN M, i \notin DOMAIN L PROVE \E n \in DOMAIN es : M[i] = es[n]
    <3>1. i - Len(L) \in DOMAIN es /\ M[i] = es[i - Len(L)]
      BY <2>1, EntriesAre
    <3> QED
      BY <3>1
  <2> QED
    BY <2>1, EntriesAre
<1>2. ComponentOf(E, c) = ComponentOf(D, c)
  BY DEF Advances, ComponentOf
<1> HIDE DEF M
<1>3. OnCommitment(E, M, c) = OnCommitment(D, L, c) /\ OnCommitment(D, L, c) \subseteq DOMAIN L
  <2>1. ASSUME NEW i \in OnCommitment(E, M, c) PROVE i \in OnCommitment(D, L, c)
    BY <1>1, <1>2 DEF OnCommitment
  <2>2. ASSUME NEW i \in OnCommitment(D, L, c) PROVE i \in OnCommitment(E, M, c)
    BY <1>1, <1>2 DEF OnCommitment
  <2> QED
    BY <2>1, <2>2 DEF OnCommitment
<1>4. Total(M, OnCommitment(D, L, c)) = Total(L, OnCommitment(D, L, c))
  BY <1>3, TotalOfOld DEF M
<1>5. ASSUME NEW types PROVE NetByType(E, M, c, types) = NetByType(D, L, c, types)
  <2> DEFINE S == OfTypes(L, types)
             T == OfTypes(M, types)
             P == OnCommitment(D, L, c) \cap (S \cup Reversing(L, S))
             Q == OnCommitment(D, L, c) \cap (T \cup Reversing(M, T))
  <2>1. ASSUME NEW i \in DOMAIN L
        PROVE  /\ i \in S <=> i \in T
               /\ i \in Reversing(L, S) <=> i \in Reversing(M, T)
    <3>1. L[i].reverses = None \/ L[i].reverses \in DOMAIN L
      BY EntriesAre DEF EntriesOK, EntryOK, EntryReverses
    <3>2. None \notin S \cup T
      BY <1>1, EntriesAre DEF OfTypes, None
    <3> QED
      BY <1>1, <3>1, <3>2 DEF OfTypes, Reversing
  <2>2. P = Q /\ P \subseteq DOMAIN L
    BY <1>3, <2>1
  <2> HIDE DEF P, Q
  <2>3. Total(M, Q) = Total(L, P)
    BY <2>2, TotalOfOld DEF M
  <2>4. NetByType(E, M, c, types) = -Total(M, Q)
    BY <1>3 DEF NetByType, Q
  <2>5. NetByType(D, L, c, types) = -Total(L, P)
    BY DEF NetByType, P
  <2> QED
    BY <2>3, <2>4, <2>5
<1>6. Outstanding(E, M, c) = Outstanding(D, L, c)
  BY <1>3, <1>4 DEF Outstanding
<1> QED
  BY <1>5, <1>6 DEF M

\* The state its entries and orders call for is then the same, too.
LEMMA UntouchedState ==
  ASSUME NEW D \in Seq(Doc), NEW E \in Seq(Doc), Advances(D, E),
         NEW L \in Seq(Entry), NEW es \in Seq(Entry), EntriesOK(D, L), NEW c \in Ids(D),
         \A n \in DOMAIN es : es[n].commitment # c \/ es[n].component # ComponentOf(D, c),
         D[c].kind = "REQUEST" => (Converted(E, c) <=> Converted(D, c))
  PROVE  StateOf(E, L \o es, c) = StateOf(D, L, c)
<1>1. /\ Outstanding(E, L \o es, c) = Outstanding(D, L, c)
      /\ Paid(E, L \o es, c) = Paid(D, L, c)
      /\ Cancelled(E, L \o es, c) = Cancelled(D, L, c)
  BY UntouchedHolds DEF Paid, Cancelled
<1>2. E[c].kind = D[c].kind
  BY DEF Advances
<1> QED
  BY <1>1, <1>2 DEF StateOf


-----------------------------------------------------------------------------
(* Drafts, and documents that are dropped.                                 *)

\* Only what waits for approval comes or goes.
Quiet(D, E) ==
  /\ Advances(D, E)
  /\ \A d \in Ids(D) : \/ E[d] = D[d]
                       \/ D[d].status = "PENDING" /\ E[d].status = "DROPPED"
  /\ \A d \in Ids(E) \ Ids(D) : E[d].status = "PENDING"

LEMMA QuietLedger ==
  ASSUME LedgerInv, docs' \in Seq(Doc), Quiet(docs, docs'), UNCHANGED <<ledger, balance>>,
         DocsRefer(docs'), ConvertedOnce'
  PROVE  LedgerInv'
<1>1. /\ docs \in Seq(Doc) /\ ledger \in Seq(Entry) /\ Advances(docs, docs')
      /\ EntriesOK(docs, ledger)
  BY DEF LedgerInv, TypeOK, Quiet
<1>2. /\ Ids(docs) \subseteq Ids(docs')
      /\ \A k \in Ids(docs) : docs'[k].status \in InBooks <=> docs[k].status \in InBooks
      /\ \A k \in Ids(docs) : docs[k].status \in InBooks => docs'[k] = docs[k]
      /\ \A k \in Ids(docs') \ Ids(docs) : docs'[k].status \notin InBooks
  BY <1>1 DEF Quiet, Advances, Ids, InBooks
<1>3. TypeOK'
  BY DEF LedgerInv, TypeOK
<1>4. ledger \o <<>> = ledger /\ <<>> \in Seq(Entry) /\ \A n : n \notin DOMAIN <<>>
  BY <1>1
<1>5. EntriesOK(docs', ledger)
  BY <1>1, <1>4, OldEntryOK DEF EntriesOK
<1>6. ReversedTogether(docs', ledger)
  <2> SUFFICES ASSUME NEW i \in DOMAIN ledger, ledger[i].type # "REVERSAL", ledger[i].doc # None
               PROVE  IsReversed(ledger, i) <=> docs'[ledger[i].doc].status = "REVERSED"
    BY DEF ReversedTogether
  <2>1. ledger[i].doc \in Ids(docs) /\ docs[ledger[i].doc].status \in InBooks
    BY <1>1 DEF EntriesOK, EntryOK, EntryStands
  <2> QED
    BY <1>2, <2>1 DEF LedgerInv, ReversedTogether
<1>7. EnteredOnce(docs', ledger)
  <2>1. ASSUME NEW c \in Ids(docs'), docs'[c].kind \in Commitments, docs'[c].status \in InBooks
        PROVE  \E i \in DOMAIN ledger : IsBase(ledger, c, i)
    BY <1>2, <2>1 DEF LedgerInv, EnteredOnce
  <2>2. ASSUME NEW i \in DOMAIN ledger, NEW j \in DOMAIN ledger, NEW c \in Ids(docs'),
               IsBase(ledger, c, i), IsBase(ledger, c, j)
        PROVE  i = j
    <3>1. c # None /\ ledger[i].commitment = c
      BY <2>2 DEF IsBase, Ids, None
    <3>2. c \in Ids(docs)
      BY <1>1, <3>1, EntriesBelong DEF Belongs, OnBooks
    <3> QED
      BY <2>2, <3>2 DEF LedgerInv, EnteredOnce
  <2> QED
    BY <2>1, <2>2 DEF EnteredOnce
<1>8. \A d \in Ids(docs') : docs'[d].kind \in Commitments => Outstanding(docs', ledger, d) >= 0
  <2> SUFFICES ASSUME NEW d \in Ids(docs'), docs'[d].kind \in Commitments
               PROVE  Outstanding(docs', ledger, d) >= 0
    OBVIOUS
  <2>1. CASE docs'[d].status \notin InBooks
    BY <1>1, <1>5, <2>1, UnbookedHoldsNothing
  <2>2. CASE docs'[d].status \in InBooks
    <3>1. d \in Ids(docs) /\ docs[d].kind \in Commitments
      BY <1>2, <2>2
    <3>2. Outstanding(docs', ledger \o <<>>, d) = Outstanding(docs, ledger, d)
      BY <1>1, <1>4, <3>1, UntouchedHolds
    <3> QED
      BY <1>4, <3>1, <3>2 DEF LedgerInv, NothingBelowZero
  <2> QED
    BY <2>1, <2>2
<1>9. BalanceIsLedger' /\ ReversedOnce(ledger)
  BY DEF LedgerInv, BalanceIsLedger
<1> QED
  BY <1>3, <1>5, <1>6, <1>7, <1>8, <1>9 DEF LedgerInv, NothingBelowZero

LEMMA QuietStates ==
  ASSUME ProcInv, docs' \in Seq(Doc), Quiet(docs, docs'), UNCHANGED <<ledger, balance>>
  PROVE  ReleasesRequest(docs', ledger) /\ StateFollowsLedger'
<1>1. /\ docs \in Seq(Doc) /\ ledger \in Seq(Entry) /\ Advances(docs, docs')
      /\ EntriesOK(docs, ledger)
  BY DEF ProcInv, LedgerInv, TypeOK, Quiet
<1>2. /\ Ids(docs) \subseteq Ids(docs')
      /\ \A k \in Ids(docs) : docs'[k].status \in InBooks => docs'[k] = docs[k]
      /\ \A k \in Ids(docs) : docs[k].status \in InBooks => docs'[k] = docs[k]
      /\ \A k \in Ids(docs') \ Ids(docs) : docs'[k].status \notin InBooks
  BY <1>1 DEF Quiet, Advances, Ids, InBooks
<1>3. ReleasesRequest(docs', ledger)
  BY <1>2 DEF ProcInv, ReleasesRequest
<1>4. \A c : Converted(docs', c) <=> Converted(docs, c)
  BY <1>2 DEF Converted, InBooks
<1>5. ledger \o <<>> = ledger /\ <<>> \in Seq(Entry) /\ \A n : n \notin DOMAIN <<>>
  BY <1>1
<1>6. ASSUME NEW c \in Ids(docs'), docs'[c].kind \in Commitments, docs'[c].status = "POSTED"
      PROVE  docs'[c].state = StateOf(docs', ledger, c)
  <2>1. c \in Ids(docs) /\ docs'[c] = docs[c]
    BY <1>2, <1>6 DEF InBooks
  <2>2. StateOf(docs', ledger \o <<>>, c) = StateOf(docs, ledger, c)
    BY <1>1, <1>4, <1>5, <2>1, UntouchedState
  <2> QED
    BY <1>5, <1>6, <2>1, <2>2 DEF ProcInv, StateFollowsLedger, PostedCommitments
<1> QED
  BY <1>3, <1>6 DEF StateFollowsLedger, PostedCommitments


\* What a quiet step has to see to.
QuietStep ==
  /\ docs' \in Seq(Doc) /\ Quiet(docs, docs') /\ UNCHANGED <<ledger, balance>>
  /\ DocsRefer(docs') /\ ConvertedOnce'

\* A draft of document `of`, if any, that is in the books and on the line.
LEMMA DraftIsQuiet ==
  ASSUME LedgerInv, NEW kind \in Kinds, NEW line \in Lines, NEW of \in Ids(docs) \cup {None},
         NEW amount \in Amounts, Draft(kind, line, of, amount),
         of = None => kind \in {"REQUEST", "ORDER", "EXPENDITURE"},
         of # None => docs[of].line = line /\ docs[of].status \in InBooks,
         kind = "REQUEST" => of = None,
         kind = "ORDER" /\ of # None => docs[of].kind = "REQUEST",
         kind = "ORDER" /\ of # None =>
           \A k \in Ids(docs) : docs[k].kind = "ORDER" /\ docs[k].of = of => docs[k].status = "DROPPED",
         kind = "EXPENDITURE" /\ of # None => docs[of].kind = "ORDER",
         kind = "CANCELLATION" => docs[of].kind \in Commitments,
         kind = "REVERSAL" => docs[of].kind # "REVERSAL"
  PROVE  QuietStep
<1> DEFINE new == [kind |-> kind, line |-> line, of |-> of, amount |-> amount,
                   status |-> "PENDING", state |-> "NONE"]
           n == Len(docs) + 1
<1>1. docs \in Seq(Doc) /\ DocsRefer(docs) /\ ConvertedOnce /\ Len(docs) \in Nat
  BY DEF LedgerInv, TypeOK
<1>2. new \in Doc
  BY DEF Doc, Ids, DocIds, None
<1>3. /\ docs' = Append(docs, new) /\ UNCHANGED <<ledger, balance>>
      /\ docs' \in Seq(Doc) /\ Len(docs') = n
      /\ docs'[n] = new /\ \A k \in Ids(docs) : docs'[k] = docs[k]
      /\ Ids(docs') = Ids(docs) \cup {n} /\ n \notin Ids(docs)
  BY <1>1, <1>2 DEF Draft, Ids
<1> docs'[n].kind = kind /\ docs'[n].line = line /\ docs'[n].of = of /\ docs'[n].status = "PENDING"
  BY <1>3
<1> HIDE DEF n, new
<1>4. Quiet(docs, docs')
  <2>1. Len(docs) <= Len(docs')
    BY <1>1, <1>3 DEF n
  <2>2. Advances(docs, docs')
    BY <1>3, <2>1 DEF Advances
  <2>3. \A k \in Ids(docs') \ Ids(docs) : k = n
    BY <1>3
  <2> QED
    BY <1>3, <2>2, <2>3 DEF Quiet
<1>5. of # None => /\ of \in 1 .. n - 1 /\ docs'[of] = docs[of] /\ docs[of].kind \in Kinds
  <2> SUFFICES ASSUME of # None
               PROVE  of \in 1 .. n - 1 /\ docs'[of] = docs[of] /\ docs[of].kind \in Kinds
    OBVIOUS
  <2>1. of \in Ids(docs) /\ docs[of] \in Doc
    BY <1>1 DEF Ids
  <2>2. of \in 1 .. n - 1
    BY <1>1, <2>1 DEF Ids, n
  <2> QED
    BY <1>3, <2>1, <2>2 DEF Doc
<1>6. DocRefers(docs', n)
  BY <1>3, <1>5 DEF DocRefers, IsOf
<1>7. \A d \in Ids(docs) : DocRefers(docs', d)
  <2>1. \A d \in Ids(docs) : docs'[d].kind = "REVERSAL" => docs'[d].status # "REVERSED"
    BY <1>1, <1>3 DEF DocsRefer, DocRefers
  <2> QED
    BY <1>1, <1>3, <1>4, <2>1, RefersStill DEF DocsRefer, Quiet
<1>8. DocsRefer(docs')
  BY <1>3, <1>6, <1>7 DEF DocsRefer
<1>9. ConvertedOnce'
  <2> SUFFICES ASSUME NEW j \in Ids(docs'), NEW k \in Ids(docs'), j # k,
                      docs'[j].kind = "ORDER", docs'[j].of # None,
                      docs'[k].kind = "ORDER", docs'[k].of = docs'[j].of
               PROVE  docs'[j].status = "DROPPED" \/ docs'[k].status = "DROPPED"
    BY DEF ConvertedOnce
  <2>1. CASE j = n
    <3>1. k \in Ids(docs) /\ docs'[k] = docs[k] /\ docs'[j].kind = kind /\ docs'[j].of = of
      BY <1>3, <2>1
    <3> QED
      BY <3>1
  <2>2. CASE k = n
    <3>1. j \in Ids(docs) /\ docs'[j] = docs[j] /\ docs'[k].kind = kind /\ docs'[k].of = of
      BY <1>3, <2>2
    <3> QED
      BY <3>1
  <2>3. CASE j # n /\ k # n
    <3>1. j \in Ids(docs) /\ k \in Ids(docs) /\ docs'[j] = docs[j] /\ docs'[k] = docs[k]
      BY <1>3, <2>3
    <3> QED
      BY <1>1, <3>1 DEF ConvertedOnce
  <2> QED
    BY <2>1, <2>2, <2>3
<1> QED
  BY <1>3, <1>4, <1>8, <1>9 DEF QuietStep

LEMMA DraftsAreQuiet ==
  ASSUME LedgerInv, DraftRequest \/ DraftOrder \/ DraftExpenditure \/ DraftCancellation \/ DraftReversal
  PROVE  QuietStep
<1> USE DEF Kinds, Commitments, InBooks
<1>1. \A d \in Ids(docs) : docs[d] \in Doc /\ d # None
  BY DEF LedgerInv, TypeOK, Ids, None
<1>2. CASE DraftRequest
  <2>1. PICK l \in Lines, a \in Amounts : Draft("REQUEST", l, None, a)
    BY <1>2 DEF DraftRequest
  <2> QED
    BY <2>1, DraftIsQuiet
<1>3. CASE DraftOrder
  <2>1. PICK l \in Lines, request \in Ids(docs) \cup {None}, a \in Amounts :
          OrderValid(request, l, None) /\ Draft("ORDER", l, request, a)
    BY <1>3 DEF DraftOrder
  <2>2. request # None => /\ docs[request].kind = "REQUEST" /\ docs[request].status = "POSTED"
                          /\ docs[request].line = l
                          /\ \A k \in Ids(docs) : docs[k].kind = "ORDER" /\ docs[k].of = request =>
                               docs[k].status = "DROPPED"
    BY <1>1, <2>1 DEF OrderValid
  <2> QED
    BY <2>1, <2>2, DraftIsQuiet
<1>4. CASE DraftExpenditure
  <2>1. PICK l \in Lines, order \in Ids(docs) \cup {None}, a \in Amounts :
          PaymentValid(order, l) /\ Draft("EXPENDITURE", l, order, a)
    BY <1>4 DEF DraftExpenditure
  <2> QED
    BY <2>1, DraftIsQuiet DEF PaymentValid
<1>5. CASE DraftCancellation
  <2>1. PICK c \in Ids(docs), a \in Amounts :
          /\ docs[c].kind \in Commitments /\ docs[c].status = "POSTED"
          /\ Draft("CANCELLATION", docs[c].line, c, a)
    BY <1>5 DEF DraftCancellation
  <2>2. docs[c].line \in Lines /\ c # None
    BY <1>1 DEF Doc
  <2> QED
    BY <2>1, <2>2, DraftIsQuiet
<1>6. CASE DraftReversal
  <2>1. PICK d \in Ids(docs) : Reversible(d) /\ Draft("REVERSAL", docs[d].line, d, docs[d].amount)
    BY <1>6 DEF DraftReversal
  <2>2. docs[d].line \in Lines /\ docs[d].amount \in Amounts /\ d # None
    BY <1>1 DEF Doc
  <2>3. docs[d].kind # "REVERSAL" /\ docs[d].status = "POSTED"
    BY <2>1 DEF Reversible
  <2> QED
    BY <2>1, <2>2, <2>3, DraftIsQuiet
<1> QED
  BY <1>2, <1>3, <1>4, <1>5, <1>6

\* A document with another status and, on a condition, another state.
Marked(D, d, status, c, state) ==
  [D EXCEPT ![d].status = status, ![d].state = IF c THEN state ELSE @]

LEMMA MarkedIs ==
  ASSUME NEW D \in Seq(Doc), NEW d \in Ids(D), NEW c,
         c \in BOOLEAN,
         NEW status \in {"PENDING", "POSTED", "REVERSED", "DROPPED"},
         NEW state \in {"NONE", "APPROVED", "PARTIALLY_PAID", "FULLY_PAID", "CLOSED", "CANCELLED"}
  PROVE  LET E == Marked(D, d, status, c, state)
         IN /\ E \in Seq(Doc) /\ Len(E) = Len(D) /\ Ids(E) = Ids(D)
            /\ \A k \in Ids(D) : k # d => E[k] = D[k]
            /\ E[d].kind = D[d].kind /\ E[d].line = D[d].line
            /\ E[d].of = D[d].of /\ E[d].amount = D[d].amount
            /\ E[d].status = status
            /\ E[d].state = IF c THEN state ELSE D[d].state
<1> DEFINE E == Marked(D, d, status, c, state)
           e == [kind |-> D[d].kind, line |-> D[d].line, of |-> D[d].of, amount |-> D[d].amount,
                 status |-> status, state |-> IF c THEN state ELSE D[d].state]
<1>1. /\ D[d] \in Doc /\ DOMAIN D = Ids(D) /\ Len(D) \in Nat /\ \A k \in Ids(D) : D[k] \in Doc
      /\ Ids(D) = 1 .. Len(D)
  BY DEF Ids
<1>2. DOMAIN E = Ids(D) /\ \A k \in Ids(D) : E[k] = IF k = d THEN e ELSE D[k]
  <2>1. DOMAIN E = Ids(D) /\ \A k \in Ids(D) : k # d => E[k] = D[k]
    BY <1>1 DEF Marked
  <2>2. E[d] = [D[d] EXCEPT !.status = status, !.state = IF c THEN state ELSE @]
    BY <1>1 DEF Marked
  <2>3. E[d] = e
    BY <1>1, <2>2 DEF Doc
  <2> QED
    BY <2>1, <2>3
<1>3. /\ e \in Doc
      /\ e.kind = D[d].kind /\ e.line = D[d].line /\ e.of = D[d].of /\ e.amount = D[d].amount
      /\ e.status = status
      /\ e.state = IF c THEN state ELSE D[d].state
  BY <1>1 DEF Doc
<1> HIDE DEF e
<1>4. E \in [1 .. Len(D) -> Doc]
  <2>1. E = [k \in Ids(D) |-> E[k]]
    BY <1>1 DEF Marked
  <2> HIDE DEF E
  <2> QED
    BY <1>1, <1>2, <1>3, <2>1
<1> HIDE DEF E
<1>5. E \in Seq(Doc) /\ Len(E) = Len(D)
  BY <1>1, <1>4
<1>6. Ids(E) = Ids(D)
  BY <1>5 DEF Ids
<1> QED
  BY <1>2, <1>3, <1>5, <1>6 DEF E

LEMMA DropIsQuiet ==
  ASSUME LedgerInv, NEW d \in Ids(docs), Drop(d)
  PROVE  QuietStep
<1>1. docs \in Seq(Doc) /\ DocsRefer(docs) /\ ConvertedOnce
  BY DEF LedgerInv, TypeOK
<1>2. /\ docs[d].status = "PENDING" /\ UNCHANGED <<ledger, balance>>
      /\ \E c \in BOOLEAN : docs' = Marked(docs, d, "DROPPED", c, "CANCELLED")
  <2>1. \E c \in BOOLEAN : docs' = Marked(docs, d, "DROPPED", c, "CANCELLED")
    <3> DEFINE isOne == docs[d].kind \in Commitments
    <3> WITNESS isOne \in BOOLEAN
    <3> QED
      BY DEF Drop, Marked
  <2> QED
    BY <2>1 DEF Drop
<1>3. /\ docs' \in Seq(Doc) /\ Len(docs') = Len(docs) /\ Ids(docs') = Ids(docs)
      /\ \A k \in Ids(docs) : k # d => docs'[k] = docs[k]
      /\ docs'[d].kind = docs[d].kind /\ docs'[d].line = docs[d].line /\ docs'[d].of = docs[d].of
      /\ docs'[d].amount = docs[d].amount /\ docs'[d].status = "DROPPED"
  <2>1. PICK c \in BOOLEAN : docs' = Marked(docs, d, "DROPPED", c, "CANCELLED")
    BY <1>2
  <2> DEFINE E == Marked(docs, d, "DROPPED", c, "CANCELLED")
  <2>2. /\ E \in Seq(Doc) /\ Len(E) = Len(docs) /\ Ids(E) = Ids(docs)
        /\ \A k \in Ids(docs) : k # d => E[k] = docs[k]
        /\ E[d].kind = docs[d].kind /\ E[d].line = docs[d].line /\ E[d].of = docs[d].of
        /\ E[d].amount = docs[d].amount /\ E[d].status = "DROPPED"
    BY <1>1, MarkedIs
  <2> QED
    BY <2>1, <2>2
<1>4. Len(docs) <= Len(docs')
  BY <1>1, <1>3
<1>5. Quiet(docs, docs')
  BY <1>2, <1>3, <1>4 DEF Quiet, Advances, InBooks
<1>6. DocsRefer(docs')
  <2>1. \A k \in Ids(docs) : docs'[k].kind = "REVERSAL" => docs'[k].status # "REVERSED"
    BY <1>1, <1>3 DEF DocsRefer, DocRefers
  <2> QED
    BY <1>1, <1>3, <1>5, <2>1, RefersStill DEF DocsRefer, Quiet
<1>7. ConvertedOnce'
  <2>1. \A k \in Ids(docs) : /\ docs'[k].kind = docs[k].kind /\ docs'[k].of = docs[k].of
                            /\ docs[k].status = "DROPPED" => docs'[k].status = "DROPPED"
    BY <1>3
  <2> QED
    BY <1>1, <1>3, <2>1 DEF ConvertedOnce
<1> QED
  BY <1>2, <1>3, <1>5, <1>6, <1>7 DEF QuietStep


-----------------------------------------------------------------------------
(* The documents after a posting.                                          *)

LEMMA StateOfType ==
  ASSUME NEW D, NEW L, NEW c
  PROVE  StateOf(D, L, c) \in {"NONE", "APPROVED", "PARTIALLY_PAID", "FULLY_PAID", "CLOSED", "CANCELLED"}
<1> DEFINE held == Outstanding(D, L, c)
           paid == Paid(D, L, c)
           back == Cancelled(D, L, c)
<1>1. CASE D[c].kind = "REQUEST"
  <2>1. StateOf(D, L, c) = CASE Converted(D, c) -> "CLOSED"
                             [] ~Converted(D, c) /\ held > 0 -> "APPROVED"
                             [] OTHER -> "CANCELLED"
    BY <1>1 DEF StateOf
  <2> HIDE DEF held
  <2> QED
    BY <2>1
<1>2. CASE D[c].kind # "REQUEST"
  <2>1. StateOf(D, L, c) = CASE held = 0 /\ paid > 0 /\ back = 0 -> "FULLY_PAID"
                             [] held = 0 /\ paid > 0 /\ back # 0 -> "CLOSED"
                             [] held = 0 /\ paid <= 0 -> "CANCELLED"
                             [] held # 0 /\ paid > 0 -> "PARTIALLY_PAID"
                             [] OTHER -> "APPROVED"
    BY <1>2 DEF StateOf
  <2> HIDE DEF held, paid, back
  <2> QED
    BY <2>1
<1> QED
  BY <1>1, <1>2

\* It depends on the entries and on what the documents are, not on their states.
LEMMA StateOfAgrees ==
  ASSUME NEW D, NEW E, NEW L, NEW c, Len(E) = Len(D), E[c].kind = D[c].kind,
         \A k \in Ids(D) : E[k].kind = D[k].kind /\ E[k].of = D[k].of /\ E[k].status = D[k].status
  PROVE  StateOf(E, L, c) = StateOf(D, L, c)
<1>1. OnCommitment(E, L, c) = OnCommitment(D, L, c)
  BY DEF OnCommitment, ComponentOf
<1>2. /\ Outstanding(E, L, c) = Outstanding(D, L, c)
      /\ Paid(E, L, c) = Paid(D, L, c)
      /\ Cancelled(E, L, c) = Cancelled(D, L, c)
  BY <1>1 DEF Outstanding, Paid, Cancelled, NetByType
<1>3. Converted(E, c) <=> Converted(D, c)
  BY DEF Converted, Ids
<1> QED
  BY <1>2, <1>3 DEF StateOf

\* The documents that are refreshed, and nothing but their state.
LEMMA RefreshIs ==
  ASSUME NEW D \in Seq(Doc), NEW L, NEW cs
  PROVE  LET E == Refresh(D, L, cs)
         IN /\ E \in Seq(Doc) /\ Len(E) = Len(D) /\ Ids(E) = Ids(D)
            /\ \A k \in Ids(D) :
                 /\ E[k].kind = D[k].kind /\ E[k].line = D[k].line /\ E[k].of = D[k].of
                 /\ E[k].amount = D[k].amount /\ E[k].status = D[k].status
                 /\ E[k].state = IF k \in cs /\ D[k].status = "POSTED" THEN StateOf(E, L, k)
                                 ELSE D[k].state
<1> DEFINE E == Refresh(D, L, cs)
           s == [k \in Ids(D) |-> StateOf(D, L, k)]
           refreshed(k) == k \in cs /\ D[k].status = "POSTED"
<1>1. Ids(D) = 1 .. Len(D) /\ Len(D) \in Nat /\ \A k \in Ids(D) : D[k] \in Doc
  BY DEF Ids
<1>2. E = [k \in Ids(D) |-> IF refreshed(k) THEN [D[k] EXCEPT !.state = s[k]] ELSE D[k]]
  BY DEF Refresh
<1>3. \A k \in Ids(D) : s[k] \in {"NONE", "APPROVED", "PARTIALLY_PAID", "FULLY_PAID", "CLOSED", "CANCELLED"}
  BY StateOfType
<1> HIDE DEF E, s
<1>4. ASSUME NEW k \in Ids(D)
      PROVE  /\ E[k] \in Doc
             /\ E[k].kind = D[k].kind /\ E[k].line = D[k].line /\ E[k].of = D[k].of
             /\ E[k].amount = D[k].amount /\ E[k].status = D[k].status
             /\ E[k].state = IF refreshed(k) THEN s[k] ELSE D[k].state
  <2>1. D[k] \in Doc /\ E[k] = IF refreshed(k) THEN [D[k] EXCEPT !.state = s[k]] ELSE D[k]
    BY <1>1, <1>2
  <2>2. s[k] \in {"NONE", "APPROVED", "PARTIALLY_PAID", "FULLY_PAID", "CLOSED", "CANCELLED"}
    BY <1>3
  <2> QED
    BY <2>1, <2>2 DEF Doc
<1>5. E \in Seq(Doc) /\ Len(E) = Len(D)
  <2>1. E \in [1 .. Len(D) -> Doc]
    BY <1>1, <1>2, <1>4
  <2> QED
    BY <1>1, <2>1
<1>6. Ids(E) = Ids(D)
  BY <1>5 DEF Ids
<1>7. \A k \in Ids(D) : s[k] = StateOf(E, L, k)
  <2> SUFFICES ASSUME NEW k \in Ids(D) PROVE s[k] = StateOf(E, L, k)
    OBVIOUS
  <2>1. StateOf(E, L, k) = StateOf(D, L, k)
    BY <1>4, <1>5, StateOfAgrees
  <2> QED
    BY <2>1 DEF s
<1> QED
  BY <1>4, <1>5, <1>6, <1>7 DEF E

\* What becomes of the documents when d is posted.
StatusAfter(d, k) ==
  IF k = d THEN "POSTED"
  ELSE IF docs[d].kind = "REVERSAL" /\ k = docs[d].of THEN "REVERSED"
  ELSE docs[k].status

PostedDocs(d) ==
  /\ docs' \in Seq(Doc) /\ Len(docs') = Len(docs) /\ Ids(docs') = Ids(docs)
  /\ \A k \in Ids(docs) :
       /\ docs'[k].kind = docs[k].kind /\ docs'[k].line = docs[k].line /\ docs'[k].of = docs[k].of
       /\ docs'[k].amount = docs[k].amount /\ docs'[k].status = StatusAfter(d, k)
       /\ docs'[k].status = "POSTED" =>
            docs'[k].state = IF k \in Affected(d, EntriesOf(d)) THEN StateOf(docs', ledger', k)
                             ELSE IF k = d /\ docs[d].kind \in Commitments THEN "APPROVED"
                             ELSE docs[k].state

LEMMA PostDocs ==
  ASSUME LedgerInv, NEW d \in Ids(docs), Post(d)
  PROVE  PostedDocs(d)
<1>1. docs \in Seq(Doc) /\ DocRefers(docs, d) /\ docs' = Refresh(MarkReversed(Settle(d), d), ledger', Affected(d, EntriesOf(d)))
  BY DEF LedgerInv, TypeOK, DocsRefer, Post
<1> DEFINE S == Settle(d)
           R == MarkReversed(S, d)
<1>2. /\ S \in Seq(Doc) /\ Len(S) = Len(docs) /\ Ids(S) = Ids(docs)
      /\ \A k \in Ids(docs) : k # d => S[k] = docs[k]
      /\ S[d].kind = docs[d].kind /\ S[d].line = docs[d].line /\ S[d].of = docs[d].of
      /\ S[d].amount = docs[d].amount /\ S[d].status = "POSTED"
      /\ S[d].state = IF docs[d].kind \in Commitments THEN "APPROVED" ELSE docs[d].state
  <2>1. \E c \in BOOLEAN : (c <=> docs[d].kind \in Commitments) /\ S = Marked(docs, d, "POSTED", c, "APPROVED")
    <3> DEFINE isOne == docs[d].kind \in Commitments
    <3> WITNESS isOne \in BOOLEAN
    <3> QED
      BY DEF Settle, Marked
  <2>2. PICK c \in BOOLEAN : (c <=> docs[d].kind \in Commitments) /\ S = Marked(docs, d, "POSTED", c, "APPROVED")
    BY <2>1
  <2> DEFINE E == Marked(docs, d, "POSTED", c, "APPROVED")
  <2>3. /\ E \in Seq(Doc) /\ Len(E) = Len(docs) /\ Ids(E) = Ids(docs)
        /\ \A k \in Ids(docs) : k # d => E[k] = docs[k]
        /\ E[d].kind = docs[d].kind /\ E[d].line = docs[d].line /\ E[d].of = docs[d].of
        /\ E[d].amount = docs[d].amount /\ E[d].status = "POSTED"
        /\ E[d].state = IF c THEN "APPROVED" ELSE docs[d].state
    BY <1>1, MarkedIs
  <2> HIDE DEF S, E
  <2>4. S = E
    BY <2>2 DEF E
  <2> QED
    BY <2>2, <2>3, <2>4
<1>3. /\ R \in Seq(Doc) /\ Len(R) = Len(docs) /\ Ids(R) = Ids(docs)
      /\ \A k \in Ids(docs) :
           /\ R[k].kind = docs[k].kind /\ R[k].line = docs[k].line /\ R[k].of = docs[k].of
           /\ R[k].amount = docs[k].amount /\ R[k].status = StatusAfter(d, k)
           /\ R[k].state = S[k].state
  <2> HIDE DEF S
  <2>1. CASE docs[d].kind # "REVERSAL"
    BY <1>2, <2>1 DEF MarkReversed, StatusAfter
  <2>2. CASE docs[d].kind = "REVERSAL"
    <3> DEFINE o == docs[d].of
               e == [kind |-> S[o].kind, line |-> S[o].line, of |-> S[o].of, amount |-> S[o].amount,
                     status |-> "REVERSED", state |-> S[o].state]
    <3>1. o \in Ids(docs) /\ o # d
      BY <1>1, <2>2 DEF DocRefers, IsOf, Ids
    <3>2. DOMAIN S = Ids(docs) /\ Ids(docs) = 1 .. Len(docs) /\ Len(docs) \in Nat
          /\ \A k \in Ids(docs) : S[k] \in Doc
      BY <1>2 DEF Ids
    <3>3. R = [S EXCEPT ![o].status = "REVERSED"]
      BY <1>2, <2>2 DEF MarkReversed
    <3>4. DOMAIN R = Ids(docs) /\ \A k \in Ids(docs) : k # o => R[k] = S[k]
      BY <3>2, <3>3
    <3>5. R[o] = e /\ e \in Doc
      <4>1. R[o] = [S[o] EXCEPT !.status = "REVERSED"]
        BY <3>1, <3>2, <3>3
      <4>2. S[o] \in Doc
        BY <3>1, <3>2
      <4> HIDE DEF R, o
      <4> QED
        BY <4>1, <4>2 DEF Doc
    <3>6. R \in [1 .. Len(docs) -> Doc]
      <4>1. R = [k \in Ids(docs) |-> R[k]]
        BY <3>2, <3>3
      <4> HIDE DEF R
      <4> QED
        BY <3>2, <3>4, <3>5, <4>1
    <3> HIDE DEF R
    <3>7. R \in Seq(Doc) /\ Len(R) = Len(docs)
      BY <3>2, <3>6
    <3> QED
      BY <1>2, <2>2, <3>1, <3>4, <3>5, <3>7 DEF StatusAfter, Ids
  <2> QED
    BY <2>1, <2>2
<1> HIDE DEF R, S
<1> DEFINE E == Refresh(R, ledger', Affected(d, EntriesOf(d)))
<1>4. /\ E \in Seq(Doc) /\ Len(E) = Len(R) /\ Ids(E) = Ids(R)
      /\ \A k \in Ids(R) :
           /\ E[k].kind = R[k].kind /\ E[k].line = R[k].line /\ E[k].of = R[k].of
           /\ E[k].amount = R[k].amount /\ E[k].status = R[k].status
           /\ E[k].state = IF k \in Affected(d, EntriesOf(d)) /\ R[k].status = "POSTED"
                           THEN StateOf(E, ledger', k) ELSE R[k].state
  BY <1>3, RefreshIs
<1>5. docs' = E
  BY <1>1 DEF R, S
<1> HIDE DEF E
<1> QED
  BY <1>2, <1>3, <1>4, <1>5 DEF PostedDocs

-----------------------------------------------------------------------------
(* The entries of a posting.                                               *)

\* Entries that reverse none, of document d.
Stands(d, es) ==
  /\ \A n \in DOMAIN es :
       /\ es[n].doc = d /\ es[n].type # "REVERSAL" /\ es[n].reverses = None
       /\ EntryStands(docs', es[n])
  /\ \A m, n \in DOMAIN es : es[m].type \in BaseTypes /\ es[n].type \in BaseTypes => m = n
  /\ (\E n \in DOMAIN es : es[n].type \in BaseTypes) <=> docs[d].kind \in Commitments

LEMMA AmountOf ==
  ASSUME LedgerInv, NEW d \in Ids(docs)
  PROVE  /\ docs[d] \in Doc
         /\ docs[d].amount \in Int /\ docs[d].amount > 0 /\ d # None
<1>1. docs \in Seq(Doc) /\ docs[d] \in Doc /\ d # None
  BY DEF LedgerInv, TypeOK, Ids, None
<1> QED
  BY <1>1, ProcurementAssumption DEF Doc, Amounts

LEMMA MkEntryIs ==
  ASSUME LedgerInv, NEW d \in Ids(docs), NEW type, NEW component, NEW amount, NEW commitment
  PROVE  LET e == MkEntry(d, type, component, amount, commitment)
         IN /\ e.doc = d /\ e.type = type /\ e.line = docs[d].line /\ e.component = component
            /\ e.amount = amount /\ e.commitment = commitment /\ e.reverses = None
            /\ /\ type \in {"PRE_COMMITMENT", "RESERVATION_RELEASE", "COMMITMENT", "ACTUAL_EXPENDITURE",
                            "COMMITMENT_LIQUIDATION", "CANCELLATION"}
               /\ component \in {"RESERVATION", "COMMITMENT", "ACTUAL"}
               /\ amount \in Int /\ amount # 0
               /\ commitment \in Ids(docs) \cup {None}
               => e \in Entry
<1>1. docs \in Seq(Doc) /\ docs[d] \in Doc
  BY DEF LedgerInv, TypeOK, Ids
<1>2. docs[d].line \in Lines /\ Ids(docs) \subseteq DocIds
  BY <1>1 DEF Ids, Doc, DocIds, None
<1> QED
  BY <1>2 DEF MkEntry, Entry, None

\* At most two entries, the first of them on a condition.
LEMMA TwoEntries ==
  ASSUME NEW k, NEW e \in Entry, NEW b \in BOOLEAN, b => k \in Entry
  PROVE  LET es == (IF b THEN <<k>> ELSE <<>>) \o <<e>>
             fs == <<e>> \o (IF b THEN <<k>> ELSE <<>>)
         IN /\ es \in Seq(Entry) /\ fs \in Seq(Entry)
            /\ Len(es) = (IF b THEN 2 ELSE 1) /\ Len(fs) = Len(es)
            /\ IF b THEN es[1] = k /\ es[2] = e /\ fs[1] = e /\ fs[2] = k ELSE es[1] = e /\ fs[1] = e
<1>1. CASE b
  BY <1>1
<1>2. CASE ~b
  BY <1>2
<1> QED
  BY <1>1, <1>2

LEMMA NewRequestStands ==
  ASSUME LedgerInv, NEW d \in Ids(docs), PostedDocs(d), docs[d].kind = "REQUEST"
  PROVE  LET es == EntriesOf(d)
         IN /\ es \in Seq(Entry) /\ Stands(d, es)
            /\ es[1].commitment = d /\ es[1].component = "RESERVATION" /\ Len(es) = 1
            /\ es[1].amount = docs[d].amount
<1> DEFINE e == MkEntry(d, "PRE_COMMITMENT", "RESERVATION", docs[d].amount, d)
           es == EntriesOf(d)
<1>1. docs[d].amount \in Int /\ docs[d].amount > 0 /\ d # None
  BY AmountOf
<1>2. es = <<e>>
  BY DEF EntriesOf
<1>3. /\ e \in Entry /\ e.doc = d /\ e.type = "PRE_COMMITMENT" /\ e.line = docs[d].line
      /\ e.component = "RESERVATION" /\ e.amount = docs[d].amount /\ e.commitment = d /\ e.reverses = None
  BY <1>1, MkEntryIs
<1> HIDE DEF e, es
<1>4. es \in Seq(Entry) /\ Len(es) = 1 /\ DOMAIN es = {1} /\ es[1] = e
  BY <1>2, <1>3
<1>5. /\ d \in Ids(docs') /\ docs'[d].kind = "REQUEST" /\ docs'[d].line = docs[d].line
      /\ docs'[d].amount = docs[d].amount /\ docs'[d].status = "POSTED"
  BY DEF PostedDocs, StatusAfter
<1>6. EntryStands(docs', e)
  BY <1>1, <1>3, <1>5 DEF EntryStands, OnBooks, ComponentOf, BaseTypes, Commitments, InBooks
<1>7. Stands(d, es)
  BY <1>3, <1>4, <1>6 DEF Stands, BaseTypes, Commitments
<1> QED
  BY <1>3, <1>4, <1>7 DEF es

\* What is referred to, when an order or payment is posted.
LEMMA RefersTo ==
  ASSUME LedgerInv, NEW d \in Ids(docs), PostedDocs(d), docs[d].of # None, docs[d].kind # "REQUEST"
  PROVE  LET c == docs[d].of
         IN /\ c \in Ids(docs) /\ c # d /\ c \in Ids(docs')
            /\ docs[c].status \in InBooks /\ docs[c].line = docs[d].line
            /\ docs'[c].kind = docs[c].kind /\ docs'[c].line = docs[d].line /\ docs'[c].status \in InBooks
            /\ docs[d].kind = "ORDER" => docs[c].kind = "REQUEST"
            /\ docs[d].kind = "EXPENDITURE" => docs[c].kind = "ORDER"
            /\ docs[d].kind = "CANCELLATION" => docs[c].kind \in Commitments
            /\ docs[d].kind = "REVERSAL" => docs[c].kind # "REVERSAL"
            /\ ComponentOf(docs', c) = ComponentOf(docs, c)
            /\ Outstanding(docs, ledger, c) \in Int
<1> DEFINE c == docs[d].of
<1>1. DocRefers(docs, d) /\ docs[d] \in Doc /\ docs \in Seq(Doc)
  BY AmountOf DEF LedgerInv, DocsRefer, TypeOK
<1>2. /\ c \in 1 .. d - 1 /\ docs[c].status \in InBooks /\ docs[c].line = docs[d].line
      /\ docs[d].kind = "ORDER" => docs[c].kind = "REQUEST"
      /\ docs[d].kind = "EXPENDITURE" => docs[c].kind = "ORDER"
      /\ docs[d].kind = "CANCELLATION" => docs[c].kind \in Commitments
      /\ docs[d].kind = "REVERSAL" => docs[c].kind # "REVERSAL"
  BY <1>1 DEF DocRefers, IsOf, Doc, Kinds, Commitments
<1>3. c \in Ids(docs) /\ c # d
  BY <1>1, <1>2 DEF Ids
<1>4. /\ c \in Ids(docs') /\ docs'[c].kind = docs[c].kind /\ docs'[c].line = docs[d].line
      /\ docs'[c].status \in InBooks
  BY <1>2, <1>3 DEF PostedDocs, StatusAfter, InBooks
<1>5. Outstanding(docs, ledger, c) \in Int
  BY OutstandingInForce DEF LedgerInv, TypeOK
<1> HIDE DEF c
<1>6. ComponentOf(docs', c) = ComponentOf(docs, c)
  BY <1>4 DEF ComponentOf
<1> QED
  BY <1>2, <1>3, <1>4, <1>5, <1>6 DEF c

LEMMA NewOrderStands ==
  ASSUME LedgerInv, NEW d \in Ids(docs), PostedDocs(d), docs[d].kind = "ORDER"
  PROVE  LET es == EntriesOf(d)
             request == docs[d].of
         IN /\ es \in Seq(Entry) /\ Len(es) \in {1, 2} /\ Stands(d, es)
            /\ \A n \in DOMAIN es :
                 IF n = Len(es) THEN /\ es[n].commitment = d /\ es[n].component = "COMMITMENT"
                                     /\ es[n].amount = docs[d].amount
                 ELSE es[n].commitment = request /\ request # None
            /\ request # None /\ Outstanding(docs, ledger, request) > 0 => Len(es) = 2
<1> DEFINE request == docs[d].of
           held == IF request = None THEN 0 ELSE Outstanding(docs, ledger, request)
           e == MkEntry(d, "COMMITMENT", "COMMITMENT", docs[d].amount, d)
           k == MkEntry(d, "RESERVATION_RELEASE", "RESERVATION", -held, request)
           es == EntriesOf(d)
           b == held > 0
<1>1. docs[d].amount \in Int /\ docs[d].amount > 0 /\ d # None
  BY AmountOf
<1>2. es = (IF b THEN <<k>> ELSE <<>>) \o <<e>>
  BY DEF EntriesOf, OrderEntries, IfPositive
<1>3. /\ e \in Entry /\ e.doc = d /\ e.type = "COMMITMENT" /\ e.line = docs[d].line
      /\ e.component = "COMMITMENT" /\ e.amount = docs[d].amount /\ e.commitment = d /\ e.reverses = None
  BY <1>1, MkEntryIs
<1>4. held \in Int /\ (b => request # None)
  BY RefersTo
<1>5. /\ d \in Ids(docs') /\ docs'[d].kind = "ORDER" /\ docs'[d].line = docs[d].line
      /\ docs'[d].amount = docs[d].amount /\ docs'[d].status = "POSTED"
  BY DEF PostedDocs, StatusAfter
<1>6. b => /\ k \in Entry /\ k.doc = d /\ k.type = "RESERVATION_RELEASE" /\ k.line = docs[d].line
           /\ k.component = "RESERVATION" /\ k.amount < 0 /\ k.commitment = request /\ k.reverses = None
  <2> SUFFICES ASSUME b
               PROVE  /\ k \in Entry /\ k.doc = d /\ k.type = "RESERVATION_RELEASE" /\ k.line = docs[d].line
                      /\ k.component = "RESERVATION" /\ k.amount < 0 /\ k.commitment = request /\ k.reverses = None
    OBVIOUS
  <2>1. request \in Ids(docs) /\ -held \in Int /\ -held < 0 /\ -held # 0
    BY <1>4, RefersTo
  <2> HIDE DEF held, request
  <2> QED
    BY <2>1, MkEntryIs
<1>7. b => /\ request \in Ids(docs') /\ docs'[request].kind = "REQUEST"
           /\ docs'[request].line = docs[d].line /\ docs'[request].status \in InBooks
  BY <1>4, RefersTo
<1> HIDE DEF e, k, es, held, request, b
<1>8. EntryStands(docs', e)
  BY <1>1, <1>3, <1>5 DEF EntryStands, OnBooks, ComponentOf, BaseTypes, Commitments, InBooks
<1>9. b => EntryStands(docs', k)
  BY <1>1, <1>4, <1>5, <1>6, <1>7 DEF EntryStands, OnBooks, ComponentOf, BaseTypes, Commitments, InBooks
<1>10. b \in BOOLEAN
  BY DEF b
<1>11. /\ es \in Seq(Entry) /\ Len(es) = (IF b THEN 2 ELSE 1) /\ DOMAIN es = 1 .. Len(es)
       /\ IF b THEN es[1] = k /\ es[2] = e ELSE es[1] = e
  <2> DEFINE fs == (IF b THEN <<k>> ELSE <<>>) \o <<e>>
  <2>1. /\ fs \in Seq(Entry) /\ Len(fs) = (IF b THEN 2 ELSE 1)
        /\ IF b THEN fs[1] = k /\ fs[2] = e ELSE fs[1] = e
    BY <1>3, <1>6, <1>10, TwoEntries
  <2> HIDE DEF fs
  <2>2. es = fs
    BY <1>2 DEF fs
  <2> QED
    BY <2>1, <2>2, EntriesAre
<1>12. \A n \in DOMAIN es : IF n = Len(es) THEN es[n] = e ELSE b /\ es[n] = k
  BY <1>11
<1>13. Len(es) \in DOMAIN es /\ Len(es) \in {1, 2}
  BY <1>11
<1>14. Stands(d, es)
  BY <1>3, <1>6, <1>8, <1>9, <1>12, <1>13 DEF Stands, BaseTypes, Commitments
<1>15. request # None /\ Outstanding(docs, ledger, request) > 0 => Len(es) = 2
  BY <1>11 DEF b, held
<1>16. \A n \in DOMAIN es :
         IF n = Len(es) THEN es[n].commitment = d /\ es[n].component = "COMMITMENT" /\ es[n].amount = docs[d].amount
         ELSE es[n].commitment = request /\ request # None
  BY <1>3, <1>4, <1>6, <1>12
<1> QED
  BY <1>11, <1>13, <1>14, <1>15, <1>16 DEF es, request

LEMMA NewPaymentStands ==
  ASSUME LedgerInv, NEW d \in Ids(docs), PostedDocs(d), docs[d].kind = "EXPENDITURE"
  PROVE  LET es == EntriesOf(d)
         IN /\ es \in Seq(Entry) /\ Len(es) \in {1, 2} /\ Stands(d, es)
            /\ \A n \in DOMAIN es : es[n].commitment = docs[d].of
<1> DEFINE order == docs[d].of
           held == IF order = None THEN 0 ELSE Outstanding(docs, ledger, order)
           liquid == IF docs[d].amount < held THEN docs[d].amount ELSE held
           e == MkEntry(d, "ACTUAL_EXPENDITURE", "ACTUAL", docs[d].amount, order)
           k == MkEntry(d, "COMMITMENT_LIQUIDATION", "COMMITMENT", -liquid, order)
           es == EntriesOf(d)
           b == liquid > 0
<1>1. docs[d].amount \in Int /\ docs[d].amount > 0 /\ d # None
  BY AmountOf
<1>2. es = <<e>> \o (IF b THEN <<k>> ELSE <<>>)
  BY DEF EntriesOf, PaymentEntries, IfPositive
<1>3. order \in Ids(docs) \cup {None}
  BY RefersTo
<1>4. /\ e \in Entry /\ e.doc = d /\ e.type = "ACTUAL_EXPENDITURE" /\ e.line = docs[d].line
      /\ e.component = "ACTUAL" /\ e.amount = docs[d].amount /\ e.commitment = order /\ e.reverses = None
  BY <1>1, <1>3, MkEntryIs
<1>5. liquid \in Int /\ (b => order # None)
  <2>1. held \in Int /\ (held > 0 => order # None)
    BY RefersTo
  <2> HIDE DEF held
  <2> QED
    BY <1>1, <2>1
<1>6. /\ d \in Ids(docs') /\ docs'[d].kind = "EXPENDITURE" /\ docs'[d].line = docs[d].line
      /\ docs'[d].amount = docs[d].amount /\ docs'[d].status = "POSTED"
  BY DEF PostedDocs, StatusAfter
<1>7. b => /\ k \in Entry /\ k.doc = d /\ k.type = "COMMITMENT_LIQUIDATION" /\ k.line = docs[d].line
           /\ k.component = "COMMITMENT" /\ k.amount < 0 /\ k.commitment = order /\ k.reverses = None
  <2> SUFFICES ASSUME b
               PROVE  /\ k \in Entry /\ k.doc = d /\ k.type = "COMMITMENT_LIQUIDATION" /\ k.line = docs[d].line
                      /\ k.component = "COMMITMENT" /\ k.amount < 0 /\ k.commitment = order /\ k.reverses = None
    OBVIOUS
  <2>1. -liquid \in Int /\ -liquid < 0 /\ -liquid # 0
    BY <1>5
  <2> HIDE DEF liquid, order
  <2> QED
    BY <1>3, <2>1, MkEntryIs
<1>8. order # None => /\ order \in Ids(docs') /\ docs'[order].kind = "ORDER"
                      /\ docs'[order].line = docs[d].line /\ docs'[order].status \in InBooks
  BY RefersTo
<1> HIDE DEF e, k, es, liquid, held, order, b
<1>9. EntryStands(docs', e)
  BY <1>1, <1>4, <1>6, <1>8 DEF EntryStands, OnBooks, ComponentOf, BaseTypes, Commitments, InBooks
<1>10. b => EntryStands(docs', k)
  BY <1>1, <1>5, <1>6, <1>7, <1>8 DEF EntryStands, OnBooks, ComponentOf, BaseTypes, Commitments, InBooks
<1>11. b \in BOOLEAN
  BY DEF b
<1>12. /\ es \in Seq(Entry) /\ Len(es) = (IF b THEN 2 ELSE 1) /\ DOMAIN es = 1 .. Len(es)
       /\ IF b THEN es[1] = e /\ es[2] = k ELSE es[1] = e
  <2> DEFINE fs == <<e>> \o (IF b THEN <<k>> ELSE <<>>)
  <2>1. /\ fs \in Seq(Entry) /\ Len(fs) = (IF b THEN 2 ELSE 1)
        /\ IF b THEN fs[1] = e /\ fs[2] = k ELSE fs[1] = e
    BY <1>4, <1>7, <1>11, TwoEntries
  <2> HIDE DEF fs
  <2>2. es = fs
    BY <1>2 DEF fs
  <2> QED
    BY <2>1, <2>2, EntriesAre
<1>13. \A n \in DOMAIN es : es[n] = e \/ (b /\ es[n] = k)
  BY <1>12
<1>14. Stands(d, es)
  <2>1. \A n \in DOMAIN es : es[n].type \notin BaseTypes
    BY <1>4, <1>7, <1>13 DEF BaseTypes
  <2>2. docs[d].kind \notin Commitments
    BY DEF Commitments
  <2> QED
    BY <1>4, <1>7, <1>9, <1>10, <1>13, <2>1, <2>2 DEF Stands
<1>15. \A n \in DOMAIN es : es[n].commitment = order
  BY <1>4, <1>7, <1>13
<1> QED
  BY <1>12, <1>14, <1>15 DEF es, order

LEMMA NewCancellationStands ==
  ASSUME LedgerInv, NEW d \in Ids(docs), PostedDocs(d), docs[d].kind = "CANCELLATION"
  PROVE  LET es == EntriesOf(d)
         IN es \in Seq(Entry) /\ Len(es) = 1 /\ Stands(d, es) /\ es[1].commitment = docs[d].of
<1> DEFINE c == docs[d].of
           e == MkEntry(d, "CANCELLATION", ComponentOf(docs, c), -docs[d].amount, c)
           es == EntriesOf(d)
<1>1. docs[d].amount \in Int /\ docs[d].amount > 0 /\ d # None
  BY AmountOf
<1>2. es = <<e>>
  BY DEF EntriesOf
<1>3. c # None
  BY DEF LedgerInv, DocsRefer, DocRefers, IsOf, None
<1>4. /\ c \in Ids(docs) /\ c \in Ids(docs') /\ docs[c].kind \in Commitments
      /\ docs'[c].kind = docs[c].kind
      /\ docs'[c].line = docs[d].line /\ docs'[c].status \in InBooks
      /\ ComponentOf(docs', c) = ComponentOf(docs, c)
  BY <1>3, RefersTo
<1>5. ComponentOf(docs, c) \in {"RESERVATION", "COMMITMENT"}
  BY DEF ComponentOf
<1>6. /\ e \in Entry /\ e.doc = d /\ e.type = "CANCELLATION" /\ e.line = docs[d].line
      /\ e.component = ComponentOf(docs, c) /\ e.amount = -docs[d].amount /\ e.commitment = c /\ e.reverses = None
  <2>1. -docs[d].amount \in Int /\ -docs[d].amount # 0
    BY <1>1
  <2> QED
    BY <1>4, <1>5, <2>1, MkEntryIs
<1>7. /\ d \in Ids(docs') /\ docs'[d].kind = "CANCELLATION" /\ docs'[d].status = "POSTED"
      /\ docs'[d].line = docs[d].line
  BY DEF PostedDocs, StatusAfter
<1> HIDE DEF e, es, c
<1>8. es \in Seq(Entry) /\ Len(es) = 1 /\ DOMAIN es = {1} /\ es[1] = e
  BY <1>2, <1>6
<1>9. EntryStands(docs', e)
  <2>1. OnBooks(docs', e)
    BY <1>4, <1>6 DEF OnBooks
  <2>2. e.amount < 0
    BY <1>1, <1>6
  <2> QED
    BY <1>1, <1>3, <1>4, <1>5, <1>6, <1>7, <2>1, <2>2 DEF EntryStands, BaseTypes, InBooks
<1>10. Stands(d, es)
  BY <1>6, <1>8, <1>9 DEF Stands, BaseTypes, Commitments
<1> QED
  BY <1>6, <1>8, <1>10 DEF es, c

\* Entries that reverse those in force of the document d reverses, each once.
Reverses(d, es) ==
  /\ \A n \in DOMAIN es :
       LET e == es[n]
           r == ledger[e.reverses]
       IN /\ e.doc = d /\ e.type = "REVERSAL"
          /\ e.reverses \in DOMAIN ledger /\ e.reverses # None
          /\ r.type # "REVERSAL" /\ r.doc = docs[d].of /\ ~IsReversed(ledger, e.reverses)
          /\ e.line = r.line /\ e.component = r.component /\ e.commitment = r.commitment
          /\ e.amount = -r.amount
  /\ \A m, n \in DOMAIN es : m # n => es[m].reverses # es[n].reverses
  /\ \A i \in DOMAIN ledger :
       ledger[i].type # "REVERSAL" /\ ledger[i].doc = docs[d].of /\ ~IsReversed(ledger, i) =>
         \E n \in DOMAIN es : es[n].reverses = i

LEMMA OppositeIs ==
  ASSUME NEW d \in Nat \ {None}, NEW i \in DOMAIN ledger, ledger \in Seq(Entry)
  PROVE  LET e == Opposite(d, i)
         IN /\ e \in Entry /\ e.doc = d /\ e.type = "REVERSAL" /\ e.reverses = i
            /\ e.line = ledger[i].line /\ e.component = ledger[i].component
            /\ e.commitment = ledger[i].commitment /\ e.amount = -ledger[i].amount
<1> DEFINE r == ledger[i]
           e == [doc |-> d, type |-> "REVERSAL", line |-> r.line, component |-> r.component,
                 amount |-> -r.amount, commitment |-> r.commitment, reverses |-> i]
<1>1. r \in Entry /\ i \in Nat
  BY EntriesAre
<1>2. Opposite(d, i) = [r EXCEPT !.doc = d, !.type = "REVERSAL", !.amount = -@, !.reverses = i]
  BY DEF Opposite
<1> HIDE DEF r
<1>3. Opposite(d, i) = e
  BY <1>1, <1>2 DEF Entry
<1>4. e \in Entry
  BY <1>1 DEF Entry, DocIds
<1> HIDE DEF e
<1> QED
  BY <1>3, <1>4 DEF e, r

LEMMA NewReversalReverses ==
  ASSUME LedgerInv, NEW d \in Ids(docs), docs[d].kind = "REVERSAL"
  PROVE  EntriesOf(d) \in Seq(Entry) /\ Reverses(d, EntriesOf(d))
<1> DEFINE todo == {i \in 1 .. Len(ledger) : /\ ledger[i].doc = docs[d].of
                                             /\ ledger[i].type # "REVERSAL"
                                             /\ \A j \in 1 .. Len(ledger) : ledger[j].reverses # i}
           order == InOrder(todo)
           c == Cardinality(todo)
           es == EntriesOf(d)
<1>1. ledger \in Seq(Entry) /\ d \in Nat \ {None}
  BY AmountOf DEF LedgerInv, TypeOK, Ids
<1>2. \A i : i \in todo <=> /\ i \in DOMAIN ledger /\ ledger[i].type # "REVERSAL"
                            /\ ledger[i].doc = docs[d].of /\ ~IsReversed(ledger, i)
  BY <1>1, EntriesAre DEF IsReversed
<1>3. todo \subseteq DOMAIN ledger /\ IsFiniteSet(todo) /\ todo \subseteq Nat
  BY <1>1, <1>2, EntriesAre, FS_Subset
<1>4. es = [n \in 1 .. Len(order) |-> Opposite(d, order[n])]
  BY DEF EntriesOf, ReversalEntries
<1> HIDE DEF todo, es
<1>5. /\ c \in Nat /\ order \in [1 .. c -> todo] /\ Len(order) = c
      /\ \A m, n \in 1 .. c : m < n => order[m] < order[n]
      /\ \A x \in todo : \E n \in 1 .. c : order[n] = x
  BY <1>3, InOrderIs
<1> HIDE DEF order, c
<1>6. DOMAIN es = 1 .. c /\ es = [n \in 1 .. c |-> Opposite(d, order[n])]
  BY <1>4, <1>5
<1>7. ASSUME NEW n \in 1 .. c
      PROVE  LET e == es[n]
                 i == order[n]
             IN /\ i \in todo /\ e \in Entry /\ e.doc = d /\ e.type = "REVERSAL" /\ e.reverses = i
                /\ e.line = ledger[i].line /\ e.component = ledger[i].component
                /\ e.commitment = ledger[i].commitment /\ e.amount = -ledger[i].amount
  <2>1. order[n] \in todo /\ order[n] \in DOMAIN ledger /\ es[n] = Opposite(d, order[n])
    BY <1>3, <1>5, <1>6
  <2> QED
    BY <1>1, <2>1, OppositeIs
<1>8. es \in Seq(Entry)
  <2>1. es \in [1 .. c -> Entry]
    BY <1>6, <1>7
  <2> QED
    BY <1>5, <2>1
<1>9. \A m, n \in 1 .. c : m # n => order[m] # order[n]
  <2> SUFFICES ASSUME NEW m \in 1 .. c, NEW n \in 1 .. c, m < n PROVE order[m] # order[n]
    BY <1>5
  <2>1. order[m] < order[n] /\ order[m] \in Nat /\ order[n] \in Nat
    BY <1>3, <1>5
  <2> QED
    BY <2>1
<1>10. \A i \in todo : i # None
  BY <1>1, <1>3, EntriesAre DEF None
<1>11. Reverses(d, es)
  BY <1>2, <1>5, <1>6, <1>7, <1>9, <1>10 DEF Reverses
<1> QED
  BY <1>8, <1>11 DEF es

-----------------------------------------------------------------------------
(* The ledger with the entries of a posting, or of a closing.              *)

LEMMA Places ==
  ASSUME NEW L \in Seq(Entry), NEW es \in Seq(Entry)
  PROVE  LET M == L \o es
         IN /\ M \in Seq(Entry) /\ DOMAIN L \subseteq DOMAIN M
            /\ \A i \in DOMAIN L : M[i] = L[i] /\ i <= Len(L) /\ i # None
            /\ \A n \in DOMAIN es : /\ Len(L) + n \in DOMAIN M /\ M[Len(L) + n] = es[n]
                                    /\ Len(L) + n > Len(L) /\ Len(L) + n \notin DOMAIN L
            /\ \A i \in DOMAIN M : i \in DOMAIN L \/ \E n \in DOMAIN es : i = Len(L) + n
<1> DEFINE M == L \o es
<1>1. M \in Seq(Entry) /\ Len(M) = Len(L) + Len(es)
  OBVIOUS
<1>2. DOMAIN L = 1 .. Len(L) /\ DOMAIN es = 1 .. Len(es) /\ DOMAIN M = 1 .. Len(L) + Len(es)
  BY <1>1, EntriesAre
<1>3. ASSUME NEW i \in DOMAIN M, i \notin DOMAIN L PROVE \E n \in DOMAIN es : i = Len(L) + n
  <2>1. i - Len(L) \in DOMAIN es /\ i = Len(L) + (i - Len(L))
    BY <1>2, <1>3
  <2> QED
    BY <2>1
<1> QED
  BY <1>1, <1>2, <1>3 DEF None

ReversesNew(L, e) ==
  LET r == L[e.reverses]
  IN /\ e.reverses \in DOMAIN L /\ ~IsReversed(L, e.reverses)
     /\ r.type # "REVERSAL" /\ r.doc # None
     /\ e.line = r.line /\ e.component = r.component /\ e.commitment = r.commitment
     /\ e.amount = -r.amount

\* Entries that can be appended.
NewOK(E, L, es) ==
  /\ \A n \in DOMAIN es :
       IF es[n].type = "REVERSAL" THEN ReversesNew(L, es[n])
       ELSE es[n].reverses = None /\ EntryStands(E, es[n])
  /\ \A m, n \in DOMAIN es : m # n /\ es[m].reverses # None => es[m].reverses # es[n].reverses

LEMMA AppendedOK ==
  ASSUME NEW D \in Seq(Doc), NEW E \in Seq(Doc), Advances(D, E),
         NEW L \in Seq(Entry), NEW es \in Seq(Entry), EntriesOK(D, L), NewOK(E, L, es)
  PROVE  EntriesOK(E, L \o es)
<1> DEFINE M == L \o es
<1>1. /\ M \in Seq(Entry) /\ DOMAIN L \subseteq DOMAIN M
      /\ \A i \in DOMAIN L : M[i] = L[i] /\ i <= Len(L) /\ i # None
      /\ \A n \in DOMAIN es : Len(L) + n \in DOMAIN M /\ M[Len(L) + n] = es[n] /\ Len(L) + n > Len(L)
      /\ \A i \in DOMAIN M : i \in DOMAIN L \/ \E n \in DOMAIN es : i = Len(L) + n
  BY Places
<1>2. \A i \in DOMAIN L : EntryOK(E, M, i)
  BY OldEntryOK
<1> HIDE DEF M
<1>3. ASSUME NEW n \in DOMAIN es PROVE EntryOK(E, M, Len(L) + n)
  <2>1. M[Len(L) + n] = es[n] /\ n \in Nat /\ Len(L) \in Nat
    BY <1>1, EntriesAre
  <2>2. CASE es[n].type = "REVERSAL"
    <3> DEFINE j == es[n].reverses
    <3>1. ReversesNew(L, es[n])
      BY <2>2 DEF NewOK
    <3>2. j \in DOMAIN L /\ M[j] = L[j] /\ j # None /\ j \in 1 .. (Len(L) + n) - 1
      BY <1>1, <2>1, <3>1, EntriesAre DEF ReversesNew
    <3>3. EntryReverses(M, Len(L) + n)
      BY <2>1, <3>1, <3>2 DEF ReversesNew, EntryReverses
    <3> QED
      BY <2>1, <2>2, <3>2, <3>3 DEF EntryOK
  <2>3. CASE es[n].type # "REVERSAL"
    BY <2>1, <2>3 DEF NewOK, EntryOK
  <2> QED
    BY <2>2, <2>3
<1> QED
  BY <1>1, <1>2, <1>3 DEF EntriesOK, M

\* What is reversed after es was appended.
ReversedAfter(L, es) ==
  /\ \A i \in DOMAIN L :
       IsReversed(L \o es, i) <=> IsReversed(L, i) \/ \E n \in DOMAIN es : es[n].reverses = i
  /\ \A n \in DOMAIN es : ~IsReversed(L \o es, Len(L) + n)

LEMMA AppendedReversedOnce ==
  ASSUME NEW D, NEW E, NEW L \in Seq(Entry), NEW es \in Seq(Entry),
         EntriesOK(D, L), ReversedOnce(L), NewOK(E, L, es)
  PROVE  ReversedOnce(L \o es) /\ ReversedAfter(L, es)
<1> DEFINE M == L \o es
<1>1. /\ M \in Seq(Entry) /\ DOMAIN L \subseteq DOMAIN M
      /\ \A i \in DOMAIN L : M[i] = L[i] /\ i <= Len(L) /\ i # None
      /\ \A n \in DOMAIN es : Len(L) + n \in DOMAIN M /\ M[Len(L) + n] = es[n] /\ Len(L) + n > Len(L)
                              /\ Len(L) + n \notin DOMAIN L
      /\ \A i \in DOMAIN M : i \in DOMAIN L \/ \E n \in DOMAIN es : i = Len(L) + n
  BY Places
<1>2. \A i \in DOMAIN L : L[i].reverses = None \/ L[i].reverses \in DOMAIN L
  <2> SUFFICES ASSUME NEW i \in DOMAIN L PROVE L[i].reverses = None \/ L[i].reverses \in DOMAIN L
    OBVIOUS
  <2>1. EntryOK(D, L, i) /\ i \in DOMAIN L
    BY DEF EntriesOK
  <2> QED
    BY <2>1, EntriesAre DEF EntryOK, EntryReverses
<1>3. \A n \in DOMAIN es : \/ es[n].reverses = None
                           \/ es[n].reverses \in DOMAIN L /\ ~IsReversed(L, es[n].reverses)
  BY DEF NewOK, ReversesNew
<1>4. \A n \in DOMAIN es : Len(L) + n # None
  BY EntriesAre DEF None
<1> HIDE DEF M
<1>5. ASSUME NEW i \in DOMAIN M, NEW j \in DOMAIN M, i # j, M[i].reverses # None
      PROVE  M[i].reverses # M[j].reverses
  <2>1. CASE i \in DOMAIN L /\ j \in DOMAIN L
    BY <1>1, <1>5, <2>1 DEF ReversedOnce
  <2>2. ASSUME NEW k \in DOMAIN L, NEW n \in DOMAIN es, es[n].reverses # None
        PROVE  L[k].reverses # es[n].reverses
    BY <1>3, <2>2 DEF IsReversed
  <2>3. CASE i \in DOMAIN L /\ j \notin DOMAIN L
    BY <1>1, <1>5, <2>2, <2>3
  <2>4. CASE i \notin DOMAIN L /\ j \in DOMAIN L
    BY <1>1, <1>5, <2>2, <2>4
  <2>5. CASE i \notin DOMAIN L /\ j \notin DOMAIN L
    BY <1>1, <1>5, <2>5 DEF NewOK
  <2> QED
    BY <2>1, <2>3, <2>4, <2>5
<1>6. ASSUME NEW i \in DOMAIN L
      PROVE  IsReversed(M, i) <=> IsReversed(L, i) \/ \E n \in DOMAIN es : es[n].reverses = i
  BY <1>1 DEF IsReversed
<1>7. ASSUME NEW n \in DOMAIN es PROVE ~IsReversed(M, Len(L) + n)
  <2> SUFFICES ASSUME NEW j \in DOMAIN M, M[j].reverses = Len(L) + n PROVE FALSE
    BY DEF IsReversed
  <2>1. Len(L) + n # None /\ Len(L) + n \notin DOMAIN L
    BY <1>1, <1>4
  <2> QED
    BY <1>1, <1>2, <1>3, <2>1
<1> QED
  BY <1>5, <1>6, <1>7 DEF ReversedOnce, ReversedAfter, M

\* What is on a line is what was and what is appended.
LEMMA LineAppended ==
  ASSUME NEW L \in Seq(Entry), NEW es \in Seq(Entry), NEW l, NEW c
  PROVE  Total(L \o es, OnLine(L \o es, l, c)) = Total(L, OnLine(L, l, c)) + Total(es, OnLine(es, l, c))
<1> DEFINE M == L \o es
           S == OnLine(L, l, c)
           T == OnLine(es, l, c)
           U == Shifted(Len(L), T)
<1>1. /\ DOMAIN L \subseteq DOMAIN M /\ \A i \in DOMAIN L : M[i] = L[i]
      /\ \A n \in DOMAIN es : Len(L) + n \in DOMAIN M /\ M[Len(L) + n] = es[n]
      /\ \A i \in DOMAIN M : i \in DOMAIN L \/ \E n \in DOMAIN es : i = Len(L) + n
  BY Places
<1>2. OnLine(M, l, c) = S \cup U
  <2> HIDE DEF M
  <2>1. ASSUME NEW i \in OnLine(M, l, c) PROVE i \in S \cup U
    BY <1>1 DEF OnLine, Shifted
  <2>2. ASSUME NEW i \in S \cup U PROVE i \in OnLine(M, l, c)
    BY <1>1 DEF OnLine, Shifted
  <2> QED
    BY <2>1, <2>2
<1>3. S \subseteq DOMAIN L /\ T \subseteq DOMAIN es
  BY DEF OnLine
<1> HIDE DEF S, T
<1>4. Total(M, S \cup U) = Total(L, S) + Total(es, T)
  BY <1>3, TotalAppended
<1> QED
  BY <1>2, <1>4 DEF S, T

\* The balance after the entries.
LEMMA AppendedBalance ==
  ASSUME LedgerInv, NEW es \in Seq(Entry), ledger' = ledger \o es, balance' = AfterPosting(es)
  PROVE  balance' \in [Lines -> Positions] /\ BalanceIsLedger'
<1>1. ledger \in Seq(Entry) /\ balance \in [Lines -> Positions] /\ BalanceIsLedger
  BY DEF LedgerInv, TypeOK
<1>2. ASSUME NEW l, NEW c
      PROVE  Moved(es, l, c) = Total(es, OnLine(es, l, c)) /\ Moved(es, l, c) \in Int
  <2>1. Moved(es, l, c) = Total(es, OnLine(es, l, c))
    BY DEF Moved, OnLine
  <2>2. OnLine(es, l, c) \subseteq DOMAIN es
    BY DEF OnLine
  <2> QED
    BY <2>1, <2>2, TotalType
<1>3. \A l \in Lines : balance'[l] = [c \in Components |-> balance[l][c] + Moved(es, l, c)]
  BY DEF AfterPosting, WithDeltas
<1>4. balance' \in [Lines -> Positions]
  <2>1. \A l \in Lines : balance[l] \in [Components -> Int]
    BY <1>1 DEF Positions
  <2>2. ASSUME NEW l \in Lines PROVE balance'[l] \in [Components -> Int]
    <3>1. \A c \in Components : balance[l][c] + Moved(es, l, c) \in Int
      BY <1>2, <2>1
    <3> QED
      BY <1>3, <3>1
  <2>3. balance' = [l \in Lines |-> balance'[l]]
    BY DEF AfterPosting
  <2> QED
    BY <2>2, <2>3 DEF Positions
<1>5. ASSUME NEW l \in Lines, NEW c \in {"RESERVATION", "COMMITMENT"}
      PROVE  balance'[l][c] = Total(ledger', OnLine(ledger', l, c))
  <2>1. c \in Components
    BY DEF Components
  <2>2. balance'[l][c] = balance[l][c] + Moved(es, l, c)
    BY <1>3, <2>1
  <2>3. balance[l][c] = Total(ledger, OnLine(ledger, l, c))
    BY <1>1 DEF BalanceIsLedger
  <2>4. Total(ledger \o es, OnLine(ledger \o es, l, c))
          = Total(ledger, OnLine(ledger, l, c)) + Total(es, OnLine(es, l, c))
    BY <1>1, LineAppended
  <2> QED
    BY <1>2, <2>2, <2>3, <2>4
<1> QED
  BY <1>4, <1>5 DEF BalanceIsLedger

-----------------------------------------------------------------------------
(* A posting keeps the part of the invariant about the ledger.             *)

\* What is posted, and how.
Posts(d, es) ==
  /\ PostedDocs(d) /\ Advances(docs, docs')
  /\ docs[d].status = "PENDING"
  /\ docs[d].kind = "REVERSAL" => docs[docs[d].of].status = "POSTED"
  /\ es \in Seq(Entry) /\ es = EntriesOf(d)
  /\ ledger' = ledger \o es /\ balance' = AfterPosting(es)
  /\ NewOK(docs', ledger, es)
  /\ OutstandingNonNegative(es)
  /\ IF docs[d].kind = "REVERSAL" THEN Reverses(d, es) ELSE Stands(d, es)

LEMMA PostPosts ==
  ASSUME LedgerInv, NEW d \in Ids(docs), Post(d)
  PROVE  Posts(d, EntriesOf(d))
<1> DEFINE es == EntriesOf(d)
<1>1. PostedDocs(d)
  BY PostDocs
<1>2. /\ docs[d].status = "PENDING" /\ Valid(d) /\ OutstandingNonNegative(es)
      /\ ledger' = ledger \o es /\ balance' = AfterPosting(es)
  BY DEF Post
<1>3. docs[d].kind = "REVERSAL" => docs[docs[d].of].status = "POSTED"
  BY <1>2 DEF Valid, Reversible
<1>4. docs \in Seq(Doc) /\ docs[d].kind \in Kinds /\ Len(docs) \in Nat
  BY AmountOf DEF LedgerInv, TypeOK, Doc
<1>5. Advances(docs, docs')
  <2>1. \A k \in Ids(docs) : docs[k].status \in InBooks => StatusAfter(d, k) \in InBooks
    BY <1>2 DEF StatusAfter, InBooks
  <2> QED
    BY <1>1, <1>4, <2>1 DEF PostedDocs, Advances
<1>6. es \in Seq(Entry) /\ IF docs[d].kind = "REVERSAL" THEN Reverses(d, es) ELSE Stands(d, es)
  <2> HIDE DEF es
  <2>1. CASE docs[d].kind = "REVERSAL"
    BY <2>1, NewReversalReverses DEF es
  <2>2. CASE docs[d].kind = "REQUEST"
    BY <1>1, <2>2, NewRequestStands DEF es
  <2>3. CASE docs[d].kind = "ORDER"
    BY <1>1, <2>3, NewOrderStands DEF es
  <2>4. CASE docs[d].kind = "EXPENDITURE"
    BY <1>1, <2>4, NewPaymentStands DEF es
  <2>5. CASE docs[d].kind = "CANCELLATION"
    BY <1>1, <2>5, NewCancellationStands DEF es
  <2> QED
    BY <1>4, <2>1, <2>2, <2>3, <2>4, <2>5 DEF Kinds, Commitments
<1> HIDE DEF es
<1>7. NewOK(docs', ledger, es)
  <2>1. CASE docs[d].kind = "REVERSAL"
    <3>1. docs[d].of # None
      BY <2>1 DEF LedgerInv, DocsRefer, DocRefers, IsOf, None
    <3> QED
      BY <1>6, <2>1, <3>1 DEF Reverses, NewOK, ReversesNew
  <2>2. CASE docs[d].kind # "REVERSAL"
    BY <1>6, <2>2 DEF Stands, NewOK
  <2> QED
    BY <2>1, <2>2
<1> QED
  BY <1>1, <1>2, <1>3, <1>5, <1>6, <1>7 DEF Posts, es

LEMMA PostKeepsTogether ==
  ASSUME LedgerInv, NEW d \in Ids(docs), NEW es, Posts(d, es)
  PROVE  ReversedTogether(docs', ledger')
<1>1. /\ ledger \in Seq(Entry) /\ es \in Seq(Entry) /\ ledger' = ledger \o es
      /\ EntriesOK(docs, ledger) /\ ReversedOnce(ledger) /\ ReversedTogether(docs, ledger)
      /\ NewOK(docs', ledger, es) /\ PostedDocs(d)
  BY DEF LedgerInv, TypeOK, Posts
<1>2. /\ \A i \in DOMAIN ledger : ledger'[i] = ledger[i] /\ i # None
      /\ \A n \in DOMAIN es : ledger'[Len(ledger) + n] = es[n]
      /\ \A i \in DOMAIN ledger' : i \in DOMAIN ledger \/ \E n \in DOMAIN es : i = Len(ledger) + n
  BY <1>1, Places
<1>3. /\ \A i \in DOMAIN ledger :
           IsReversed(ledger', i) <=> IsReversed(ledger, i) \/ \E n \in DOMAIN es : es[n].reverses = i
      /\ \A n \in DOMAIN es : ~IsReversed(ledger', Len(ledger) + n)
  <2>1. ReversedAfter(ledger, es)
    BY <1>1, AppendedReversedOnce
  <2> QED
    BY <1>1, <2>1 DEF ReversedAfter
<1>4. \A k \in Ids(docs) : docs'[k].status = StatusAfter(d, k)
  BY <1>1 DEF PostedDocs
<1>5. ASSUME NEW i \in DOMAIN ledger, ledger[i].type # "REVERSAL", ledger[i].doc # None
      PROVE  IsReversed(ledger', i) <=> docs'[ledger[i].doc].status = "REVERSED"
  <2> DEFINE k == ledger[i].doc
  <2>1. k \in Ids(docs) /\ docs[k].status \in InBooks
    BY <1>1, <1>5 DEF EntriesOK, EntryOK, EntryStands
  <2>2. k # d
    BY <2>1 DEF Posts, InBooks
  <2>3. IsReversed(ledger, i) <=> docs[k].status = "REVERSED"
    BY <1>1, <1>5 DEF ReversedTogether
  <2>4. CASE docs[d].kind # "REVERSAL"
    <3>1. \A n \in DOMAIN es : es[n].reverses # i
      BY <1>2, <2>4 DEF Posts, Stands
    <3> QED
      BY <1>3, <1>4, <2>1, <2>2, <2>3, <2>4, <3>1 DEF StatusAfter
  <2>5. CASE docs[d].kind = "REVERSAL" /\ k = docs[d].of
    <3>1. ~IsReversed(ledger, i)
      BY <2>3, <2>5 DEF Posts
    <3>2. \E n \in DOMAIN es : es[n].reverses = i
      BY <1>5, <2>5, <3>1 DEF Posts, Reverses
    <3>3. docs'[k].status = "REVERSED"
      BY <1>4, <2>1, <2>2, <2>5 DEF StatusAfter
    <3> QED
      BY <1>3, <3>2, <3>3
  <2>6. CASE docs[d].kind = "REVERSAL" /\ k # docs[d].of
    <3>1. \A n \in DOMAIN es : es[n].reverses # i
      BY <2>6 DEF Posts, Reverses
    <3>2. docs'[k].status = docs[k].status
      BY <1>4, <2>1, <2>2, <2>6 DEF StatusAfter
    <3> QED
      BY <1>3, <2>3, <3>1, <3>2
  <2> QED
    BY <2>4, <2>5, <2>6
<1>6. ASSUME NEW n \in DOMAIN es, es[n].type # "REVERSAL"
      PROVE  ~IsReversed(ledger', Len(ledger) + n) /\ docs'[es[n].doc].status # "REVERSED"
  <2>1. es[n].doc = d
    BY <1>6 DEF Posts, Stands, Reverses
  <2>2. docs'[d].status = "POSTED"
    BY <1>4 DEF StatusAfter
  <2> QED
    BY <1>3, <2>1, <2>2
<1> QED
  BY <1>2, <1>5, <1>6 DEF ReversedTogether

LEMMA PostEntersOnce ==
  ASSUME LedgerInv, NEW d \in Ids(docs), NEW es, Posts(d, es)
  PROVE  EnteredOnce(docs', ledger')
<1>1. /\ ledger \in Seq(Entry) /\ es \in Seq(Entry) /\ ledger' = ledger \o es
      /\ EntriesOK(docs, ledger) /\ EnteredOnce(docs, ledger)
      /\ NewOK(docs', ledger, es) /\ PostedDocs(d) /\ d # None
  BY AmountOf DEF LedgerInv, TypeOK, Posts
<1>2. /\ DOMAIN ledger \subseteq DOMAIN ledger'
      /\ \A i \in DOMAIN ledger : ledger'[i] = ledger[i]
      /\ \A n \in DOMAIN es : Len(ledger) + n \in DOMAIN ledger' /\ ledger'[Len(ledger) + n] = es[n]
      /\ \A i \in DOMAIN ledger' : i \in DOMAIN ledger \/ \E n \in DOMAIN es : i = Len(ledger) + n
  BY <1>1, Places
<1>3. /\ Ids(docs') = Ids(docs)
      /\ \A k \in Ids(docs) : docs'[k].kind = docs[k].kind /\ docs'[k].status = StatusAfter(d, k)
  BY <1>1 DEF PostedDocs
<1>4. ASSUME NEW n \in DOMAIN es, es[n].type \in BaseTypes
      PROVE  Stands(d, es) /\ es[n].commitment = d
  <2>1. Stands(d, es)
    BY <1>4 DEF Posts, Reverses, BaseTypes
  <2>2. EntryStands(docs', es[n]) /\ es[n].doc = d
    BY <2>1 DEF Stands
  <2> QED
    BY <1>4, <2>1, <2>2 DEF EntryStands
<1>5. ASSUME NEW i \in DOMAIN ledger PROVE ledger[i].commitment # d
  <2>1. docs[d].status \notin InBooks
    BY DEF Posts, InBooks
  <2> QED
    BY <1>1, <2>1, EntriesBelong DEF Belongs, OnBooks
<1>6. ASSUME NEW c \in Ids(docs'), docs'[c].kind \in Commitments, docs'[c].status \in InBooks
      PROVE  \E i \in DOMAIN ledger' : IsBase(ledger', c, i)
  <2>1. CASE c # d
    <3>1. docs[c].status \in InBooks
      BY <1>3, <1>6, <2>1 DEF StatusAfter, InBooks, Posts
    <3>2. PICK i \in DOMAIN ledger : IsBase(ledger, c, i)
      BY <1>1, <1>3, <1>6, <3>1 DEF EnteredOnce
    <3> QED
      BY <1>2, <3>2 DEF IsBase
  <2>2. CASE c = d
    <3>1. docs[d].kind \in Commitments
      BY <1>3, <1>6, <2>2
    <3>2. Stands(d, es)
      BY <3>1 DEF Posts, Commitments
    <3>3. PICK n \in DOMAIN es : es[n].type \in BaseTypes
      BY <3>1, <3>2 DEF Stands
    <3> QED
      BY <1>2, <1>4, <2>2, <3>3 DEF IsBase
  <2> QED
    BY <2>1, <2>2
<1>7. ASSUME NEW i \in DOMAIN ledger', NEW j \in DOMAIN ledger', NEW c \in Ids(docs'),
             IsBase(ledger', c, i), IsBase(ledger', c, j)
      PROVE  i = j
  <2>1. CASE i \in DOMAIN ledger /\ j \in DOMAIN ledger
    <3>1. IsBase(ledger, c, i) /\ IsBase(ledger, c, j)
      BY <1>2, <1>7, <2>1 DEF IsBase
    <3> QED
      BY <1>1, <1>3, <2>1, <3>1 DEF EnteredOnce
  <2>2. ASSUME NEW k \in DOMAIN ledger, NEW n \in DOMAIN es,
               IsBase(ledger', c, k), IsBase(ledger', c, Len(ledger) + n)
        PROVE  FALSE
    <3>1. es[n].type \in BaseTypes /\ es[n].commitment = c /\ ledger[k].commitment = c
      BY <1>2, <2>2 DEF IsBase
    <3> QED
      BY <1>4, <1>5, <3>1
  <2>3. ASSUME NEW m \in DOMAIN es, NEW n \in DOMAIN es,
               IsBase(ledger', c, Len(ledger) + m), IsBase(ledger', c, Len(ledger) + n)
        PROVE  m = n
    <3>1. es[m].type \in BaseTypes /\ es[n].type \in BaseTypes
      BY <1>2, <2>3 DEF IsBase
    <3> QED
      BY <1>4, <3>1 DEF Stands
  <2> QED
    BY <1>2, <1>7, <2>1, <2>2, <2>3
<1> QED
  BY <1>6, <1>7 DEF EnteredOnce

LEMMA PostLeavesNoLess ==
  ASSUME LedgerInv, NEW d \in Ids(docs), NEW es, Posts(d, es)
  PROVE  NothingBelowZero'
<1>1. /\ ledger \in Seq(Entry) /\ es \in Seq(Entry) /\ ledger' = ledger \o es
      /\ EntriesOK(docs, ledger) /\ NothingBelowZero
      /\ PostedDocs(d) /\ docs \in Seq(Doc) /\ docs' \in Seq(Doc) /\ Advances(docs, docs')
      /\ Ids(docs') = Ids(docs) /\ OutstandingNonNegative(es)
  BY DEF LedgerInv, TypeOK, Posts, PostedDocs
<1> SUFFICES ASSUME NEW c \in Ids(docs'), docs'[c].kind \in Commitments
             PROVE  Outstanding(docs', ledger', c) >= 0
  BY DEF NothingBelowZero
<1>2. c \in Ids(docs) /\ docs[c].kind \in Commitments /\ c # None
      /\ ComponentOf(docs', c) = ComponentOf(docs, c)
  BY <1>1 DEF Advances, Ids, None, ComponentOf
<1>3. CASE \A n \in DOMAIN es : es[n].commitment # c \/ es[n].component # ComponentOf(docs, c)
  <2>1. Outstanding(docs', ledger \o es, c) = Outstanding(docs, ledger, c)
    BY <1>1, <1>2, <1>3, UntouchedHolds
  <2> QED
    BY <1>1, <1>2, <2>1 DEF NothingBelowZero
<1>4. ASSUME NEW n \in DOMAIN es, es[n].commitment = c, es[n].component = ComponentOf(docs, c)
      PROVE  Outstanding(docs', ledger', c) >= 0
  <2>1. es[n].component # "ACTUAL" /\ n \in 1 .. Len(es)
    BY <1>1, <1>4, EntriesAre DEF ComponentOf
  <2>2. Total(ledger', {i \in DOMAIN ledger' : /\ ledger'[i].commitment = es[n].commitment
                                              /\ ledger'[i].component = es[n].component}) >= 0
    BY <1>1, <1>2, <1>4, <2>1 DEF OutstandingNonNegative
  <2>3. OnCommitment(docs', ledger', c) =
          {i \in DOMAIN ledger' : /\ ledger'[i].commitment = es[n].commitment
                                  /\ ledger'[i].component = es[n].component}
    BY <1>2, <1>4 DEF OnCommitment
  <2> QED
    BY <2>2, <2>3 DEF Outstanding
<1> QED
  BY <1>3, <1>4

LEMMA PostKeepsLedger ==
  ASSUME LedgerInv, NEW d \in Ids(docs), NEW es, Posts(d, es)
  PROVE  LedgerInv'
<1>1. /\ ledger \in Seq(Entry) /\ es \in Seq(Entry) /\ ledger' = ledger \o es
      /\ EntriesOK(docs, ledger) /\ ReversedOnce(ledger) /\ DocsRefer(docs) /\ ConvertedOnce
      /\ PostedDocs(d) /\ docs \in Seq(Doc) /\ docs' \in Seq(Doc) /\ Advances(docs, docs')
      /\ Ids(docs') = Ids(docs) /\ NewOK(docs', ledger, es) /\ balance' = AfterPosting(es)
      /\ docs[d].status = "PENDING"
      /\ docs[d].kind = "REVERSAL" => docs[docs[d].of].status = "POSTED"
  BY DEF LedgerInv, TypeOK, Posts, PostedDocs
<1>2. \A k \in Ids(docs) : /\ docs'[k].kind = docs[k].kind /\ docs'[k].of = docs[k].of
                          /\ docs'[k].status = StatusAfter(d, k)
  BY <1>1 DEF PostedDocs
<1>3. balance' \in [Lines -> Positions] /\ BalanceIsLedger'
  BY <1>1, AppendedBalance
<1>4. TypeOK'
  BY <1>1, <1>3 DEF TypeOK
<1>5. DocsRefer(docs')
  <2> SUFFICES ASSUME NEW k \in Ids(docs) PROVE DocRefers(docs', k)
    BY <1>1 DEF DocsRefer
  <2>1. docs'[k].kind = "REVERSAL" => docs'[k].status # "REVERSED"
    <3>1. docs[k].kind = "REVERSAL" => docs[k].status # "REVERSED"
      BY <1>1 DEF DocsRefer, DocRefers
    <3>2. docs[d].kind = "REVERSAL" => docs[docs[d].of].kind # "REVERSAL"
      BY <1>1 DEF DocsRefer, DocRefers, IsOf
    <3> QED
      BY <1>2, <3>1, <3>2 DEF StatusAfter
  <2>2. DocRefers(docs, k)
    BY <1>1 DEF DocsRefer
  <2> QED
    BY <1>1, <2>1, <2>2, RefersStill
<1>6. EntriesOK(docs', ledger')
  BY <1>1, AppendedOK
<1>7. ReversedOnce(ledger')
  BY <1>1, AppendedReversedOnce
<1>8. ConvertedOnce'
  <2>1. \A k \in Ids(docs) : docs[k].status = "DROPPED" => docs'[k].status = "DROPPED"
    BY <1>1, <1>2 DEF StatusAfter
  <2> SUFFICES ASSUME NEW j \in Ids(docs), NEW k \in Ids(docs), j # k,
                      docs[j].kind = "ORDER", docs[j].of # None,
                      docs[k].kind = "ORDER", docs[k].of = docs[j].of
               PROVE  docs'[j].status = "DROPPED" \/ docs'[k].status = "DROPPED"
    <3>1. Ids(docs') = Ids(docs) /\ \A k \in Ids(docs) : docs'[k].kind = docs[k].kind /\ docs'[k].of = docs[k].of
      BY <1>1, <1>2
    <3> QED
      BY <3>1 DEF ConvertedOnce
  <2> QED
    BY <1>1, <2>1 DEF ConvertedOnce
<1>9. ReversedTogether(docs', ledger') /\ EnteredOnce(docs', ledger') /\ NothingBelowZero'
  BY PostKeepsTogether, PostEntersOnce, PostLeavesNoLess
<1> QED
  BY <1>3, <1>4, <1>5, <1>6, <1>7, <1>8, <1>9 DEF LedgerInv

-----------------------------------------------------------------------------
(* And the part about the states.                                          *)

\* Of its entries a commitment that is posted has one.
LEMMA FreshEntry ==
  ASSUME LedgerInv, NEW d \in Ids(docs), NEW es, Posts(d, es), docs[d].kind \in Commitments
  PROVE  \E p \in DOMAIN ledger' :
           /\ OnCommitment(docs', ledger', d) = {p}
           /\ ledger'[p].type \in BaseTypes /\ ledger'[p].reverses = None
           /\ ledger'[p].amount = docs[d].amount
<1>1. /\ ledger \in Seq(Entry) /\ es \in Seq(Entry) /\ ledger' = ledger \o es /\ es = EntriesOf(d)
      /\ EntriesOK(docs, ledger) /\ PostedDocs(d) /\ d # None /\ docs[d].status = "PENDING"
      /\ docs'[d].kind = docs[d].kind
  BY AmountOf DEF LedgerInv, TypeOK, Posts, PostedDocs
<1>2. /\ \A i \in DOMAIN ledger : ledger'[i] = ledger[i]
      /\ \A n \in DOMAIN es : Len(ledger) + n \in DOMAIN ledger' /\ ledger'[Len(ledger) + n] = es[n]
      /\ \A i \in DOMAIN ledger' : i \in DOMAIN ledger \/ \E n \in DOMAIN es : i = Len(ledger) + n
  <2>1. ledger \in Seq(Entry) /\ es \in Seq(Entry) /\ ledger' = ledger \o es
    BY <1>1
  <2> QED
    BY ONLY <2>1, Places
<1>3. Stands(d, es)
  BY DEF Posts, Commitments
<1>4. PICK n \in DOMAIN es : es[n].type \in BaseTypes
  BY <1>3 DEF Stands
<1>5. es[n].reverses = None /\ EntryStands(docs', es[n]) /\ es[n].doc = d /\ es[n].commitment = d
  BY <1>3, <1>4 DEF Stands, EntryStands
<1>6. \A m \in DOMAIN es : es[m].commitment = d => m = Len(es)
  <2>1. CASE docs[d].kind = "REQUEST"
    <3>1. Len(es) = 1
      BY <1>1, <2>1, NewRequestStands
    <3> QED
      BY <1>1, <3>1, EntriesAre
  <2>2. CASE docs[d].kind = "ORDER"
    <3>1. \A m \in DOMAIN es : m # Len(es) => es[m].commitment = docs[d].of /\ docs[d].of # None
      BY <1>1, <2>2, NewOrderStands
    <3>2. docs[d].of # None => docs[d].of # d
      BY <1>1, <2>2, RefersTo
    <3> QED
      BY <3>1, <3>2
  <2> QED
    BY <2>1, <2>2 DEF Commitments
<1>7. es[n].component = ComponentOf(docs', d) /\ es[n].amount = docs[d].amount
  <2>1. CASE docs[d].kind = "REQUEST"
    <3>1. es[1].component = "RESERVATION" /\ es[1].amount = docs[d].amount /\ Len(es) = 1
      BY <1>1, <2>1, NewRequestStands
    <3>2. n = 1
      BY <1>5, <1>6, <3>1
    <3> QED
      BY <1>1, <2>1, <3>1, <3>2 DEF ComponentOf
  <2>2. CASE docs[d].kind = "ORDER"
    <3>1. \A m \in DOMAIN es : m = Len(es) => es[m].component = "COMMITMENT" /\ es[m].amount = docs[d].amount
      BY <1>1, <2>2, NewOrderStands
    <3> QED
      BY <1>1, <1>5, <1>6, <2>2, <3>1 DEF ComponentOf
  <2> QED
    BY <2>1, <2>2 DEF Commitments
<1> DEFINE p == Len(ledger) + n
<1>8. p \in DOMAIN ledger' /\ ledger'[p] = es[n]
  BY <1>2
<1>9. \A i \in DOMAIN ledger : ledger[i].commitment # d
  <2>1. docs[d].status \notin InBooks
    BY <1>1 DEF InBooks
  <2> QED
    BY <1>1, <2>1, EntriesBelong DEF Belongs, OnBooks
<1>10. OnCommitment(docs', ledger', d) = {p}
  <2>1. p \in OnCommitment(docs', ledger', d)
    BY <1>5, <1>7, <1>8 DEF OnCommitment
  <2>2. ASSUME NEW i \in OnCommitment(docs', ledger', d) PROVE i = p
    <3>1. i \in DOMAIN ledger' /\ ledger'[i].commitment = d
      BY DEF OnCommitment
    <3>2. PICK m \in DOMAIN es : i = Len(ledger) + m /\ ledger'[i] = es[m]
      BY <1>2, <1>9, <3>1
    <3>3. m = Len(es) /\ n = Len(es)
      BY <1>5, <1>6, <3>1, <3>2
    <3> QED
      BY <3>2, <3>3
  <2> QED
    BY <2>1, <2>2
<1> HIDE DEF p
<1> QED
  BY <1>4, <1>5, <1>7, <1>8, <1>10

\* So it is open, as its posting says.
LEMMA FreshIsApproved ==
  ASSUME LedgerInv, NEW d \in Ids(docs), NEW es, Posts(d, es), docs[d].kind \in Commitments
  PROVE  StateOf(docs', ledger', d) = "APPROVED"
<1>1. PICK p \in DOMAIN ledger' : /\ OnCommitment(docs', ledger', d) = {p}
                                  /\ ledger'[p].type \in BaseTypes /\ ledger'[p].reverses = None
                                  /\ ledger'[p].amount = docs[d].amount
  BY FreshEntry
<1>2. docs[d].amount > 0 /\ docs[d].amount \in Int
  BY AmountOf
<1>3. ledger' \in Seq(Entry) /\ PostedDocs(d) /\ docs[d].status = "PENDING"
  BY PostKeepsLedger DEF LedgerInv, TypeOK, Posts
<1>4. Outstanding(docs', ledger', d) = docs[d].amount
  <2>1. Total(ledger', {p}) = ledger'[p].amount
    BY <1>3, TotalOfOne
  <2> QED
    BY <1>1, <2>1 DEF Outstanding
<1>5. Paid(docs', ledger', d) = 0
  <2> DEFINE S == OfTypes(ledger', {"COMMITMENT_LIQUIDATION"})
  <2>1. p \notin S /\ None \notin S
    BY <1>1, <1>3, EntriesAre DEF OfTypes, BaseTypes, None
  <2>2. p \notin Reversing(ledger', S)
    BY <1>1, <2>1 DEF Reversing
  <2>3. OnCommitment(docs', ledger', d) \cap (S \cup Reversing(ledger', S)) = {}
    BY <1>1, <2>1, <2>2
  <2>4. NetByType(docs', ledger', d, {"COMMITMENT_LIQUIDATION"}) = -Total(ledger', {})
    BY <2>3 DEF NetByType
  <2> QED
    BY <2>4, TotalEmpty DEF Paid
<1>6. ~Converted(docs', d)
  <2> SUFFICES ASSUME NEW k \in Ids(docs'), docs'[k].kind = "ORDER", docs'[k].of = d PROVE FALSE
    BY DEF Converted
  <2>1. k \in Ids(docs) /\ docs[k].kind = "ORDER" /\ docs[k].of = d /\ d # None
    BY <1>3, AmountOf DEF PostedDocs
  <2>2. DocRefers(docs, k)
    BY <2>1 DEF LedgerInv, DocsRefer
  <2> QED
    BY <1>3, <2>1, <2>2 DEF DocRefers, IsOf, InBooks
<1>7. docs'[d].kind = docs[d].kind
  BY <1>3 DEF PostedDocs
<1>8. CASE docs[d].kind = "REQUEST"
  BY <1>2, <1>4, <1>6, <1>7, <1>8 DEF StateOf
<1>9. CASE docs[d].kind = "ORDER"
  <2>1. /\ Outstanding(docs', ledger', d) # 0 /\ ~(Paid(docs', ledger', d) > 0)
        /\ docs'[d].kind # "REQUEST"
    BY <1>2, <1>4, <1>5, <1>7, <1>9
  <2> QED
    BY <2>1 DEF StateOf
<1> QED
  BY <1>8, <1>9 DEF Commitments

\* An order that converts a request does release it.
LEMMA PostReleases ==
  ASSUME ProcInv, NEW d \in Ids(docs), NEW es, Posts(d, es), Valid(d)
  PROVE  ReleasesRequest(docs', ledger')
<1>1. /\ LedgerInv /\ ReleasesRequest(docs, ledger) /\ StateFollowsLedger
      /\ ledger \in Seq(Entry) /\ es \in Seq(Entry) /\ ledger' = ledger \o es /\ es = EntriesOf(d)
      /\ PostedDocs(d)
  BY DEF ProcInv, LedgerInv, TypeOK, Posts
<1>2. /\ \A i \in DOMAIN ledger : i \in DOMAIN ledger' /\ ledger'[i] = ledger[i]
      /\ \A n \in DOMAIN es : Len(ledger) + n \in DOMAIN ledger' /\ ledger'[Len(ledger) + n] = es[n]
  BY <1>1, Places
<1>3. Ids(docs') = Ids(docs) /\ \A k \in Ids(docs) : /\ docs'[k].kind = docs[k].kind /\ docs'[k].of = docs[k].of
                                                    /\ docs'[k].status = StatusAfter(d, k)
  BY <1>1 DEF PostedDocs
<1>4. ASSUME NEW k \in Ids(docs), docs[k].kind = "ORDER", docs[k].of # None, docs'[k].status \in InBooks
      PROVE  \E i \in DOMAIN ledger' : /\ ledger'[i].doc = k /\ ledger'[i].type # "REVERSAL"
                                       /\ ledger'[i].commitment = docs[k].of
  <2>1. CASE k # d
    <3>1. docs[k].status \in InBooks
      BY <1>3, <1>4, <2>1 DEF StatusAfter, InBooks, Posts
    <3>2. PICK i \in DOMAIN ledger : ledger[i].doc = k /\ ledger[i].type # "REVERSAL" /\ ledger[i].commitment = docs[k].of
      BY <1>1, <1>4, <3>1 DEF ReleasesRequest
    <3> QED
      BY <1>2, <3>2
  <2>2. CASE k = d
    <3> DEFINE request == docs[d].of
    <3>1. request \in Ids(docs) /\ request # None /\ Outstanding(docs, ledger, request) \in Int
      BY <1>1, <1>4, <2>2, RefersTo
    <3>2. /\ docs[request].kind = "REQUEST" /\ docs[request].status = "POSTED"
          /\ docs[request].state = "APPROVED"
      BY <1>4, <2>2, <3>1 DEF Valid, OrderValid
    <3>3. StateOf(docs, ledger, request) = "APPROVED"
      BY <1>1, <3>1, <3>2 DEF StateFollowsLedger, PostedCommitments, Commitments
    <3>4. Outstanding(docs, ledger, request) > 0
      BY <3>2, <3>3 DEF StateOf
    <3>5. Len(es) = 2 /\ \A n \in DOMAIN es : n # Len(es) => es[n].commitment = request
      BY <1>1, <1>4, <2>2, <3>1, <3>4, NewOrderStands
    <3>6. 1 \in DOMAIN es /\ es[1].commitment = request
      BY <1>1, <3>5, EntriesAre
    <3>7. es[1].doc = d /\ es[1].type # "REVERSAL"
      BY <1>4, <2>2, <3>6 DEF Posts, Stands
    <3> QED
      BY <1>2, <2>2, <3>6, <3>7
  <2> QED
    BY <2>1, <2>2
<1> QED
  BY <1>3, <1>4 DEF ReleasesRequest

\* What is not refreshed needs no refreshing.
LEMMA PostLeavesStates ==
  ASSUME ProcInv, NEW d \in Ids(docs), NEW es, Posts(d, es),
         NEW c \in Ids(docs), c # d, c # None, c \notin Affected(d, es),
         docs[c].kind \in Commitments, docs[c].status = "POSTED"
  PROVE  StateOf(docs', ledger', c) = StateOf(docs, ledger, c)
<1>1. /\ LedgerInv /\ ReleasesRequest(docs, ledger) /\ ReversedTogether(docs, ledger)
      /\ ledger \in Seq(Entry) /\ es \in Seq(Entry) /\ ledger' = ledger \o es /\ es = EntriesOf(d)
      /\ PostedDocs(d) /\ docs \in Seq(Doc) /\ docs' \in Seq(Doc) /\ Advances(docs, docs')
      /\ EntriesOK(docs, ledger)
      /\ Ids(docs') = Ids(docs) /\ docs[d].kind \in Kinds /\ docs[d].status = "PENDING"
  BY AmountOf DEF ProcInv, LedgerInv, TypeOK, Posts, PostedDocs, Doc
<1>2. \A n \in DOMAIN es : es[n].commitment # c
  <2>1. CASE docs[d].kind = "REQUEST"
    <3>1. Len(es) = 1 /\ es[1].commitment = d
      BY <1>1, <2>1, NewRequestStands
    <3>2. \A n \in DOMAIN es : n = 1
      BY <1>1, <3>1, EntriesAre
    <3> QED
      BY <3>1, <3>2
  <2>2. CASE docs[d].kind = "ORDER"
    <3>1. \A n \in DOMAIN es : es[n].commitment = d \/ es[n].commitment = docs[d].of
      BY <1>1, <2>2, NewOrderStands
    <3> QED
      BY <2>2, <3>1 DEF Affected
  <2>3. CASE docs[d].kind = "EXPENDITURE"
    <3>1. \A n \in DOMAIN es : es[n].commitment = docs[d].of
      BY <1>1, <2>3, NewPaymentStands
    <3> QED
      BY <2>3, <3>1 DEF Affected
  <2>4. CASE docs[d].kind \in {"CANCELLATION", "REVERSAL"}
    <3>1. Affected(d, es) = {es[n].commitment : n \in 1 .. Len(es)}
      BY <2>4 DEF Affected
    <3>2. DOMAIN es = 1 .. Len(es)
      BY <1>1, EntriesAre
    <3> QED
      BY <3>1, <3>2
  <2> QED
    BY <1>1, <2>1, <2>2, <2>3, <2>4 DEF Kinds, Commitments
<1>3. Converted(docs', c) <=> Converted(docs, c)
  <2>1. \A k \in Ids(docs) : /\ docs'[k].kind = docs[k].kind /\ docs'[k].of = docs[k].of
                            /\ docs'[k].status = StatusAfter(d, k)
    BY <1>1 DEF PostedDocs
  <2>2. ASSUME NEW k \in Ids(docs), docs[k].kind = "ORDER", docs[k].of = c
        PROVE  docs[k].status = "POSTED" <=> StatusAfter(d, k) = "POSTED"
    <3>1. CASE k = d
      BY <2>2, <3>1 DEF Affected
    <3>2. CASE k # d /\ docs[d].kind = "REVERSAL" /\ k = docs[d].of
      <4>1. docs[k].status = "POSTED"
        BY <3>2 DEF Posts
      <4>2. PICK i \in DOMAIN ledger : ledger[i].doc = k /\ ledger[i].type # "REVERSAL" /\ ledger[i].commitment = c
        BY <1>1, <2>2, <4>1 DEF ReleasesRequest, InBooks
      <4>3. ~IsReversed(ledger, i)
        <5>1. k # None
          BY DEF Ids, None
        <5> QED
          BY <1>1, <4>1, <4>2, <5>1 DEF ReversedTogether
      <4>4. Reverses(d, es)
        BY <3>2 DEF Posts
      <4>5. PICK n \in DOMAIN es : es[n].reverses = i
        BY <3>2, <4>2, <4>3, <4>4 DEF Reverses
      <4>6. es[n].commitment = ledger[i].commitment
        BY <4>4, <4>5 DEF Reverses
      <4> QED
        BY <1>2, <4>2, <4>6
    <3>3. CASE k # d /\ ~(docs[d].kind = "REVERSAL" /\ k = docs[d].of)
      BY <3>3 DEF StatusAfter
    <3> QED
      BY <3>1, <3>2, <3>3
  <2> QED
    BY <1>1, <2>1, <2>2 DEF Converted
<1>4. StateOf(docs', ledger \o es, c) = StateOf(docs, ledger, c)
  BY <1>1, <1>2, <1>3, UntouchedState
<1> QED
  BY <1>1, <1>4

LEMMA PostKeepsStates ==
  ASSUME ProcInv, NEW d \in Ids(docs), NEW es, Posts(d, es)
  PROVE  StateFollowsLedger'
<1>1. LedgerInv /\ StateFollowsLedger /\ PostedDocs(d) /\ Ids(docs') = Ids(docs) /\ es = EntriesOf(d)
  BY DEF ProcInv, Posts, PostedDocs
<1> SUFFICES ASSUME NEW c \in Ids(docs), docs'[c].kind \in Commitments, docs'[c].status = "POSTED"
             PROVE  docs'[c].state = StateOf(docs', ledger', c)
  BY <1>1 DEF StateFollowsLedger, PostedCommitments
<1>2. /\ docs[c].kind = docs'[c].kind /\ docs'[c].status = StatusAfter(d, c) /\ c # None
      /\ docs'[c].state = IF c \in Affected(d, es) THEN StateOf(docs', ledger', c)
                          ELSE IF c = d /\ docs[d].kind \in Commitments THEN "APPROVED"
                          ELSE docs[c].state
  BY <1>1, AmountOf DEF PostedDocs
<1>3. CASE c \in Affected(d, es)
  BY <1>2, <1>3
<1>4. CASE c \notin Affected(d, es) /\ c = d
  BY <1>1, <1>2, <1>4, FreshIsApproved
<1>5. CASE c \notin Affected(d, es) /\ c # d
  <2>1. docs[c].status = "POSTED"
    BY <1>2, <1>5 DEF StatusAfter
  <2>2. StateOf(docs', ledger', c) = StateOf(docs, ledger, c)
    BY <1>2, <1>5, <2>1, PostLeavesStates
  <2>3. docs[c].state = StateOf(docs, ledger, c)
    BY <1>1, <1>2, <2>1 DEF StateFollowsLedger, PostedCommitments
  <2> QED
    BY <1>2, <1>5, <2>2, <2>3
<1> QED
  BY <1>3, <1>4, <1>5

-----------------------------------------------------------------------------
(* The theorems.                                                           *)

LEMMA InitInv == Init => ProcInv /\ NeverOverdrawn
<1> SUFFICES ASSUME Init PROVE ProcInv /\ NeverOverdrawn
  OBVIOUS
<1>1. /\ docs = <<>> /\ ledger = <<>>
      /\ balance = [l \in Lines |-> [NoMovement EXCEPT !["APPROPRIATION"] = Budget]]
  BY DEF Init
<1>2. /\ docs \in Seq(Doc) /\ ledger \in Seq(Entry) /\ Ids(docs) = {} /\ DOMAIN ledger = {}
  BY <1>1 DEF Ids
<1>3. \A l \in Lines : balance[l] = [c \in Components |-> IF c = "APPROPRIATION" THEN Budget ELSE 0]
  BY <1>1 DEF NoMovement
<1>4. balance \in [Lines -> Positions]
  <2>1. ASSUME NEW l \in Lines PROVE balance[l] \in [Components -> Int]
    <3>1. Budget \in Int
      BY ProcurementAssumption
    <3> DEFINE first(c) == IF c = "APPROPRIATION" THEN Budget ELSE 0
    <3>2. \A c \in Components : first(c) \in Int
      BY <3>1
    <3>3. balance[l] = [c \in Components |-> first(c)]
      BY <1>3
    <3> HIDE DEF first
    <3> QED
      BY <3>2, <3>3
  <2>2. balance = [l \in Lines |-> balance[l]]
    BY <1>1
  <2> QED
    BY <2>1, <2>2 DEF Positions
<1>5. BalanceIsLedger
  <2> SUFFICES ASSUME NEW l \in Lines, NEW c \in {"RESERVATION", "COMMITMENT"}
               PROVE  balance[l][c] = Total(ledger, OnLine(ledger, l, c))
    BY DEF BalanceIsLedger
  <2>1. OnLine(ledger, l, c) = {}
    BY <1>2 DEF OnLine
  <2>2. balance[l][c] = 0
    BY <1>3 DEF Components
  <2> QED
    BY <2>1, <2>2, TotalEmpty
<1>6. NeverOverdrawn
  <2> SUFFICES ASSUME NEW l \in Lines PROVE Available("APPROPRIATION", Counted, balance[l]) >= 0
    BY DEF NeverOverdrawn
  <2>1. balance[l]["APPROPRIATION"] = Budget /\ \A c \in Components \ {"APPROPRIATION"} : balance[l][c] = 0
    BY <1>3 DEF Components
  <2> QED
    BY <2>1, ProcurementAssumption DEF Available, AdjustedBudget, ControlBase, CountedReservation, Components
<1>7. LedgerInv
  BY <1>2, <1>4, <1>5
  DEF LedgerInv, TypeOK, DocsRefer, EntriesOK, ReversedOnce, ReversedTogether, EnteredOnce,
      NothingBelowZero, ConvertedOnce
<1>8. ReleasesRequest(docs, ledger) /\ StateFollowsLedger
  BY <1>2 DEF ReleasesRequest, StateFollowsLedger, PostedCommitments
<1> QED
  BY <1>6, <1>7, <1>8 DEF ProcInv

LEMMA AvailableType ==
  ASSUME NEW p \in Positions
  PROVE  AvailableOn(p) \in Int
BY ProcurementAssumption
   DEF AvailableOn, Available, AdjustedBudget, ControlBase, CountedReservation, Positions, Components

\* A consumption that lacks nothing leaves a line at nothing or more.
LEMMA AffordableStays ==
  ASSUME LedgerInv, NeverOverdrawn, NEW es, Affordable(es), balance' = AfterPosting(es),
         balance' \in [Lines -> Positions]
  PROVE  NeverOverdrawn'
<1> SUFFICES ASSUME NEW l \in Lines PROVE AvailableOn(balance'[l]) >= 0
  BY DEF NeverOverdrawn, AvailableOn
<1> DEFINE before == AvailableOn(balance[l])
           after == AvailableOn(balance'[l])
<1>1. before \in Int /\ after \in Int
  BY AvailableType DEF LedgerInv, TypeOK
<1>2. before >= 0
  BY DEF NeverOverdrawn, AvailableOn
<1>3. after < before => Shortfall(before, before - after) = 0
  BY DEF Affordable
<1> HIDE DEF before, after
<1>4. after >= 0
  BY <1>1, <1>2, <1>3 DEF Shortfall, Positive
<1> QED
  BY <1>4 DEF after

LEMMA QuietIsNeutral ==
  ASSUME ProcInv, NeverOverdrawn, QuietStep
  PROVE  ProcInv' /\ NeverOverdrawn'
<1>1. LedgerInv'
  BY QuietLedger DEF ProcInv, QuietStep
<1>2. ReleasesRequest(docs', ledger) /\ StateFollowsLedger' /\ ledger' = ledger /\ balance' = balance
  BY QuietStates DEF QuietStep
<1> QED
  BY <1>1, <1>2 DEF ProcInv, NeverOverdrawn

LEMMA StepInv == ProcInv /\ NeverOverdrawn /\ [Next]_vars => ProcInv' /\ NeverOverdrawn'
<1> SUFFICES ASSUME ProcInv, NeverOverdrawn, [Next]_vars
             PROVE  ProcInv' /\ NeverOverdrawn'
  OBVIOUS
<1>1. LedgerInv
  BY DEF ProcInv
<1>2. CASE DraftRequest \/ DraftOrder \/ DraftExpenditure \/ DraftCancellation \/ DraftReversal
  BY <1>1, <1>2, DraftsAreQuiet, QuietIsNeutral
<1>3. ASSUME NEW d \in Ids(docs), Drop(d) PROVE ProcInv' /\ NeverOverdrawn'
  BY <1>1, <1>3, DropIsQuiet, QuietIsNeutral
<1>4. ASSUME NEW d \in Ids(docs), Post(d) PROVE ProcInv' /\ NeverOverdrawn'
  <2> DEFINE es == EntriesOf(d)
  <2>1. Posts(d, es)
    BY <1>1, <1>4, PostPosts
  <2>2. Valid(d) /\ Affordable(es) /\ balance' = AfterPosting(es)
    BY <1>4 DEF Post
  <2> HIDE DEF es
  <2>3. LedgerInv'
    BY <1>1, <2>1, PostKeepsLedger
  <2>4. ReleasesRequest(docs', ledger') /\ StateFollowsLedger'
    BY <2>1, <2>2, PostReleases, PostKeepsStates
  <2>5. NeverOverdrawn'
    BY <1>1, <2>2, <2>3, AffordableStays DEF LedgerInv, TypeOK
  <2> QED
    BY <2>3, <2>4, <2>5 DEF ProcInv
<1>5. CASE UNCHANGED vars
  BY <1>5
  DEF vars, ProcInv, LedgerInv, TypeOK, DocsRefer, BalanceIsLedger, NothingBelowZero, ConvertedOnce,
      StateFollowsLedger, PostedCommitments, NeverOverdrawn
<1> QED
  BY <1>2, <1>3, <1>4, <1>5 DEF Next

THEOREM ProcurementInvariant == Spec => [](ProcInv /\ NeverOverdrawn)
BY InitInv, StepInv, PTL DEF Spec

\* Documents, entries and balances are of their types whatever is drafted, posted,
\* dropped and reversed: no entry is of nothing, none of a line or commitment there is not.
THEOREM TypesHold == Spec => []TypeOK
<1>1. ProcInv => TypeOK
  BY DEF ProcInv, LedgerInv
<1> QED
  BY <1>1, ProcurementInvariant, PTL

\* The state of a commitment in force is always the one its entries and orders call
\* for, though services.refresh_status runs only where a service thought to call it.
THEOREM StatesFollow == Spec => []StateFollowsLedger
<1>1. ProcInv => StateFollowsLedger
  BY DEF ProcInv
<1> QED
  BY <1>1, ProcurementInvariant, PTL

\* A line's reserved and committed balances are what its commitments in force hold.
THEOREM LinesHoldOutstanding == Spec => []LineHoldsOutstanding
<1>1. ProcInv => LineHoldsOutstanding
  BY LineHolds DEF ProcInv
<1> QED
  BY <1>1, ProcurementInvariant, PTL

\* No commitment holds less than nothing (INV-04).
THEOREM NothingHeldBelowZero == Spec => []NothingBelowZero
<1>1. ProcInv => NothingBelowZero
  BY DEF ProcInv, LedgerInv
<1> QED
  BY <1>1, ProcurementInvariant, PTL

\* What is outstanding, paid and cancelled of an order in force adds up to it,
\* whatever was reversed.
THEOREM OrdersAddUp == Spec => []OrderAddsUp
<1>1. ProcInv => OrderAddsUp
  <2> SUFFICES ASSUME ProcInv, NEW d \in PostedCommitments, docs[d].kind = "ORDER"
               PROVE  docs[d].amount = Outstanding(docs, ledger, d) + Paid(docs, ledger, d)
                                         + Cancelled(docs, ledger, d)
    BY DEF OrderAddsUp
  <2>1. /\ ledger \in Seq(Entry) /\ EntriesOK(docs, ledger) /\ EnteredOnce(docs, ledger)
        /\ ReversedTogether(docs, ledger) /\ d \in Ids(docs) /\ docs[d].status = "POSTED"
    BY DEF ProcInv, LedgerInv, TypeOK, PostedCommitments
  <2> QED
    BY <2>1, OrderSplits
<1> QED
  BY <1>1, ProcurementInvariant, PTL

\* At most one order of a request is in force or awaits approval.
THEOREM RequestsConvertOnce == Spec => []ConvertedOnce
<1>1. ProcInv => ConvertedOnce
  BY DEF ProcInv, LedgerInv
<1> QED
  BY <1>1, ProcurementInvariant, PTL

\* No document overdraws a line (INV-05), also when it was checked before others
\* were posted.
THEOREM LinesNeverOverdrawn == Spec => []NeverOverdrawn
BY ProcurementInvariant, PTL

=============================================================================
