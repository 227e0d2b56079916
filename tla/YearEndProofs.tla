--------------------------- MODULE YearEndProofs ---------------------------
(***************************************************************************)
(* Proofs about closing years, for any lines, budget, number of years and  *)
(* bounds: what the ledger says of documents survives a closing, and what  *)
(* a closing settles and carries stays so for good.                        *)
(***************************************************************************)
EXTENDS YearEnd, ProcurementProofs

-----------------------------------------------------------------------------
(* The commitments a closing goes through, in their order.                 *)

\* Each of S once.
IsListOf(s, S) ==
  /\ Len(s) \in Nat /\ DOMAIN s = 1 .. Len(s)
  /\ \A n \in DOMAIN s : s[n] \in S
  /\ \A m, n \in DOMAIN s : m # n => s[m] # s[n]
  /\ \A x \in S : \E n \in DOMAIN s : s[n] = x

OrdersOf(y) == {d \in OpenOf(y) : docs[d].kind = "ORDER"}

LEMMA ListOfIds ==
  ASSUME docs \in Seq(Doc), NEW S, S \subseteq Ids(docs)
  PROVE  IsListOf(InOrder(S), S)
<1> DEFINE s == InOrder(S)
           c == Cardinality(S)
<1>1. Ids(docs) = 1 .. Len(docs) /\ Len(docs) \in Nat
  BY DEF Ids
<1>2. IsFiniteSet(S) /\ S \subseteq Nat
  <2>1. IsFiniteSet(1 .. Len(docs))
    BY <1>1, FS_Interval
  <2> QED
    BY <1>1, <2>1, FS_Subset
<1>3. /\ c \in Nat /\ s \in [1 .. c -> S] /\ Len(s) = c
      /\ \A m, n \in 1 .. c : m < n => s[m] < s[n]
      /\ \A x \in S : \E n \in 1 .. c : s[n] = x
  BY <1>2, InOrderIs
<1> HIDE DEF s, c
<1>4. \A m, n \in 1 .. c : m # n => s[m] # s[n]
  <2> SUFFICES ASSUME NEW m \in 1 .. c, NEW n \in 1 .. c, m < n PROVE s[m] # s[n]
    BY <1>3
  <2>1. s[m] < s[n] /\ s[m] \in Nat /\ s[n] \in Nat
    BY <1>2, <1>3
  <2> QED
    BY <2>1
<1> QED
  BY <1>3, <1>4 DEF IsListOf, s

LEMMA Listed ==
  ASSUME docs \in Seq(Doc), NEW y
  PROVE  IsListOf(ToRelease(y), OpenOf(y)) /\ IsListOf(ToCarry(y), OrdersOf(y))
<1>1. OpenOf(y) \subseteq Ids(docs) /\ OrdersOf(y) \subseteq Ids(docs)
  BY DEF OpenOf, OrdersOf, InYear
<1>2. ToRelease(y) = InOrder(OpenOf(y)) /\ ToCarry(y) = InOrder(OrdersOf(y))
  BY DEF ToRelease, ToCarry, OrdersOf
<1> QED
  BY <1>1, <1>2, ListOfIds

\* A commitment that is open, and what it holds.
IsOpen(y, d) ==
  /\ d \in Ids(docs) /\ d # None /\ docs[d] \in Doc
  /\ docs[d].kind \in Commitments /\ docs[d].status = "POSTED"
  /\ docs[d].line \in Lines /\ YearOf(docs[d].line) = y
  /\ Outstanding(docs, ledger, d) \in Int /\ Outstanding(docs, ledger, d) > 0

LEMMA OpenIs ==
  ASSUME LedgerInv, NEW y, NEW d
  PROVE  /\ d \in OpenOf(y) <=> IsOpen(y, d)
         /\ d \in OrdersOf(y) <=> IsOpen(y, d) /\ docs[d].kind = "ORDER"
<1>1. docs \in Seq(Doc) /\ ledger \in Seq(Entry) /\ EntriesOK(docs, ledger) /\ ReversedOnce(ledger)
  BY DEF LedgerInv, TypeOK
<1>2. ASSUME d \in Ids(docs) PROVE docs[d] \in Doc /\ docs[d].line \in Lines /\ d # None
  <2>1. docs[d] \in Doc /\ d # None
    BY <1>1, <1>2 DEF Ids, None
  <2> QED
    BY <2>1 DEF Doc
<1>3. Outstanding(docs, ledger, d) \in Int
  BY <1>1, OutstandingInForce
<1> QED
  BY <1>2, <1>3 DEF OpenOf, OrdersOf, InYear, IsOpen

\* An order in force holds no more than it was entered with: what comes after takes
\* from it.
LEMMA HoldsNoMore ==
  ASSUME NEW D, NEW L \in Seq(Entry), EntriesOK(D, L), ReversedOnce(L), EnteredOnce(D, L),
         ReversedTogether(D, L), NEW d \in Ids(D), D[d].kind = "ORDER", D[d].status = "POSTED"
  PROVE  Outstanding(D, L, d) <= D[d].amount
<1> DEFINE F == InForce(L, OnCommitment(D, L, d))
<1>1. PICK b \in OnCommitment(D, L, d) :
        /\ L[b].type \in BaseTypes /\ L[b].amount = D[d].amount /\ ~IsReversed(L, b)
        /\ \A i \in DOMAIN L : IsBase(L, d, i) => i = b
  BY OrderEntry
<1>2. F \subseteq DOMAIN L
  BY DEF InForce, OnCommitment
<1>3. b \in F
  BY <1>1 DEF InForce, BaseTypes
<1>4. ASSUME NEW i \in F \ {b} PROVE L[i].amount <= 0
  <2>1. i \in DOMAIN L /\ L[i].amount \in Int
    BY <1>2, EntriesAre
  <2>2. ~IsBase(L, d, i)
    BY <1>1, <2>1
  <2>3. L[i].amount < 0
    BY <2>2, TakesUnlessBase
  <2> QED
    BY <2>1, <2>3
<1>5. Outstanding(D, L, d) = Total(L, F)
  BY OutstandingInForce
<1> HIDE DEF F
<1>6. Total(L, F \ {b}) <= 0
  BY <1>2, <1>4, TotalTaken
<1>7. Total(L, {b}) = D[d].amount /\ D[d].amount \in Int
  BY <1>1, <1>2, <1>3, TotalOfOne, EntriesAre
<1>8. Total(L, {b} \cup (F \ {b})) = Total(L, {b}) + Total(L, F \ {b})
  BY <1>2, <1>3, TotalSplit
<1>9. {b} \cup (F \ {b}) = F
  BY <1>3
<1>10. Total(L, F \ {b}) \in Int
  BY <1>2, TotalType
<1>11. Total(L, F) = D[d].amount + Total(L, F \ {b})
  BY <1>7, <1>8, <1>9
<1> QED
  BY <1>5, <1>6, <1>7, <1>10, <1>11

-----------------------------------------------------------------------------
(* What a closing enters and the documents it leaves.                      *)

\* The entry that closes d.
Closes(e, d) ==
  /\ e \in Entry
  /\ e.doc = None /\ e.type = "CLOSING" /\ e.line = docs[d].line /\ e.component = ComponentOf(docs, d)
  /\ e.amount = -Outstanding(docs, ledger, d) /\ e.commitment = d /\ e.reverses = None

\* The entry of the commitment `new` that d is carried to.
Carries(e, new, d) ==
  /\ e \in Entry
  /\ e.doc = new /\ e.type = "CARRY_FORWARD" /\ e.line = Target(d) /\ e.component = "COMMITMENT"
  /\ e.amount = Outstanding(docs, ledger, d) /\ e.commitment = new /\ e.reverses = None

\* Each open commitment is closed, and each order carried.
EntriesOfClosing(y, r, k, es) ==
  /\ es \in Seq(Entry)
  /\ \A n \in DOMAIN r : n \in DOMAIN es /\ Closes(es[n], r[n])
  /\ \A n \in DOMAIN k : Len(r) + n \in DOMAIN es /\ Carries(es[Len(r) + n], Len(docs) + n, k[n])
  /\ \A m \in DOMAIN es : m \in DOMAIN r \/ \E n \in DOMAIN k : m = Len(r) + n

\* Orders are carried to lines there are.
LEMMA TargetsAre ==
  ASSUME NEW y \in Years, ReadyToClose(y), docs \in Seq(Doc), NEW d \in OrdersOf(y)
  PROVE  Target(d) \in Lines /\ YearOf(Target(d)) = y + 1 /\ NextYearOpen(y) /\ CarryFunded(y)
<1>1. PICK n \in DOMAIN ToCarry(y) : ToCarry(y)[n] = d
  BY Listed DEF IsListOf
<1>2. Len(ToCarry(y)) > 0
  BY <1>1, Listed DEF IsListOf
<1>3. NextYearOpen(y) /\ CarryFunded(y)
  BY <1>2 DEF ReadyToClose
<1>4. YearOf(docs[d].line) = y
  BY DEF OrdersOf, OpenOf, InYear
<1> QED
  BY <1>3, <1>4 DEF CarryFunded, OrdersOf, Target, YearOf

LEMMA ClosingEntriesAre ==
  ASSUME LedgerInv, NEW y \in Years, ReadyToClose(y)
  PROVE  EntriesOfClosing(y, ToRelease(y), ToCarry(y), ClosingEntries(y))
<1> DEFINE r == ToRelease(y)
           k == ToCarry(y)
           first == [n \in 1 .. Len(r) |-> ClosingEntry(r[n])]
           second == [n \in 1 .. Len(k) |-> CarriedEntry(Len(docs) + n, CarriedDocs(y)[n])]
<1>1. docs \in Seq(Doc) /\ Len(docs) \in Nat
  BY DEF LedgerInv, TypeOK
<1>2. IsListOf(r, OpenOf(y)) /\ IsListOf(k, OrdersOf(y))
  BY <1>1, Listed
<1>3. ClosingEntries(y) = first \o second
  BY DEF ClosingEntries
<1>4. \A n \in 1 .. Len(k) : CarriedDocs(y)[n] = CarriedDoc(k[n])
  BY DEF CarriedDocs
<1> HIDE DEF r, k
<1>5. ASSUME NEW d \in OpenOf(y) PROVE Closes(ClosingEntry(d), d)
  <2>1. IsOpen(y, d)
    BY OpenIs
  <2> DEFINE held == Outstanding(docs, ledger, d)
             comp == ComponentOf(docs, d)
  <2>2. comp \in {"RESERVATION", "COMMITMENT", "ACTUAL"}
    BY DEF ComponentOf
  <2>3. -held \in Int \ {0} /\ d \in DocIds
    BY <2>1 DEF IsOpen, Ids, DocIds
  <2> HIDE DEF held, comp
  <2>4. ClosingEntry(d) = [doc |-> None, type |-> "CLOSING", line |-> docs[d].line, component |-> comp,
                           amount |-> -held, commitment |-> d, reverses |-> None]
    BY DEF ClosingEntry, MkEntry, held, comp
  <2> QED
    BY <2>1, <2>2, <2>3, <2>4 DEF Closes, Entry, IsOpen, held, comp, None
<1>6. ASSUME NEW n \in 1 .. Len(k)
      PROVE  Carries(CarriedEntry(Len(docs) + n, CarriedDocs(y)[n]), Len(docs) + n, k[n])
  <2> DEFINE d == k[n]
             held == Outstanding(docs, ledger, d)
             new == Len(docs) + n
             line == Target(d)
  <2>1. d \in OrdersOf(y)
    BY <1>2 DEF IsListOf
  <2>2. IsOpen(y, d) /\ line \in Lines
    BY <1>1, <2>1, OpenIs, TargetsAre
  <2>3. held \in Int \ {0} /\ new \in DocIds
    BY <1>1, <1>2, <2>2 DEF IsOpen, IsListOf, DocIds, None
  <2>4. CarriedEntry(new, CarriedDocs(y)[n]) =
          [doc |-> new, type |-> "CARRY_FORWARD", line |-> line, component |-> "COMMITMENT",
           amount |-> held, commitment |-> new, reverses |-> None]
    <3>1. CarriedDocs(y)[n] = CarriedDoc(d)
      BY <1>4
    <3>2. CarriedDoc(d).line = line /\ CarriedDoc(d).amount = held
      BY DEF CarriedDoc
    <3> HIDE DEF d, held, line, new
    <3> QED
      BY <3>1, <3>2 DEF CarriedEntry
  <2> HIDE DEF d, held, new, line
  <2> QED
    BY <2>2, <2>3, <2>4 DEF Carries, Entry, None, d, held, new, line
<1>7. /\ first \in Seq(Entry) /\ Len(first) = Len(r)
      /\ \A n \in DOMAIN r : Closes(first[n], r[n])
  <2>1. \A n \in 1 .. Len(r) : r[n] \in OpenOf(y)
    BY <1>2 DEF IsListOf
  <2>2. \A n \in 1 .. Len(r) : Closes(first[n], r[n])
    BY <1>5, <2>1
  <2>3. first \in [1 .. Len(r) -> Entry]
    BY <2>2 DEF Closes
  <2> QED
    BY <1>2, <2>2, <2>3 DEF IsListOf
<1>8. /\ second \in Seq(Entry) /\ Len(second) = Len(k)
      /\ \A n \in DOMAIN k : Carries(second[n], Len(docs) + n, k[n])
  <2>1. \A n \in 1 .. Len(k) : Carries(second[n], Len(docs) + n, k[n])
    BY <1>6
  <2>2. second \in [1 .. Len(k) -> Entry]
    BY <2>1 DEF Carries
  <2>3. Len(k) \in Nat /\ DOMAIN k = 1 .. Len(k)
    BY <1>2 DEF IsListOf
  <2> HIDE DEF second
  <2>4. second \in Seq(Entry) /\ Len(second) = Len(k)
    BY <2>2, <2>3
  <2> QED
    BY <2>1, <2>3, <2>4
<1> HIDE DEF first, second
<1> DEFINE es == first \o second
<1>9. /\ es \in Seq(Entry) /\ DOMAIN first = DOMAIN r /\ DOMAIN second = DOMAIN k
      /\ \A n \in DOMAIN first : n \in DOMAIN es /\ es[n] = first[n]
      /\ \A n \in DOMAIN second : Len(first) + n \in DOMAIN es /\ es[Len(first) + n] = second[n]
      /\ \A m \in DOMAIN es : m \in DOMAIN first \/ \E n \in DOMAIN second : m = Len(first) + n
  <2>1. DOMAIN first = DOMAIN r /\ DOMAIN second = DOMAIN k
    BY <1>2, <1>7, <1>8, EntriesAre DEF IsListOf
  <2> QED
    BY <1>7, <1>8, <2>1, Places
<1> HIDE DEF es
<1>10. EntriesOfClosing(y, r, k, es)
  BY <1>7, <1>8, <1>9 DEF EntriesOfClosing
<1> QED
  BY <1>3, <1>10 DEF es, r, k

\* The documents after a closing: the old ones, of which only the state may change, and
\* what the orders were carried to.
DocsOfClosing(k) ==
  /\ docs' \in Seq(Doc) /\ Advances(docs, docs') /\ Ids(docs) \subseteq Ids(docs')
  /\ \A d \in Ids(docs) : docs'[d].status = docs[d].status
  /\ \A n \in DOMAIN k :
       LET new == docs'[Len(docs) + n]
       IN /\ Len(docs) + n \in Ids(docs') \ Ids(docs)
          /\ new.kind = "ORDER" /\ new.line = Target(k[n]) /\ new.of = None
          /\ new.amount = Outstanding(docs, ledger, k[n]) /\ new.status = "POSTED"
  /\ \A d \in Ids(docs') : d \in Ids(docs) \/ \E n \in DOMAIN k : d = Len(docs) + n

LEMMA ClosingDocsAre ==
  ASSUME LedgerInv, NEW y \in Years, CloseYear(y)
  PROVE  DocsOfClosing(ToCarry(y))
<1> DEFINE k == ToCarry(y)
           old == [d \in Ids(docs) |-> IF d \in OpenOf(y) THEN [docs[d] EXCEPT !.state = "CLOSED"]
                                       ELSE docs[d]]
           new == CarriedDocs(y)
<1>1. /\ docs \in Seq(Doc) /\ Len(docs) \in Nat /\ Ids(docs) = 1 .. Len(docs)
      /\ EntriesOK(docs, ledger) /\ ReversedOnce(ledger) /\ EnteredOnce(docs, ledger)
      /\ ReversedTogether(docs, ledger) /\ ledger \in Seq(Entry)
  BY DEF LedgerInv, TypeOK, Ids
<1>2. ReadyToClose(y) /\ docs' = old \o new
  BY DEF CloseYear
<1>3. IsListOf(k, OrdersOf(y))
  BY <1>1, Listed
<1>4. new = [n \in 1 .. Len(k) |-> CarriedDoc(k[n])]
  BY DEF CarriedDocs
<1>5. ASSUME NEW d \in Ids(docs)
      PROVE  /\ old[d] \in Doc
             /\ old[d].kind = docs[d].kind /\ old[d].line = docs[d].line /\ old[d].of = docs[d].of
             /\ old[d].amount = docs[d].amount /\ old[d].status = docs[d].status
  <2>1. docs[d] \in Doc
    BY <1>1
  <2>2. old[d] = docs[d] \/ old[d] = [docs[d] EXCEPT !.state = "CLOSED"]
    OBVIOUS
  <2> HIDE DEF old
  <2> QED
    BY <2>1, <2>2 DEF Doc
<1> HIDE DEF k, new
<1>6. ASSUME NEW n \in 1 .. Len(k)
      PROVE  /\ new[n] \in Doc
             /\ new[n].kind = "ORDER" /\ new[n].line = Target(k[n]) /\ new[n].of = None
             /\ new[n].amount = Outstanding(docs, ledger, k[n]) /\ new[n].status = "POSTED"
  <2> DEFINE d == k[n]
             held == Outstanding(docs, ledger, d)
             line == Target(d)
  <2>1. d \in OrdersOf(y) /\ new[n] = CarriedDoc(d)
    BY <1>3, <1>4 DEF IsListOf
  <2> HIDE DEF d
  <2>2. IsOpen(y, d) /\ docs[d].kind = "ORDER" /\ line \in Lines
    BY <1>1, <1>2, <2>1, OpenIs, TargetsAre
  <2>3. held <= docs[d].amount
    BY <1>1, <2>2, HoldsNoMore DEF IsOpen
  <2>4. docs[d].amount \in Amounts /\ held \in Int /\ held > 0
    BY <2>2 DEF IsOpen, Doc
  <2>5. held \in Amounts
    BY <2>3, <2>4, ProcurementAssumption DEF Amounts
  <2> HIDE DEF held, line
  <2>6. new[n] = [kind |-> "ORDER", line |-> line, of |-> None, amount |-> held,
                  status |-> "POSTED", state |-> "APPROVED"]
    BY <2>1 DEF CarriedDoc, held, line
  <2> QED
    BY <2>2, <2>5, <2>6 DEF Doc, Kinds, Commitments, held, line, d
<1>7. old \in Seq(Doc) /\ Len(old) = Len(docs)
  <2>1. old \in [1 .. Len(docs) -> Doc]
    BY <1>1, <1>5
  <2> HIDE DEF old
  <2> QED
    BY <1>1, <2>1
<1>8. new \in Seq(Doc) /\ Len(new) = Len(k)
  <2>1. new \in [1 .. Len(k) -> Doc]
    BY <1>4, <1>6
  <2>2. Len(k) \in Nat
    BY <1>3 DEF IsListOf
  <2> QED
    BY <2>1, <2>2
<1> HIDE DEF old
<1>9. /\ docs' \in Seq(Doc) /\ Len(docs') = Len(docs) + Len(k)
      /\ \A d \in 1 .. Len(docs) : docs'[d] = old[d]
      /\ \A n \in 1 .. Len(k) : docs'[Len(docs) + n] = new[n]
  <2>1. Len(old) = Len(docs) /\ Len(new) = Len(k) /\ old \in Seq(Doc) /\ new \in Seq(Doc)
    BY <1>7, <1>8
  <2>2. /\ old \o new \in Seq(Doc) /\ Len(old \o new) = Len(old) + Len(new)
        /\ \A d \in 1 .. Len(old) : (old \o new)[d] = old[d]
        /\ \A n \in 1 .. Len(new) : (old \o new)[Len(old) + n] = new[n]
    BY ONLY <2>1
  <2> QED
    BY <1>2, <2>1, <2>2
<1>10. Len(k) \in Nat /\ DOMAIN k = 1 .. Len(k) /\ Ids(docs') = 1 .. Len(docs')
  BY <1>3 DEF IsListOf, Ids
<1>11. Advances(docs, docs') /\ \A d \in Ids(docs) : docs'[d].status = docs[d].status
  <2>1. Len(docs) <= Len(docs')
    BY <1>1, <1>9, <1>10
  <2>2. \A d \in Ids(docs) : docs'[d] = old[d]
    BY <1>1, <1>9
  <2> QED
    BY <1>5, <2>1, <2>2 DEF Advances
<1>12. \A d \in Ids(docs') : d \in Ids(docs) \/ \E n \in DOMAIN k : d = Len(docs) + n
  <2> SUFFICES ASSUME NEW d \in Ids(docs'), d \notin Ids(docs) PROVE \E n \in DOMAIN k : d = Len(docs) + n
    OBVIOUS
  <2>1. d - Len(docs) \in DOMAIN k /\ d = Len(docs) + (d - Len(docs))
    BY <1>1, <1>9, <1>10
  <2> QED
    BY <2>1
<1>13. \A n \in DOMAIN k : Len(docs) + n \in Ids(docs') \ Ids(docs)
  BY <1>1, <1>9, <1>10
<1>14. Ids(docs) \subseteq Ids(docs')
  BY <1>1, <1>9, <1>10
<1>15. \A n \in DOMAIN k :
         LET e == docs'[Len(docs) + n]
         IN e.kind = "ORDER" /\ e.line = Target(k[n]) /\ e.of = None
            /\ e.amount = Outstanding(docs, ledger, k[n]) /\ e.status = "POSTED"
  BY <1>6, <1>9, <1>10
<1> QED
  BY <1>9, <1>11, <1>12, <1>13, <1>14, <1>15 DEF DocsOfClosing, k

\* A closing, and what there is to say of it.
ClosingOf(y, r, k, es) ==
  /\ IsListOf(r, OpenOf(y)) /\ IsListOf(k, OrdersOf(y))
  /\ EntriesOfClosing(y, r, k, es) /\ DocsOfClosing(k)
  /\ ledger' = ledger \o es /\ balance' = AfterPosting(es)
  /\ OutstandingNonNegative(es)

LEMMA ClosingIs ==
  ASSUME LedgerInv, NEW y \in Years, CloseYear(y)
  PROVE  ClosingOf(y, ToRelease(y), ToCarry(y), ClosingEntries(y))
<1>1. docs \in Seq(Doc) /\ ReadyToClose(y)
  BY DEF LedgerInv, TypeOK, CloseYear
<1> QED
  BY <1>1, Listed, ClosingEntriesAre, ClosingDocsAre DEF ClosingOf, CloseYear

\* Its entries reverse none, and stand.
LEMMA ClosingStands ==
  ASSUME LedgerInv, NEW y \in Years, NEW r, NEW k, NEW es, ClosingOf(y, r, k, es)
  PROVE  /\ NewOK(docs', ledger, es)
         /\ \A m \in DOMAIN es : es[m].reverses = None /\ es[m].type # "REVERSAL"
<1>1. /\ DOMAIN r = 1 .. Len(r) /\ Len(r) \in Nat
      /\ \A n \in DOMAIN r : Closes(es[n], r[n]) /\ IsOpen(y, r[n])
      /\ \A n \in DOMAIN k : Carries(es[Len(r) + n], Len(docs) + n, k[n]) /\ IsOpen(y, k[n])
      /\ \A m \in DOMAIN es : m \in DOMAIN r \/ \E n \in DOMAIN k : m = Len(r) + n
  BY OpenIs DEF ClosingOf, IsListOf, EntriesOfClosing
<1>2. DocsOfClosing(k)
  BY DEF ClosingOf
<1>3. ASSUME NEW n \in DOMAIN r
      PROVE  EntryStands(docs', es[n]) /\ es[n].reverses = None /\ es[n].type = "CLOSING"
  <2> DEFINE d == r[n]
             e == es[n]
  <2>1. Closes(e, d) /\ IsOpen(y, d)
    BY <1>1
  <2> HIDE DEF d, e
  <2>2. /\ d \in Ids(docs') /\ docs'[d].kind = docs[d].kind /\ docs'[d].line = docs[d].line
        /\ docs'[d].status = "POSTED"
    BY <1>2, <2>1 DEF DocsOfClosing, IsOpen, Advances
  <2>3. OnBooks(docs', e)
    BY <2>1, <2>2 DEF OnBooks, Closes, IsOpen, InBooks
  <2>4. ComponentOf(docs', d) = ComponentOf(docs, d) /\ ComponentOf(docs, d) # "ACTUAL"
    BY <2>2 DEF ComponentOf
  <2>5. e.amount < 0
    BY <2>1 DEF Closes, IsOpen
  <2>6. EntryStands(docs', e)
    BY <2>1, <2>3, <2>4, <2>5 DEF Closes, EntryStands, BaseTypes, IsOpen
  <2> QED
    BY <2>1, <2>6 DEF Closes, d, e
<1>4. ASSUME NEW n \in DOMAIN k
      PROVE  EntryStands(docs', es[Len(r) + n]) /\ es[Len(r) + n].reverses = None
             /\ es[Len(r) + n].type = "CARRY_FORWARD"
  <2> DEFINE new == Len(docs) + n
             e == es[Len(r) + n]
             d == k[n]
  <2>1. Carries(e, new, d)
    BY <1>1
  <2>2. /\ new \in Ids(docs') /\ docs'[new].kind = "ORDER" /\ docs'[new].line = Target(d)
        /\ docs'[new].amount = Outstanding(docs, ledger, d) /\ docs'[new].status = "POSTED"
    BY <1>2 DEF DocsOfClosing
  <2> HIDE DEF new, e, d
  <2>3. new # None
    BY <2>2 DEF Ids, None
  <2>4. OnBooks(docs', e)
    BY <2>1, <2>2 DEF OnBooks, Carries, InBooks, Commitments
  <2>5. ComponentOf(docs', new) = "COMMITMENT"
    BY <2>2 DEF ComponentOf
  <2>6. EntryStands(docs', e)
    BY <2>1, <2>2, <2>3, <2>4, <2>5 DEF Carries, EntryStands, BaseTypes, InBooks
  <2> QED
    BY <2>1, <2>6 DEF Carries, e
<1>5. \A m \in DOMAIN es : EntryStands(docs', es[m]) /\ es[m].reverses = None /\ es[m].type # "REVERSAL"
  BY <1>1, <1>3, <1>4
<1> QED
  BY <1>5 DEF NewOK

\* No entry in force of a document is reversed by it.
LEMMA ClosingTogether ==
  ASSUME LedgerInv, NEW y \in Years, NEW r, NEW k, NEW es, ClosingOf(y, r, k, es)
  PROVE  ReversedTogether(docs', ledger')
<1>1. /\ ledger \in Seq(Entry) /\ es \in Seq(Entry) /\ ledger' = ledger \o es
      /\ EntriesOK(docs, ledger) /\ ReversedOnce(ledger) /\ ReversedTogether(docs, ledger)
      /\ DocsOfClosing(k)
  BY DEF LedgerInv, TypeOK, ClosingOf, EntriesOfClosing
<1>2. NewOK(docs', ledger, es) /\ \A m \in DOMAIN es : es[m].reverses = None /\ es[m].type # "REVERSAL"
  BY ClosingStands
<1>3. /\ \A i \in DOMAIN ledger : ledger'[i] = ledger[i] /\ i # None
      /\ \A n \in DOMAIN es : ledger'[Len(ledger) + n] = es[n]
      /\ \A i \in DOMAIN ledger' : i \in DOMAIN ledger \/ \E n \in DOMAIN es : i = Len(ledger) + n
  BY <1>1, Places
<1>4. /\ \A i \in DOMAIN ledger :
           IsReversed(ledger', i) <=> IsReversed(ledger, i) \/ \E n \in DOMAIN es : es[n].reverses = i
      /\ \A n \in DOMAIN es : ~IsReversed(ledger', Len(ledger) + n)
  <2>1. ReversedAfter(ledger, es)
    BY <1>1, <1>2, AppendedReversedOnce
  <2> QED
    BY <1>1, <2>1 DEF ReversedAfter
<1>5. ASSUME NEW i \in DOMAIN ledger, ledger[i].type # "REVERSAL", ledger[i].doc # None
      PROVE  IsReversed(ledger', i) <=> docs'[ledger[i].doc].status = "REVERSED"
  <2>1. ledger[i].doc \in Ids(docs)
    BY <1>1, <1>5 DEF EntriesOK, EntryOK, EntryStands
  <2>2. docs'[ledger[i].doc].status = docs[ledger[i].doc].status
    BY <1>1, <2>1 DEF DocsOfClosing
  <2>3. IsReversed(ledger', i) <=> IsReversed(ledger, i)
    BY <1>2, <1>3, <1>4
  <2> QED
    BY <1>1, <1>5, <2>2, <2>3 DEF ReversedTogether
<1>6. ASSUME NEW m \in DOMAIN es, es[m].doc # None
      PROVE  ~IsReversed(ledger', Len(ledger) + m) /\ docs'[es[m].doc].status # "REVERSED"
  <2>1. m \notin DOMAIN r
    BY <1>6 DEF ClosingOf, EntriesOfClosing, Closes
  <2>2. PICK n \in DOMAIN k : m = Len(r) + n
    BY <2>1 DEF ClosingOf, EntriesOfClosing
  <2>3. es[m].doc = Len(docs) + n
    BY <2>2 DEF ClosingOf, EntriesOfClosing, Carries
  <2> QED
    BY <1>1, <1>4, <2>3 DEF DocsOfClosing
<1> QED
  BY <1>3, <1>5, <1>6 DEF ReversedTogether

LEMMA ClosingEntersOnce ==
  ASSUME LedgerInv, NEW y \in Years, NEW r, NEW k, NEW es, ClosingOf(y, r, k, es)
  PROVE  EnteredOnce(docs', ledger')
<1>1. /\ ledger \in Seq(Entry) /\ es \in Seq(Entry) /\ ledger' = ledger \o es
      /\ EntriesOK(docs, ledger) /\ EnteredOnce(docs, ledger)
      /\ DocsOfClosing(k) /\ docs \in Seq(Doc)
  BY DEF LedgerInv, TypeOK, ClosingOf, EntriesOfClosing
<1>2. /\ DOMAIN ledger \subseteq DOMAIN ledger'
      /\ \A i \in DOMAIN ledger : ledger'[i] = ledger[i]
      /\ \A n \in DOMAIN es : Len(ledger) + n \in DOMAIN ledger' /\ ledger'[Len(ledger) + n] = es[n]
      /\ \A i \in DOMAIN ledger' : i \in DOMAIN ledger \/ \E n \in DOMAIN es : i = Len(ledger) + n
  BY <1>1, Places
<1>3. /\ DOMAIN k \subseteq Nat /\ Len(docs) \in Nat /\ Len(r) \in Nat
      /\ \A n \in DOMAIN k : /\ Len(docs) + n \in Ids(docs') \ Ids(docs)
                             /\ Len(r) + n \in DOMAIN es
                             /\ es[Len(r) + n].type = "CARRY_FORWARD"
                             /\ es[Len(r) + n].commitment = Len(docs) + n
      /\ \A d \in Ids(docs') : d \in Ids(docs) \/ \E n \in DOMAIN k : d = Len(docs) + n
  BY <1>1 DEF ClosingOf, IsListOf, EntriesOfClosing, Carries, DocsOfClosing
<1>4. ASSUME NEW m \in DOMAIN es, es[m].type \in BaseTypes
      PROVE  \E n \in DOMAIN k : m = Len(r) + n /\ es[m].commitment = Len(docs) + n
  <2>1. m \notin DOMAIN r
    BY <1>4 DEF ClosingOf, EntriesOfClosing, Closes, BaseTypes
  <2>2. PICK n \in DOMAIN k : m = Len(r) + n
    BY <2>1 DEF ClosingOf, EntriesOfClosing
  <2> QED
    BY <1>3, <2>2
<1>5. ASSUME NEW i \in DOMAIN ledger, NEW c, ledger[i].commitment = c, c # None PROVE c \in Ids(docs)
  BY <1>1, <1>5, EntriesBelong DEF Belongs, OnBooks
<1>6. ASSUME NEW c \in Ids(docs'), docs'[c].kind \in Commitments, docs'[c].status \in InBooks
      PROVE  \E i \in DOMAIN ledger' : IsBase(ledger', c, i)
  <2>1. CASE c \in Ids(docs)
    <3>1. docs[c].kind \in Commitments /\ docs[c].status \in InBooks
      BY <1>1, <1>6, <2>1 DEF DocsOfClosing, Advances
    <3>2. PICK i \in DOMAIN ledger : IsBase(ledger, c, i)
      BY <1>1, <2>1, <3>1 DEF EnteredOnce
    <3> QED
      BY <1>2, <3>2 DEF IsBase
  <2>2. CASE c \notin Ids(docs)
    <3>1. PICK n \in DOMAIN k : c = Len(docs) + n
      BY <1>3, <2>2
    <3> DEFINE m == Len(r) + n
    <3>2. m \in DOMAIN es /\ es[m].type \in BaseTypes /\ es[m].commitment = c
      BY <1>3, <3>1 DEF BaseTypes
    <3>3. Len(ledger) + m \in DOMAIN ledger' /\ ledger'[Len(ledger) + m] = es[m]
      BY <1>2, <3>2
    <3> HIDE DEF m
    <3> QED
      BY <3>2, <3>3 DEF IsBase
  <2> QED
    BY <2>1, <2>2
<1>7. ASSUME NEW i \in DOMAIN ledger', NEW j \in DOMAIN ledger', NEW c \in Ids(docs'),
             IsBase(ledger', c, i), IsBase(ledger', c, j)
      PROVE  i = j
  <2>0. c # None
    BY DEF Ids, None
  <2>1. CASE i \in DOMAIN ledger /\ j \in DOMAIN ledger
    <3>1. IsBase(ledger, c, i) /\ IsBase(ledger, c, j)
      BY <1>2, <1>7, <2>1 DEF IsBase
    <3>2. c \in Ids(docs)
      BY <1>5, <2>0, <2>1, <3>1 DEF IsBase
    <3> QED
      BY <1>1, <2>1, <3>1, <3>2 DEF EnteredOnce
  <2>2. ASSUME NEW o \in DOMAIN ledger, NEW m \in DOMAIN es,
               IsBase(ledger', c, o), IsBase(ledger', c, Len(ledger) + m)
        PROVE  FALSE
    <3>1. es[m].type \in BaseTypes /\ es[m].commitment = c /\ ledger[o].commitment = c
      BY <1>2, <2>2 DEF IsBase
    <3>2. c \in Ids(docs)
      BY <1>5, <2>0, <3>1
    <3> QED
      BY <1>3, <1>4, <3>1, <3>2
  <2>3. ASSUME NEW m \in DOMAIN es, NEW n \in DOMAIN es,
               IsBase(ledger', c, Len(ledger) + m), IsBase(ledger', c, Len(ledger) + n)
        PROVE  m = n
    <3>1. /\ es[m].type \in BaseTypes /\ es[n].type \in BaseTypes
          /\ es[m].commitment = c /\ es[n].commitment = c
      BY <1>2, <2>3 DEF IsBase
    <3>2. PICK a \in DOMAIN k : m = Len(r) + a /\ c = Len(docs) + a
      BY <1>4, <3>1
    <3>3. PICK b \in DOMAIN k : n = Len(r) + b /\ c = Len(docs) + b
      BY <1>4, <3>1
    <3>4. a \in Nat /\ b \in Nat /\ Len(docs) \in Nat
      BY <1>3
    <3>5. a = b
      BY ONLY <3>2, <3>3, <3>4
    <3> QED
      BY <3>2, <3>3, <3>5
  <2> QED
    BY <1>2, <1>7, <2>1, <2>2, <2>3
<1> QED
  BY <1>6, <1>7 DEF EnteredOnce

LEMMA ClosingLeavesNoLess ==
  ASSUME LedgerInv, NEW y \in Years, NEW r, NEW k, NEW es, ClosingOf(y, r, k, es)
  PROVE  NothingBelowZero'
<1>1. /\ ledger \in Seq(Entry) /\ es \in Seq(Entry) /\ ledger' = ledger \o es
      /\ EntriesOK(docs, ledger) /\ NothingBelowZero /\ docs \in Seq(Doc) /\ docs' \in Seq(Doc)
      /\ DocsOfClosing(k) /\ Advances(docs, docs') /\ OutstandingNonNegative(es)
  BY DEF LedgerInv, TypeOK, ClosingOf, EntriesOfClosing, DocsOfClosing
<1> SUFFICES ASSUME NEW c \in Ids(docs'), docs'[c].kind \in Commitments
             PROVE  Outstanding(docs', ledger', c) >= 0
  BY DEF NothingBelowZero
<1>2. c # None
  BY DEF Ids, None
<1>3. CASE c \in Ids(docs) /\ \A n \in DOMAIN es : es[n].commitment # c \/ es[n].component # ComponentOf(docs, c)
  <2>1. Outstanding(docs', ledger \o es, c) = Outstanding(docs, ledger, c)
    BY <1>1, <1>3, UntouchedHolds
  <2>2. docs[c].kind \in Commitments
    BY <1>1, <1>3 DEF Advances
  <2> QED
    BY <1>1, <1>3, <2>1, <2>2 DEF NothingBelowZero
<1>4. ASSUME NEW n \in DOMAIN es, es[n].commitment = c, es[n].component = ComponentOf(docs', c)
      PROVE  Outstanding(docs', ledger', c) >= 0
  <2>1. es[n].component # "ACTUAL" /\ n \in 1 .. Len(es)
    BY <1>1, <1>4, EntriesAre DEF ComponentOf
  <2>2. Total(ledger', {i \in DOMAIN ledger' : /\ ledger'[i].commitment = es[n].commitment
                                              /\ ledger'[i].component = es[n].component}) >= 0
    BY <1>1, <1>2, <1>4, <2>1 DEF OutstandingNonNegative
  <2>3. OnCommitment(docs', ledger', c) =
          {i \in DOMAIN ledger' : /\ ledger'[i].commitment = es[n].commitment
                                  /\ ledger'[i].component = es[n].component}
    BY <1>4 DEF OnCommitment
  <2> QED
    BY <2>2, <2>3 DEF Outstanding
<1>5. c \in Ids(docs) => ComponentOf(docs', c) = ComponentOf(docs, c)
  BY <1>1 DEF Advances, ComponentOf
<1>6. CASE c \notin Ids(docs)
  <2>1. PICK n \in DOMAIN k : c = Len(docs) + n
    BY <1>1, <1>6 DEF DocsOfClosing
  <2>2. Len(r) + n \in DOMAIN es /\ Carries(es[Len(r) + n], c, k[n])
    BY <2>1 DEF ClosingOf, EntriesOfClosing
  <2>3. ComponentOf(docs', c) = "COMMITMENT"
    BY <1>1, <2>1 DEF DocsOfClosing, ComponentOf
  <2> QED
    BY <1>4, <2>2, <2>3 DEF Carries
<1> QED
  BY <1>3, <1>4, <1>5, <1>6

LEMMA ClosingKeepsLedger ==
  ASSUME LedgerInv, NEW y \in Years, NEW r, NEW k, NEW es, ClosingOf(y, r, k, es)
  PROVE  LedgerInv'
<1>1. /\ ledger \in Seq(Entry) /\ es \in Seq(Entry) /\ ledger' = ledger \o es
      /\ EntriesOK(docs, ledger) /\ ReversedOnce(ledger) /\ DocsRefer(docs) /\ ConvertedOnce
      /\ docs \in Seq(Doc) /\ docs' \in Seq(Doc) /\ DocsOfClosing(k) /\ Advances(docs, docs')
      /\ balance' = AfterPosting(es)
  BY DEF LedgerInv, TypeOK, ClosingOf, EntriesOfClosing, DocsOfClosing
<1>2. NewOK(docs', ledger, es)
  BY ClosingStands
<1>3. balance' \in [Lines -> Positions] /\ BalanceIsLedger'
  BY <1>1, AppendedBalance
<1>4. TypeOK'
  BY <1>1, <1>3 DEF TypeOK
<1>5. /\ \A d \in Ids(docs) : /\ docs'[d].kind = docs[d].kind /\ docs'[d].of = docs[d].of
                              /\ docs'[d].status = docs[d].status
      /\ \A d \in Ids(docs') \ Ids(docs) : docs'[d].kind = "ORDER" /\ docs'[d].of = None
  BY <1>1 DEF DocsOfClosing, Advances
<1>6. DocsRefer(docs')
  <2> SUFFICES ASSUME NEW d \in Ids(docs') PROVE DocRefers(docs', d)
    BY DEF DocsRefer
  <2>1. CASE d \in Ids(docs)
    <3>1. DocRefers(docs, d)
      BY <1>1, <2>1 DEF DocsRefer
    <3>2. docs'[d].kind = "REVERSAL" => docs'[d].status # "REVERSED"
      BY <1>5, <2>1, <3>1 DEF DocRefers
    <3> QED
      BY <1>1, <2>1, <3>1, <3>2, RefersStill
  <2>2. CASE d \notin Ids(docs)
    BY <1>5, <2>2 DEF DocRefers
  <2> QED
    BY <2>1, <2>2
<1>7. EntriesOK(docs', ledger')
  BY <1>1, <1>2, AppendedOK
<1>8. ReversedOnce(ledger')
  BY <1>1, <1>2, AppendedReversedOnce
<1>9. ConvertedOnce'
  <2> SUFFICES ASSUME NEW i \in Ids(docs'), NEW j \in Ids(docs'), i # j,
                      docs'[i].kind = "ORDER", docs'[i].of # None,
                      docs'[j].kind = "ORDER", docs'[j].of = docs'[i].of
               PROVE  docs'[i].status = "DROPPED" \/ docs'[j].status = "DROPPED"
    BY DEF ConvertedOnce
  <2>1. i \in Ids(docs) /\ j \in Ids(docs)
    BY <1>5
  <2> QED
    BY <1>1, <1>5, <2>1 DEF ConvertedOnce
<1>10. ReversedTogether(docs', ledger') /\ EnteredOnce(docs', ledger') /\ NothingBelowZero'
  BY ClosingTogether, ClosingEntersOnce, ClosingLeavesNoLess
<1> QED
  BY <1>3, <1>4, <1>6, <1>7, <1>8, <1>9, <1>10 DEF LedgerInv

-----------------------------------------------------------------------------
(* What years that are closed keep.                                        *)

\* Nothing of the year is on its way, or held.
Settled(y) ==
  /\ ~Unfinished(y)
  /\ \A d \in InYear(y) : docs[d].kind \in Commitments => Outstanding(docs, ledger, d) = 0

\* What is neither paid nor cancelled of an order.
Left(D, L, d) == D[d].amount - Paid(D, L, d) - NetByType(D, L, d, {"CANCELLATION"})

\* What was left of an order is the amount of the one commitment it was carried to.
CarriedRight(D, L, T, d) ==
  IF Left(D, L, d) = 0 THEN \A n \in Ids(D) : <<d, n>> \notin T
  ELSE \E n \in Ids(D) : /\ \A m \in Ids(D) : <<d, m>> \in T <=> m = n
                         /\ D[n].amount = Left(D, L, d)
                         /\ YearOf(D[n].line) = YearOf(D[d].line) + 1

OrdersCarried(y) ==
  \A d \in InYear(y) :
    docs[d].kind = "ORDER" /\ docs[d].status = "POSTED" => CarriedRight(docs, ledger, carriedTo, d)

YearTypes ==
  /\ year \in [Years -> {"NONE", "PLANNING", "OPEN", "CLOSED"}]
  /\ closed \subseteq Years \X Months
  /\ changes \in Nat
  /\ carriedTo \subseteq Ids(docs) \X Ids(docs)

Closed(y) == year[y] = "CLOSED"

\* Entries of a closing, and what was carried, are of years that are closed.
ClosingsClosed ==
  /\ \A i \in DOMAIN ledger : ledger[i].type = "CLOSING" => Closed(YearOf(ledger[i].line))
  /\ \A d, n \in Ids(docs) : <<d, n>> \in carriedTo => Closed(YearOf(docs[d].line))

YearInv ==
  /\ LedgerInv
  /\ YearTypes
  /\ ClosingsClosed
  /\ \A y \in Years : Closed(y) => Settled(y) /\ OrdersCarried(y)

\* The entries es are appended; documents go on.
Appends(es) ==
  /\ docs \in Seq(Doc) /\ docs' \in Seq(Doc) /\ Advances(docs, docs')
  /\ ledger \in Seq(Entry) /\ es \in Seq(Entry) /\ ledger' = ledger \o es

\* Nothing of the year changes.
Untouched(y, es) ==
  /\ \A d \in InYear(y) : docs'[d].status = docs[d].status
  /\ \A d \in Ids(docs') \ Ids(docs) : YearOf(docs'[d].line) # y
  /\ \A n \in DOMAIN es : YearOf(es[n].line) # y
  /\ \A d \in InYear(y) : \A n : <<d, n>> \in carriedTo' <=> <<d, n>> \in carriedTo

\* A closed year whose documents nothing touches stays as it is.
LEMMA StaysSettled ==
  ASSUME YearInv, LedgerInv', NEW es, Appends(es), NEW y \in Years, Closed(y), Untouched(y, es)
  PROVE  Settled(y)' /\ OrdersCarried(y)'
<1>1. /\ docs \in Seq(Doc) /\ docs' \in Seq(Doc) /\ Advances(docs, docs')
      /\ ledger \in Seq(Entry) /\ es \in Seq(Entry) /\ ledger' = ledger \o es
      /\ EntriesOK(docs, ledger) /\ EntriesOK(docs', ledger') /\ ledger' \in Seq(Entry)
  BY DEF YearInv, LedgerInv, TypeOK, Appends
<1>2. Settled(y) /\ OrdersCarried(y) /\ carriedTo \subseteq Ids(docs) \X Ids(docs)
  BY DEF YearInv, YearTypes
<1>3. Ids(docs) \subseteq Ids(docs')
  BY <1>1 DEF Advances, Ids
<1>4. \A n \in DOMAIN es : Len(ledger) + n \in DOMAIN ledger' /\ ledger'[Len(ledger) + n] = es[n]
  BY <1>1, Places
<1>5. ASSUME NEW d \in InYear(y)'
      PROVE  /\ d \in InYear(y) /\ d \in Ids(docs)
             /\ docs'[d].kind = docs[d].kind /\ docs'[d].line = docs[d].line
             /\ docs'[d].status = docs[d].status /\ docs'[d].amount = docs[d].amount
             /\ Outstanding(docs', ledger', d) = Outstanding(docs, ledger, d)
             /\ Left(docs', ledger', d) = Left(docs, ledger, d)
  <2>1. d \in Ids(docs') /\ YearOf(docs'[d].line) = y
    BY DEF InYear
  <2>2. d \in Ids(docs)
    BY <2>1 DEF Untouched
  <2>3. docs'[d].kind = docs[d].kind /\ docs'[d].line = docs[d].line /\ docs'[d].amount = docs[d].amount
    BY <1>1, <2>2 DEF Advances
  <2>4. d \in InYear(y) /\ docs'[d].status = docs[d].status
    BY <2>1, <2>2, <2>3 DEF InYear, Untouched
  <2>5. \A n \in DOMAIN es : es[n].commitment # d
    <3> SUFFICES ASSUME NEW n \in DOMAIN es, es[n].commitment = d PROVE FALSE
      OBVIOUS
    <3>1. Belongs(docs', es[n]) /\ d # None
      <4>1. Len(ledger) + n \in DOMAIN ledger' /\ ledger'[Len(ledger) + n] = es[n]
        BY <1>4
      <4>2. Belongs(docs', ledger'[Len(ledger) + n])
        BY <1>1, <4>1, EntriesBelong
      <4> QED
        BY <2>2, <4>1, <4>2 DEF Ids, None
    <3>2. docs'[d].line = es[n].line
      BY <3>1 DEF Belongs, OnBooks
    <3> QED
      BY <2>1, <3>2 DEF Untouched
  <2>6. /\ Outstanding(docs', ledger \o es, d) = Outstanding(docs, ledger, d)
        /\ \A types : NetByType(docs', ledger \o es, d, types) = NetByType(docs, ledger, d, types)
    BY <1>1, <2>2, <2>5, UntouchedHolds
  <2> QED
    BY <1>1, <2>2, <2>3, <2>4, <2>6 DEF Left, Paid
<1>6. Settled(y)'
  <2>1. ASSUME NEW d \in InYear(y)' PROVE docs'[d].status # "PENDING"
    BY <1>2, <1>5 DEF Settled, Unfinished, Pending
  <2>2. ASSUME NEW d \in InYear(y)', docs'[d].kind \in Commitments
        PROVE  Outstanding(docs', ledger', d) = 0
    BY <1>2, <1>5, <2>2 DEF Settled
  <2> QED
    BY <2>1, <2>2 DEF Settled, Unfinished, Pending
<1>7. ASSUME NEW d \in InYear(y)', docs'[d].kind = "ORDER", docs'[d].status = "POSTED"
      PROVE  CarriedRight(docs', ledger', carriedTo', d)
  <2>1. /\ d \in InYear(y) /\ d \in Ids(docs) /\ docs'[d].line = docs[d].line
        /\ Left(docs', ledger', d) = Left(docs, ledger, d)
        /\ CarriedRight(docs, ledger, carriedTo, d)
    BY <1>2, <1>5, <1>7 DEF OrdersCarried
  <2>2. \A n \in Ids(docs') : <<d, n>> \in carriedTo' <=> n \in Ids(docs) /\ <<d, n>> \in carriedTo
    BY <1>2, <1>3, <2>1 DEF Untouched
  <2>3. CASE Left(docs, ledger, d) = 0
    BY <2>1, <2>2, <2>3 DEF CarriedRight
  <2>4. CASE Left(docs, ledger, d) # 0
    <3>1. PICK n \in Ids(docs) : /\ \A m \in Ids(docs) : <<d, m>> \in carriedTo <=> m = n
                                 /\ docs[n].amount = Left(docs, ledger, d)
                                 /\ YearOf(docs[n].line) = YearOf(docs[d].line) + 1
      BY <2>1, <2>4 DEF CarriedRight
    <3>2. docs'[n].amount = docs[n].amount /\ docs'[n].line = docs[n].line /\ n \in Ids(docs')
      BY <1>1, <1>3 DEF Advances
    <3>3. \A m \in Ids(docs') : <<d, m>> \in carriedTo' <=> m = n
      BY <2>2, <3>1
    <3> QED
      BY <2>1, <2>4, <3>1, <3>2, <3>3 DEF CarriedRight
  <2> QED
    BY <2>3, <2>4
<1>8. OrdersCarried(y)'
  BY <1>7 DEF OrdersCarried
<1> QED
  BY <1>6, <1>8

\* One entry more on a commitment changes what it holds by so much, and nothing of what
\* was entered under other types.
LEMMA OneMore ==
  ASSUME NEW D \in Seq(Doc), NEW E \in Seq(Doc), Advances(D, E),
         NEW L \in Seq(Entry), NEW es \in Seq(Entry), EntriesOK(D, L), NEW c \in Ids(D),
         NEW n \in DOMAIN es, es[n].commitment = c, es[n].component = ComponentOf(D, c),
         es[n].reverses = None,
         \A m \in DOMAIN es : m # n => es[m].commitment # c
  PROVE  /\ Outstanding(E, L \o es, c) = Outstanding(D, L, c) + es[n].amount
         /\ \A types : es[n].type \notin types => NetByType(E, L \o es, c, types) = NetByType(D, L, c, types)
<1> DEFINE M == L \o es
           p == Len(L) + n
           O == OnCommitment(D, L, c)
<1>1. /\ M \in Seq(Entry) /\ DOMAIN L \subseteq DOMAIN M /\ \A j \in DOMAIN L : M[j] = L[j]
      /\ \A m \in DOMAIN es : Len(L) + m \in DOMAIN M /\ M[Len(L) + m] = es[m]
      /\ \A m \in DOMAIN es : Len(L) + m \notin DOMAIN L
      /\ \A i \in DOMAIN M : i \in DOMAIN L \/ \E m \in DOMAIN es : i = Len(L) + m
  <2>1. L \in Seq(Entry) /\ es \in Seq(Entry)
    OBVIOUS
  <2> HIDE DEF p, O
  <2> QED
    BY ONLY <2>1, Places
<1>2. ComponentOf(E, c) = ComponentOf(D, c)
  BY DEF Advances, ComponentOf
<1>3. O \subseteq DOMAIN L
  BY DEF OnCommitment
<1> HIDE DEF M, p
<1>4. p \in DOMAIN M /\ M[p] = es[n] /\ p \notin DOMAIN L
  BY <1>1 DEF p
<1>5. OnCommitment(E, M, c) = O \cup {p}
  <2>1. ASSUME NEW i \in OnCommitment(E, M, c) PROVE i \in O \cup {p}
    <3>1. i \in DOMAIN M /\ M[i].commitment = c /\ M[i].component = ComponentOf(D, c)
      BY <1>2 DEF OnCommitment
    <3>2. CASE i \in DOMAIN L
      BY <1>1, <3>1, <3>2 DEF OnCommitment
    <3>3. CASE i \notin DOMAIN L
      BY <1>1, <3>1, <3>3 DEF p
    <3> QED
      BY <3>2, <3>3
  <2>2. ASSUME NEW i \in O \cup {p} PROVE i \in OnCommitment(E, M, c)
    BY <1>1, <1>2, <1>4 DEF OnCommitment
  <2> QED
    BY <2>1, <2>2
<1> HIDE DEF O
<1>6. Total(M, O \cup {p}) = Total(L, O) + es[n].amount
  <2>0. M \in Seq(Entry) /\ O \subseteq DOMAIN M /\ {p} \subseteq DOMAIN M /\ O \cap {p} = {}
    BY <1>1, <1>3, <1>4
  <2>1. Total(M, O \cup {p}) = Total(M, O) + Total(M, {p})
    BY <2>0, TotalSplit
  <2>2. Total(M, {p}) = es[n].amount
    BY <1>1, <1>4, TotalOfOne
  <2>3. Total(M, O) = Total(L, O)
    BY <1>3, TotalOfOld DEF M
  <2> QED
    BY <2>1, <2>2, <2>3
<1>7. ASSUME NEW types, es[n].type \notin types PROVE NetByType(E, M, c, types) = NetByType(D, L, c, types)
  <2> DEFINE S == OfTypes(L, types)
             T == OfTypes(M, types)
             P == O \cap (S \cup Reversing(L, S))
             Q == (O \cup {p}) \cap (T \cup Reversing(M, T))
  <2>1. ASSUME NEW i \in DOMAIN L
        PROVE  /\ i \in S <=> i \in T
               /\ i \in Reversing(L, S) <=> i \in Reversing(M, T)
    <3>1. L[i].reverses = None \/ L[i].reverses \in DOMAIN L
      BY EntriesAre DEF EntriesOK, EntryOK, EntryReverses
    <3>2. None \notin S \cup T
      BY <1>1, EntriesAre DEF OfTypes, None
    <3> QED
      BY <1>1, <3>1, <3>2 DEF OfTypes, Reversing
  <2>2. p \notin T \cup Reversing(M, T)
    <3>1. None \notin T
      BY <1>1, EntriesAre DEF OfTypes, None
    <3> QED
      BY <1>4, <1>7, <3>1 DEF OfTypes, Reversing
  <2>3. P = Q /\ P \subseteq DOMAIN L
    BY <1>3, <2>1, <2>2
  <2> HIDE DEF P, Q
  <2>4. Total(M, Q) = Total(L, P)
    BY <2>3, TotalOfOld DEF M
  <2>5. NetByType(E, M, c, types) = -Total(M, Q)
    BY <1>5 DEF NetByType, Q
  <2>6. NetByType(D, L, c, types) = -Total(L, P)
    BY DEF NetByType, P, O
  <2> QED
    BY <2>4, <2>5, <2>6
<1>8. Outstanding(E, M, c) = Total(M, O \cup {p}) /\ Outstanding(D, L, c) = Total(L, O)
  BY <1>5 DEF Outstanding, O
<1> QED
  BY <1>6, <1>7, <1>8 DEF M

\* Where no closing was entered on an order, what is left of it is what it holds.
LEMMA LeftIsHeld ==
  ASSUME NEW D, NEW L \in Seq(Entry), EntriesOK(D, L), ReversedOnce(L), EnteredOnce(D, L), ReversedTogether(D, L),
         NEW d \in Ids(D), D[d].kind = "ORDER", D[d].status = "POSTED",
         \A i \in OnCommitment(D, L, d) : L[i].type # "CLOSING"
  PROVE  Left(D, L, d) = Outstanding(D, L, d)
<1> DEFINE O == OnCommitment(D, L, d)
           S == OfTypes(L, {"CANCELLATION"})
           T == OfTypes(L, {"CANCELLATION", "CLOSING"})
           P == OfTypes(L, {"COMMITMENT_LIQUIDATION"})
<1>1. O \subseteq DOMAIN L
  BY DEF OnCommitment
<1>2. ASSUME NEW i \in O
      PROVE  i \in S \cup Reversing(L, S) <=> i \in T \cup Reversing(L, T)
  <2>1. i \in S <=> i \in T
    BY <1>1 DEF OfTypes
  <2>2. ASSUME L[i].reverses \in T PROVE L[i].reverses \in S
    <3> DEFINE j == L[i].reverses
    <3>1. j \in DOMAIN L /\ j # None /\ L[j].type \in {"CANCELLATION", "CLOSING"}
      BY <2>2, EntriesAre DEF OfTypes, None
    <3>2. EntryOK(D, L, i) /\ EntryOK(D, L, j)
      BY <1>1, <3>1 DEF EntriesOK
    <3>3. L[j].doc # None
      BY <3>1, <3>2 DEF EntryOK, EntryReverses
    <3>4. L[j].type # "CLOSING"
      BY <3>1, <3>2, <3>3 DEF EntryOK, EntryStands
    <3> QED
      BY <3>1, <3>4 DEF OfTypes
  <2>3. L[i].reverses \in S => L[i].reverses \in T
    BY DEF OfTypes
  <2> QED
    BY <1>1, <2>1, <2>2, <2>3 DEF Reversing
<1>3. O \cap (S \cup Reversing(L, S)) = O \cap (T \cup Reversing(L, T))
  BY <1>2
<1>4. Cancelled(D, L, d) = NetByType(D, L, d, {"CANCELLATION"})
  BY <1>3 DEF Cancelled, NetByType
<1>5. D[d].amount = Outstanding(D, L, d) + Paid(D, L, d) + Cancelled(D, L, d)
  BY OrderSplits
<1>6. Outstanding(D, L, d) \in Int
  BY OutstandingInForce
<1>7. \A X : X \subseteq DOMAIN L => -Total(L, X) \in Int
  BY TotalType
<1>8. Paid(D, L, d) \in Int
  <2>1. Paid(D, L, d) = -Total(L, O \cap (P \cup Reversing(L, P)))
    BY DEF Paid, NetByType
  <2>2. O \cap (P \cup Reversing(L, P)) \subseteq DOMAIN L
    BY <1>1
  <2> HIDE DEF O, P
  <2> QED
    BY <1>7, <2>1, <2>2
<1>9. Cancelled(D, L, d) \in Int
  <2>1. Cancelled(D, L, d) = -Total(L, O \cap (T \cup Reversing(L, T)))
    BY DEF Cancelled, NetByType
  <2>2. O \cap (T \cup Reversing(L, T)) \subseteq DOMAIN L
    BY <1>1
  <2> HIDE DEF O, T
  <2> QED
    BY <1>7, <2>1, <2>2
<1> QED
  BY <1>4, <1>5, <1>6, <1>8, <1>9 DEF Left

\* What a closing does to each document of the year.
LEMMA ClosingSettlesOne ==
  ASSUME LedgerInv, NEW y \in Years, NEW r, NEW k, NEW es, ClosingOf(y, r, k, es), NEW d \in InYear(y),
         docs[d].kind \in Commitments
  PROVE  /\ docs[d].status = "POSTED" => Outstanding(docs', ledger', d) = 0
         /\ Left(docs', ledger', d) = Left(docs, ledger, d)
<1>1. /\ docs \in Seq(Doc) /\ docs' \in Seq(Doc) /\ Advances(docs, docs') /\ d \in Ids(docs)
      /\ ledger \in Seq(Entry) /\ es \in Seq(Entry) /\ ledger' = ledger \o es
      /\ EntriesOK(docs, ledger) /\ ReversedOnce(ledger) /\ NothingBelowZero /\ DocsOfClosing(k)
      /\ YearOf(docs[d].line) = y /\ docs'[d].amount = docs[d].amount
  BY DEF LedgerInv, TypeOK, ClosingOf, EntriesOfClosing, DocsOfClosing, InYear, Advances
<1>2. /\ \A n \in DOMAIN r : n \in DOMAIN es /\ Closes(es[n], r[n]) /\ r[n] \in OpenOf(y)
      /\ \A m, n \in DOMAIN r : m # n => r[m] # r[n]
      /\ \A x \in OpenOf(y) : \E n \in DOMAIN r : r[n] = x
      /\ \A n \in DOMAIN k : Carries(es[Len(r) + n], Len(docs) + n, k[n]) /\ Len(docs) + n \notin Ids(docs)
      /\ \A m \in DOMAIN es : m \in DOMAIN r \/ \E n \in DOMAIN k : m = Len(r) + n
  BY <1>1 DEF ClosingOf, IsListOf, EntriesOfClosing, DocsOfClosing
<1>3. ASSUME NEW m \in DOMAIN es, es[m].commitment = d PROVE m \in DOMAIN r /\ r[m] = d
  <2>1. m \in DOMAIN r
    BY <1>1, <1>2, <1>3 DEF Carries
  <2> QED
    BY <1>2, <1>3, <2>1 DEF Closes
<1>4. CASE d \in OpenOf(y)
  <2>1. PICK n \in DOMAIN r : r[n] = d
    BY <1>2, <1>4
  <2>2. n \in DOMAIN es /\ Closes(es[n], d)
    BY <1>2, <2>1
  <2>3. \A m \in DOMAIN es : m # n => es[m].commitment # d
    BY <1>2, <1>3, <2>1
  <2>4. /\ Outstanding(docs', ledger \o es, d) = Outstanding(docs, ledger, d) + es[n].amount
        /\ \A types : es[n].type \notin types =>
             NetByType(docs', ledger \o es, d, types) = NetByType(docs, ledger, d, types)
    BY <1>1, <2>2, <2>3, OneMore DEF Closes
  <2>5. Outstanding(docs', ledger', d) = 0
    BY <1>1, <2>2, <2>4, OutstandingInForce DEF Closes
  <2>6. /\ NetByType(docs', ledger', d, {"CANCELLATION"}) = NetByType(docs, ledger, d, {"CANCELLATION"})
        /\ Paid(docs', ledger', d) = Paid(docs, ledger, d)
    BY <1>1, <2>2, <2>4 DEF Closes, Paid
  <2> QED
    BY <1>1, <2>5, <2>6 DEF Left
<1>5. CASE d \notin OpenOf(y)
  <2>1. \A m \in DOMAIN es : es[m].commitment # d
    BY <1>2, <1>3, <1>5
  <2>2. /\ Outstanding(docs', ledger \o es, d) = Outstanding(docs, ledger, d)
        /\ \A types : NetByType(docs', ledger \o es, d, types) = NetByType(docs, ledger, d, types)
    BY <1>1, <2>1, UntouchedHolds
  <2>3. docs[d].status = "POSTED" => Outstanding(docs, ledger, d) = 0
    <3>1. Outstanding(docs, ledger, d) \in Int /\ Outstanding(docs, ledger, d) >= 0
      BY <1>1, OutstandingInForce DEF NothingBelowZero
    <3>2. docs[d].status = "POSTED" => ~(Outstanding(docs, ledger, d) > 0)
      BY <1>1, <1>5 DEF OpenOf
    <3> QED
      BY <3>1, <3>2
  <2> QED
    BY <1>1, <2>2, <2>3 DEF Left, Paid
<1> QED
  BY <1>4, <1>5

\* The orders k are carried to the commitments that follow the documents there were.
CarriesOver(k) ==
  \A d, n : <<d, n>> \in carriedTo' <=>
              \/ <<d, n>> \in carriedTo
              \/ \E i \in DOMAIN k : d = k[i] /\ n = Len(docs) + i

LEMMA ClosingCarries ==
  ASSUME LedgerInv, NEW y \in Years, CloseYear(y)
  PROVE  /\ CarriesOver(ToCarry(y))
         /\ \A n \in DOMAIN ToCarry(y) : YearOf(Target(ToCarry(y)[n])) = y + 1 /\ year[y + 1] = "OPEN"
         /\ ~Unfinished(y) /\ ~Closed(y)
<1> DEFINE k == ToCarry(y)
<1>1. docs \in Seq(Doc) /\ ReadyToClose(y)
  BY DEF LedgerInv, TypeOK, CloseYear
<1>2. IsListOf(k, OrdersOf(y))
  BY <1>1, Listed
<1>3. carriedTo' = carriedTo \cup {<<k[n], Len(docs) + n>> : n \in 1 .. Len(k)}
  BY DEF CloseYear
<1> HIDE DEF k
<1>4. CarriesOver(k)
  BY <1>2, <1>3 DEF CarriesOver, IsListOf
<1>5. \A n \in DOMAIN k : YearOf(Target(k[n])) = y + 1 /\ year[y + 1] = "OPEN"
  BY <1>1, <1>2, TargetsAre DEF IsListOf, NextYearOpen
<1> QED
  BY <1>1, <1>4, <1>5 DEF k, ReadyToClose, Closed

\* The year that is closed has nothing on its way or held, and its orders are carried.
LEMMA ClosingSettles ==
  ASSUME YearInv, LedgerInv', NEW y \in Years, NEW r, NEW k, NEW es, ClosingOf(y, r, k, es),
         CarriesOver(k), \A n \in DOMAIN k : YearOf(Target(k[n])) = y + 1,
         ~Unfinished(y), ~Closed(y)
  PROVE  Settled(y)' /\ OrdersCarried(y)'
<1>1. /\ LedgerInv /\ docs \in Seq(Doc) /\ docs' \in Seq(Doc) /\ Advances(docs, docs')
      /\ Len(docs) \in Nat /\ y \in Nat
      /\ ledger \in Seq(Entry) /\ ledger' \in Seq(Entry) /\ DocsOfClosing(k)
      /\ EntriesOK(docs, ledger) /\ ReversedOnce(ledger) /\ EnteredOnce(docs, ledger)
      /\ ReversedTogether(docs, ledger) /\ NothingBelowZero
      /\ IsListOf(k, OrdersOf(y)) /\ Ids(docs) \subseteq Ids(docs')
      /\ carriedTo \subseteq Ids(docs) \X Ids(docs)
  BY DEF YearInv, YearTypes, LedgerInv, TypeOK, ClosingOf, DocsOfClosing, Years
<1>2. /\ EntriesOK(docs', ledger') /\ ReversedOnce(ledger') /\ ReversedTogether(docs', ledger')
      /\ NothingBelowZero'
  BY DEF LedgerInv
<1>3. ASSUME NEW d \in InYear(y)'
      PROVE  /\ d \in InYear(y) /\ d \in Ids(docs) /\ d \in Ids(docs') /\ docs[d] \in Doc
             /\ docs'[d].kind = docs[d].kind /\ docs'[d].line = docs[d].line
             /\ docs'[d].status = docs[d].status /\ docs'[d].amount = docs[d].amount
             /\ YearOf(docs[d].line) = y
  <2>1. d \in Ids(docs') /\ YearOf(docs'[d].line) = y
    BY DEF InYear
  <2>2. d \in Ids(docs)
    <3> SUFFICES ASSUME d \notin Ids(docs) PROVE FALSE
      OBVIOUS
    <3>1. PICK n \in DOMAIN k : d = Len(docs) + n
      BY <1>1, <2>1 DEF DocsOfClosing
    <3>2. YearOf(docs'[d].line) = y + 1
      BY <1>1, <3>1 DEF DocsOfClosing
    <3> QED
      BY <1>1, <2>1, <3>2
  <2>3. /\ docs'[d].kind = docs[d].kind /\ docs'[d].line = docs[d].line
        /\ docs'[d].status = docs[d].status /\ docs'[d].amount = docs[d].amount
    BY <1>1, <2>2 DEF DocsOfClosing, Advances
  <2>4. docs[d] \in Doc
    BY <1>1, <2>2 DEF Ids
  <2> QED
    BY <2>1, <2>2, <2>3, <2>4 DEF InYear
<1>4. ASSUME NEW d \in InYear(y)' PROVE docs'[d].status # "PENDING"
  BY <1>3 DEF Unfinished, Pending
<1>5. ASSUME NEW d \in InYear(y)', docs'[d].kind \in Commitments
      PROVE  Outstanding(docs', ledger', d) = 0
  <2>1. /\ d \in InYear(y) /\ docs[d].kind \in Commitments /\ d \in Ids(docs')
        /\ docs'[d].status \in {"PENDING", "POSTED", "REVERSED", "DROPPED"}
        /\ docs'[d].status = docs[d].status
    BY <1>3, <1>5 DEF Doc
  <2>2. CASE docs'[d].status = "POSTED"
    BY <1>1, <2>1, <2>2, ClosingSettlesOne
  <2>3. CASE docs'[d].status = "REVERSED"
    <3>1. Outstanding(docs', ledger', d) <= 0
      BY <1>1, <1>2, <2>1, <2>3, ReversedHoldsNoMore
    <3>2. Outstanding(docs', ledger', d) \in Int
      BY <1>1, <1>2, OutstandingInForce
    <3>3. Outstanding(docs', ledger', d) >= 0
      BY <1>2, <1>5, <2>1 DEF NothingBelowZero
    <3> QED
      BY <3>1, <3>2, <3>3
  <2>4. CASE docs'[d].status \notin InBooks
    BY <1>1, <1>2, <2>1, <2>4, UnbookedHoldsNothing
  <2> QED
    BY <2>1, <2>2, <2>3, <2>4 DEF InBooks
<1>6. Settled(y)'
  BY <1>4, <1>5 DEF Settled, Unfinished, Pending
<1>7. ASSUME NEW d \in InYear(y)', docs'[d].kind = "ORDER", docs'[d].status = "POSTED"
      PROVE  CarriedRight(docs', ledger', carriedTo', d)
  <2>1. /\ d \in InYear(y) /\ d \in Ids(docs) /\ docs[d].kind = "ORDER" /\ docs[d].status = "POSTED"
        /\ docs[d].kind \in Commitments /\ docs'[d].line = docs[d].line /\ YearOf(docs[d].line) = y
    BY <1>3, <1>7 DEF Commitments
  <2>2. Left(docs', ledger', d) = Left(docs, ledger, d)
    BY <1>1, <2>1, ClosingSettlesOne
  <2>3. Left(docs, ledger, d) = Outstanding(docs, ledger, d)
    <3>1. ASSUME NEW i \in OnCommitment(docs, ledger, d) PROVE ledger[i].type # "CLOSING"
      <4>1. i \in DOMAIN ledger /\ ledger[i].commitment = d /\ d # None
        BY <2>1 DEF OnCommitment, Ids, None
      <4>2. ledger[i].line = docs[d].line
        BY <1>1, <4>1, EntriesBelong DEF Belongs, OnBooks
      <4> QED
        BY <2>1, <4>1, <4>2 DEF YearInv, ClosingsClosed
    <3> QED
      BY <1>1, <2>1, <3>1, LeftIsHeld
  <2>4. Outstanding(docs, ledger, d) \in Int /\ Outstanding(docs, ledger, d) >= 0
    BY <1>1, <2>1, OutstandingInForce DEF NothingBelowZero
  <2>5. \A n : <<d, n>> \in carriedTo' <=> \E i \in DOMAIN k : d = k[i] /\ n = Len(docs) + i
    <3>1. \A n : <<d, n>> \notin carriedTo
      BY <1>1, <2>1 DEF YearInv, ClosingsClosed
    <3> QED
      BY <3>1 DEF CarriesOver
  <2>6. CASE Left(docs, ledger, d) = 0
    <3>1. d \notin OrdersOf(y)
      <4>1. Outstanding(docs, ledger, d) = 0
        BY <2>3, <2>6
      <4>2. ~(Outstanding(docs, ledger, d) > 0)
        BY <4>1
      <4> QED
        BY <4>2 DEF OrdersOf, OpenOf
    <3>2. \A n : <<d, n>> \notin carriedTo'
      BY <1>1, <2>5, <3>1 DEF IsListOf
    <3> QED
      BY <2>2, <2>6, <3>2 DEF CarriedRight
  <2>7. CASE Left(docs, ledger, d) # 0
    <3>1. d \in OrdersOf(y)
      BY <2>1, <2>3, <2>4, <2>7 DEF OrdersOf, OpenOf
    <3>2. PICK i \in DOMAIN k : k[i] = d
      BY <1>1, <3>1 DEF IsListOf
    <3>3. \A n : <<d, n>> \in carriedTo' <=> n = Len(docs) + i
      BY <1>1, <2>5, <3>2 DEF IsListOf
    <3> DEFINE new == Len(docs) + i
    <3>4. /\ new \in Ids(docs') /\ docs'[new].amount = Left(docs', ledger', d)
          /\ docs'[new].line = Target(d)
      BY <1>1, <2>2, <2>3, <3>2 DEF DocsOfClosing
    <3>5. YearOf(docs'[new].line) = YearOf(docs'[d].line) + 1
      BY <2>1, <3>2, <3>4
    <3>6. \A n \in Ids(docs') : <<d, n>> \in carriedTo' <=> n = new
      BY <3>3
    <3> HIDE DEF new
    <3> QED
      BY <2>2, <2>7, <3>4, <3>5, <3>6 DEF CarriedRight
  <2> QED
    BY <2>6, <2>7
<1>8. OrdersCarried(y)'
  BY <1>7 DEF OrdersCarried
<1> QED
  BY <1>6, <1>8

\* Other years that are closed are not touched: what a closing enters and carries is of
\* the year it closes and of the next, which is open.
LEMMA ClosingLeavesOthers ==
  ASSUME YearInv, NEW y \in Years, NEW r, NEW k, NEW es, ClosingOf(y, r, k, es), CarriesOver(k),
         \A n \in DOMAIN k : YearOf(Target(k[n])) = y + 1 /\ year[y + 1] = "OPEN",
         ~Closed(y), NEW z \in Years, Closed(z)
  PROVE  Appends(es) /\ Untouched(z, es)
<1>1. /\ docs \in Seq(Doc) /\ docs' \in Seq(Doc) /\ Advances(docs, docs')
      /\ ledger \in Seq(Entry) /\ es \in Seq(Entry) /\ ledger' = ledger \o es
      /\ DocsOfClosing(k) /\ z # y
      /\ \A n \in DOMAIN r : Closes(es[n], r[n]) /\ r[n] \in OpenOf(y)
      /\ \A n \in DOMAIN k : Carries(es[Len(r) + n], Len(docs) + n, k[n]) /\ k[n] \in OrdersOf(y)
      /\ \A m \in DOMAIN es : m \in DOMAIN r \/ \E n \in DOMAIN k : m = Len(r) + n
  BY DEF YearInv, LedgerInv, TypeOK, ClosingOf, DocsOfClosing, EntriesOfClosing, IsListOf
<1>2. Appends(es)
  BY <1>1 DEF Appends
<1>3. ASSUME NEW n \in DOMAIN k PROVE YearOf(Target(k[n])) # z
  BY <1>1 DEF Closed
<1>4. \A d \in InYear(z) : docs'[d].status = docs[d].status
  BY <1>1 DEF DocsOfClosing, InYear
<1>5. \A d \in Ids(docs') \ Ids(docs) : YearOf(docs'[d].line) # z
  BY <1>1, <1>3 DEF DocsOfClosing
<1>6. \A m \in DOMAIN es : YearOf(es[m].line) # z
  <2>1. \A m \in DOMAIN r : YearOf(es[m].line) = y
    BY <1>1 DEF Closes, OpenOf, InYear
  <2>2. \A n \in DOMAIN k : YearOf(es[Len(r) + n].line) # z
    BY <1>1, <1>3 DEF Carries
  <2> QED
    BY <1>1, <2>1, <2>2
<1>7. \A d \in InYear(z) : \A n : <<d, n>> \in carriedTo' <=> <<d, n>> \in carriedTo
  <2>1. \A n \in DOMAIN k : k[n] \notin InYear(z)
    BY <1>1 DEF OrdersOf, OpenOf, InYear
  <2>2. \A d, n : <<d, n>> \in carriedTo' <=>
                    <<d, n>> \in carriedTo \/ \E i \in DOMAIN k : d = k[i] /\ n = Len(docs) + i
    BY DEF CarriesOver
  <2> QED
    BY ONLY <2>1, <2>2
<1> QED
  BY <1>2, <1>4, <1>5, <1>6, <1>7 DEF Untouched

LEMMA ClosingKeepsYears ==
  ASSUME YearInv, NEW y \in Years, CloseYear(y)
  PROVE  YearInv'
<1> DEFINE r == ToRelease(y)
           k == ToCarry(y)
           es == ClosingEntries(y)
<1>1. LedgerInv /\ YearTypes /\ ClosingsClosed
  BY DEF YearInv
<1>2. ClosingOf(y, r, k, es)
  BY <1>1, ClosingIs
<1>3. /\ CarriesOver(k) /\ ~Unfinished(y) /\ ~Closed(y)
      /\ \A n \in DOMAIN k : YearOf(Target(k[n])) = y + 1 /\ year[y + 1] = "OPEN"
  BY <1>1, ClosingCarries
<1>4. /\ year' = [year EXCEPT ![y] = "CLOSED"] /\ closed' = closed \cup {<<y, p>> : p \in Months}
      /\ changes' = changes /\ carriedTo' = carriedTo \cup {<<k[n], Len(docs) + n>> : n \in 1 .. Len(k)}
  BY DEF CloseYear
<1> HIDE DEF r, k, es
<1>5. LedgerInv'
  BY <1>1, <1>2, ClosingKeepsLedger
<1>6. \A z \in Years : year'[z] = "CLOSED" <=> Closed(z) \/ z = y
  BY <1>1, <1>4 DEF Closed, YearTypes
<1>7. /\ DocsOfClosing(k) /\ ledger' = ledger \o es /\ ledger \in Seq(Entry) /\ es \in Seq(Entry)
      /\ IsListOf(k, OrdersOf(y)) /\ DOMAIN k = 1 .. Len(k)
      /\ Ids(docs) \subseteq Ids(docs')
      /\ docs \in Seq(Doc)
  BY <1>1, <1>2 DEF ClosingOf, EntriesOfClosing, DocsOfClosing, LedgerInv, TypeOK, IsListOf
<1>8. \A d \in Ids(docs) : /\ docs'[d].line = docs[d].line
                           /\ YearOf(docs[d].line) \in Years
  <2> SUFFICES ASSUME NEW d \in Ids(docs)
               PROVE  docs'[d].line = docs[d].line /\ YearOf(docs[d].line) \in Years
    OBVIOUS
  <2>1. docs[d] \in Doc
    BY <1>7 DEF Ids
  <2>2. docs[d].line \in Lines
    BY <2>1 DEF Doc
  <2> QED
    BY <1>7, <2>2, YearEndAssumption DEF DocsOfClosing, Advances
<1>9. \A n \in DOMAIN k : /\ k[n] \in Ids(docs) /\ YearOf(docs[k[n]].line) = y
                          /\ Len(docs) + n \in Ids(docs')
  BY <1>7 DEF IsListOf, OrdersOf, OpenOf, InYear, DocsOfClosing
<1>10. YearTypes'
  <2>1. year' \in [Years -> {"NONE", "PLANNING", "OPEN", "CLOSED"}]
    BY <1>1, <1>4 DEF YearTypes
  <2>2. closed' \subseteq Years \X Months
    BY <1>1, <1>4 DEF YearTypes
  <2>3. carriedTo' \subseteq Ids(docs') \X Ids(docs')
    <3>1. \A n \in 1 .. Len(k) : <<k[n], Len(docs) + n>> \in Ids(docs') \X Ids(docs')
      BY <1>7, <1>9
    <3>2. carriedTo \subseteq Ids(docs') \X Ids(docs')
      BY <1>1, <1>7 DEF YearTypes
    <3> QED
      BY <1>4, <3>1, <3>2
  <2> QED
    BY <1>1, <1>4, <2>1, <2>2, <2>3 DEF YearTypes
<1>11. ClosingsClosed'
  <2>1. ASSUME NEW i \in DOMAIN ledger', ledger'[i].type = "CLOSING" PROVE year'[YearOf(ledger'[i].line)] = "CLOSED"
    <3>0. /\ \A j \in DOMAIN ledger : ledger'[j] = ledger[j]
          /\ \A n \in DOMAIN es : ledger'[Len(ledger) + n] = es[n]
          /\ \A j \in DOMAIN ledger' : j \in DOMAIN ledger \/ \E n \in DOMAIN es : j = Len(ledger) + n
      BY <1>7, Places
    <3>1. CASE i \in DOMAIN ledger
      <4>1. ledger[i].line \in Lines /\ ledger'[i] = ledger[i]
        BY <1>7, <3>0, <3>1, EntriesAre DEF Entry
      <4>2. YearOf(ledger[i].line) \in Years /\ Closed(YearOf(ledger[i].line))
        BY <1>1, <2>1, <3>1, <4>1, YearEndAssumption DEF ClosingsClosed
      <4> QED
        BY <1>6, <4>1, <4>2
    <3>2. CASE i \notin DOMAIN ledger
      <4>1. PICK m \in DOMAIN es : ledger'[i] = es[m]
        BY <3>0, <3>2
      <4>2. m \in DOMAIN r
        BY <1>2, <2>1, <4>1 DEF ClosingOf, EntriesOfClosing, Carries
      <4>3. es[m].line = docs[r[m]].line /\ r[m] \in OpenOf(y)
        BY <1>2, <4>2 DEF ClosingOf, EntriesOfClosing, Closes, IsListOf
      <4>4. YearOf(ledger'[i].line) = y
        BY <4>1, <4>3 DEF OpenOf, InYear
      <4> QED
        BY <1>6, <4>4
    <3> QED
      BY <3>1, <3>2
  <2>2. ASSUME NEW d \in Ids(docs'), NEW n \in Ids(docs'), <<d, n>> \in carriedTo'
        PROVE  year'[YearOf(docs'[d].line)] = "CLOSED"
    <3>1. CASE <<d, n>> \in carriedTo
      <4>1. d \in Ids(docs) /\ n \in Ids(docs)
        BY <1>1, <3>1 DEF YearTypes
      <4>2. Closed(YearOf(docs[d].line))
        BY <1>1, <3>1, <4>1 DEF ClosingsClosed
      <4> QED
        BY <1>6, <1>8, <4>1, <4>2
    <3>2. CASE <<d, n>> \notin carriedTo
      <4>1. PICK i \in DOMAIN k : d = k[i]
        BY <1>3, <2>2, <3>2 DEF CarriesOver
      <4>2. YearOf(docs'[d].line) = y
        BY <1>8, <1>9, <4>1
      <4> QED
        BY <1>6, <4>2
    <3> QED
      BY <3>1, <3>2
  <2> QED
    BY <2>1, <2>2 DEF ClosingsClosed, Closed
<1>12. ASSUME NEW z \in Years, Closed(z)' PROVE Settled(z)' /\ OrdersCarried(z)'
  <2>1. CASE z = y
    BY <1>2, <1>3, <1>5, <2>1, ClosingSettles
  <2>2. CASE z # y
    <3>1. Closed(z)
      BY <1>6, <1>12, <2>2 DEF Closed
    <3>2. Appends(es) /\ Untouched(z, es)
      BY <1>2, <1>3, <3>1, ClosingLeavesOthers
    <3> QED
      BY <1>5, <3>1, <3>2, StaysSettled
  <2> QED
    BY <2>1, <2>2
<1> QED
  BY <1>5, <1>10, <1>11, <1>12 DEF YearInv

\* Any other step: it closes nothing, and touches no year that is closed.
OtherStep(es) ==
  /\ Appends(es) /\ LedgerInv' /\ YearTypes' /\ carriedTo' = carriedTo
  /\ \A y \in Years : year'[y] = "CLOSED" <=> Closed(y)
  /\ \A n \in DOMAIN es : es[n].type # "CLOSING"
  /\ \A y \in Years : Closed(y) => Untouched(y, es)

LEMMA OtherKeepsYears ==
  ASSUME YearInv, NEW es, OtherStep(es)
  PROVE  YearInv'
<1>1. /\ docs \in Seq(Doc) /\ docs' \in Seq(Doc) /\ Advances(docs, docs')
      /\ ledger \in Seq(Entry) /\ es \in Seq(Entry) /\ ledger' = ledger \o es
      /\ LedgerInv' /\ YearTypes' /\ carriedTo' = carriedTo
      /\ \A y \in Years : year'[y] = "CLOSED" <=> Closed(y)
      /\ carriedTo \subseteq Ids(docs) \X Ids(docs) /\ ClosingsClosed
  BY DEF OtherStep, Appends, YearInv, YearTypes
<1>2. ClosingsClosed'
  <2>1. ASSUME NEW i \in DOMAIN ledger', ledger'[i].type = "CLOSING"
        PROVE  year'[YearOf(ledger'[i].line)] = "CLOSED"
    <3>1. i \in DOMAIN ledger /\ ledger'[i] = ledger[i]
      <4>1. /\ \A j \in DOMAIN ledger : ledger'[j] = ledger[j]
            /\ \A n \in DOMAIN es : ledger'[Len(ledger) + n] = es[n]
            /\ \A j \in DOMAIN ledger' : j \in DOMAIN ledger \/ \E n \in DOMAIN es : j = Len(ledger) + n
        BY <1>1, Places
      <4> QED
        BY <2>1, <4>1 DEF OtherStep
    <3>2. ledger[i].line \in Lines
      BY <1>1, <3>1, EntriesAre DEF Entry
    <3>3. YearOf(ledger[i].line) \in Years /\ Closed(YearOf(ledger[i].line))
      BY <1>1, <2>1, <3>1, <3>2, YearEndAssumption DEF ClosingsClosed
    <3> QED
      BY <1>1, <3>1, <3>3
  <2>2. ASSUME NEW d \in Ids(docs'), NEW n \in Ids(docs'), <<d, n>> \in carriedTo'
        PROVE  year'[YearOf(docs'[d].line)] = "CLOSED"
    <3>1. d \in Ids(docs) /\ n \in Ids(docs)
      BY <1>1, <2>2
    <3>2. docs'[d].line = docs[d].line /\ docs[d] \in Doc
      BY <1>1, <3>1 DEF Advances, Ids
    <3>3. docs[d].line \in Lines
      BY <3>2 DEF Doc
    <3>4. YearOf(docs[d].line) \in Years /\ Closed(YearOf(docs[d].line))
      BY <1>1, <2>2, <3>1, <3>3, YearEndAssumption DEF ClosingsClosed
    <3> QED
      BY <1>1, <3>2, <3>4
  <2> QED
    BY <2>1, <2>2 DEF ClosingsClosed, Closed
<1>3. ASSUME NEW y \in Years, Closed(y)' PROVE Settled(y)' /\ OrdersCarried(y)'
  <2>1. Closed(y)
    BY <1>1, <1>3 DEF Closed
  <2> QED
    BY <1>1, <2>1, StaysSettled DEF OtherStep
<1> QED
  BY <1>1, <1>2, <1>3 DEF YearInv

LEMMA NoEntries ==
  ASSUME NEW L \in Seq(Entry)
  PROVE  <<>> \in Seq(Entry) /\ L \o <<>> = L /\ DOMAIN <<>> = {}
OBVIOUS

\* Drafts and documents that are dropped: a closed year takes none, and has none to drop.
LEMMA QuietKeepsYears ==
  ASSUME YearInv, QuietStep, UNCHANGED years,
         \A d \in Ids(docs') \ Ids(docs) : ~Closed(YearOf(docs'[d].line))
  PROVE  YearInv'
<1>1. /\ docs \in Seq(Doc) /\ docs' \in Seq(Doc) /\ Advances(docs, docs') /\ Quiet(docs, docs')
      /\ ledger \in Seq(Entry) /\ ledger' = ledger
      /\ year' = year /\ closed' = closed /\ changes' = changes /\ carriedTo' = carriedTo
      /\ LedgerInv /\ YearTypes
  BY DEF YearInv, LedgerInv, TypeOK, QuietStep, Quiet, years
<1>2. LedgerInv'
  BY <1>1, QuietLedger DEF QuietStep
<1>3. Appends(<<>>)
  BY <1>1, NoEntries DEF Appends
<1>4. Ids(docs) \subseteq Ids(docs')
  BY <1>1 DEF Advances, Ids
<1>5. YearTypes'
  BY <1>1, <1>4 DEF YearTypes
<1>6. ASSUME NEW y \in Years, Closed(y) PROVE Untouched(y, <<>>)
  <2>1. ASSUME NEW d \in InYear(y) PROVE docs'[d].status = docs[d].status
    <3>1. d \in Ids(docs) /\ docs[d].status # "PENDING"
      BY <1>6 DEF YearInv, Settled, Unfinished, Pending, InYear
    <3> QED
      BY <1>1, <3>1 DEF Quiet
  <2>2. \A d \in Ids(docs') \ Ids(docs) : YearOf(docs'[d].line) # y
    BY <1>6
  <2> QED
    BY <1>1, <2>1, <2>2 DEF Untouched
<1>7. OtherStep(<<>>)
  BY <1>1, <1>2, <1>3, <1>5, <1>6 DEF OtherStep, Closed
<1> QED
  BY <1>7, OtherKeepsYears

LEMMA DraftKeepsYears ==
  ASSUME YearInv, DraftDocument
  PROVE  YearInv'
<1>1. LedgerInv /\ docs \in Seq(Doc)
  BY DEF YearInv, LedgerInv, TypeOK
<1>2. QuietStep /\ UNCHANGED years
  BY <1>1, DraftsAreQuiet DEF DraftDocument
<1>3. \E new : docs' = Append(docs, new)
  BY DEF DraftDocument, DraftRequest, DraftOrder, DraftExpenditure, DraftCancellation, DraftReversal, Draft
<1>4. \A d \in Ids(docs') \ Ids(docs) : docs'[d] = Last(docs')
  <2>1. PICK new : docs' = Append(docs, new)
    BY <1>3
  <2>2. Len(docs') = Len(docs) + 1 /\ Len(docs) \in Nat
    BY <1>1, <2>1
  <2>3. \A d \in Ids(docs') \ Ids(docs) : d = Len(docs')
    BY <2>2 DEF Ids
  <2> QED
    BY <2>3 DEF Last
<1>5. year[YearOf(Last(docs').line)] # "CLOSED"
  BY DEF DraftDocument
<1> QED
  BY <1>2, <1>4, <1>5, QuietKeepsYears DEF Closed

LEMMA DropKeepsYears ==
  ASSUME YearInv, NEW d \in Ids(docs), DropDocument(d)
  PROVE  YearInv'
<1>1. QuietStep /\ UNCHANGED years
  BY DropIsQuiet DEF DropDocument, YearInv
<1>2. Ids(docs') = Ids(docs)
  <2>1. docs \in Seq(Doc) /\ docs' \in Seq(Doc)
    BY <1>1 DEF YearInv, LedgerInv, TypeOK, QuietStep
  <2>2. DOMAIN docs' = DOMAIN docs
    BY DEF DropDocument, Drop
  <2> QED
    BY <2>1, <2>2 DEF Ids
<1> QED
  BY <1>1, <1>2, QuietKeepsYears

\* What a document enters is on its own line, and closes nothing.
LEMMA EntersOnItsLine ==
  ASSUME LedgerInv, NEW d \in Ids(docs), NEW es, Posts(d, es), NEW n \in DOMAIN es
  PROVE  es[n].line = docs[d].line /\ es[n].type # "CLOSING"
<1>1. /\ docs'[d].line = docs[d].line /\ d # None /\ EntriesOK(docs, ledger) /\ DocRefers(docs, d)
  BY DEF LedgerInv, DocsRefer, Posts, PostedDocs, Ids, None
<1>2. CASE docs[d].kind # "REVERSAL"
  <2>1. EntryStands(docs', es[n]) /\ es[n].doc = d
    BY <1>2 DEF Posts, Stands
  <2> QED
    BY <1>1, <2>1 DEF EntryStands
<1>3. CASE docs[d].kind = "REVERSAL"
  <2> DEFINE i == es[n].reverses
  <2>1. /\ i \in DOMAIN ledger /\ ledger[i].type # "REVERSAL" /\ ledger[i].doc = docs[d].of
        /\ es[n].line = ledger[i].line /\ es[n].type = "REVERSAL"
    BY <1>3 DEF Posts, Reverses
  <2> HIDE DEF i
  <2>2. docs[docs[d].of].line = docs[d].line /\ docs[d].of # None
    BY <1>1, <1>3 DEF DocRefers, IsOf, None
  <2>3. EntryStands(docs, ledger[i])
    BY <1>1, <2>1 DEF EntriesOK, EntryOK
  <2>4. ledger[i].line = docs[d].line
    BY <2>1, <2>2, <2>3 DEF EntryStands
  <2> QED
    BY <2>1, <2>4
<1> QED
  BY <1>2, <1>3

LEMMA PostKeepsYears ==
  ASSUME YearInv, NEW d \in Ids(docs), PostDocument(d)
  PROVE  YearInv'
<1> DEFINE es == EntriesOf(d)
<1>1. /\ LedgerInv /\ YearTypes /\ docs \in Seq(Doc) /\ ledger \in Seq(Entry) /\ DocsRefer(docs)
      /\ year' = year /\ closed' = closed /\ changes' = changes /\ carriedTo' = carriedTo
      /\ ~Closed(YearOf(docs[d].line)) /\ Post(d)
  BY DEF YearInv, LedgerInv, TypeOK, PostDocument, years, Closed
<1>2. Posts(d, es)
  BY <1>1, PostPosts
<1> HIDE DEF es
<1>3. /\ docs' \in Seq(Doc) /\ Advances(docs, docs') /\ es \in Seq(Entry) /\ ledger' = ledger \o es
      /\ Ids(docs') = Ids(docs)
      /\ \A k \in Ids(docs) : docs'[k].status = StatusAfter(d, k)
  BY <1>2 DEF Posts, PostedDocs
<1>4. LedgerInv'
  BY <1>1, <1>2, PostKeepsLedger
<1>5. \A n \in DOMAIN es : es[n].line = docs[d].line /\ es[n].type # "CLOSING"
  BY <1>1, <1>2, EntersOnItsLine
<1>6. ASSUME NEW y \in Years, Closed(y) PROVE Untouched(y, es)
  <2>1. ASSUME NEW k \in InYear(y) PROVE docs'[k].status = docs[k].status
    <3>1. k \in Ids(docs) /\ YearOf(docs[k].line) = y
      BY DEF InYear
    <3>2. k # d
      BY <1>1, <1>6, <3>1
    <3>3. docs[d].kind = "REVERSAL" => docs[docs[d].of].line = docs[d].line
      BY <1>1 DEF DocsRefer, DocRefers, IsOf
    <3>4. docs[d].kind = "REVERSAL" => k # docs[d].of
      BY <1>1, <1>6, <3>1, <3>3
    <3> QED
      BY <1>3, <3>1, <3>2, <3>4 DEF StatusAfter
  <2>2. \A n \in DOMAIN es : YearOf(es[n].line) # y
    BY <1>1, <1>5, <1>6
  <2> QED
    BY <1>1, <1>3, <2>1, <2>2 DEF Untouched
<1>7. Appends(es)
  BY <1>1, <1>3 DEF Appends
<1>8. YearTypes'
  BY <1>1, <1>3 DEF YearTypes
<1>9. OtherStep(es)
  BY <1>1, <1>4, <1>5, <1>6, <1>7, <1>8 DEF OtherStep, Closed
<1> QED
  BY <1>9, OtherKeepsYears

\* Steps of those who administer the years: no document and no entry changes.
LEMMA CalendarKeepsYears ==
  ASSUME YearInv, LedgerInv', UNCHANGED <<docs, ledger, carriedTo>>, YearTypes',
         \A y \in Years : year'[y] = "CLOSED" <=> Closed(y)
  PROVE  YearInv'
<1>1. docs \in Seq(Doc) /\ ledger \in Seq(Entry) /\ docs' = docs /\ ledger' = ledger /\ carriedTo' = carriedTo
  BY DEF YearInv, LedgerInv, TypeOK
<1>2. Len(docs) \in Nat
  BY <1>1
<1>3. Appends(<<>>)
  BY <1>1, <1>2, NoEntries DEF Appends, Advances
<1>4. \A y \in Years : Untouched(y, <<>>)
  BY <1>1 DEF Untouched
<1>5. OtherStep(<<>>)
  BY <1>1, <1>3, <1>4 DEF OtherStep
<1> QED
  BY <1>5, OtherKeepsYears

\* A budget document moves no reservation and no commitment.
LEMMA BudgetKeepsLedger ==
  ASSUME LedgerInv, NEW l \in Lines, NEW n \in Int, ChangeBudget(l, n)
  PROVE  LedgerInv'
<1> DEFINE after == [balance[l] EXCEPT !["APPROPRIATION"] = @ + n]
<1>1. balance \in [Lines -> Positions] /\ docs' = docs /\ ledger' = ledger
      /\ balance' = [balance EXCEPT ![l] = after]
  BY DEF LedgerInv, TypeOK, ChangeBudget
<1>2. balance[l] \in [Components -> Int]
  BY <1>1 DEF Positions
<1>3. after \in [Components -> Int] /\ \A c \in Components \ {"APPROPRIATION"} : after[c] = balance[l][c]
  BY <1>2 DEF Components
<1> HIDE DEF after
<1>4. balance' \in [Lines -> Positions]
  BY <1>1, <1>3 DEF Positions
<1>5. \A k \in Lines, c \in {"RESERVATION", "COMMITMENT"} : balance'[k][c] = balance[k][c]
  BY <1>1, <1>3 DEF Components
<1>6. BalanceIsLedger'
  BY <1>1, <1>5 DEF LedgerInv, BalanceIsLedger
<1>7. NothingBelowZero' /\ ConvertedOnce'
  BY <1>1 DEF LedgerInv, NothingBelowZero, ConvertedOnce
<1> QED
  BY <1>1, <1>4, <1>6, <1>7 DEF LedgerInv, TypeOK

\* The same for a step that leaves the documents, the entries and the balances.
LEMMA NothingPosted ==
  ASSUME LedgerInv, UNCHANGED vars
  PROVE  LedgerInv'
BY DEF vars, LedgerInv, TypeOK, BalanceIsLedger, NothingBelowZero, ConvertedOnce

LEMMA AdministrationKeepsYears ==
  ASSUME YearInv,
         \/ \E l \in Lines, n \in Amounts : ChangeBudget(l, n) \/ ChangeBudget(l, -n)
         \/ \E y \in Years : CreateYear(y) \/ OpenYear(y)
         \/ \E y \in Years, p \in Months : ClosePeriod(y, p) \/ ReopenPeriod(y, p)
         \/ UNCHANGED allVars
  PROVE  YearInv'
<1>1. /\ LedgerInv /\ YearTypes
      /\ year \in [Years -> {"NONE", "PLANNING", "OPEN", "CLOSED"}] /\ closed \subseteq Years \X Months
      /\ changes \in Nat /\ carriedTo \subseteq Ids(docs) \X Ids(docs)
  BY DEF YearInv, YearTypes
<1>2. CASE \E l \in Lines, n \in Amounts : ChangeBudget(l, n) \/ ChangeBudget(l, -n)
  <2>1. PICK l \in Lines, n \in Int : ChangeBudget(l, n)
    <3>1. \A n \in Amounts : n \in Int /\ -n \in Int
      BY ProcurementAssumption DEF Amounts
    <3> QED
      BY <1>2, <3>1
  <2>2. LedgerInv'
    BY <1>1, <2>1, BudgetKeepsLedger
  <2>3. docs' = docs /\ ledger' = ledger /\ year' = year /\ closed' = closed /\ carriedTo' = carriedTo
        /\ changes' = changes + 1
    BY <2>1 DEF ChangeBudget, Change
  <2>4. YearTypes'
    BY <1>1, <2>3 DEF YearTypes
  <2> QED
    BY <2>2, <2>3, <2>4, CalendarKeepsYears DEF Closed
<1>3. CASE \E y \in Years : CreateYear(y) \/ OpenYear(y)
  <2>1. PICK y \in Years, s \in {"PLANNING", "OPEN"} :
          year[y] # "CLOSED" /\ year' = [year EXCEPT ![y] = s]
    BY <1>3 DEF CreateYear, OpenYear
  <2>2. UNCHANGED <<vars, closed, changes, carriedTo>>
    BY <1>3 DEF CreateYear, OpenYear
  <2>3. LedgerInv' /\ docs' = docs /\ ledger' = ledger /\ carriedTo' = carriedTo
    BY <1>1, <2>2, NothingPosted DEF vars
  <2>4. YearTypes'
    BY <1>1, <2>1, <2>2, <2>3 DEF YearTypes
  <2>5. \A z \in Years : year'[z] = "CLOSED" <=> Closed(z)
    BY <1>1, <2>1 DEF Closed
  <2> QED
    BY <2>3, <2>4, <2>5, CalendarKeepsYears
<1>4. CASE \E y \in Years, p \in Months : ClosePeriod(y, p) \/ ReopenPeriod(y, p)
  <2>1. UNCHANGED <<vars, year, carriedTo>>
    BY <1>4 DEF ClosePeriod, ReopenPeriod
  <2>2. LedgerInv' /\ docs' = docs /\ ledger' = ledger /\ carriedTo' = carriedTo /\ year' = year
    BY <1>1, <2>1, NothingPosted DEF vars
  <2>3. closed' \subseteq Years \X Months /\ changes' \in Nat
    BY <1>1, <1>4 DEF ClosePeriod, ReopenPeriod, Change
  <2>4. YearTypes'
    BY <1>1, <2>2, <2>3 DEF YearTypes
  <2> QED
    BY <2>2, <2>4, CalendarKeepsYears DEF Closed
<1>5. CASE UNCHANGED allVars
  <2>1. UNCHANGED <<vars, year, closed, changes, carriedTo>>
    BY <1>5 DEF allVars, years
  <2>2. LedgerInv' /\ docs' = docs /\ ledger' = ledger /\ carriedTo' = carriedTo /\ year' = year
    BY <1>1, <2>1, NothingPosted DEF vars
  <2>3. YearTypes'
    BY <1>1, <2>1, <2>2 DEF YearTypes
  <2> QED
    BY <2>2, <2>3, CalendarKeepsYears DEF Closed
<1> QED
  BY <1>2, <1>3, <1>4, <1>5

LEMMA YearStep == YearInv /\ [YearNext]_allVars => YearInv'
<1> SUFFICES ASSUME YearInv, [YearNext]_allVars PROVE YearInv'
  OBVIOUS
<1>1. CASE DraftDocument
  BY <1>1, DraftKeepsYears
<1>2. ASSUME NEW d \in Ids(docs), DropDocument(d) \/ PostDocument(d) PROVE YearInv'
  BY <1>2, DropKeepsYears, PostKeepsYears
<1>3. ASSUME NEW y \in Years, CloseYear(y) PROVE YearInv'
  BY <1>3, ClosingKeepsYears
<1> QED
  BY <1>1, <1>2, <1>3, AdministrationKeepsYears DEF YearNext

LEMMA YearInitInv == YearInit => YearInv
<1> SUFFICES ASSUME YearInit PROVE YearInv
  OBVIOUS
<1>1. /\ docs = <<>> /\ ledger = <<>> /\ closed = {} /\ changes = 0 /\ carriedTo = {}
      /\ balance = [l \in Lines |->
                      [NoMovement EXCEPT !["APPROPRIATION"] = IF YearOf(l) = 1 THEN Budget ELSE 0]]
      /\ year = [y \in Years |-> IF y = 1 THEN "OPEN" ELSE "NONE"]
  BY DEF YearInit
<1>2. /\ docs \in Seq(Doc) /\ ledger \in Seq(Entry) /\ Ids(docs) = {} /\ DOMAIN ledger = {}
  BY <1>1 DEF Ids
<1> DEFINE granted(l) == IF YearOf(l) = 1 THEN Budget ELSE 0
<1>3. \A l \in Lines : granted(l) \in Int
  BY ProcurementAssumption
<1>4. \A l \in Lines : balance[l] = [NoMovement EXCEPT !["APPROPRIATION"] = granted(l)]
  BY <1>1
<1> HIDE DEF granted
<1>5. \A l \in Lines : balance[l] = [c \in Components |-> IF c = "APPROPRIATION" THEN granted(l) ELSE 0]
  BY <1>4 DEF NoMovement
<1>6. balance \in [Lines -> Positions]
  <2>1. ASSUME NEW l \in Lines PROVE balance[l] \in [Components -> Int]
    <3> DEFINE first(c) == IF c = "APPROPRIATION" THEN granted(l) ELSE 0
    <3>1. \A c \in Components : first(c) \in Int
      BY <1>3
    <3>2. balance[l] = [c \in Components |-> first(c)]
      BY <1>5
    <3> HIDE DEF first
    <3> QED
      BY <3>1, <3>2
  <2>2. balance = [l \in Lines |-> balance[l]]
    BY <1>1
  <2> QED
    BY <2>1, <2>2 DEF Positions
<1>7. BalanceIsLedger
  <2> SUFFICES ASSUME NEW l \in Lines, NEW c \in {"RESERVATION", "COMMITMENT"}
               PROVE  balance[l][c] = Total(ledger, OnLine(ledger, l, c))
    BY DEF BalanceIsLedger
  <2>1. OnLine(ledger, l, c) = {}
    BY <1>2 DEF OnLine
  <2>2. balance[l][c] = 0
    BY <1>5 DEF Components
  <2> QED
    BY <2>1, <2>2, TotalEmpty
<1>8. LedgerInv
  BY <1>2, <1>6, <1>7
  DEF LedgerInv, TypeOK, DocsRefer, EntriesOK, ReversedOnce, ReversedTogether, EnteredOnce,
      NothingBelowZero, ConvertedOnce
<1>9. year \in [Years -> {"NONE", "PLANNING", "OPEN", "CLOSED"}] /\ \A y \in Years : ~Closed(y)
  BY <1>1 DEF Closed
<1>10. YearTypes /\ ClosingsClosed
  BY <1>1, <1>2, <1>9 DEF YearTypes, ClosingsClosed
<1> QED
  BY <1>8, <1>9, <1>10 DEF YearInv

-----------------------------------------------------------------------------
(* The theorems.                                                           *)

\* What the entries and the documents say of each other survives the closing of years,
\* and a year that was closed has nothing on its way or held, and its orders carried.
THEOREM YearEndInvariant == YearSpec => []YearInv
<1>1. YearInit => YearInv
  BY YearInitInv
<1>2. YearInv /\ [YearNext]_allVars => YearInv'
  BY YearStep
<1> QED
  BY <1>1, <1>2, PTL DEF YearSpec

\* The state of every year, month and document has its type, and what is carried is
\* carried between documents there are.
THEOREM YearTypesHold == YearSpec => []YearTypeOK
<1>1. YearInv => YearTypeOK
  BY DEF YearInv, LedgerInv, YearTypes, YearTypeOK
<1> QED
  BY <1>1, YearEndInvariant, PTL

\* What the lines hold is what the posted commitments have outstanding, whatever
\* years are closed and carried (fiscal/closing.py with ledger/engine.py).
THEOREM YearsLinesHold == YearSpec => []LineHoldsOutstanding
<1>1. YearInv => LineHoldsOutstanding
  BY LineHolds DEF YearInv
<1> QED
  BY <1>1, YearEndInvariant, PTL

LEMMA ClosedHolds ==
  ASSUME YearInv
  PROVE  ClosedYearHoldsNothing
<1> SUFFICES ASSUME NEW y \in Years, Closed(y)
             PROVE  /\ Settled(y)
                    /\ \A l \in Lines : YearOf(l) = y =>
                         balance[l]["RESERVATION"] = 0 /\ balance[l]["COMMITMENT"] = 0
  BY DEF ClosedYearHoldsNothing, Closed, Settled
<1>1. Settled(y) /\ docs \in Seq(Doc)
  BY DEF YearInv, LedgerInv, TypeOK
<1>2. ASSUME NEW l \in Lines, YearOf(l) = y, NEW c \in {"RESERVATION", "COMMITMENT"}
      PROVE  balance[l][c] = 0
  <2> DEFINE S == {d \in PostedCommitments : docs[d].line = l /\ ComponentOf(docs, d) = c}
             f == [d \in Ids(docs) |-> Outstanding(docs, ledger, d)]
  <2>1. balance[l][c] = SumFunctionOnSet(f, S)
    BY LineHolds DEF YearInv, LineHoldsOutstanding
  <2>2. S \subseteq Ids(docs)
    BY DEF PostedCommitments
  <2>3. IsFiniteSet(S)
    <3>1. IsFiniteSet(1 .. Len(docs))
      BY <1>1, FS_Interval
    <3> QED
      BY <2>2, <3>1, FS_Subset DEF Ids
  <2>4. \A d \in S : f[d] = 0
    BY <1>1, <1>2, <2>2 DEF Settled, InYear, PostedCommitments
  <2> HIDE DEF S, f
  <2>5. SumFunctionOnSet(f, S) = 0
    BY <2>3, <2>4, SumZero
  <2> QED
    BY <2>1, <2>5
<1> QED
  BY <1>1, <1>2

\* A closed year has nothing reserved, committed or on its way, whatever is posted,
\* reversed, cancelled or paid afterwards (close_year, engine._evaluate).
THEOREM ClosedYearsHoldNothing == YearSpec => []ClosedYearHoldsNothing
<1>1. YearInv => ClosedYearHoldsNothing
  BY ClosedHolds
<1> QED
  BY <1>1, YearEndInvariant, PTL

LEMMA CarriedInv ==
  ASSUME YearInv
  PROVE  CarriedInFull
<1> SUFFICES ASSUME NEW y \in Years, year[y] = "CLOSED", NEW d \in InYear(y),
                    docs[d].kind = "ORDER", docs[d].status = "POSTED"
             PROVE  LET left == docs[d].amount - Paid(docs, ledger, d)
                                  - NetByType(docs, ledger, d, {"CANCELLATION"})
                        news == {n \in Ids(docs) : <<d, n>> \in carriedTo}
                    IN IF left = 0 THEN news = {}
                       ELSE \E n \in news : news = {n} /\ docs[n].amount = left
                                            /\ YearOf(docs[n].line) = y + 1
  BY DEF CarriedInFull
<1> DEFINE left == docs[d].amount - Paid(docs, ledger, d) - NetByType(docs, ledger, d, {"CANCELLATION"})
           news == {n \in Ids(docs) : <<d, n>> \in carriedTo}
<1>1. YearOf(docs[d].line) = y
  BY DEF InYear
<1>2. IF left = 0 THEN \A n \in Ids(docs) : <<d, n>> \notin carriedTo
      ELSE \E n \in Ids(docs) : /\ \A m \in Ids(docs) : <<d, m>> \in carriedTo <=> m = n
                                /\ docs[n].amount = left
                                /\ YearOf(docs[n].line) = y + 1
  BY <1>1 DEF YearInv, OrdersCarried, CarriedRight, Left, Closed
<1> HIDE DEF left
<1>3. IF left = 0 THEN news = {}
      ELSE \E n \in news : news = {n} /\ docs[n].amount = left /\ YearOf(docs[n].line) = y + 1
  <2>1. CASE left = 0
    BY <1>2, <2>1
  <2>2. CASE left # 0
    <3>1. PICK n \in Ids(docs) : /\ \A m \in Ids(docs) : <<d, m>> \in carriedTo <=> m = n
                                 /\ docs[n].amount = left
                                 /\ YearOf(docs[n].line) = y + 1
      BY <1>2, <2>2
    <3>2. news = {n}
      BY <3>1
    <3> QED
      BY <2>2, <3>1, <3>2
  <2> QED
    BY <2>1, <2>2
<1> QED
  BY <1>3 DEF left

\* What was neither paid nor cancelled of an order of a closed year is, for good, the
\* amount of the one commitment of the next year it was carried to (_carry_forward).
THEOREM OrdersCarriedInFull == YearSpec => []CarriedInFull
<1>1. YearInv => CarriedInFull
  BY CarriedInv
<1> QED
  BY <1>1, YearEndInvariant, PTL

-----------------------------------------------------------------------------
(* What the preview of a closing checks is enough for the engine.          *)

Held     == [d \in Ids(docs) |-> Outstanding(docs, ledger, d)]
Released == [d \in Ids(docs) |-> -Outstanding(docs, ledger, d)]

HeldOn(l, c) == {d \in PostedCommitments : docs[d].line = l /\ ComponentOf(docs, d) = c}

CarriedTo(y, l) == {d \in OpenOf(y) : docs[d].kind = "ORDER" /\ Target(d) = l}

\* Entries that are each of one document come to what the documents do.
LEMMA TotalByName ==
  ASSUME NEW es \in Seq(Entry), NEW S, S \subseteq DOMAIN es, NEW h, NEW g, NEW T,
         \A m, n \in S : m # n => h[m] # h[n],
         \A m \in S : h[m] \in T /\ g[h[m]] = es[m].amount,
         \A x \in T : \E m \in S : h[m] = x
  PROVE  Total(es, S) = SumFunctionOnSet(g, T)
<1> DEFINE f == AmountsOf(es)
<1>1. IsFiniteSet(S) /\ Total(es, S) = SumFunctionOnSet(f, S)
  BY TotalType
<1>2. \A m \in S : g[h[m]] \in Int /\ f[m] = g[h[m]]
  BY EntriesAre
<1>0. \A m, n \in S : h[m] = h[n] => m = n
  OBVIOUS
<1> HIDE DEF f
<1>3. IsFiniteSet(S)
  BY <1>1
<1>4. SumFunctionOnSet(f, S) = SumFunctionOnSet(g, {h[x] : x \in S})
  BY ONLY <1>0, <1>2, <1>3, SumRename, SMTT(120)
<1>5. {h[x] : x \in S} = T
  OBVIOUS
<1> QED
  BY <1>1, <1>4, <1>5

LEMMA HeldIs ==
  ASSUME LedgerInv
  PROVE  /\ \A S : S \subseteq Ids(docs) => IsFiniteSet(S)
         /\ \A d : Outstanding(docs, ledger, d) \in Int
         /\ \A d \in PostedCommitments : Held[d] \in Nat
         /\ PostedCommitments \subseteq Ids(docs)
         /\ \A l \in Lines, c \in {"RESERVATION", "COMMITMENT"} :
              balance[l][c] = SumFunctionOnSet(Held, HeldOn(l, c))
<1>1. docs \in Seq(Doc) /\ ledger \in Seq(Entry) /\ EntriesOK(docs, ledger) /\ ReversedOnce(ledger)
      /\ NothingBelowZero
  BY DEF LedgerInv, TypeOK
<1>2. IsFiniteSet(Ids(docs))
  BY <1>1, FS_Interval DEF Ids
<1>3. \A d : Outstanding(docs, ledger, d) \in Int
  BY <1>1, OutstandingInForce
<1>4. PostedCommitments \subseteq Ids(docs)
  BY DEF PostedCommitments
<1>5. ASSUME NEW d \in PostedCommitments PROVE Held[d] \in Nat
  <2>1. d \in Ids(docs) /\ docs[d].kind \in Commitments
    BY DEF PostedCommitments
  <2>2. Outstanding(docs, ledger, d) >= 0 /\ Outstanding(docs, ledger, d) \in Int
    BY <1>1, <1>3, <2>1 DEF NothingBelowZero
  <2> QED
    BY <2>1, <2>2 DEF Held
<1>6. ASSUME NEW l \in Lines, NEW c \in {"RESERVATION", "COMMITMENT"}
      PROVE  balance[l][c] = SumFunctionOnSet(Held, HeldOn(l, c))
  BY LineHolds DEF LineHoldsOutstanding, Held, HeldOn
<1> QED
  BY <1>2, <1>3, <1>4, <1>5, <1>6, FS_Subset

\* What a closing enters, to lines of this year and of the next.
EntersFor(y, r, k, es) ==
  /\ IsListOf(r, OpenOf(y)) /\ IsListOf(k, OrdersOf(y))
  /\ EntriesOfClosing(y, r, k, es)
  /\ y \in Nat /\ \A n \in DOMAIN k : YearOf(Target(k[n])) = y + 1

\* A line of the year gives up all it holds.
LEMMA ClosingReleases ==
  ASSUME LedgerInv, NEW y, NEW r, NEW k, NEW es, EntersFor(y, r, k, es),
         NEW l \in Lines, YearOf(l) = y, NEW c \in {"RESERVATION", "COMMITMENT"}
  PROVE  Moved(es, l, c) = -balance[l][c]
<1> DEFINE S == {n \in DOMAIN es : es[n].line = l /\ es[n].component = c}
           T == {d \in OpenOf(y) : docs[d].line = l /\ ComponentOf(docs, d) = c}
           H == HeldOn(l, c)
<1>1. /\ es \in Seq(Entry)
      /\ \A n \in DOMAIN r : n \in DOMAIN es /\ Closes(es[n], r[n]) /\ r[n] \in OpenOf(y)
      /\ \A n \in DOMAIN k : es[Len(r) + n].line # l
      /\ \A m \in DOMAIN es : m \in DOMAIN r \/ \E n \in DOMAIN k : m = Len(r) + n
      /\ \A m, n \in DOMAIN r : m # n => r[m] # r[n]
      /\ \A x \in OpenOf(y) : \E n \in DOMAIN r : r[n] = x
  <2>1. \A n \in DOMAIN k : es[Len(r) + n].line # l
    <3> SUFFICES ASSUME NEW n \in DOMAIN k, es[Len(r) + n].line = l PROVE FALSE
      OBVIOUS
    <3>1. YearOf(l) = y + 1 /\ y \in Nat
      BY DEF EntersFor, EntriesOfClosing, Carries
    <3> QED
      BY <3>1
  <2> QED
    BY <2>1 DEF EntersFor, EntriesOfClosing, IsListOf
<1>2. Moved(es, l, c) = Total(es, S)
  BY DEF Moved
<1>3. /\ T \subseteq PostedCommitments /\ T \subseteq Ids(docs) /\ T \subseteq H /\ H \subseteq PostedCommitments
      /\ H \subseteq Ids(docs)
  BY DEF OpenOf, PostedCommitments, InYear, HeldOn
<1>4. Total(es, S) = SumFunctionOnSet(Released, T)
  <2>1. S \subseteq DOMAIN r
    BY <1>1
  <2>2. ASSUME NEW n \in S PROVE r[n] \in T /\ Released[r[n]] = es[n].amount
    <3>1. Closes(es[n], r[n]) /\ r[n] \in OpenOf(y)
      BY <1>1, <2>1
    <3>2. r[n] \in Ids(docs)
      BY <3>1 DEF OpenOf, InYear
    <3> QED
      BY <3>1, <3>2 DEF Closes, Released
  <2>3. ASSUME NEW x \in T PROVE \E n \in S : r[n] = x
    <3>1. PICK n \in DOMAIN r : r[n] = x
      BY <1>1
    <3>2. n \in DOMAIN es /\ Closes(es[n], x)
      BY <1>1, <3>1
    <3> QED
      BY <3>1, <3>2 DEF Closes
  <2>4. S \subseteq DOMAIN es /\ \A m, n \in S : m # n => r[m] # r[n]
    BY <1>1, <2>1
  <2> HIDE DEF S, T
  <2> QED
    BY <1>1, <2>2, <2>3, <2>4, TotalByName
<1>5. \A d \in H \ T : Held[d] = 0
  <2> SUFFICES ASSUME NEW d \in H, d \notin T PROVE Held[d] = 0
    OBVIOUS
  <2>1. /\ d \in Ids(docs) /\ docs[d].kind \in Commitments /\ docs[d].status = "POSTED"
        /\ docs[d].line = l /\ ComponentOf(docs, d) = c /\ Held[d] \in Nat
    BY <1>3, HeldIs DEF HeldOn, PostedCommitments
  <2>2. d \notin OpenOf(y)
    BY <2>1
  <2>3. ~(Held[d] > 0)
    BY <2>1, <2>2 DEF OpenOf, InYear, Held
  <2> QED
    BY <2>1, <2>3
<1> HIDE DEF S, T, H
<1>6. /\ IsFiniteSet(H) /\ IsFiniteSet(T)
      /\ \A d \in H : Held[d] \in Int
      /\ \A d \in T : Held[d] \in Int /\ Released[d] \in Int /\ Released[d] = -Held[d]
  <2>1. IsFiniteSet(H) /\ IsFiniteSet(T)
    BY <1>3, HeldIs
  <2>2. \A d \in Ids(docs) : Held[d] \in Int /\ Released[d] \in Int /\ Released[d] = -Held[d]
    BY HeldIs DEF Held, Released
  <2> QED
    BY <1>3, <2>1, <2>2
<1>7. SumFunctionOnSet(Held, H) = SumFunctionOnSet(Held, T)
  BY <1>3, <1>5, <1>6, SumLeaveOut
<1>8. SumFunctionOnSet(Held, T) + SumFunctionOnSet(Released, T) = 0
  <2> DEFINE z == [d \in T |-> 0]
  <2>1. \A d \in T : z[d] = 0 /\ z[d] = Held[d] + Released[d]
    BY <1>6
  <2> HIDE DEF z
  <2>2. SumFunctionOnSet(z, T) = SumFunctionOnSet(Held, T) + SumFunctionOnSet(Released, T)
    BY <1>6, <2>1, SumAdd
  <2>3. SumFunctionOnSet(z, T) = 0
    BY <1>6, <2>1, SumZero
  <2> QED
    BY <2>2, <2>3
<1>9. SumFunctionOnSet(Held, T) \in Int /\ SumFunctionOnSet(Released, T) \in Int
  BY <1>6, SumType
<1>10. balance[l][c] = SumFunctionOnSet(Held, H)
  BY HeldIs DEF H
<1> QED
  BY <1>2, <1>4, <1>7, <1>8, <1>9, <1>10

\* A line of another year takes what is carried to it.
LEMMA ClosingCarriesNeeded ==
  ASSUME LedgerInv, NEW y, NEW r, NEW k, NEW es, EntersFor(y, r, k, es),
         NEW l \in Lines, YearOf(l) # y
  PROVE  /\ Moved(es, l, "COMMITMENT") = Needed(y, l) /\ Needed(y, l) \in Nat
         /\ Moved(es, l, "RESERVATION") = 0
         /\ Needed(y, l) # 0 => OrdersOf(y) # {}
<1> DEFINE S == {n \in DOMAIN es : es[n].line = l /\ es[n].component = "COMMITMENT"}
           T == CarriedTo(y, l)
           h == [m \in DOMAIN es |-> k[m - Len(r)]]
<1>1. /\ es \in Seq(Entry) /\ Len(r) \in Nat /\ DOMAIN k \subseteq Nat
      /\ \A n \in DOMAIN r : es[n].line # l
      /\ \A n \in DOMAIN k : /\ Len(r) + n \in DOMAIN es /\ Carries(es[Len(r) + n], Len(docs) + n, k[n])
                             /\ k[n] \in OrdersOf(y)
      /\ \A m \in DOMAIN es : m \in DOMAIN r \/ \E n \in DOMAIN k : m = Len(r) + n
      /\ \A m, n \in DOMAIN k : m # n => k[m] # k[n]
      /\ \A x \in OrdersOf(y) : \E n \in DOMAIN k : k[n] = x
  <2>1. \A n \in DOMAIN r : es[n].line # l
    BY DEF EntersFor, EntriesOfClosing, Closes, IsListOf, OpenOf, InYear
  <2> QED
    BY <2>1 DEF EntersFor, EntriesOfClosing, IsListOf
<1>2. Moved(es, l, "COMMITMENT") = Total(es, S)
  BY DEF Moved
<1>3. T = {d \in OrdersOf(y) : Target(d) = l}
  BY DEF CarriedTo, OrdersOf
<1>4. T \subseteq PostedCommitments /\ T \subseteq Ids(docs)
  BY <1>3 DEF OrdersOf, OpenOf, PostedCommitments, InYear
<1>5. ASSUME NEW m \in S
      PROVE  \E n \in DOMAIN k : m = Len(r) + n /\ h[m] = k[n] /\ k[n] \in T /\ Held[k[n]] = es[m].amount
  <2>1. m \in DOMAIN es /\ es[m].line = l
    OBVIOUS
  <2>2. PICK n \in DOMAIN k : m = Len(r) + n
    BY <1>1, <2>1
  <2>3. n \in Nat /\ m - Len(r) = n
    BY <1>1, <2>2
  <2>4. h[m] = k[n]
    BY <2>1, <2>3
  <2>5. k[n] \in OrdersOf(y) /\ Target(k[n]) = l /\ es[m].amount = Outstanding(docs, ledger, k[n])
    BY <1>1, <2>1, <2>2 DEF Carries
  <2>6. k[n] \in T /\ k[n] \in Ids(docs)
    BY <1>3, <1>4, <2>5
  <2> QED
    BY <2>2, <2>4, <2>5, <2>6 DEF Held
<1>6. ASSUME NEW x \in T PROVE \E m \in S : h[m] = x
  <2>1. x \in OrdersOf(y) /\ Target(x) = l
    BY <1>3
  <2>2. PICK n \in DOMAIN k : k[n] = x
    BY <1>1, <2>1
  <2>3. Len(r) + n \in DOMAIN es /\ Carries(es[Len(r) + n], Len(docs) + n, x) /\ n \in Nat
    BY <1>1, <2>2
  <2> DEFINE m == Len(r) + n
  <2>4. m \in S /\ m - Len(r) = n
    BY <1>1, <2>1, <2>3 DEF Carries
  <2>5. h[m] = x
    BY <2>2, <2>4
  <2> HIDE DEF m
  <2> QED
    BY <2>4, <2>5
<1> HIDE DEF h, T
<1>7. \A m \in S : h[m] \in T /\ Held[h[m]] = es[m].amount
  BY <1>5
<1>8. \A m, n \in S : m # n => h[m] # h[n]
  <2> SUFFICES ASSUME NEW m \in S, NEW n \in S, m # n PROVE h[m] # h[n]
    OBVIOUS
  <2>1. PICK a \in DOMAIN k : m = Len(r) + a /\ h[m] = k[a]
    BY <1>5
  <2>2. PICK b \in DOMAIN k : n = Len(r) + b /\ h[n] = k[b]
    BY <1>5
  <2> QED
    BY <1>1, <2>1, <2>2
<1>9. S \subseteq DOMAIN es
  OBVIOUS
<1> HIDE DEF S
<1>10. Total(es, S) = SumFunctionOnSet(Held, T)
  <2>1. es \in Seq(Entry)
    BY <1>1
  <2> QED
    BY ONLY <1>6, <1>7, <1>8, <1>9, <2>1, TotalByName
<1>11. Needed(y, l) = SumFunctionOnSet(Held, T)
  BY DEF Needed, Held, T, CarriedTo
<1>12. Needed(y, l) \in Nat
  <2>1. IsFiniteSet(T) /\ \A d \in T : Held[d] \in Nat
    BY <1>4, HeldIs
  <2> QED
    BY <1>11, <2>1, SumNonNegative
<1>13. Needed(y, l) # 0 => OrdersOf(y) # {}
  <2> SUFFICES ASSUME OrdersOf(y) = {} PROVE Needed(y, l) = 0
    OBVIOUS
  <2>1. T = {}
    BY <1>3
  <2> QED
    BY <1>11, <2>1, SumEmpty
<1>14. Moved(es, l, "RESERVATION") = 0
  <2>1. {n \in DOMAIN es : es[n].line = l /\ es[n].component = "RESERVATION"} = {}
    BY <1>1 DEF Carries
  <2> QED
    BY <2>1, TotalEmpty DEF Moved
<1> QED
  BY <1>2, <1>10, <1>11, <1>12, <1>13, <1>14

\* What a line is after a closing.
LEMMA PositionAfter ==
  ASSUME LedgerInv, NEW y, NEW r, NEW k, NEW es, EntersFor(y, r, k, es), NEW l \in Lines
  PROVE  LET B == balance[l]
             A == AfterPosting(es)[l]
             res == Moved(es, l, "RESERVATION")
             com == Moved(es, l, "COMMITMENT")
         IN /\ res \in Int /\ com \in Int
            /\ AvailableOn(B) \in Int
            /\ AvailableOn(A) = AvailableOn(B) - com - (IF Counted THEN res ELSE 0)
            /\ B["RESERVATION"] \in Nat /\ A["RESERVATION"] = B["RESERVATION"] + res
            /\ B["COMMITMENT"] \in Nat /\ A["COMMITMENT"] = B["COMMITMENT"] + com
<1> DEFINE B == balance[l]
           A == AfterPosting(es)[l]
           move == [c \in Components |-> Moved(es, l, c)]
<1>1. /\ es \in Seq(Entry) /\ B \in [Components -> Int]
      /\ \A m \in DOMAIN es : es[m].component \in {"RESERVATION", "COMMITMENT"}
  <2>1. balance \in [Lines -> Positions] /\ es \in Seq(Entry)
    BY DEF LedgerInv, TypeOK, EntersFor, EntriesOfClosing
  <2>2. \A m \in DOMAIN es : es[m].component \in {"RESERVATION", "COMMITMENT"}
    BY DEF EntersFor, EntriesOfClosing, Closes, Carries, ComponentOf
  <2> QED
    BY <2>1, <2>2 DEF Positions
<1>2. ASSUME NEW c \in Components PROVE Moved(es, l, c) \in Int
  <2> DEFINE S == {n \in DOMAIN es : es[n].line = l /\ es[n].component = c}
  <2>1. S \subseteq DOMAIN es /\ Moved(es, l, c) = Total(es, S)
    BY DEF Moved
  <2> HIDE DEF S
  <2> QED
    BY <1>1, <2>1, TotalType
<1>3. ASSUME NEW c \in Components \ {"RESERVATION", "COMMITMENT"} PROVE Moved(es, l, c) = 0
  <2>1. {n \in DOMAIN es : es[n].line = l /\ es[n].component = c} = {}
    BY <1>1
  <2> QED
    BY <2>1, TotalEmpty DEF Moved
<1>4. A = WithDeltas(B, move)
  BY DEF AfterPosting
<1>5. \A c \in Components : move[c] = Moved(es, l, c)
  OBVIOUS
<1> HIDE DEF A, B, move
<1>6. \A c \in Components : A[c] = B[c] + Moved(es, l, c)
  BY <1>4, <1>5 DEF WithDeltas
<1>7. ASSUME NEW c \in {"RESERVATION", "COMMITMENT"} PROVE B[c] \in Nat
  <2> DEFINE H == HeldOn(l, c)
  <2>1. H \subseteq PostedCommitments /\ H \subseteq Ids(docs)
    BY DEF HeldOn, PostedCommitments
  <2>2. B[c] = SumFunctionOnSet(Held, H)
    BY HeldIs DEF B
  <2> HIDE DEF H
  <2>3. IsFiniteSet(H) /\ \A d \in H : Held[d] \in Nat
    BY <2>1, HeldIs
  <2> QED
    BY <2>2, <2>3, SumNonNegative
<1>8. {"APPROPRIATION", "TRANSFER_IN", "TRANSFER_OUT", "RESERVATION", "COMMITMENT", "ACTUAL"} \subseteq Components
  BY DEF Components
<1>9. \A c \in {"APPROPRIATION", "TRANSFER_IN", "TRANSFER_OUT", "ACTUAL"} : A[c] = B[c]
  <2>1. ASSUME NEW c \in Components \ {"RESERVATION", "COMMITMENT"} PROVE A[c] = B[c]
    <3>1. A[c] = B[c] + 0 /\ B[c] \in Int
      BY <1>1, <1>3, <1>6
    <3> QED
      BY <3>1
  <2> QED
    BY <1>8, <2>1
<1>10. \A c \in Components : B[c] \in Int
  BY <1>1
<1>11. /\ Moved(es, l, "RESERVATION") \in Int /\ Moved(es, l, "COMMITMENT") \in Int
       /\ A["RESERVATION"] = B["RESERVATION"] + Moved(es, l, "RESERVATION")
       /\ A["COMMITMENT"] = B["COMMITMENT"] + Moved(es, l, "COMMITMENT")
  BY <1>2, <1>6, <1>8
<1>12. /\ AvailableOn(B) \in Int
       /\ AvailableOn(A) = AvailableOn(B) - Moved(es, l, "COMMITMENT")
                             - (IF Counted THEN Moved(es, l, "RESERVATION") ELSE 0)
  BY <1>8, <1>9, <1>10, <1>11, ProcurementAssumption
  DEF AvailableOn, Available, AdjustedBudget, ControlBase, CountedReservation
<1> QED
  BY <1>7, <1>11, <1>12 DEF A, B

LEMMA PreviewSuffices ==
  ASSUME LedgerInv, NEW y \in Years, ReadyToClose(y)
  PROVE  Affordable(ClosingEntries(y))
<1> DEFINE r == ToRelease(y)
           k == ToCarry(y)
           es == ClosingEntries(y)
<1>1. EntersFor(y, r, k, es)
  <2>1. docs \in Seq(Doc)
    BY DEF LedgerInv, TypeOK
  <2>2. \A n \in DOMAIN k : YearOf(Target(k[n])) = y + 1
    BY <2>1, Listed, TargetsAre DEF IsListOf
  <2> QED
    BY <2>1, <2>2, Listed, ClosingEntriesAre DEF EntersFor, Years
<1> HIDE DEF r, k, es
<1> SUFFICES ASSUME NEW l \in Lines
             PROVE  LET before == AvailableOn(balance[l])
                        after  == AvailableOn(AfterPosting(es)[l])
                    IN /\ after < before => Shortfall(before, before - after) = 0
                       /\ AfterPosting(es)[l]["RESERVATION"] >= 0
                       /\ AfterPosting(es)[l]["COMMITMENT"] >= 0
  BY DEF Affordable, es
<1> DEFINE before == AvailableOn(balance[l])
           after == AvailableOn(AfterPosting(es)[l])
           res == Moved(es, l, "RESERVATION")
           com == Moved(es, l, "COMMITMENT")
           heldR == balance[l]["RESERVATION"]
           heldC == balance[l]["COMMITMENT"]
           leftR == AfterPosting(es)[l]["RESERVATION"]
           leftC == AfterPosting(es)[l]["COMMITMENT"]
<1>2. /\ res \in Int /\ com \in Int /\ before \in Int
      /\ after = before - com - (IF Counted THEN res ELSE 0)
      /\ heldR \in Nat /\ leftR = heldR + res /\ heldC \in Nat /\ leftC = heldC + com
  BY <1>1, PositionAfter
<1>3. CASE YearOf(l) = y
  <2>1. res = -heldR /\ com = -heldC
    BY <1>1, <1>3, ClosingReleases
  <2> HIDE DEF before, after, res, com, heldR, heldC, leftR, leftC
  <2>2. leftR >= 0 /\ leftC >= 0 /\ ~(after < before)
    BY <1>2, <2>1
  <2> QED
    BY <2>2 DEF before, after, leftR, leftC
<1>4. CASE YearOf(l) # y
  <2>1. com = Needed(y, l) /\ com \in Nat /\ res = 0 /\ (com # 0 => OrdersOf(y) # {})
    BY <1>1, <1>4, ClosingCarriesNeeded
  <2>2. com > 0 => com <= before
    <3> SUFFICES ASSUME com > 0 PROVE Needed(y, l) <= AvailableOn(balance[l])
      BY <2>1
    <3>1. docs \in Seq(Doc) /\ OrdersOf(y) # {}
      BY <1>2, <2>1 DEF LedgerInv, TypeOK
    <3>2. CarryFunded(y)
      BY <3>1, TargetsAre
    <3> QED
      BY <2>1, <3>1, <3>2 DEF CarryFunded
  <2> HIDE DEF before, after, res, com, heldR, heldC, leftR, leftC
  <2>3. leftR >= 0 /\ leftC >= 0 /\ after = before - com
    BY <1>2, <2>1
  <2>4. after < before => Shortfall(before, before - after) = 0
    <3> SUFFICES ASSUME after < before PROVE Shortfall(before, before - after) = 0
      OBVIOUS
    <3>1. com > 0 /\ com <= before /\ before - after = com
      BY <1>2, <2>1, <2>2, <2>3
    <3> QED
      BY <1>2, <2>1, <3>1 DEF Shortfall, Positive
  <2> QED
    BY <2>3, <2>4 DEF before, after, leftR, leftC
<1> QED
  BY <1>3, <1>4

\* The funding the preview asks for is enough: no posting of a closing that passed
\* close_year's own checks lacks money on its line (preview_closing, engine._evaluate).
THEOREM PreviewsAreEnough == YearSpec => []PreviewIsEnough
<1>1. YearInv => PreviewIsEnough
  BY PreviewSuffices DEF YearInv, PreviewIsEnough
<1> QED
  BY <1>1, YearEndInvariant, PTL

-----------------------------------------------------------------------------
(* No line is overdrawn, in whatever year.                                 *)

LEMMA YearInitNotOverdrawn == YearInit => NeverOverdrawn
<1> SUFFICES ASSUME YearInit, NEW l \in Lines PROVE Available("APPROPRIATION", Counted, balance[l]) >= 0
  BY DEF NeverOverdrawn
<1> DEFINE granted == IF YearOf(l) = 1 THEN Budget ELSE 0
<1>1. granted >= 0 /\ granted \in Int
  BY ProcurementAssumption
<1>2. balance[l] = [NoMovement EXCEPT !["APPROPRIATION"] = granted]
  BY DEF YearInit
<1> HIDE DEF granted
<1>3. balance[l]["APPROPRIATION"] = granted /\ \A c \in Components \ {"APPROPRIATION"} : balance[l][c] = 0
  BY <1>2 DEF NoMovement, Components
<1> QED
  BY <1>1, <1>3, ProcurementAssumption
  DEF Available, AdjustedBudget, ControlBase, CountedReservation, Components

\* What a budget document takes from a line has to be there; what it gives only adds.
LEMMA BudgetNotOverdrawn ==
  ASSUME LedgerInv, NeverOverdrawn, NEW l \in Lines, NEW n \in Int, ChangeBudget(l, n)
  PROVE  NeverOverdrawn'
<1> DEFINE after == [balance[l] EXCEPT !["APPROPRIATION"] = @ + n]
<1>1. balance \in [Lines -> Positions] /\ balance' = [balance EXCEPT ![l] = after]
      /\ (n < 0 => AvailableOn(after) >= 0)
  BY DEF LedgerInv, TypeOK, ChangeBudget
<1>2. balance[l] \in [Components -> Int] /\ AvailableOn(balance[l]) >= 0
  BY <1>1 DEF Positions, NeverOverdrawn, AvailableOn
<1>3. /\ after \in [Components -> Int] /\ after["APPROPRIATION"] = balance[l]["APPROPRIATION"] + n
      /\ \A c \in Components \ {"APPROPRIATION"} : after[c] = balance[l][c]
  BY <1>2 DEF Components
<1> HIDE DEF after
<1>4. AvailableOn(after) = AvailableOn(balance[l]) + n
  BY <1>2, <1>3, ProcurementAssumption
  DEF AvailableOn, Available, AdjustedBudget, ControlBase, CountedReservation, Components
<1>5. AvailableOn(balance[l]) \in Int
  BY <1>1, AvailableType
<1>6. AvailableOn(after) >= 0
  BY <1>1, <1>2, <1>4, <1>5
<1>7. ASSUME NEW k \in Lines PROVE AvailableOn(balance'[k]) >= 0
  <2>1. CASE k = l
    BY <1>1, <1>6, <2>1
  <2>2. CASE k # l
    <3>1. balance'[k] = balance[k]
      BY <1>1, <2>2
    <3> QED
      BY <3>1 DEF NeverOverdrawn, AvailableOn
  <2> QED
    BY <2>1, <2>2
<1> QED
  BY <1>7 DEF NeverOverdrawn, AvailableOn

LEMMA YearNotOverdrawn ==
  YearInv /\ NeverOverdrawn /\ [YearNext]_allVars => NeverOverdrawn'
<1> SUFFICES ASSUME YearInv, NeverOverdrawn, [YearNext]_allVars PROVE NeverOverdrawn'
  OBVIOUS
<1>1. LedgerInv /\ LedgerInv'
  BY YearStep DEF YearInv
<1>2. balance' \in [Lines -> Positions]
  BY <1>1 DEF LedgerInv, TypeOK
<1>3. ASSUME balance' = balance PROVE NeverOverdrawn'
  BY <1>3 DEF NeverOverdrawn
<1>4. CASE DraftDocument
  BY <1>1, <1>3, <1>4, DraftsAreQuiet DEF DraftDocument, QuietStep
<1>5. ASSUME NEW d \in Ids(docs), DropDocument(d) PROVE NeverOverdrawn'
  BY <1>1, <1>3, <1>5, DropIsQuiet DEF DropDocument, QuietStep
<1>6. ASSUME NEW d \in Ids(docs), PostDocument(d) PROVE NeverOverdrawn'
  BY <1>1, <1>2, <1>6, AffordableStays DEF PostDocument, Post
<1>7. ASSUME NEW y \in Years, CloseYear(y) PROVE NeverOverdrawn'
  BY <1>1, <1>2, <1>7, AffordableStays DEF CloseYear
<1>8. CASE \E l \in Lines, n \in Amounts : ChangeBudget(l, n) \/ ChangeBudget(l, -n)
  <2>1. \A n \in Amounts : n \in Int /\ -n \in Int
    BY ProcurementAssumption DEF Amounts
  <2> QED
    BY <1>1, <1>8, <2>1, BudgetNotOverdrawn
<1>9. CASE \/ \E y \in Years : CreateYear(y) \/ OpenYear(y)
           \/ \E y \in Years, p \in Months : ClosePeriod(y, p) \/ ReopenPeriod(y, p)
           \/ UNCHANGED allVars
  BY <1>3, <1>9 DEF CreateYear, OpenYear, ClosePeriod, ReopenPeriod, allVars, vars
<1> QED
  BY <1>4, <1>5, <1>6, <1>7, <1>8, <1>9 DEF YearNext

\* No line of any year has less than nothing available, whatever is posted on it, its
\* budget reduced, or carried to it from the year before (engine._evaluate, closing.py).
THEOREM YearsLinesNeverOverdrawn == YearSpec => []NeverOverdrawn
<1>1. YearInit => NeverOverdrawn
  BY YearInitNotOverdrawn
<1>2. YearInv /\ NeverOverdrawn /\ [YearNext]_allVars => NeverOverdrawn'
  BY YearNotOverdrawn
<1> QED
  BY <1>1, <1>2, YearEndInvariant, PTL DEF YearSpec

=============================================================================
