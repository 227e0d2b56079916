------------------------------- MODULE MCDesk -------------------------------
EXTENDS Desk

CONSTANTS c, a, b, d

\* A posted document of each kind, all of one budget line.
Posted == {"budget", "allocation", "transfer", "payment", "order", "request"}

PostedKind == [s \in Posted |->
                 CASE s = "budget" -> "BUDGET_DOCUMENT" [] s = "allocation" -> "AUTHORIZATION"
                   [] s = "transfer" -> "TRANSFER" [] s = "payment" -> "EXPENDITURE"
                   [] s = "order" -> "COMMITMENT" [] s = "request" -> "PURCHASE_REQUEST"]

PostedLine == [s \in Posted |-> <<"y1", "i1">>]

AllKinds == Listed \cup Derived

\* The payment of the order is followed.
PaymentOfOrder(year, ds) ==
  year = "y1" /\ Len(ds) = 1 /\ ds[1].kind = "EXPENDITURE" /\ ds[1].source = "order"

Profiles == {{"submit", "approve"}, {"review", "cancel"}, {"control"}}

\* The creator might approve, were the document another's.
StartRights == [u \in {c, a, b, d} |->
                  CASE u \in {c, d} -> {"submit", "approve"}
                    [] u = a -> {"review", "cancel"} [] u = b -> {"control"}]

\* One delegation, change of rights or change of bands while the amount is the largest;
\* it is lowered where there is none.
OneOfThem(n, people, bandsChanged) == n > 0 /\ people + bandsChanged + MaxAmount - n <= 1
=============================================================================
