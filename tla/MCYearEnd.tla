------------------------------ MODULE MCYearEnd ------------------------------
(* A line of the first year, and the line of the next its orders are carried  *)
(* to if that year names the item; its own item has no line there.            *)
EXTENDS YearEnd

CONSTANTS a, b

TwoYears == {<<1, a>>, <<2, b>>}

===============================================================================
