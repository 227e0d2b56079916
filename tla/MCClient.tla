------------------------------ MODULE MCClient ------------------------------
EXTENDS Client

\* Roles change while a page is being loaded, and from then on its user only looks at
\* pages; after something was lost or crossed he does that or signs in.
OnlyLoading(changed, wentWrong, doing) ==
  \/ doing = "LOADING"
  \/ changed = 0 /\ doing = "LOGIN"
  \/ changed = 0 /\ ~wentWrong /\ doing = "COMMAND"
=============================================================================
