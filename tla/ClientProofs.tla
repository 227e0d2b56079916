---------------------------- MODULE ClientProofs ----------------------------
(***************************************************************************)
(* Proofs about the sessions of a user and the tab that uses them, for any *)
(* times and bounds and any number of calls under way.  Of the sessions:   *)
(* what was ended stays ended, access follows roles and sessions, a        *)
(* session has one live token and ends when it was to end.  Of the tab:    *)
(* what it asks for are steps of the sessions, whose promises it therefore *)
(* inherits, and it never shows a refresh token twice.                     *)
(***************************************************************************)
EXTENDS Client, PositionProofs

-----------------------------------------------------------------------------
(* The inductive invariant.                                                *)

TokensOK ==
  /\ now \in Nat /\ roles \in Nat /\ authVersion \in Nat
  /\ tokens \in Seq(Token)
  /\ access \subseteq Access

\* Families are known by their first tokens, and clocks do not run ahead.
FamiliesOK ==
  /\ \A t \in Ids :
       /\ tokens[t].family \in Ids
       /\ tokens[tokens[t].family].family = tokens[t].family
       /\ tokens[t].replacedBy \in Ids \cup {None}
       /\ tokens[t].used <= now
  /\ \A a \in access : a.family \in Ids
  /\ ended \subseteq Families

\* The version an access token carries tells whether the roles were changed.
VersionsTell ==
  \A a \in access : a.version <= authVersion /\ (a.version = authVersion => a.roles = roles)

\* A logout waits for a family there is.
WaitingOK == \A r \in waiting : r.op = "LOGOUT" => r.family \in Families

IInv ==
  /\ TokensOK
  /\ FamiliesOK
  /\ VersionsTell
  /\ WaitingOK
  /\ EndedStaysEnded
  /\ OneLiveToken
  /\ SessionsAreBounded

-----------------------------------------------------------------------------
(* What happens to the tokens there are.                                   *)

\* The tokens ts are the present ones, but for some that were revoked or replaced.
Kept(ts) ==
  /\ ts \in Seq(Token)
  /\ Len(ts) = Len(tokens)
  /\ \A t \in Ids :
       /\ ts[t].family = tokens[t].family
       /\ ts[t].used = tokens[t].used
       /\ ts[t].expires = tokens[t].expires
       /\ tokens[t].revoked => ts[t].revoked

\* A sequence of as many tokens, each one the present one or revoked.
LEMMA KeptOneByOne ==
  ASSUME tokens \in Seq(Token), NEW ts \in [Ids -> Token],
         \A t \in Ids :
           /\ ts[t].family = tokens[t].family
           /\ ts[t].used = tokens[t].used
           /\ ts[t].expires = tokens[t].expires
           /\ tokens[t].revoked => ts[t].revoked
  PROVE  Kept(ts)
<1>1. Len(tokens) \in Nat
  OBVIOUS
<1>2. ts \in Seq(Token) /\ Len(ts) = Len(tokens)
  BY <1>1 DEF Ids
<1> QED
  BY <1>2 DEF Kept

\* revoke_all_sessions leaves no token live.
LEMMA RevokedAllKeeps ==
  ASSUME tokens \in Seq(Token)
  PROVE  /\ Kept(RevokedAll)
         /\ \A t \in Ids : /\ RevokedAll[t].revoked
                           /\ RevokedAll[t].replacedBy = tokens[t].replacedBy
<1>1. \A t \in Ids : tokens[t] \in Token
  BY DEF Ids
<1>2. RevokedAll \in [Ids -> Token]
  BY <1>1 DEF RevokedAll, Token
<1>3. \A t \in Ids :
        /\ RevokedAll[t].family = tokens[t].family
        /\ RevokedAll[t].used = tokens[t].used
        /\ RevokedAll[t].expires = tokens[t].expires
        /\ RevokedAll[t].revoked
        /\ RevokedAll[t].replacedBy = tokens[t].replacedBy
  BY <1>1 DEF RevokedAll, Token
<1> QED
  BY <1>2, <1>3, KeptOneByOne

\* The end of a family leaves the others as they are.
LEMMA RevokedKeeps ==
  ASSUME tokens \in Seq(Token), NEW f
  PROVE  /\ Kept(Revoked(f))
         /\ \A t \in Ids : /\ Revoked(f)[t].revoked <=> tokens[t].revoked \/ tokens[t].family = f
                           /\ Revoked(f)[t].replacedBy = tokens[t].replacedBy
<1>1. \A t \in Ids : tokens[t] \in Token
  BY DEF Ids
<1>2. \A t \in Ids : (tokens[t].revoked \/ tokens[t].family = f) \in BOOLEAN
  BY <1>1 DEF Token
<1>3. Revoked(f) \in [Ids -> Token]
  BY <1>1, <1>2 DEF Revoked, Token
<1>4. \A t \in Ids :
        /\ Revoked(f)[t].family = tokens[t].family
        /\ Revoked(f)[t].used = tokens[t].used
        /\ Revoked(f)[t].expires = tokens[t].expires
        /\ Revoked(f)[t].revoked <=> tokens[t].revoked \/ tokens[t].family = f
        /\ Revoked(f)[t].replacedBy = tokens[t].replacedBy
  BY <1>1 DEF Revoked, Token
<1> QED
  BY <1>3, <1>4, KeptOneByOne

\* A token refused as too old is revoked, and nothing else.
Refused(t) == [tokens EXCEPT ![t].revoked = TRUE]

\* What Refused keeps.
LEMMA RefusedKeeps ==
  ASSUME tokens \in Seq(Token), NEW t \in Ids
  PROVE  /\ Kept(Refused(t))
         /\ \A s \in Ids : /\ Refused(t)[s].revoked <=> tokens[s].revoked \/ s = t
                           /\ Refused(t)[s].replacedBy = tokens[s].replacedBy
<1>1. tokens \in [Ids -> Token]
  BY DEF Ids
<1>2. Refused(t) \in [Ids -> Token]
  BY <1>1 DEF Refused, Token
<1>3. \A s \in Ids :
        /\ Refused(t)[s].family = tokens[s].family
        /\ Refused(t)[s].used = tokens[s].used
        /\ Refused(t)[s].expires = tokens[s].expires
        /\ Refused(t)[s].revoked <=> tokens[s].revoked \/ s = t
        /\ Refused(t)[s].replacedBy = tokens[s].replacedBy
  BY <1>1 DEF Refused, Token
<1>4. Kept(Refused(t))
  BY <1>2, <1>3, KeptOneByOne
<1> QED
  BY <1>3, <1>4

\* A token with a successor is a token.
LEMMA ReplacedToken ==
  ASSUME NEW x \in Token, NEW n \in Nat
  PROVE  [x EXCEPT !.revoked = TRUE, !.replacedBy = n] \in Token
BY DEF Token

\* Rotation revokes one token and names its successor.
LEMMA RotatedKeeps ==
  ASSUME tokens \in Seq(Token), NEW t \in Ids
  PROVE  /\ Kept(Rotated(t))
         /\ \A s \in Ids : /\ Rotated(t)[s].revoked <=> tokens[s].revoked \/ s = t
                           /\ s # t => Rotated(t)[s].replacedBy = tokens[s].replacedBy
         /\ Rotated(t)[t].replacedBy = Len(tokens) + 1
<1>1. tokens \in [Ids -> Token] /\ Len(tokens) \in Nat
  BY DEF Ids
<1>2. Rotated(t) \in [Ids -> Token]
  <2> DEFINE r == [tokens[t] EXCEPT !.revoked = TRUE, !.replacedBy = Len(tokens) + 1]
  <2>1. tokens[t] \in Token /\ Len(tokens) + 1 \in Nat
    BY <1>1
  <2>2. r \in Token
    BY <2>1, ReplacedToken
  <2>3. Rotated(t) = [tokens EXCEPT ![t] = r]
    BY <1>1 DEF Rotated
  <2> HIDE DEF r
  <2> QED
    BY <1>1, <2>2, <2>3
<1>3. \A s \in Ids :
        /\ Rotated(t)[s].family = tokens[s].family
        /\ Rotated(t)[s].used = tokens[s].used
        /\ Rotated(t)[s].expires = tokens[s].expires
        /\ Rotated(t)[s].revoked <=> tokens[s].revoked \/ s = t
        /\ s # t => Rotated(t)[s].replacedBy = tokens[s].replacedBy
  BY <1>1 DEF Rotated, Token
<1>4. Rotated(t)[t].replacedBy = Len(tokens) + 1
  BY <1>1 DEF Rotated, Token
<1>5. Kept(Rotated(t))
  BY <1>2, <1>3, KeptOneByOne
<1> QED
  BY <1>3, <1>4, <1>5

-----------------------------------------------------------------------------
(* Three kinds of steps.                                                   *)

\* Steps that issue no token: what they revoke are the families they end.
LEMMA EndingStep ==
  ASSUME IInv,
         Kept(tokens'),
         \A t \in Ids : /\ tokens'[t].replacedBy = tokens[t].replacedBy
                        /\ tokens'[t].revoked <=>
                             tokens[t].revoked \/ tokens[t].family \in ended',
         ended \subseteq ended', ended' \subseteq Families,
         now' \in Nat, now' >= now, roles' \in Nat, authVersion' \in Nat,
         access' \subseteq access,
         VersionsTell',
         \A r \in waiting' : r.op = "LOGOUT" => r.family \in Families
  PROVE  IInv'
<1> USE DEF IInv
<1>1. Ids' = Ids /\ Len(tokens) \in Nat
  BY DEF Ids, Kept, TokensOK
<1>2. \A t \in Ids :
        /\ tokens[t] \in Token /\ tokens'[t] \in Token
        /\ tokens'[t].family = tokens[t].family
        /\ tokens'[t].used = tokens[t].used
        /\ tokens'[t].expires = tokens[t].expires
  BY <1>1 DEF Ids, Kept, TokensOK
<1>3. Families' = Families
  BY <1>1, <1>2 DEF Families
<1>4. TokensOK'
  BY DEF TokensOK, Kept
<1>5. FamiliesOK'
  <2>1. \A t \in Ids :
          /\ tokens'[t].family \in Ids
          /\ tokens'[tokens'[t].family].family = tokens'[t].family
          /\ tokens'[t].replacedBy \in Ids \cup {None}
          /\ tokens'[t].used <= now'
    <3>1. \A t \in Ids : /\ tokens[t].family \in Ids /\ tokens[t].used \in Nat
                         /\ tokens[tokens[t].family].family = tokens[t].family
                         /\ tokens[t].replacedBy \in Ids \cup {None}
                         /\ tokens[t].used <= now
      BY <1>2 DEF FamiliesOK, Token
    <3>2. now \in Nat
      BY DEF TokensOK
    <3> QED
      BY <1>2, <3>1, <3>2
  <2>2. \A a \in access' : a.family \in Ids
    BY DEF FamiliesOK
  <2> QED
    BY <1>1, <1>3, <2>1, <2>2 DEF FamiliesOK
<1>6. WaitingOK'
  BY <1>3 DEF WaitingOK
<1>7. EndedStaysEnded'
  BY <1>1, <1>2 DEF EndedStaysEnded, Live
<1>8. OneLiveToken'
  <2> SUFFICES ASSUME NEW f \in Families, f \notin ended'
               PROVE  \E t \in Live' :
                        /\ tokens'[t].family = f
                        /\ \A s \in Ids \ {t} : tokens'[s].family = f =>
                             s \notin Live' /\ tokens'[s].replacedBy \in s + 1 .. t
    BY <1>1, <1>3 DEF OneLiveToken
  <2>1. PICK t \in Live :
          /\ tokens[t].family = f
          /\ \A s \in Ids \ {t} : tokens[s].family = f =>
               s \notin Live /\ tokens[s].replacedBy \in s + 1 .. t
    BY DEF OneLiveToken
  <2>2. t \in Live'
    BY <1>1, <1>2, <2>1 DEF Live
  <2>3. \A s \in Ids \ {t} : tokens'[s].family = f =>
          s \notin Live' /\ tokens'[s].replacedBy \in s + 1 .. t
    BY <1>1, <1>2, <2>1 DEF Live
  <2> QED
    BY <1>2, <2>1, <2>2, <2>3 DEF Live
<1>9. SessionsAreBounded'
  <2>1. \A t \in Ids : /\ tokens'[t].expires = tokens'[tokens'[t].family].used + RefreshTime
                       /\ \A s \in Ids : tokens'[s].replacedBy = t =>
                            tokens'[t].used - tokens'[s].used <= IdleTimeout
    BY <1>2 DEF SessionsAreBounded, FamiliesOK
  <2>2. \A a \in access' : a.expires < tokens'[a.family].expires + AccessTime
    BY <1>2 DEF SessionsAreBounded, FamiliesOK
  <2> QED
    BY <1>1, <2>1, <2>2 DEF SessionsAreBounded
<1> QED
  BY <1>4, <1>5, <1>6, <1>7, <1>8, <1>9

\* A token is appended to what was kept of the others.
LEMMA AppendedToken ==
  ASSUME tokens \in Seq(Token), NEW ts, Kept(ts), NEW new \in Token,
         tokens' = Append(ts, new)
  PROVE  /\ tokens' \in Seq(Token)
         /\ Ids' = Ids \cup {Len(tokens) + 1}
         /\ tokens'[Len(tokens) + 1] = new
         /\ \A t \in Ids :
              /\ tokens'[t] = ts[t]
              /\ tokens'[t].family = tokens[t].family
              /\ tokens'[t].used = tokens[t].used
              /\ tokens'[t].expires = tokens[t].expires
<1>1. ts \in Seq(Token) /\ Len(ts) = Len(tokens) /\ Len(tokens) \in Nat
  BY DEF Kept
<1>2. /\ tokens' \in Seq(Token) /\ Len(tokens') = Len(tokens) + 1
      /\ tokens'[Len(tokens) + 1] = new
      /\ \A t \in 1 .. Len(tokens) : tokens'[t] = ts[t]
  BY <1>1
<1>3. Ids' = Ids \cup {Len(tokens) + 1}
  BY <1>1, <1>2 DEF Ids
<1> QED
  BY <1>2, <1>3 DEF Kept, Ids

\* Steps that begin a session, after they ended some or all of the others.
LEMMA BeginningStep ==
  ASSUME IInv, NEW n, n \notin Ids, n # None, n \in Nat,
         tokens' \in Seq(Token), Ids' = Ids \cup {n},
         \A t \in Ids : /\ tokens'[t].family = tokens[t].family
                        /\ tokens'[t].used = tokens[t].used
                        /\ tokens'[t].expires = tokens[t].expires
                        /\ tokens'[t].replacedBy = tokens[t].replacedBy
                        /\ tokens'[t].revoked <=>
                             tokens[t].revoked \/ tokens[t].family \in ended',
         tokens'[n].family = n, tokens'[n].used = now, tokens'[n].replacedBy = None,
         tokens'[n].expires = now + RefreshTime, ~tokens'[n].revoked,
         RefreshTime \in Nat \ {0}, AccessTime \in Nat \ {0},
         ended \subseteq ended', ended' \subseteq Families,
         now' = now, roles' \in Nat, authVersion' \in Nat,
         access' \subseteq Access,
         \A a \in access' : a \in access \/ (a.family = n /\ a.expires = now + AccessTime),
         VersionsTell',
         waiting' \subseteq waiting
  PROVE  IInv'
<1> USE DEF IInv
<1>1. Families \subseteq Ids /\ \A t \in Ids : tokens[t].family \in Ids /\ tokens[t].family # n
  BY DEF FamiliesOK, Families
<1>2. Families' = Families \cup {n}
  <2>1. \A x \in Families' : x \in Families \cup {n}
    BY DEF Families
  <2>2. \A x \in Families : x \in Families'
    <3>1. \A t \in Ids : tokens[t].family = tokens'[t].family /\ t \in Ids'
      OBVIOUS
    <3> QED
      BY <3>1 DEF Families
  <2>3. n \in Families'
    <3>1. n \in Ids' /\ n = tokens'[n].family
      OBVIOUS
    <3> QED
      BY <3>1 DEF Families
  <2> QED
    BY <2>1, <2>2, <2>3
<1>3. TokensOK'
  BY DEF TokensOK
<1>4. FamiliesOK'
  <2>1. \A t \in Ids' : /\ tokens'[t].family \in Ids'
                        /\ tokens'[tokens'[t].family].family = tokens'[t].family
    BY DEF FamiliesOK
  <2>2. \A t \in Ids' : tokens'[t].replacedBy \in Ids' \cup {None}
    BY DEF FamiliesOK
  <2>3. \A t \in Ids' : tokens'[t].used <= now'
    BY DEF FamiliesOK, TokensOK
  <2>4. \A a \in access' : a.family \in Ids'
    BY DEF FamiliesOK
  <2> QED
    BY <1>2, <2>1, <2>2, <2>3, <2>4 DEF FamiliesOK
<1>5. WaitingOK'
  BY <1>2 DEF WaitingOK
<1>6. EndedStaysEnded'
  <2>1. ASSUME NEW t \in Ids', ~tokens'[t].revoked
        PROVE  tokens'[t].family \notin ended'
    <3>1. CASE t \in Ids
      BY <2>1, <3>1
    <3>2. CASE t = n
      BY <1>1, <3>2
    <3> QED
      BY <3>1, <3>2
  <2> QED
    BY <2>1 DEF EndedStaysEnded, Live
<1>7. OneLiveToken'
  <2> DEFINE Lives(f) ==
               \E t \in Live' :
                 /\ tokens'[t].family = f
                 /\ \A s \in Ids' \ {t} : tokens'[s].family = f =>
                      s \notin Live' /\ tokens'[s].replacedBy \in s + 1 .. t
  <2>1. ASSUME NEW f \in Families, f \notin ended'
        PROVE  Lives(f)
    <3>1. PICK t \in Live :
            /\ tokens[t].family = f
            /\ \A s \in Ids \ {t} : tokens[s].family = f =>
                 s \notin Live /\ tokens[s].replacedBy \in s + 1 .. t
      BY <2>1 DEF OneLiveToken
    <3>2. t \in Live' /\ tokens'[t].family = f
      BY <2>1, <3>1 DEF Live
    <3>3. ASSUME NEW s \in Ids' \ {t}, tokens'[s].family = f
          PROVE  s \notin Live' /\ tokens'[s].replacedBy \in s + 1 .. t
      <4>1. s \in Ids \ {t} /\ tokens[s].family = f
        BY <1>1, <2>1, <3>3
      <4>2. s \notin Live /\ tokens[s].replacedBy \in s + 1 .. t
        BY <3>1, <4>1
      <4> QED
        BY <4>1, <4>2 DEF Live
    <3> QED
      BY <3>2, <3>3
  <2>2. Lives(n)
    <3>1. n \in Live' /\ \A s \in Ids' \ {n} : tokens'[s].family # n
      BY <1>1 DEF Live
    <3> QED
      BY <3>1
  <2> HIDE DEF Lives
  <2>3. \A f \in Families' \ ended' : Lives(f)
    BY <1>2, <2>1, <2>2
  <2> QED
    BY <2>3 DEF OneLiveToken, Lives
<1>8. SessionsAreBounded'
  <2>1. \A t \in Ids' : tokens'[t].expires = tokens'[tokens'[t].family].used + RefreshTime
    BY <1>1 DEF SessionsAreBounded
  <2>2. \A t \in Ids', s \in Ids' : tokens'[s].replacedBy = t =>
          tokens'[t].used - tokens'[s].used <= IdleTimeout
    <3>1. \A s \in Ids : tokens'[s].replacedBy # n
      BY DEF FamiliesOK
    <3>2. None \notin Ids'
      BY DEF TokensOK, Ids, None
    <3> QED
      BY <3>1, <3>2 DEF SessionsAreBounded
  <2>3. \A a \in access' : a.expires < tokens'[a.family].expires + AccessTime
    <3>1. \A a \in access : a.expires < tokens'[a.family].expires + AccessTime
      BY DEF SessionsAreBounded, FamiliesOK
    <3>2. now + AccessTime < tokens'[n].expires + AccessTime
      BY DEF TokensOK
    <3> QED
      BY <3>1, <3>2
  <2> QED
    BY <2>1, <2>2, <2>3 DEF SessionsAreBounded
<1> QED
  BY <1>3, <1>4, <1>5, <1>6, <1>7, <1>8

\* Rotation: the session goes on with the next token.
LEMMA RotationStep ==
  ASSUME IInv, NEW n, n \notin Ids, n \in Nat, \A s \in Ids : s \in Nat \ {0} /\ s < n,
         NEW t \in Live,
         tokens' \in Seq(Token), Ids' = Ids \cup {n},
         \A s \in Ids : /\ tokens'[s].family = tokens[s].family
                        /\ tokens'[s].used = tokens[s].used
                        /\ tokens'[s].expires = tokens[s].expires
                        /\ s # t => tokens'[s].replacedBy = tokens[s].replacedBy
                        /\ tokens'[s].revoked <=> tokens[s].revoked \/ s = t,
         tokens'[t].replacedBy = n,
         tokens'[n].family = tokens[t].family, tokens'[n].used = now,
         tokens'[n].replacedBy = None,
         tokens'[n].expires = tokens[t].expires, ~tokens'[n].revoked,
         AccessTime \in Nat \ {0},
         now < tokens[t].expires, now - tokens[t].used <= IdleTimeout,
         ended' = ended, now' = now, roles' \in Nat, authVersion' \in Nat,
         access' \subseteq Access,
         \A a \in access' : a \in access \/
           (a.family = tokens[t].family /\ a.expires = now + AccessTime),
         VersionsTell',
         waiting' \subseteq waiting
  PROVE  IInv'
<1> USE DEF IInv
<1> DEFINE g == tokens[t].family
<1>1. /\ t \in Ids /\ ~tokens[t].revoked /\ t # n /\ n # None
      /\ g \in Ids /\ g \in Families /\ g \notin ended
      /\ \A s \in Ids : tokens[s].family \in Ids /\ s # n
  BY DEF Live, FamiliesOK, Families, EndedStaysEnded, None
<1> HIDE DEF g
<1>2. Families' = Families
  <2>1. \A x \in Families' : x \in Families
    <3>1. \A s \in Ids' : tokens'[s].family \in Families
      BY <1>1 DEF Families, g
    <3> QED
      BY <3>1 DEF Families
  <2>2. \A x \in Families : x \in Families'
    <3>1. \A s \in Ids : tokens[s].family = tokens'[s].family /\ s \in Ids'
      OBVIOUS
    <3> QED
      BY <3>1 DEF Families
  <2> QED
    BY <2>1, <2>2
<1>3. TokensOK'
  BY DEF TokensOK
<1>4. FamiliesOK'
  <2>1. \A s \in Ids' : /\ tokens'[s].family \in Ids'
                        /\ tokens'[tokens'[s].family].family = tokens'[s].family
    <3>1. \A f \in Ids : tokens'[f].family = tokens[f].family /\ f \in Ids'
      OBVIOUS
    <3>2. \A s \in Ids' : tokens'[s].family \in Ids /\ \E r \in Ids : tokens'[s].family = tokens[r].family
      BY <1>1 DEF g
    <3>3. \A s \in Ids : tokens[tokens[s].family].family = tokens[s].family
      BY DEF FamiliesOK
    <3> QED
      BY ONLY <3>1, <3>2, <3>3
  <2>2. \A s \in Ids' : tokens'[s].replacedBy \in Ids' \cup {None}
    BY DEF FamiliesOK
  <2>3. \A s \in Ids' : tokens'[s].used <= now'
    BY DEF FamiliesOK, TokensOK
  <2>4. \A a \in access' : a.family \in Ids'
    BY <1>1 DEF FamiliesOK, g
  <2>5. ended' \subseteq Families'
    BY <1>2 DEF FamiliesOK
  <2> QED
    BY <2>1, <2>2, <2>3, <2>4, <2>5 DEF FamiliesOK
<1>5. WaitingOK'
  BY <1>2 DEF WaitingOK
<1>6. EndedStaysEnded'
  <2>1. ASSUME NEW s \in Ids', ~tokens'[s].revoked
        PROVE  tokens'[s].family \notin ended'
    <3>1. CASE s \in Ids
      BY <2>1, <3>1 DEF EndedStaysEnded, Live
    <3>2. CASE s = n
      BY <1>1, <3>2 DEF g
    <3> QED
      BY <3>1, <3>2
  <2> QED
    BY <2>1 DEF EndedStaysEnded, Live
\* Before the step, t was the one live token of its family.
<1>7. \A s \in Ids \ {t} : tokens[s].family = g =>
        s \notin Live /\ tokens[s].replacedBy \in s + 1 .. t
  <2>1. PICK u \in Live :
          /\ tokens[u].family = g
          /\ \A s \in Ids \ {u} : tokens[s].family = g =>
               s \notin Live /\ tokens[s].replacedBy \in s + 1 .. u
    BY <1>1 DEF OneLiveToken
  <2>2. u = t
    BY <1>1, <2>1 DEF g
  <2> QED
    BY <2>1, <2>2
<1>8. OneLiveToken'
  <2> DEFINE Lives(f) ==
               \E u \in Live' :
                 /\ tokens'[u].family = f
                 /\ \A s \in Ids' \ {u} : tokens'[s].family = f =>
                      s \notin Live' /\ tokens'[s].replacedBy \in s + 1 .. u
  <2>1. ASSUME NEW f \in Families, f \notin ended, f # g
        PROVE  Lives(f)
    <3>1. PICK u \in Live :
            /\ tokens[u].family = f
            /\ \A s \in Ids \ {u} : tokens[s].family = f =>
                 s \notin Live /\ tokens[s].replacedBy \in s + 1 .. u
      BY <2>1 DEF OneLiveToken
    <3>2. u \in Live' /\ tokens'[u].family = f
      BY <2>1, <3>1 DEF Live, g
    <3>3. ASSUME NEW s \in Ids' \ {u}, tokens'[s].family = f
          PROVE  s \notin Live' /\ tokens'[s].replacedBy \in s + 1 .. u
      <4>1. s \in Ids \ {u} /\ s # t /\ tokens[s].family = f
        BY <1>1, <2>1, <3>3 DEF g
      <4>2. s \notin Live /\ tokens[s].replacedBy \in s + 1 .. u
        BY <3>1, <4>1
      <4> QED
        BY <4>1, <4>2 DEF Live
    <3> QED
      BY <3>2, <3>3
  <2>2. Lives(g)
    <3>1. n \in Live' /\ tokens'[n].family = g
      BY DEF Live, g
    <3>2. ASSUME NEW s \in Ids' \ {n}, tokens'[s].family = g
          PROVE  s \notin Live' /\ tokens'[s].replacedBy \in s + 1 .. n
      <4>1. CASE s = t
        BY <1>1, <4>1 DEF Live
      <4>2. CASE s # t
        <5>1. s \in Ids \ {t} /\ tokens[s].family = g
          BY <3>2, <4>2
        <5>2. s \notin Live /\ tokens[s].replacedBy \in s + 1 .. t
          BY <1>7, <5>1
        <5>3. t \in Nat /\ t < n /\ s \in Nat
          BY <1>1, <5>1
        <5> QED
          BY <5>1, <5>2, <5>3 DEF Live
      <4> QED
        BY <4>1, <4>2
    <3> QED
      BY <3>1, <3>2
  <2> HIDE DEF Lives
  <2>3. \A f \in Families' \ ended' : Lives(f)
    BY <1>2, <2>1, <2>2
  <2> QED
    BY <2>3 DEF OneLiveToken, Lives
<1>9. SessionsAreBounded'
  <2>1. \A s \in Ids' : tokens'[s].expires = tokens'[tokens'[s].family].used + RefreshTime
    <3>1. \A s \in Ids : tokens[s].expires = tokens'[tokens[s].family].used + RefreshTime
      BY <1>1 DEF SessionsAreBounded
    <3>2. \A s \in Ids : tokens'[s].expires = tokens'[tokens'[s].family].used + RefreshTime
      BY <3>1
    <3>3. tokens'[n].expires = tokens'[tokens'[n].family].used + RefreshTime
      BY <1>1, <3>1
    <3> QED
      BY <3>2, <3>3
  <2>2. \A s \in Ids', u \in Ids' : tokens'[s].replacedBy = u =>
          tokens'[u].used - tokens'[s].used <= IdleTimeout
    <3>1. \A s \in Ids : tokens[s].replacedBy # n
      BY <1>1 DEF FamiliesOK
    <3>2. None \notin Ids'
      BY <1>1 DEF None
    <3>3. tokens'[t].used = tokens[t].used
      BY <1>1
    <3>4. \A s \in Ids \ {t}, u \in Ids : tokens'[s].replacedBy = u =>
            tokens'[u].used - tokens'[s].used <= IdleTimeout
      BY DEF SessionsAreBounded
    <3> QED
      BY <3>1, <3>2, <3>3, <3>4
  <2>3. \A a \in access' : a.expires < tokens'[a.family].expires + AccessTime
    <3>1. \A a \in access : a.expires < tokens'[a.family].expires + AccessTime
      BY DEF SessionsAreBounded, FamiliesOK
    <3>2. tokens[t].expires = tokens'[g].expires
      BY <1>1 DEF SessionsAreBounded, FamiliesOK, g
    <3>3. now + AccessTime < tokens'[g].expires + AccessTime
      <4>1. tokens[t] \in Token
        BY <1>1 DEF TokensOK, Ids
      <4>2. tokens[t].expires \in Nat
        BY <4>1 DEF Token
      <4> QED
        BY <3>2, <4>2 DEF TokensOK
    <3> QED
      BY <3>1, <3>3 DEF g
  <2> QED
    BY <2>1, <2>2, <2>3 DEF SessionsAreBounded
<1> QED
  BY <1>3, <1>4, <1>5, <1>6, <1>8, <1>9

-----------------------------------------------------------------------------
(* The actions.                                                            *)

\* Steps that leave sessions alone, whatever they do to the account.
LEMMA SessionsLeft ==
  ASSUME IInv, UNCHANGED <<tokens, ended>>,
         now' \in Nat, now' >= now, roles' \in Nat, authVersion' \in Nat,
         access' \subseteq access, VersionsTell',
         \A r \in waiting' : r.op = "LOGOUT" => r.family \in Families
  PROVE  IInv'
<1>1. tokens \in Seq(Token) /\ \A t \in Ids : tokens[t] \in Token
  BY DEF IInv, TokensOK, Ids
<1>2. Kept(tokens')
  BY <1>1 DEF Kept
<1>3. \A t \in Ids : /\ tokens'[t].replacedBy = tokens[t].replacedBy
                     /\ tokens'[t].revoked <=> tokens[t].revoked \/ tokens[t].family \in ended'
  BY <1>1 DEF IInv, EndedStaysEnded, Live, Token
<1>4. ended' \subseteq Families
  BY DEF IInv, FamiliesOK
<1> QED
  BY <1>2, <1>3, <1>4, EndingStep

\* Failed logins, requests that arrive or are refused, reactivation.
LEMMA OtherStep ==
  ASSUME IInv,
         \/ LoginFails \/ Reactivate
         \/ \E a \in access : Arrive(a)
         \/ \E r \in waiting : RefuseChange(r)
  PROVE  IInv'
<1>1. UNCHANGED <<now, roles, authVersion, tokens, access, ended>>
  BY DEF LoginFails, Reactivate, Arrive, RefuseChange, user, lockout
<1>2. LiveFamilies \subseteq Families
  BY DEF LiveFamilies, Families, Live
<1>3. \A r \in waiting' : r.op = "LOGOUT" => r.family \in Families
  <2>1. ASSUME LoginFails \/ Reactivate \/ \E r \in waiting : RefuseChange(r)
        PROVE  waiting' \subseteq waiting
    BY <2>1 DEF LoginFails, Reactivate, RefuseChange
  <2>2. ASSUME NEW a \in access, Arrive(a)
        PROVE  \A r \in waiting' : r \in waiting \/ (r.op = "LOGOUT" => r.family \in Families)
    BY <1>2, <2>2 DEF Arrive
  <2> QED
    BY <2>1, <2>2 DEF IInv, WaitingOK
<1>4. now \in Nat /\ roles \in Nat /\ authVersion \in Nat
  BY DEF IInv, TokensOK
<1>5. VersionsTell'
  BY <1>1 DEF IInv, VersionsTell
<1> QED
  BY <1>1, <1>3, <1>4, <1>5, SessionsLeft

\* Access tokens issued before the roles changed have a version of the past.
LEMMA SetRolesStep ==
  ASSUME IInv, SetRoles
  PROVE  IInv'
<1>1. /\ UNCHANGED <<now, tokens, access, waiting, ended>>
      /\ roles' = roles + 1 /\ authVersion' = authVersion + 1
  BY DEF SetRoles, BumpAuth
<1>2. now \in Nat /\ roles \in Nat /\ authVersion \in Nat /\ \A a \in access : a.version \in Nat
  BY DEF IInv, TokensOK, Access
<1>3. VersionsTell'
  BY <1>1, <1>2 DEF IInv, VersionsTell
<1> QED
  BY <1>1, <1>2, <1>3, SessionsLeft DEF IInv, WaitingOK

\* Time passes.
LEMMA TickStep ==
  ASSUME IInv, Tick
  PROVE  IInv'
<1>1. /\ UNCHANGED <<roles, authVersion, tokens, waiting, ended>>
      /\ now' = now + 1 /\ access' \subseteq access
  BY DEF Tick, user, lockout
<1>2. now \in Nat /\ roles \in Nat /\ authVersion \in Nat
  BY DEF IInv, TokensOK
<1>3. VersionsTell'
  BY <1>1 DEF IInv, VersionsTell
<1> QED
  BY <1>1, <1>2, <1>3, SessionsLeft DEF IInv, WaitingOK

\* logout, and the reuse of a rotated token: one family ends.
LEMMA FamilyEnds ==
  ASSUME IInv, NEW f \in Families,
         tokens' = Revoked(f), ended' = ended \cup {f},
         UNCHANGED <<now, roles, authVersion, access>>, waiting' \subseteq waiting
  PROVE  IInv'
<1>1. tokens \in Seq(Token) /\ \A t \in Ids : tokens[t] \in Token
  BY DEF IInv, TokensOK, Ids
<1>2. \A t \in Ids : tokens[t].family \in ended => tokens[t].revoked
  BY <1>1 DEF IInv, EndedStaysEnded, Live
<1>3. Kept(tokens')
  BY <1>1, RevokedKeeps
<1>4. \A t \in Ids : /\ tokens'[t].replacedBy = tokens[t].replacedBy
                     /\ tokens'[t].revoked <=> tokens[t].revoked \/ tokens[t].family \in ended'
  BY <1>1, <1>2, RevokedKeeps
<1>5. ended \subseteq ended' /\ ended' \subseteq Families
  BY DEF IInv, FamiliesOK
<1>6. VersionsTell'
  BY DEF IInv, VersionsTell
<1>7. now \in Nat /\ roles \in Nat /\ authVersion \in Nat
  BY DEF IInv, TokensOK
<1>8. \A r \in waiting' : r.op = "LOGOUT" => r.family \in Families
  BY DEF IInv, WaitingOK
<1> QED
  BY <1>3, <1>4, <1>5, <1>6, <1>7, <1>8, EndingStep

\* Refused for its age: the token was the live one of its family.
LEMMA RefuseStaleStep ==
  ASSUME IInv, NEW t \in Ids, RefuseStale(t)
  PROVE  IInv'
<1>1. tokens \in Seq(Token) /\ \A s \in Ids : tokens[s] \in Token
  BY DEF IInv, TokensOK, Ids
<1>2. /\ t \in Live /\ tokens' = Refused(t) /\ ended' = ended \cup {tokens[t].family}
      /\ UNCHANGED <<now, roles, authVersion, access, waiting>>
  BY DEF RefuseStale, Refused, user, lockout
<1>3. \A s \in Ids : tokens[s].family \in ended => tokens[s].revoked
  BY <1>1 DEF IInv, EndedStaysEnded, Live
<1>4. \A s \in Ids \ {t} : tokens[s].family = tokens[t].family => tokens[s].revoked
  <2>1. tokens[t].family \in Families \ ended
    BY <1>2 DEF IInv, EndedStaysEnded, Families
  <2>2. PICK u \in Live :
          /\ tokens[u].family = tokens[t].family
          /\ \A s \in Ids \ {u} : tokens[s].family = tokens[t].family => s \notin Live
    BY <2>1 DEF IInv, OneLiveToken
  <2>3. u = t
    BY <1>2, <2>2
  <2> QED
    BY <2>2, <2>3 DEF Live
<1>5. Kept(tokens')
  BY <1>1, <1>2, RefusedKeeps
<1>6. \A s \in Ids : /\ tokens'[s].replacedBy = tokens[s].replacedBy
                     /\ tokens'[s].revoked <=> tokens[s].revoked \/ tokens[s].family \in ended'
  <2>1. \A s \in Ids : /\ Refused(t)[s].revoked <=> tokens[s].revoked \/ s = t
                       /\ Refused(t)[s].replacedBy = tokens[s].replacedBy
    BY <1>1, RefusedKeeps
  <2> QED
    BY <1>2, <1>3, <1>4, <2>1
<1>7. ended \subseteq ended' /\ ended' \subseteq Families
  BY <1>2 DEF IInv, FamiliesOK, Families
<1>8. VersionsTell'
  BY <1>2 DEF IInv, VersionsTell
<1>9. now \in Nat /\ roles \in Nat /\ authVersion \in Nat
  BY DEF IInv, TokensOK
<1>10. \A r \in waiting' : r.op = "LOGOUT" => r.family \in Families
  BY <1>2 DEF IInv, WaitingOK
<1> QED
  BY <1>2, <1>5, <1>6, <1>7, <1>8, <1>9, <1>10, EndingStep

\* Deactivation, and a password reset by an administrator: everything ends.
LEMMA AllEnds ==
  ASSUME IInv, Deactivate \/ ResetPassword
  PROVE  IInv'
<1>1. /\ tokens' = RevokedAll /\ ended' = Families
      /\ authVersion' = authVersion + 1
      /\ UNCHANGED <<now, roles, access, waiting>>
  BY DEF Deactivate, ResetPassword
<1>2. tokens \in Seq(Token) /\ \A t \in Ids : tokens[t] \in Token /\ tokens[t].family \in Families
  BY DEF IInv, TokensOK, Ids, Families
<1>3. Kept(tokens')
  BY <1>1, <1>2, RevokedAllKeeps
<1>4. \A t \in Ids : /\ tokens'[t].replacedBy = tokens[t].replacedBy
                     /\ tokens'[t].revoked <=> tokens[t].revoked \/ tokens[t].family \in ended'
  BY <1>1, <1>2, RevokedAllKeeps
<1>5. ended \subseteq ended' /\ ended' \subseteq Families
  BY <1>1 DEF IInv, FamiliesOK
<1>6. now \in Nat /\ roles \in Nat /\ authVersion \in Nat /\ \A a \in access : a.version \in Nat
  BY DEF IInv, TokensOK, Access
<1>7. VersionsTell'
  BY <1>1, <1>6 DEF IInv, VersionsTell
<1>8. \A r \in waiting' : r.op = "LOGOUT" => r.family \in Families
  BY <1>1 DEF IInv, WaitingOK
<1> QED
  BY <1>1, <1>3, <1>4, <1>5, <1>6, <1>7, <1>8, EndingStep

\* A login begins a session.
LEMMA LoginStep ==
  ASSUME IInv, SessionsAssumption, LoginSucceeds
  PROVE  IInv'
<1> DEFINE n == Len(tokens) + 1
           new == NewToken(n, now + RefreshTime)
           a == [family |-> n, version |-> authVersion, expires |-> now + AccessTime,
                 roles |-> roles]
<1>1. /\ tokens' = Append(tokens, new) /\ access' = access \cup {a}
      /\ UNCHANGED <<now, roles, authVersion, waiting, ended>>
  BY DEF LoginSucceeds, IssueNewFamily, Issue, user
<1>2. /\ tokens \in Seq(Token) /\ \A t \in Ids : tokens[t] \in Token
      /\ n \in Nat \ {0} /\ n \notin Ids
      /\ now \in Nat /\ roles \in Nat /\ authVersion \in Nat /\ access \subseteq Access
      /\ RefreshTime \in Nat \ {0} /\ AccessTime \in Nat \ {0}
  BY DEF IInv, TokensOK, SessionsAssumption, Ids
<1>3. /\ new \in Token /\ new.family = n /\ new.used = now /\ new.expires = now + RefreshTime
      /\ ~new.revoked /\ new.replacedBy = None
  BY <1>2 DEF NewToken, Token, None
<1>4. /\ a \in Access /\ a.family = n /\ a.expires = now + AccessTime
      /\ a.version = authVersion /\ a.roles = roles
  BY <1>2 DEF Access
<1> HIDE DEF new, a
<1>5. Kept(tokens)
  BY <1>2 DEF Kept
<1>6. /\ tokens' \in Seq(Token) /\ Ids' = Ids \cup {n} /\ tokens'[n] = new
      /\ \A t \in Ids : tokens'[t] = tokens[t]
  BY <1>1, <1>2, <1>3, <1>5, AppendedToken
<1>7. \A t \in Ids : tokens'[t].revoked <=> tokens[t].revoked \/ tokens[t].family \in ended'
  BY <1>1, <1>2, <1>6 DEF IInv, EndedStaysEnded, Live, Token
<1>8. VersionsTell'
  BY <1>1, <1>2, <1>4 DEF IInv, VersionsTell
<1>9. /\ access' \subseteq Access
      /\ \A b \in access' : b \in access \/ (b.family = n /\ b.expires = now + AccessTime)
  BY <1>1, <1>2, <1>4
<1>10. ended' \subseteq Families
  BY <1>1 DEF IInv, FamiliesOK
<1> HIDE DEF n
<1> QED
  BY <1>1, <1>2, <1>3, <1>6, <1>7, <1>8, <1>9, <1>10, BeginningStep DEF None

\* A new password ends all sessions and begins one.
LEMMA ChangePasswordStep ==
  ASSUME IInv, SessionsAssumption, NEW r \in waiting, ChangePassword(r)
  PROVE  IInv'
<1> DEFINE n == Len(tokens) + 1
           new == NewToken(n, now + RefreshTime)
           a == [family |-> n, version |-> authVersion + 1, expires |-> now + AccessTime,
                 roles |-> roles]
<1>1. /\ tokens' = Append(RevokedAll, new) /\ access' = access \cup {a}
      /\ ended' = Families /\ authVersion' = authVersion + 1
      /\ UNCHANGED <<now, roles>> /\ waiting' \subseteq waiting
  BY DEF ChangePassword, IssueNewFamily, Issue
<1>2. /\ tokens \in Seq(Token)
      /\ \A t \in Ids : tokens[t] \in Token /\ tokens[t].family \in Families
      /\ n \in Nat \ {0} /\ n \notin Ids
      /\ now \in Nat /\ roles \in Nat /\ authVersion \in Nat
      /\ access \subseteq Access /\ \A b \in access : b.version \in Nat
      /\ RefreshTime \in Nat \ {0} /\ AccessTime \in Nat \ {0}
  BY DEF IInv, TokensOK, SessionsAssumption, Ids, Families, Access
<1>3. /\ new \in Token /\ new.family = n /\ new.used = now /\ new.expires = now + RefreshTime
      /\ ~new.revoked /\ new.replacedBy = None
  BY <1>2 DEF NewToken, Token, None
<1>4. /\ a \in Access /\ a.family = n /\ a.expires = now + AccessTime
      /\ a.version = authVersion' /\ a.roles = roles
  BY <1>1, <1>2 DEF Access
<1> HIDE DEF new, a
<1>5. /\ Kept(RevokedAll)
      /\ \A t \in Ids : /\ RevokedAll[t].revoked
                        /\ RevokedAll[t].replacedBy = tokens[t].replacedBy
  BY <1>2, RevokedAllKeeps
<1>6. /\ tokens' \in Seq(Token) /\ Ids' = Ids \cup {n} /\ tokens'[n] = new
      /\ \A t \in Ids : /\ tokens'[t] = RevokedAll[t]
                        /\ tokens'[t].family = tokens[t].family
                        /\ tokens'[t].used = tokens[t].used
                        /\ tokens'[t].expires = tokens[t].expires
  BY <1>1, <1>2, <1>3, <1>5, AppendedToken
<1>7. \A t \in Ids : /\ tokens'[t].replacedBy = tokens[t].replacedBy
                     /\ tokens'[t].revoked <=> tokens[t].revoked \/ tokens[t].family \in ended'
  BY <1>1, <1>2, <1>5, <1>6
<1>8. VersionsTell'
  BY <1>1, <1>2, <1>4 DEF IInv, VersionsTell
<1>9. /\ access' \subseteq Access
      /\ \A b \in access' : b \in access \/ (b.family = n /\ b.expires = now + AccessTime)
  BY <1>1, <1>2, <1>4
<1>10. ended \subseteq ended' /\ ended' \subseteq Families /\ authVersion' \in Nat
  BY <1>1, <1>2 DEF IInv, FamiliesOK
<1> HIDE DEF n
<1> QED
  BY <1>1, <1>2, <1>3, <1>6, <1>7, <1>8, <1>9, <1>10, BeginningStep DEF None

\* Rotation continues a session that neither rested too long nor is over.
LEMMA RotateStep ==
  ASSUME IInv, SessionsAssumption, NEW t \in Ids, Rotate(t)
  PROVE  IInv'
<1> DEFINE n == Len(tokens) + 1
           new == NewToken(tokens[t].family, tokens[t].expires)
           a == [family |-> tokens[t].family, version |-> authVersion,
                 expires |-> now + AccessTime, roles |-> roles]
<1>1. /\ tokens' = Append(Rotated(t), new) /\ access' = access \cup {a}
      /\ UNCHANGED <<now, roles, authVersion, waiting, ended>>
      /\ t \in Live /\ ~Stale(t)
  BY DEF Rotate, Issue, Expiry, user
<1>2. /\ tokens \in Seq(Token) /\ \A s \in Ids : tokens[s] \in Token
      /\ n \in Nat /\ n \notin Ids /\ \A s \in Ids : s \in Nat \ {0} /\ s < n
      /\ now \in Nat /\ roles \in Nat /\ authVersion \in Nat /\ access \subseteq Access
      /\ IdleTimeout \in Nat /\ AccessTime \in Nat \ {0}
  BY DEF IInv, TokensOK, SessionsAssumption, Ids
<1>3. tokens[t].family \in Nat \ {0} /\ tokens[t].expires \in Nat /\ tokens[t].used \in Nat
  BY <1>2 DEF Token
<1>4. now < tokens[t].expires /\ now - tokens[t].used <= IdleTimeout
  BY <1>1, <1>2, <1>3 DEF Stale
<1>5. /\ new \in Token /\ new.family = tokens[t].family /\ new.used = now
      /\ new.expires = tokens[t].expires /\ ~new.revoked /\ new.replacedBy = None
  BY <1>2, <1>3 DEF NewToken, Token, None
<1>6. /\ a \in Access /\ a.family = tokens[t].family /\ a.expires = now + AccessTime
      /\ a.version = authVersion /\ a.roles = roles
  BY <1>2, <1>3 DEF Access
<1> HIDE DEF new, a
<1>7. /\ Kept(Rotated(t)) /\ Rotated(t)[t].replacedBy = n
      /\ \A s \in Ids : /\ Rotated(t)[s].revoked <=> tokens[s].revoked \/ s = t
                        /\ s # t => Rotated(t)[s].replacedBy = tokens[s].replacedBy
  BY <1>2, RotatedKeeps
<1>8. /\ tokens' \in Seq(Token) /\ Ids' = Ids \cup {n} /\ tokens'[n] = new
      /\ \A s \in Ids : /\ tokens'[s] = Rotated(t)[s]
                        /\ tokens'[s].family = tokens[s].family
                        /\ tokens'[s].used = tokens[s].used
                        /\ tokens'[s].expires = tokens[s].expires
  BY <1>1, <1>2, <1>5, <1>7, AppendedToken
<1>9. /\ tokens'[t].replacedBy = n
      /\ \A s \in Ids : /\ s # t => tokens'[s].replacedBy = tokens[s].replacedBy
                        /\ tokens'[s].revoked <=> tokens[s].revoked \/ s = t
  BY <1>7, <1>8
<1>10. VersionsTell'
  BY <1>1, <1>2, <1>6 DEF IInv, VersionsTell
<1>11. /\ access' \subseteq Access
       /\ \A b \in access' : b \in access \/
            (b.family = tokens[t].family /\ b.expires = now + AccessTime)
  BY <1>1, <1>2, <1>6
<1>12. /\ tokens'[n].family = tokens[t].family /\ tokens'[n].used = now
       /\ tokens'[n].replacedBy = None /\ tokens'[n].expires = tokens[t].expires
       /\ ~tokens'[n].revoked
  BY <1>5, <1>8
<1>13. /\ ended' = ended /\ now' = now /\ roles' \in Nat /\ authVersion' \in Nat
       /\ waiting' \subseteq waiting
  BY <1>1, <1>2
<1>14. \A s \in Ids : /\ tokens'[s].family = tokens[s].family
                      /\ tokens'[s].used = tokens[s].used
                      /\ tokens'[s].expires = tokens[s].expires
                      /\ s # t => tokens'[s].replacedBy = tokens[s].replacedBy
                      /\ tokens'[s].revoked <=> tokens[s].revoked \/ s = t
  BY <1>8, <1>9
<1> HIDE DEF n
<1>15. /\ t \in Live /\ n \notin Ids /\ n \in Nat /\ AccessTime \in Nat \ {0}
       /\ \A s \in Ids : s \in Nat \ {0} /\ s < n
       /\ tokens' \in Seq(Token) /\ Ids' = Ids \cup {n} /\ tokens'[t].replacedBy = n
  BY <1>1, <1>2, <1>8, <1>9
<1> QED
  BY <1>4, <1>10, <1>11, <1>12, <1>13, <1>14, <1>15, RotationStep

-----------------------------------------------------------------------------
(* The theorems.                                                           *)

\* The invariant holds of an account nobody has used.
LEMMA InitInvariant == Init => IInv
BY DEF Init, IInv, TokensOK, FamiliesOK, VersionsTell, WaitingOK, EndedStaysEnded, OneLiveToken,
       SessionsAreBounded, Ids, Families, Live

\* Every step keeps the invariant.
LEMMA StepInvariant == IInv /\ [Next]_vars => IInv'
<1> SUFFICES ASSUME IInv, [Next]_vars
             PROVE  IInv'
  OBVIOUS
<1>1. CASE LoginFails \/ Reactivate \/ (\E a \in access : Arrive(a))
  BY <1>1, OtherStep
<1>2. CASE LoginSucceeds
  BY <1>2, LoginStep, SessionsAssumption
<1>3. ASSUME NEW t \in Ids, Rotate(t)
      PROVE  IInv'
  BY <1>3, RotateStep, SessionsAssumption
<1>4. ASSUME NEW t \in Ids, RefuseStale(t)
      PROVE  IInv'
  BY <1>4, RefuseStaleStep
<1>5. ASSUME NEW t \in Ids, DetectReuse(t)
      PROVE  IInv'
  <2>1. /\ tokens[t].family \in Families
        /\ tokens' = Revoked(tokens[t].family) /\ ended' = ended \cup {tokens[t].family}
        /\ UNCHANGED <<now, roles, authVersion, access, waiting>>
    BY <1>5 DEF DetectReuse, Families, user, lockout
  <2> QED
    BY <2>1, FamilyEnds
<1>6. ASSUME NEW r \in waiting, Logout(r)
      PROVE  IInv'
  <2>1. /\ r.family \in Families
        /\ tokens' = Revoked(r.family) /\ ended' = ended \cup {r.family}
        /\ UNCHANGED <<now, roles, authVersion, access>> /\ waiting' \subseteq waiting
    BY <1>6 DEF Logout, IInv, WaitingOK, user, lockout
  <2> QED
    BY <2>1, FamilyEnds
<1>7. ASSUME NEW r \in waiting, ChangePassword(r)
      PROVE  IInv'
  BY <1>7, ChangePasswordStep, SessionsAssumption
<1>8. ASSUME NEW r \in waiting, RefuseChange(r)
      PROVE  IInv'
  BY <1>8, OtherStep
<1>9. CASE SetRoles
  BY <1>9, SetRolesStep
<1>10. CASE Deactivate \/ ResetPassword
  BY <1>10, AllEnds
<1>11. CASE Tick
  BY <1>11, TickStep
<1>12. CASE UNCHANGED vars
  <2>1. UNCHANGED <<now, roles, authVersion, tokens, access, waiting, ended>>
    BY <1>12 DEF vars, user
  <2>2. VersionsTell'
    BY <2>1 DEF IInv, VersionsTell
  <2>3. now \in Nat /\ roles \in Nat /\ authVersion \in Nat
    BY DEF IInv, TokensOK
  <2> QED
    BY <2>1, <2>2, <2>3, SessionsLeft DEF IInv, WaitingOK
<1> QED
  BY <1>1, <1>2, <1>3, <1>4, <1>5, <1>6, <1>7, <1>8, <1>9, <1>10, <1>11, <1>12 DEF Next

\* The invariant holds in every state of the sessions.
LEMMA Invariant == Spec => []IInv
BY InitInvariant, StepInvariant, PTL DEF Spec

\* logout, reuse, age, deactivation, a new password: what they ended stays ended.
THEOREM EndedForGood == Spec => []EndedStaysEnded
<1>1. IInv => EndedStaysEnded
  BY DEF IInv
<1> QED
  BY <1>1, Invariant, PTL

\* get_principal admits no access token of an ended session or of former roles.
THEOREM OnlyCurrentAdmitted == Spec => []AdmittedIsCurrent
<1>1. IInv => AdmittedIsCurrent
  BY DEF IInv, AdmittedIsCurrent, Admitted, VersionsTell, EndedStaysEnded, LiveFamilies
<1> QED
  BY <1>1, Invariant, PTL

\* refresh: a session that nothing ended has exactly one token that is good.
THEOREM OneTokenLives == Spec => []OneLiveToken
<1>1. IInv => OneLiveToken
  BY DEF IInv
<1> QED
  BY <1>1, Invariant, PTL

\* refresh: no rotation makes a session longer, none wakes one that rested.
THEOREM SessionsEnd == Spec => []SessionsAreBounded
<1>1. IInv => SessionsAreBounded
  BY DEF IInv
<1> QED
  BY <1>1, Invariant, PTL

-----------------------------------------------------------------------------
(* Guesses of the password.                                                *)

\* The time the account is locked by the failures up to the n-th in a row.
LockedBy(n) == SumFunctionOnSet([k \in Nat |-> LockFor(k)], MaxFailedLogins .. n)

\* Every lockout there was is over, but perhaps the last.
GuessesInv ==
  /\ now \in Nat /\ failed \in Nat /\ lockedUntil \in 0 .. now + Doubled[Doublings]
  /\ LockedBy(failed - 1) <= now
  /\ LocksAt(failed) => LockedBy(failed) <= lockedUntil

\* What Doubled is meant to be, of the numbers of D.
IsDoubled(t, D) == t = [k \in D |-> IF k = 0 THEN LockTime ELSE 2 * t[k - 1]]

LEMMA LeastNumber ==
  ASSUME NEW B, B \subseteq Nat, B # {}
  PROVE  \E m \in B : \A x \in B : m <= x
<1>1. PICK m \in B : \A x \in B : ~(<<x, m>> \in OpToRel(<, Nat))
  BY NatLessThanWellFounded, WFMin
<1>2. \A x \in B : ~(x < m)
  BY <1>1 DEF OpToRel
<1> QED
  BY <1>2

\* There is such a table up to every number.
LEMMA TablesOfDoubled ==
  ASSUME NEW n \in Nat
  PROVE  \E t : IsDoubled(t, 0 .. n)
<1> DEFINE Bad == {k \in Nat : ~\E t : IsDoubled(t, 0 .. k)}
<1> SUFFICES ASSUME Bad # {} PROVE FALSE
  OBVIOUS
<1>1. PICK m \in Bad : \A x \in Bad : m <= x
  BY LeastNumber
<1>2. m # 0
  <2>1. IsDoubled([k \in 0 .. 0 |-> LockTime], 0 .. 0)
    BY DEF IsDoubled
  <2> QED
    BY <1>1, <2>1
<1>3. PICK t : IsDoubled(t, 0 .. m - 1)
  BY <1>1, <1>2
<1> DEFINE u == [k \in 0 .. m |-> IF k = m THEN 2 * t[m - 1] ELSE t[k]]
<1>4. m \in Nat \ {0} /\ \A k \in 0 .. m - 1 : t[k] = IF k = 0 THEN LockTime ELSE 2 * t[k - 1]
  BY <1>1, <1>2, <1>3 DEF IsDoubled
<1>5. \A k \in 0 .. m : u[k] = IF k = 0 THEN LockTime ELSE 2 * u[k - 1]
  BY <1>4
<1>6. IsDoubled(u, 0 .. m)
  BY <1>5 DEF IsDoubled
<1> QED
  BY <1>1, <1>6

\* And only one.
LEMMA TablesAgree ==
  ASSUME NEW m \in Nat, NEW n \in Nat, NEW t, NEW u,
         IsDoubled(t, 0 .. m), IsDoubled(u, 0 .. n),
         NEW k \in Nat, k <= m, k <= n
  PROVE  t[k] = u[k]
<1> DEFINE Bad == {x \in Nat : x <= m /\ x <= n /\ t[x] # u[x]}
<1> SUFFICES ASSUME Bad # {} PROVE FALSE
  OBVIOUS
<1>1. PICK x \in Bad : \A y \in Bad : x <= y
  BY LeastNumber
<1>2. /\ \A y \in 0 .. m : t[y] = IF y = 0 THEN LockTime ELSE 2 * t[y - 1]
      /\ \A y \in 0 .. n : u[y] = IF y = 0 THEN LockTime ELSE 2 * u[y - 1]
  BY DEF IsDoubled
<1>3. x # 0
  BY <1>1, <1>2
<1>4. t[x - 1] = u[x - 1]
  BY <1>1, <1>3
<1> QED
  BY <1>1, <1>2, <1>3, <1>4

\* The definition of Doubled has a solution: the tables' last entries.
LEMMA DoubledIs ==
  \A k \in Nat : Doubled[k] = IF k = 0 THEN LockTime ELSE 2 * Doubled[k - 1]
<1> DEFINE T(n) == CHOOSE t : IsDoubled(t, 0 .. n)
           f == [n \in Nat |-> T(n)[n]]
<1>1. \A n \in Nat : IsDoubled(T(n), 0 .. n)
  BY TablesOfDoubled
<1> HIDE DEF T
<1>2. ASSUME NEW n \in Nat
      PROVE  f[n] = IF n = 0 THEN LockTime ELSE 2 * f[n - 1]
  <2>1. T(n)[n] = IF n = 0 THEN LockTime ELSE 2 * T(n)[n - 1]
    BY <1>1 DEF IsDoubled
  <2>2. CASE n # 0
    <3>1. n - 1 \in Nat
      BY <2>2
    <3>2. T(n)[n - 1] = T(n - 1)[n - 1]
      BY <1>1, <3>1, TablesAgree
    <3> QED
      BY <2>1, <2>2, <3>1, <3>2
  <2> QED
    BY <2>1, <2>2
<1>3. IsDoubled(f, Nat)
  BY <1>2 DEF IsDoubled
<1> HIDE DEF f
<1>4. IsDoubled(Doubled, Nat)
  BY <1>3 DEF Doubled, IsDoubled
<1> QED
  BY <1>4 DEF IsDoubled

LEMMA DoubledType ==
  /\ \A k \in Nat : Doubled[k] \in Nat
  /\ \A j, k \in Nat : j <= k => Doubled[j] <= Doubled[k]
<1>1. \A k \in Nat : Doubled[k] \in Nat
  <2> DEFINE Bad == {k \in Nat : Doubled[k] \notin Nat}
  <2> SUFFICES ASSUME Bad # {} PROVE FALSE
    OBVIOUS
  <2>1. PICK m \in Bad : \A x \in Bad : m <= x
    BY LeastNumber
  <2>2. m # 0
    BY <2>1, DoubledIs, SessionsAssumption
  <2>3. m - 1 \in Nat /\ m - 1 \notin Bad
    BY <2>1, <2>2
  <2>4. Doubled[m] = 2 * Doubled[m - 1]
    BY <2>1, <2>2, DoubledIs
  <2> QED
    BY <2>1, <2>3, <2>4
<1>2. ASSUME NEW j \in Nat
      PROVE  \A k \in Nat : j <= k => Doubled[j] <= Doubled[k]
  <2> DEFINE Bad == {k \in Nat : j <= k /\ ~(Doubled[j] <= Doubled[k])}
  <2> SUFFICES ASSUME Bad # {} PROVE FALSE
    OBVIOUS
  <2>1. PICK m \in Bad : \A x \in Bad : m <= x
    BY LeastNumber
  <2>2. m # j
    BY <1>1, <2>1
  <2>3. m - 1 \in Nat /\ j <= m - 1 /\ m - 1 \notin Bad
    BY <2>1, <2>2
  <2>4. Doubled[m] = 2 * Doubled[m - 1]
    BY <2>1, <2>3, DoubledIs
  <2> QED
    BY <1>1, <2>1, <2>3, <2>4
<1> QED
  BY <1>1, <1>2

\* A lockout is no longer than the longest.
LEMMA LockForType ==
  ASSUME NEW n \in Nat, LocksAt(n)
  PROVE  LockFor(n) \in 0 .. Doubled[Doublings]
<1> DEFINE k == (n - MaxFailedLogins) \div MaxFailedLogins
           e == Min({k, Doublings})
<1>1. k \in Nat /\ Doublings \in Nat
  BY SessionsAssumption DEF LocksAt
<1> HIDE DEF k
<1>2. \E m \in {k, Doublings} : \A x \in {k, Doublings} : m <= x
  <2>1. k <= Doublings \/ Doublings <= k
    BY <1>1
  <2> QED
    BY <1>1, <2>1
<1>3. e \in {k, Doublings} /\ e <= Doublings
  BY <1>2 DEF Min
<1>4. e \in Nat
  BY <1>1, <1>3
<1> HIDE DEF e
<1>5. Doubled[e] \in Nat /\ Doubled[Doublings] \in Nat /\ Doubled[e] <= Doubled[Doublings]
  BY <1>1, <1>3, <1>4, DoubledType
<1>6. LockFor(n) = Doubled[e]
  BY DEF LockFor, e, k
<1> QED
  BY <1>5, <1>6

\* Before the limit there are no lockouts.
LEMMA NothingLockedBy ==
  ASSUME NEW n \in Int, n < MaxFailedLogins
  PROVE  LockedBy(n) = 0
<1>1. MaxFailedLogins .. n = {}
  BY SessionsAssumption
<1> QED
  BY <1>1, SumEmpty DEF LockedBy

\* The n-th failure adds its own.
LEMMA LockedByOneMore ==
  ASSUME NEW n \in Nat, LocksAt(n)
  PROVE  /\ LockedBy(n - 1) \in Int /\ LockFor(n) \in Int
         /\ LockedBy(n) = LockedBy(n - 1) + LockFor(n)
<1> DEFINE f == [k \in Nat |-> LockFor(k)]
           S == MaxFailedLogins .. n - 1
<1>1. IsFiniteSet(S) /\ n \notin S /\ MaxFailedLogins .. n = S \cup {n}
  BY SessionsAssumption, FS_Interval DEF LocksAt
<1>2. \A y \in S \cup {n} : y \in Nat /\ LocksAt(y)
  BY SessionsAssumption DEF LocksAt
<1>3. \A y \in S \cup {n} : f[y] = LockFor(y) /\ LockFor(y) \in Int
  BY <1>2, LockForType
<1> HIDE DEF f, S
<1>4. \A y \in S : f[y] \in Int
  BY <1>3
<1>5. f[n] \in Int /\ f[n] = LockFor(n)
  BY <1>3
<1>6. SumFunctionOnSet(f, S \cup {n}) = SumFunctionOnSet(f, S) + f[n]
  BY <1>1, <1>4, <1>5, SumPutIn
<1>7. SumFunctionOnSet(f, S) \in Int
  BY <1>1, <1>4, SumType
<1>8. LockedBy(n - 1) = SumFunctionOnSet(f, S) /\ LockedBy(n) = SumFunctionOnSet(f, S \cup {n})
  BY <1>1 DEF LockedBy, f, S
<1> QED
  BY <1>5, <1>6, <1>7, <1>8

\* A guess is taken when the last lockout is over.
LEMMA FailedGuess ==
  ASSUME GuessesInv, LoginFails
  PROVE  GuessesInv'
<1> DEFINE n == failed + 1
<1>1. /\ n \in Nat /\ failed' = n /\ now' = now /\ now \in Nat /\ lockedUntil <= now
      /\ lockedUntil' = IF LocksAt(n) THEN now + LockFor(n) ELSE lockedUntil
      /\ lockedUntil \in Int
  BY DEF GuessesInv, LoginFails, Locked
<1>2. LockedBy(n - 1) <= now
  <2>1. CASE LocksAt(failed)
    <3>1. LockedBy(failed) <= lockedUntil /\ failed \in Nat
      BY <2>1 DEF GuessesInv
    <3>2. LockedBy(failed) \in Int
      BY <2>1, <3>1, LockedByOneMore
    <3>3. n - 1 = failed
      BY <3>1
    <3> QED
      BY <1>1, <3>1, <3>2, <3>3
  <2>2. CASE ~LocksAt(failed)
    <3>1. n - 1 \in Int /\ n - 1 < MaxFailedLogins
      BY <2>2, SessionsAssumption DEF LocksAt, GuessesInv
    <3> QED
      BY <1>1, <3>1, NothingLockedBy
  <2> QED
    BY <2>1, <2>2
<1>3. LocksAt(n) => LockFor(n) \in Int /\ LockedBy(n) <= now + LockFor(n)
  <2> SUFFICES ASSUME LocksAt(n) PROVE LockFor(n) \in Int /\ LockedBy(n) <= now + LockFor(n)
    OBVIOUS
  <2>1. LockedBy(n - 1) \in Int /\ LockFor(n) \in Int /\ LockedBy(n) = LockedBy(n - 1) + LockFor(n)
    BY <1>1, LockedByOneMore
  <2> QED
    BY <1>1, <1>2, <2>1
<1> HIDE DEF n
<1>4. lockedUntil' \in 0 .. now' + Doubled[Doublings]
  <2>1. now \in Nat /\ lockedUntil \in 0 .. now + Doubled[Doublings] /\ Doubled[Doublings] \in Nat
    BY DoubledType, SessionsAssumption DEF GuessesInv
  <2> QED
    BY <1>1, <2>1, LockForType
<1>5. LockedBy(failed' - 1) <= now'
  BY <1>1, <1>2
<1>6. LocksAt(failed') => LockedBy(failed') <= lockedUntil'
  BY <1>1, <1>3
<1> QED
  BY <1>1, <1>4, <1>5, <1>6 DEF GuessesInv, LockedBy, LocksAt

\* Without failures there is nothing to wait for.
LEMMA NoFailures ==
  /\ Init => GuessesInv
  /\ GuessesInv /\ now' = now /\ failed' = 0 /\ lockedUntil' = 0 => GuessesInv'
<1>1. LockedBy(0 - 1) = 0 /\ ~LocksAt(0)
  BY SessionsAssumption, NothingLockedBy DEF LocksAt
<1>2. Doubled[Doublings] \in Nat
  BY DoubledType, SessionsAssumption
<1>3. 0 \in Nat /\ now \in Nat => 0 \in 0 .. now + Doubled[Doublings]
  BY <1>2
<1> QED
  BY <1>1, <1>3 DEF GuessesInv, Init, LockedBy, LocksAt

\* Whatever leaves the failures alone lets time pass at most.
LEMMA GuessesLeft ==
  ASSUME GuessesInv, UNCHANGED lockout, now' \in {now, now + 1}
  PROVE  GuessesInv'
<1>1. now' \in Nat /\ now <= now'
  BY DEF GuessesInv
<1>2. failed' = failed /\ lockedUntil' = lockedUntil
  BY DEF lockout
<1>3. LockedBy(failed - 1) \in Int
  <2>1. CASE LocksAt(failed)
    BY <2>1, LockedByOneMore DEF GuessesInv
  <2>2. CASE ~LocksAt(failed)
    <3>1. failed - 1 \in Int /\ failed - 1 < MaxFailedLogins
      BY <2>2, SessionsAssumption DEF LocksAt, GuessesInv
    <3> QED
      BY <3>1, NothingLockedBy
  <2> QED
    BY <2>1, <2>2
<1>4. LockedBy(failed - 1) <= now'
  BY <1>1, <1>3 DEF GuessesInv
<1>5. lockedUntil \in 0 .. now' + Doubled[Doublings]
  BY <1>1, DoubledType, SessionsAssumption DEF GuessesInv
<1> QED
  BY <1>1, <1>2, <1>4, <1>5 DEF GuessesInv, LockedBy, LocksAt

LEMMA GuessesStep == GuessesInv /\ [Next]_vars => GuessesInv'
<1> SUFFICES ASSUME GuessesInv, [Next]_vars PROVE GuessesInv'
  OBVIOUS
<1>1. CASE LoginFails
  BY <1>1, FailedGuess
<1>2. CASE LoginSucceeds \/ ResetPassword
  BY <1>2, NoFailures DEF LoginSucceeds, ResetPassword
<1>3. CASE Tick
  BY <1>3, GuessesLeft DEF Tick
<1>4. CASE \E t \in Ids : Rotate(t) \/ RefuseStale(t) \/ DetectReuse(t)
  BY <1>4, GuessesLeft DEF Rotate, RefuseStale, DetectReuse
<1>5. CASE \E a \in access : Arrive(a)
  BY <1>5, GuessesLeft DEF Arrive
<1>6. CASE \E r \in waiting : Logout(r) \/ ChangePassword(r) \/ RefuseChange(r)
  BY <1>6, GuessesLeft DEF Logout, ChangePassword, RefuseChange
<1>7. CASE SetRoles \/ Deactivate \/ Reactivate
  BY <1>7, GuessesLeft DEF SetRoles, Deactivate, Reactivate
<1>8. CASE UNCHANGED vars
  BY <1>8, GuessesLeft DEF vars
<1> QED
  BY <1>1, <1>2, <1>3, <1>4, <1>5, <1>6, <1>7, <1>8 DEF Next

\* Guesses of the password take the time of all the lockouts between them, for any
\* limit, lockout and number of failures: a guess is looked at only when the
\* account is not locked, and it sets the next lockout (auth/service.py, login).
THEOREM GuessingTakesTime == Spec => []GuessesAreSlowed
<1>1. Init => GuessesInv
  BY NoFailures
<1>2. GuessesInv => GuessesAreSlowed
  BY DEF GuessesInv, GuessesAreSlowed, LockedBy
<1> QED
  BY <1>1, <1>2, GuessesStep, PTL DEF Spec

-----------------------------------------------------------------------------
(* The types.                                                              *)

\* The rest of the types: the account, and what waits.
AccountOK ==
  /\ active \in BOOLEAN /\ password \in Nat /\ changes \in Nat
  /\ waiting \subseteq Request

\* Families are numbers.
LEMMA FamiliesAreNumbers ==
  ASSUME IInv
  PROVE  \A f \in Families : f \in Nat
<1>1. tokens \in Seq(Token) /\ Len(tokens) \in Nat
  BY DEF IInv, TokensOK
<1>2. \A t \in Ids : tokens[t] \in Token
  BY <1>1 DEF Ids
<1> QED
  BY <1>2 DEF Families, Token

LEMMA AccountStep ==
  ASSUME AccountOK, IInv, [Next]_vars
  PROVE  AccountOK'
<1>1. CASE UNCHANGED vars \/ LoginFails \/ LoginSucceeds \/ Tick
  BY <1>1 DEF AccountOK, vars, user, LoginFails, LoginSucceeds, Tick
<1>2. CASE \E t \in Ids : Rotate(t) \/ RefuseStale(t) \/ DetectReuse(t)
  BY <1>2 DEF AccountOK, user, Rotate, RefuseStale, DetectReuse
<1>3. ASSUME NEW a \in access, Arrive(a)
      PROVE  AccountOK'
  <2>1. LiveFamilies \subseteq Families
    BY DEF LiveFamilies, Families, Live
  <2>2. PICK r : /\ waiting' = waiting \cup {r}
                 /\ \/ r = [op |-> "CHANGE_PASSWORD", family |-> None, current |-> password]
                    \/ \E f \in Families : r = [op |-> "LOGOUT", family |-> f, current |-> None]
    BY <1>3, <2>1 DEF Arrive
  <2>3. r \in Request
    BY <2>2, FamiliesAreNumbers DEF AccountOK, Request, None
  <2> QED
    BY <1>3, <2>2, <2>3 DEF AccountOK, Arrive, user
<1>4. CASE \E r \in waiting : Logout(r) \/ ChangePassword(r) \/ RefuseChange(r)
  BY <1>4 DEF AccountOK, user, Logout, ChangePassword, RefuseChange
<1>5. CASE SetRoles \/ Deactivate \/ Reactivate \/ ResetPassword
  <2>1. active' \in BOOLEAN
    BY <1>5 DEF AccountOK, SetRoles, Deactivate, Reactivate, ResetPassword
  <2>2. password' \in Nat /\ changes' \in Nat /\ waiting' = waiting
    BY <1>5 DEF AccountOK, SetRoles, Deactivate, Reactivate, ResetPassword, Change
  <2> QED
    BY <2>1, <2>2 DEF AccountOK
<1> QED
  BY <1>1, <1>2, <1>3, <1>4, <1>5 DEF Next

\* The types, and with them that no lockout is longer than the longest.
THEOREM SessionsTypes == Spec => []TypeOK
<1>1. Init => AccountOK /\ GuessesInv
  BY NoFailures DEF Init, AccountOK
<1>2. IInv /\ AccountOK /\ GuessesInv => TypeOK
  BY DEF IInv, TokensOK, FamiliesOK, AccountOK, GuessesInv, TypeOK
<1> QED
  BY <1>1, <1>2, Invariant, AccountStep, GuessesStep, PTL DEF Spec

-----------------------------------------------------------------------------
(* The tab and its server behave as the sessions do.                       *)

\* What the server does for one call.
LEMMA ServeIsSessionStep ==
  ASSUME NEW s \in Slots, Serve(s)
  PROVE  [Next]_vars
<1>1. CASE ServeQuery(s) \/ (ServeWaiting(s) /\ UNCHANGED vars)
  BY <1>1 DEF ServeQuery
<1>2. CASE ServeLogin(s)
  BY <1>2 DEF ServeLogin, Next
<1>3. CASE ServeCommand(s)
  BY <1>3 DEF ServeCommand, Allowed, Next
<1>4. CASE ServeWaiting(s)
  BY <1>4 DEF ServeWaiting, Next
<1> QED
  BY <1>1, <1>2, <1>3, <1>4 DEF Serve

\* Every step of the tab is one of the sessions, or leaves them alone.
LEMMA ClientStepIsSessionStep ==
  ASSUME [ClientNext]_clientVars
  PROVE  [Next]_vars
<1>1. CASE ServeRefresh
  <2>1. (\E t \in Ids : Rotate(t) \/ RefuseStale(t) \/ DetectReuse(t)) \/ UNCHANGED vars
    BY <1>1 DEF ServeRefresh, Live
  <2> QED
    BY <2>1 DEF Next
<1>2. ASSUME NEW s \in Slots, Serve(s)
      PROVE  [Next]_vars
  BY <1>2, ServeIsSessionStep
<1>3. ASSUME NEW s \in Slots, Receive(s) \/ Lose(s)
      PROVE  UNCHANGED vars
  BY <1>3 DEF Receive, ReceiveAnswer, ReceiveDenied, Fail, Lose
<1>4. CASE AskLogin \/ AskPage \/ AskLogout \/ AskPassword
  BY <1>4 DEF AskLogin, AskPage, AskLogout, AskPassword, Ask
<1>5. CASE ReceiveRefresh \/ LoseRefresh \/ LoadAnew
  BY <1>5 DEF ReceiveRefresh, LoseRefresh, LoadAnew
<1>6. CASE Elsewhere
  BY <1>6 DEF Elsewhere, Next
<1>7. CASE UNCHANGED clientVars
  BY <1>7 DEF clientVars
<1> QED
  BY <1>1, <1>2, <1>3, <1>4, <1>5, <1>6, <1>7 DEF ClientNext

\* The tab, its cookie and what the server does for them implement the sessions.
THEOREM ClientImplementsSessions == ClientSpec => Spec
<1>1. ClientInit => Init
  BY DEF ClientInit
<1>2. [ClientNext]_clientVars => [Next]_vars
  BY ClientStepIsSessionStep
<1> QED
  BY <1>1, <1>2, PTL DEF ClientSpec, Spec

\* What the sessions promise holds for the tab: the sessions' invariant.
LEMMA SessionsInvariant == ClientSpec => []IInv
BY ClientImplementsSessions, Invariant, PTL

-----------------------------------------------------------------------------
(* A refresh token is used once.                                           *)

\* The tokens not exchanged for another one.
Unspent == {c \in Ids : tokens[c].replacedBy = None}

\* Answers with a new session on their way.
OnWay == {s \in Slots : call[s].phase = "OK" /\ call[s].op \in {"LOGIN", "PASSWORD"}}

\* The refresh tokens the tab has.
Held == {cookie, refreshing.sent, refreshing.got.cookie}

TabOK ==
  /\ DOMAIN call = Slots
  /\ \A s \in Slots : DOMAIN call[s] = DOMAIN Idle
  /\ \A s \in Slots : call[s].phase = "WAITING" /\ call[s].got.op = "LOGOUT" =>
                       call[s].op = "LOGOUT"
  /\ DOMAIN refreshing = DOMAIN NotRefreshing
  /\ refreshing.got # Nothing => refreshing.phase = "ANSWER"
  /\ excused \in BOOLEAN

\* What is sent next was not exchanged: the cookie, unless its successor is on the
\* way; and no token is in two places.
FreshOK ==
  /\ ~alarm
  /\ Held \subseteq Ids \cup {None}
  /\ refreshing.phase = "SENT" => refreshing.sent = None \/ refreshing.sent \in Unspent
  /\ IF refreshing.got = Nothing THEN cookie = None \/ cookie \in Unspent
                                 ELSE refreshing.got.cookie \in Unspent
  /\ \A s \in OnWay :
       /\ call[s].got.cookie \in Unspent
       /\ call[s].got.cookie \notin Held
       /\ \A r \in OnWay \ {s} : call[r].got.cookie # call[s].got.cookie

CInv == TabOK /\ (~excused => FreshOK)

\* Tokens may be revoked, but what was not exchanged still is not.
Spared == Ids \subseteq Ids' /\ Unspent \subseteq Unspent'

\* What becomes of the tokens in steps that issue none.
LEMMA NoneIssued ==
  ASSUME IInv,
         \/ UNCHANGED vars
         \/ \E a \in access : Arrive(a)
         \/ \E r \in waiting : Logout(r) \/ RefuseChange(r)
         \/ \E t \in Ids : RefuseStale(t) \/ DetectReuse(t)
         \/ SetRoles \/ Deactivate \/ Reactivate \/ ResetPassword \/ Tick
  PROVE  Spared
<1>1. tokens \in Seq(Token)
  BY DEF IInv, TokensOK
<1>2. ASSUME NEW ts, Kept(ts), tokens' = ts, \A t \in Ids : ts[t].replacedBy = tokens[t].replacedBy
      PROVE  Spared
  BY <1>1, <1>2 DEF Spared, Unspent, Ids, Kept
<1>3. CASE \E t \in Ids : RefuseStale(t)
  BY <1>1, <1>2, <1>3, RefusedKeeps DEF RefuseStale, Refused
<1>4. CASE \/ \E t \in Ids : DetectReuse(t)
           \/ \E r \in waiting : Logout(r)
  BY <1>1, <1>2, <1>4, RevokedKeeps DEF DetectReuse, Logout
<1>5. CASE Deactivate \/ ResetPassword
  BY <1>1, <1>2, <1>5, RevokedAllKeeps DEF Deactivate, ResetPassword
<1>6. CASE UNCHANGED tokens
  BY <1>6 DEF Spared, Unspent, Ids
<1> QED
  BY <1>3, <1>4, <1>5, <1>6 DEF vars, Arrive, RefuseChange, SetRoles, Reactivate, Tick

\* What becomes of them when one is issued.
LEMMA OneIssued ==
  ASSUME IInv, LoginSucceeds \/ \E r \in waiting : ChangePassword(r)
  PROVE  /\ Spared
         /\ \E n : n = Len(tokens) + 1 /\ n \in Ids' \ (Ids \cup {None}) /\ n \in Unspent'
<1> DEFINE n == Len(tokens) + 1
           new == NewToken(n, now + RefreshTime)
<1>1. tokens \in Seq(Token) /\ now \in Nat /\ n \in Nat \ {0} /\ n \notin Ids
  BY DEF IInv, TokensOK, Ids
<1>2. new.replacedBy = None
  BY DEF NewToken
<1>3. PICK ts : /\ Kept(ts) /\ \A t \in Ids : ts[t].replacedBy = tokens[t].replacedBy
                /\ tokens' = Append(ts, new)
  <2>1. Kept(tokens)
    BY <1>1 DEF Kept
  <2> QED
    BY <1>1, <2>1, RevokedAllKeeps DEF LoginSucceeds, ChangePassword, IssueNewFamily, Issue
<1> HIDE DEF new
<1>4. /\ Len(ts) = Len(tokens) /\ ts \in Seq(Token)
  BY <1>3 DEF Kept
<1>5. /\ Len(tokens') = n /\ tokens'[n] = new /\ \A t \in Ids : tokens'[t] = ts[t]
  BY <1>1, <1>3, <1>4 DEF Ids
<1>6. Ids' = Ids \cup {n}
  BY <1>1, <1>5 DEF Ids
<1> QED
  BY <1>1, <1>2, <1>3, <1>5, <1>6 DEF Spared, Unspent, None

\* And when one is exchanged for another.
LEMMA OneExchanged ==
  ASSUME IInv, NEW t \in Ids, Rotate(t)
  PROVE  /\ \A c \in Ids : c \in Ids' /\ (c # t /\ c \in Unspent => c \in Unspent')
         /\ \E n : n = Len(tokens) + 1 /\ n \in Ids' \ (Ids \cup {None}) /\ n \in Unspent'
<1> DEFINE n == Len(tokens) + 1
           new == NewToken(tokens[t].family, Expiry(t))
<1>1. tokens \in Seq(Token) /\ n \in Nat \ {0} /\ n \notin Ids
  BY DEF IInv, TokensOK, Ids
<1>2. new.replacedBy = None
  BY DEF NewToken
<1>3. /\ Kept(Rotated(t)) /\ \A s \in Ids \ {t} : Rotated(t)[s].replacedBy = tokens[s].replacedBy
      /\ tokens' = Append(Rotated(t), new)
  BY <1>1, RotatedKeeps DEF Rotate, Issue
<1> HIDE DEF new
<1>4. Len(Rotated(t)) = Len(tokens) /\ Rotated(t) \in Seq(Token)
  BY <1>3 DEF Kept
<1>5. /\ Len(tokens') = n /\ tokens'[n] = new /\ \A s \in Ids : tokens'[s] = Rotated(t)[s]
  BY <1>1, <1>3, <1>4 DEF Ids
<1>6. Ids' = Ids \cup {n}
  BY <1>1, <1>5 DEF Ids
<1> QED
  BY <1>1, <1>2, <1>3, <1>5, <1>6 DEF Unspent, None

\* A call, whatever it is replaced by.
LEMMA CallPut ==
  ASSUME TabOK, NEW s \in Slots, NEW c, DOMAIN c = DOMAIN Idle, Put(s, c)
  PROVE  /\ call'[s] = c
         /\ \A r \in Slots \ {s} : call'[r] = call[r]
         /\ DOMAIN call' = Slots
         /\ \A r \in Slots : DOMAIN call'[r] = DOMAIN Idle
<1>1. DOMAIN call = Slots /\ \A r \in Slots : DOMAIN call[r] = DOMAIN Idle
  BY DEF TabOK
<1> QED
  BY <1>1 DEF Put

\* A call that is answered keeps its kind.
LEMMA CallAnswered ==
  ASSUME TabOK, NEW s \in Slots, NEW phase, NEW got, Answered(s, phase, got)
  PROVE  /\ call'[s].op = call[s].op /\ call'[s].phase = phase /\ call'[s].got = got
         /\ \A r \in Slots \ {s} : call'[r] = call[r]
         /\ DOMAIN call' = Slots
         /\ \A r \in Slots : DOMAIN call'[r] = DOMAIN Idle
<1>1. DOMAIN call[s] = {"op", "phase", "auth", "retry", "got"}
  BY DEF TabOK, Idle
<1>2. PICK c : c = [call[s] EXCEPT !.phase = phase, !.got = got]
  OBVIOUS
<1>3. /\ DOMAIN c = DOMAIN Idle
      /\ c.op = call[s].op /\ c.phase = phase /\ c.got = got
  BY <1>1, <1>2 DEF TabOK
<1> QED
  BY <1>2, <1>3, CallPut DEF Answered

\* A step after which nothing is held or on the way that was not before.
LEMMA FreshStep ==
  ASSUME FreshOK, Spared, ~alarm',
         Held' \subseteq Held \cup {None},
         \A s \in OnWay' : s \in OnWay /\ call'[s].got.cookie = call[s].got.cookie,
         refreshing'.phase = "SENT" => refreshing'.sent = None \/ refreshing'.sent \in Unspent,
         IF refreshing'.got = Nothing THEN cookie' = None \/ cookie' \in Unspent
                                      ELSE refreshing'.got.cookie \in Unspent
  PROVE  FreshOK'
<1>1. Unspent \subseteq Ids /\ None \notin Unspent /\ Unspent \subseteq Unspent'
  BY DEF Spared, Unspent, Ids, None
<1>2. \A s \in OnWay' :
        /\ call'[s].got.cookie \in Unspent'
        /\ call'[s].got.cookie \notin Held'
        /\ \A r \in OnWay' \ {s} : call'[r].got.cookie # call'[s].got.cookie
  BY <1>1 DEF FreshOK
<1>3. Held' \subseteq Ids' \cup {None}
  BY DEF FreshOK, Spared
<1>4. /\ refreshing'.phase = "SENT" => refreshing'.sent = None \/ refreshing'.sent \in Unspent'
      /\ IF refreshing'.got = Nothing THEN cookie' = None \/ cookie' \in Unspent'
                                      ELSE refreshing'.got.cookie \in Unspent'
  BY <1>1
<1> QED
  BY <1>2, <1>3, <1>4 DEF FreshOK, Nothing, None

\* What the tab asks for.
LEMMA AskFresh ==
  ASSUME CInv, AskLogin \/ AskPage \/ AskLogout \/ AskPassword
  PROVE  CInv'
<1>1. PICK op : Ask(op)
  BY DEF AskLogin, AskPage, AskLogout, AskPassword
<1>2. PICK s \in Slots : call[s] = Idle /\ Put(s, Sent(op, token, TRUE))
  BY <1>1 DEF Ask
<1>3. /\ UNCHANGED <<tokens, cookie, refreshing, excused, alarm>>
  BY <1>1 DEF Ask, vars
<1>4. /\ call'[s].phase = "SENT"
      /\ \A r \in Slots \ {s} : call'[r] = call[r]
      /\ TabOK'
  <2> DEFINE c == Sent(op, token, TRUE)
  <2>1. c.phase = "SENT" /\ DOMAIN c = DOMAIN Idle
    BY DEF Sent, Idle
  <2>2. Put(s, c)
    BY <1>2
  <2> HIDE DEF c
  <2>3. /\ call'[s] = c /\ \A r \in Slots \ {s} : call'[r] = call[r]
        /\ DOMAIN call' = Slots /\ \A r \in Slots : DOMAIN call'[r] = DOMAIN Idle
    BY <2>1, <2>2, CallPut DEF CInv
  <2> QED
    BY <1>3, <2>1, <2>3 DEF CInv, TabOK
<1>5. Spared /\ Held' = Held
  BY <1>3 DEF Spared, Unspent, Ids, Held
<1>6. \A r \in OnWay' : r \in OnWay /\ call'[r].got.cookie = call[r].got.cookie
  BY <1>4 DEF OnWay
<1> QED
  BY <1>3, <1>4, <1>5, <1>6, FreshStep DEF CInv, FreshOK

\* What the server does without issuing a token.
LEMMA ServeFresh ==
  ASSUME CInv, IInv, NEW s \in Slots, Serve(s),
         ~LoginSucceeds, ~\E r \in waiting : ChangePassword(r)
  PROVE  CInv'
<1> USE DEF CInv
<1>1. UNCHANGED <<cookie, refreshing, excused, alarm>>
  BY DEF Serve
<1>2. PICK phase, got :
        /\ Answered(s, phase, got)
        /\ phase = "OK" => call[s].op \notin {"LOGIN", "PASSWORD"}
        /\ phase = "WAITING" /\ got.op = "LOGOUT" => call[s].op = "LOGOUT"
  <2>1. CASE ServeQuery(s)
    BY <2>1 DEF ServeQuery
  <2>2. CASE ServeLogin(s)
    BY <2>2 DEF ServeLogin
  <2>3. CASE ServeCommand(s)
    BY <2>3 DEF ServeCommand, Wish
  <2>4. CASE call[s].phase = "WAITING" /\ ServeWaiting(s)
    <3> DEFINE w == call[s].got
    <3>1. w.op = "LOGOUT" => call[s].op = "LOGOUT"
      BY <2>4 DEF TabOK
    <3>2. CASE w \in waiting /\ Logout(w) /\ Answered(s, "OK", Nothing)
      BY <3>1, <3>2 DEF Logout
    <3>3. CASE w \in waiting /\ RefuseChange(w) /\ Answered(s, "DENIED", Nothing)
      BY <3>3
    <3>4. CASE Answered(s, IF w.op = "LOGOUT" THEN "OK" ELSE "DENIED", Nothing)
      BY <3>1, <3>4
    <3> QED
      BY <2>4, <3>2, <3>3, <3>4 DEF ServeWaiting
  <2> QED
    BY <2>1, <2>2, <2>3, <2>4 DEF Serve
<1>3. Spared
  <2>1. \/ UNCHANGED vars \/ \E a \in access : Arrive(a)
        \/ \E r \in waiting : Logout(r) \/ RefuseChange(r)
    BY DEF Serve, ServeQuery, ServeLogin, ServeCommand, ServeWaiting, Allowed
  <2> QED
    BY <2>1, NoneIssued
<1>4. /\ call'[s].op = call[s].op /\ call'[s].phase = phase /\ call'[s].got = got
      /\ \A r \in Slots \ {s} : call'[r] = call[r]
      /\ DOMAIN call' = Slots /\ \A r \in Slots : DOMAIN call'[r] = DOMAIN Idle
  BY <1>2, CallAnswered
<1>5. TabOK'
  BY <1>1, <1>2, <1>4 DEF TabOK
<1>6. \A r \in OnWay' : r \in OnWay /\ call'[r].got.cookie = call[r].got.cookie
  BY <1>2, <1>4 DEF OnWay
<1>7. Held' = Held
  BY <1>1 DEF Held
<1> QED
  BY <1>1, <1>3, <1>5, <1>6, <1>7, FreshStep DEF FreshOK

\* What it does when it issues one: the token is new.
LEMMA IssueFresh ==
  ASSUME CInv, IInv, NEW s \in Slots, Serve(s),
         LoginSucceeds \/ \E r \in waiting : ChangePassword(r)
  PROVE  CInv'
<1> USE DEF CInv
<1>1. UNCHANGED <<cookie, refreshing, excused, alarm>>
  BY DEF Serve
<1>2. /\ Spared
      /\ \E n : n = Len(tokens) + 1 /\ n \in Ids' \ (Ids \cup {None}) /\ n \in Unspent'
  BY OneIssued
<1>3. PICK n : n = Len(tokens) + 1 /\ n \in Ids' \ (Ids \cup {None}) /\ n \in Unspent'
  BY <1>2
<1>4. tokens' # tokens
  BY <1>3 DEF Ids
<1>5. PICK phase, got :
        /\ Answered(s, phase, got)
        /\ phase # "WAITING"
        /\ phase = "OK" /\ call[s].op \in {"LOGIN", "PASSWORD"} => got.cookie = n
  <2>1. CASE ServeLogin(s)
    <3>1. \E phase, got : Answered(s, phase, got) /\ phase # "WAITING" /\ (phase = "OK" => got.cookie = n)
      BY <1>3, <2>1 DEF ServeLogin, Brings
    <3> QED
      BY <3>1
  <2>2. CASE call[s].phase = "WAITING" /\ ServeWaiting(s)
    <3> DEFINE w == call[s].got
    <3>1. w.op = "LOGOUT" => call[s].op = "LOGOUT"
      BY <2>2 DEF TabOK
    <3>2. CASE Logout(w) /\ Answered(s, "OK", Nothing)
      BY <3>1, <3>2 DEF Logout
    <3>3. CASE Answered(s, "OK", Brings(Len(tokens) + 1, authVersion + 1))
      BY <1>3, <3>3 DEF Brings
    <3>4. CASE Answered(s, "DENIED", Nothing)
      BY <3>4
    <3>5. CASE Answered(s, IF w.op = "LOGOUT" THEN "OK" ELSE "DENIED", Nothing)
      BY <3>1, <3>5
    <3> QED
      BY <2>2, <3>2, <3>3, <3>4, <3>5 DEF ServeWaiting
  <2>3. ~ServeQuery(s) /\ ~ServeCommand(s)
    BY <1>4 DEF ServeQuery, ServeCommand, Arrive, vars
  <2> QED
    BY <2>1, <2>2, <2>3 DEF Serve
<1>6. /\ call'[s].op = call[s].op /\ call'[s].phase = phase /\ call'[s].got = got
      /\ \A r \in Slots \ {s} : call'[r] = call[r]
      /\ DOMAIN call' = Slots /\ \A r \in Slots : DOMAIN call'[r] = DOMAIN Idle
  BY <1>5, CallAnswered
<1>7. TabOK'
  BY <1>1, <1>5, <1>6 DEF TabOK
<1> SUFFICES ASSUME ~excused, FreshOK
             PROVE  FreshOK'
  BY <1>1, <1>7
<1>8. Held' = Held /\ Held \subseteq Ids \cup {None} /\ n \notin Ids \cup {None}
  BY <1>1, <1>3 DEF Held, FreshOK
<1>9. \A r \in OnWay' :
        \/ r \in OnWay /\ call'[r] = call[r]
        \/ r = s /\ call'[r].got.cookie = n
  BY <1>5, <1>6 DEF OnWay
<1>10. \A r \in OnWay :
         /\ call[r].got.cookie \in Unspent /\ call[r].got.cookie # n
         /\ call[r].got.cookie \notin Held
         /\ \A q \in OnWay \ {r} : call[q].got.cookie # call[r].got.cookie
  BY <1>8 DEF FreshOK, Unspent
<1>11. \A r \in OnWay' :
         /\ call'[r].got.cookie \in Unspent'
         /\ call'[r].got.cookie \notin Held'
         /\ \A q \in OnWay' \ {r} : call'[q].got.cookie # call'[r].got.cookie
  BY <1>2, <1>3, <1>8, <1>9, <1>10 DEF Spared
<1> QED
  BY <1>1, <1>2, <1>8, <1>11 DEF FreshOK, Spared

\* What the server does for a refresh: the token it exchanges is not sent again.
LEMMA ServeRefreshFresh ==
  ASSUME CInv, IInv, ServeRefresh
  PROVE  CInv'
<1> USE DEF CInv
<1> DEFINE c == refreshing.sent
<1>1. UNCHANGED <<cookie, call>> /\ refreshing.phase = "SENT"
  BY DEF ServeRefresh
<1>2. /\ OnWay' = OnWay /\ call' = call
      /\ refreshing.got = Nothing
  BY <1>1 DEF OnWay, TabOK
<1>3. DOMAIN refreshing = {"phase", "sent", "got"}
  BY DEF TabOK, NotRefreshing
<1>4. ASSUME NEW got, RefreshAnswered(got)
      PROVE  refreshing'.phase = "ANSWER" /\ refreshing'.sent = c /\ refreshing'.got = got
  BY <1>3, <1>4 DEF RefreshAnswered
<1>5. PICK got : RefreshAnswered(got)
  BY DEF ServeRefresh
<1>6. /\ refreshing'.phase = "ANSWER" /\ refreshing'.sent = c /\ refreshing'.got = got
      /\ DOMAIN refreshing' = DOMAIN refreshing
  BY <1>4, <1>5 DEF RefreshAnswered
<1>7. excused' \in BOOLEAN /\ (excused => excused')
  BY DEF ServeRefresh, TabOK
<1>8. TabOK'
  BY <1>1, <1>6, <1>7 DEF TabOK
<1> SUFFICES ASSUME ~excused', FreshOK
             PROVE  FreshOK'
  BY <1>7, <1>8
<1>9. c = None \/ c \in Unspent
  BY <1>1 DEF FreshOK
<1>10. CASE c \in Ids /\ Rotate(c) /\ alarm' = alarm
            /\ RefreshAnswered(Brings(tokens[c].family, authVersion))
  <2>1. /\ \A x \in Ids : x \in Ids' /\ (x # c /\ x \in Unspent => x \in Unspent')
        /\ \E n : n = Len(tokens) + 1 /\ n \in Ids' \ (Ids \cup {None}) /\ n \in Unspent'
    BY <1>10, OneExchanged
  <2>2. PICK n : n = Len(tokens) + 1 /\ n \in Ids' \ (Ids \cup {None}) /\ n \in Unspent'
    BY <2>1
  <2>3. refreshing'.got.cookie = n /\ refreshing'.got # Nothing
    BY <1>4, <1>10, <2>2 DEF Brings, Nothing
  <2>4. Held' \subseteq Held \cup {n}
    BY <1>1, <1>6, <2>3 DEF Held
  <2>5. \A s \in OnWay :
          /\ call[s].got.cookie \in Unspent'
          /\ call[s].got.cookie \notin Held'
    <3>1. \A s \in OnWay : call[s].got.cookie \in Unspent \ Held
      BY DEF FreshOK
    <3>2. Unspent \subseteq Ids
      BY DEF Unspent
    <3> QED
      BY <2>1, <2>2, <2>4, <3>1, <3>2 DEF Held
  <2>6. Held' \subseteq Ids' \cup {None}
    BY <2>1, <2>2, <2>4 DEF FreshOK
  <2> QED
    BY <1>2, <1>6, <1>10, <2>2, <2>3, <2>5, <2>6 DEF FreshOK
<1>11. CASE /\ UNCHANGED vars \/ \E t \in Ids : RefuseStale(t)
            /\ RefreshAnswered(Nothing) /\ alarm' = alarm
  <2>1. Spared
    BY <1>11, NoneIssued
  <2>2. refreshing'.got = Nothing
    BY <1>4, <1>11
  <2>3. Held' \subseteq Held \cup {None}
    BY <1>1, <1>6, <2>2 DEF Held, Nothing
  <2> QED
    BY <1>1, <1>2, <1>6, <1>11, <2>1, <2>2, <2>3, FreshStep DEF FreshOK
<1>12. ~\E t \in Ids : t = c /\ DetectReuse(t)
  BY <1>9 DEF DetectReuse, Unspent, Ids, None
<1>13. Live \subseteq Ids
  BY DEF Live
<1> QED
  BY <1>10, <1>11, <1>12, <1>13 DEF ServeRefresh

\* An answer arrives.
LEMMA ReceiveFresh ==
  ASSUME CInv, NEW s \in Slots, ReceiveAnswer(s)
  PROVE  CInv'
<1> USE DEF CInv
<1>1. UNCHANGED <<tokens, refreshing, alarm>> /\ call[s].phase = "OK"
  BY DEF ReceiveAnswer, vars
<1>2. Spared /\ Ids' = Ids /\ Unspent' = Unspent
  BY <1>1 DEF Spared, Unspent, Ids
<1>3. PICK c : /\ Put(s, c) /\ DOMAIN c = DOMAIN Idle
               /\ c.phase \in {"SENT", "NONE"}
  BY DEF ReceiveAnswer, ReceiveSession, ReceiveMe, ReceivePage, ReceiveLogout, Sent, Idle
<1>4. /\ call'[s] = c /\ \A r \in Slots \ {s} : call'[r] = call[r]
      /\ DOMAIN call' = Slots /\ \A r \in Slots : DOMAIN call'[r] = DOMAIN Idle
  BY <1>3, CallPut
<1>5. excused' \in BOOLEAN /\ (excused => excused')
  BY DEF ReceiveAnswer, ReceiveSession, ReceiveMe, ReceivePage, ReceiveLogout, TabOK
<1>6. TabOK'
  BY <1>1, <1>3, <1>4, <1>5 DEF TabOK
<1>7. \A r \in OnWay' : r \in OnWay \ {s} /\ call'[r] = call[r]
  BY <1>3, <1>4 DEF OnWay
<1> SUFFICES ASSUME ~excused', FreshOK
             PROVE  FreshOK'
  BY <1>5, <1>6
<1>8. CASE ReceiveSession(s)
  <2>1. /\ s \in OnWay /\ refreshing = NotRefreshing /\ cookie' = call[s].got.cookie
    BY <1>1, <1>8 DEF ReceiveSession, OnWay
  <2>2. /\ call[s].got.cookie \in Unspent
        /\ \A r \in OnWay \ {s} : /\ call[r].got.cookie \in Unspent \ Held
                                  /\ call[r].got.cookie # call[s].got.cookie
                                  /\ \A q \in OnWay \ {r} : call[q].got.cookie # call[r].got.cookie
    BY <2>1 DEF FreshOK
  <2>3. Held' \subseteq (Held \cup {call[s].got.cookie}) /\ Unspent \subseteq Ids
    BY <1>1, <2>1 DEF Held, Unspent
  <2>4. Held' \subseteq Ids' \cup {None}
    BY <1>2, <2>2, <2>3 DEF FreshOK
  <2>5. \A r \in OnWay' :
          /\ call'[r].got.cookie \in Unspent'
          /\ call'[r].got.cookie \notin Held'
          /\ \A q \in OnWay' \ {r} : call'[q].got.cookie # call'[r].got.cookie
    BY <1>2, <1>7, <2>2, <2>3
  <2> QED
    BY <1>1, <1>2, <2>1, <2>2, <2>4, <2>5 DEF FreshOK, NotRefreshing
<1>9. CASE cookie' \in {cookie, None}
  <2>1. Held' \subseteq Held \cup {None}
    BY <1>1, <1>9 DEF Held
  <2> QED
    BY <1>1, <1>2, <1>7, <1>9, <2>1, FreshStep DEF FreshOK
<1> QED
  BY <1>8, <1>9 DEF ReceiveAnswer, ReceiveMe, ReceivePage, ReceiveLogout

\* A refused call joins the refresh, or a call fails: nothing new is held.
LEMMA DeniedFresh ==
  ASSUME CInv, NEW s \in Slots, ReceiveDenied(s) \/ Fail(s)
  PROVE  CInv'
<1> USE DEF CInv
<1>1. UNCHANGED <<tokens, cookie, excused, alarm>>
  BY DEF ReceiveDenied, Fail, vars
<1>2. Spared
  BY <1>1 DEF Spared, Unspent, Ids
<1>3. PICK c : /\ Put(s, c) /\ DOMAIN c = DOMAIN Idle
               /\ c.phase \in {"REFRESH", "NONE"}
  <2>1. CASE ReceiveDenied(s)
    <3>1. DOMAIN call[s] = {"op", "phase", "auth", "retry", "got"}
      BY DEF TabOK, Idle
    <3> QED
      BY <2>1, <3>1 DEF ReceiveDenied, TabOK
  <2> QED
    BY <2>1 DEF Fail, Idle
<1>4. /\ call'[s] = c /\ \A r \in Slots \ {s} : call'[r] = call[r]
      /\ DOMAIN call' = Slots /\ \A r \in Slots : DOMAIN call'[r] = DOMAIN Idle
  BY <1>3, CallPut
<1>5. /\ UNCHANGED refreshing
      \/ /\ refreshing = NotRefreshing
         /\ refreshing'.phase = "SENT" /\ refreshing'.sent = cookie
         /\ refreshing'.got = Nothing /\ DOMAIN refreshing' = DOMAIN NotRefreshing
  BY DEF ReceiveDenied, Fail, Join, NotRefreshing
<1>6. TabOK'
  BY <1>1, <1>3, <1>4, <1>5 DEF TabOK
<1>7. \A r \in OnWay' : r \in OnWay /\ call'[r].got.cookie = call[r].got.cookie
  BY <1>3, <1>4 DEF OnWay
<1> SUFFICES ASSUME ~excused, FreshOK
             PROVE  FreshOK'
  BY <1>1, <1>6
<1>8. Held' \subseteq Held \cup {None}
  BY <1>1, <1>5 DEF Held, Nothing
<1>9. /\ refreshing'.phase = "SENT" => refreshing'.sent = None \/ refreshing'.sent \in Unspent
      /\ IF refreshing'.got = Nothing THEN cookie' = None \/ cookie' \in Unspent
                                      ELSE refreshing'.got.cookie \in Unspent
  BY <1>1, <1>5 DEF FreshOK, NotRefreshing
<1> QED
  BY <1>1, <1>2, <1>7, <1>8, <1>9, FreshStep DEF FreshOK

\* The answer to a refresh arrives: what it brings is the cookie.
LEMMA ReceiveRefreshFresh ==
  ASSUME CInv, ReceiveRefresh
  PROVE  CInv'
<1> USE DEF CInv
<1> DEFINE got == refreshing.got
<1>1. /\ UNCHANGED <<tokens, excused, alarm>> /\ refreshing' = NotRefreshing
      /\ cookie' = IF got = Nothing THEN cookie ELSE got.cookie
  BY DEF ReceiveRefresh, vars
<1>2. Spared
  BY <1>1 DEF Spared, Unspent, Ids
<1>3. PICK W \in SUBSET Slots :
        call' = [s \in Slots |-> IF s \in W THEN AfterRefresh(call[s], got) ELSE call[s]]
  BY DEF ReceiveRefresh
<1>4. \A s \in W : /\ DOMAIN AfterRefresh(call[s], got) = DOMAIN Idle
                   /\ AfterRefresh(call[s], got).phase \in {"SENT", "NONE"}
  BY DEF AfterRefresh, Sent, Idle
<1>5. TabOK'
  <2>1. \A s \in Slots : /\ DOMAIN call'[s] = DOMAIN Idle
                         /\ call'[s].phase = "WAITING" => s \notin W /\ call'[s] = call[s]
    BY <1>3, <1>4 DEF TabOK
  <2> QED
    BY <1>1, <1>3, <2>1 DEF TabOK, NotRefreshing
<1>6. \A s \in OnWay' : s \in OnWay /\ call'[s].got.cookie = call[s].got.cookie
  BY <1>3, <1>4 DEF OnWay
<1>7. Held' \subseteq Held \cup {None}
  BY <1>1 DEF Held, NotRefreshing, Nothing
<1>8. refreshing'.phase # "SENT" /\ refreshing'.got = Nothing
  BY <1>1 DEF NotRefreshing
<1> QED
  BY <1>1, <1>2, <1>5, <1>6, <1>7, <1>8, FreshStep DEF FreshOK

\* Losses excuse; a page loaded anew sends the cookie it finds.
LEMMA TroubleFresh ==
  ASSUME CInv, LoseRefresh \/ LoadAnew \/ \E s \in Slots : Lose(s)
  PROVE  CInv'
<1> USE DEF CInv
<1>1. CASE LoseRefresh
  <2>1. DOMAIN refreshing = {"phase", "sent", "got"}
    BY DEF TabOK, NotRefreshing
  <2>2. refreshing'.phase = "ANSWER" /\ DOMAIN refreshing' = DOMAIN refreshing
    BY <1>1, <2>1 DEF LoseRefresh, RefreshAnswered
  <2> QED
    BY <1>1, <2>2 DEF LoseRefresh, Loss, TabOK
<1>2. ASSUME NEW s \in Slots, Lose(s)
      PROVE  CInv'
  <2>1. Answered(s, "FAILED", Nothing) /\ UNCHANGED refreshing /\ excused' = TRUE
    BY <1>2 DEF Lose, Loss
  <2>2. /\ call'[s].phase = "FAILED"
        /\ \A r \in Slots \ {s} : call'[r] = call[r]
        /\ DOMAIN call' = Slots /\ \A r \in Slots : DOMAIN call'[r] = DOMAIN Idle
    BY <2>1, CallAnswered
  <2> QED
    BY <2>1, <2>2 DEF TabOK
<1>3. CASE LoadAnew
  <2>1. /\ UNCHANGED <<tokens, cookie, alarm>> /\ call' = Starting
        /\ refreshing' = [NotRefreshing EXCEPT !.phase = "SENT", !.sent = cookie]
        /\ excused' = (excused \/ refreshing # NotRefreshing
                               \/ \E s \in Slots : call[s].op \in {"LOGIN", "PASSWORD", "LOGOUT"})
    BY <1>3 DEF LoadAnew, vars
  <2>2. DOMAIN call' = Slots /\ \A s \in Slots : /\ DOMAIN call'[s] = DOMAIN Idle
                                                 /\ call'[s].phase \in {"REFRESH", "NONE"}
    BY <2>1 DEF Starting, Idle
  <2>3. /\ refreshing'.phase = "SENT" /\ refreshing'.sent = cookie /\ refreshing'.got = Nothing
        /\ DOMAIN refreshing' = DOMAIN NotRefreshing
    BY <2>1 DEF NotRefreshing
  <2>4. TabOK'
    BY <2>1, <2>2, <2>3 DEF TabOK
  <2> SUFFICES ASSUME ~excused', FreshOK
               PROVE  FreshOK'
    BY <2>1, <2>4
  <2>5. Spared /\ OnWay' = {}
    BY <2>1, <2>2 DEF Spared, Unspent, Ids, OnWay
  <2>6. Held' \subseteq Held \cup {None} /\ (cookie = None \/ cookie \in Unspent)
    BY <2>1, <2>3 DEF Held, Nothing, FreshOK, NotRefreshing
  <2> QED
    BY <2>1, <2>3, <2>5, <2>6, FreshStep DEF FreshOK
<1> QED
  BY <1>1, <1>2, <1>3

\* Steps that leave the tab alone.
LEMMA ElsewhereFresh ==
  ASSUME CInv, IInv, Elsewhere \/ UNCHANGED clientVars
  PROVE  CInv'
<1>1. UNCHANGED <<cookie, call, refreshing, excused, alarm>>
  BY DEF Elsewhere, clientVars, client, tab
<1>2. Spared
  BY NoneIssued DEF Elsewhere, clientVars
<1>3. TabOK' /\ OnWay' = OnWay /\ Held' = Held
  BY <1>1 DEF CInv, TabOK, OnWay, Held
<1> QED
  BY <1>1, <1>2, <1>3, FreshStep DEF CInv, FreshOK

\* No step of the tab or its server makes a token be sent twice.
LEMMA CInvStep ==
  ASSUME CInv, IInv, [ClientNext]_clientVars
  PROVE  CInv'
<1>1. ASSUME NEW s \in Slots, Serve(s)
      PROVE  CInv'
  BY <1>1, ServeFresh, IssueFresh
<1>2. ASSUME NEW s \in Slots, Receive(s)
      PROVE  CInv'
  BY <1>2, ReceiveFresh, DeniedFresh DEF Receive
<1> QED
  BY <1>1, <1>2, AskFresh, ServeRefreshFresh, ReceiveRefreshFresh, TroubleFresh, ElsewhereFresh
     DEF ClientNext

LEMMA InitFresh ==
  ASSUME ClientInit
  PROVE  CInv
<1>1. /\ DOMAIN call = Slots
      /\ \A s \in Slots : DOMAIN call[s] = DOMAIN Idle /\ call[s].phase \in {"REFRESH", "NONE"}
  BY DEF ClientInit, Starting, Idle
<1>2. /\ refreshing.phase = "SENT" /\ refreshing.sent = None /\ refreshing.got = Nothing
      /\ DOMAIN refreshing = DOMAIN NotRefreshing
  BY DEF ClientInit, NotRefreshing
<1>3. Held = {None} /\ OnWay = {}
  BY <1>1, <1>2 DEF Held, OnWay, ClientInit, Nothing
<1> QED
  BY <1>1, <1>2, <1>3 DEF CInv, TabOK, FreshOK, ClientInit

\* client.ts, refresh and api: while nothing is lost or crosses, the theft alarm is silent.
THEOREM NoAlarmWithoutTheft == ClientSpec => []NoFalseAlarm
<1>1. ClientInit => CInv
  BY InitFresh
<1>2. IInv /\ CInv /\ [ClientNext]_clientVars => CInv'
  BY CInvStep
<1>3. CInv => NoFalseAlarm
  BY DEF CInv, FreshOK, NoFalseAlarm
<1> QED
  BY <1>1, <1>2, <1>3, SessionsInvariant, PTL DEF ClientSpec

-----------------------------------------------------------------------------
(* Who is signed in stays signed in.                                       *)

\* What is known of an access token that a refresh brought: it is current until it
\* expires, its session is ended, or the version is bumped.
Reissued(a) ==
  /\ a \in Access
  /\ a.family \in Families
  /\ a \in access \/ a.expires <= now
  /\ \/ active /\ a.version = authVersion
     \/ a.family \in ended
     \/ a.version < authVersion

\* A call that was lost is excused; one that is sent again carries what a refresh
\* brought, and is refused only when that is good no more.
CallOK(c) ==
  /\ c.phase = "FAILED" => excused
  /\ c.phase = "WAITING" => c.op \in {"LOGOUT", "PASSWORD"}
  /\ c.phase \notin {"NONE", "REFRESH"} /\ ~c.retry => Reissued(c.auth)
  /\ c.phase = "DENIED" /\ ~c.retry /\ c.op \in {"ME", "RESTORED"} => Lapsed(c.auth)

Over(c) == c = None \/ tokens[c].family \in ended

\* A refresh is refused only when the session of the cookie it was sent with is over,
\* and that is the cookie still, or there is none.
RefreshOK ==
  /\ refreshing.got # Nothing => Reissued(refreshing.got.access)
  /\ ~excused /\ refreshing.got = Nothing =>
       /\ refreshing.phase # "NONE" => cookie \in {None, refreshing.sent}
       /\ refreshing.phase = "ANSWER" => Over(refreshing.sent)

StaysInv == RefreshOK /\ \A s \in Slots : CallOK(call[s])

\* What every step does to the tokens issued before.
Moves ==
  /\ \A t \in Ids : t \in Ids' /\ tokens'[t].family = tokens[t].family
  /\ ended \subseteq ended'
  /\ now \in Nat /\ now' \in Nat /\ now <= now'
  /\ authVersion \in Nat /\ authVersion' \in Nat /\ authVersion <= authVersion'
  /\ \A a : Reissued(a) => Reissued(a)'

\* A step after which the families are those there were, and the version another if
\* tokens of the present one are not good any more.
LEMMA MovesWhen ==
  ASSUME \A t \in Ids : t \in Ids' /\ tokens'[t].family = tokens[t].family,
         ended \subseteq ended',
         now \in Nat, now' \in {now, now + 1},
         \A a \in access : a \in access' \/ a.expires <= now',
         authVersion \in Nat, authVersion' \in {authVersion, authVersion + 1},
         (active => active') \/ authVersion' = authVersion + 1
  PROVE  Moves
<1>1. /\ now' \in Nat /\ now <= now'
      /\ authVersion' \in Nat /\ authVersion <= authVersion'
  OBVIOUS
<1>2. Families \subseteq Families'
  BY DEF Families
<1>3. ASSUME NEW a, Reissued(a)
      PROVE  Reissued(a)'
  <2>1. a \in Access /\ a.family \in Families /\ a.expires \in Nat /\ a.version \in Nat
    BY <1>3 DEF Reissued, Access
  <2>2. a \in access' \/ a.expires <= now'
    BY <1>1, <1>3, <2>1 DEF Reissued
  <2>3. (active' /\ a.version = authVersion') \/ a.family \in ended' \/ a.version < authVersion'
    <3>1. CASE active /\ a.version = authVersion
      BY <2>1, <3>1
    <3>2. CASE a.version < authVersion
      BY <1>1, <2>1, <3>2
    <3> QED
      BY <1>3, <3>1, <3>2 DEF Reissued
  <2> QED
    BY <1>2, <2>1, <2>2, <2>3 DEF Reissued
<1> QED
  BY <1>1, <1>3 DEF Moves

LEMMA SessionsMove ==
  ASSUME IInv,
         \/ UNCHANGED vars
         \/ LoginFails \/ LoginSucceeds
         \/ \E t \in Ids : Rotate(t) \/ RefuseStale(t) \/ DetectReuse(t)
         \/ \E a \in access : Arrive(a)
         \/ \E r \in waiting : Logout(r) \/ ChangePassword(r) \/ RefuseChange(r)
         \/ SetRoles \/ Deactivate \/ Reactivate \/ ResetPassword \/ Tick
  PROVE  Moves
<1>1. /\ tokens \in Seq(Token) /\ now \in Nat /\ access \subseteq Access
      /\ ended \subseteq Families /\ now + 1 \in Nat /\ authVersion \in Nat
  BY DEF IInv, TokensOK, FamiliesOK
<1>2. ASSUME NEW ts, Kept(ts), tokens' = ts \/ \E new : tokens' = Append(ts, new)
      PROVE  \A t \in Ids : t \in Ids' /\ tokens'[t].family = tokens[t].family
  <2>1. Len(ts) = Len(tokens) /\ ts \in Seq(Token) /\ Len(tokens) \in Nat
    BY <1>1, <1>2 DEF Kept
  <2>2. \A t \in Ids : ts[t].family = tokens[t].family
    BY <1>2 DEF Kept
  <2>3. \A t \in Ids : t \in Ids' /\ tokens'[t] = ts[t]
    BY <1>2, <2>1 DEF Ids
  <2> QED
    BY <2>2, <2>3
<1>3. Kept(tokens) /\ Kept(RevokedAll)
  BY <1>1, RevokedAllKeeps DEF Kept
<1>4. CASE UNCHANGED vars \/ LoginFails \/ \E a \in access : Arrive(a)
  <2>1. UNCHANGED <<now, tokens, access, ended, active, authVersion>>
    BY <1>4 DEF vars, user, Arrive, LoginFails
  <2>2. \A t \in Ids : t \in Ids' /\ tokens'[t].family = tokens[t].family
    BY <2>1 DEF Ids
  <2> QED
    BY <1>1, <2>1, <2>2, MovesWhen
<1>5. CASE LoginSucceeds
  <2>1. \E new : tokens' = Append(tokens, new)
    BY <1>5 DEF LoginSucceeds, IssueNewFamily, Issue
  <2>2. \A t \in Ids : t \in Ids' /\ tokens'[t].family = tokens[t].family
    BY <1>2, <1>3, <2>1
  <2> QED
    BY <1>1, <1>5, <2>2, MovesWhen DEF LoginSucceeds, IssueNewFamily, Issue, user
<1>6. ASSUME NEW t \in Ids, Rotate(t)
      PROVE  Moves
  <2>1. Kept(Rotated(t))
    BY <1>1, RotatedKeeps
  <2>2. \E new : tokens' = Append(Rotated(t), new)
    BY <1>6 DEF Rotate, Issue
  <2>3. \A c \in Ids : c \in Ids' /\ tokens'[c].family = tokens[c].family
    BY <1>2, <2>1, <2>2
  <2> QED
    BY <1>1, <1>6, <2>3, MovesWhen DEF Rotate, Issue, user
<1>7. ASSUME NEW t \in Ids, RefuseStale(t)
      PROVE  Moves
  <2>1. \A c \in Ids : c \in Ids' /\ tokens'[c].family = tokens[c].family
    BY <1>1, <1>2, <1>7, RefusedKeeps DEF RefuseStale, Refused
  <2> QED
    BY <1>1, <1>7, <2>1, MovesWhen DEF RefuseStale, user
<1>8. ASSUME \/ \E t \in Ids : DetectReuse(t)
             \/ \E r \in waiting : Logout(r)
      PROVE  Moves
  <2>1. \A c \in Ids : c \in Ids' /\ tokens'[c].family = tokens[c].family
    BY <1>1, <1>2, <1>8, RevokedKeeps DEF DetectReuse, Logout
  <2> QED
    BY <1>1, <1>8, <2>1, MovesWhen DEF DetectReuse, Logout, user
<1>9. CASE \E r \in waiting : ChangePassword(r)
  <2>1. \E new : tokens' = Append(RevokedAll, new)
    BY <1>9 DEF ChangePassword, IssueNewFamily, Issue
  <2>2. \A c \in Ids : c \in Ids' /\ tokens'[c].family = tokens[c].family
    BY <1>2, <1>3, <2>1
  <2> QED
    BY <1>1, <1>9, <2>2, MovesWhen DEF ChangePassword, IssueNewFamily, Issue
<1>10. CASE \E r \in waiting : RefuseChange(r)
  <2>1. \A t \in Ids : t \in Ids' /\ tokens'[t].family = tokens[t].family
    BY <1>10 DEF RefuseChange, Ids
  <2> QED
    BY <1>1, <1>10, <2>1, MovesWhen DEF RefuseChange, user
<1>11. CASE Deactivate \/ ResetPassword
  <2>1. \A c \in Ids : c \in Ids' /\ tokens'[c].family = tokens[c].family
    BY <1>2, <1>3, <1>11 DEF Deactivate, ResetPassword
  <2> QED
    BY <1>1, <1>11, <2>1, MovesWhen DEF Deactivate, ResetPassword
<1>13. CASE SetRoles \/ Reactivate
  <2>1. \A t \in Ids : t \in Ids' /\ tokens'[t].family = tokens[t].family
    BY <1>13 DEF SetRoles, Reactivate, Ids
  <2> QED
    BY <1>1, <1>13, <2>1, MovesWhen DEF SetRoles, BumpAuth, Reactivate
<1>12. CASE Tick
  <2>1. now' = now + 1 /\ UNCHANGED <<tokens, ended, active, authVersion>>
    BY <1>12 DEF Tick, user
  <2>2. \A a \in access : a \in access' \/ a.expires <= now'
    <3>1. \A a \in access : a.expires \in Nat
      BY <1>1 DEF Access
    <3> QED
      BY <1>1, <1>12, <3>1 DEF Tick
  <2> QED
    BY <1>1, <2>1, <2>2, MovesWhen DEF Ids
<1> QED
  BY <1>4, <1>5, <1>6, <1>7, <1>8, <1>9, <1>10, <1>11, <1>12, <1>13

\* A call that stays as it is.
LEMMA CallKept ==
  ASSUME Moves, excused => excused', NEW c, CallOK(c)
  PROVE  CallOK(c)'
<1>1. c.phase \notin {"NONE", "REFRESH"} /\ ~c.retry => Reissued(c.auth)'
  BY DEF CallOK, Moves
<1>2. ASSUME c.phase = "DENIED", ~c.retry, c.op \in {"ME", "RESTORED"}
      PROVE  Lapsed(c.auth)'
  <2>1. Lapsed(c.auth) /\ Reissued(c.auth) /\ c.auth.expires \in Nat /\ c.auth.version \in Nat
    BY <1>2 DEF CallOK, Reissued, Access
  <2>2. CASE c.auth.expires <= now \/ c.auth.family \in ended
    BY <2>1, <2>2 DEF Lapsed, Moves
  <2>3. CASE c.auth.version < authVersion
    BY <2>1, <2>3 DEF Lapsed, Moves
  <2> QED
    BY <2>1, <2>2, <2>3 DEF Lapsed, Reissued
<1> QED
  BY <1>1, <1>2 DEF CallOK

LEMMA OtherCallsKept ==
  ASSUME StaysInv, Moves, excused => excused', NEW s \in Slots,
         NEW d, d = call'[s], CallOK(d)',
         \A r \in Slots \ {s} : call'[r] = call[r]
  PROVE  \A r \in Slots : CallOK(call[r])'
<1>1. ASSUME NEW r \in Slots
      PROVE  \E c : c = call'[r] /\ CallOK(c)'
  <2>1. CASE r = s
    BY <2>1
  <2>2. CASE r # s
    <3>1. PICK c : c = call[r] /\ CallOK(c)
      BY DEF StaysInv
    <3>2. CallOK(c)'
      BY <3>1, CallKept
    <3> QED
      BY <2>2, <3>1, <3>2
  <2> QED
    BY <2>1, <2>2
<1> QED
  BY <1>1 DEF CallOK, Reissued, Lapsed

\* The refresh, when neither it nor the cookie changes.
LEMMA RefreshKept ==
  ASSUME Moves, CInv, RefreshOK, UNCHANGED refreshing,
         cookie' \in {cookie, None} \/ excused' \/ refreshing = NotRefreshing,
         excused => excused'
  PROVE  RefreshOK'
<1>1. refreshing.got # Nothing => Reissued(refreshing.got.access)'
  BY DEF RefreshOK, Moves
<1>2. ASSUME ~excused', refreshing.got = Nothing, refreshing.phase # "NONE"
      PROVE  cookie' \in {None, refreshing.sent}
  BY <1>2 DEF RefreshOK, NotRefreshing
<1>3. ASSUME ~excused', refreshing.got = Nothing, refreshing.phase = "ANSWER"
      PROVE  Over(refreshing.sent)'
  <2>1. Over(refreshing.sent) /\ refreshing.sent \in Ids \cup {None}
    BY <1>3 DEF RefreshOK, CInv, FreshOK, Held
  <2>2. refreshing.sent = None \/ tokens'[refreshing.sent].family \in ended'
    BY <2>1 DEF Over, Moves
  <2> QED
    BY <2>2 DEF Over
<1>4. refreshing'.got = refreshing.got /\ refreshing'.phase = refreshing.phase
      /\ refreshing'.sent = refreshing.sent
  OBVIOUS
<1> QED
  BY <1>1, <1>2, <1>3, <1>4 DEF RefreshOK, Over

\* The tab asks, with a call that may be sent again.
LEMMA AskStays ==
  ASSUME StaysInv, CInv, IInv, AskLogin \/ AskPage \/ AskLogout \/ AskPassword
  PROVE  StaysInv'
<1>1. PICK op : Ask(op)
  BY DEF AskLogin, AskPage, AskLogout, AskPassword
<1>2. PICK s \in Slots : Put(s, Sent(op, token, TRUE))
  BY <1>1 DEF Ask
<1>3. UNCHANGED <<vars, cookie, refreshing, excused>>
  BY <1>1 DEF Ask
<1>4. Moves
  BY <1>3, SessionsMove
<1>5. /\ call'[s] = Sent(op, token, TRUE)
      /\ \A r \in Slots \ {s} : call'[r] = call[r]
  BY <1>2, CallPut DEF CInv, Sent, Idle
<1>6. PICK d : d = call'[s] /\ d.phase = "SENT" /\ d.retry
  BY <1>5 DEF Sent
<1>7. CallOK(d)'
  BY <1>6 DEF CallOK
<1>8. \A r \in Slots : CallOK(call[r])'
  BY <1>3, <1>4, <1>5, <1>6, <1>7, OtherCallsKept
<1> QED
  BY <1>3, <1>4, <1>8, RefreshKept DEF StaysInv

\* A query is refused for good.
LEMMA NotAllowed ==
  ASSUME IInv, NEW a, Reissued(a), ~Allowed(a)
  PROVE  Lapsed(a)
<1>1. CASE a \notin access
  BY <1>1 DEF Reissued, Lapsed
<1>2. CASE ~(active /\ a.version = authVersion)
  <2>1. a.version \in Nat /\ authVersion \in Nat
    BY DEF Reissued, Access, IInv, TokensOK
  <2> QED
    BY <1>2, <2>1 DEF Reissued, Lapsed
<1>3. CASE a.family \notin LiveFamilies
  <2> SUFFICES ASSUME a.family \notin ended PROVE FALSE
    BY DEF Lapsed
  <2>1. a.family \in Families \ ended
    BY DEF Reissued
  <2>2. PICK t \in Live : tokens[t].family = a.family
    BY <2>1 DEF IInv, OneLiveToken
  <2> QED
    BY <1>3, <2>2 DEF LiveFamilies
<1> QED
  BY <1>1, <1>2, <1>3 DEF Allowed, Admitted

LEMMA ServeStays ==
  ASSUME StaysInv, CInv, IInv, NEW s \in Slots, Serve(s)
  PROVE  StaysInv'
<1>1. UNCHANGED <<cookie, refreshing, excused>>
  BY DEF Serve
<1>2. PICK c : c = call[s]
  OBVIOUS
<1>3. c.phase \in {"SENT", "WAITING"} /\ CallOK(c)
  BY <1>2 DEF Serve, StaysInv
<1>4. PICK phase, got :
        /\ Answered(s, phase, got)
        /\ phase \in {"OK", "DENIED", "WAITING"}
        /\ phase = "WAITING" => c.op \in {"LOGOUT", "PASSWORD"}
        /\ c.op \in {"ME", "RESTORED"} /\ phase = "DENIED" => ~Allowed(c.auth) /\ UNCHANGED vars
  <2>1. CASE ServeQuery(s)
    BY <1>2, <2>1 DEF ServeQuery
  <2>2. CASE ServeLogin(s)
    BY <1>2, <2>2 DEF ServeLogin
  <2>3. CASE ServeCommand(s)
    BY <1>2, <2>3 DEF ServeCommand
  <2>4. CASE call[s].phase = "WAITING" /\ ServeWaiting(s)
    <3>1. c.op \in {"LOGOUT", "PASSWORD"}
      BY <1>2, <1>3, <2>4 DEF CallOK
    <3>2. \E phase, got : Answered(s, phase, got) /\ phase \in {"OK", "DENIED"}
      BY <2>4 DEF ServeWaiting
    <3> QED
      BY <3>1, <3>2
  <2> QED
    BY <2>1, <2>2, <2>3, <2>4 DEF Serve
<1>5. Moves
  BY SessionsMove DEF Serve, ServeQuery, ServeLogin, ServeCommand, ServeWaiting, Allowed
<1>6. DOMAIN c = {"op", "phase", "auth", "retry", "got"}
  BY <1>2 DEF CInv, TabOK, Idle
<1>7. PICK d : /\ d = call'[s]
               /\ d.phase = phase /\ d.op = c.op /\ d.auth = c.auth /\ d.retry = c.retry
  <2>1. call'[s] = [c EXCEPT !.phase = phase, !.got = got]
    BY <1>2, <1>4 DEF Answered, Put, CInv, TabOK
  <2> QED
    BY <1>6, <2>1
<1>8. \A r \in Slots \ {s} : call'[r] = call[r]
  BY <1>4, CallAnswered DEF CInv
<1>9. ~c.retry => Reissued(c.auth) /\ Reissued(c.auth)'
  <2>1. ~c.retry => Reissued(c.auth)
    BY <1>3 DEF CallOK
  <2> QED
    BY <1>5, <2>1 DEF Moves
<1>10. ASSUME phase = "DENIED", ~c.retry, c.op \in {"ME", "RESTORED"}
       PROVE  Lapsed(c.auth)'
  <2>1. Lapsed(c.auth) /\ UNCHANGED vars
    BY <1>4, <1>9, <1>10, NotAllowed
  <2> QED
    BY <2>1 DEF Lapsed, vars, user
<1>11. CallOK(d)'
  <2>1. d.phase # "FAILED" /\ (d.phase = "WAITING" => d.op \in {"LOGOUT", "PASSWORD"})
    BY <1>4, <1>7
  <2>2. ~d.retry => Reissued(d.auth)'
    BY <1>7, <1>9
  <2>3. d.phase = "DENIED" /\ ~d.retry /\ d.op \in {"ME", "RESTORED"} => Lapsed(d.auth)'
    BY <1>7, <1>10
  <2> QED
    BY <2>1, <2>2, <2>3 DEF CallOK
<1>12. \A r \in Slots : CallOK(call[r])'
  BY <1>1, <1>5, <1>7, <1>8, <1>11, OtherCallsKept
<1> QED
  BY <1>1, <1>5, <1>12, RefreshKept DEF StaysInv

\* The calls, when the step leaves them alone.
LEMMA CallsKept ==
  ASSUME StaysInv, Moves, excused => excused', UNCHANGED call
  PROVE  \A s \in Slots : CallOK(call[s])'
<1>1. ASSUME NEW s \in Slots
      PROVE  \E c : c = call'[s] /\ CallOK(c)'
  <2>1. PICK c : c = call[s] /\ CallOK(c)
    BY DEF StaysInv
  <2> QED
    BY <2>1, CallKept
<1> QED
  BY <1>1 DEF CallOK, Reissued, Lapsed

\* A refresh brings a token that is good; it is refused when the session is over.
LEMMA ServeRefreshStays ==
  ASSUME StaysInv, CInv, IInv, ServeRefresh
  PROVE  StaysInv'
<1>1. UNCHANGED <<cookie, call>> /\ refreshing.phase = "SENT" /\ (excused => excused')
  BY DEF ServeRefresh
<1>2. PICK c : c = refreshing.sent
  OBVIOUS
<1>3. refreshing.got = Nothing /\ DOMAIN refreshing = {"phase", "sent", "got"}
  BY <1>1 DEF CInv, TabOK, NotRefreshing
<1>4. ASSUME NEW got, RefreshAnswered(got)
      PROVE  refreshing'.phase = "ANSWER" /\ refreshing'.sent = c /\ refreshing'.got = got
  BY <1>2, <1>3, <1>4 DEF RefreshAnswered
<1>5. Moves
  <2>1. (\E t \in Ids : Rotate(t) \/ RefuseStale(t) \/ DetectReuse(t)) \/ UNCHANGED vars
    BY DEF ServeRefresh, Live
  <2> QED
    BY <2>1, SessionsMove
<1>6. \A s \in Slots : CallOK(call[s])'
  BY <1>1, <1>5, CallsKept
<1>7. ~excused => cookie \in {None, c} /\ c \in Ids \cup {None}
  BY <1>1, <1>2, <1>3 DEF StaysInv, RefreshOK, CInv, FreshOK, Held
<1>8. ASSUME NEW got, RefreshAnswered(got), got # Nothing, Reissued(got.access)'
      PROVE  RefreshOK'
  <2>1. refreshing'.got = got
    BY <1>4, <1>8
  <2> QED
    BY <1>8, <2>1 DEF RefreshOK, Reissued, Nothing
<1>9. ASSUME RefreshAnswered(Nothing), ~excused' => Over(c)'
      PROVE  RefreshOK'
  <2>1. refreshing'.got = Nothing /\ refreshing'.sent = c
    BY <1>4, <1>9
  <2>2. ~excused' => cookie' \in {None, refreshing'.sent}
    BY <1>1, <1>7, <2>1
  <2> QED
    BY <1>9, <2>1, <2>2 DEF RefreshOK, Over, Nothing
<1>10. CASE c \in Live /\ Rotate(c) /\ RefreshAnswered(Brings(tokens[c].family, authVersion))
  <2> DEFINE f == tokens[c].family
  <2>1. PICK a : a = [family |-> f, version |-> authVersion, expires |-> now + AccessTime,
                      roles |-> roles]
    OBVIOUS
  <2>2. /\ c \in Ids /\ f \in Nat \ {0} /\ authVersion \in Nat /\ roles \in Nat /\ now \in Nat
        /\ AccessTime \in Nat
    <3>1. c \in Ids /\ tokens \in Seq(Token) /\ Len(tokens) \in Nat
      BY <1>10 DEF IInv, TokensOK, Live
    <3>2. tokens[c] \in Token
      BY <3>1 DEF Ids
    <3> QED
      BY <3>1, <3>2, SessionsAssumption DEF IInv, TokensOK, Token
  <2>3. a \in Access
    BY <2>1, <2>2 DEF Access
  <2>4. a \in access' /\ UNCHANGED <<active, authVersion>> /\ active
    BY <1>10, <2>1 DEF Rotate, Issue, user
  <2>5. a.family \in Families'
    BY <1>5, <2>1, <2>2 DEF Moves, Families
  <2>6. Reissued(a)'
    BY <2>1, <2>3, <2>4, <2>5 DEF Reissued
  <2>7. PICK got : got = Brings(tokens[c].family, authVersion)
    OBVIOUS
  <2>8. got.access = a /\ got.cookie = Len(tokens) + 1
    BY <2>1, <2>7 DEF Brings
  <2>9. got # Nothing
    <3>1. Len(tokens) + 1 # None
      BY DEF IInv, TokensOK, None
    <3> QED
      BY <2>8, <3>1 DEF Nothing
  <2>10. Reissued(got.access)'
    BY <2>6, <2>8
  <2> QED
    BY <1>6, <1>8, <1>10, <2>7, <2>9, <2>10 DEF StaysInv
<1>11. ASSUME c \in Ids, RefuseStale(c) \/ DetectReuse(c), RefreshAnswered(Nothing)
       PROVE  StaysInv'
  <2>1. tokens[c].family \in ended'
    BY <1>11 DEF RefuseStale, DetectReuse
  <2>2. tokens'[c].family \in ended'
    BY <1>5, <1>11, <2>1 DEF Moves
  <2>3. Over(c)'
    BY <2>2 DEF Over
  <2> QED
    BY <1>6, <1>9, <1>11, <2>3 DEF StaysInv
<1>12. CASE /\ c \notin {t \in Ids : t \in Live \/ tokens[t].replacedBy # None}
            /\ RefreshAnswered(Nothing) /\ UNCHANGED vars /\ UNCHANGED excused
  <2>1. ASSUME c \in Ids, tokens[c].family \notin ended
        PROVE  FALSE
    <3>1. tokens[c].family \in Families \ ended
      BY <2>1 DEF Families
    <3>2. PICK t \in Live : /\ tokens[t].family = tokens[c].family
                            /\ \A s \in Ids \ {t} : tokens[s].family = tokens[c].family =>
                                 s \notin Live /\ tokens[s].replacedBy \in s + 1 .. t
      BY <3>1 DEF IInv, OneLiveToken
    <3>3. c # t /\ tokens[c].replacedBy \in c + 1 .. t
      BY <1>12, <2>1, <3>2
    <3>4. c \in Nat
      BY <2>1 DEF Ids
    <3>5. tokens[c].replacedBy # None
      BY <3>3, <3>4 DEF None
    <3> QED
      BY <1>12, <2>1, <3>5
  <2>2. ~excused' => Over(c)'
    BY <1>7, <1>12, <2>1 DEF Over, vars
  <2> QED
    BY <1>6, <1>9, <1>12, <2>2 DEF StaysInv
<1>13. CASE RefreshAnswered(Nothing) /\ excused'
  BY <1>6, <1>9, <1>13 DEF StaysInv
<1> QED
  BY <1>2, <1>10, <1>11, <1>12, <1>13 DEF ServeRefresh, Live

\* An answer arrives, or a refusal.
LEMMA ReceiveStays ==
  ASSUME StaysInv, CInv, IInv, NEW s \in Slots, Receive(s)
  PROVE  StaysInv'
<1>1. UNCHANGED vars
  BY DEF Receive, ReceiveAnswer, ReceiveDenied, Fail
<1>2. Moves
  BY <1>1, SessionsMove
<1>3. excused => excused'
  BY DEF Receive, ReceiveAnswer, ReceiveSession, ReceiveMe, ReceivePage, ReceiveLogout, ReceiveDenied, Fail
<1>4. PICK d : /\ Put(s, d) /\ DOMAIN d = DOMAIN Idle
               /\ d.phase \in {"NONE", "REFRESH"} \/ (d.phase = "SENT" /\ d.retry)
  <2>1. CASE ReceiveAnswer(s) \/ Fail(s)
    BY <2>1 DEF ReceiveAnswer, ReceiveSession, ReceiveMe, ReceivePage, ReceiveLogout, Fail, Sent, Idle
  <2>2. CASE ReceiveDenied(s)
    <3>1. DOMAIN call[s] = {"op", "phase", "auth", "retry", "got"}
      BY DEF CInv, TabOK, Idle
    <3> QED
      BY <2>2, <3>1 DEF ReceiveDenied, CInv, TabOK
  <2> QED
    BY <2>1, <2>2 DEF Receive
<1>5. d = call'[s] /\ \A r \in Slots \ {s} : call'[r] = call[r]
  BY <1>4, CallPut DEF CInv
<1>6. CallOK(d)'
  BY <1>4 DEF CallOK
<1>7. \A r \in Slots : CallOK(call[r])'
  BY <1>2, <1>3, <1>5, <1>6, OtherCallsKept
<1>8. CASE ReceiveDenied(s) /\ refreshing = NotRefreshing
  <2>1. /\ refreshing'.phase = "SENT" /\ refreshing'.sent = cookie /\ refreshing'.got = Nothing
        /\ cookie' = cookie
    BY <1>8 DEF ReceiveDenied, Join, NotRefreshing
  <2> QED
    BY <1>7, <2>1 DEF StaysInv, RefreshOK, Nothing
<1>9. CASE UNCHANGED refreshing /\ (cookie' \in {cookie, None} \/ excused' \/ refreshing = NotRefreshing)
  BY <1>2, <1>3, <1>7, <1>9, RefreshKept DEF StaysInv
<1> QED
  BY <1>8, <1>9 DEF Receive, ReceiveAnswer, ReceiveSession, ReceiveMe, ReceivePage, ReceiveLogout,
                    ReceiveDenied, Fail, Join

\* The answer to a refresh arrives: the calls that waited are sent with what it brought.
LEMMA ReceiveRefreshStays ==
  ASSUME StaysInv, CInv, IInv, ReceiveRefresh
  PROVE  StaysInv'
<1>1. UNCHANGED <<vars, excused>> /\ refreshing' = NotRefreshing
  BY DEF ReceiveRefresh
<1>2. Moves
  BY <1>1, SessionsMove
<1>3. PICK got : got = refreshing.got
  OBVIOUS
<1>4. PICK W \in SUBSET Slots :
        call' = [s \in Slots |-> IF s \in W THEN AfterRefresh(call[s], got) ELSE call[s]]
  BY <1>3 DEF ReceiveRefresh
<1>5. got # Nothing => Reissued(got.access)'
  <2>1. got # Nothing => Reissued(got.access)
    BY <1>3 DEF StaysInv, RefreshOK
  <2> QED
    BY <1>2, <2>1 DEF Moves
<1>6. ASSUME NEW s \in Slots
      PROVE  \E d : d = call'[s] /\ CallOK(d)'
  <2>1. CASE s \in W
    <3>1. PICK d : d = call'[s]
      OBVIOUS
    <3>2. /\ d.phase \in {"NONE", "SENT"}
          /\ d.phase = "SENT" /\ ~d.retry => got # Nothing /\ d.auth = got.access
      BY <1>4, <2>1, <3>1 DEF AfterRefresh, Sent, Idle
    <3>3. d.phase = "SENT" /\ ~d.retry => Reissued(d.auth)'
      BY <1>5, <3>2
    <3> QED
      BY <3>1, <3>2, <3>3 DEF CallOK
  <2>2. CASE s \notin W
    <3>1. PICK c : c = call[s] /\ CallOK(c)
      BY DEF StaysInv
    <3>2. CallOK(c)'
      BY <1>1, <1>2, <3>1, CallKept
    <3> QED
      BY <1>4, <2>2, <3>1, <3>2
  <2> QED
    BY <2>1, <2>2
<1>7. \A s \in Slots : CallOK(call[s])'
  BY <1>6 DEF CallOK, Reissued, Lapsed
<1>8. RefreshOK'
  BY <1>1 DEF RefreshOK, NotRefreshing, Nothing
<1> QED
  BY <1>7, <1>8 DEF StaysInv

\* Losses are excused; a page loaded anew has one call, which waits for a refresh.
LEMMA TroubleStays ==
  ASSUME StaysInv, CInv, IInv, LoseRefresh \/ LoadAnew \/ \E s \in Slots : Lose(s)
  PROVE  StaysInv'
<1>1. UNCHANGED vars /\ (excused => excused')
  BY DEF LoseRefresh, LoadAnew, Lose, Loss
<1>2. Moves
  BY <1>1, SessionsMove
<1>3. CASE LoseRefresh
  <2>1. DOMAIN refreshing = {"phase", "sent", "got"}
    BY DEF CInv, TabOK, NotRefreshing
  <2>2. refreshing'.got = Nothing /\ excused' = TRUE /\ UNCHANGED call
    BY <1>3, <2>1 DEF LoseRefresh, Loss, RefreshAnswered
  <2>3. \A s \in Slots : CallOK(call[s])'
    BY <1>1, <1>2, <2>2, CallsKept
  <2> QED
    BY <2>2, <2>3 DEF StaysInv, RefreshOK, Nothing
<1>4. ASSUME NEW s \in Slots, Lose(s)
      PROVE  StaysInv'
  <2>1. /\ Answered(s, "FAILED", Nothing) /\ UNCHANGED refreshing /\ excused' = TRUE
        /\ call[s].phase \notin {"NONE", "REFRESH"}
    BY <1>4 DEF Lose, Loss
  <2>2. PICK c : c = call[s] /\ CallOK(c) /\ DOMAIN c = {"op", "phase", "auth", "retry", "got"}
    BY DEF StaysInv, CInv, TabOK, Idle
  <2>3. PICK d : /\ d = call'[s]
                 /\ d.phase = "FAILED" /\ d.op = c.op /\ d.auth = c.auth /\ d.retry = c.retry
    <3>1. call'[s] = [c EXCEPT !.phase = "FAILED", !.got = Nothing]
      BY <2>1, <2>2 DEF Answered, Put, CInv, TabOK
    <3> QED
      BY <2>2, <3>1
  <2>4. \A r \in Slots \ {s} : call'[r] = call[r]
    BY <2>1, CallAnswered DEF CInv
  <2>5. ~d.retry => Reissued(d.auth)'
    <3>1. ~d.retry => Reissued(d.auth)
      BY <2>1, <2>2, <2>3 DEF CallOK
    <3> QED
      BY <1>2, <3>1 DEF Moves
  <2>6. CallOK(d)'
    BY <2>1, <2>3, <2>5 DEF CallOK
  <2>7. \A r \in Slots : CallOK(call[r])'
    BY <1>1, <1>2, <2>3, <2>4, <2>6, OtherCallsKept
  <2> QED
    BY <1>1, <1>2, <2>1, <2>7, RefreshKept DEF StaysInv
<1>5. CASE LoadAnew
  <2>1. /\ UNCHANGED cookie /\ call' = Starting
        /\ refreshing' = [NotRefreshing EXCEPT !.phase = "SENT", !.sent = cookie]
    BY <1>5 DEF LoadAnew
  <2>2. \A s \in Slots : call'[s].phase \in {"NONE", "REFRESH"}
    BY <2>1 DEF Starting, Idle
  <2>3. \A s \in Slots : CallOK(call[s])'
    BY <2>2 DEF CallOK
  <2>4. refreshing'.phase = "SENT" /\ refreshing'.sent = cookie /\ refreshing'.got = Nothing
    BY <2>1 DEF NotRefreshing
  <2> QED
    BY <2>1, <2>3, <2>4 DEF StaysInv, RefreshOK, Nothing
<1> QED
  BY <1>3, <1>4, <1>5

LEMMA ElsewhereStays ==
  ASSUME StaysInv, CInv, IInv, Elsewhere \/ UNCHANGED clientVars
  PROVE  StaysInv'
<1>1. UNCHANGED <<cookie, call, refreshing, excused>>
  BY DEF Elsewhere, clientVars, client, tab
<1>2. Moves
  BY SessionsMove DEF Elsewhere, clientVars
<1>3. \A s \in Slots : CallOK(call[s])'
  BY <1>1, <1>2, CallsKept
<1> QED
  BY <1>1, <1>2, <1>3, RefreshKept DEF StaysInv

LEMMA StaysInvStep ==
  ASSUME StaysInv, CInv, IInv, [ClientNext]_clientVars
  PROVE  StaysInv'
BY AskStays, ServeStays, ServeRefreshStays, ReceiveStays, ReceiveRefreshStays, TroubleStays,
   ElsewhereStays DEF ClientNext

\* Whatever signs the user out has one of the reasons.
LEMMA SignedOutForAReason ==
  ASSUME StaysInv, CInv, [ClientNext]_clientVars, SignedIn, ~SignedIn'
  PROVE  \/ excused' \/ SessionOver
         \/ \E s \in Slots : call[s].op = "LOGOUT" \/ RefusedForGood(s)
<1>1. CASE ReceiveRefresh
  <2>1. refreshing.got = Nothing /\ refreshing.phase = "ANSWER" /\ UNCHANGED excused
    BY <1>1 DEF ReceiveRefresh, SignedIn
  <2>2. ~excused => cookie \in {None, refreshing.sent} /\ Over(refreshing.sent)
    BY <2>1 DEF StaysInv, RefreshOK
  <2> QED
    BY <2>1, <2>2 DEF Over, SessionOver
<1>2. ASSUME NEW s \in Slots, Fail(s)
      PROVE  excused' \/ call[s].op = "LOGOUT" \/ RefusedForGood(s)
  <2> SUFFICES ASSUME call[s].op # "LOGOUT" PROVE excused' \/ RefusedForGood(s)
    OBVIOUS
  <2>1. call[s].op \in {"ME", "RESTORED"} /\ UNCHANGED excused
    BY <1>2 DEF Fail, SignsOut, SignedIn
  <2>2. CallOK(call[s])
    BY DEF StaysInv
  <2>3. call[s].phase = "FAILED" \/ (call[s].phase = "DENIED" /\ ~call[s].retry)
    BY <1>2, <2>1 DEF Fail, Refreshes
  <2> QED
    BY <2>1, <2>2, <2>3 DEF CallOK, RefusedForGood
<1>3. ASSUME NEW s \in Slots, ReceiveAnswer(s)
      PROVE  call[s].op = "LOGOUT"
  BY <1>3 DEF ReceiveAnswer, ReceiveSession, ReceiveMe, ReceivePage, ReceiveLogout, SignedIn
<1>4. ASSUME NEW s \in Slots, ReceiveDenied(s) \/ Serve(s) \/ Lose(s)
      PROVE  FALSE
  BY <1>4 DEF ReceiveDenied, Serve, Lose, SignedIn
<1>5. ASSUME AskLogin \/ AskPage \/ AskLogout \/ AskPassword
      PROVE  FALSE
  BY <1>5 DEF AskLogin, AskPage, AskLogout, AskPassword, Ask, SignedIn
<1>6. ASSUME \/ ServeRefresh \/ LoseRefresh \/ LoadAnew \/ Elsewhere \/ UNCHANGED clientVars
      PROVE  FALSE
  BY <1>6 DEF ServeRefresh, LoseRefresh, LoadAnew, Elsewhere, clientVars, client, tab, SignedIn
<1> QED
  BY <1>1, <1>2, <1>3, <1>4, <1>5, <1>6 DEF ClientNext, Receive

\* client.ts and auth.tsx: the user is taken to the login page only for a reason, for
\* any number of calls, refreshes, expiries of access tokens and changes of roles.
THEOREM StaysSignedIn == ClientSpec => KeepsItsSession
<1>1. ClientInit => CInv /\ StaysInv
  <2> SUFFICES ASSUME ClientInit
               PROVE  CInv /\ StaysInv
    OBVIOUS
  <2>1. \A s \in Slots : call[s].phase \in {"REFRESH", "NONE"}
    BY DEF ClientInit, Starting, Idle
  <2>2. refreshing.phase = "SENT" /\ refreshing.got = Nothing /\ cookie = None
    BY DEF ClientInit, NotRefreshing
  <2> QED
    BY <2>1, <2>2, InitFresh DEF StaysInv, RefreshOK, CallOK
<1>2. IInv /\ CInv /\ StaysInv /\ [ClientNext]_clientVars => CInv' /\ StaysInv'
  BY CInvStep, StaysInvStep
<1>3. CInv /\ StaysInv /\ [ClientNext]_clientVars =>
        [SignedIn /\ ~SignedIn' =>
           \/ excused' \/ SessionOver
           \/ \E s \in Slots : call[s].op = "LOGOUT" \/ RefusedForGood(s)]_clientVars
  BY SignedOutForAReason
<1> QED
  BY <1>1, <1>2, <1>3, SessionsInvariant, PTL DEF ClientSpec, KeepsItsSession

=============================================================================
