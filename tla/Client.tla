------------------------------- MODULE Client -------------------------------
(***************************************************************************)
(* The tab of a browser in which one user works (api/client.ts,            *)
(* app/auth.tsx, app/Login.tsx, main.tsx, app/Shell.tsx) and the sessions  *)
(* the server keeps for it.  The tab holds its access token in memory; the *)
(* refresh token is in a cookie.  A call refused for want of a session     *)
(* makes the tab refresh, once for all that wait for it, and is sent once  *)
(* more.                                                                   *)
(*                                                                         *)
(* Calls and answers overtake each other and get lost.  The cookie is      *)
(* attached when a call is sent and stored when its answer arrives.        *)
(***************************************************************************)
EXTENDS Sessions

CONSTANTS
  Slots,            \* bound: calls of api() under way
  NoAccess,         \* accessToken === null
  MaxTrouble,       \* bound: losses, pages loaded anew, changes of the account
  Spare,            \* bound: refresh tokens issued only after roles were changed
  Together(_, _, _) \* bound: changes of roles, losses and what the tab does that meet

ASSUME ClientAssumption == Slots \subseteq Nat /\ MaxTrouble \in Nat /\ Spare \in Nat

VARIABLES
  cookie,      \* the refresh token in the browser
  token,       \* accessToken
  me,          \* whether the user is shown as signed in
  loading,     \* AuthProvider.loading
  refreshing,  \* the refresh under way
  call,        \* the calls of api() under way
  lost,        \* how often something was lost
  excused,     \* history: something was lost, or crossed a refresh
  alarm        \* history: a reuse of refresh tokens was detected

tab == <<token, me, loading, refreshing, call>>
client == <<cookie, tab, lost, excused, alarm>>
clientVars == <<vars, client>>

\* What an answer brings: a refresh token for the cookie, and an access token.
Nothing == [cookie |-> None, access |-> NoAccess]

Brings(family, version) ==
  [cookie |-> Len(tokens) + 1,
   access |-> [family |-> family, version |-> version, expires |-> now + AccessTime,
               roles |-> roles]]

\* START is the restoring of the session; ME and RESTORED are the calls of /auth/me
\* that reload makes after a login or new password, and after START.
Ops == {"START", "RESTORED", "LOGIN", "ME", "PAGE", "LOGOUT", "PASSWORD"}

Idle == [op |-> "NONE", phase |-> "NONE", auth |-> NoAccess, retry |-> FALSE, got |-> Nothing]

Sent(op, auth, retry) ==
  [op |-> op, phase |-> "SENT", auth |-> auth, retry |-> retry, got |-> Nothing]

NotRefreshing == [phase |-> "NONE", sent |-> None, got |-> Nothing]

ClientTypeOK ==
  /\ cookie \in Ids \cup {None}
  /\ token \in Access \cup {NoAccess}
  /\ me \in BOOLEAN /\ loading \in BOOLEAN
  /\ refreshing.phase \in {"NONE", "SENT", "ANSWER"} /\ refreshing.sent \in Ids \cup {None}
  /\ \A s \in Slots :
       \/ call[s] = Idle
       \/ /\ call[s].op \in Ops
          /\ call[s].phase \in {"SENT", "WAITING", "OK", "DENIED", "FAILED", "REFRESH"}
          /\ call[s].phase = "WAITING" => call[s].got \in Request
  /\ lost \in 0 .. MaxTrouble
  /\ excused \in BOOLEAN /\ alarm \in BOOLEAN

-----------------------------------------------------------------------------
(* What the tab asks for.                                                  *)

Put(s, c) == call' = [call EXCEPT ![s] = c]

Ask(op) ==
  /\ \E s \in Slots :
       /\ call[s] = Idle
       /\ \A r \in Slots : call[r] = Idle => s <= r
       /\ Put(s, Sent(op, token, TRUE))
  /\ UNCHANGED <<vars, cookie, token, me, loading, refreshing, lost, excused, alarm>>

\* The button of Login is disabled while it is busy.
AskLogin ==
  /\ ~me
  /\ \A s \in Slots : call[s].op \notin {"LOGIN", "ME"}
  /\ Together(roles, excused, "LOGIN")
  /\ Ask("LOGIN")

\* Protected: only to a user who is signed in the Shell is shown, and its pages.
Shown == me /\ ~loading

\* A query of a page, the unread count of the Shell among them.
AskPage == Shown /\ Ask("PAGE")

AskLogout == Shown /\ Together(roles, excused, "COMMAND") /\ Ask("LOGOUT")

AskPassword == Shown /\ Together(roles, excused, "COMMAND") /\ Ask("PASSWORD")

-----------------------------------------------------------------------------
(* The server.                                                             *)

Allowed(a) == a \in access /\ Admitted(a)

\* No more tokens are issued, for the bounds.
Full == Len(tokens) + (IF roles = 0 THEN Spare ELSE 0) >= MaxTokens

Answered(s, phase, got) == Put(s, [call[s] EXCEPT !.phase = phase, !.got = got])

ServeQuery(s) ==
  /\ call[s].op \in {"PAGE", "ME", "RESTORED"}
  /\ Answered(s, IF Allowed(call[s].auth) THEN "OK" ELSE "DENIED", Nothing)
  /\ UNCHANGED vars

ServeLogin(s) ==
  /\ call[s].op = "LOGIN"
  /\ \/ /\ LoginSucceeds /\ ~Full
        /\ Answered(s, "OK", Brings(Len(tokens) + 1, authVersion))
     \/ /\ Locked \/ ~active \/ Full
        /\ Answered(s, "DENIED", Nothing)
        /\ UNCHANGED vars

\* What a command will do once it has the lock.
Wish(c) ==
  IF c.op = "LOGOUT" THEN [op |-> "LOGOUT", family |-> c.auth.family, current |-> None]
  ELSE [op |-> "CHANGE_PASSWORD", family |-> None, current |-> password]

\* It is refused, get_principal or a mistyped password being the reason, or it
\* waits for the lock.
ServeCommand(s) ==
  /\ call[s].op \in {"LOGOUT", "PASSWORD"}
  /\ \/ /\ ~Allowed(call[s].auth) \/ call[s].op = "PASSWORD"
        /\ Answered(s, "DENIED", Nothing)
        /\ UNCHANGED vars
     \/ /\ Allowed(call[s].auth)
        /\ Arrive(call[s].auth)
        /\ waiting' = waiting \cup {Wish(call[s])}
        /\ Answered(s, "WAITING", Wish(call[s]))

\* It has the lock.  Of two alike the later finds its work done: a logout has
\* nothing left to end, a change of password the password changed.
ServeWaiting(s) ==
  LET w == call[s].got
  IN \/ /\ w \in waiting
        /\ \/ Logout(w) /\ Answered(s, "OK", Nothing)
           \/ ChangePassword(w) /\ ~Full /\ Answered(s, "OK", Brings(Len(tokens) + 1, authVersion + 1))
           \/ RefuseChange(w) /\ Answered(s, "DENIED", Nothing)
     \/ /\ w \notin waiting \/ Full
        /\ Answered(s, IF w.op = "LOGOUT" THEN "OK" ELSE "DENIED", Nothing)
        /\ UNCHANGED vars

Serve(s) ==
  /\ \/ call[s].phase = "SENT" /\ (ServeQuery(s) \/ ServeLogin(s) \/ ServeCommand(s))
     \/ call[s].phase = "WAITING" /\ ServeWaiting(s)
  /\ UNCHANGED <<cookie, token, me, loading, refreshing, lost, excused, alarm>>

RefreshAnswered(got) == refreshing' = [refreshing EXCEPT !.phase = "ANSWER", !.got = got]

ServeRefresh ==
  LET c == refreshing.sent
  IN /\ refreshing.phase = "SENT"
     /\ \/ /\ c \in Live
           /\ Rotate(c) /\ ~Full
           /\ RefreshAnswered(Brings(tokens[c].family, authVersion))
           /\ UNCHANGED <<alarm, excused>>
        \/ /\ c \in Live
           /\ RefuseStale(c)
           /\ RefreshAnswered(Nothing)
           /\ UNCHANGED <<alarm, excused>>
        \/ /\ c \in Ids
           /\ DetectReuse(c)
           /\ RefreshAnswered(Nothing)
           /\ alarm' = TRUE
           /\ UNCHANGED excused
        \/ /\ c \notin {t \in Ids : t \in Live \/ tokens[t].replacedBy # None}
           /\ RefreshAnswered(Nothing)
           /\ UNCHANGED <<vars, alarm, excused>>
        \/ /\ Full /\ c \in Live        \* only for the bound
           /\ RefreshAnswered(Nothing)
           /\ excused' = TRUE
           /\ UNCHANGED <<vars, alarm>>
     /\ UNCHANGED <<cookie, token, me, loading, call, lost>>

-----------------------------------------------------------------------------
(* Answers arrive.                                                         *)

\* It carries a new session: the tab takes the token and asks who it is.
ReceiveSession(s) ==
  LET got == call[s].got
  IN /\ call[s].op \in {"LOGIN", "PASSWORD"}
     /\ cookie' = got.cookie
     /\ token' = got.access
     /\ Put(s, Sent("ME", got.access, TRUE))
     /\ excused' = (excused \/ refreshing # NotRefreshing)
     /\ UNCHANGED <<me, loading>>

\* reload: setMe(await api("/auth/me")).
ReceiveMe(s) ==
  /\ call[s].op \in {"ME", "RESTORED"}
  /\ me' = TRUE
  /\ loading' = (loading /\ call[s].op = "ME")
  /\ Put(s, Idle)
  /\ UNCHANGED <<cookie, token, excused>>

ReceivePage(s) ==
  /\ call[s].op = "PAGE"
  /\ Put(s, Idle)
  /\ UNCHANGED <<cookie, token, me, loading, excused>>

\* delete_cookie, and logout's finally.
ReceiveLogout(s) ==
  /\ call[s].op = "LOGOUT"
  /\ cookie' = None
  /\ token' = NoAccess
  /\ me' = FALSE
  /\ Put(s, Idle)
  /\ UNCHANGED <<loading, excused>>

ReceiveAnswer(s) ==
  /\ call[s].phase = "OK"
  /\ ReceiveSession(s) \/ ReceiveMe(s) \/ ReceivePage(s) \/ ReceiveLogout(s)
  /\ UNCHANGED <<vars, refreshing, lost, alarm>>

\* Mutant of Refreshes: a query that is refused is shown as an error.
RefreshesCommands(c) == c.phase = "DENIED" /\ c.retry /\ c.op \notin {"LOGIN", "PAGE"}

\* Refused, though not for a wrong password of Login, nor for the second time.
Refreshes(c) == c.phase = "DENIED" /\ c.retry /\ c.op # "LOGIN"

\* Mutant of Join: every call refreshes for itself.
JoinNone == refreshing' = [NotRefreshing EXCEPT !.phase = "SENT", !.sent = cookie]

\* refreshing ??= fetch(...): a refresh already under way is shared.
Join ==
  IF refreshing = NotRefreshing
  THEN refreshing' = [NotRefreshing EXCEPT !.phase = "SENT", !.sent = cookie]
  ELSE UNCHANGED refreshing

ReceiveDenied(s) ==
  /\ Refreshes(call[s])
  /\ Put(s, [call[s] EXCEPT !.phase = "REFRESH"])
  /\ Join
  /\ UNCHANGED <<vars, cookie, token, me, loading, lost, excused, alarm>>

\* Mutant of SignsOut: whoever is refused twice is signed out.
SignsOutAlways(op) == TRUE

\* reload catches the error of its call and signs the user out, logout does so
\* finally.
SignsOut(op) == op \in {"ME", "RESTORED", "LOGOUT"}

\* api() throws: the call was refused even after a refresh, or lost.
Fail(s) ==
  LET op == call[s].op
  IN /\ call[s].phase = "FAILED" \/ (call[s].phase = "DENIED" /\ ~Refreshes(call[s]))
     /\ me' = (me /\ ~SignsOut(op))
     /\ token' = IF op = "LOGOUT" THEN NoAccess ELSE token
     /\ loading' = (loading /\ op # "RESTORED")
     /\ Put(s, Idle)
     /\ UNCHANGED <<vars, cookie, refreshing, lost, excused, alarm>>

\* What becomes of a call that waited for a refresh: sent once more, or over.
AfterRefresh(c, got) ==
  IF got = Nothing THEN Idle
  ELSE IF c.op = "START" THEN Sent("RESTORED", got.access, TRUE)
  ELSE Sent(c.op, got.access, FALSE)

\* A timer clears the settled refresh; a call refused before it fires, one of late,
\* gets the result that was just settled.
ReceiveRefresh ==
  LET got == refreshing.got
  IN /\ refreshing.phase = "ANSWER"
     /\ refreshing' = NotRefreshing
     /\ cookie' = IF got = Nothing THEN cookie ELSE got.cookie
     /\ \E late \in SUBSET {s \in Slots : Refreshes(call[s])} :
          LET W == late \cup {s \in Slots : call[s].phase = "REFRESH"}
              lostAuth == got = Nothing /\ \E s \in W : call[s].op # "START"
          IN /\ call' = [s \in Slots |-> IF s \in W THEN AfterRefresh(call[s], got) ELSE call[s]]
             /\ me' = (me /\ ~lostAuth)
             /\ token' = IF lostAuth THEN NoAccess
                         ELSE IF got = Nothing THEN token ELSE got.access
             /\ loading' = (loading /\ ~(got = Nothing /\ \E s \in W : call[s].op \in {"START", "RESTORED"}))
     /\ UNCHANGED <<vars, lost, excused, alarm>>

Receive(s) == ReceiveAnswer(s) \/ Fail(s) \/ ReceiveDenied(s)

-----------------------------------------------------------------------------
(* The network, the browser and what happens elsewhere.                    *)

MayGoWrong == lost + changes < MaxTrouble

Trouble == MayGoWrong /\ lost' = lost + 1

Loss == Trouble /\ excused' = TRUE

\* A call that does not reach the server, or an answer that does not come back.
Lose(s) ==
  /\ Loss
  /\ call[s].phase \in {"SENT", "OK", "DENIED"}
  /\ Answered(s, "FAILED", Nothing)
  /\ UNCHANGED <<vars, cookie, token, me, loading, refreshing, alarm>>

LoseRefresh ==
  /\ Loss
  /\ refreshing.phase = "SENT" \/ refreshing.got # Nothing
  /\ RefreshAnswered(Nothing)
  /\ UNCHANGED <<vars, cookie, token, me, loading, call, alarm>>

Starting == [s \in Slots |-> IF \A r \in Slots : s <= r
                             THEN [Idle EXCEPT !.op = "START", !.phase = "REFRESH"]
                             ELSE Idle]

\* The page is loaded anew: AuthProvider mounts and tries to restore the session.
LoadAnew ==
  /\ Trouble
  /\ \A s \in Slots : call[s].phase # "WAITING"
  /\ excused' = (excused \/ refreshing # NotRefreshing
                          \/ \E s \in Slots : call[s].op \in {"LOGIN", "PASSWORD", "LOGOUT"})
  /\ token' = NoAccess
  /\ me' = FALSE
  /\ loading' = TRUE
  /\ call' = Starting
  /\ refreshing' = [NotRefreshing EXCEPT !.phase = "SENT", !.sent = cookie]
  /\ UNCHANGED <<vars, cookie, alarm>>

\* Time passes; administrators change roles and scopes, each of which bumps the
\* version though Users.tsx saves both at once, or the account.
Elsewhere ==
  /\ \/ Tick \/ Reactivate
     \/ SetRoles /\ Together(roles + 1, excused, IF loading THEN "LOADING" ELSE "SHOWN")
     \/ MayGoWrong /\ (Deactivate \/ ResetPassword)
  /\ UNCHANGED client

-----------------------------------------------------------------------------

\* The tab is opened by a user who is not signed in yet.
ClientInit ==
  /\ Init
  /\ cookie = None
  /\ token = NoAccess /\ me = FALSE /\ loading = TRUE
  /\ refreshing = [NotRefreshing EXCEPT !.phase = "SENT"]
  /\ call = Starting
  /\ lost = 0 /\ excused = FALSE /\ alarm = FALSE

ClientNext ==
  \/ AskLogin \/ AskPage \/ AskLogout \/ AskPassword
  \/ ServeRefresh \/ ReceiveRefresh \/ LoseRefresh \/ LoadAnew
  \/ \E s \in Slots : Serve(s) \/ Receive(s) \/ Lose(s)
  \/ Elsewhere

\* The server answers, what arrives is handled, timers fire, and the Shell asks
\* for the unread count every minute.
Fairness ==
  /\ WF_clientVars(ServeRefresh \/ ReceiveRefresh)
  /\ WF_clientVars(AskPage)
  /\ \A s \in Slots : WF_clientVars(Serve(s) \/ Receive(s))

ClientSpec == ClientInit /\ [][ClientNext]_clientVars /\ Fairness

-----------------------------------------------------------------------------
(* What the tab promises.                                                  *)

\* A refresh token is used once.  As long as nothing is lost and no new session
\* crosses a refresh, the tab never shows the server one that was rotated, however
\* many of its calls are refused at the same time: the theft alarm, which would end
\* the session, means a theft.
NoFalseAlarm == alarm => excused

SignedIn == me \/ loading

SessionOver == cookie = None \/ tokens[cookie].family \in ended

\* An access token that has expired, whose session is over, or whose user had roles or
\* scopes changed since it was issued.
Lapsed(a) == a.expires <= now \/ a.family \in ended \/ a.version # authVersion

\* reload's call was refused after a refresh already, with the token that had brought.
RefusedForGood(s) ==
  /\ call[s].op \in {"ME", "RESTORED"}
  /\ call[s].phase = "DENIED" /\ ~call[s].retry
  /\ Lapsed(call[s].auth)

\* An access token that expires is not a session that ends, nor is a change of roles or
\* scopes: under the same conditions a user is taken to the login page only after a
\* logout, when the session of the cookie is over, or when the call of reload outlasts
\* the token it was given by a refresh.  The last is what the second change of one save
\* of Users.tsx can do to a page that is just being loaded; no other call, however often
\* refused, signs the user out of a live session.
KeepsItsSession ==
  [][SignedIn /\ ~SignedIn' =>
       \/ excused' \/ SessionOver
       \/ \E s \in Slots : call[s].op = "LOGOUT" \/ RefusedForGood(s)]_clientVars

\* The tab does not load for ever; and when all sessions are over, whatever ended
\* them, its user is taken to the login page, even one who does nothing.
EndedIsNoticed ==
  /\ loading ~> ~loading
  /\ me /\ LiveFamilies = {} ~> ~me \/ LiveFamilies # {}

=============================================================================
