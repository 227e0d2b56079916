------------------------------ MODULE Sessions ------------------------------
(***************************************************************************)
(* The sessions of one user (auth/service.py, users/router.py,             *)
(* core/deps.py): login and lockout, rotation of refresh tokens and the    *)
(* detection of their reuse, access tokens, logout, change of password,    *)
(* and what administrators do to the account.                              *)
(*                                                                         *)
(* Nothing is assumed of clients and network: a refresh token once issued  *)
(* may come back any number of times, in any order, from any tab or        *)
(* device.  A request that needs a principal is admitted before it waits   *)
(* for the write lock, and is not looked at again once it has it.          *)
(***************************************************************************)
EXTENDS Integers, Sequences, FiniteSetsExt

CONSTANTS
  MaxFailedLogins,  \* settings.max_failed_logins
  LockTime,         \* settings.lockout_minutes
  Doublings,        \* how often the lockout doubles at most: 6
  IdleTimeout,      \* how long a refresh token may rest
  RefreshTime,      \* settings.refresh_token_hours
  AccessTime,       \* settings.access_token_minutes
  LastTime,         \* bound: the clock
  MaxTokens,        \* bound: refresh tokens issued
  MaxWaiting,       \* bound: requests waiting for the lock
  MaxChanges        \* bound: what administrators do

ASSUME SessionsAssumption ==
  /\ MaxFailedLogins \in Nat \ {0} /\ LockTime \in Nat \ {0} /\ Doublings \in Nat
  /\ IdleTimeout \in Nat /\ RefreshTime \in Nat \ {0} /\ AccessTime \in Nat \ {0}
  /\ LastTime \in Nat /\ MaxTokens \in Nat /\ MaxWaiting \in Nat /\ MaxChanges \in Nat

VARIABLES
  now,
  active,        \* users.is_active
  password,      \* how often the password was changed: which one it is
  roles,         \* how often roles or scopes were changed
  authVersion,   \* .auth_version
  failed,        \* .failed_logins
  lockedUntil,   \* .locked_until, 0 for null
  tokens,        \* refresh_tokens, in the order they were issued
  access,        \* the access tokens that have not expired
  waiting,       \* requests admitted that wait for the lock
  changes,       \* how often administrators changed the account
  ended          \* history: the families that are over

user == <<active, password, roles, authVersion>>
lockout == <<failed, lockedUntil>>
vars == <<now, user, lockout, tokens, access, waiting, changes, ended>>

None == 0

Ids == 1 .. Len(tokens)

\* A family is known by its first token.
Families == {tokens[t].family : t \in Ids}

\* revoked_at IS NULL
Live == {t \in Ids : ~tokens[t].revoked}

LiveFamilies == {tokens[t].family : t \in Live}

Token == [family     : Nat \ {0},
          used       : Nat,         \* last_used_at, or issued_at
          expires    : Nat,
          revoked    : BOOLEAN,
          replacedBy : Nat]

\* What an access token says, and (history) the roles it was issued under.
Access == [family : Nat \ {0}, version : Nat, expires : Nat, roles : Nat]

Request == [op : {"LOGOUT", "CHANGE_PASSWORD"}, family : Nat, current : Nat]

\* lockout_minutes * 2**k
Doubled[k \in Nat] == IF k = 0 THEN LockTime ELSE 2 * Doubled[k - 1]

TypeOK ==
  /\ now \in Nat
  /\ active \in BOOLEAN
  /\ password \in Nat /\ roles \in Nat /\ authVersion \in Nat
  /\ failed \in Nat
  /\ lockedUntil \in 0 .. now + Doubled[Doublings]
  /\ tokens \in Seq(Token)
  /\ \A t \in Ids : tokens[t].family \in Ids /\ tokens[t].replacedBy \in Ids \cup {None}
  /\ access \subseteq Access
  /\ waiting \subseteq Request
  /\ changes \in Nat
  /\ ended \subseteq Families

-----------------------------------------------------------------------------
(* Tokens.                                                                 *)

\* get_principal: an access token that has not expired, of an account in use, of
\* the present version, of a family with a token that was not revoked.
Admitted(a) ==
  /\ active
  /\ a.version = authVersion
  /\ a.family \in LiveFamilies

\* Mutant of Revoked: the token the session began with.
RevokedFirst(f) ==
  [t \in Ids |-> [tokens[t] EXCEPT !.revoked = @ \/ t = f]]

\* The tokens of a family with all of them revoked.
Revoked(f) ==
  [t \in Ids |-> [tokens[t] EXCEPT !.revoked = @ \/ tokens[t].family = f]]

\* revoke_all_sessions
RevokedAll == [t \in Ids |-> [tokens[t] EXCEPT !.revoked = TRUE]]

NewToken(family, expires) ==
  [family |-> family, used |-> now, expires |-> expires, revoked |-> FALSE, replacedBy |-> None]

\* _issue: a refresh token appended to the tokens ts, and an access token.
Issue(ts, family, expires, version) ==
  /\ Len(tokens) < MaxTokens
  /\ tokens' = Append(ts, NewToken(family, expires))
  /\ access' = access \cup {[family |-> family, version |-> version,
                             expires |-> now + AccessTime, roles |-> roles]}

IssueNewFamily(ts, version) == Issue(ts, Len(tokens) + 1, now + RefreshTime, version)

-----------------------------------------------------------------------------
(* Login.                                                                  *)

Locked == lockedUntil > now

\* Mutant of LockFor: it doubles for ever.
LockForEver(n) == Doubled[(n - MaxFailedLogins) \div MaxFailedLogins]

\* How long the account is locked by the n-th failure in a row.
LockFor(n) == Doubled[Min({(n - MaxFailedLogins) \div MaxFailedLogins, Doublings})]

\* Mutant of LocksAt: the limit locks once.
LocksAtLimit(n) == n = MaxFailedLogins

LocksAt(n) == n >= MaxFailedLogins

\* A wrong password.
LoginFails ==
  /\ ~Locked
  /\ failed' = failed + 1
  /\ lockedUntil' = IF LocksAt(failed + 1) THEN now + LockFor(failed + 1) ELSE lockedUntil
  /\ UNCHANGED <<now, user, tokens, access, waiting, changes, ended>>

LoginSucceeds ==
  /\ ~Locked
  /\ active
  /\ failed' = 0
  /\ lockedUntil' = 0
  /\ IssueNewFamily(tokens, authVersion)
  /\ UNCHANGED <<now, user, waiting, changes, ended>>

-----------------------------------------------------------------------------
(* Refresh.                                                                *)

\* Mutant of Expiry: every rotation starts anew.
ExpiryFromNow(t) == now + RefreshTime

\* A session does not last longer by being refreshed.
Expiry(t) == tokens[t].expires

Stale(t) == tokens[t].expires <= now \/ now - tokens[t].used > IdleTimeout

\* Mutant of Rotated: the new token is issued beside the old one.
RotatedBeside(t) == tokens

Rotated(t) ==
  [tokens EXCEPT ![t] = [@ EXCEPT !.revoked = TRUE, !.replacedBy = Len(tokens) + 1]]

Rotate(t) ==
  /\ t \in Live
  /\ ~Stale(t)
  /\ active
  /\ Issue(Rotated(t), tokens[t].family, Expiry(t), authVersion)
  /\ UNCHANGED <<now, user, lockout, waiting, changes, ended>>

\* Too late, or of an account not in use any more.
RefuseStale(t) ==
  /\ t \in Live
  /\ Stale(t) \/ ~active
  /\ tokens' = [tokens EXCEPT ![t].revoked = TRUE]
  /\ ended' = ended \cup {tokens[t].family}
  /\ UNCHANGED <<now, user, lockout, access, waiting, changes>>

\* A token that was rotated comes back: stolen, or sent twice.
DetectReuse(t) ==
  /\ t \in Ids \ Live
  /\ tokens[t].replacedBy # None
  /\ tokens' = Revoked(tokens[t].family)
  /\ ended' = ended \cup {tokens[t].family}
  /\ UNCHANGED <<now, user, lockout, access, waiting, changes>>

-----------------------------------------------------------------------------
(* What a principal asks for.                                              *)

\* The principal is loaded, and of revoke_session the family looked up, before
\* the lock is there.
Arrive(a) ==
  /\ Admitted(a)
  /\ Cardinality(waiting) < MaxWaiting
  /\ waiting' \in {waiting \cup {r} : r \in
                     {[op |-> "CHANGE_PASSWORD", family |-> None, current |-> password]} \cup
                     {[op |-> "LOGOUT", family |-> f, current |-> None] : f \in LiveFamilies}}
  /\ UNCHANGED <<now, user, lockout, tokens, access, changes, ended>>

\* logout, and revoke_session of another family.
Logout(r) ==
  /\ r.op = "LOGOUT"
  /\ waiting' = waiting \ {r}
  /\ tokens' = Revoked(r.family)
  /\ ended' = ended \cup {r.family}
  /\ UNCHANGED <<now, user, lockout, access, changes>>

ChangePassword(r) ==
  /\ r.op = "CHANGE_PASSWORD"
  /\ r.current = password
  /\ waiting' = waiting \ {r}
  /\ password' = password + 1
  /\ authVersion' = authVersion + 1
  /\ IssueNewFamily(RevokedAll, authVersion + 1)
  /\ ended' = Families
  /\ UNCHANGED <<now, active, roles, lockout, changes>>

\* The password is not the present one any more.
RefuseChange(r) ==
  /\ r.op = "CHANGE_PASSWORD"
  /\ r.current # password
  /\ waiting' = waiting \ {r}
  /\ UNCHANGED <<now, user, lockout, tokens, access, changes, ended>>

-----------------------------------------------------------------------------
(* The administrators: users/router.py.                                    *)

Change == changes < MaxChanges /\ changes' = changes + 1

\* Mutant of BumpAuth: roles are read anew at every request anyway.
NoBump == UNCHANGED authVersion

\* _bump_auth
BumpAuth == authVersion' = authVersion + 1

\* set_roles, set_scopes
SetRoles ==
  /\ Change
  /\ roles' = roles + 1
  /\ BumpAuth
  /\ UNCHANGED <<now, active, password, lockout, tokens, access, waiting, ended>>

Deactivate ==
  /\ Change
  /\ active' = FALSE
  /\ authVersion' = authVersion + 1
  /\ tokens' = RevokedAll
  /\ ended' = Families
  /\ UNCHANGED <<now, password, roles, lockout, access, waiting>>

Reactivate ==
  /\ ~active
  /\ active' = TRUE
  /\ UNCHANGED <<now, password, roles, authVersion, lockout, tokens, access, waiting, changes,
                 ended>>

ResetPassword ==
  /\ Change
  /\ password' = password + 1
  /\ failed' = 0
  /\ lockedUntil' = 0
  /\ authVersion' = authVersion + 1
  /\ tokens' = RevokedAll
  /\ ended' = Families
  /\ UNCHANGED <<now, active, roles, access, waiting>>

-----------------------------------------------------------------------------

\* An access token is worth nothing once it has expired.
Tick ==
  /\ now < LastTime
  /\ now' = now + 1
  /\ access' = {a \in access : a.expires > now + 1}
  /\ UNCHANGED <<user, lockout, tokens, waiting, changes, ended>>

Init ==
  /\ now = 0
  /\ active = TRUE /\ password = 1 /\ roles = 0 /\ authVersion = 1
  /\ failed = 0 /\ lockedUntil = 0
  /\ tokens = <<>> /\ access = {} /\ waiting = {} /\ changes = 0 /\ ended = {}

Next ==
  \/ LoginFails \/ LoginSucceeds
  \/ \E t \in Ids : Rotate(t) \/ RefuseStale(t) \/ DetectReuse(t)
  \/ \E a \in access : Arrive(a)
  \/ \E r \in waiting : Logout(r) \/ ChangePassword(r) \/ RefuseChange(r)
  \/ SetRoles \/ Deactivate \/ Reactivate \/ ResetPassword
  \/ Tick

Spec == Init /\ [][Next]_vars

-----------------------------------------------------------------------------
(* What sessions promise.                                                  *)

\* What was ended (by logout, by reuse of a rotated token, by rest or age, by a
\* new password or a deactivation) never comes back, whichever of its tokens is
\* shown again and whatever was waiting meanwhile.
EndedStaysEnded == \A t \in Live : tokens[t].family \notin ended

\* Immediate revocation (13-security): no access token is admitted whose session
\* was ended or whose roles were changed since it was issued.
AdmittedIsCurrent ==
  \A a \in access : Admitted(a) => a.family \notin ended /\ a.roles = roles

\* Rotation neither loses a session nor splits it: as long as nothing ended it,
\* one token of the family is live, and every other one was replaced by a later one.
OneLiveToken ==
  \A f \in Families \ ended :
    \E t \in Live :
      /\ tokens[t].family = f
      /\ \A s \in Ids \ {t} : tokens[s].family = f =>
           s \notin Live /\ tokens[s].replacedBy \in s + 1 .. t

\* A session ends when it was to end at login, however often it is refreshed, and
\* its last access token soon after; none is given to a session that rested.
SessionsAreBounded ==
  /\ \A t \in Ids :
       LET first == tokens[t].family
       IN /\ tokens[t].expires = tokens[first].used + RefreshTime
          /\ \A s \in Ids : tokens[s].replacedBy = t =>
               tokens[t].used - tokens[s].used <= IdleTimeout
  /\ \A a \in access : a.expires < tokens[a.family].expires + AccessTime

\* Guesses of the password take the time of all the lockouts between them.
GuessesAreSlowed ==
  SumFunctionOnSet([n \in Nat |-> LockFor(n)], MaxFailedLogins .. failed - 1) <= now

=============================================================================
