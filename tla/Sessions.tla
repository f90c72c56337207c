------------------------------ MODULE Sessions ------------------------------
(***************************************************************************)
(* Browser sessions of the Telemetry UI backend (internal/auth/internal):  *)
(* OAuth login with a one-use attempt (oauth_handlers.go), authentication  *)
(* with rotation of the session identifier, logout (session_handlers.go)   *)
(* and the PostgreSQL store behind them (postgres_store.go), shared by all *)
(* replicas.                                                               *)
(*                                                                         *)
(* Requests run at the same time, and PostgreSQL runs READ COMMITTED: a    *)
(* statement picks the rows that were committed when it began, waits for   *)
(* the lock of a row another transaction is changing and then looks at     *)
(* that row again; rows inserted meanwhile it does not see.                *)
(*                                                                         *)
(* Identifiers are random, so the n-th issued is n, and a family is its    *)
(* first identifier.  All clocks agree.  0 is no cookie, and NULL.         *)
(***************************************************************************)
EXTENDS Integers, FiniteSets

CONSTANTS Browser,
          Req,          \* requests in progress at most
          Lifetime,     \* AUTH_SESSION_LIFETIME
          Idle,         \* AUTH_IDLE_TIMEOUT
          Renewal,      \* AUTH_RENEWAL_INTERVAL
          Grace,        \* renewalGracePeriod (30s)
          Patience,     \* ticks UseSession may take (3s)
          AttemptTTL,   \* attemptLifetime
          Horizon,      \* bound: the last time
          MaxIssued,    \* bound: identifiers issued
          MaxAttempts   \* bound: logins started

ASSUME SessionsAssumption ==
  /\ Browser # {}
  /\ {Lifetime, Idle, Renewal, Grace, Patience, AttemptTTL} \subseteq Nat \ {0}
  /\ Patience <= Grace /\ Grace <= Renewal /\ Renewal < Idle /\ Idle <= Lifetime
  /\ {Horizon, MaxIssued, MaxAttempts} \subseteq Nat

VARIABLES clock,
          sessions,   \* identifier -> its row of telemetry_sessions
          attempts,   \* attempt -> its expires_at (telemetry_login_attempts)
          jar,        \* browser -> its session cookie
          stateJar,   \* browser -> its state cookie
          phase,      \* request -> where its handler stands
          owner,      \* request -> the browser that sent it
          tok,        \* request -> the session cookie it came with
          att,        \* request -> the attempt it came with, 0 if no callback
          at,         \* request -> time.Now() of UseSession
          fam,        \* request -> the family DeleteSession has found, 0 if none
          doomed,     \* request -> rows its DELETE has picked
          cookie,     \* request -> the session cookie its reply sets
          sweep,      \* rows the DELETE of Cleanup has picked
          sweepAt,    \* the time of that statement, 0 if none runs
          issued,     \* identifiers issued so far
          started,    \* attempts made so far
          deadline,   \* history: family -> the expiry its login set
          opened,     \* history: attempt -> sessions opened with it
          ended,      \* history: families a logout or login has deleted
          escaped,    \* history: families rotated while one was deleting them
          missed      \* history: browsers that lost the reply of a rotation

cleanupVars == <<sweep, sweepAt>>
reqVars == <<phase, owner, tok, att, at, fam, doomed, cookie>>
jars == <<jar, stateJar>>
history == <<deadline, opened, ended, escaped, missed>>
vars == <<clock, sessions, attempts, jars, reqVars, cleanupVars, issued, started, history>>

Anyone == CHOOSE b \in Browser : TRUE
Nothing == [k \in {} |-> 0]

Init ==
  /\ clock = 1 /\ sessions = Nothing /\ attempts = Nothing
  /\ jar = [b \in Browser |-> 0] /\ stateJar = [b \in Browser |-> 0]
  /\ phase = [r \in Req |-> "free"] /\ owner = [r \in Req |-> Anyone]
  /\ tok = [r \in Req |-> 0] /\ att = [r \in Req |-> 0] /\ at = [r \in Req |-> 0]
  /\ fam = [r \in Req |-> 0] /\ doomed = [r \in Req |-> {}] /\ cookie = [r \in Req |-> 0]
  /\ sweep = {} /\ sweepAt = 0 /\ issued = 0 /\ started = 0
  /\ deadline = Nothing /\ opened = Nothing
  /\ ended = {} /\ escaped = {} /\ missed = {}
-----------------------------------------------------------------------------
Live(t, now) ==
  /\ t \in DOMAIN sessions
  /\ LET s == sessions[t]
     IN  now < s.expires /\ now < s.idle /\ (s.replaced = 0 \/ now < s.replaced + Grace)

With(t, row, table) ==
  [u \in DOMAIN table \cup {t} |-> IF u = t THEN row ELSE table[u]]
Without(S, table) == [u \in DOMAIN table \ S |-> table[u]]

Family(f) == {t \in DOMAIN sessions : sessions[t].family = f}
Locked(t) == \E q \in Req : phase[q] = "holding" /\ tok[q] = t

\* The request b sends, with the cookies it has now.
Send(r, b, to, a, now) ==
  /\ phase[r] = "free"
  /\ phase' = [phase EXCEPT ![r] = to]
  /\ owner' = [owner EXCEPT ![r] = b]
  /\ tok' = [tok EXCEPT ![r] = jar[b]]
  /\ att' = [att EXCEPT ![r] = a]
  /\ at' = [at EXCEPT ![r] = now]
  /\ UNCHANGED <<fam, doomed, cookie>>

Continue(r, to) ==
  /\ phase' = [phase EXCEPT ![r] = to]
  /\ UNCHANGED <<owner, tok, att, at, fam, doomed, cookie>>

Reply(r, t) ==
  /\ phase' = [phase EXCEPT ![r] = "replying"]
  /\ cookie' = [cookie EXCEPT ![r] = t]
  /\ UNCHANGED <<owner, tok, att, at, fam, doomed>>

Forget(r) ==
  /\ phase' = [phase EXCEPT ![r] = "free"]
  /\ owner' = [owner EXCEPT ![r] = Anyone]
  /\ tok' = [tok EXCEPT ![r] = 0]
  /\ att' = [att EXCEPT ![r] = 0]
  /\ at' = [at EXCEPT ![r] = 0]
  /\ fam' = [fam EXCEPT ![r] = 0]
  /\ doomed' = [doomed EXCEPT ![r] = {}]
  /\ cookie' = [cookie EXCEPT ![r] = 0]
-----------------------------------------------------------------------------
(* UseSession: its SELECT ... FOR UPDATE picks the row if it is live.  A   *)
(* request whose row is not is turned away and changes nothing.            *)
Authenticate(r, b) ==
  /\ Live(jar[b], clock)
  /\ Send(r, b, "locking", 0, clock)
  /\ UNCHANGED <<clock, sessions, attempts, jars, cleanupVars, issued, started, history>>

\* The row's lock is free; the row is looked at again.
Lock(r) ==
  /\ phase[r] = "locking" /\ ~Locked(tok[r])
  /\ IF Live(tok[r], at[r]) THEN Continue(r, "holding") ELSE Forget(r)
  /\ UNCHANGED <<clock, sessions, attempts, jars, cleanupVars, issued, started, history>>

Earlier(a, b) == IF a <= b THEN a ELSE b
NextIdle(r) == Earlier(at[r] + Idle, sessions[tok[r]].expires)

\* Nothing is written for a replaced identifier in its grace period.
InGrace(r) ==
  /\ phase[r] = "holding" /\ sessions[tok[r]].replaced # 0
  /\ Forget(r)
  /\ UNCHANGED <<clock, sessions, attempts, jars, cleanupVars, issued, started, history>>

Touch(r) ==
  /\ phase[r] = "holding" /\ sessions[tok[r]].replaced = 0
  /\ at[r] < sessions[tok[r]].renew
  /\ sessions' = [sessions EXCEPT ![tok[r]].idle = NextIdle(r)]
  /\ Forget(r)
  /\ UNCHANGED <<clock, attempts, jars, cleanupVars, issued, started, history>>

\* Slip: a replaced identifier may be rotated too.
RotationDueInGrace(r) == phase[r] = "holding" /\ at[r] >= sessions[tok[r]].renew

RotationDue(r) ==
  /\ phase[r] = "holding" /\ sessions[tok[r]].replaced = 0
  /\ at[r] >= sessions[tok[r]].renew

\* Slip: the replacement starts a new lifetime.
ReplacementExtended(r) ==
  [sessions[tok[r]] EXCEPT !.idle = at[r] + Idle, !.renew = at[r] + Renewal,
                           !.replaced = 0, !.expires = at[r] + Lifetime]

Replacement(r) ==
  [sessions[tok[r]] EXCEPT !.idle = NextIdle(r), !.renew = at[r] + Renewal,
                           !.replaced = 0]

(* The replacement row is inserted, the old one marked, and both committed.*)
Rotate(r) ==
  LET f == sessions[tok[r]].family
  IN  /\ RotationDue(r) /\ issued < MaxIssued
      /\ issued' = issued + 1
      /\ sessions' = With(issued + 1, Replacement(r),
                          [sessions EXCEPT ![tok[r]].replaced = at[r]])
      /\ escaped' = IF \E q \in Req : phase[q] = "deleting" /\ fam[q] = f
                    THEN escaped \cup {f} ELSE escaped
      /\ Reply(r, issued + 1)
      /\ UNCHANGED <<clock, attempts, jars, cleanupVars, started, deadline, opened, ended, missed>>

\* The context is over, or the database fails: rolled back.
UseFails(r) ==
  /\ phase[r] \in {"locking", "holding"}
  /\ Forget(r)
  /\ UNCHANGED <<clock, sessions, attempts, jars, cleanupVars, issued, started, history>>
-----------------------------------------------------------------------------
(* Start: an attempt is stored and its state set as a cookie.              *)
Start(b) ==
  /\ started < MaxAttempts
  /\ started' = started + 1
  /\ attempts' = With(started + 1, clock + AttemptTTL, attempts)
  /\ opened' = With(started + 1, 0, opened)
  /\ stateJar' = [stateJar EXCEPT ![b] = started + 1]
  /\ UNCHANGED <<clock, sessions, jar, reqVars, cleanupVars, issued, deadline, ended, escaped,
                 missed>>

\* The provider sends the browser back with the state it has as a cookie.
Callback(r, b) ==
  /\ stateJar[b] # 0
  /\ Send(r, b, "consuming", stateJar[b], 0)
  /\ UNCHANGED <<clock, sessions, attempts, jars, cleanupVars, issued, started, history>>

\* Slip: the attempt is read and not deleted.
ConsumeReading(r) ==
  /\ phase[r] = "consuming"
  /\ att[r] \in DOMAIN attempts /\ clock < attempts[att[r]]
  /\ Continue(r, "finding")
  /\ UNCHANGED <<clock, sessions, attempts, jars, cleanupVars, issued, started, history>>

\* ConsumeAttempt, one DELETE ... RETURNING.
Consume(r) ==
  /\ phase[r] = "consuming"
  /\ att[r] \in DOMAIN attempts /\ clock < attempts[att[r]]
  /\ attempts' = Without({att[r]}, attempts)
  /\ Continue(r, "finding")
  /\ UNCHANGED <<clock, sessions, jars, cleanupVars, issued, started, history>>

(* The attempt is gone or over, the provider refuses, there is no grant,   *)
(* or a statement fails.  What is committed stays.                         *)
LoginFails(r) ==
  /\ att[r] # 0 /\ phase[r] \in {"consuming", "finding", "revoking", "deleting", "saving"}
  /\ Reply(r, tok[r])
  /\ UNCHANGED <<clock, sessions, attempts, jars, cleanupVars, issued, started, history>>

Logout(r, b) ==
  /\ jar[b] # 0
  /\ Send(r, b, "finding", 0, 0)
  /\ UNCHANGED <<clock, sessions, attempts, jars, cleanupVars, issued, started, history>>

\* After DeleteSession: a callback saves, a logout clears the cookie.
AfterDelete(r) == IF att[r] # 0 THEN Continue(r, "saving") ELSE Reply(r, 0)

(* DeleteSession's first statement: the family of the cookie's row.        *)
FindFamily(r) ==
  /\ phase[r] = "finding"
  /\ IF tok[r] \in DOMAIN sessions
     THEN /\ phase' = [phase EXCEPT ![r] = "revoking"]
          /\ fam' = [fam EXCEPT ![r] = sessions[tok[r]].family]
          /\ UNCHANGED <<owner, tok, att, at, doomed, cookie>>
     ELSE AfterDelete(r)
  /\ UNCHANGED <<clock, sessions, attempts, jars, cleanupVars, issued, started, history>>

\* Slip: only the cookie's own row is deleted.
BeginDeleteOne(r) ==
  /\ phase[r] = "revoking"
  /\ phase' = [phase EXCEPT ![r] = "deleting"]
  /\ doomed' = [doomed EXCEPT ![r] = {tok[r]} \cap DOMAIN sessions]
  /\ UNCHANGED <<owner, tok, att, at, fam, cookie>>
  /\ UNCHANGED <<clock, sessions, attempts, jars, cleanupVars, issued, started, history>>

(* Its second statement begins: the family's committed rows are picked.    *)
BeginDelete(r) ==
  /\ phase[r] = "revoking"
  /\ phase' = [phase EXCEPT ![r] = "deleting"]
  /\ doomed' = [doomed EXCEPT ![r] = Family(fam[r])]
  /\ UNCHANGED <<owner, tok, att, at, fam, cookie>>
  /\ UNCHANGED <<clock, sessions, attempts, jars, cleanupVars, issued, started, history>>

(* It has every lock, deletes the picked rows and commits.                 *)
EndDelete(r) ==
  /\ phase[r] = "deleting" /\ \A t \in doomed[r] : ~Locked(t)
  /\ sessions' = Without(doomed[r], sessions)
  /\ ended' = ended \cup {fam[r]}
  /\ AfterDelete(r)
  /\ UNCHANGED <<clock, attempts, jars, cleanupVars, issued, started, deadline, opened, escaped,
                 missed>>

\* Logout answers 503 and leaves the cookie.
LogoutFails(r) ==
  /\ att[r] = 0 /\ phase[r] \in {"finding", "revoking", "deleting"}
  /\ Forget(r)
  /\ UNCHANGED <<clock, sessions, attempts, jars, cleanupVars, issued, started, history>>

\* SaveSession: a new family.
Save(r) ==
  LET n == issued + 1
  IN  /\ phase[r] = "saving" /\ n <= MaxIssued
      /\ issued' = n
      /\ sessions' = With(n, [family |-> n, expires |-> clock + Lifetime, idle |-> clock + Idle,
                              renew |-> clock + Renewal, replaced |-> 0], sessions)
      /\ deadline' = With(n, clock + Lifetime, deadline)
      /\ opened' = [opened EXCEPT ![att[r]] = @ + 1]
      /\ Reply(r, n)
      /\ UNCHANGED <<clock, attempts, jars, cleanupVars, started, ended, escaped, missed>>
-----------------------------------------------------------------------------
\* Slip: the reply to an API request does not set the new cookie.
ReceiveLogin(r) ==
  LET b == owner[r]
  IN  /\ phase[r] = "replying"
      /\ jar' = IF att[r] # 0 THEN [jar EXCEPT ![b] = cookie[r]] ELSE jar
      /\ stateJar' = IF att[r] # 0 THEN [stateJar EXCEPT ![b] = 0] ELSE stateJar
      /\ Forget(r)
      /\ UNCHANGED <<clock, sessions, attempts, cleanupVars, issued, started, history>>

(* The reply reaches the browser, however late, and sets its cookies.      *)
Receive(r) ==
  LET b == owner[r]
  IN  /\ phase[r] = "replying"
      /\ jar' = IF cookie[r] = tok[r] THEN jar ELSE [jar EXCEPT ![b] = cookie[r]]
      /\ stateJar' = IF att[r] # 0 \/ cookie[r] = 0 THEN [stateJar EXCEPT ![b] = 0] ELSE stateJar
      /\ Forget(r)
      /\ UNCHANGED <<clock, sessions, attempts, cleanupVars, issued, started, history>>

\* The reply is lost, or the connection that asked is gone.
ReplyLost(r) ==
  /\ phase[r] = "replying"
  /\ missed' = missed \cup {owner[r]}
  /\ Forget(r)
  /\ UNCHANGED <<clock, sessions, attempts, jars, cleanupVars, issued, started, deadline, opened,
                 ended, escaped>>

(* Cleanup, every minute on every replica: expired attempts, then rows     *)
(* that cannot be used any more.                                           *)
CleanAttempts ==
  /\ \E a \in DOMAIN attempts : attempts[a] <= clock
  /\ attempts' = Without({a \in DOMAIN attempts : attempts[a] <= clock}, attempts)
  /\ UNCHANGED <<clock, sessions, jars, reqVars, cleanupVars, issued, started, history>>

\* Slip: replaced rows go at once.
DeadOrReplaced(t, now) ==
  LET s == sessions[t] IN s.expires <= now \/ s.idle <= now \/ s.replaced # 0

Dead(t, now) ==
  LET s == sessions[t]
  IN  s.expires <= now \/ s.idle <= now \/ (s.replaced # 0 /\ s.replaced <= now - Grace)

BeginSweep ==
  /\ sweepAt = 0 /\ \E t \in DOMAIN sessions : Dead(t, clock)
  /\ sweepAt' = clock
  /\ sweep' = {t \in DOMAIN sessions : Dead(t, clock)}
  /\ UNCHANGED <<clock, sessions, attempts, jars, reqVars, issued, started, history>>

\* Rows that had to be waited for are looked at again.
StillDead == {t \in sweep \cap DOMAIN sessions : Dead(t, sweepAt)}

EndSweep ==
  /\ sweepAt # 0 /\ \A t \in sweep : ~Locked(t)
  /\ sessions' = Without(StillDead, sessions)
  /\ sweep' = {} /\ sweepAt' = 0
  /\ UNCHANGED <<clock, attempts, jars, reqVars, issued, started, history>>

SweepFails ==
  /\ sweepAt # 0
  /\ sweep' = {} /\ sweepAt' = 0
  /\ UNCHANGED <<clock, sessions, attempts, jars, reqVars, issued, started, history>>

(* UseSession ends within its 3s context.                                  *)
Tick ==
  /\ clock < Horizon
  /\ \A r \in Req : phase[r] \in {"locking", "holding"} => clock < at[r] + Patience
  /\ clock' = clock + 1
  /\ UNCHANGED <<sessions, attempts, jars, reqVars, cleanupVars, issued, started, history>>

Handler(r) ==
  \/ \E b \in Browser : Authenticate(r, b) \/ Callback(r, b) \/ Logout(r, b)
  \/ Lock(r) \/ InGrace(r) \/ Touch(r) \/ Rotate(r) \/ UseFails(r)
  \/ Consume(r) \/ LoginFails(r) \/ Save(r)
  \/ FindFamily(r) \/ BeginDelete(r) \/ EndDelete(r) \/ LogoutFails(r)
  \/ Receive(r) \/ ReplyLost(r)

Next ==
  \/ \E r \in Req : Handler(r)
  \/ \E b \in Browser : Start(b)
  \/ CleanAttempts \/ BeginSweep \/ EndSweep \/ SweepFails
  \/ Tick

Spec == Init /\ [][Next]_vars
-----------------------------------------------------------------------------
(***************************************************************************)
(* Requests that carry the same identifier at the moment it is due rotate  *)
(* it once: a family has one current identifier at most, so no request     *)
(* forks the login into two.                                               *)
(***************************************************************************)
OneCurrent ==
  \A t, u \in DOMAIN sessions :
    /\ sessions[t].family = sessions[u].family
    /\ sessions[t].replaced = 0 /\ sessions[u].replaced = 0
    => t = u

(***************************************************************************)
(* session_handlers.go: renewal never extends the login.  Every row of a   *)
(* family keeps the expiry of its login, through any chain of rotations.   *)
(***************************************************************************)
RenewalKeepsDeadline ==
  \A t \in DOMAIN sessions :
    /\ sessions[t].expires = deadline[sessions[t].family]
    /\ sessions[t].idle <= sessions[t].expires

(***************************************************************************)
(* A row goes only because its family was deleted, or because no request   *)
(* can use it any more: cleanup ends no session, and takes no replaced     *)
(* identifier from a request that is still entitled to it.                 *)
(***************************************************************************)
OnlyEndedOrDeadGo ==
  [][\A t \in DOMAIN sessions \ DOMAIN sessions' :
       sessions[t].family \in ended' \/ ~Live(t, clock)]_vars

(***************************************************************************)
(* A login attempt opens one session at most, also when the callback       *)
(* arrives twice at the same time.                                         *)
(***************************************************************************)
OneSessionPerAttempt == \A a \in DOMAIN opened : opened[a] <= 1

(***************************************************************************)
(* A browser whose replies all arrived never holds a replaced identifier   *)
(* once its requests are answered, so concurrent requests do not log it    *)
(* out when the grace period is over.                                      *)
(***************************************************************************)
CookieIsCurrent ==
  \A b \in Browser :
    b \notin missed /\ jar[b] \in DOMAIN sessions /\ (\A r \in Req : phase[r] # "free" => owner[r] # b)
    => sessions[jar[b]].replaced = 0

(***************************************************************************)
(* Deleting a family leaves nothing of it, unless a rotation of the family *)
(* committed while the DELETE was waiting: it inserted a row the statement *)
(* does not see.                                                           *)
(***************************************************************************)
SurvivorsWereRotating ==
  \A t \in DOMAIN sessions : sessions[t].family \in ended => sessions[t].family \in escaped

(***************************************************************************)
(* AUTHENTICATION.md: logout and reauthentication revoke the complete      *)
(* rotation family.                                                        *)
(***************************************************************************)
FamilyIsRevoked == \A t \in DOMAIN sessions : sessions[t].family \notin ended
=============================================================================
