--------------------------- MODULE SessionsProofs ---------------------------
(***************************************************************************)
(* Proofs about Sessions: for any number of browsers, requests, logins and *)
(* rotations, and any lifetimes the configuration accepts.                 *)
(***************************************************************************)
EXTENDS Sessions, TLAPS

Phases == {"free", "locking", "holding", "consuming", "finding", "revoking", "deleting",
           "saving", "replying"}
Row == [family : Nat, expires : Nat, idle : Nat, renew : Nat, replaced : Nat]

StoreTyped ==
  /\ clock \in Nat \ {0} /\ issued \in Nat /\ started \in Nat
  /\ \A t \in DOMAIN sessions : t \in Nat \ {0} /\ sessions[t] \in Row
  /\ jar \in [Browser -> Nat] /\ stateJar \in [Browser -> Nat]
  /\ sweepAt \in Nat /\ sweepAt <= clock
  /\ \A a \in DOMAIN attempts : a \in Nat \ {0} /\ a <= started
  /\ \A a \in Nat : a \in DOMAIN opened <=> 0 < a /\ a <= started
  /\ \A a \in DOMAIN opened : a \in Nat /\ opened[a] \in Nat

RequestsTyped ==
  /\ phase \in [Req -> Phases] /\ owner \in [Req -> Browser]
  /\ tok \in [Req -> Nat] /\ att \in [Req -> Nat] /\ at \in [Req -> Nat]
  /\ fam \in [Req -> Nat] /\ doomed \in [Req -> SUBSET Nat] /\ cookie \in [Req -> Nat]

(* No identifier is in use before it is issued, no attempt before it is    *)
(* made.                                                                   *)
RowsIssued ==
  \A t \in DOMAIN sessions :
    t <= issued /\ sessions[t].family <= issued /\ sessions[t].family \in DOMAIN deadline

RequestsIssued ==
  \A r \in Req :
    /\ tok[r] <= issued /\ cookie[r] <= issued /\ fam[r] <= issued /\ att[r] <= started
    /\ \A t \in doomed[r] : t <= issued

JarsIssued ==
  /\ \A b \in Browser : jar[b] <= issued /\ stateJar[b] <= started
  /\ \A f \in ended : f \in Nat /\ f <= issued

(* A request that holds a row's lock holds it alone, and the row is there. *)
Holding ==
  /\ \A r \in Req : phase[r] \in {"locking", "holding"} => at[r] # 0
  /\ \A r \in Req : phase[r] = "holding" => tok[r] \in DOMAIN sessions
  /\ \A q, r \in Req :
       phase[q] = "holding" /\ phase[r] = "holding" /\ tok[q] = tok[r] => q = r

(* A DELETE has picked rows of its family only, and all of them but those  *)
(* a rotation inserted since.                                              *)
Deleting ==
  \A r \in Req : phase[r] = "deleting" =>
    \A t \in DOMAIN sessions :
      /\ t \in doomed[r] => sessions[t].family = fam[r]
      /\ sessions[t].family = fam[r] => t \in doomed[r] \/ fam[r] \in escaped

\* The phases of a callback that has consumed its attempt.
Spent == {"finding", "revoking", "deleting", "saving"}

(* An attempt is in the table, or in the hands of one callback, or it has  *)
(* opened its session.                                                     *)
AttemptsSpentOnce ==
  /\ \A a \in DOMAIN attempts : opened[a] = 0
  /\ \A r \in Req :
       phase[r] \in Spent /\ att[r] # 0 => att[r] \notin DOMAIN attempts /\ opened[att[r]] = 0
  /\ \A q, r \in Req :
       phase[q] \in Spent /\ phase[r] \in Spent /\ att[q] = att[r] /\ att[r] # 0 => q = r
  /\ \A r \in Req : phase[r] = "saving" => att[r] # 0

\* The reply of r will change its browser's cookie.
Renews(r) == phase[r] = "replying" /\ cookie[r] # tok[r]

(* An identifier a reply brings is known to no browser and no request yet, *)
(* and so has not been rotated.                                            *)
RepliesFresh ==
  \A r \in Req : Renews(r) /\ cookie[r] # 0 =>
    /\ \A b \in Browser : jar[b] # cookie[r]
    /\ \A q \in Req : tok[q] # cookie[r] /\ (q # r /\ Renews(q) => cookie[q] # cookie[r])
    /\ cookie[r] \in DOMAIN sessions => sessions[cookie[r]].replaced = 0

\* No two browsers have the same identifier.
OwnIdentifiers ==
  /\ \A r \in Req, b \in Browser : tok[r] # 0 /\ jar[b] = tok[r] => owner[r] = b
  /\ \A b, c \in Browser : jar[b] # 0 /\ jar[b] = jar[c] => b = c

(* While the identifier of a browser that lost no reply is replaced, a     *)
(* reply that changes the cookie is on its way.                            *)
ReplacementOnItsWay ==
  \A b \in Browser :
    b \notin missed /\ jar[b] \in DOMAIN sessions /\ sessions[jar[b]].replaced # 0
    => \E r \in Req : owner[r] = b /\ Renews(r)

Rows == OneCurrent /\ RenewalKeepsDeadline
Cookies == RepliesFresh /\ OwnIdentifiers /\ ReplacementOnItsWay
Attempts == AttemptsSpentOnce /\ OneSessionPerAttempt
Families == Deleting /\ SurvivorsWereRotating

Types == StoreTyped /\ RequestsTyped
Issued == RowsIssued /\ RequestsIssued /\ JarsIssued
IInv == Types /\ Issued /\ Holding /\ Rows /\ Families /\ Attempts /\ Cookies

\* The variables a request does not have to itself.
sharedVars == <<clock, sessions, attempts, jars, cleanupVars, issued, started, history>>

LEMMA SomeBrowser == Anyone \in Browser
  BY SessionsAssumption DEF Anyone

(* What the four ways on of a handler do to the requests.                  *)
LEMMA SendEffect ==
  ASSUME RequestsTyped, StoreTyped, NEW r \in Req, NEW b \in Browser, NEW to \in Phases,
         NEW a \in Nat, NEW now \in Nat, Send(r, b, to, a, now)
  PROVE  /\ RequestsTyped' /\ phase[r] = "free"
         /\ phase'[r] = to /\ owner'[r] = b /\ tok'[r] = jar[b] /\ att'[r] = a /\ at'[r] = now
         /\ \A q \in Req \ {r} : /\ phase'[q] = phase[q] /\ owner'[q] = owner[q]
                                 /\ tok'[q] = tok[q] /\ att'[q] = att[q] /\ at'[q] = at[q]
         /\ fam' = fam /\ doomed' = doomed /\ cookie' = cookie
  BY DEF Send, RequestsTyped, StoreTyped

LEMMA ContinueEffect ==
  ASSUME RequestsTyped, NEW r \in Req, NEW to \in Phases, Continue(r, to)
  PROVE  /\ RequestsTyped'
         /\ phase'[r] = to /\ \A q \in Req \ {r} : phase'[q] = phase[q]
         /\ owner' = owner /\ tok' = tok /\ att' = att /\ at' = at
         /\ fam' = fam /\ doomed' = doomed /\ cookie' = cookie
  BY DEF Continue, RequestsTyped

LEMMA ReplyEffect ==
  ASSUME RequestsTyped, NEW r \in Req, NEW t \in Nat, Reply(r, t)
  PROVE  /\ RequestsTyped'
         /\ phase'[r] = "replying" /\ cookie'[r] = t
         /\ \A q \in Req \ {r} : phase'[q] = phase[q] /\ cookie'[q] = cookie[q]
         /\ owner' = owner /\ tok' = tok /\ att' = att /\ at' = at
         /\ fam' = fam /\ doomed' = doomed
  BY DEF Reply, RequestsTyped, Phases

LEMMA ForgetEffect ==
  ASSUME RequestsTyped, NEW r \in Req, Forget(r)
  PROVE  /\ RequestsTyped'
         /\ phase'[r] = "free" /\ tok'[r] = 0 /\ att'[r] = 0 /\ at'[r] = 0
         /\ fam'[r] = 0 /\ doomed'[r] = {} /\ cookie'[r] = 0
         /\ \A q \in Req \ {r} : /\ phase'[q] = phase[q] /\ owner'[q] = owner[q]
                                 /\ tok'[q] = tok[q] /\ att'[q] = att[q] /\ at'[q] = at[q]
                                 /\ fam'[q] = fam[q] /\ doomed'[q] = doomed[q]
                                 /\ cookie'[q] = cookie[q]
  BY SomeBrowser DEF Forget, RequestsTyped, Phases

LEMMA InitIInv == Init => IInv
<1> SUFFICES ASSUME Init PROVE IInv
  OBVIOUS
<1>1. StoreTyped
  BY DEF Init, StoreTyped, Nothing
<1>2. RequestsTyped
  BY SomeBrowser DEF Init, RequestsTyped, Phases
<1>3. Issued
  BY DEF Init, Issued, RowsIssued, RequestsIssued, JarsIssued, Nothing
<1>4. Holding /\ Rows
  BY DEF Init, Holding, Rows, OneCurrent, RenewalKeepsDeadline, Nothing
<1>5. Families
  BY DEF Init, Families, Deleting, SurvivorsWereRotating, Nothing
<1>6. Attempts
  BY DEF Init, Attempts, AttemptsSpentOnce, OneSessionPerAttempt, Spent, Nothing
<1>7. Cookies
  BY DEF Init, Cookies, RepliesFresh, OwnIdentifiers, ReplacementOnItsWay, Renews, Nothing
<1> QED BY <1>1, <1>2, <1>3, <1>4, <1>5, <1>6, <1>7 DEF IInv, Types

(* A request sent with the cookies its browser has.                        *)
LEMMA SendKeeps ==
  ASSUME IInv, NEW r \in Req, NEW b \in Browser, NEW a \in Nat, NEW now \in Nat,
         NEW to \in {"locking", "consuming", "finding"},
         Send(r, b, to, a, now), UNCHANGED sharedVars,
         to = "locking" => now # 0, to = "finding" => a = 0, a <= started
  PROVE  IInv'
<1> USE DEF IInv, Types, Issued, Rows, Families, Attempts, Cookies
<1>1. /\ RequestsTyped' /\ phase[r] = "free"
      /\ phase'[r] = to /\ owner'[r] = b /\ tok'[r] = jar[b] /\ att'[r] = a /\ at'[r] = now
      /\ \A q \in Req \ {r} : /\ phase'[q] = phase[q] /\ owner'[q] = owner[q]
                              /\ tok'[q] = tok[q] /\ att'[q] = att[q] /\ at'[q] = at[q]
      /\ fam' = fam /\ doomed' = doomed /\ cookie' = cookie
  BY SendEffect DEF Phases
<1>2. /\ clock' = clock /\ sessions' = sessions /\ attempts' = attempts /\ jar' = jar
      /\ stateJar' = stateJar /\ sweepAt' = sweepAt /\ issued' = issued /\ started' = started
      /\ deadline' = deadline /\ opened' = opened /\ ended' = ended /\ escaped' = escaped
      /\ missed' = missed
  BY DEF sharedVars, jars, cleanupVars, history
<1>3. RequestsTyped /\ StoreTyped
  OBVIOUS
<1>4. StoreTyped'
  BY <1>1, <1>2, <1>3 DEF StoreTyped, Row
<1>5. RowsIssued'
  BY <1>1, <1>2, <1>3 DEF RowsIssued
<1>6. RequestsIssued'
  BY <1>1, <1>2, <1>3 DEF RequestsIssued, JarsIssued, StoreTyped
<1>7. JarsIssued'
  BY <1>1, <1>2, <1>3 DEF JarsIssued
<1>8. Holding'
  BY <1>1, <1>2, <1>3 DEF Holding
<1>9. OneCurrent'
  BY <1>1, <1>2, <1>3 DEF OneCurrent
<1>10. RenewalKeepsDeadline'
  BY <1>1, <1>2, <1>3 DEF RenewalKeepsDeadline
<1>11. Deleting'
  BY <1>1, <1>2, <1>3 DEF Deleting
<1>12. SurvivorsWereRotating'
  BY <1>1, <1>2, <1>3 DEF SurvivorsWereRotating
<1>13. AttemptsSpentOnce'
  BY <1>1, <1>2, <1>3 DEF AttemptsSpentOnce, Spent
<1>14. OneSessionPerAttempt'
  BY <1>1, <1>2, <1>3 DEF OneSessionPerAttempt
<1>15. RepliesFresh'
  BY <1>1, <1>2, <1>3 DEF RepliesFresh, Renews
<1>16. OwnIdentifiers'
  BY <1>1, <1>2, <1>3 DEF OwnIdentifiers
<1>17. ReplacementOnItsWay'
  BY <1>1, <1>2, <1>3 DEF ReplacementOnItsWay, Renews
<1> QED BY <1>1, <1>2, <1>3, <1>4, <1>5, <1>6, <1>7, <1>8, <1>9, <1>10, <1>11, <1>12, <1>13, <1>14, <1>15, <1>16, <1>17

(* A request that is over, its reply not counting.                         *)
LEMMA ForgetKeeps ==
  ASSUME IInv, NEW r \in Req, phase[r] # "replying", Forget(r), UNCHANGED sharedVars
  PROVE  IInv'
<1> USE DEF IInv, Types, Issued, Rows, Families, Attempts, Cookies
<1>1. /\ RequestsTyped'
      /\ phase'[r] = "free" /\ tok'[r] = 0 /\ att'[r] = 0 /\ at'[r] = 0
      /\ fam'[r] = 0 /\ doomed'[r] = {} /\ cookie'[r] = 0
      /\ \A q \in Req \ {r} : /\ phase'[q] = phase[q] /\ owner'[q] = owner[q]
                              /\ tok'[q] = tok[q] /\ att'[q] = att[q] /\ at'[q] = at[q]
                              /\ fam'[q] = fam[q] /\ doomed'[q] = doomed[q]
                              /\ cookie'[q] = cookie[q]
  BY ForgetEffect
<1>2. /\ clock' = clock /\ sessions' = sessions /\ attempts' = attempts /\ jar' = jar
      /\ stateJar' = stateJar /\ sweepAt' = sweepAt /\ issued' = issued /\ started' = started
      /\ deadline' = deadline /\ opened' = opened /\ ended' = ended /\ escaped' = escaped
      /\ missed' = missed
  BY DEF sharedVars, jars, cleanupVars, history
<1>3. RequestsTyped /\ StoreTyped
  OBVIOUS
<1>4. StoreTyped'
  BY <1>1, <1>2, <1>3 DEF StoreTyped, Row
<1>5. RowsIssued'
  BY <1>1, <1>2, <1>3 DEF RowsIssued
<1>6. RequestsIssued'
  BY <1>1, <1>2, <1>3 DEF RequestsIssued, StoreTyped
<1>7. JarsIssued'
  BY <1>1, <1>2, <1>3 DEF JarsIssued
<1>8. Holding'
  BY <1>1, <1>2, <1>3 DEF Holding
<1>9. OneCurrent'
  BY <1>1, <1>2, <1>3 DEF OneCurrent
<1>10. RenewalKeepsDeadline'
  BY <1>1, <1>2, <1>3 DEF RenewalKeepsDeadline
<1>11. Deleting'
  BY <1>1, <1>2, <1>3 DEF Deleting
<1>12. SurvivorsWereRotating'
  BY <1>1, <1>2, <1>3 DEF SurvivorsWereRotating
<1>13. AttemptsSpentOnce'
  BY <1>1, <1>2, <1>3 DEF AttemptsSpentOnce, Spent
<1>14. OneSessionPerAttempt'
  BY <1>1, <1>2, <1>3 DEF OneSessionPerAttempt
<1>15. RepliesFresh'
  BY <1>1, <1>2, <1>3 DEF RepliesFresh, Renews
<1>16. OwnIdentifiers'
  BY <1>1, <1>2, <1>3 DEF OwnIdentifiers
<1>17. ReplacementOnItsWay'
  BY <1>1, <1>2, <1>3 DEF ReplacementOnItsWay, Renews
<1> QED BY <1>1, <1>2, <1>3, <1>4, <1>5, <1>6, <1>7, <1>8, <1>9, <1>10, <1>11, <1>12, <1>13, <1>14, <1>15, <1>16, <1>17

(* A request that gets the lock of its row.                                *)
LEMMA HoldKeeps ==
  ASSUME IInv, NEW r \in Req, phase[r] = "locking", tok[r] \in DOMAIN sessions,
         ~Locked(tok[r]), Continue(r, "holding"), UNCHANGED sharedVars
  PROVE  IInv'
<1> USE DEF IInv, Types, Issued, Rows, Families, Attempts, Cookies
<1>1. /\ RequestsTyped'
      /\ phase'[r] = "holding" /\ \A q \in Req \ {r} : phase'[q] = phase[q]
      /\ owner' = owner /\ tok' = tok /\ att' = att /\ at' = at
      /\ fam' = fam /\ doomed' = doomed /\ cookie' = cookie
  BY ContinueEffect DEF Phases
<1>2. /\ clock' = clock /\ sessions' = sessions /\ attempts' = attempts /\ jar' = jar
      /\ stateJar' = stateJar /\ sweepAt' = sweepAt /\ issued' = issued /\ started' = started
      /\ deadline' = deadline /\ opened' = opened /\ ended' = ended /\ escaped' = escaped
      /\ missed' = missed
  BY DEF sharedVars, jars, cleanupVars, history
<1>3. RequestsTyped /\ StoreTyped /\ ~Locked(tok[r])
  OBVIOUS
<1>4. StoreTyped'
  BY <1>1, <1>2, <1>3 DEF StoreTyped, Row
<1>5. RowsIssued'
  BY <1>1, <1>2, <1>3 DEF RowsIssued
<1>6. RequestsIssued'
  BY <1>1, <1>2, <1>3 DEF RequestsIssued
<1>7. JarsIssued'
  BY <1>1, <1>2, <1>3 DEF JarsIssued
<1>8. Holding'
  BY <1>1, <1>2, <1>3 DEF Holding, Locked
<1>9. OneCurrent'
  BY <1>1, <1>2, <1>3 DEF OneCurrent
<1>10. RenewalKeepsDeadline'
  BY <1>1, <1>2, <1>3 DEF RenewalKeepsDeadline
<1>11. Deleting'
  BY <1>1, <1>2, <1>3 DEF Deleting
<1>12. SurvivorsWereRotating'
  BY <1>1, <1>2, <1>3 DEF SurvivorsWereRotating
<1>13. AttemptsSpentOnce'
  BY <1>1, <1>2, <1>3 DEF AttemptsSpentOnce, Spent
<1>14. OneSessionPerAttempt'
  BY <1>1, <1>2, <1>3 DEF OneSessionPerAttempt
<1>15. RepliesFresh'
  BY <1>1, <1>2, <1>3 DEF RepliesFresh, Renews
<1>16. OwnIdentifiers'
  BY <1>1, <1>2, <1>3 DEF OwnIdentifiers
<1>17. ReplacementOnItsWay'
  BY <1>1, <1>2, <1>3 DEF ReplacementOnItsWay, Renews
<1> QED BY <1>1, <1>2, <1>3, <1>4, <1>5, <1>6, <1>7, <1>8, <1>9, <1>10, <1>11, <1>12, <1>13, <1>14, <1>15, <1>16, <1>17

(* A callback that goes on to save.                                        *)
LEMMA SavingKeeps ==
  ASSUME IInv, NEW r \in Req, phase[r] \in Spent, att[r] # 0, Continue(r, "saving"),
         UNCHANGED sharedVars
  PROVE  IInv'
<1> USE DEF IInv, Types, Issued, Rows, Families, Attempts, Cookies
<1>1. /\ RequestsTyped'
      /\ phase'[r] = "saving" /\ \A q \in Req \ {r} : phase'[q] = phase[q]
      /\ owner' = owner /\ tok' = tok /\ att' = att /\ at' = at
      /\ fam' = fam /\ doomed' = doomed /\ cookie' = cookie
  BY ContinueEffect DEF Phases
<1>2. /\ clock' = clock /\ sessions' = sessions /\ attempts' = attempts /\ jar' = jar
      /\ stateJar' = stateJar /\ sweepAt' = sweepAt /\ issued' = issued /\ started' = started
      /\ deadline' = deadline /\ opened' = opened /\ ended' = ended /\ escaped' = escaped
      /\ missed' = missed
  BY DEF sharedVars, jars, cleanupVars, history
<1>3. RequestsTyped /\ StoreTyped /\ phase[r] \in Spent
  OBVIOUS
<1>4. StoreTyped'
  BY <1>1, <1>2, <1>3 DEF StoreTyped, Row
<1>5. RowsIssued'
  BY <1>1, <1>2, <1>3 DEF RowsIssued
<1>6. RequestsIssued'
  BY <1>1, <1>2, <1>3 DEF RequestsIssued
<1>7. JarsIssued'
  BY <1>1, <1>2, <1>3 DEF JarsIssued
<1>8. Holding'
  BY <1>1, <1>2, <1>3 DEF Holding, Spent
<1>9. OneCurrent'
  BY <1>1, <1>2, <1>3 DEF OneCurrent
<1>10. RenewalKeepsDeadline'
  BY <1>1, <1>2, <1>3 DEF RenewalKeepsDeadline
<1>11. Deleting'
  BY <1>1, <1>2, <1>3 DEF Deleting, Spent
<1>12. SurvivorsWereRotating'
  BY <1>1, <1>2, <1>3 DEF SurvivorsWereRotating
<1>13. AttemptsSpentOnce'
  BY <1>1, <1>2, <1>3 DEF AttemptsSpentOnce, Spent
<1>14. OneSessionPerAttempt'
  BY <1>1, <1>2, <1>3 DEF OneSessionPerAttempt
<1>15. RepliesFresh'
  BY <1>1, <1>2, <1>3 DEF RepliesFresh, Renews, Spent
<1>16. OwnIdentifiers'
  BY <1>1, <1>2, <1>3 DEF OwnIdentifiers
<1>17. ReplacementOnItsWay'
  BY <1>1, <1>2, <1>3 DEF ReplacementOnItsWay, Renews, Spent
<1> QED BY <1>1, <1>2, <1>3, <1>4, <1>5, <1>6, <1>7, <1>8, <1>9, <1>10, <1>11, <1>12, <1>13, <1>14, <1>15, <1>16, <1>17

(* A reply that leaves the cookie alone, or clears it.                     *)
LEMMA ReplyKeeps ==
  ASSUME IInv, NEW r \in Req, NEW t \in {0, tok[r]}, phase[r] # "replying", Reply(r, t),
         UNCHANGED sharedVars
  PROVE  IInv'
<1> USE DEF IInv, Types, Issued, Rows, Families, Attempts, Cookies
<1>1. t \in Nat /\ t <= issued
  BY DEF RequestsTyped, StoreTyped, RequestsIssued
<1>2. /\ RequestsTyped'
      /\ phase'[r] = "replying" /\ cookie'[r] = t
      /\ \A q \in Req \ {r} : phase'[q] = phase[q] /\ cookie'[q] = cookie[q]
      /\ owner' = owner /\ tok' = tok /\ att' = att /\ at' = at
      /\ fam' = fam /\ doomed' = doomed
  BY <1>1, ReplyEffect
<1>3. /\ clock' = clock /\ sessions' = sessions /\ attempts' = attempts /\ jar' = jar
      /\ stateJar' = stateJar /\ sweepAt' = sweepAt /\ issued' = issued /\ started' = started
      /\ deadline' = deadline /\ opened' = opened /\ ended' = ended /\ escaped' = escaped
      /\ missed' = missed
  BY DEF sharedVars, jars, cleanupVars, history
<1>4. RequestsTyped /\ StoreTyped
  OBVIOUS
<1>5. StoreTyped'
  BY <1>1, <1>2, <1>3, <1>4 DEF StoreTyped, Row
<1>6. RowsIssued'
  BY <1>1, <1>2, <1>3, <1>4 DEF RowsIssued
<1>7. RequestsIssued'
  BY <1>1, <1>2, <1>3, <1>4 DEF RequestsIssued
<1>8. JarsIssued'
  BY <1>1, <1>2, <1>3, <1>4 DEF JarsIssued
<1>9. Holding'
  BY <1>1, <1>2, <1>3, <1>4 DEF Holding
<1>10. OneCurrent'
  BY <1>1, <1>2, <1>3, <1>4 DEF OneCurrent
<1>11. RenewalKeepsDeadline'
  BY <1>1, <1>2, <1>3, <1>4 DEF RenewalKeepsDeadline
<1>12. Deleting'
  BY <1>1, <1>2, <1>3, <1>4 DEF Deleting
<1>13. SurvivorsWereRotating'
  BY <1>1, <1>2, <1>3, <1>4 DEF SurvivorsWereRotating
<1>14. AttemptsSpentOnce'
  BY <1>1, <1>2, <1>3, <1>4 DEF AttemptsSpentOnce, Spent
<1>15. OneSessionPerAttempt'
  BY <1>1, <1>2, <1>3, <1>4 DEF OneSessionPerAttempt
<1>16. RepliesFresh'
  BY <1>1, <1>2, <1>3, <1>4 DEF RepliesFresh, Renews
<1>17. OwnIdentifiers'
  BY <1>1, <1>2, <1>3, <1>4 DEF OwnIdentifiers
<1>18. ReplacementOnItsWay'
  BY <1>1, <1>2, <1>3, <1>4 DEF ReplacementOnItsWay, Renews
<1> QED BY <1>1, <1>2, <1>3, <1>4, <1>5, <1>6, <1>7, <1>8, <1>9, <1>10, <1>11, <1>12, <1>13, <1>14, <1>15, <1>16, <1>17, <1>18

(* A row that is touched keeps its family, expiry and place.               *)
LEMMA TouchKeeps ==
  ASSUME IInv, NEW r \in Req, Touch(r)
  PROVE  IInv'
<1> USE DEF IInv, Types, Issued, Rows, Families, Attempts, Cookies
<1>1. /\ RequestsTyped'
      /\ phase'[r] = "free" /\ tok'[r] = 0 /\ att'[r] = 0 /\ at'[r] = 0
      /\ fam'[r] = 0 /\ doomed'[r] = {} /\ cookie'[r] = 0
      /\ \A q \in Req \ {r} : /\ phase'[q] = phase[q] /\ owner'[q] = owner[q]
                              /\ tok'[q] = tok[q] /\ att'[q] = att[q] /\ at'[q] = at[q]
                              /\ fam'[q] = fam[q] /\ doomed'[q] = doomed[q]
                              /\ cookie'[q] = cookie[q]
  BY ForgetEffect DEF Touch
<1>2. /\ clock' = clock /\ attempts' = attempts /\ jar' = jar /\ stateJar' = stateJar
      /\ sweepAt' = sweepAt /\ issued' = issued /\ started' = started
      /\ deadline' = deadline /\ opened' = opened /\ ended' = ended
      /\ escaped' = escaped /\ missed' = missed
  BY DEF Touch, sharedVars, jars, cleanupVars, history
<1>3. tok[r] \in DOMAIN sessions /\ phase[r] = "holding"
  BY DEF Touch, Holding
<1>4. /\ DOMAIN sessions' = DOMAIN sessions
      /\ \A t \in DOMAIN sessions :
           /\ sessions'[t] \in Row /\ sessions'[t].family = sessions[t].family
           /\ sessions'[t].expires = sessions[t].expires
           /\ sessions'[t].replaced = sessions[t].replaced
           /\ (sessions[t].idle <= sessions[t].expires => sessions'[t].idle <= sessions'[t].expires)
  BY <1>3, SessionsAssumption DEF Touch, NextIdle, Earlier, Row, StoreTyped, RequestsTyped
<1>5. RequestsTyped /\ StoreTyped
  OBVIOUS
<1>6. StoreTyped'
  BY <1>1, <1>2, <1>3, <1>4, <1>5 DEF StoreTyped, Row
<1>7. RowsIssued'
  BY <1>1, <1>2, <1>3, <1>4, <1>5 DEF RowsIssued
<1>8. RequestsIssued'
  BY <1>1, <1>2, <1>5 DEF RequestsIssued, StoreTyped
<1>9. JarsIssued'
  BY <1>1, <1>2, <1>3, <1>4, <1>5 DEF JarsIssued
<1>10. Holding'
  BY <1>1, <1>2, <1>3, <1>4, <1>5 DEF Holding
<1>11. OneCurrent'
  BY <1>1, <1>2, <1>3, <1>4, <1>5 DEF OneCurrent
<1>12. RenewalKeepsDeadline'
  BY <1>1, <1>2, <1>3, <1>4, <1>5 DEF RenewalKeepsDeadline
<1>13. Deleting'
  BY <1>1, <1>2, <1>3, <1>4, <1>5 DEF Deleting
<1>14. SurvivorsWereRotating'
  BY <1>1, <1>2, <1>3, <1>4, <1>5 DEF SurvivorsWereRotating
<1>15. AttemptsSpentOnce'
  BY <1>1, <1>2, <1>3, <1>4, <1>5 DEF AttemptsSpentOnce, Spent
<1>16. OneSessionPerAttempt'
  BY <1>1, <1>2, <1>3, <1>4, <1>5 DEF OneSessionPerAttempt
<1>17. RepliesFresh'
  BY <1>1, <1>2, <1>3, <1>4, <1>5 DEF RepliesFresh, Renews
<1>18. OwnIdentifiers'
  BY <1>1, <1>2, <1>3, <1>4, <1>5 DEF OwnIdentifiers
<1>19. ReplacementOnItsWay'
  BY <1>1, <1>2, <1>3, <1>4, <1>5 DEF ReplacementOnItsWay, Renews
<1> QED BY <1>1, <1>2, <1>3, <1>4, <1>5, <1>6, <1>7, <1>8, <1>9, <1>10, <1>11, <1>12, <1>13, <1>14, <1>15, <1>16, <1>17, <1>18, <1>19

(* The replacement row is one of the same family, with the same expiry.     *)
LEMMA RotatedRow ==
  ASSUME NEW r \in Req, sessions[tok[r]] \in Row, at[r] \in Nat
  PROVE  /\ Replacement(r) \in Row /\ Replacement(r).replaced = 0
         /\ Replacement(r).family = sessions[tok[r]].family
         /\ Replacement(r).expires = sessions[tok[r]].expires
         /\ Replacement(r).idle <= Replacement(r).expires
<1>1. NextIdle(r) \in Nat /\ NextIdle(r) <= sessions[tok[r]].expires
  BY SessionsAssumption DEF NextIdle, Earlier, Row
<1>2. at[r] + Renewal \in Nat
  BY SessionsAssumption
<1> QED BY <1>1, <1>2 DEF Replacement, Row

(* The current identifier of a family is replaced by the next one.         *)
LEMMA RotateKeeps ==
  ASSUME IInv, NEW r \in Req, Rotate(r)
  PROVE  IInv'
<1> USE DEF IInv, Types, Issued, Rows, Families, Attempts, Cookies
<1>1. /\ RequestsTyped'
      /\ phase'[r] = "replying" /\ cookie'[r] = issued + 1
      /\ \A q \in Req \ {r} : phase'[q] = phase[q] /\ cookie'[q] = cookie[q]
      /\ owner' = owner /\ tok' = tok /\ att' = att /\ at' = at
      /\ fam' = fam /\ doomed' = doomed
  BY ReplyEffect DEF Rotate, StoreTyped, Types, IInv
<1>2. /\ clock' = clock /\ attempts' = attempts /\ jar' = jar /\ stateJar' = stateJar
      /\ sweepAt' = sweepAt /\ started' = started /\ deadline' = deadline
      /\ opened' = opened /\ ended' = ended /\ missed' = missed
  BY DEF Rotate, sharedVars, jars, cleanupVars, history
<1>3. /\ tok[r] \in DOMAIN sessions /\ sessions[tok[r]].replaced = 0 /\ phase[r] = "holding"
      /\ at[r] \in Nat \ {0} /\ tok[r] \in Nat \ {0} /\ sessions[tok[r]] \in Row
  BY DEF Rotate, RotationDue, Holding, RequestsTyped, StoreTyped
<1>4. /\ issued' = issued + 1 /\ issued \in Nat
      /\ \A t \in DOMAIN sessions : t <= issued
  BY DEF Rotate, StoreTyped, RowsIssued
<1>5. /\ DOMAIN sessions' = DOMAIN sessions \cup {issued + 1}
      /\ \A t \in DOMAIN sessions \ {tok[r]} : sessions'[t] = sessions[t]
  BY <1>4 DEF Rotate, With
<1>6. /\ sessions'[tok[r]] \in Row /\ sessions'[tok[r]].replaced # 0
      /\ sessions'[tok[r]].family = sessions[tok[r]].family
      /\ sessions'[tok[r]].expires = sessions[tok[r]].expires
      /\ sessions'[tok[r]].idle = sessions[tok[r]].idle
  BY <1>3, <1>4 DEF Rotate, With, Row
<1>7. /\ sessions'[issued + 1] \in Row /\ sessions'[issued + 1].replaced = 0
      /\ sessions'[issued + 1].family = sessions[tok[r]].family
      /\ sessions'[issued + 1].expires = sessions[tok[r]].expires
      /\ sessions'[issued + 1].idle <= sessions'[issued + 1].expires
  BY <1>3, <1>4, RotatedRow, SessionsAssumption DEF Rotate, With
<1>8. /\ escaped \subseteq escaped'
      /\ \A q \in Req : phase[q] = "deleting" /\ fam[q] = sessions[tok[r]].family
                         => fam[q] \in escaped'
  BY DEF Rotate
<1>9. RequestsTyped /\ StoreTyped
  OBVIOUS
<1>10. StoreTyped'
  BY <1>1, <1>2, <1>3, <1>4, <1>5, <1>6, <1>7, <1>8, <1>9 DEF StoreTyped, Row
<1>11. RowsIssued'
  <2> SUFFICES ASSUME NEW t \in DOMAIN sessions'
               PROVE  t <= issued' /\ sessions'[t].family <= issued'
                      /\ sessions'[t].family \in DOMAIN deadline'
    BY DEF RowsIssued
  <2>1. /\ \A u \in DOMAIN sessions : u \in Nat /\ u <= issued
        /\ \A u \in DOMAIN sessions :
             sessions[u].family \in Nat /\ sessions[u].family <= issued
             /\ sessions[u].family \in DOMAIN deadline
    BY <1>9 DEF StoreTyped, Row, RowsIssued
  <2>2. \E u \in DOMAIN sessions : sessions'[t].family = sessions[u].family
    BY <1>3, <1>5, <1>6, <1>7
  <2>3. t \in DOMAIN sessions \/ t = issued + 1
    BY <1>5
  <2> QED BY <1>2, <1>4, <2>1, <2>2, <2>3
<1>12. RequestsIssued'
  BY <1>1, <1>2, <1>4, <1>9 DEF RequestsIssued, RequestsTyped
<1>13. JarsIssued'
  BY <1>1, <1>2, <1>4, <1>9 DEF JarsIssued, StoreTyped
<1>14. Holding'
  BY <1>1, <1>2, <1>3, <1>4, <1>5, <1>6, <1>7, <1>8, <1>9 DEF Holding
<1>15. OneCurrent'
  BY <1>1, <1>2, <1>3, <1>4, <1>5, <1>6, <1>7, <1>8, <1>9 DEF OneCurrent
<1>16. RenewalKeepsDeadline'
  BY <1>1, <1>2, <1>3, <1>4, <1>5, <1>6, <1>7, <1>8, <1>9 DEF RenewalKeepsDeadline
<1>17. Deleting'
  <2> SUFFICES ASSUME NEW q \in Req, phase'[q] = "deleting", NEW t \in DOMAIN sessions'
               PROVE  /\ t \in doomed'[q] => sessions'[t].family = fam'[q]
                      /\ sessions'[t].family = fam'[q]
                           => t \in doomed'[q] \/ fam'[q] \in escaped'
    BY DEF Deleting
  <2>1. q # r /\ phase[q] = "deleting" /\ fam'[q] = fam[q] /\ doomed'[q] = doomed[q]
    BY <1>1
  <2>2. CASE t = issued + 1
    <3>1. t \notin doomed[q]
      BY <2>2, <1>4, <1>9 DEF RequestsIssued, RequestsTyped
    <3> QED BY <2>1, <2>2, <3>1, <1>7, <1>8
  <2>3. CASE t \in DOMAIN sessions
    <3>1. sessions'[t].family = sessions[t].family
      BY <2>3, <1>5, <1>6
    <3> QED BY <2>1, <2>3, <3>1, <1>8 DEF Deleting
  <2> QED BY <1>5, <2>2, <2>3
<1>18. SurvivorsWereRotating'
  BY <1>1, <1>2, <1>3, <1>4, <1>5, <1>6, <1>7, <1>8, <1>9 DEF SurvivorsWereRotating
<1>19. AttemptsSpentOnce'
  BY <1>1, <1>2, <1>3, <1>4, <1>5, <1>6, <1>7, <1>8, <1>9 DEF AttemptsSpentOnce, Spent
<1>20. OneSessionPerAttempt'
  BY <1>1, <1>2, <1>3, <1>4, <1>5, <1>6, <1>7, <1>8, <1>9 DEF OneSessionPerAttempt
<1>21. RepliesFresh'
  <2> SUFFICES ASSUME NEW q \in Req, Renews(q)', cookie'[q] # 0
               PROVE  /\ \A b \in Browser : jar'[b] # cookie'[q]
                      /\ \A p \in Req : tok'[p] # cookie'[q]
                      /\ \A p \in Req \ {q} : Renews(p)' => cookie'[p] # cookie'[q]
                      /\ cookie'[q] \in DOMAIN sessions' => sessions'[cookie'[q]].replaced = 0
    BY DEF RepliesFresh, Renews
  <2>1. /\ \A b \in Browser : jar[b] \in Nat /\ jar[b] <= issued
        /\ \A p \in Req : tok[p] \in Nat /\ tok[p] <= issued
                         /\ cookie[p] \in Nat /\ cookie[p] <= issued
    BY <1>9 DEF JarsIssued, RequestsIssued, StoreTyped, RequestsTyped
  <2>2. CASE q = r
    BY <2>1, <2>2, <1>1, <1>2, <1>4, <1>7
  <2>3. CASE q # r
    <3>1. Renews(q) /\ cookie'[q] = cookie[q] /\ cookie[q] # issued + 1
      BY <2>1, <2>3, <1>1, <1>4 DEF Renews
    <3>2. \A p \in Req \ {r} : Renews(p)' => Renews(p) /\ cookie'[p] = cookie[p]
      BY <1>1 DEF Renews
    <3>3. cookie[q] # tok[r] /\ (cookie[q] \in DOMAIN sessions => sessions[cookie[q]].replaced = 0)
      BY <3>1 DEF RepliesFresh
    <3>4. cookie[q] \in DOMAIN sessions' => sessions'[cookie[q]].replaced = 0
      BY <3>1, <3>3, <1>5
    <3> QED BY <3>1, <3>2, <3>4, <1>1, <1>2 DEF RepliesFresh
  <2> QED BY <2>2, <2>3
<1>22. OwnIdentifiers'
  BY <1>1, <1>2, <1>3, <1>4, <1>5, <1>6, <1>7, <1>8, <1>9 DEF OwnIdentifiers
<1>23. ReplacementOnItsWay'
  <2> SUFFICES ASSUME NEW b \in Browser, b \notin missed', jar'[b] \in DOMAIN sessions',
                      sessions'[jar'[b]].replaced # 0
               PROVE  \E q \in Req : owner'[q] = b /\ Renews(q)'
    BY DEF ReplacementOnItsWay
  <2>1. jar[b] \in DOMAIN sessions
    BY <1>2, <1>4, <1>5, <1>7, <1>9 DEF JarsIssued, StoreTyped
  <2>2. CASE jar[b] = tok[r]
    <3>1. owner[r] = b
      BY <2>2, <1>3 DEF OwnIdentifiers
    <3>2. Renews(r)'
      BY <1>1, <1>3, <1>4, <1>9 DEF Renews, RequestsIssued, RequestsTyped
    <3> QED BY <3>1, <3>2, <1>1
  <2>3. CASE jar[b] # tok[r]
    <3>1. sessions[jar[b]].replaced # 0
      BY <2>1, <2>3, <1>2, <1>5
    <3>2. PICK q \in Req : owner[q] = b /\ Renews(q)
      BY <2>1, <3>1, <1>2 DEF ReplacementOnItsWay
    <3>3. q # r /\ Renews(q)' /\ owner'[q] = b
      BY <3>2, <1>1, <1>3 DEF Renews
    <3> QED BY <3>3
  <2> QED BY <2>2, <2>3
<1> QED BY <1>1, <1>2, <1>3, <1>4, <1>5, <1>6, <1>7, <1>8, <1>9, <1>10, <1>11, <1>12, <1>13, <1>14, <1>15, <1>16, <1>17, <1>18, <1>19, <1>20, <1>21, <1>22, <1>23

(* The provider's sign-in is started with the next attempt.                *)
LEMMA StartKeeps ==
  ASSUME IInv, NEW b \in Browser, Start(b)
  PROVE  IInv'
<1> USE DEF IInv, Types, Issued, Rows, Families, Attempts, Cookies
<1>1. /\ clock' = clock /\ sessions' = sessions /\ jar' = jar /\ sweepAt' = sweepAt
      /\ issued' = issued /\ deadline' = deadline /\ ended' = ended
      /\ escaped' = escaped /\ missed' = missed
  BY DEF Start, sharedVars, jars, cleanupVars, history
<1>2. UNCHANGED reqVars
  BY DEF Start
<1>3. /\ phase' = phase /\ owner' = owner /\ tok' = tok /\ att' = att /\ at' = at
      /\ fam' = fam /\ doomed' = doomed /\ cookie' = cookie
  BY <1>2 DEF reqVars
<1>4. /\ started \in Nat /\ started' = started + 1
      /\ DOMAIN attempts' = DOMAIN attempts \cup {started + 1}
      /\ DOMAIN opened' = DOMAIN opened \cup {started + 1}
      /\ opened'[started + 1] = 0 /\ \A a \in DOMAIN opened \ {started + 1} : opened'[a] = opened[a]
      /\ stateJar' \in [Browser -> Nat] /\ \A c \in Browser : stateJar'[c] = stateJar[c] \/ stateJar'[c] = started + 1
  BY DEF Start, With, StoreTyped
<1>5. RequestsTyped /\ StoreTyped
  OBVIOUS
<1>6. RequestsTyped'
  BY <1>3 DEF RequestsTyped
<1>7. StoreTyped'
  BY <1>1, <1>2, <1>3, <1>4, <1>5, <1>6 DEF StoreTyped, Row
<1>8. RowsIssued'
  BY <1>1, <1>2, <1>3, <1>4, <1>5, <1>6 DEF RowsIssued
<1>9. RequestsIssued'
  BY <1>1, <1>3, <1>4, <1>5 DEF RequestsIssued, RequestsTyped
<1>10. JarsIssued'
  BY <1>1, <1>2, <1>3, <1>4, <1>5, <1>6 DEF JarsIssued
<1>11. Holding'
  BY <1>1, <1>2, <1>3, <1>4, <1>5, <1>6 DEF Holding
<1>12. OneCurrent'
  BY <1>1, <1>2, <1>3, <1>4, <1>5, <1>6 DEF OneCurrent
<1>13. RenewalKeepsDeadline'
  BY <1>1, <1>2, <1>3, <1>4, <1>5, <1>6 DEF RenewalKeepsDeadline
<1>14. Deleting'
  BY <1>1, <1>2, <1>3, <1>4, <1>5, <1>6 DEF Deleting
<1>15. SurvivorsWereRotating'
  BY <1>1, <1>2, <1>3, <1>4, <1>5, <1>6 DEF SurvivorsWereRotating
<1>16. AttemptsSpentOnce'
  <2>1. \A a \in DOMAIN attempts : a # started + 1 /\ a \in DOMAIN opened
    BY <1>5 DEF StoreTyped
  <2>2. \A q \in Req : att[q] # started + 1 /\ (att[q] # 0 => att[q] \in DOMAIN opened)
    BY <1>4, <1>5 DEF RequestsIssued, RequestsTyped, StoreTyped
  <2> QED BY <1>3, <1>4, <2>1, <2>2 DEF AttemptsSpentOnce, Spent
<1>17. OneSessionPerAttempt'
  BY <1>1, <1>2, <1>3, <1>4, <1>5, <1>6 DEF OneSessionPerAttempt
<1>18. RepliesFresh'
  BY <1>1, <1>2, <1>3, <1>4, <1>5, <1>6 DEF RepliesFresh, Renews
<1>19. OwnIdentifiers'
  BY <1>1, <1>2, <1>3, <1>4, <1>5, <1>6 DEF OwnIdentifiers
<1>20. ReplacementOnItsWay'
  BY <1>1, <1>2, <1>3, <1>4, <1>5, <1>6 DEF ReplacementOnItsWay, Renews
<1> QED BY <1>1, <1>2, <1>3, <1>4, <1>5, <1>6, <1>7, <1>8, <1>9, <1>10, <1>11, <1>12, <1>13, <1>14, <1>15, <1>16, <1>17, <1>18, <1>19, <1>20

(* A callback takes its attempt out of the table.                          *)
LEMMA ConsumeKeeps ==
  ASSUME IInv, NEW r \in Req, Consume(r)
  PROVE  IInv'
<1> USE DEF IInv, Types, Issued, Rows, Families, Attempts, Cookies
<1>1. /\ clock' = clock /\ sessions' = sessions /\ jar' = jar /\ stateJar' = stateJar
      /\ sweepAt' = sweepAt /\ issued' = issued /\ started' = started
      /\ deadline' = deadline /\ opened' = opened /\ ended' = ended
      /\ escaped' = escaped /\ missed' = missed
  BY DEF Consume, sharedVars, jars, cleanupVars, history
<1>2. /\ RequestsTyped'
      /\ phase'[r] = "finding" /\ \A q \in Req \ {r} : phase'[q] = phase[q]
      /\ owner' = owner /\ tok' = tok /\ att' = att /\ at' = at
      /\ fam' = fam /\ doomed' = doomed /\ cookie' = cookie
  BY ContinueEffect DEF Consume, Phases
<1>3. /\ phase[r] = "consuming" /\ att[r] \in DOMAIN attempts
      /\ DOMAIN attempts' = DOMAIN attempts \ {att[r]}
  BY DEF Consume, Without
<1>4. RequestsTyped /\ StoreTyped
  OBVIOUS
<1>5. StoreTyped'
  BY <1>1, <1>2, <1>3, <1>4 DEF StoreTyped, Row
<1>6. RowsIssued'
  BY <1>1, <1>2, <1>3, <1>4 DEF RowsIssued
<1>7. RequestsIssued'
  BY <1>1, <1>2, <1>3, <1>4 DEF RequestsIssued
<1>8. JarsIssued'
  BY <1>1, <1>2, <1>3, <1>4 DEF JarsIssued
<1>9. Holding'
  BY <1>1, <1>2, <1>3, <1>4 DEF Holding
<1>10. OneCurrent'
  BY <1>1, <1>2, <1>3, <1>4 DEF OneCurrent
<1>11. RenewalKeepsDeadline'
  BY <1>1, <1>2, <1>3, <1>4 DEF RenewalKeepsDeadline
<1>12. Deleting'
  BY <1>1, <1>2, <1>3, <1>4 DEF Deleting
<1>13. SurvivorsWereRotating'
  BY <1>1, <1>2, <1>3, <1>4 DEF SurvivorsWereRotating
<1>14. AttemptsSpentOnce'
  BY <1>1, <1>2, <1>3, <1>4 DEF AttemptsSpentOnce, Spent
<1>15. OneSessionPerAttempt'
  BY <1>1, <1>2, <1>3, <1>4 DEF OneSessionPerAttempt
<1>16. RepliesFresh'
  BY <1>1, <1>2, <1>3, <1>4 DEF RepliesFresh, Renews
<1>17. OwnIdentifiers'
  BY <1>1, <1>2, <1>3, <1>4 DEF OwnIdentifiers
<1>18. ReplacementOnItsWay'
  BY <1>1, <1>2, <1>3, <1>4 DEF ReplacementOnItsWay, Renews
<1> QED BY <1>1, <1>2, <1>3, <1>4, <1>5, <1>6, <1>7, <1>8, <1>9, <1>10, <1>11, <1>12, <1>13, <1>14, <1>15, <1>16, <1>17, <1>18

(* The family of the cookie's row is found.                                *)
LEMMA FoundKeeps ==
  ASSUME IInv, NEW r \in Req, FindFamily(r), tok[r] \in DOMAIN sessions
  PROVE  IInv'
<1> USE DEF IInv, Types, Issued, Rows, Families, Attempts, Cookies
<1>1. /\ clock' = clock /\ sessions' = sessions /\ attempts' = attempts /\ jar' = jar
      /\ stateJar' = stateJar /\ sweepAt' = sweepAt /\ issued' = issued
      /\ started' = started /\ deadline' = deadline /\ opened' = opened
      /\ ended' = ended /\ escaped' = escaped /\ missed' = missed
  BY DEF FindFamily, sharedVars, jars, cleanupVars, history
<1>2. /\ phase[r] = "finding" /\ phase'[r] = "revoking"
      /\ \A q \in Req \ {r} : phase'[q] = phase[q] /\ fam'[q] = fam[q]
      /\ fam'[r] \in Nat /\ fam'[r] <= issued
      /\ owner' = owner /\ tok' = tok /\ att' = att /\ at' = at
      /\ doomed' = doomed /\ cookie' = cookie
  BY DEF FindFamily, RequestsTyped, StoreTyped, RowsIssued, Row
<1>3. RequestsTyped'
  BY DEF FindFamily, RequestsTyped, StoreTyped, Row, Phases
<1>4. RequestsTyped /\ StoreTyped
  OBVIOUS
<1>5. StoreTyped'
  BY <1>1, <1>2, <1>3, <1>4 DEF StoreTyped, Row
<1>6. RowsIssued'
  BY <1>1, <1>2, <1>3, <1>4 DEF RowsIssued
<1>7. RequestsIssued'
  BY <1>1, <1>2, <1>3, <1>4 DEF RequestsIssued
<1>8. JarsIssued'
  BY <1>1, <1>2, <1>3, <1>4 DEF JarsIssued
<1>9. Holding'
  BY <1>1, <1>2, <1>3, <1>4 DEF Holding
<1>10. OneCurrent'
  BY <1>1, <1>2, <1>3, <1>4 DEF OneCurrent
<1>11. RenewalKeepsDeadline'
  BY <1>1, <1>2, <1>3, <1>4 DEF RenewalKeepsDeadline
<1>12. Deleting'
  BY <1>1, <1>2, <1>3, <1>4 DEF Deleting
<1>13. SurvivorsWereRotating'
  BY <1>1, <1>2, <1>3, <1>4 DEF SurvivorsWereRotating
<1>14. AttemptsSpentOnce'
  BY <1>1, <1>2, <1>3, <1>4 DEF AttemptsSpentOnce, Spent
<1>15. OneSessionPerAttempt'
  BY <1>1, <1>2, <1>3, <1>4 DEF OneSessionPerAttempt
<1>16. RepliesFresh'
  BY <1>1, <1>2, <1>3, <1>4 DEF RepliesFresh, Renews
<1>17. OwnIdentifiers'
  BY <1>1, <1>2, <1>3, <1>4 DEF OwnIdentifiers
<1>18. ReplacementOnItsWay'
  BY <1>1, <1>2, <1>3, <1>4 DEF ReplacementOnItsWay, Renews
<1> QED BY <1>1, <1>2, <1>3, <1>4, <1>5, <1>6, <1>7, <1>8, <1>9, <1>10, <1>11, <1>12, <1>13, <1>14, <1>15, <1>16, <1>17, <1>18

(* The committed rows of the family are picked.                            *)
LEMMA BeginDeleteKeeps ==
  ASSUME IInv, NEW r \in Req, BeginDelete(r)
  PROVE  IInv'
<1> USE DEF IInv, Types, Issued, Rows, Families, Attempts, Cookies
<1>1. /\ clock' = clock /\ sessions' = sessions /\ attempts' = attempts /\ jar' = jar
      /\ stateJar' = stateJar /\ sweepAt' = sweepAt /\ issued' = issued
      /\ started' = started /\ deadline' = deadline /\ opened' = opened
      /\ ended' = ended /\ escaped' = escaped /\ missed' = missed
  BY DEF BeginDelete, sharedVars, jars, cleanupVars, history
<1>2. /\ phase[r] = "revoking" /\ phase'[r] = "deleting"
      /\ \A q \in Req \ {r} : phase'[q] = phase[q] /\ doomed'[q] = doomed[q]
      /\ \A t : t \in doomed'[r] <=> t \in DOMAIN sessions /\ sessions[t].family = fam[r]
      /\ owner' = owner /\ tok' = tok /\ att' = att /\ at' = at
      /\ fam' = fam /\ cookie' = cookie
  BY DEF BeginDelete, RequestsTyped, Family
<1>3. RequestsTyped'
  BY DEF BeginDelete, RequestsTyped, StoreTyped, Family, Phases
<1>4. RequestsTyped /\ StoreTyped
  OBVIOUS
<1>5. StoreTyped'
  BY <1>1, <1>2, <1>3, <1>4 DEF StoreTyped, Row
<1>6. RowsIssued'
  BY <1>1, <1>2, <1>3, <1>4 DEF RowsIssued
<1>7. RequestsIssued'
  BY <1>1, <1>2, <1>4 DEF RequestsIssued, RowsIssued
<1>8. JarsIssued'
  BY <1>1, <1>2, <1>3, <1>4 DEF JarsIssued
<1>9. Holding'
  BY <1>1, <1>2, <1>3, <1>4 DEF Holding
<1>10. OneCurrent'
  BY <1>1, <1>2, <1>3, <1>4 DEF OneCurrent
<1>11. RenewalKeepsDeadline'
  BY <1>1, <1>2, <1>3, <1>4 DEF RenewalKeepsDeadline
<1>12. Deleting'
  BY <1>1, <1>2, <1>3, <1>4 DEF Deleting
<1>13. SurvivorsWereRotating'
  BY <1>1, <1>2, <1>3, <1>4 DEF SurvivorsWereRotating
<1>14. AttemptsSpentOnce'
  BY <1>1, <1>2, <1>3, <1>4 DEF AttemptsSpentOnce, Spent
<1>15. OneSessionPerAttempt'
  BY <1>1, <1>2, <1>3, <1>4 DEF OneSessionPerAttempt
<1>16. RepliesFresh'
  BY <1>1, <1>2, <1>3, <1>4 DEF RepliesFresh, Renews
<1>17. OwnIdentifiers'
  BY <1>1, <1>2, <1>3, <1>4 DEF OwnIdentifiers
<1>18. ReplacementOnItsWay'
  BY <1>1, <1>2, <1>3, <1>4 DEF ReplacementOnItsWay, Renews
<1> QED BY <1>1, <1>2, <1>3, <1>4, <1>5, <1>6, <1>7, <1>8, <1>9, <1>10, <1>11, <1>12, <1>13, <1>14, <1>15, <1>16, <1>17, <1>18

(* The picked rows go, and the handler goes on.                            *)
LEMMA EndDeleteKeeps ==
  ASSUME IInv, NEW r \in Req, EndDelete(r)
  PROVE  IInv'
<1> USE DEF IInv, Types, Issued, Rows, Families, Attempts, Cookies
<1>1. /\ clock' = clock /\ attempts' = attempts /\ jar' = jar /\ stateJar' = stateJar
      /\ sweepAt' = sweepAt /\ issued' = issued /\ started' = started
      /\ deadline' = deadline /\ opened' = opened /\ escaped' = escaped
      /\ missed' = missed
  BY DEF EndDelete, sharedVars, jars, cleanupVars, history
<1>2. /\ \/ phase'[r] = "saving" /\ att[r] # 0 /\ cookie'[r] = cookie[r]
         \/ phase'[r] = "replying" /\ cookie'[r] = 0
      /\ \A q \in Req \ {r} : phase'[q] = phase[q] /\ cookie'[q] = cookie[q]
      /\ owner' = owner /\ tok' = tok /\ att' = att /\ at' = at
      /\ fam' = fam /\ doomed' = doomed
  BY DEF EndDelete, AfterDelete, Continue, Reply, RequestsTyped
<1>3. RequestsTyped'
  BY DEF EndDelete, AfterDelete, Continue, Reply, RequestsTyped, Phases
<1>4. phase[r] = "deleting" /\ ended' = ended \cup {fam[r]} /\ fam[r] \in Nat /\ cookie[r] \in Nat /\ issued \in Nat
  BY DEF EndDelete, RequestsTyped, StoreTyped
<1>5. /\ DOMAIN sessions' = DOMAIN sessions \ doomed[r]
      /\ \A t \in DOMAIN sessions' : sessions'[t] = sessions[t]
  BY DEF EndDelete, Without
<1>6. \A q \in Req : phase[q] = "holding" => tok[q] \notin doomed[r]
  BY DEF EndDelete, Locked
<1>7. RequestsTyped /\ StoreTyped
  OBVIOUS
<1>8. StoreTyped'
  BY <1>1, <1>2, <1>3, <1>4, <1>5, <1>6, <1>7 DEF StoreTyped, Row
<1>9. RowsIssued'
  BY <1>1, <1>2, <1>3, <1>4, <1>5, <1>6, <1>7 DEF RowsIssued
<1>10. RequestsIssued'
  BY <1>1, <1>2, <1>3, <1>4, <1>5, <1>6, <1>7 DEF RequestsIssued
<1>11. JarsIssued'
  BY <1>1, <1>4, <1>7 DEF JarsIssued, RequestsIssued
<1>12. Holding'
  BY <1>1, <1>2, <1>3, <1>4, <1>5, <1>6, <1>7 DEF Holding
<1>13. OneCurrent'
  BY <1>1, <1>2, <1>3, <1>4, <1>5, <1>6, <1>7 DEF OneCurrent
<1>14. RenewalKeepsDeadline'
  BY <1>1, <1>2, <1>3, <1>4, <1>5, <1>6, <1>7 DEF RenewalKeepsDeadline
<1>15. Deleting'
  BY <1>1, <1>2, <1>3, <1>4, <1>5, <1>6, <1>7 DEF Deleting
<1>16. SurvivorsWereRotating'
  <2> SUFFICES ASSUME NEW t \in DOMAIN sessions, t \notin doomed[r],
                      sessions[t].family \in ended \cup {fam[r]}
               PROVE  sessions[t].family \in escaped
    BY <1>1, <1>4, <1>5 DEF SurvivorsWereRotating
  <2> QED BY <1>4 DEF Deleting, SurvivorsWereRotating
<1>17. AttemptsSpentOnce'
  BY <1>1, <1>2, <1>3, <1>4, <1>5, <1>6, <1>7 DEF AttemptsSpentOnce, Spent
<1>18. OneSessionPerAttempt'
  BY <1>1, <1>2, <1>3, <1>4, <1>5, <1>6, <1>7 DEF OneSessionPerAttempt
<1>19. RepliesFresh'
  BY <1>1, <1>2, <1>3, <1>4, <1>5, <1>6, <1>7 DEF RepliesFresh, Renews
<1>20. OwnIdentifiers'
  BY <1>1, <1>2, <1>3, <1>4, <1>5, <1>6, <1>7 DEF OwnIdentifiers
<1>21. ReplacementOnItsWay'
  BY <1>1, <1>2, <1>3, <1>4, <1>5, <1>6, <1>7 DEF ReplacementOnItsWay, Renews
<1> QED BY <1>1, <1>2, <1>3, <1>4, <1>5, <1>6, <1>7, <1>8, <1>9, <1>10, <1>11, <1>12, <1>13, <1>14, <1>15, <1>16, <1>17, <1>18, <1>19, <1>20, <1>21

(* A new family.                                                           *)
LEMMA SaveKeeps ==
  ASSUME IInv, NEW r \in Req, Save(r)
  PROVE  IInv'
<1> USE DEF IInv, Types, Issued, Rows, Families, Attempts, Cookies
<1>1. /\ RequestsTyped'
      /\ phase'[r] = "replying" /\ cookie'[r] = issued + 1
      /\ \A q \in Req \ {r} : phase'[q] = phase[q] /\ cookie'[q] = cookie[q]
      /\ owner' = owner /\ tok' = tok /\ att' = att /\ at' = at
      /\ fam' = fam /\ doomed' = doomed
  BY ReplyEffect DEF Save, StoreTyped, Types, IInv
<1>2. /\ clock' = clock /\ attempts' = attempts /\ jar' = jar /\ stateJar' = stateJar
      /\ sweepAt' = sweepAt /\ started' = started /\ ended' = ended
      /\ escaped' = escaped /\ missed' = missed
  BY DEF Save, sharedVars, jars, cleanupVars, history
<1>3. /\ issued' = issued + 1 /\ issued \in Nat
      /\ \A t \in DOMAIN sessions : t <= issued
  BY DEF Save, StoreTyped, RowsIssued
<1>4. /\ DOMAIN sessions' = DOMAIN sessions \cup {issued + 1}
      /\ \A t \in DOMAIN sessions : sessions'[t] = sessions[t] /\ sessions[t].family <= issued /\ sessions[t].family \in Nat
  BY <1>3 DEF Save, With, StoreTyped, RowsIssued, Row
<1>5. /\ sessions'[issued + 1] \in Row /\ sessions'[issued + 1].replaced = 0
      /\ sessions'[issued + 1].family = issued + 1
      /\ sessions'[issued + 1].expires = clock + Lifetime
      /\ sessions'[issued + 1].idle <= sessions'[issued + 1].expires
  BY <1>3, SessionsAssumption DEF Save, With, Row, StoreTyped
<1>6. /\ DOMAIN deadline' = DOMAIN deadline \cup {issued + 1} /\ deadline'[issued + 1] = clock + Lifetime
      /\ \A f \in DOMAIN deadline : f # issued + 1 => deadline'[f] = deadline[f]
  BY DEF Save, With
<1>7. phase[r] = "saving" /\ att[r] # 0 /\ att[r] \in DOMAIN opened
  BY DEF Save, Attempts, AttemptsSpentOnce, RequestsTyped, RequestsIssued, StoreTyped
<1>8. /\ DOMAIN opened' = DOMAIN opened /\ opened[att[r]] = 0 /\ opened'[att[r]] = 1
      /\ \A a \in DOMAIN opened \ {att[r]} : opened'[a] = opened[a]
  BY <1>7 DEF Save, AttemptsSpentOnce, Spent
<1>9. RequestsTyped /\ StoreTyped
  OBVIOUS
<1>10. StoreTyped'
  BY <1>1, <1>2, <1>3, <1>4, <1>5, <1>6, <1>7, <1>8, <1>9 DEF StoreTyped, Row
<1>11. RowsIssued'
  <2> SUFFICES ASSUME NEW t \in DOMAIN sessions'
               PROVE  t <= issued' /\ sessions'[t].family <= issued'
                      /\ sessions'[t].family \in DOMAIN deadline'
    BY DEF RowsIssued
  <2>1. CASE t = issued + 1
    BY <2>1, <1>3, <1>5, <1>6
  <2>2. CASE t \in DOMAIN sessions
    BY <2>2, <1>3, <1>4, <1>6, <1>9 DEF RowsIssued, StoreTyped
  <2> QED BY <1>4, <2>1, <2>2
<1>12. RequestsIssued'
  BY <1>1, <1>2, <1>3, <1>9 DEF RequestsIssued, RequestsTyped
<1>13. JarsIssued'
  BY <1>1, <1>2, <1>3, <1>9 DEF JarsIssued, StoreTyped
<1>14. Holding'
  BY <1>1, <1>2, <1>3, <1>4, <1>5, <1>6, <1>7, <1>8, <1>9 DEF Holding
<1>15. OneCurrent'
  BY <1>1, <1>2, <1>3, <1>4, <1>5, <1>6, <1>7, <1>8, <1>9 DEF OneCurrent
<1>16. RenewalKeepsDeadline'
  <2> SUFFICES ASSUME NEW t \in DOMAIN sessions'
               PROVE  /\ sessions'[t].expires = deadline'[sessions'[t].family]
                      /\ sessions'[t].idle <= sessions'[t].expires
    BY DEF RenewalKeepsDeadline
  <2>1. CASE t = issued + 1
    BY <2>1, <1>5, <1>6
  <2>2. CASE t \in DOMAIN sessions
    <3>1. sessions[t].family \in DOMAIN deadline /\ sessions[t].family # issued + 1
      BY <2>2, <1>3, <1>4 DEF RowsIssued
    <3> QED BY <2>2, <3>1, <1>4, <1>6 DEF RenewalKeepsDeadline
  <2> QED BY <1>4, <2>1, <2>2
<1>17. Deleting'
  <2> SUFFICES ASSUME NEW q \in Req, phase'[q] = "deleting", NEW t \in DOMAIN sessions'
               PROVE  /\ t \in doomed'[q] => sessions'[t].family = fam'[q]
                      /\ sessions'[t].family = fam'[q]
                           => t \in doomed'[q] \/ fam'[q] \in escaped'
    BY DEF Deleting
  <2>1. q # r /\ phase[q] = "deleting" /\ fam'[q] = fam[q] /\ doomed'[q] = doomed[q]
    BY <1>1
  <2>2. CASE t = issued + 1
    <3>1. t \notin doomed[q] /\ fam[q] # issued + 1
      BY <2>2, <1>3, <1>9 DEF RequestsIssued, RequestsTyped
    <3> QED BY <2>1, <2>2, <3>1, <1>5
  <2>3. CASE t \in DOMAIN sessions
    BY <2>1, <2>3, <1>2, <1>4 DEF Deleting
  <2> QED BY <1>4, <2>2, <2>3
<1>18. SurvivorsWereRotating'
  <2>1. issued + 1 \notin ended
    BY <1>3 DEF JarsIssued
  <2> QED BY <2>1, <1>2, <1>4, <1>5 DEF SurvivorsWereRotating
<1>19. AttemptsSpentOnce'
  <2>1. phase[r] \in Spent
    BY <1>7 DEF Spent
  <2>2. att[r] \notin DOMAIN attempts
        /\ \A q \in Req \ {r} : phase[q] \in Spent => att[q] # att[r]
    BY <2>1, <1>7 DEF AttemptsSpentOnce
  <2>3. \A q \in Req : att[q] # 0 => att[q] \in DOMAIN opened
    BY <1>9 DEF RequestsIssued, RequestsTyped, StoreTyped
  <2>4. DOMAIN attempts \subseteq DOMAIN opened
    BY <1>9 DEF StoreTyped
  <2>5. \A q \in Req : phase'[q] \in Spent => q # r /\ phase[q] \in Spent
    BY <1>1 DEF Spent
  <2>6. \A a \in DOMAIN attempts' : opened'[a] = 0
    BY <2>2, <2>4, <1>2, <1>8 DEF AttemptsSpentOnce
  <2>7. \A q \in Req : phase'[q] \in Spent /\ att'[q] # 0
                        => att'[q] \notin DOMAIN attempts' /\ opened'[att'[q]] = 0
    BY <2>2, <2>3, <2>5, <1>1, <1>2, <1>8 DEF AttemptsSpentOnce
  <2>8. \A q \in Req : phase'[q] = "saving" => att'[q] # 0
    BY <1>1 DEF AttemptsSpentOnce
  <2>9. \A p, q \in Req : phase'[p] \in Spent /\ phase'[q] \in Spent /\ att'[p] = att'[q]
                           /\ att'[q] # 0 => p = q
    BY <2>5, <1>1 DEF AttemptsSpentOnce
  <2> QED BY <2>6, <2>7, <2>8, <2>9 DEF AttemptsSpentOnce
<1>20. OneSessionPerAttempt'
  BY <1>1, <1>2, <1>3, <1>4, <1>5, <1>6, <1>7, <1>8, <1>9 DEF OneSessionPerAttempt
<1>21. RepliesFresh'
  <2> SUFFICES ASSUME NEW q \in Req, Renews(q)', cookie'[q] # 0
               PROVE  /\ \A b \in Browser : jar'[b] # cookie'[q]
                      /\ \A p \in Req : tok'[p] # cookie'[q]
                      /\ \A p \in Req \ {q} : Renews(p)' => cookie'[p] # cookie'[q]
                      /\ cookie'[q] \in DOMAIN sessions' => sessions'[cookie'[q]].replaced = 0
    BY DEF RepliesFresh, Renews
  <2>1. /\ \A b \in Browser : jar[b] \in Nat /\ jar[b] <= issued
        /\ \A p \in Req : tok[p] \in Nat /\ tok[p] <= issued
                         /\ cookie[p] \in Nat /\ cookie[p] <= issued
    BY <1>9 DEF JarsIssued, RequestsIssued, StoreTyped, RequestsTyped
  <2>2. CASE q = r
    BY <2>1, <2>2, <1>1, <1>2, <1>3, <1>5
  <2>3. CASE q # r
    <3>1. Renews(q) /\ cookie'[q] = cookie[q] /\ cookie[q] # issued + 1
      BY <2>1, <2>3, <1>1, <1>3 DEF Renews
    <3>2. \A p \in Req \ {r} : Renews(p)' => Renews(p) /\ cookie'[p] = cookie[p]
      BY <1>1 DEF Renews
    <3>3. cookie[q] \in DOMAIN sessions' => sessions'[cookie[q]].replaced = 0
      BY <3>1, <1>4 DEF RepliesFresh
    <3> QED BY <3>1, <3>2, <3>3, <1>1, <1>2 DEF RepliesFresh
  <2> QED BY <2>2, <2>3
<1>22. OwnIdentifiers'
  BY <1>1, <1>2, <1>3, <1>4, <1>5, <1>6, <1>7, <1>8, <1>9 DEF OwnIdentifiers
<1>23. ReplacementOnItsWay'
  BY <1>1, <1>2, <1>3, <1>4, <1>5, <1>6, <1>7, <1>8, <1>9 DEF ReplacementOnItsWay, Renews
<1> QED BY <1>1, <1>2, <1>3, <1>4, <1>5, <1>6, <1>7, <1>8, <1>9, <1>10, <1>11, <1>12, <1>13, <1>14, <1>15, <1>16, <1>17, <1>18, <1>19, <1>20, <1>21, <1>22, <1>23

(* The reply reaches its browser.                                          *)
LEMMA ReceiveKeeps ==
  ASSUME IInv, NEW r \in Req, Receive(r)
  PROVE  IInv'
<1> USE DEF IInv, Types, Issued, Rows, Families, Attempts, Cookies
<1>1. /\ RequestsTyped'
      /\ phase'[r] = "free" /\ tok'[r] = 0 /\ att'[r] = 0 /\ at'[r] = 0
      /\ fam'[r] = 0 /\ doomed'[r] = {} /\ cookie'[r] = 0
      /\ \A q \in Req \ {r} : /\ phase'[q] = phase[q] /\ owner'[q] = owner[q]
                              /\ tok'[q] = tok[q] /\ att'[q] = att[q] /\ at'[q] = at[q]
                              /\ fam'[q] = fam[q] /\ doomed'[q] = doomed[q]
                              /\ cookie'[q] = cookie[q]
  BY ForgetEffect DEF Receive
<1>2. /\ clock' = clock /\ sessions' = sessions /\ attempts' = attempts
      /\ sweepAt' = sweepAt /\ issued' = issued /\ started' = started
      /\ deadline' = deadline /\ opened' = opened /\ ended' = ended
      /\ escaped' = escaped /\ missed' = missed
  BY DEF Receive, sharedVars, jars, cleanupVars, history
<1>3. /\ phase[r] = "replying" /\ owner[r] \in Browser /\ cookie[r] \in Nat /\ cookie[r] <= issued /\ tok[r] \in Nat
      /\ jar' \in [Browser -> Nat] /\ stateJar' \in [Browser -> Nat]
      /\ \A b \in Browser : stateJar'[b] = stateJar[b] \/ stateJar'[b] = 0
      /\ \A b \in Browser \ {owner[r]} : jar'[b] = jar[b]
      /\ jar'[owner[r]] = IF cookie[r] = tok[r] THEN jar[owner[r]] ELSE cookie[r]
  BY DEF Receive, StoreTyped, RequestsTyped, RequestsIssued
<1>4. RequestsTyped /\ StoreTyped
  OBVIOUS
<1>5. StoreTyped'
  BY <1>1, <1>2, <1>3, <1>4 DEF StoreTyped, Row
<1>6. RowsIssued'
  BY <1>1, <1>2, <1>3, <1>4 DEF RowsIssued
<1>7. RequestsIssued'
  BY <1>1, <1>2, <1>4 DEF RequestsIssued, StoreTyped
<1>8. JarsIssued'
  BY <1>2, <1>3, <1>4 DEF JarsIssued, StoreTyped
<1>9. Holding'
  BY <1>1, <1>2, <1>3, <1>4 DEF Holding
<1>10. OneCurrent'
  BY <1>1, <1>2, <1>3, <1>4 DEF OneCurrent
<1>11. RenewalKeepsDeadline'
  BY <1>1, <1>2, <1>3, <1>4 DEF RenewalKeepsDeadline
<1>12. Deleting'
  BY <1>1, <1>2, <1>3, <1>4 DEF Deleting
<1>13. SurvivorsWereRotating'
  BY <1>1, <1>2, <1>3, <1>4 DEF SurvivorsWereRotating
<1>14. AttemptsSpentOnce'
  BY <1>1, <1>2, <1>3, <1>4 DEF AttemptsSpentOnce, Spent
<1>15. OneSessionPerAttempt'
  BY <1>1, <1>2, <1>3, <1>4 DEF OneSessionPerAttempt
<1>16. RepliesFresh'
  BY <1>1, <1>2, <1>3, <1>4 DEF RepliesFresh, Renews
<1>17. OwnIdentifiers'
  <2>1. CASE cookie[r] = tok[r]
    <3>1. \A b \in Browser : jar'[b] = jar[b]
      BY <2>1, <1>3
    <3> QED BY <3>1, <1>1 DEF OwnIdentifiers
  <2>2. CASE cookie[r] # tok[r]
    <3>1. jar'[owner[r]] = cookie[r] /\ Renews(r)
      BY <2>2, <1>3 DEF Renews
    <3>2. cookie[r] # 0 => /\ \A b \in Browser : jar[b] # cookie[r]
                           /\ \A q \in Req : tok[q] # cookie[r]
      BY <3>1 DEF RepliesFresh
    <3> QED BY <3>1, <3>2, <1>1, <1>3 DEF OwnIdentifiers
  <2> QED BY <2>1, <2>2
<1>18. ReplacementOnItsWay'
  <2> SUFFICES ASSUME NEW b \in Browser, b \notin missed, jar'[b] \in DOMAIN sessions,
                      sessions[jar'[b]].replaced # 0
               PROVE  \E q \in Req : owner'[q] = b /\ Renews(q)'
    BY <1>2 DEF ReplacementOnItsWay
  <2>1. jar'[b] # 0
    BY <1>4 DEF StoreTyped
  <2>2. jar'[b] = jar[b] /\ (b = owner[r] => ~Renews(r))
    <3>1. CASE b # owner[r]
      BY <3>1, <1>3
    <3>2. CASE b = owner[r] /\ cookie[r] # tok[r]
      BY <2>1, <3>2, <1>3 DEF RepliesFresh, Renews
    <3>3. CASE b = owner[r] /\ cookie[r] = tok[r]
      BY <3>3, <1>3 DEF Renews
    <3> QED BY <3>1, <3>2, <3>3
  <2>3. PICK q \in Req : owner[q] = b /\ Renews(q)
    BY <2>2 DEF ReplacementOnItsWay
  <2>4. q # r
    BY <2>2, <2>3
  <2> QED BY <2>3, <2>4, <1>1 DEF Renews
<1> QED BY <1>1, <1>2, <1>3, <1>4, <1>5, <1>6, <1>7, <1>8, <1>9, <1>10, <1>11, <1>12, <1>13, <1>14, <1>15, <1>16, <1>17, <1>18

(* The reply is lost.                                                      *)
LEMMA ReplyLostKeeps ==
  ASSUME IInv, NEW r \in Req, ReplyLost(r)
  PROVE  IInv'
<1> USE DEF IInv, Types, Issued, Rows, Families, Attempts, Cookies
<1>1. /\ RequestsTyped'
      /\ phase'[r] = "free" /\ tok'[r] = 0 /\ att'[r] = 0 /\ at'[r] = 0
      /\ fam'[r] = 0 /\ doomed'[r] = {} /\ cookie'[r] = 0
      /\ \A q \in Req \ {r} : /\ phase'[q] = phase[q] /\ owner'[q] = owner[q]
                              /\ tok'[q] = tok[q] /\ att'[q] = att[q] /\ at'[q] = at[q]
                              /\ fam'[q] = fam[q] /\ doomed'[q] = doomed[q]
                              /\ cookie'[q] = cookie[q]
  BY ForgetEffect DEF ReplyLost
<1>2. /\ clock' = clock /\ sessions' = sessions /\ attempts' = attempts /\ jar' = jar
      /\ stateJar' = stateJar /\ sweepAt' = sweepAt /\ issued' = issued
      /\ started' = started /\ deadline' = deadline /\ opened' = opened
      /\ ended' = ended /\ escaped' = escaped
  BY DEF ReplyLost, sharedVars, jars, cleanupVars, history
<1>3. phase[r] = "replying" /\ missed' = missed \cup {owner[r]}
  BY DEF ReplyLost
<1>4. RequestsTyped /\ StoreTyped
  OBVIOUS
<1>5. StoreTyped'
  BY <1>1, <1>2, <1>3, <1>4 DEF StoreTyped, Row
<1>6. RowsIssued'
  BY <1>1, <1>2, <1>3, <1>4 DEF RowsIssued
<1>7. RequestsIssued'
  BY <1>1, <1>2, <1>4 DEF RequestsIssued, StoreTyped
<1>8. JarsIssued'
  BY <1>1, <1>2, <1>3, <1>4 DEF JarsIssued
<1>9. Holding'
  BY <1>1, <1>2, <1>3, <1>4 DEF Holding
<1>10. OneCurrent'
  BY <1>1, <1>2, <1>3, <1>4 DEF OneCurrent
<1>11. RenewalKeepsDeadline'
  BY <1>1, <1>2, <1>3, <1>4 DEF RenewalKeepsDeadline
<1>12. Deleting'
  BY <1>1, <1>2, <1>3, <1>4 DEF Deleting
<1>13. SurvivorsWereRotating'
  BY <1>1, <1>2, <1>3, <1>4 DEF SurvivorsWereRotating
<1>14. AttemptsSpentOnce'
  BY <1>1, <1>2, <1>3, <1>4 DEF AttemptsSpentOnce, Spent
<1>15. OneSessionPerAttempt'
  BY <1>1, <1>2, <1>3, <1>4 DEF OneSessionPerAttempt
<1>16. RepliesFresh'
  BY <1>1, <1>2, <1>3, <1>4 DEF RepliesFresh, Renews
<1>17. OwnIdentifiers'
  BY <1>1, <1>2, <1>3, <1>4 DEF OwnIdentifiers
<1>18. ReplacementOnItsWay'
  BY <1>1, <1>2, <1>3, <1>4 DEF ReplacementOnItsWay, Renews
<1> QED BY <1>1, <1>2, <1>3, <1>4, <1>5, <1>6, <1>7, <1>8, <1>9, <1>10, <1>11, <1>12, <1>13, <1>14, <1>15, <1>16, <1>17, <1>18

(* Cleanup of attempts, or of nothing yet, a tick, or a stutter.           *)
LEMMA QuietKeeps ==
  ASSUME IInv, CleanAttempts \/ BeginSweep \/ SweepFails \/ Tick \/ UNCHANGED vars
  PROVE  IInv'
<1> USE DEF IInv, Types, Issued, Rows, Families, Attempts, Cookies
<1>1. /\ phase' = phase /\ owner' = owner /\ tok' = tok /\ att' = att /\ at' = at
      /\ fam' = fam /\ doomed' = doomed /\ cookie' = cookie
  BY DEF CleanAttempts, BeginSweep, SweepFails, Tick, vars, reqVars
<1>2. /\ sessions' = sessions /\ jar' = jar /\ stateJar' = stateJar /\ issued' = issued
      /\ started' = started /\ deadline' = deadline /\ opened' = opened
      /\ ended' = ended /\ escaped' = escaped /\ missed' = missed
  BY DEF CleanAttempts, BeginSweep, SweepFails, Tick, vars, sharedVars, jars, cleanupVars, history
<1>3. /\ clock' \in Nat \ {0} /\ clock <= clock' /\ sweepAt' \in Nat /\ sweepAt' <= clock'
  BY DEF CleanAttempts, BeginSweep, SweepFails, Tick, vars, cleanupVars, StoreTyped
<1>4. DOMAIN attempts' \subseteq DOMAIN attempts
  BY DEF CleanAttempts, BeginSweep, SweepFails, Tick, vars, Without
<1>5. RequestsTyped /\ StoreTyped
  OBVIOUS
<1>6. RequestsTyped'
  BY <1>1 DEF RequestsTyped
<1>7. StoreTyped'
  BY <1>1, <1>2, <1>3, <1>4, <1>5, <1>6 DEF StoreTyped, Row
<1>8. RowsIssued'
  BY <1>1, <1>2, <1>3, <1>4, <1>5, <1>6 DEF RowsIssued
<1>9. RequestsIssued'
  BY <1>1, <1>2, <1>3, <1>4, <1>5, <1>6 DEF RequestsIssued
<1>10. JarsIssued'
  BY <1>1, <1>2, <1>3, <1>4, <1>5, <1>6 DEF JarsIssued
<1>11. Holding'
  BY <1>1, <1>2, <1>3, <1>4, <1>5, <1>6 DEF Holding
<1>12. OneCurrent'
  BY <1>1, <1>2, <1>3, <1>4, <1>5, <1>6 DEF OneCurrent
<1>13. RenewalKeepsDeadline'
  BY <1>1, <1>2, <1>3, <1>4, <1>5, <1>6 DEF RenewalKeepsDeadline
<1>14. Deleting'
  BY <1>1, <1>2, <1>3, <1>4, <1>5, <1>6 DEF Deleting
<1>15. SurvivorsWereRotating'
  BY <1>1, <1>2, <1>3, <1>4, <1>5, <1>6 DEF SurvivorsWereRotating
<1>16. AttemptsSpentOnce'
  BY <1>1, <1>2, <1>3, <1>4, <1>5, <1>6 DEF AttemptsSpentOnce, Spent
<1>17. OneSessionPerAttempt'
  BY <1>1, <1>2, <1>3, <1>4, <1>5, <1>6 DEF OneSessionPerAttempt
<1>18. RepliesFresh'
  BY <1>1, <1>2, <1>3, <1>4, <1>5, <1>6 DEF RepliesFresh, Renews
<1>19. OwnIdentifiers'
  BY <1>1, <1>2, <1>3, <1>4, <1>5, <1>6 DEF OwnIdentifiers
<1>20. ReplacementOnItsWay'
  BY <1>1, <1>2, <1>3, <1>4, <1>5, <1>6 DEF ReplacementOnItsWay, Renews
<1> QED BY <1>1, <1>2, <1>3, <1>4, <1>5, <1>6, <1>7, <1>8, <1>9, <1>10, <1>11, <1>12, <1>13, <1>14, <1>15, <1>16, <1>17, <1>18, <1>19, <1>20

(* Rows that no request can use go.                                        *)
LEMMA EndSweepKeeps ==
  ASSUME IInv, EndSweep
  PROVE  IInv'
<1> USE DEF IInv, Types, Issued, Rows, Families, Attempts, Cookies
<1>1. /\ phase' = phase /\ owner' = owner /\ tok' = tok /\ att' = att /\ at' = at
      /\ fam' = fam /\ doomed' = doomed /\ cookie' = cookie
  BY DEF EndSweep, reqVars
<1>2. /\ clock' = clock /\ attempts' = attempts /\ jar' = jar /\ stateJar' = stateJar
      /\ issued' = issued /\ started' = started /\ deadline' = deadline
      /\ opened' = opened /\ ended' = ended /\ escaped' = escaped /\ missed' = missed
  BY DEF EndSweep, sharedVars, jars, cleanupVars, history
<1>3. /\ DOMAIN sessions' = DOMAIN sessions \ StillDead
      /\ \A t \in DOMAIN sessions' : sessions'[t] = sessions[t]
  BY DEF EndSweep, Without
<1>4. \A q \in Req : phase[q] = "holding" => tok[q] \notin StillDead
  BY DEF EndSweep, Locked, StillDead
<1>5. sweepAt' = 0
  BY DEF EndSweep
<1>6. RequestsTyped /\ StoreTyped
  OBVIOUS
<1>7. RequestsTyped'
  BY <1>1 DEF RequestsTyped
<1>8. StoreTyped'
  BY <1>1, <1>2, <1>3, <1>4, <1>5, <1>6, <1>7 DEF StoreTyped, Row
<1>9. RowsIssued'
  BY <1>1, <1>2, <1>3, <1>4, <1>5, <1>6, <1>7 DEF RowsIssued
<1>10. RequestsIssued'
  BY <1>1, <1>2, <1>3, <1>4, <1>5, <1>6, <1>7 DEF RequestsIssued
<1>11. JarsIssued'
  BY <1>1, <1>2, <1>3, <1>4, <1>5, <1>6, <1>7 DEF JarsIssued
<1>12. Holding'
  BY <1>1, <1>2, <1>3, <1>4, <1>5, <1>6, <1>7 DEF Holding
<1>13. OneCurrent'
  BY <1>1, <1>2, <1>3, <1>4, <1>5, <1>6, <1>7 DEF OneCurrent
<1>14. RenewalKeepsDeadline'
  BY <1>1, <1>2, <1>3, <1>4, <1>5, <1>6, <1>7 DEF RenewalKeepsDeadline
<1>15. Deleting'
  BY <1>1, <1>2, <1>3, <1>4, <1>5, <1>6, <1>7 DEF Deleting
<1>16. SurvivorsWereRotating'
  BY <1>1, <1>2, <1>3, <1>4, <1>5, <1>6, <1>7 DEF SurvivorsWereRotating
<1>17. AttemptsSpentOnce'
  BY <1>1, <1>2, <1>3, <1>4, <1>5, <1>6, <1>7 DEF AttemptsSpentOnce, Spent
<1>18. OneSessionPerAttempt'
  BY <1>1, <1>2, <1>3, <1>4, <1>5, <1>6, <1>7 DEF OneSessionPerAttempt
<1>19. RepliesFresh'
  BY <1>1, <1>2, <1>3, <1>4, <1>5, <1>6, <1>7 DEF RepliesFresh, Renews
<1>20. OwnIdentifiers'
  BY <1>1, <1>2, <1>3, <1>4, <1>5, <1>6, <1>7 DEF OwnIdentifiers
<1>21. ReplacementOnItsWay'
  BY <1>1, <1>2, <1>3, <1>4, <1>5, <1>6, <1>7 DEF ReplacementOnItsWay, Renews
<1> QED BY <1>1, <1>2, <1>3, <1>4, <1>5, <1>6, <1>7, <1>8, <1>9, <1>10, <1>11, <1>12, <1>13, <1>14, <1>15, <1>16, <1>17, <1>18, <1>19, <1>20, <1>21

LEMMA HandlerKeeps == ASSUME IInv, NEW r \in Req, Handler(r) PROVE IInv'
<1> USE DEF sharedVars, IInv, Types, Issued, StoreTyped, RequestsTyped
<1>1. ASSUME NEW b \in Browser, Authenticate(r, b) PROVE IInv'
  <2>1. Send(r, b, "locking", 0, clock) /\ UNCHANGED sharedVars
    BY <1>1 DEF Authenticate
  <2>2. clock \in Nat /\ clock # 0 /\ 0 <= started
    OBVIOUS
  <2> HIDE DEF sharedVars, IInv, Types, Issued, StoreTyped, RequestsTyped
  <2> QED BY <2>1, <2>2, SendKeeps
<1>2. ASSUME NEW b \in Browser, Callback(r, b) PROVE IInv'
  <2>1. Send(r, b, "consuming", stateJar[b], 0) /\ UNCHANGED sharedVars
    BY <1>2 DEF Callback
  <2>2. stateJar[b] \in Nat /\ stateJar[b] <= started
    BY DEF JarsIssued
  <2> QED BY <2>1, <2>2, SendKeeps
<1>3. ASSUME NEW b \in Browser, Logout(r, b) PROVE IInv'
  <2>1. Send(r, b, "finding", 0, 0) /\ UNCHANGED sharedVars
    BY <1>3 DEF Logout
  <2> QED BY <2>1, SendKeeps
<1>4. ASSUME Lock(r) PROVE IInv'
  <2>1. CASE Live(tok[r], at[r])
    BY <1>4, <2>1, HoldKeeps DEF Lock, Live
  <2>2. CASE ~Live(tok[r], at[r])
    BY <1>4, <2>2, ForgetKeeps DEF Lock
  <2> QED BY <2>1, <2>2
<1>5. ASSUME InGrace(r) \/ UseFails(r) \/ LogoutFails(r) PROVE IInv'
  BY <1>5, ForgetKeeps DEF InGrace, UseFails, LogoutFails
<1>6. ASSUME LoginFails(r) PROVE IInv'
  BY <1>6, ReplyKeeps DEF LoginFails
<1>7. ASSUME FindFamily(r) PROVE IInv'
  <2>1. CASE tok[r] \in DOMAIN sessions
    BY <1>7, <2>1, FoundKeeps
  <2>2. CASE tok[r] \notin DOMAIN sessions /\ att[r] # 0
    BY <1>7, <2>2, SavingKeeps DEF FindFamily, AfterDelete, Spent
  <2>3. CASE tok[r] \notin DOMAIN sessions /\ att[r] = 0
    BY <1>7, <2>3, ReplyKeeps DEF FindFamily, AfterDelete
  <2> QED BY <2>1, <2>2, <2>3
<1>8. ASSUME Touch(r) \/ Rotate(r) \/ Consume(r) \/ Save(r) PROVE IInv'
  BY <1>8, TouchKeeps, RotateKeeps, ConsumeKeeps, SaveKeeps
<1>9. ASSUME BeginDelete(r) \/ EndDelete(r) \/ Receive(r) \/ ReplyLost(r) PROVE IInv'
  BY <1>9, BeginDeleteKeeps, EndDeleteKeeps, ReceiveKeeps, ReplyLostKeeps
<1> QED BY <1>1, <1>2, <1>3, <1>4, <1>5, <1>6, <1>7, <1>8, <1>9 DEF Handler

LEMMA Inductive == IInv /\ [Next]_vars => IInv'
<1> SUFFICES ASSUME IInv, [Next]_vars PROVE IInv'
  OBVIOUS
<1>1. ASSUME NEW r \in Req, Handler(r) PROVE IInv'
  BY <1>1, HandlerKeeps
<1>2. ASSUME NEW b \in Browser, Start(b) PROVE IInv'
  BY <1>2, StartKeeps
<1>3. CASE EndSweep
  BY <1>3, EndSweepKeeps
<1>4. CASE CleanAttempts \/ BeginSweep \/ SweepFails \/ Tick \/ UNCHANGED vars
  BY <1>4, QuietKeeps
<1> QED BY <1>1, <1>2, <1>3, <1>4 DEF Next

LEMMA Invariance == Spec => []IInv
  BY InitIInv, Inductive, PTL DEF Spec

(* The only steps that take a row away are the end of a family's DELETE    *)
(* and the end of a sweep.                                                 *)
LEMMA RowsGo ==
  ASSUME IInv, [Next]_vars
  PROVE  \/ DOMAIN sessions \subseteq DOMAIN sessions'
         \/ EndSweep
         \/ \E r \in Req : EndDelete(r)
<1>1. ASSUME NEW r \in Req, Handler(r), ~EndDelete(r)
      PROVE  DOMAIN sessions \subseteq DOMAIN sessions'
  <2>1. sessions' = sessions \/ Touch(r) \/ Rotate(r) \/ Save(r)
    BY <1>1 DEF Handler, Authenticate, Callback, Logout, Lock, InGrace, UseFails, Consume,
                LoginFails, FindFamily, BeginDelete, LogoutFails, Receive, ReplyLost
  <2>2. ASSUME Touch(r) PROVE DOMAIN sessions \subseteq DOMAIN sessions'
    BY <2>2 DEF Touch
  <2>3. ASSUME Rotate(r) \/ Save(r) PROVE DOMAIN sessions \subseteq DOMAIN sessions'
    BY <2>3 DEF Rotate, Save, With
  <2> QED BY <2>1, <2>2, <2>3
<1>2. ASSUME NEW b \in Browser, Start(b) PROVE sessions' = sessions
  BY <1>2 DEF Start
<1>3. CASE CleanAttempts \/ BeginSweep \/ SweepFails \/ Tick \/ UNCHANGED vars
  BY <1>3 DEF CleanAttempts, BeginSweep, SweepFails, Tick, vars
<1> QED BY <1>1, <1>2, <1>3 DEF Next

LEMMA GoneForAReason ==
  ASSUME IInv, [Next]_vars, NEW t \in DOMAIN sessions \ DOMAIN sessions'
  PROVE  sessions[t].family \in ended' \/ ~Live(t, clock)
<1>1. ASSUME NEW r \in Req, EndDelete(r) PROVE sessions[t].family \in ended'
  <2>1. t \in doomed[r] /\ ended' = ended \cup {fam[r]} /\ phase[r] = "deleting"
    BY <1>1 DEF EndDelete, Without
  <2> QED BY <2>1 DEF IInv, Families, Deleting
<1>2. ASSUME EndSweep PROVE ~Live(t, clock)
  <2>1. Dead(t, sweepAt)
    BY <1>2 DEF EndSweep, Without, StillDead
  <2>2. sessions[t] \in Row /\ sweepAt \in Nat /\ clock \in Nat /\ sweepAt <= clock /\ Grace \in Nat
    BY SessionsAssumption DEF IInv, Types, StoreTyped
  <2> QED BY <2>1, <2>2 DEF Dead, Live, Row
<1> QED BY <1>1, <1>2, RowsGo

(* While a request holds the lock of a row no other step changes that row, *)
(* so reading it once under the lock is reading it at every later step.    *)
HeldRowStays ==
  [][\A r \in Req : phase[r] = "holding" /\ phase'[r] = "holding" =>
       tok[r] \in DOMAIN sessions' /\ sessions'[tok[r]] = sessions[tok[r]]]_vars

LEMMA HeldRowUntouched ==
  ASSUME IInv, [Next]_vars, NEW r \in Req, phase[r] = "holding", phase'[r] = "holding"
  PROVE  tok[r] \in DOMAIN sessions' /\ sessions'[tok[r]] = sessions[tok[r]]
<1>1. /\ tok[r] \in DOMAIN sessions /\ tok[r] \in Nat /\ issued \in Nat /\ tok[r] <= issued
      /\ phase \in [Req -> Phases]
  BY DEF IInv, Types, StoreTyped, RequestsTyped, Issued, RequestsIssued, Holding
<1>2. ASSUME NEW q \in Req, Touch(q) \/ Rotate(q)
      PROVE  tok[q] # tok[r]
  <2>1. phase[q] = "holding"
    BY <1>2 DEF Touch, Rotate, RotationDue
  <2>2. q # r
    BY <1>1, <1>2 DEF Touch, Rotate, Forget, Reply
  <2> QED BY <2>1, <2>2 DEF IInv, Holding
<1>3. ASSUME NEW q \in Req, Touch(q)
      PROVE  tok[r] \in DOMAIN sessions' /\ sessions'[tok[r]] = sessions[tok[r]]
  BY <1>1, <1>2, <1>3 DEF Touch
<1>4. ASSUME NEW q \in Req, Rotate(q) \/ Save(q)
      PROVE  tok[r] \in DOMAIN sessions' /\ sessions'[tok[r]] = sessions[tok[r]]
  BY <1>1, <1>2, <1>4 DEF Rotate, Save, With
<1>5. ASSUME NEW q \in Req, EndDelete(q)
      PROVE  tok[r] \in DOMAIN sessions' /\ sessions'[tok[r]] = sessions[tok[r]]
  BY <1>1, <1>5 DEF EndDelete, Without, Locked
<1>6. ASSUME EndSweep
      PROVE  tok[r] \in DOMAIN sessions' /\ sessions'[tok[r]] = sessions[tok[r]]
  BY <1>1, <1>6 DEF EndSweep, Without, Locked, StillDead
<1>7. ASSUME NEW q \in Req, Handler(q), ~(Touch(q) \/ Rotate(q) \/ Save(q) \/ EndDelete(q))
      PROVE  sessions' = sessions
  BY <1>7 DEF Handler, Authenticate, Callback, Logout, Lock, InGrace, UseFails, Consume,
              LoginFails, FindFamily, BeginDelete, LogoutFails, Receive, ReplyLost
<1>8. ASSUME NEW b \in Browser, Start(b) PROVE sessions' = sessions
  BY <1>8 DEF Start
<1>9. CASE CleanAttempts \/ BeginSweep \/ SweepFails \/ Tick \/ UNCHANGED vars
  BY <1>1, <1>9 DEF CleanAttempts, BeginSweep, SweepFails, Tick, vars
<1> QED BY <1>1, <1>3, <1>4, <1>5, <1>6, <1>7, <1>8, <1>9 DEF Next
-----------------------------------------------------------------------------
(***************************************************************************)
(* Concurrent rotations cannot fork a login: however many requests carry   *)
(* the identifier that is due, one identifier of a family is current.      *)
(***************************************************************************)
THEOREM LoginDoesNotFork == Spec => []OneCurrent
<1>1. IInv => OneCurrent
  BY DEF IInv, Rows
<1> QED BY <1>1, Invariance, PTL

(***************************************************************************)
(* No chain of rotations and touches outlives the expiry set at login.     *)
(***************************************************************************)
THEOREM DeadlineIsKept == Spec => []RenewalKeepsDeadline
<1>1. IInv => RenewalKeepsDeadline
  BY DEF IInv, Rows
<1> QED BY <1>1, Invariance, PTL

(***************************************************************************)
(* Callbacks that bring the same attempt at the same time open one session *)
(* between them.                                                           *)
(***************************************************************************)
THEOREM AttemptOpensOnce == Spec => []OneSessionPerAttempt
<1>1. IInv => OneSessionPerAttempt
  BY DEF IInv, Attempts
<1> QED BY <1>1, Invariance, PTL

(***************************************************************************)
(* What survives the deletion of its family was inserted by a rotation     *)
(* that committed while the DELETE waited; there is no other way.          *)
(***************************************************************************)
THEOREM SurvivorsExplained == Spec => []SurvivorsWereRotating
<1>1. IInv => SurvivorsWereRotating
  BY DEF IInv, Families
<1> QED BY <1>1, Invariance, PTL

(***************************************************************************)
(* A browser that lost no reply and waits for none holds the current       *)
(* identifier, in whatever order its replies arrived.                      *)
(***************************************************************************)
THEOREM CookieStaysCurrent == Spec => []CookieIsCurrent
<1>1. IInv => CookieIsCurrent
  BY DEF IInv, Cookies, ReplacementOnItsWay, Renews, CookieIsCurrent
<1> QED BY <1>1, Invariance, PTL

(***************************************************************************)
(* Neither cleanup nor anything else takes a usable row away, except the   *)
(* deletion of its family.                                                 *)
(***************************************************************************)
THEOREM NothingUsableGoes == Spec => OnlyEndedOrDeadGo
<1>1. IInv /\ [Next]_vars =>
        [\A t \in DOMAIN sessions \ DOMAIN sessions' :
           sessions[t].family \in ended' \/ ~Live(t, clock)]_vars
  BY GoneForAReason
<1> QED BY <1>1, Invariance, PTL DEF Spec, OnlyEndedOrDeadGo

(***************************************************************************)
(* A row does not change under the request that holds its lock.            *)
(***************************************************************************)
THEOREM LockProtectsRow == Spec => HeldRowStays
<1>1. IInv /\ [Next]_vars =>
        [\A r \in Req : phase[r] = "holding" /\ phase'[r] = "holding" =>
           tok[r] \in DOMAIN sessions' /\ sessions'[tok[r]] = sessions[tok[r]]]_vars
  BY HeldRowUntouched
<1> QED BY <1>1, Invariance, PTL DEF Spec, HeldRowStays
=============================================================================
