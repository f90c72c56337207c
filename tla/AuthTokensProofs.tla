-------------------------- MODULE AuthTokensProofs --------------------------
(***************************************************************************)
(* Proofs about AuthTokens: what the token store promises, for any clients,*)
(* lifetimes, capacity, history limit and number of pairs issued.          *)
(***************************************************************************)
EXTENDS AuthTokens, FiniteSetTheorems, TLAPS

(* Pairs are numbered without a gap, and every pair has a session the heap *)
(* still knows.                                                            *)
Numbered ==
  /\ IsFiniteSet(Issued)
  /\ \A n \in Issued : family[n] \in DOMAIN info

(* The current pair of a session is the last it was given, and its history *)
(* holds no pair of another session.                                       *)
CurrentIsLast ==
  \A s \in DOMAIN info :
    /\ info[s].access = info[s].refresh
    /\ info[s].refresh \in info[s].history
    /\ \A n \in info[s].history : n \in Issued /\ family[n] = s
    /\ \A n \in Issued : family[n] = s => n <= info[s].refresh

\* A session whose spent token came back is not among the sessions.
ReplayedGone == replayed \cap sessions = {}

IInv == TypeOK /\ Numbered /\ CurrentIsLast /\ ReplayedGone /\ NothingLeaks


(* The next pair has the number after the last.                            *)
LEMMA FreshIsNew ==
  ASSUME TypeOK, Numbered
  PROVE  /\ Fresh \in Nat \ {0} /\ Fresh \notin Issued
         /\ \A n \in Issued : n \in Nat /\ n < Fresh
         /\ Issued \cup {Fresh} = 1 .. Fresh
         /\ Cardinality(Issued \cup {Fresh}) = Fresh
         /\ IsFiniteSet(Issued \cup {Fresh})
<1>1. Cardinality(Issued) \in Nat
  BY FS_CardinalityType DEF Numbered
<1>2. Issued = 1 .. Cardinality(Issued)
  BY DEF TypeOK
<1>3. Fresh = Cardinality(Issued) + 1
  BY DEF Fresh
<1>4. Fresh \notin Issued /\ \A n \in Issued : n \in Nat /\ n < Fresh
  BY <1>1, <1>2, <1>3
<1>5. Issued \cup {Fresh} = 1 .. Fresh
  BY <1>1, <1>2, <1>3
<1>6. Cardinality(Issued \cup {Fresh}) = Fresh /\ IsFiniteSet(Issued \cup {Fresh})
  BY <1>3, <1>4, FS_AddElement DEF Numbered
<1> QED BY <1>1, <1>3, <1>4, <1>5, <1>6

(* Pairs of two sessions are different pairs.                              *)
LEMMA PairsApart ==
  ASSUME CurrentIsLast, NEW s \in DOMAIN info, NEW t \in DOMAIN info, s # t
  PROVE  /\ info[s].access # info[t].access
         /\ info[s].history \cap info[t].history = {}
  BY DEF CurrentIsLast

(* A session the maps lead to is one of the sessions.                      *)
LEMMA RefreshLeadsToSession ==
  ASSUME IInv, NEW n \in DOMAIN refresh
  PROVE  refresh[n] \in sessions /\ n \in info[refresh[n]].history
         /\ family[n] = refresh[n]
  BY DEF IInv, TypeOK, CurrentIsLast, NothingLeaks

LEMMA AccessLeadsToSession ==
  ASSUME IInv, NEW n \in DOMAIN access
  PROVE  access[n] \in sessions /\ n = info[access[n]].access /\ family[n] = access[n]
  BY DEF IInv, TypeOK, CurrentIsLast, NothingLeaks

(* Removing sessions leaves the tokens of the others, and only those.      *)
LEMMA WithoutKeeps ==
  ASSUME IInv, NEW S \in SUBSET sessions
  PROVE  /\ DOMAIN AccessWithout(S) = {info[s].access : s \in sessions \ S}
         /\ \A n \in DOMAIN AccessWithout(S) : AccessWithout(S)[n] = family[n]
         /\ DOMAIN RefreshWithout(S) = UNION {info[s].history : s \in sessions \ S}
         /\ \A n \in DOMAIN RefreshWithout(S) : RefreshWithout(S)[n] = family[n]
<1> USE DEF IInv, TypeOK, NothingLeaks
<1>1. DOMAIN AccessWithout(S) = DOMAIN access \ {info[s].access : s \in S}
  BY DEF AccessWithout
<1>2. DOMAIN RefreshWithout(S) = DOMAIN refresh \ UNION {info[s].history : s \in S}
  BY DEF RefreshWithout
<1>3. DOMAIN access \ {info[s].access : s \in S} = {info[s].access : s \in sessions \ S}
  BY PairsApart
<1>4. DOMAIN refresh \ UNION {info[s].history : s \in S}
        = UNION {info[s].history : s \in sessions \ S}
  BY PairsApart
<1>5. \A n \in DOMAIN AccessWithout(S) : AccessWithout(S)[n] = family[n]
  BY DEF AccessWithout
<1>6. \A n \in DOMAIN RefreshWithout(S) : RefreshWithout(S)[n] = family[n]
  BY DEF RefreshWithout
<1> QED BY <1>1, <1>2, <1>3, <1>4, <1>5, <1>6

(* Sessions are finitely many, and fewer sessions are no more of them.     *)
LEMMA FewerSessions ==
  ASSUME IInv, NEW S \in SUBSET sessions
  PROVE  /\ IsFiniteSet(S) /\ Cardinality(S) \in Nat
         /\ Cardinality(S) <= Cardinality(sessions) /\ Cardinality(S) <= Capacity
<1>1. sessions \subseteq Issued
  BY DEF IInv, TypeOK
<1>2. IsFiniteSet(sessions)
  BY <1>1, FS_Subset DEF IInv, Numbered
<1>3. IsFiniteSet(S) /\ Cardinality(S) <= Cardinality(sessions)
  BY <1>2, FS_Subset
<1>4. Cardinality(S) \in Nat /\ Cardinality(sessions) \in Nat
  BY <1>2, <1>3, FS_CardinalityType
<1> QED BY <1>3, <1>4, TokensAssumption DEF IInv, NothingLeaks

(* The refresh tokens of some sessions and one more.                       *)
LEMMA OneMoreHistory ==
  ASSUME NEW f, NEW A, NEW s
  PROVE  UNION {f[t].history : t \in A \cup {s}}
           = (UNION {f[t].history : t \in A}) \cup f[s].history
<1> DEFINE L == UNION {f[t].history : t \in A \cup {s}}
           R == UNION {f[t].history : t \in A}
<1>1. \A x : x \in L <=> \E t \in A \cup {s} : x \in f[t].history
  OBVIOUS
<1>2. \A x : x \in R <=> \E t \in A : x \in f[t].history
  OBVIOUS
<1> HIDE DEF L, R
<1>3. \A x : x \in L <=> x \in R \cup f[s].history
  BY <1>1, <1>2
<1>4. L = R \cup f[s].history
  BY <1>3
<1> QED BY <1>4 DEF L, R

LEMMA InitIInv == Init => IInv
<1> SUFFICES ASSUME Init PROVE IInv
  OBVIOUS
<1>1. Issued = {} /\ DOMAIN access = {} /\ DOMAIN refresh = {} /\ DOMAIN info = {}
  BY DEF Init, Empty, Issued
<1>2. Cardinality({}) = 0 /\ IsFiniteSet({})
  BY FS_EmptySet
<1>3. TypeOK
  BY <1>1, <1>2, TokensAssumption DEF Init, TypeOK
<1>4. Numbered /\ CurrentIsLast /\ ReplayedGone
  BY <1>1, <1>2 DEF Init, Numbered, CurrentIsLast, ReplayedGone
<1>5. NothingLeaks
  BY <1>1, <1>2, TokensAssumption DEF Init, NothingLeaks
<1> QED BY <1>3, <1>4, <1>5 DEF IInv

(* Removing sessions, the expired ones among them or not, keeps it all.    *)
LEMMA RemoveKeeps ==
  ASSUME IInv, NEW S \in SUBSET sessions, Remove(S), UNCHANGED <<now, family>>,
         replayed' \subseteq replayed \cup S
  PROVE  IInv'
<1> USE DEF IInv
<1>1. /\ access' = AccessWithout(S) /\ refresh' = RefreshWithout(S)
      /\ sessions' = sessions \ S /\ info' = info /\ family' = family /\ now' = now
  BY DEF Remove
<1>2. TypeOK'
  <2>1. DOMAIN access' \subseteq DOMAIN access /\ DOMAIN refresh' \subseteq DOMAIN refresh
    BY <1>1 DEF AccessWithout, RefreshWithout
  <2>2. \A n \in DOMAIN access' : access'[n] = family[n]
    BY <1>1, WithoutKeeps
  <2>3. \A n \in DOMAIN refresh' : refresh'[n] = family[n]
    BY <1>1, WithoutKeeps
  <2> QED BY <1>1, <2>1, <2>2, <2>3 DEF TypeOK, Session, Issued
<1>3. Numbered' /\ CurrentIsLast'
  BY <1>1 DEF Numbered, CurrentIsLast, Issued
<1>4. ReplayedGone'
  BY <1>1 DEF ReplayedGone
<1>5. NothingLeaks'
  <2>1. Cardinality(sessions') <= Capacity
    BY <1>1, FewerSessions
  <2>2. DOMAIN access' = {info[s].access : s \in sessions'}
    BY <1>1, WithoutKeeps
  <2>3. DOMAIN refresh' = UNION {info[s].history : s \in sessions'}
    BY <1>1, WithoutKeeps
  <2> QED BY <1>1, <2>1, <2>2, <2>3 DEF NothingLeaks
<1> QED BY <1>2, <1>3, <1>4, <1>5

(* Issuing the next pair to a session: a new one, or one that is kept.     *)
LEMMA IssueKeeps ==
  ASSUME IInv, NEW s, NEW old, NEW client \in Client, NEW history, NEW deadline \in Nat,
         Issue(s, old, client, history, deadline),
         \/ s = Fresh /\ old = {} /\ history = {}
         \/ s \in sessions \ Expired /\ old = {info[s].access} /\ history = info[s].history,
         Cardinality(history) < MaxHistory,
         sessions' = (sessions \ Expired) \cup {s},
         Cardinality(sessions') <= Capacity,
         UNCHANGED <<now, replayed>>
  PROVE  IInv'
<1> USE DEF IInv
<1> DEFINE n == Fresh
           fields == [client |-> client, access |-> n, refresh |-> n,
                      history |-> history \cup {n}, deadline |-> deadline,
                      expires |-> Earlier(now + AccessTTL, deadline)]
           acc == AccessWithout(Expired)
           ref == RefreshWithout(Expired)
<1>1. /\ n <= MaxIssued
      /\ access' = [m \in (DOMAIN acc \ old) \cup {n} |-> IF m = n THEN s ELSE acc[m]]
      /\ refresh' = [m \in DOMAIN ref \cup {n} |-> IF m = n THEN s ELSE ref[m]]
      /\ info' = [t \in DOMAIN info \cup {s} |-> IF t = s THEN fields ELSE info[t]]
      /\ family' = [m \in Issued \cup {n} |-> IF m = n THEN s ELSE family[m]]
  BY DEF Issue
<1>2. /\ n \in Nat \ {0} /\ n \notin Issued /\ \A m \in Issued : m \in Nat /\ m < n
      /\ Issued \cup {n} = 1 .. n /\ Cardinality(Issued \cup {n}) = n
      /\ IsFiniteSet(Issued \cup {n})
  BY FreshIsNew
<1>3. DOMAIN info \subseteq Issued /\ sessions \subseteq DOMAIN info
  BY DEF TypeOK
<1>4. /\ s \in Issued \cup {n} /\ (s \in DOMAIN info \/ s = n)
      /\ (s = n => s \notin DOMAIN info)
  BY <1>2, <1>3
<1>5. /\ Issued' = Issued \cup {n} /\ family'[n] = s
      /\ \A m \in Issued : family'[m] = family[m]
  BY <1>1, <1>2 DEF Issued
<1>6. /\ DOMAIN info' = DOMAIN info \cup {s} /\ info'[s] = fields
      /\ \A t \in DOMAIN info \ {s} : info'[t] = info[t]
  BY <1>1
<1>7. \A m \in history : m \in Issued /\ family[m] = s
  BY <1>3 DEF CurrentIsLast
<1>8. Expired \in SUBSET sessions
  BY DEF Expired
<1>9. /\ fields.client = client /\ fields.access = n /\ fields.refresh = n
      /\ fields.history = history \cup {n} /\ fields.deadline = deadline
      /\ fields.expires = Earlier(now + AccessTTL, deadline)
  OBVIOUS
<1> HIDE DEF n, fields, acc, ref
<1>10. DOMAIN access' = {info'[t].access : t \in sessions'}
  <2>1. DOMAIN acc = {info[t].access : t \in sessions \ Expired}
    BY <1>8, WithoutKeeps DEF acc
  <2>2. DOMAIN access' = (DOMAIN acc \ old) \cup {n}
    BY <1>1
  <2>3. DOMAIN acc \ old = {info[t].access : t \in (sessions \ Expired) \ {s}}
    <3>1. CASE s = n /\ old = {}
      BY <2>1, <3>1, <1>3, <1>4
    <3>2. CASE s \in sessions \ Expired /\ old = {info[s].access}
      BY <2>1, <3>2, <1>3, PairsApart
    <3> QED BY <3>1, <3>2 DEF n
  <2>4. \A t \in (sessions \ Expired) \ {s} : info'[t] = info[t]
    BY <1>3, <1>6
  <2>5. info'[s].access = n
    BY <1>6, <1>9
  <2> QED BY <2>2, <2>3, <2>4, <2>5
<1>11. DOMAIN refresh' = UNION {info'[t].history : t \in sessions'}
  <2>1. DOMAIN ref = UNION {info[t].history : t \in sessions \ Expired}
    BY <1>8, WithoutKeeps DEF ref
  <2>2. DOMAIN refresh' = DOMAIN ref \cup {n}
    BY <1>1
  <2>3. \A t \in (sessions \ Expired) \ {s} : info'[t].history = info[t].history
    BY <1>3, <1>6
  <2>4. info'[s].history = history \cup {n}
    BY <1>6, <1>9
  <2>5. DOMAIN ref = (UNION {info[t].history : t \in (sessions \ Expired) \ {s}}) \cup history
    <3>1. CASE s = n /\ history = {}
      BY <2>1, <3>1, <1>3, <1>4
    <3>2. CASE s \in sessions \ Expired /\ history = info[s].history
      <4>1. sessions \ Expired = ((sessions \ Expired) \ {s}) \cup {s}
        BY <3>2
      <4>2. UNION {info[t].history : t \in ((sessions \ Expired) \ {s}) \cup {s}}
              = (UNION {info[t].history : t \in (sessions \ Expired) \ {s}}) \cup info[s].history
        BY OneMoreHistory
      <4> QED BY <2>1, <3>2, <4>1, <4>2
    <3> QED BY <3>1, <3>2 DEF n
  <2>6. UNION {info'[t].history : t \in sessions'}
          = (UNION {info'[t].history : t \in (sessions \ Expired) \ {s}}) \cup info'[s].history
    <3>1. sessions' = ((sessions \ Expired) \ {s}) \cup {s}
      OBVIOUS
    <3>2. \A A : UNION {info'[t].history : t \in A \cup {s}}
                   = (UNION {info'[t].history : t \in A}) \cup info'[s].history
      BY OneMoreHistory
    <3> QED BY <3>1, <3>2, Zenon
  <2>7. UNION {info'[t].history : t \in (sessions \ Expired) \ {s}}
          = UNION {info[t].history : t \in (sessions \ Expired) \ {s}}
    BY <2>3
  <2> QED BY <2>2, <2>4, <2>5, <2>6, <2>7
<1>12. TypeOK'
  <2>1. \A m \in DOMAIN access' : m \in Issued' /\ access'[m] = family'[m]
    <3>1. DOMAIN acc \subseteq Issued
      BY DEF acc, AccessWithout, TypeOK
    <3>2. \A m \in DOMAIN acc : acc[m] = family[m]
      BY <1>8, WithoutKeeps DEF acc
    <3> QED BY <1>1, <1>2, <1>5, <3>1, <3>2
  <2>2. \A m \in DOMAIN refresh' : m \in Issued' /\ refresh'[m] = family'[m]
    <3>1. DOMAIN ref \subseteq Issued
      BY DEF ref, RefreshWithout, TypeOK
    <3>2. \A m \in DOMAIN ref : ref[m] = family[m]
      BY <1>8, WithoutKeeps DEF ref
    <3> QED BY <1>1, <1>2, <1>5, <3>1, <3>2
  <2>3. fields \in Session' /\ fields.expires <= fields.deadline
    <3>1. now + AccessTTL \in Nat
      BY TokensAssumption DEF TypeOK
    <3>2. Earlier(now + AccessTTL, deadline) \in Nat
          /\ Earlier(now + AccessTTL, deadline) <= deadline
      BY <3>1 DEF Earlier
    <3>3. history \cup {n} \subseteq Issued' /\ n \in Issued'
      BY <1>5, <1>7
    <3> QED BY <1>9, <3>2, <3>3 DEF Session, fields
  <2>4. \A t \in DOMAIN info' :
          info'[t] \in Session' /\ t \in Issued' /\ info'[t].expires <= info'[t].deadline
    <3>1. \A t \in DOMAIN info : info[t] \in Session /\ info[t].expires <= info[t].deadline
      BY DEF TypeOK
    <3>2. Session \subseteq Session'
      BY <1>5 DEF Session
    <3> QED BY <1>3, <1>4, <1>5, <1>6, <2>3, <3>1, <3>2
  <2>5. Issued' = 1 .. Cardinality(Issued') /\ Cardinality(Issued') <= MaxIssued
    BY <1>1, <1>2, <1>5
  <2>6. sessions' \subseteq DOMAIN info' /\ replayed' \subseteq DOMAIN info'
    BY <1>3, <1>6 DEF TypeOK
  <2> QED BY <2>1, <2>2, <2>4, <2>5, <2>6 DEF TypeOK
<1>13. Numbered'
  BY <1>2, <1>5, <1>6 DEF Numbered
<1>14. CurrentIsLast'
  <2>1. ASSUME NEW t \in DOMAIN info' PROVE
          /\ info'[t].access = info'[t].refresh
          /\ info'[t].refresh \in info'[t].history
          /\ \A m \in info'[t].history : m \in Issued' /\ family'[m] = t
          /\ \A m \in Issued' : family'[m] = t => m <= info'[t].refresh
    <3>1. CASE t = s
      BY <3>1, <1>2, <1>5, <1>6, <1>7, <1>9
    <3>2. CASE t # s
      <4>1. t \in DOMAIN info /\ info'[t] = info[t]
        BY <3>2, <1>6
      <4> QED BY <3>2, <4>1, <1>2, <1>5 DEF CurrentIsLast
    <3> QED BY <3>1, <3>2
  <2> QED BY <2>1 DEF CurrentIsLast
<1>15. ReplayedGone'
  <2>1. s \notin replayed
    BY <1>3, <1>4 DEF ReplayedGone, TypeOK, n
  <2> QED BY <2>1 DEF ReplayedGone
<1>16. NothingLeaks'
  <2>1. ASSUME NEW t \in sessions' PROVE Cardinality(info'[t].history) <= MaxHistory
    <3>1. CASE t = s
      <4>1. IsFiniteSet(history) /\ n \notin history
        BY <1>2, <1>7, FS_Subset DEF Numbered
      <4>2. Cardinality(history \cup {n}) = Cardinality(history) + 1
            /\ Cardinality(history) \in Nat
        BY <4>1, FS_AddElement, FS_CardinalityType
      <4> QED BY <3>1, <4>2, <1>6, <1>9, TokensAssumption
    <3>2. CASE t # s
      <4>1. t \in sessions /\ info'[t] = info[t]
        BY <3>2, <1>3, <1>6
      <4> QED BY <4>1 DEF NothingLeaks
    <3> QED BY <3>1, <3>2
  <2> QED BY <2>1, <1>10, <1>11 DEF NothingLeaks
<1> QED BY <1>12, <1>13, <1>14, <1>15, <1>16

LEMMA LoginKeeps == ASSUME IInv, NEW c \in Client, Login(c) PROVE IInv'
<1>1. now + RefreshTTL \in Nat
  BY TokensAssumption DEF IInv, TypeOK
<1>2. Cardinality({}) < MaxHistory
  BY FS_EmptySet, TokensAssumption
<1>3. Cardinality((sessions \ Expired) \cup {Fresh}) <= Capacity
  <2>1. IsFiniteSet(sessions \ Expired) /\ Cardinality(sessions \ Expired) \in Nat
    BY FewerSessions
  <2>2. Cardinality((sessions \ Expired) \cup {Fresh}) <= Cardinality(sessions \ Expired) + 1
    <3>1. Cardinality((sessions \ Expired) \cup {Fresh})
            = IF Fresh \in sessions \ Expired THEN Cardinality(sessions \ Expired)
                                               ELSE Cardinality(sessions \ Expired) + 1
      BY <2>1, FS_AddElement
    <3> QED BY <2>1, <3>1
  <2>3. Cardinality((sessions \ Expired) \cup {Fresh}) \in Nat
    BY <2>1, FS_AddElement, FS_CardinalityType
  <2> QED BY <2>1, <2>2, <2>3, TokensAssumption DEF Login
<1>4. /\ Issue(Fresh, {}, c, {}, now + RefreshTTL) /\ UNCHANGED <<now, replayed>>
      /\ sessions' = (sessions \ Expired) \cup {Fresh}
  BY DEF Login
<1> QED BY <1>1, <1>2, <1>3, <1>4, IssueKeeps

LEMMA RotateKeeps == ASSUME IInv, NEW n \in Issued, Rotate(n) PROVE IInv'
<1> DEFINE s == refresh[n]
<1>1. s \in sessions \ Expired
  BY RefreshLeadsToSession DEF Rotate, Known
<1>2. info[s].client \in Client /\ info[s].deadline \in Nat
  BY <1>1 DEF IInv, TypeOK, Session
<1>3. /\ Issue(s, {info[s].access}, info[s].client, info[s].history, info[s].deadline)
      /\ UNCHANGED <<now, replayed>> /\ Cardinality(info[s].history) < MaxHistory
      /\ sessions' = sessions \ Expired
  BY DEF Rotate, Spendable
<1>4. sessions' = (sessions \ Expired) \cup {s}
  BY <1>1, <1>3
<1>5. Cardinality(sessions') <= Capacity
  BY <1>3, FewerSessions
<1> HIDE DEF s
<1> QED BY <1>1, <1>2, <1>3, <1>4, <1>5, IssueKeeps

LEMMA RevokeKeeps == ASSUME IInv, NEW n \in Issued, Revoke(n) PROVE IInv'
<1> DEFINE S == Expired \cup {refresh[n]}
<1>1. S \in SUBSET sessions
  BY RefreshLeadsToSession DEF Revoke, Known, Expired
<1>2. Remove(S) /\ UNCHANGED <<now, family>> /\ replayed' \subseteq replayed \cup S
  BY DEF Revoke
<1> QED BY <1>1, <1>2, RemoveKeeps

LEMMA PruneKeeps == ASSUME IInv, Prune PROVE IInv'
<1>1. Expired \in SUBSET sessions
  BY DEF Expired
<1> QED BY <1>1, RemoveKeeps DEF Prune

LEMMA RestartKeeps == ASSUME IInv, Restart PROVE IInv'
<1> USE DEF IInv
<1>1. /\ DOMAIN access' = {} /\ DOMAIN refresh' = {} /\ sessions' = {}
      /\ now' = now /\ info' = info /\ family' = family /\ replayed' = replayed
  BY DEF Restart, Empty
<1>2. TypeOK' /\ Numbered' /\ CurrentIsLast' /\ ReplayedGone'
  BY <1>1 DEF TypeOK, Session, Numbered, CurrentIsLast, ReplayedGone, Issued
<1>3. NothingLeaks'
  BY <1>1, FS_EmptySet, TokensAssumption DEF NothingLeaks
<1> QED BY <1>2, <1>3

LEMMA TickKeeps == ASSUME IInv, Tick \/ UNCHANGED vars PROVE IInv'
<1> USE DEF IInv
<1>1. now' \in 0 .. Horizon
  BY TokensAssumption DEF Tick, vars, TypeOK
<1>2. UNCHANGED <<access, refresh, sessions, info, family, replayed>>
  BY DEF Tick, vars, storeVars
<1>3. TypeOK'
  BY <1>1, <1>2 DEF TypeOK, Session, Issued
<1>4. Numbered' /\ CurrentIsLast' /\ ReplayedGone' /\ NothingLeaks'
  BY <1>2 DEF Numbered, CurrentIsLast, ReplayedGone, NothingLeaks, Issued
<1> QED BY <1>3, <1>4

LEMMA Inductive == IInv /\ [Next]_vars => IInv'
<1> SUFFICES ASSUME IInv, [Next]_vars PROVE IInv'
  OBVIOUS
<1>1. ASSUME NEW c \in Client, Login(c) PROVE IInv'
  BY <1>1, LoginKeeps
<1>2. ASSUME NEW n \in Issued, Rotate(n) \/ Revoke(n) PROVE IInv'
  BY <1>2, RotateKeeps, RevokeKeeps
<1>3. CASE Prune
  BY <1>3, PruneKeeps
<1>4. CASE Restart
  BY <1>4, RestartKeeps
<1>5. CASE Tick \/ UNCHANGED vars
  BY <1>5, TickKeeps
<1> QED BY <1>1, <1>2, <1>3, <1>4, <1>5 DEF Next

LEMMA Invariance == Spec => []IInv
  BY InitIInv, Inductive, PTL DEF Spec
-----------------------------------------------------------------------------
(***************************************************************************)
(* The maps only hold pairs that were issued, under the session they were  *)
(* issued to, and no access token outlives its session.                    *)
(***************************************************************************)
THEOREM TypeCorrect == Spec => []TypeOK
<1>1. IInv => TypeOK
  BY DEF IInv
<1> QED BY <1>1, Invariance, PTL

(***************************************************************************)
(* Reuse of a spent refresh token ends the session for good: no token that *)
(* was ever issued to it, before or after, is accepted or can be rotated.  *)
(***************************************************************************)
THEOREM ReplayedSessionStaysDead == Spec => []ReplayRevokes
<1>1. IInv => ReplayRevokes
  BY AccessLeadsToSession, RefreshLeadsToSession
     DEF IInv, ReplayedGone, ReplayRevokes, Accepted, Refreshable, Known
<1> QED BY <1>1, Invariance, PTL

(***************************************************************************)
(* Whatever tokens a client kept, only the pair issued last to its session *)
(* works, and neither half of it after the deadline set at login.          *)
(***************************************************************************)
THEOREM OnlyTheLatestPair == Spec => []OnlyLatestPairWorks
<1>1. IInv => OnlyLatestPairWorks
  <2> SUFFICES ASSUME IInv, NEW n \in Issued, Accepted(n) \/ Refreshable(n)
               PROVE  /\ \A m \in Issued : family[m] = family[n] => m <= n
                      /\ now < info[family[n]].deadline
    BY DEF OnlyLatestPairWorks
  <2>1. family[n] \in sessions \ Expired /\ n = info[family[n]].refresh
    <3>1. CASE Accepted(n)
      BY <3>1, AccessLeadsToSession DEF Accepted, IInv, CurrentIsLast, TypeOK
    <3>2. CASE Refreshable(n)
      BY <3>2, RefreshLeadsToSession DEF Refreshable, Known, Spendable
    <3> QED BY <3>1, <3>2
  <2>2. \A m \in Issued : family[m] = family[n] => m <= n
    BY <2>1 DEF IInv, TypeOK, CurrentIsLast
  <2>3. now \in Nat /\ info[family[n]].deadline \in Nat
    BY <2>1, TokensAssumption DEF IInv, TypeOK, Session
  <2>4. now < info[family[n]].deadline
    BY <2>1, <2>3 DEF Expired
  <2> QED BY <2>2, <2>4
<1> QED BY <1>1, Invariance, PTL

(***************************************************************************)
(* The store never holds more than the capacity allows, and never a token  *)
(* of a session it has ended, pruned or forgotten.                         *)
(***************************************************************************)
THEOREM NoTokenLeaks == Spec => []NothingLeaks
<1>1. IInv => NothingLeaks
  BY DEF IInv
<1> QED BY <1>1, Invariance, PTL
=============================================================================
