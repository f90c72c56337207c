----------------------------- MODULE AuthTokens -----------------------------
(***************************************************************************)
(* The token store of the Auth Service (auth/internal/service/tokens.go):  *)
(* opaque access and refresh tokens of client sessions, kept in memory as  *)
(* hashes.  Every operation runs under one mutex, so each is one action.   *)
(*                                                                         *)
(* Random tokens never repeat: the n-th pair issued is access token n and  *)
(* refresh token n, and a session is the number of its first pair.  info   *)
(* is the heap: a session the maps have forgotten keeps its fields.        *)
(***************************************************************************)
EXTENDS Integers, FiniteSets

CONSTANTS Client,       \* clients that may log in
          AccessTTL,    \* ticks an access token lives
          RefreshTTL,   \* ticks a session lives
          Capacity,     \* sessions at most
          MaxHistory,   \* refresh tokens per session at most (128)
          Horizon,      \* bound: the last time
          MaxIssued     \* bound: pairs issued

ASSUME TokensAssumption ==
  /\ AccessTTL \in Nat \ {0} /\ RefreshTTL \in Nat /\ AccessTTL <= RefreshTTL
  /\ Capacity \in Nat \ {0} /\ MaxHistory \in Nat \ {0}
  /\ Horizon \in Nat /\ MaxIssued \in Nat

VARIABLES now,       \* the time
          access,    \* s.access: access token -> session
          refresh,   \* s.refresh: refresh token -> session
          sessions,  \* s.sessions
          info,      \* session -> its fields
          family,    \* history: pair -> the session it was issued to
          replayed   \* history: sessions whose spent refresh token came back

storeVars == <<access, refresh, sessions, info>>
vars == <<now, storeVars, family, replayed>>

Issued == DOMAIN family
Session == [client : Client, access : Issued, refresh : Issued, history : SUBSET Issued,
            expires : Nat, deadline : Nat]
Empty == [n \in {} |-> 0]

TypeOK ==
  /\ now \in 0 .. Horizon
  /\ Issued = 1 .. Cardinality(Issued) /\ Cardinality(Issued) <= MaxIssued
  /\ \A n \in DOMAIN access : n \in Issued /\ access[n] = family[n]
  /\ \A n \in DOMAIN refresh : n \in Issued /\ refresh[n] = family[n]
  /\ sessions \subseteq DOMAIN info
  /\ \A s \in DOMAIN info :
       info[s] \in Session /\ s \in Issued /\ info[s].expires <= info[s].deadline
  /\ replayed \subseteq DOMAIN info

Init ==
  /\ now = 0 /\ access = Empty /\ refresh = Empty
  /\ sessions = {} /\ info = Empty /\ family = Empty /\ replayed = {}
-----------------------------------------------------------------------------
\* prune: sessions past their deadline.
Expired == {s \in sessions : now >= info[s].deadline}

\* remove, for a set of sessions: their access token and every refresh token.
AccessWithout(S) ==
  [n \in DOMAIN access \ {info[s].access : s \in S} |-> access[n]]
\* Slip: only the current refresh token is deleted, not the spent ones.
RefreshWithoutCurrent(S) ==
  [n \in DOMAIN refresh \ {info[s].refresh : s \in S} |-> refresh[n]]

RefreshWithout(S) ==
  [n \in DOMAIN refresh \ UNION {info[s].history : s \in S} |-> refresh[n]]

Remove(S) ==
  /\ access' = AccessWithout(S)
  /\ refresh' = RefreshWithout(S)
  /\ sessions' = sessions \ S
  /\ UNCHANGED info

\* Slip: an access token outlives its session.
NotCapped(a, b) == a

Earlier(a, b) == IF a <= b THEN a ELSE b
Fresh == Cardinality(Issued) + 1

(* issue: the session's access token is replaced, its refresh tokens stay  *)
(* known.  old is the access token it had, none at login.                  *)
Issue(s, old, client, history, deadline) ==
  LET n == Fresh
      acc == AccessWithout(Expired)
      ref == RefreshWithout(Expired)
      fields == [client |-> client, access |-> n, refresh |-> n,
                 history |-> history \cup {n}, deadline |-> deadline,
                 expires |-> Earlier(now + AccessTTL, deadline)]
  IN  /\ n <= MaxIssued
      /\ access' = [m \in (DOMAIN acc \ old) \cup {n} |-> IF m = n THEN s ELSE acc[m]]
      /\ refresh' = [m \in DOMAIN ref \cup {n} |-> IF m = n THEN s ELSE ref[m]]
      /\ info' = [t \in DOMAIN info \cup {s} |-> IF t = s THEN fields ELSE info[t]]
      /\ family' = [m \in Issued \cup {n} |-> IF m = n THEN s ELSE family[m]]

(* Login with the right secret, below capacity after pruning.              *)
Login(c) ==
  /\ Cardinality(sessions \ Expired) < Capacity
  /\ sessions' = (sessions \ Expired) \cup {Fresh}
  /\ Issue(Fresh, {}, c, {}, now + RefreshTTL)
  /\ UNCHANGED <<now, replayed>>

\* ErrCapacity, or Identity of any token: nothing but the pruning.
Prune ==
  /\ Expired # {} /\ Remove(Expired)
  /\ UNCHANGED <<now, family, replayed>>

\* The session a refresh token leads to after pruning.
Known(n) == n \in DOMAIN refresh /\ refresh[n] \notin Expired

\* Slip: any refresh token of the session will do.
SpendableTwice(n) == Cardinality(info[refresh[n]].history) < MaxHistory

Spendable(n) ==
  LET s == refresh[n] IN n = info[s].refresh /\ Cardinality(info[s].history) < MaxHistory

(* Refresh with the current refresh token: both tokens rotate.             *)
Rotate(n) ==
  LET s == refresh[n]
  IN  /\ Known(n) /\ Spendable(n)
      /\ sessions' = sessions \ Expired
      /\ Issue(s, {info[s].access}, info[s].client, info[s].history, info[s].deadline)
      /\ UNCHANGED <<now, replayed>>

\* Slip: a spent token is only turned down.
RevokeNothing(n) ==
  LET s == refresh[n]
  IN  /\ Known(n) /\ ~Spendable(n)
      /\ Remove(Expired)
      /\ replayed' = IF n # info[s].refresh THEN replayed \cup {s} ELSE replayed
      /\ UNCHANGED <<now, family>>

(* Refresh with a spent token, or one rotation too many: the session ends. *)
Revoke(n) ==
  LET s == refresh[n]
  IN  /\ Known(n) /\ ~Spendable(n)
      /\ Remove(Expired \cup {s})
      /\ replayed' = IF n # info[s].refresh THEN replayed \cup {s} ELSE replayed
      /\ UNCHANGED <<now, family>>

\* Sessions are in memory: a restart forgets them.
Restart ==
  /\ sessions # {}
  /\ access' = Empty /\ refresh' = Empty /\ sessions' = {}
  /\ UNCHANGED <<now, info, family, replayed>>

Tick ==
  /\ now < Horizon /\ now' = now + 1
  /\ UNCHANGED <<storeVars, family, replayed>>

Next ==
  \/ \E c \in Client : Login(c)
  \/ Prune
  \/ \E n \in Issued : Rotate(n) \/ Revoke(n)
  \/ Restart
  \/ Tick

Spec == Init /\ [][Next]_vars
-----------------------------------------------------------------------------
\* Identity accepts the access token.
Accepted(n) ==
  /\ n \in DOMAIN access /\ access[n] \notin Expired
  /\ now < info[access[n]].expires

\* Refresh would rotate the refresh token.
Refreshable(n) == Known(n) /\ Spendable(n)

(***************************************************************************)
(* docs/client-contract.md: reuse of an old refresh token revokes the      *)
(* whole session, the pair issued by the rotation included, for good.      *)
(***************************************************************************)
ReplayRevokes ==
  \A n \in Issued : family[n] \in replayed => ~Accepted(n) /\ ~Refreshable(n)

(***************************************************************************)
(* Of all the tokens a session was ever given only the latest pair works,  *)
(* and both halves die with the deadline set at login.                     *)
(***************************************************************************)
OnlyLatestPairWorks ==
  \A n \in Issued : Accepted(n) \/ Refreshable(n) =>
    /\ \A m \in Issued : family[m] = family[n] => m <= n
    /\ now < info[family[n]].deadline

(***************************************************************************)
(* Memory is bounded by the capacity: the maps hold no token of a session  *)
(* that is gone, and a session at most MaxHistory refresh tokens.          *)
(***************************************************************************)
NothingLeaks ==
  /\ Cardinality(sessions) <= Capacity
  /\ DOMAIN access = {info[s].access : s \in sessions}
  /\ DOMAIN refresh = UNION {info[s].history : s \in sessions}
  /\ \A s \in sessions : Cardinality(info[s].history) <= MaxHistory
=============================================================================
