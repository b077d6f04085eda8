------------------------------ MODULE CertCache ------------------------------
(***************************************************************************)
(* The cache of the public keys that sign-in tokens are verified with      *)
(* (api/account/firebase.go): firebaseCertCache, its get and its refresh.  *)
(*                                                                         *)
(* get reads the cache under a lock, and when the key of the token is      *)
(* missing or the cache is older than certCacheTTL it lets go of the lock  *)
(* and fetches all keys anew.  Sign-ins that do so at once fetch at once,  *)
(* their answers may arrive in another order than they were given, and     *)
(* each replaces the whole cache.  Google publishes new keys and withdraws *)
(* old ones meanwhile.                                                     *)
(*                                                                         *)
(* What the signature, the claims and the email of the token are checked   *)
(* for is external or belongs to Accounts; here a sign-in is "accepted"    *)
(* when get returns a key for its token.                                   *)
(***************************************************************************)
EXTENDS Integers, FiniteSets

CONSTANTS
    Logins,   \* the sign-ins that may be under way at once
    Keys,     \* the ids ("kid") of the keys, published sooner or later
    TTL,      \* certCacheTTL
    MaxDelay, \* how old Google's answer may be when it is put into the cache
    MaxTime,  \* bound: the clock
    Published0, \* the sets of keys that may be published at first
    Never     \* no time, no key

ASSUME CertAssumption ==
    /\ TTL \in Nat /\ MaxDelay \in Nat /\ MaxTime \in Nat
    /\ Published0 \subseteq SUBSET Keys
    /\ Never \notin Nat \cup Keys

VARIABLES
    now,       \* the clock
    published, \* the keys Google publishes
    since,     \* when each key was first published
    until,     \* when each key was withdrawn
    keys,      \* firebaseCertCache.keys
    fetched,   \* firebaseCertCache.fetched
    at,        \* where each sign-in is
    kid,       \* the key its token names
    ok,        \* had it found the key in the cache, however old?
    answer     \* the keys Google gave it, and when

certVars == << now, published, since, until, keys, fetched, at, kid, ok, answer >>

Time == 0 .. MaxTime
Places == {"idle", "lookup", "fetch", "answered", "reread", "accepted", "rejected"}
NoAnswer == [keys |-> {}, asOf |-> 0]

CertInit ==
    /\ now = 0
    /\ published \in Published0
    /\ since = [k \in Keys |-> IF k \in published THEN 0 ELSE Never]
    /\ until = [k \in Keys |-> Never]
    /\ keys = {}
    /\ fetched = Never
    /\ at = [l \in Logins |-> "idle"]
    /\ kid = [l \in Logins |-> Never]
    /\ ok = [l \in Logins |-> FALSE]
    /\ answer = [l \in Logins |-> NoAnswer]

-----------------------------------------------------------------------------
\* Time passes on the way to and from Google, not between two steps of get;
\* an answer that is on its way arrives before it is older than MaxDelay.
Tick ==
    /\ now < MaxTime
    /\ \A l \in Logins : at[l] \notin {"lookup", "reread"}
    /\ \A l \in Logins : at[l] = "answered" => now - answer[l].asOf < MaxDelay
    /\ now' = now + 1
    /\ UNCHANGED << published, since, until, keys, fetched, at, kid, ok, answer >>

\* Google begins to publish a key.
Publish(k) ==
    /\ since[k] = Never
    /\ published' = published \cup {k}
    /\ since' = [since EXCEPT ![k] = now]
    /\ UNCHANGED << now, until, keys, fetched, at, kid, ok, answer >>

\* Google publishes a key no longer: tokens signed with it must go.
Withdraw(k) ==
    /\ k \in published
    /\ published' = published \ {k}
    /\ until' = [until EXCEPT ![k] = now]
    /\ UNCHANGED << now, since, keys, fetched, at, kid, ok, answer >>

-----------------------------------------------------------------------------
\* A client sends a token: get is called with the key id in its header.
BeginLogin(l) ==
    /\ at[l] \in {"idle", "accepted", "rejected"}
    /\ \E k \in Keys : kid' = [kid EXCEPT ![l] = k]
    /\ at' = [at EXCEPT ![l] = "lookup"]
    /\ UNCHANGED << now, published, since, until, keys, fetched, ok, answer >>

\* get returns, and what it has looked up goes with it.
Verdict(l, v) ==
    /\ at' = [at EXCEPT ![l] = v]
    /\ kid' = [kid EXCEPT ![l] = Never]
    /\ ok' = [ok EXCEPT ![l] = FALSE]

stale == fetched = Never \/ now - fetched > TTL

\* The age of the cache is not looked at.
Lookup_wrong(l) ==
    /\ at[l] = "lookup"
    /\ IF kid[l] \in keys
       THEN Verdict(l, "accepted")
       ELSE /\ at' = [at EXCEPT ![l] = "fetch"]
            /\ ok' = [ok EXCEPT ![l] = FALSE]
            /\ UNCHANGED kid
    /\ UNCHANGED << now, published, since, until, keys, fetched, answer >>

\* The first read, under the lock: a key from a fresh cache is returned.
Lookup(l) ==
    /\ at[l] = "lookup"
    /\ IF kid[l] \in keys /\ ~stale
       THEN Verdict(l, "accepted")
       ELSE /\ at' = [at EXCEPT ![l] = "fetch"]
            /\ ok' = [ok EXCEPT ![l] = kid[l] \in keys]
            /\ UNCHANGED kid
    /\ UNCHANGED << now, published, since, until, keys, fetched, answer >>

\* Google answers the request of refresh with the keys it publishes now.
GoogleAnswers(l) ==
    /\ at[l] = "fetch"
    /\ answer' = [answer EXCEPT ![l] = [keys |-> published, asOf |-> now]]
    /\ at' = [at EXCEPT ![l] = "answered"]
    /\ UNCHANGED << now, published, since, until, keys, fetched, kid, ok >>

\* refresh returns an error, before or after Google has answered: a key that
\* was in the cache is returned, however old.
RefreshFails(l) ==
    /\ at[l] \in {"fetch", "answered"}
    /\ Verdict(l, IF ok[l] THEN "accepted" ELSE "rejected")
    /\ answer' = [answer EXCEPT ![l] = NoAnswer]
    /\ UNCHANGED << now, published, since, until, keys, fetched >>

\* The time at which the cache expires is stored, not that of the fetch.
Install_wrong(l) ==
    /\ at[l] = "answered"
    /\ keys' = answer[l].keys
    /\ fetched' = now + TTL
    /\ at' = [at EXCEPT ![l] = "reread"]
    /\ answer' = [answer EXCEPT ![l] = NoAnswer]
    /\ UNCHANGED << now, published, since, until, kid, ok >>

\* The end of refresh: the answer replaces the cache, which counts as fetched
\* now, not when Google answered.
Install(l) ==
    /\ at[l] = "answered"
    /\ keys' = answer[l].keys
    /\ fetched' = now
    /\ at' = [at EXCEPT ![l] = "reread"]
    /\ answer' = [answer EXCEPT ![l] = NoAnswer]
    /\ UNCHANGED << now, published, since, until, kid, ok >>

\* What the first read found is returned after the refresh, too.
Reread_wrong(l) ==
    /\ at[l] = "reread"
    /\ Verdict(l, IF ok[l] THEN "accepted" ELSE "rejected")
    /\ UNCHANGED << now, published, since, until, keys, fetched, answer >>

\* The second read: the cache may be another sign-in's by now.
Reread(l) ==
    /\ at[l] = "reread"
    /\ Verdict(l, IF kid[l] \in keys THEN "accepted" ELSE "rejected")
    /\ UNCHANGED << now, published, since, until, keys, fetched, answer >>

\* The process ends and is started again: the cache was in its memory only.
CacheStops ==
    /\ keys' = {}
    /\ fetched' = Never
    /\ at' = [l \in Logins |-> "idle"]
    /\ kid' = [l \in Logins |-> Never]
    /\ ok' = [l \in Logins |-> FALSE]
    /\ answer' = [l \in Logins |-> NoAnswer]
    /\ UNCHANGED << now, published, since, until >>

LoginStep(l) ==
    \/ BeginLogin(l) \/ Lookup(l) \/ GoogleAnswers(l)
    \/ RefreshFails(l) \/ Install(l) \/ Reread(l)

CertStep ==
    \/ Tick
    \/ \E k \in Keys : Publish(k) \/ Withdraw(k)
    \/ \E l \in Logins : LoginStep(l)

CertNext == CertStep \/ CacheStops

CertSpec == CertInit /\ [][CertNext]_certVars

(***************************************************************************)
(* Properties                                                              *)
(***************************************************************************)

\* Every variable has its type.
CertTypeOK ==
    /\ now \in Time
    /\ published \in SUBSET Keys
    /\ since \in [Keys -> Time \cup {Never}]
    /\ until \in [Keys -> Time \cup {Never}]
    /\ keys \in SUBSET Keys
    /\ fetched \in Time \cup {Never}
    /\ at \in [Logins -> Places]
    /\ kid \in [Logins -> Keys \cup {Never}]
    /\ ok \in [Logins -> BOOLEAN]
    /\ answer \in [Logins -> [keys : SUBSET Keys, asOf : Time]]

Accepts(l) == at[l] # "accepted" /\ at'[l] = "accepted"
Rejects(l) == at[l] # "rejected" /\ at'[l] = "rejected"

\* A token signed with a withdrawn key is accepted for certCacheTTL and the
\* age of an answer at most, however many sign-ins refresh the cache at once
\* and in whatever order their answers come; only a sign-in whose own fetch
\* fails may accept an older key (the fallback of get, firebase.go:91-96).
WithdrawnKeyExpires ==
    [][ \A l \in Logins :
          (Accepts(l) /\ at[l] \in {"lookup", "reread"}) =>
              LET k == kid[l] IN
              /\ since[k] # Never
              /\ k \notin published => now - until[k] <= TTL + MaxDelay ]_certVars

\* A token signed with a key that is published, and has been for longer than
\* an answer takes, is refused only when the sign-in could not reach Google: a
\* new key is looked for at once, and an older answer that another sign-in
\* puts into the cache after ours has the key as well.
CurrentKeyAccepted ==
    [][ \A l \in Logins :
          (Rejects(l) /\ at[l] = "reread") =>
              LET k == kid[l] IN
              k \notin published \/ now - since[k] <= MaxDelay ]_certVars
=============================================================================
