--------------------------- MODULE CertCacheProofs ---------------------------
(***************************************************************************)
(* Proofs about CertCache, for any number of sign-ins and keys, any time   *)
(* to live and any delay.                                                  *)
(***************************************************************************)
EXTENDS CertCache, TLAPS

\* When a key was published and withdrawn.
KeyTimes ==
    \A k \in Keys :
        /\ since[k] = Never => k \notin published /\ until[k] = Never
        /\ since[k] # Never => since[k] <= now
        /\ k \in published => since[k] # Never /\ until[k] = Never
        /\ (since[k] # Never /\ k \notin published) =>
              until[k] # Never /\ until[k] <= now

\* A set of keys is what Google published at time t: nothing that was
\* withdrawn before, and all that was there before and still is.
PublishedAt(set, t) ==
    \A k \in Keys :
        /\ k \in set => /\ since[k] # Never
                        /\ until[k] # Never => t <= until[k]
        /\ (k \in published /\ since[k] < t) => k \in set

\* An answer on its way is no older than MaxDelay.
AnswersRecent ==
    \A l \in Logins :
        at[l] = "answered" =>
            /\ answer[l].asOf <= now
            /\ now - answer[l].asOf <= MaxDelay
            /\ PublishedAt(answer[l].keys, answer[l].asOf)

\* The cache holds what Google published at most MaxDelay before fetched.
CacheRecent ==
    IF fetched = Never
    THEN keys = {}
    ELSE /\ fetched <= now
         /\ \E t \in Time : /\ t <= fetched
                            /\ fetched - t <= MaxDelay
                            /\ PublishedAt(keys, t)

\* A sign-in under way has the id of its key, and one that reads again finds
\* a cache that has just been fetched.
UnderWay ==
    \A l \in Logins :
        /\ at[l] \in {"lookup", "fetch", "answered", "reread"} => kid[l] \in Keys
        /\ at[l] = "reread" => fetched = now

CertInv == CertTypeOK /\ KeyTimes /\ AnswersRecent /\ CacheRecent /\ UnderWay

-----------------------------------------------------------------------------
\* Nothing is cached at the start.
LEMMA CertInitInv == CertInit => CertInv
  BY CertAssumption
  DEF CertInit, CertInv, CertTypeOK, KeyTimes, AnswersRecent, CacheRecent,
      UnderWay, Time, Places, NoAnswer

\* Every step keeps the types.
LEMMA CertTypeNext == CertInv /\ [CertNext]_certVars => CertTypeOK'
<1> SUFFICES ASSUME CertInv, [CertNext]_certVars PROVE CertTypeOK'
  OBVIOUS
<1> USE CertAssumption DEF CertInv, CertTypeOK, Time, Places, NoAnswer
<1>1. CASE Tick
  BY <1>1 DEF Tick
<1>2. ASSUME NEW k \in Keys, Publish(k) \/ Withdraw(k) PROVE CertTypeOK'
  BY <1>2 DEF Publish, Withdraw
<1>3. ASSUME NEW l \in Logins, LoginStep(l) PROVE CertTypeOK'
  <2>1. CASE BeginLogin(l)
    BY <2>1 DEF BeginLogin
  <2>2. CASE Lookup(l)
    <3>1. CASE kid[l] \in keys /\ ~stale
      BY <2>2, <3>1 DEF Lookup, Verdict
    <3>2. CASE ~(kid[l] \in keys /\ ~stale)
      <4>1. (kid[l] \in keys) \in BOOLEAN
        OBVIOUS
      <4>2. ok' = [ok EXCEPT ![l] = kid[l] \in keys]
            /\ at' = [at EXCEPT ![l] = "fetch"]
            /\ UNCHANGED << now, published, since, until, keys, fetched,
                            answer, kid >>
        BY <2>2, <3>2 DEF Lookup
      <4>3. ok' \in [Logins -> BOOLEAN]
        BY <4>1, <4>2
      <4>4. QED
        BY <4>2, <4>3
    <3>3. QED
      BY <3>1, <3>2
  <2>3. CASE GoogleAnswers(l)
    BY <2>3 DEF GoogleAnswers
  <2>4. CASE RefreshFails(l)
    BY <2>4 DEF RefreshFails, Verdict
  <2>5. CASE Install(l)
    BY <2>5 DEF Install
  <2>6. CASE Reread(l)
    BY <2>6 DEF Reread, Verdict
  <2>7. QED
    BY <1>3, <2>1, <2>2, <2>3, <2>4, <2>5, <2>6 DEF LoginStep
<1>4. CASE CacheStops
  BY <1>4 DEF CacheStops
<1>5. CASE UNCHANGED certVars
  BY <1>5 DEF certVars
<1>6. QED
  BY <1>1, <1>2, <1>3, <1>4, <1>5 DEF CertNext, CertStep

\* Nothing that happens to the clock, to Google's keys or to other sign-ins
\* makes an answer or the cache worse than it was.
LEMMA CacheKept ==
  ASSUME CertInv, CertTypeOK',
         UNCHANGED << keys, fetched >>,
         \/ UNCHANGED << now, published, since, until >>
         \/ \E k \in Keys : Publish(k) \/ Withdraw(k)
         \/ Tick,
         \A l \in Logins : at'[l] = "answered" =>
                              at[l] = "answered" /\ answer'[l] = answer[l]
  PROVE  AnswersRecent' /\ CacheRecent'
<1> USE CertAssumption DEF CertInv, CertTypeOK, Time
<1> USE DEF KeyTimes, AnswersRecent, CacheRecent, PublishedAt
<1>1. CASE UNCHANGED << now, published, since, until >>
  <2>1. AnswersRecent'
    BY <1>1
  <2>2. CacheRecent'
    <3>1. CASE fetched = Never
      BY <1>1, <3>1
    <3>2. CASE fetched # Never
      <4>1. PICK t \in Time : /\ t <= fetched
                              /\ fetched - t <= MaxDelay
                              /\ PublishedAt(keys, t)
        BY <3>2
      <4>2. QED
        BY <1>1, <3>2, <4>1
    <3>3. QED
      BY <3>1, <3>2
  <2>3. QED
    BY <2>1, <2>2
<1>2. ASSUME NEW k \in Keys, Publish(k) PROVE AnswersRecent' /\ CacheRecent'
  <2>1. AnswersRecent'
    BY <1>2 DEF Publish
  <2>2. CacheRecent'
    BY <1>2 DEF Publish
  <2>3. QED
    BY <2>1, <2>2
<1>3. ASSUME NEW k \in Keys, Withdraw(k) PROVE AnswersRecent' /\ CacheRecent'
  <2>1. AnswersRecent'
    BY <1>3 DEF Withdraw
  <2>2. CacheRecent'
    <3>1. CASE fetched = Never
      BY <1>3, <3>1 DEF Withdraw
    <3>2. CASE fetched # Never
      <4>1. PICK t \in Time : /\ t <= fetched
                              /\ fetched - t <= MaxDelay
                              /\ PublishedAt(keys, t)
        BY <3>2
      <4>2. PublishedAt(keys, t)'
        BY <1>3, <3>2, <4>1 DEF Withdraw
      <4>3. QED
        BY <1>3, <3>2, <4>1, <4>2 DEF Withdraw
    <3>3. QED
      BY <3>1, <3>2
  <2>3. QED
    BY <2>1, <2>2
<1>4. CASE Tick
  <2>1. AnswersRecent'
    BY <1>4 DEF Tick
  <2>2. CacheRecent'
    BY <1>4 DEF Tick
  <2>3. QED
    BY <2>1, <2>2
<1>5. QED
  BY <1>1, <1>2, <1>3, <1>4

\* The answers, the cache and the sign-ins under way stay as they should.
LEMMA CertNextInv == CertInv /\ [CertNext]_certVars => CertInv'
<1> SUFFICES ASSUME CertInv, [CertNext]_certVars PROVE CertInv'
  OBVIOUS
<1>1. CertTypeOK'
  BY CertTypeNext
<1> USE CertAssumption DEF CertInv, CertTypeOK, Time, Places
<1>2. CASE Tick
  <2>1. KeyTimes'
    BY <1>2 DEF Tick, KeyTimes
  <2>2. UnderWay'
    BY <1>2 DEF Tick, UnderWay
  <2>3. AnswersRecent' /\ CacheRecent'
    BY <1>1, <1>2, CacheKept DEF Tick
  <2>4. QED
    BY <1>1, <2>1, <2>2, <2>3
<1>3. ASSUME NEW k \in Keys, Publish(k) \/ Withdraw(k) PROVE CertInv'
  <2>1. KeyTimes'
    <3>1. CASE Publish(k)
      BY <3>1 DEF Publish, KeyTimes
    <3>2. CASE Withdraw(k)
      BY <3>2 DEF Withdraw, KeyTimes
    <3>3. QED
      BY <1>3, <3>1, <3>2
  <2>2. UnderWay'
    BY <1>3 DEF Publish, Withdraw, UnderWay
  <2>3. AnswersRecent' /\ CacheRecent'
    BY <1>1, <1>3, CacheKept DEF Publish, Withdraw
  <2>4. QED
    BY <1>1, <2>1, <2>2, <2>3
<1>4. ASSUME UNCHANGED << now, published, since, until >> PROVE KeyTimes'
  BY <1>4 DEF KeyTimes
<1>5. ASSUME NEW l \in Logins, LoginStep(l) PROVE CertInv'
  <2>1. KeyTimes'
    BY <1>4, <1>5 DEF LoginStep, BeginLogin, Lookup, GoogleAnswers,
                      RefreshFails, Install, Reread
  <2>2. UnderWay'
    <3>1. CASE BeginLogin(l)
      BY <3>1 DEF BeginLogin, UnderWay
    <3>2. CASE Lookup(l)
      BY <3>2 DEF Lookup, Verdict, UnderWay
    <3>3. CASE GoogleAnswers(l)
      BY <3>3 DEF GoogleAnswers, UnderWay
    <3>4. CASE RefreshFails(l)
      BY <3>4 DEF RefreshFails, Verdict, UnderWay
    <3>5. CASE Install(l)
      BY <3>5 DEF Install, UnderWay
    <3>6. CASE Reread(l)
      BY <3>6 DEF Reread, Verdict, UnderWay
    <3>7. QED
      BY <1>5, <3>1, <3>2, <3>3, <3>4, <3>5, <3>6 DEF LoginStep
  <2>3. ASSUME UNCHANGED << keys, fetched, now, published, since, until >>,
               \A r \in Logins : at'[r] = "answered" =>
                                    at[r] = "answered" /\ answer'[r] = answer[r]
        PROVE  AnswersRecent' /\ CacheRecent'
    BY <1>1, <2>3, CacheKept
  <2>4. CASE BeginLogin(l)
    BY <1>1, <2>1, <2>2, <2>3, <2>4 DEF BeginLogin
  <2>5. CASE Lookup(l)
    BY <1>1, <2>1, <2>2, <2>3, <2>5 DEF Lookup, Verdict
  <2>6. CASE GoogleAnswers(l)
    <3>1. CacheRecent'
      BY <2>6 DEF GoogleAnswers, CacheRecent, PublishedAt
    <3>2. AnswersRecent'
      <4> SUFFICES ASSUME NEW r \in Logins, at'[r] = "answered"
                   PROVE  /\ answer'[r].asOf <= now'
                          /\ now' - answer'[r].asOf <= MaxDelay
                          /\ \A k \in Keys :
                               /\ k \in answer'[r].keys =>
                                     /\ since'[k] # Never
                                     /\ until'[k] # Never => answer'[r].asOf <= until'[k]
                               /\ (k \in published' /\ since'[k] < answer'[r].asOf) =>
                                     k \in answer'[r].keys
        BY DEF AnswersRecent, PublishedAt
      <4>1. CASE r = l
        <5>1. answer'[r] = [keys |-> published, asOf |-> now]
          BY <2>6, <4>1 DEF GoogleAnswers
        <5>2. QED
          BY <5>1, <2>6 DEF GoogleAnswers, KeyTimes
      <4>2. CASE r # l
        BY <2>6, <4>2 DEF GoogleAnswers, AnswersRecent, PublishedAt
      <4>3. QED
        BY <4>1, <4>2
    <3>3. QED
      BY <1>1, <2>1, <2>2, <3>1, <3>2
  <2>7. CASE RefreshFails(l)
    BY <1>1, <2>1, <2>2, <2>3, <2>7 DEF RefreshFails, Verdict
  <2>8. CASE Install(l)
    <3>1. AnswersRecent'
      BY <2>8 DEF Install, AnswersRecent, PublishedAt
    <3>2. answer[l].asOf \in Time /\ answer[l].asOf <= now
          /\ now - answer[l].asOf <= MaxDelay
          /\ PublishedAt(answer[l].keys, answer[l].asOf)
      BY <2>8 DEF Install, AnswersRecent
    <3>3. CacheRecent'
      BY <2>8, <3>2 DEF Install, CacheRecent, PublishedAt
    <3>4. QED
      BY <1>1, <2>1, <2>2, <3>1, <3>3
  <2>9. CASE Reread(l)
    BY <1>1, <2>1, <2>2, <2>3, <2>9 DEF Reread, Verdict
  <2>10. QED
    BY <1>5, <2>4, <2>5, <2>6, <2>7, <2>8, <2>9 DEF LoginStep
<1>6. CASE CacheStops
  BY <1>1, <1>4, <1>6 DEF CacheStops, AnswersRecent, CacheRecent, UnderWay
<1>7. CASE UNCHANGED certVars
  BY <1>7 DEF certVars, KeyTimes, AnswersRecent, CacheRecent, PublishedAt, UnderWay
<1>8. QED
  BY <1>2, <1>3, <1>5, <1>6, <1>7 DEF CertNext, CertStep

-----------------------------------------------------------------------------
\* The invariant holds in every state.
THEOREM CertInvariant == CertSpec => []CertInv
<1>1. QED
  BY CertInitInv, CertNextInv, PTL DEF CertSpec

\* The variables keep their types.
THEOREM CertTypeCorrect == CertSpec => []CertTypeOK
<1>1. CertInv => CertTypeOK
  BY DEF CertInv
<1>2. QED
  BY <1>1, CertInvariant, PTL

\* A key that both reads can return was published at most MaxDelay before the
\* cache was fetched, which is now for the second read.
LEMMA CachedKeyRecent ==
  ASSUME CertInv, NEW k \in keys, k \in Keys, fetched # Never
  PROVE  /\ since[k] # Never
         /\ k \notin published => fetched - until[k] <= MaxDelay
<1>1. PICK t \in Time : /\ t <= fetched /\ fetched - t <= MaxDelay
                        /\ PublishedAt(keys, t)
  BY DEF CertInv, CacheRecent
<1>2. since[k] # Never /\ (until[k] # Never => t <= until[k])
  BY <1>1 DEF PublishedAt
<1>3. k \notin published => until[k] \in Time /\ t <= until[k]
  BY <1>2 DEF CertInv, CertTypeOK, KeyTimes
<1>4. t \in Nat /\ fetched \in Nat /\ until[k] \in Time \cup {Never}
  BY CertAssumption DEF CertInv, CertTypeOK, Time
<1>5. QED
  BY <1>1, <1>2, <1>3, <1>4, CertAssumption DEF Time

\* A withdrawn key is accepted for TTL + MaxDelay at most, unless the sign-in
\* falls back to the old cache because its own fetch failed.
THEOREM WithdrawnKeyIsRefused == CertSpec => WithdrawnKeyExpires
<1> DEFINE A == \A l \in Logins :
                  (Accepts(l) /\ at[l] \in {"lookup", "reread"}) =>
                      LET k == kid[l] IN
                      /\ since[k] # Never
                      /\ k \notin published => now - until[k] <= TTL + MaxDelay
<1>1. CertInv /\ [CertNext]_certVars => [A]_certVars
  <2> SUFFICES ASSUME CertInv, CertNext,
                      NEW l \in Logins, Accepts(l), at[l] \in {"lookup", "reread"}
               PROVE  /\ since[kid[l]] # Never
                      /\ kid[l] \notin published =>
                            now - until[kid[l]] <= TTL + MaxDelay
    OBVIOUS
  <2> USE CertAssumption DEF CertInv, CertTypeOK, Time
  <2>1. Lookup(l) \/ Reread(l)
    <3>1. ASSUME NEW r \in Logins, LoginStep(r), r # l PROVE FALSE
      BY <3>1 DEF LoginStep, BeginLogin, Lookup, GoogleAnswers, RefreshFails,
                  Install, Reread, Verdict, Accepts
    <3>2. LoginStep(l) => Lookup(l) \/ Reread(l)
      BY DEF LoginStep, BeginLogin, GoogleAnswers, RefreshFails, Install
    <3>3. ~Tick /\ ~CacheStops /\ \A k \in Keys : ~(Publish(k) \/ Withdraw(k))
      BY DEF Tick, CacheStops, Publish, Withdraw, Accepts
    <3>4. QED
      BY <3>1, <3>2, <3>3 DEF CertNext, CertStep
  <2>2. CASE Lookup(l)
    <3>1. kid[l] \in keys /\ ~stale
      BY <2>2 DEF Lookup, Accepts
    <3>2. fetched \in Nat /\ now - fetched <= TTL /\ kid[l] \in Keys
      BY <3>1, <2>2 DEF stale, Lookup, UnderWay
    <3>3. /\ since[kid[l]] # Never
          /\ kid[l] \notin published => fetched - until[kid[l]] <= MaxDelay
      BY <3>1, <3>2, CachedKeyRecent
    <3>4. kid[l] \notin published => until[kid[l]] \in Nat
      BY <3>2, <3>3 DEF KeyTimes
    <3>5. QED
      BY <3>2, <3>3, <3>4
  <2>3. CASE Reread(l)
    <3>1. kid[l] \in keys /\ kid[l] \in Keys /\ fetched = now /\ now \in Nat
      BY <2>3 DEF Reread, Verdict, Accepts, UnderWay
    <3>2. /\ since[kid[l]] # Never
          /\ kid[l] \notin published => fetched - until[kid[l]] <= MaxDelay
      BY <3>1, CachedKeyRecent
    <3>3. kid[l] \notin published => until[kid[l]] \in Nat
      BY <3>1, <3>2 DEF KeyTimes
    <3>4. QED
      BY <3>1, <3>2, <3>3
  <2>4. QED
    BY <2>1, <2>2, <2>3
<1>2. QED
  BY <1>1, CertInvariant, PTL DEF CertSpec, WithdrawnKeyExpires

\* A key that is published for longer than an answer takes is accepted by every
\* sign-in that reaches Google.
THEOREM CurrentKeyIsAccepted == CertSpec => CurrentKeyAccepted
<1> DEFINE A == \A l \in Logins :
                  (Rejects(l) /\ at[l] = "reread") =>
                      LET k == kid[l] IN
                      k \notin published \/ now - since[k] <= MaxDelay
<1>1. CertInv /\ [CertNext]_certVars => [A]_certVars
  <2> SUFFICES ASSUME CertInv, CertNext,
                      NEW l \in Logins, Rejects(l), at[l] = "reread",
                      kid[l] \in published
               PROVE  now - since[kid[l]] <= MaxDelay
    OBVIOUS
  <2> USE CertAssumption DEF CertInv, CertTypeOK, Time
  <2>1. Reread(l)
    <3>1. ASSUME NEW r \in Logins, LoginStep(r), r # l PROVE FALSE
      BY <3>1 DEF LoginStep, BeginLogin, Lookup, GoogleAnswers, RefreshFails,
                  Install, Reread, Verdict, Rejects
    <3>2. LoginStep(l) => Reread(l)
      BY DEF LoginStep, BeginLogin, Lookup, GoogleAnswers, RefreshFails, Install
    <3>3. ~Tick /\ ~CacheStops /\ \A k \in Keys : ~(Publish(k) \/ Withdraw(k))
      BY DEF Tick, CacheStops, Publish, Withdraw, Rejects
    <3>4. QED
      BY <3>1, <3>2, <3>3 DEF CertNext, CertStep
  <2>2. kid[l] \notin keys /\ kid[l] \in Keys /\ fetched = now /\ now \in Nat
    BY <2>1 DEF Reread, Verdict, Rejects, UnderWay
  <2>3. PICK t \in Time : t <= now /\ now - t <= MaxDelay /\ PublishedAt(keys, t)
    BY <2>2 DEF CacheRecent
  <2>4. since[kid[l]] \in Nat /\ ~(since[kid[l]] < t)
    BY <2>2, <2>3 DEF PublishedAt, KeyTimes
  <2>5. QED
    BY <2>2, <2>3, <2>4
<1>2. QED
  BY <1>1, CertInvariant, PTL DEF CertSpec, CurrentKeyAccepted
=============================================================================
