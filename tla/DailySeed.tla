------------------------------ MODULE DailySeed ------------------------------
(***************************************************************************)
(* The seed of the daily run (api/daily/common.go, db/daily.go).           *)
(*                                                                         *)
(* Every server process claims the seed of the day when it starts and then *)
(* once a day: a cron job wakes at the midnight of the server's own clock, *)
(* sleeps a second and tries once.  The row is dated by the DATABASE's     *)
(* clock, and a claim is two statements, so what a claim does depends on   *)
(* how its steps fall around the two midnights.                            *)
(*                                                                         *)
(* A day is far longer than a claim (every statement is bounded by the     *)
(* driver's timeouts): a cron claim ends before the next midnight.  A      *)
(* process can be started at any time, so a startup claim can meet one.    *)
(***************************************************************************)
EXTENDS Naturals

CONSTANTS
    Servers,    \* server processes sharing the database
    Secrets,    \* contents of a secret.key file
    MaxDay,     \* bound on the days
    MaxStops,   \* bound on how often a server stops
    MaxFails,   \* bound on how often a statement of a claim fails
    None        \* a missing row or file

Days == 0..MaxDay

\* Mutant: the day is left out of the hash.
deriveSeed_noDay(d, k) == <<0, k>>

\* deriveSeed: the md5 of the day number followed by the secret, taken to be
\* without collisions.
deriveSeed(d, k) == <<d, k>>

Seeds == Days \X Secrets

ASSUME DailySeedAssumption ==
    /\ MaxDay \in Nat /\ MaxStops \in Nat /\ MaxFails \in Nat
    /\ None \notin Secrets \cup Seeds

VARIABLES
    today,      \* UTC_DATE() of the database
    dailyRuns,  \* date -> seed, or None
    day,        \* server -> the day of its clock
    secret,     \* server -> the secret in its secret.key, or None; a running
                \*           server holds the same one
    phase,      \* server -> is it down, in daily.Init, or serving
    due,        \* servers whose cron job has woken and not yet claimed
    job,        \* server -> the statement its claim is about to run
    claim,      \* server -> the seed it claims
    torn,       \* days near whose midnight a claim ran while a clock struck or
                \* the clocks differed, or on which a claim failed
    stops,      \* number of stops so far
    fails       \* number of failed claims so far

seedVars == <<today, dailyRuns, day, secret, phase, due, job, claim,
              torn, stops, fails>>

-----------------------------------------------------------------------------
(* The two clocks *)

\* The cron job of s has nothing to do and nothing under way.
CronIdle(s) == phase[s] = "up" => s \notin due /\ job[s] = "none"

\* Midnight at the database.  No server lags more than a day behind.
DbMidnight ==
    /\ today < MaxDay
    /\ \A s \in Servers : day[s] >= today /\ (day[s] = today => CronIdle(s))
    /\ today' = today + 1
    /\ torn' = IF \E s \in Servers : job[s] # "none"
               THEN torn \cup {today + 1} ELSE torn
    /\ UNCHANGED <<dailyRuns, day, secret, phase, due, job, claim,
                   stops, fails>>

\* Mutant: the cron job is never scheduled.
ServerMidnight_noCron(s) ==
    /\ day[s] < MaxDay
    /\ day[s] <= today
    /\ CronIdle(s)
    /\ day' = [day EXCEPT ![s] = @ + 1]
    /\ torn' = IF job[s] # "none" THEN torn \cup {day[s] + 1} ELSE torn
    /\ UNCHANGED <<today, dailyRuns, secret, phase, due, job, claim, stops, fails>>

\* Midnight at server s: the cron job wakes if the scheduler has been started.
ServerMidnight(s) ==
    /\ day[s] < MaxDay
    /\ day[s] <= today
    /\ CronIdle(s)
    /\ day' = [day EXCEPT ![s] = @ + 1]
    /\ due' = IF phase[s] = "up" THEN due \cup {s} ELSE due
    /\ torn' = IF job[s] # "none" THEN torn \cup {day[s] + 1} ELSE torn
    /\ UNCHANGED <<today, dailyRuns, secret, phase, job, claim, stops,
                   fails>>

-----------------------------------------------------------------------------
(* A claim: Seed, then TryAddDailyRun *)

\* Mutant: the seed is computed before the secret is read.
Claim_earlySecret(s, k) ==
    /\ claim' = [claim EXCEPT ![s] = deriveSeed(day[s], secret[s])]
    /\ job' = [job EXCEPT ![s] = "insert"]
    /\ torn' = IF day[s] # today THEN torn \cup {day[s], today} ELSE torn

\* s computes the seed of its day.  A claim that begins while the clocks differ
\* may be dated wrongly.
Claim(s, k) ==
    /\ claim' = [claim EXCEPT ![s] = deriveSeed(day[s], k)]
    /\ job' = [job EXCEPT ![s] = "insert"]
    /\ torn' = IF day[s] # today THEN torn \cup {day[s], today} ELSE torn

\* Mutant: Init only schedules the cron job.
Start_noClaim(s) ==
    /\ phase[s] = "down"
    /\ \E k \in Secrets :
         /\ secret[s] \in {k, None}
         /\ secret' = [secret EXCEPT ![s] = k]
    /\ phase' = [phase EXCEPT ![s] = "up"]
    /\ due' = due \ {s}
    /\ UNCHANGED <<today, dailyRuns, day, job, claim, torn, stops, fails>>

\* The process starts: Init reads the secret or creates one that no other
\* server has, and claims the day's seed before the scheduler runs.
Start(s) ==
    /\ phase[s] = "down"
    /\ \E k \in Secrets :
         /\ IF secret[s] = None THEN \A x \in Servers : secret[x] # k
                                ELSE secret[s] = k
         /\ secret' = [secret EXCEPT ![s] = k]
         /\ Claim(s, k)
    /\ phase' = [phase EXCEPT ![s] = "starting"]
    /\ due' = due \ {s}
    /\ UNCHANGED <<today, dailyRuns, day, stops, fails>>

\* The cron job has slept its second.
CronClaim(s) ==
    /\ s \in due
    /\ Claim(s, secret[s])
    /\ due' = due \ {s}
    /\ UNCHANGED <<today, dailyRuns, day, secret, phase, stops, fails>>

\* Mutant: the latest claim wins.
ClaimInsert_replace(s) ==
    /\ job[s] = "insert"
    /\ dailyRuns' = [dailyRuns EXCEPT ![today] = claim[s]]
    /\ job' = [job EXCEPT ![s] = "select"]
    /\ UNCHANGED <<today, day, secret, phase, due, claim, torn, stops,
                   fails>>

\* INSERT ... UTC_DATE() ... ON DUPLICATE KEY UPDATE date = date.
ClaimInsert(s) ==
    /\ job[s] = "insert"
    /\ dailyRuns' = [dailyRuns EXCEPT ![today] = IF @ = None THEN claim[s] ELSE @]
    /\ job' = [job EXCEPT ![s] = "select"]
    /\ UNCHANGED <<today, day, secret, phase, due, claim, torn, stops,
                   fails>>

\* The claim is over.  Its outcome is only logged; after the startup claim the
\* scheduler is started and the server serves.
EndClaim(s) ==
    /\ job' = [job EXCEPT ![s] = "none"]
    /\ claim' = [claim EXCEPT ![s] = None]
    /\ phase' = [phase EXCEPT ![s] = "up"]
    /\ UNCHANGED <<today, dailyRuns, day, secret, due, stops>>

\* SELECT of today's row: found, or sql.ErrNoRows.
ClaimSelect(s) ==
    /\ job[s] = "select"
    /\ EndClaim(s)
    /\ UNCHANGED <<torn, fails>>

\* A statement fails: there is no other attempt.  An INSERT that took effect
\* before its error is a failure of the SELECT.
ClaimFails(s) ==
    /\ job[s] # "none"
    /\ fails < MaxFails
    /\ fails' = fails + 1
    /\ torn' = torn \cup {today}
    /\ EndClaim(s)

-----------------------------------------------------------------------------
(* The process *)

Stop(s) ==
    /\ phase[s] # "down"
    /\ stops < MaxStops
    /\ stops' = stops + 1
    /\ phase' = [phase EXCEPT ![s] = "down"]
    /\ job' = [job EXCEPT ![s] = "none"]
    /\ due' = due \ {s}
    /\ claim' = [claim EXCEPT ![s] = None]
    /\ UNCHANGED <<today, dailyRuns, day, secret, torn, fails>>

\* The container is created anew: its files are those of the image (the compose
\* file gives the server no volume).
Redeploy(s) ==
    /\ phase[s] = "down"
    /\ secret[s] # None
    /\ secret' = [secret EXCEPT ![s] = None]
    /\ UNCHANGED <<today, dailyRuns, day, phase, due, job, claim, torn,
                   stops, fails>>

\* GET /daily/seed: today's row, or 500 when there is none; nothing changes.
handleDailySeed ==
    /\ \E s \in Servers : phase[s] = "up"
    /\ UNCHANGED seedVars

DailyInit ==
    /\ today = 0
    /\ dailyRuns = [d \in Days |-> None]
    /\ day = [s \in Servers |-> 0]
    /\ secret = [s \in Servers |-> None]
    /\ phase = [s \in Servers |-> "down"]
    /\ due = {}
    /\ job = [s \in Servers |-> "none"]
    /\ claim = [s \in Servers |-> None]
    /\ torn = {}
    /\ stops = 0
    /\ fails = 0

ServerStep(s) == Start(s) \/ CronClaim(s) \/ ClaimInsert(s) \/ ClaimSelect(s)

DailyNext ==
    \/ DbMidnight
    \/ handleDailySeed
    \/ \E s \in Servers : \/ ServerMidnight(s) \/ ServerStep(s)
                          \/ ClaimFails(s) \/ Stop(s) \/ Redeploy(s)

\* Goroutines run and the container is restarted (restart: unless-stopped).
\* Neither clock stops short of the other.
DailySpec ==
    /\ DailyInit /\ [][DailyNext]_seedVars
    /\ \A s \in Servers : WF_seedVars(ServerStep(s))
    /\ \A s \in Servers : WF_seedVars(ServerMidnight(s) /\ day[s] < today)
    /\ WF_seedVars(DbMidnight /\ \E s \in Servers : day[s] > today)

-----------------------------------------------------------------------------
(* Properties *)

DailyTypeOK ==
    /\ today \in Days
    /\ dailyRuns \in [Days -> Seeds \cup {None}]
    /\ day \in [Servers -> Days]
    /\ secret \in [Servers -> Secrets \cup {None}]
    /\ phase \in [Servers -> {"down", "starting", "up"}]
    /\ due \subseteq Servers
    /\ job \in [Servers -> {"none", "insert", "select"}]
    /\ claim \in [Servers -> Seeds \cup {None}]
    /\ torn \subseteq Days
    /\ stops \in 0..MaxStops
    /\ fails \in 0..MaxFails

\* Once a day has a seed it keeps it: no restart, other server or new secret
\* gives the players of one day two different runs.
SeedStable ==
    [][\A d \in Days : dailyRuns[d] # None => dailyRuns'[d] = dailyRuns[d]]_seedVars

\* The seed of a day is derived from that day, so no two days share a seed (a
\* completed seed is never granted again), unless a claim met a midnight.
SeedOfTheDay ==
    \A d \in Days : (dailyRuns[d] # None /\ d \notin torn) => dailyRuns[d][1] = d

\* While a server serves and its job has nothing to do, today's seed is there,
\* unless a claim failed or met the midnight: handleDailySeed and clear answer.
SeededWhenServing ==
    \A s \in Servers :
        (phase[s] = "up" /\ CronIdle(s) /\ day[s] = today /\ today \notin torn)
        => dailyRuns[today] # None

\* However the servers stop and start, a day that lasts gets its seed, unless a
\* claim failed or met the midnight.
TodayGetsSeed ==
    \A d \in Days : today = d ~> (dailyRuns[d] # None \/ d \in torn \/ today # d)

\* db/daily.go:35-36: "by the time the INSERT returns, today's row is
\* guaranteed to exist".
RowThereAfterInsert ==
    \A s \in Servers : job[s] = "select" => dailyRuns[today] # None
=============================================================================
