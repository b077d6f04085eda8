--------------------------- MODULE RunClearProofs ---------------------------
(***************************************************************************)
(* Proofs about DailySeed and, over it, RunClear, for every set of         *)
(* servers, requests and runs and any number of days and failures.         *)
(***************************************************************************)
EXTENDS RunClear, TLAPS

-----------------------------------------------------------------------------
(* The daily seeds *)

\* A process that runs has a secret; one that starts is in its claim; only a
\* serving one has a cron job to run.
Running ==
    \A s \in Servers :
        /\ phase[s] # "down" => secret[s] \in Secrets
        /\ phase[s] = "starting" => job[s] # "none"
        /\ phase[s] = "down" => job[s] = "none"
        /\ s \in due => phase[s] = "up"

\* A claim holds a seed, and it is the seed of the database's day unless that
\* day is torn.
ClaimDated ==
    \A s \in Servers :
        job[s] = "insert" =>
            claim[s] \in Seeds /\ (claim[s][1] = today \/ today \in torn)

\* After the INSERT today's row is there unless today is torn.
SelectSees ==
    \A s \in Servers :
        (job[s] = "select" /\ today \notin torn) => dailyRuns[today] # None

\* A server that is a day ahead of the database is about to claim, or the
\* coming day is torn already.
Aware ==
    \A s \in Servers :
        (phase[s] # "down" /\ day[s] > today /\ s \notin due) => day[s] \in torn

DailyInv ==
    /\ DailyTypeOK
    /\ Running
    /\ ClaimDated
    /\ SeedOfTheDay
    /\ SelectSees
    /\ Aware
    /\ SeededWhenServing

-----------------------------------------------------------------------------
\* No process runs and no day has a seed at the start.
LEMMA DailyInitInv == DailyInit => DailyInv
  BY DailySeedAssumption
  DEF DailyInit, DailyInv, DailyTypeOK, Running, ClaimDated, SeedOfTheDay,
      SelectSees, Aware, SeededWhenServing, Days

\* Whatever a process does, its variables stay in their types.
LEMMA DailyTypeNext == DailyInv /\ [DailyNext]_seedVars => DailyTypeOK'
<1> SUFFICES ASSUME DailyInv, [DailyNext]_seedVars PROVE DailyTypeOK'
  OBVIOUS
<1> USE DailySeedAssumption DEF DailyInv, DailyTypeOK, Days
<1>1. CASE DbMidnight
  BY <1>1 DEF DbMidnight
<1>2. CASE handleDailySeed \/ UNCHANGED seedVars
  BY <1>2 DEF handleDailySeed, seedVars
<1>3. ASSUME NEW s \in Servers, ServerMidnight(s) PROVE DailyTypeOK'
  <2>1. day[s] + 1 \in Days
    BY <1>3 DEF ServerMidnight
  <2>2. due' \subseteq Servers
    BY <1>3 DEF ServerMidnight
  <2>3. day' \in [Servers -> Days] /\ torn' \subseteq Days
    BY <1>3, <2>1 DEF ServerMidnight
  <2> QED
    BY <1>3, <2>2, <2>3 DEF ServerMidnight
<1>4. ASSUME NEW s \in Servers, Start(s) PROVE DailyTypeOK'
  <2>1. PICK k \in Secrets : Claim(s, k) /\ secret' = [secret EXCEPT ![s] = k]
    BY <1>4 DEF Start
  <2>2. secret' \in [Servers -> Secrets \cup {None}]
    BY <2>1
  <2>3. claim' \in [Servers -> Seeds \cup {None}]
    BY <2>1 DEF Claim, deriveSeed, Seeds
  <2>4. job' \in [Servers -> {"none", "insert", "select"}] /\ torn' \subseteq Days
    BY <2>1 DEF Claim
  <2> QED
    BY <1>4, <2>2, <2>3, <2>4 DEF Start
<1>5. ASSUME NEW s \in Servers, CronClaim(s) PROVE DailyTypeOK'
  <2>1. secret[s] \in Secrets
    BY <1>5 DEF CronClaim, Running
  <2> QED
    BY <1>5, <2>1 DEF CronClaim, Claim, deriveSeed, Seeds
<1>6. ASSUME NEW s \in Servers, ClaimInsert(s) PROVE DailyTypeOK'
  BY <1>6 DEF ClaimInsert
<1>7. ASSUME NEW s \in Servers, ClaimSelect(s) PROVE DailyTypeOK'
  BY <1>7 DEF ClaimSelect, EndClaim
<1>8. ASSUME NEW s \in Servers, ClaimFails(s) PROVE DailyTypeOK'
  BY <1>8 DEF ClaimFails, EndClaim
<1>9. ASSUME NEW s \in Servers, Stop(s) PROVE DailyTypeOK'
  BY <1>9 DEF Stop
<1>10. ASSUME NEW s \in Servers, Redeploy(s) PROVE DailyTypeOK'
  BY <1>10 DEF Redeploy
<1> QED
  BY <1>1, <1>2, <1>3, <1>4, <1>5, <1>6, <1>7, <1>8, <1>9, <1>10
  DEF DailyNext, ServerStep

\* The invariant survives every step: a claim that a midnight overtakes tears
\* the day that begins, every other one finds the day it was computed for.
LEMMA DailyInvNext == DailyInv /\ [DailyNext]_seedVars => DailyInv'
<1> SUFFICES ASSUME DailyInv, [DailyNext]_seedVars
             PROVE  /\ Running' /\ ClaimDated' /\ SeedOfTheDay'
                    /\ SelectSees' /\ Aware' /\ SeededWhenServing'
  BY DailyTypeNext DEF DailyInv
<1> USE DailySeedAssumption DEF DailyInv, DailyTypeOK, Days
<1>1. CASE DbMidnight
  <2> USE <1>1 DEF DbMidnight
  <2>1. Running'
    BY DEF Running
  <2>2. ClaimDated'
    BY DEF ClaimDated
  <2>3. SeedOfTheDay'
    BY DEF SeedOfTheDay
  <2>4. SelectSees'
    BY DEF SelectSees
  <2>5. Aware'
    BY DEF Aware
  <2>6. SeededWhenServing'
    <3> SUFFICES ASSUME NEW s \in Servers, phase'[s] = "up", CronIdle(s)',
                        day'[s] = today', today' \notin torn'
                 PROVE  FALSE
      BY DEF SeededWhenServing
    <3>1. phase[s] = "up" /\ s \notin due /\ day[s] = today + 1
      BY DEF CronIdle
    <3>2. day[s] > today
      BY <3>1
    <3>3. day[s] \in torn
      BY <3>1, <3>2 DEF Aware
    <3> QED
      BY <3>1, <3>3
  <2> QED
    BY <2>1, <2>2, <2>3, <2>4, <2>5, <2>6
<1>2. CASE handleDailySeed \/ UNCHANGED seedVars
  BY <1>2 DEF handleDailySeed, seedVars, Running, ClaimDated, SeedOfTheDay,
              SelectSees, Aware, SeededWhenServing, CronIdle
<1>3. ASSUME NEW s \in Servers, ServerMidnight(s)
      PROVE  /\ Running' /\ ClaimDated' /\ SeedOfTheDay'
             /\ SelectSees' /\ Aware' /\ SeededWhenServing'
  <2> USE <1>3 DEF ServerMidnight
  <2>1. Running'
    BY DEF Running
  <2>2. ClaimDated'
    BY DEF ClaimDated
  <2>3. SeedOfTheDay'
    BY DEF SeedOfTheDay
  <2>4. SelectSees'
    BY DEF SelectSees
  <2>5. Aware'
    BY DEF Aware, Running
  <2>6. SeededWhenServing'
    BY DEF SeededWhenServing, CronIdle
  <2> QED
    BY <2>1, <2>2, <2>3, <2>4, <2>5, <2>6
<1>4. ASSUME NEW s \in Servers, NEW k \in Secrets, Claim(s, k),
             phase'[s] # "down", phase[s] = "up" => s \in due,
             phase' = [phase EXCEPT ![s] = phase'[s]],
             due' = due \ {s}, secret'[s] = k,
             secret' = [secret EXCEPT ![s] = k],
             UNCHANGED <<today, dailyRuns, day>>
      PROVE  /\ Running' /\ ClaimDated' /\ SeedOfTheDay'
             /\ SelectSees' /\ Aware' /\ SeededWhenServing'
  <2> USE <1>4 DEF Claim
  <2>1. Running'
    BY DEF Running
  <2>2. ClaimDated'
    BY DEF ClaimDated, deriveSeed, Seeds
  <2>3. SeedOfTheDay'
    BY DEF SeedOfTheDay
  <2>4. SelectSees'
    BY DEF SelectSees
  <2>5. Aware'
    BY DEF Aware
  <2>6. SeededWhenServing'
    BY DEF SeededWhenServing, CronIdle
  <2> QED
    BY <2>1, <2>2, <2>3, <2>4, <2>5, <2>6
<1>5. ASSUME NEW s \in Servers, Start(s) \/ CronClaim(s)
      PROVE  /\ Running' /\ ClaimDated' /\ SeedOfTheDay'
             /\ SelectSees' /\ Aware' /\ SeededWhenServing'
  <2>1. CASE Start(s)
    <3>1. PICK k \in Secrets : Claim(s, k) /\ secret' = [secret EXCEPT ![s] = k]
      BY <2>1 DEF Start
    <3> QED
      BY <2>1, <3>1, <1>4 DEF Start
  <2>2. CASE CronClaim(s)
    <3>1. secret[s] \in Secrets /\ phase[s] = "up"
      BY <2>2 DEF CronClaim, Running
    <3>2. phase' = [phase EXCEPT ![s] = phase'[s]] /\ phase'[s] = "up"
      BY <2>2, <3>1 DEF CronClaim
    <3>3. secret' = [secret EXCEPT ![s] = secret[s]] /\ secret'[s] = secret[s]
      BY <2>2 DEF CronClaim
    <3> QED
      BY <2>2, <3>1, <3>2, <3>3, <1>4 DEF CronClaim
  <2> QED
    BY <1>5, <2>1, <2>2
<1>6. ASSUME NEW s \in Servers, ClaimInsert(s)
      PROVE  /\ Running' /\ ClaimDated' /\ SeedOfTheDay'
             /\ SelectSees' /\ Aware' /\ SeededWhenServing'
  <2> USE <1>6 DEF ClaimInsert
  <2>1. Running'
    BY DEF Running
  <2>2. ClaimDated'
    BY DEF ClaimDated
  <2>3. SeedOfTheDay'
    BY DEF SeedOfTheDay, ClaimDated
  <2>4. SelectSees'
    BY DEF SelectSees, ClaimDated
  <2>5. Aware'
    BY DEF Aware
  <2>6. SeededWhenServing'
    BY DEF SeededWhenServing, CronIdle, ClaimDated
  <2> QED
    BY <2>1, <2>2, <2>3, <2>4, <2>5, <2>6
<1>7. ASSUME NEW s \in Servers, ClaimSelect(s) \/ ClaimFails(s)
      PROVE  /\ Running' /\ ClaimDated' /\ SeedOfTheDay'
             /\ SelectSees' /\ Aware' /\ SeededWhenServing'
  <2> USE <1>7 DEF ClaimSelect, ClaimFails, EndClaim
  <2>1. Running'
    BY DEF Running
  <2>2. ClaimDated'
    BY DEF ClaimDated
  <2>3. SeedOfTheDay'
    BY DEF SeedOfTheDay
  <2>4. SelectSees'
    BY DEF SelectSees
  <2>5. Aware'
    BY DEF Aware, Running
  <2>6. SeededWhenServing'
    BY DEF SeededWhenServing, CronIdle, SelectSees
  <2> QED
    BY <2>1, <2>2, <2>3, <2>4, <2>5, <2>6
<1>8. ASSUME NEW s \in Servers, Stop(s) \/ Redeploy(s)
      PROVE  /\ Running' /\ ClaimDated' /\ SeedOfTheDay'
             /\ SelectSees' /\ Aware' /\ SeededWhenServing'
  <2> USE <1>8 DEF Stop, Redeploy
  <2>1. Running'
    BY DEF Running
  <2>2. ClaimDated'
    BY DEF ClaimDated
  <2>3. SeedOfTheDay'
    BY DEF SeedOfTheDay
  <2>4. SelectSees'
    BY DEF SelectSees
  <2>5. Aware'
    BY DEF Aware
  <2>6. SeededWhenServing'
    BY DEF SeededWhenServing, CronIdle
  <2> QED
    BY <2>1, <2>2, <2>3, <2>4, <2>5, <2>6
<1> QED
  BY <1>1, <1>2, <1>3, <1>5, <1>6, <1>7, <1>8 DEF DailyNext, ServerStep

-----------------------------------------------------------------------------
\* The invariant holds in every reachable state.
THEOREM DailyInvariance == DailySpec => []DailyInv
<1>1. DailyInit /\ [][DailyNext]_seedVars => []DailyInv
  BY DailyInitInv, DailyInvNext, PTL
<1> QED
  BY <1>1, PTL DEF DailySpec

\* Type correctness.
THEOREM DailyTypeCorrect == DailySpec => []DailyTypeOK
<1>1. DailyInv => DailyTypeOK
  BY DEF DailyInv
<1> QED
  BY <1>1, DailyInvariance, PTL

\* The seed of a day that no claim met the midnight of is derived from that day
\* (daily/common.go Seed, db/daily.go TryAddDailyRun).
THEOREM SeedOfTheDayHolds == DailySpec => []SeedOfTheDay
<1>1. DailyInv => SeedOfTheDay
  BY DEF DailyInv
<1> QED
  BY <1>1, DailyInvariance, PTL

\* A server that serves and has no claim to make finds today's seed (daily.Init
\* claims before the server serves, the cron job at each midnight).
THEOREM SeededWhenServingHolds == DailySpec => []SeededWhenServing
<1>1. DailyInv => SeededWhenServing
  BY DEF DailyInv
<1> QED
  BY <1>1, DailyInvariance, PTL

\* A step leaves the seed of a day that has one.
SeedsKept == \A d \in Days : dailyRuns[d] # None => dailyRuns'[d] = dailyRuns[d]

LEMMA SeedsKeptNext == DailyInv /\ [DailyNext]_seedVars => SeedsKept
  BY DEF SeedsKept, DailyInv, DailyTypeOK, DailyNext, ServerStep, DbMidnight, handleDailySeed,
         ServerMidnight, Start, CronClaim, ClaimInsert, ClaimSelect, EndClaim,
         ClaimFails, Stop, Redeploy, Claim, seedVars

\* No step changes the seed of a day that has one: ON DUPLICATE KEY keeps it.
THEOREM SeedStableHolds == DailySpec => SeedStable
<1>1. DailyInv /\ [DailyNext]_seedVars => [SeedsKept]_seedVars
  BY SeedsKeptNext
<1>2. DailySpec => [][SeedsKept]_seedVars
  BY <1>1, DailyInvariance, PTL DEF DailySpec
<1> QED
  BY <1>2 DEF SeedStable, SeedsKept
-----------------------------------------------------------------------------
(* The clears *)

\* What the requests hold.
RequestTypes ==
    /\ at \in [Reqs -> Labels]
    /\ run \in [Reqs -> Run \cup {None}]
    /\ \A r \in Reqs :
         at[r] \in Statements \cup {"readCompleted"} => run[r] \in Run
    /\ crossed \in [Reqs -> BOOLEAN]

\* What the rows and the counters hold.
RowTypes ==
    /\ stored \in Unended \cup {None}
    /\ results \in [Days -> Result \cup {None}]
    /\ completions \subseteq Seeds
    /\ banned \in BOOLEAN
    /\ wins \in [Seeds -> Nat]
    /\ failed \subseteq Statements
    /\ errors \in 0..MaxErrors

\* A seed has been answered with success once if it is completed, else never.
CountedOnce == \A s \in Seeds : wins[s] = IF s \in completions THEN 1 ELSE 0

\* A request about to record a score at the cap has passed the ban.
BannedFirst ==
    \A r \in Reqs :
        (at[r] = "record" /\ run[r].score >= Cap) => banned \/ "ban" \in failed

ClearInv ==
    /\ DailyInv
    /\ RequestTypes
    /\ RowTypes
    /\ CountedOnce
    /\ BannedFirst
    /\ OverCapMeansBanned

-----------------------------------------------------------------------------
\* Every step of RunClear is a step of DailySeed or leaves its variables alone.
LEMMA StepIsDaily == [Next]_vars => [DailyNext]_seedVars
  BY DEF Next, vars, Midnight, ServerNext, StoreRun, Begin, ClearStep,
         StatementFails, Abort, ReadDailySeed, Ban, Record, CountCompletions,
         InsertCompletion, DeleteRun, ReadRun, ReadCompleted, DailyNext

\* The statement after each statement of Clear.
LEMMA AfterTypes ==
  ASSUME NEW l, NEW save
  PROVE  After(l, save) \in {"record", "count", "insert", "delete", "idle"}
  BY DEF After, AfterResult

\* Finishing a request keeps the types of the requests.
LEMMA FinishTypes ==
  ASSUME RequestTypes, NEW r \in Reqs, Finish(r)
  PROVE  RequestTypes'
  BY DEF RequestTypes, Finish, Labels, Statements

\* So does going on from a statement of Clear.
LEMMA ProceedTypes ==
  ASSUME RequestTypes, NEW r \in Reqs, NEW l \in Statements, Proceed(r, l)
  PROVE  RequestTypes'
<1>1. CASE After(l, run[r]) = "idle"
  BY <1>1, FinishTypes DEF Proceed
<1>2. CASE After(l, run[r]) # "idle"
  <2>1. After(l, run[r]) \in {"record", "count", "insert", "delete"}
    BY <1>2, AfterTypes
  <2>2. run[r] \in Run
    BY DEF Proceed, RequestTypes
  <2> QED
    BY <1>2, <2>1, <2>2 DEF Proceed, RequestTypes, Labels, Statements
<1> QED
  BY <1>1, <1>2

\* Every step keeps the types of the requests.
LEMMA RequestTypesNext == ClearInv /\ [Next]_vars => RequestTypes'
<1> SUFFICES ASSUME ClearInv, [Next]_vars PROVE RequestTypes'
  OBVIOUS
<1>0. RequestTypes
  BY DEF ClearInv
<1>1. CASE Midnight
  BY <1>0, <1>1 DEF Midnight, RequestTypes
<1>2. CASE StoreRun \/ UNCHANGED vars
  BY <1>0, <1>2 DEF StoreRun, vars, clearVars, RequestTypes
<1>3. ASSUME NEW s \in Servers, ServerNext(s) PROVE RequestTypes'
  BY <1>0, <1>3 DEF ServerNext, clearVars, RequestTypes
<1>4. ASSUME NEW r \in Reqs, Begin(r) PROVE RequestTypes'
  <2>1. CASE at' = [at EXCEPT ![r] = "readRun"] /\ UNCHANGED run
    BY <1>0, <1>4, <2>1 DEF Begin, RequestTypes, Labels, Statements
  <2>2. CASE /\ at' = [at EXCEPT ![r] = "seed"]
             /\ \E save \in Runs : run' = [run EXCEPT ![r] = save]
    <3>1. PICK save \in Runs : run' = [run EXCEPT ![r] = save]
      BY <2>2
    <3>2. save \in Run
      BY RunClearAssumption
    <3> QED
      BY <1>0, <1>4, <2>2, <3>1, <3>2 DEF Begin, RequestTypes, Labels, Statements
  <2> QED
    BY <1>4, <2>1, <2>2 DEF Begin
<1>5. ASSUME NEW r \in Reqs, ReadDailySeed(r) PROVE RequestTypes'
  <2>1. CASE Finish(r)
    BY <1>0, <2>1, FinishTypes
  <2>2. CASE /\ at' = [at EXCEPT ![r] = AfterSeed(run[r], dailyRuns[today])]
             /\ UNCHANGED <<run, crossed>>
    <3>1. AfterSeed(run[r], dailyRuns[today]) \in {"ban", "record", "count", "delete"}
      BY DEF AfterSeed, AfterResult
    <3>2. run[r] \in Run
      BY <1>0, <1>5 DEF ReadDailySeed, RequestTypes, Statements
    <3> QED
      BY <1>0, <2>2, <3>1, <3>2 DEF RequestTypes, Labels, Statements
  <2> QED
    BY <1>5, <2>1, <2>2 DEF ReadDailySeed
<1>6. ASSUME NEW r \in Reqs,
             Ban(r) \/ Record(r) \/ CountCompletions(r) \/ InsertCompletion(r)
             \/ DeleteRun(r)
      PROVE  RequestTypes'
  <2>1. \E l \in Statements : Proceed(r, l)
    BY <1>6 DEF Ban, Record, CountCompletions, InsertCompletion, DeleteRun, Statements
  <2> QED
    BY <1>0, <2>1, ProceedTypes
<1>7. ASSUME NEW r \in Reqs, ReadRun(r) PROVE RequestTypes'
  <2>1. CASE Finish(r)
    BY <1>0, <2>1, FinishTypes
  <2>2. CASE stored # None /\ ~Finish(r)
    <3>1. stored \in Run
      BY <2>2, RunClearAssumption DEF ClearInv, RowTypes
    <3> QED
      BY <1>0, <1>7, <2>2, <3>1 DEF ReadRun, RequestTypes, Labels, Statements
  <2> QED
    BY <1>7, <2>1, <2>2 DEF ReadRun
<1>8. ASSUME NEW r \in Reqs, ReadCompleted(r) \/ Abort(r) PROVE RequestTypes'
  BY <1>0, <1>8, FinishTypes DEF ReadCompleted, Abort
<1>9. ASSUME NEW r \in Reqs, StatementFails(r) PROVE RequestTypes'
  <2>1. CASE at[r] = "count"
    BY <1>0, <1>9, <2>1 DEF StatementFails, RequestTypes, Labels, Statements
  <2>2. CASE at[r] # "count"
    <3>1. at[r] \in Statements /\ Proceed(r, at[r])
      BY <1>9, <2>2 DEF StatementFails
    <3> QED
      BY <1>0, <3>1, ProceedTypes
  <2> QED
    BY <2>1, <2>2
<1> QED
  BY <1>1, <1>2, <1>3, <1>4, <1>5, <1>6, <1>7, <1>8, <1>9 DEF Next, ClearStep

\* The larger of two integers.
LEMMA LargerIs ==
  ASSUME NEW a \in Int, NEW b \in Int
  PROVE  Larger(a, b) \in Int /\ Larger(a, b) >= a /\ Larger(a, b) >= b
  BY DEF Larger

\* Recording a result writes only today's row, and writes a result.
LEMMA RecordWrites ==
  ASSUME ClearInv, NEW r \in Reqs, Record(r), results' # results
  PROVE  /\ today \in Days /\ run[r] \in Run
         /\ \E new \in Result :
              /\ results' = [results EXCEPT ![today] = new]
              /\ results[today] = None => new.score = run[r].score
              /\ results[today] # None =>
                   /\ results[today] \in Result
                   /\ new.score = Larger(results[today].score, run[r].score)
                   /\ new.wave >= results[today].wave
<1>1. today \in Days /\ run[r] \in Run /\ results[today] \in Result \cup {None}
  BY DEF ClearInv, DailyInv, DailyTypeOK, RequestTypes, RowTypes, Record, Proceed,
         Statements
<1>2. run[r].score \in Int /\ WaveCompleted(run[r]) \in Int
  BY <1>1 DEF Run, WaveCompleted
<1>3. CASE results[today] = None
  <2> DEFINE new == [score |-> run[r].score, wave |-> WaveCompleted(run[r])]
  <2>1. results' = [results EXCEPT ![today] = new]
    BY <1>3 DEF Record
  <2>2. new \in Result
    BY <1>2 DEF Result
  <2> QED
    BY <1>1, <1>3, <2>1, <2>2
<1>4. CASE results[today] # None
  <2> DEFINE new ==
        [score |-> Larger(results[today].score, run[r].score),
         wave |-> Larger(results[today].wave, WaveCompleted(run[r]))]
  <2>1. results' = [results EXCEPT ![today] = new]
    BY <1>4 DEF Record
  <2>2. results[today].score \in Int /\ results[today].wave \in Int
    BY <1>1, <1>4 DEF Result
  <2>3. new \in Result /\ new.wave >= results[today].wave
    BY <1>2, <2>2, LargerIs DEF Result
  <2> QED
    BY <1>1, <1>4, <2>1, <2>3
<1> QED
  BY <1>3, <1>4

\* Only a request that inserts its completion changes what is completed.
LEMMA InsertWrites ==
  ASSUME ClearInv, NEW r \in Reqs, InsertCompletion(r)
  PROVE  /\ run[r].seed \in Seeds
         /\ \/ UNCHANGED <<completions, wins>>
            \/ /\ run[r].seed \notin completions
               /\ completions' = completions \cup {run[r].seed}
               /\ wins' = [wins EXCEPT ![run[r].seed] = @ + 1]
  BY DEF ClearInv, RequestTypes, InsertCompletion, Proceed, Statements, Run

\* Every step keeps the types of the rows.
LEMMA RowTypesNext == ClearInv /\ [Next]_vars => RowTypes'
<1> SUFFICES ASSUME ClearInv, [Next]_vars PROVE RowTypes'
  OBVIOUS
<1>0. RowTypes
  BY DEF ClearInv
<1> USE RunClearAssumption
<1>1. CASE Midnight \/ UNCHANGED vars
  BY <1>0, <1>1 DEF Midnight, vars, clearVars, rows, RowTypes
<1>2. CASE StoreRun
  BY <1>0, <1>2 DEF StoreRun, NoFailure, RowTypes
<1>3. ASSUME NEW s \in Servers, ServerNext(s) PROVE RowTypes'
  BY <1>0, <1>3 DEF ServerNext, clearVars, rows, RowTypes
<1>4. ASSUME NEW r \in Reqs,
             Begin(r) \/ ReadDailySeed(r) \/ CountCompletions(r) \/ ReadRun(r)
             \/ ReadCompleted(r)
      PROVE  RowTypes'
  BY <1>0, <1>4 DEF Begin, ReadDailySeed, CountCompletions, ReadRun, ReadCompleted,
                    NoFailure, rows, RowTypes
<1>5. ASSUME NEW r \in Reqs, Ban(r) \/ DeleteRun(r) PROVE RowTypes'
  BY <1>0, <1>5 DEF Ban, DeleteRun, NoFailure, RowTypes
<1>6. ASSUME NEW r \in Reqs, Record(r) PROVE RowTypes'
  <2>1. results' \in [Days -> Result \cup {None}]
    BY <1>0, <1>6, RecordWrites DEF RowTypes
  <2> QED
    BY <1>0, <1>6, <2>1 DEF Record, NoFailure, RowTypes
<1>7. ASSUME NEW r \in Reqs, InsertCompletion(r) PROVE RowTypes'
  <2>1. completions' \subseteq Seeds /\ wins' \in [Seeds -> Nat]
    BY <1>0, <1>7, InsertWrites DEF RowTypes
  <2> QED
    BY <1>0, <1>7, <2>1 DEF InsertCompletion, NoFailure, RowTypes
<1>8. ASSUME NEW r \in Reqs, StatementFails(r) \/ Abort(r) PROVE RowTypes'
  BY <1>0, <1>8 DEF StatementFails, Abort, rows, RowTypes
<1> QED
  BY <1>1, <1>2, <1>3, <1>4, <1>5, <1>6, <1>7, <1>8 DEF Next, ClearStep

\* The count of successes follows the completions.
LEMMA CountedOnceNext == ClearInv /\ [Next]_vars => CountedOnce'
<1> SUFFICES ASSUME ClearInv, [Next]_vars PROVE CountedOnce'
  OBVIOUS
<1>1. CASE UNCHANGED <<completions, wins>>
  BY <1>1 DEF ClearInv, CountedOnce
<1>2. ASSUME NEW r \in Reqs, InsertCompletion(r) PROVE CountedOnce'
  <2>1. CASE UNCHANGED <<completions, wins>>
    BY <1>1, <2>1
  <2>2. CASE /\ run[r].seed \notin completions
             /\ completions' = completions \cup {run[r].seed}
             /\ wins' = [wins EXCEPT ![run[r].seed] = @ + 1]
    BY <1>2, <2>2, InsertWrites DEF ClearInv, RowTypes, CountedOnce
  <2> QED
    BY <1>2, <2>1, <2>2, InsertWrites
<1>3. UNCHANGED <<completions, wins>> \/ \E r \in Reqs : InsertCompletion(r)
  BY DEF Next, vars, clearVars, rows, Midnight, ServerNext, StoreRun, Begin,
         ClearStep, StatementFails, Abort, ReadDailySeed, Ban, Record,
         CountCompletions, DeleteRun, ReadRun, ReadCompleted
<1> QED
  BY <1>1, <1>2, <1>3

\* A statement never comes before the ban its run calls for.
LEMMA BannedFirstNext == ClearInv /\ [Next]_vars => BannedFirst'
<1> SUFFICES ASSUME ClearInv, [Next]_vars PROVE BannedFirst'
  OBVIOUS
<1>0. BannedFirst /\ RequestTypes /\ RowTypes /\ Cap \in Nat
  BY RunClearAssumption DEF ClearInv
<1>1. (banned => banned') /\ failed \subseteq failed'
  BY <1>0 DEF Next, vars, clearVars, rows, Midnight, ServerNext, StoreRun, Begin,
         ClearStep, StatementFails, Abort, ReadDailySeed, Ban, Record, NoFailure,
         CountCompletions, InsertCompletion, DeleteRun, ReadRun, ReadCompleted
<1>2. CASE UNCHANGED <<at, run>>
  BY <1>0, <1>1, <1>2 DEF BannedFirst
<1>3. ASSUME NEW r \in Reqs, at' = [at EXCEPT ![r] = at'[r]],
             at'[r] # "record", \A x \in Reqs \ {r} : run'[x] = run[x]
      PROVE  BannedFirst'
  BY <1>0, <1>1, <1>3 DEF BannedFirst, RequestTypes
<1>4. ASSUME NEW r \in Reqs, Begin(r) PROVE BannedFirst'
  BY <1>0, <1>3, <1>4 DEF Begin, RequestTypes
<1>5. ASSUME NEW r \in Reqs, Finish(r) PROVE BannedFirst'
  BY <1>0, <1>3, <1>5 DEF Finish, RequestTypes
<1>6. ASSUME NEW r \in Reqs, ReadDailySeed(r) PROVE BannedFirst'
  <2>1. CASE AfterSeed(run[r], dailyRuns[today]) = "record" /\ UNCHANGED run
    <3>1. run[r] \in Run /\ at[r] = "seed"
      BY <1>0, <1>6 DEF ReadDailySeed, RequestTypes, Statements
    <3>2. ~(run[r].score >= Cap)
      BY <2>1 DEF AfterSeed, AfterResult
    <3> QED
      BY <1>0, <1>1, <1>5, <1>6, <2>1, <3>1, <3>2
      DEF BannedFirst, ReadDailySeed, RequestTypes
  <2>2. CASE AfterSeed(run[r], dailyRuns[today]) # "record"
    BY <1>0, <1>3, <1>5, <1>6, <2>2 DEF ReadDailySeed, RequestTypes
  <2> QED
    BY <1>5, <1>6, <2>1, <2>2 DEF ReadDailySeed
<1>7. ASSUME NEW r \in Reqs, NEW l \in Statements \ {"ban"}, Proceed(r, l)
      PROVE  BannedFirst'
  <2>1. CASE Finish(r)
    BY <1>5, <2>1
  <2>2. CASE /\ at' = [at EXCEPT ![r] = After(l, run[r])]
             /\ UNCHANGED run
    <3>1. After(l, run[r]) # "record"
      BY DEF After, AfterResult, Statements
    <3> QED
      BY <1>0, <1>3, <2>2, <3>1 DEF RequestTypes
  <2> QED
    BY <1>7, <2>1, <2>2 DEF Proceed
<1>8. ASSUME NEW r \in Reqs, Proceed(r, "ban"), banned' \/ "ban" \in failed'
      PROVE  BannedFirst'
  <2>1. CASE Finish(r)
    BY <1>5, <2>1
  <2>2. CASE UNCHANGED run /\ \E l : at' = [at EXCEPT ![r] = l]
    BY <1>0, <1>1, <1>8, <2>2 DEF RequestTypes, BannedFirst
  <2> QED
    BY <1>8, <2>1, <2>2 DEF Proceed
<1>9. ASSUME NEW r \in Reqs, StatementFails(r) PROVE BannedFirst'
  <2>1. CASE at[r] = "count"
    BY <1>0, <1>3, <1>9, <2>1 DEF StatementFails, RequestTypes
  <2>2. CASE at[r] = "ban"
    BY <1>8, <1>9, <2>2 DEF StatementFails
  <2>3. CASE at[r] \notin {"count", "ban"}
    BY <1>7, <1>9, <2>3 DEF StatementFails
  <2> QED
    BY <2>1, <2>2, <2>3
<1>10. ASSUME NEW r \in Reqs, ClearStep(r) PROVE BannedFirst'
  <2>1. CASE Ban(r)
    BY <1>8, <2>1 DEF Ban
  <2>2. CASE Record(r)
    BY <1>7, <2>2 DEF Record, Statements
  <2>3. CASE CountCompletions(r)
    BY <1>7, <2>3 DEF CountCompletions, Statements
  <2>4. CASE InsertCompletion(r)
    BY <1>7, <2>4 DEF InsertCompletion, Statements
  <2>5. CASE DeleteRun(r)
    BY <1>7, <2>5 DEF DeleteRun, Statements
  <2>6. CASE ReadRun(r)
    BY <1>0, <1>3, <1>5, <2>6 DEF ReadRun, RequestTypes
  <2>7. CASE ReadCompleted(r)
    BY <1>5, <2>7 DEF ReadCompleted
  <2> QED
    BY <1>6, <1>10, <2>1, <2>2, <2>3, <2>4, <2>5, <2>6, <2>7 DEF ClearStep
<1>11. ASSUME NEW r \in Reqs, Abort(r) PROVE BannedFirst'
  BY <1>5, <1>11 DEF Abort
<1>12. UNCHANGED <<at, run>>
       \/ \E r \in Reqs : Begin(r) \/ ClearStep(r) \/ StatementFails(r) \/ Abort(r)
  BY DEF Next, vars, clearVars, Midnight, ServerNext, StoreRun
<1> QED
  BY <1>2, <1>4, <1>9, <1>10, <1>11, <1>12

\* A recorded score at the cap belongs to a banned account.
LEMMA OverCapNext == ClearInv /\ [Next]_vars => OverCapMeansBanned'
<1> SUFFICES ASSUME ClearInv, [Next]_vars PROVE OverCapMeansBanned'
  OBVIOUS
<1>0. OverCapMeansBanned /\ RowTypes /\ Cap \in Nat
  BY RunClearAssumption DEF ClearInv
<1>1. (banned => banned') /\ failed \subseteq failed'
  BY <1>0 DEF Next, vars, clearVars, rows, Midnight, ServerNext, StoreRun, Begin,
         ClearStep, StatementFails, Abort, ReadDailySeed, Ban, Record, NoFailure,
         CountCompletions, InsertCompletion, DeleteRun, ReadRun, ReadCompleted
<1>2. CASE UNCHANGED results
  BY <1>0, <1>1, <1>2 DEF OverCapMeansBanned
<1>3. ASSUME NEW r \in Reqs, Record(r), results' # results PROVE OverCapMeansBanned'
  <2>1. PICK new \in Result :
          /\ results' = [results EXCEPT ![today] = new]
          /\ results[today] = None => new.score = run[r].score
          /\ results[today] # None =>
               /\ results[today] \in Result
               /\ new.score = Larger(results[today].score, run[r].score)
    BY <1>3, RecordWrites
  <2>2. today \in Days /\ run[r] \in Run /\ at[r] = "record"
    BY <1>3, RecordWrites DEF Record, Proceed
  <2>3. new.score \in Int /\ run[r].score \in Int
    BY <2>2 DEF Result, Run
  <2>4. new.score >= Cap => \/ run[r].score >= Cap
                            \/ results[today] # None /\ results[today].score >= Cap
    BY <2>1, <2>3 DEF Larger
  <2>5. new.score >= Cap => banned \/ "ban" \in failed
    BY <1>0, <2>2, <2>4 DEF ClearInv, BannedFirst, OverCapMeansBanned
  <2> QED
    BY <1>0, <1>1, <2>1, <2>2, <2>5 DEF OverCapMeansBanned, RowTypes
<1>4. UNCHANGED results \/ \E r \in Reqs : Record(r)
  BY DEF Next, vars, clearVars, rows, Midnight, ServerNext, StoreRun, Begin,
         ClearStep, StatementFails, Abort, ReadDailySeed, Ban, InsertCompletion,
         CountCompletions, DeleteRun, ReadRun, ReadCompleted
<1> QED
  BY <1>2, <1>3, <1>4

-----------------------------------------------------------------------------
\* The initial states satisfy the invariant.
LEMMA ClearInitInv == Init => ClearInv
<1> SUFFICES ASSUME Init PROVE ClearInv
  OBVIOUS
<1>1. DailyInv
  BY DailyInitInv DEF Init
<1>2. RequestTypes
  BY DEF Init, RequestTypes, Labels, Statements
<1>4. RowTypes
  <2>1. errors \in 0..MaxErrors
    BY RunClearAssumption DEF Init
  <2>2. wins \in [Seeds -> Nat] /\ results \in [Days -> Result \cup {None}]
    BY DEF Init
  <2>3. /\ stored \in Unended \cup {None} /\ completions \subseteq Seeds
        /\ banned \in BOOLEAN /\ failed \subseteq Statements
    BY DEF Init
  <2> QED
    BY <2>1, <2>2, <2>3 DEF RowTypes
<1>3. CountedOnce /\ BannedFirst /\ OverCapMeansBanned
  BY DEF Init, CountedOnce, BannedFirst, OverCapMeansBanned
<1> QED
  BY <1>1, <1>2, <1>3, <1>4 DEF ClearInv

\* The invariant holds in every reachable state.
THEOREM ClearInvariance == Spec => []ClearInv
<1>1. ClearInv /\ [Next]_vars => ClearInv'
  <2>1. ClearInv /\ [Next]_vars => DailyInv'
    BY StepIsDaily, DailyInvNext DEF ClearInv
  <2> QED
    BY <2>1, RequestTypesNext, RowTypesNext, CountedOnceNext, BannedFirstNext,
       OverCapNext DEF ClearInv
<1> QED
  BY <1>1, ClearInitInv, PTL DEF Spec

\* Type correctness.
THEOREM ClearTypeCorrect == Spec => []TypeOK
<1>1. ClearInv => TypeOK
  BY DEF ClearInv, DailyInv, RequestTypes, RowTypes, TypeOK
<1> QED
  BY <1>1, ClearInvariance, PTL

\* The runs leave the daily seeds to their servers: the behaviours of RunClear
\* are behaviours of DailySeed, its fairness aside.
THEOREM ClearImplementsDaily == Spec => DailyInit /\ [][DailyNext]_seedVars
<1>1. Init => DailyInit
  BY DEF Init
<1> QED
  BY <1>1, StepIsDaily, PTL DEF Spec

\* At most one clear of a seed is answered with success (TryAddSeedCompletion,
\* primary key of dailyRunCompletions).
THEOREM FirstClearOnceHolds == Spec => []FirstClearOnce
<1>1. ClearInv => FirstClearOnce
  BY DEF ClearInv, CountedOnce, FirstClearOnce
<1> QED
  BY <1>1, ClearInvariance, PTL

\* A score at the cap is recorded only for a banned account, unless the ban
\* failed (Clear calls SetAccountBanned before AddOrUpdateAccountDailyRun).
THEOREM OverCapMeansBannedHolds == Spec => []OverCapMeansBanned
<1>1. ClearInv => OverCapMeansBanned
  BY DEF ClearInv
<1> QED
  BY <1>1, ClearInvariance, PTL

\* A step leaves the results of a day at least as good as they are.
ResultsKept == \A d \in Days : results[d] # None =>
                 /\ results'[d] # None
                 /\ results'[d].score >= results[d].score
                 /\ results'[d].wave >= results[d].wave

LEMMA ResultsKeptNext == ClearInv /\ [Next]_vars => ResultsKept
<1> SUFFICES ASSUME ClearInv, [Next]_vars PROVE ResultsKept
  OBVIOUS
<1>0. results \in [Days -> Result \cup {None}] /\ None \notin Result
  BY RunClearAssumption DEF ClearInv, RowTypes
<1>1. CASE UNCHANGED results
  BY <1>0, <1>1 DEF Result, ResultsKept
<1>2. ASSUME NEW r \in Reqs, Record(r), results' # results PROVE ResultsKept
  <2>1. PICK new \in Result :
          /\ results' = [results EXCEPT ![today] = new]
          /\ results[today] # None =>
               /\ results[today] \in Result
               /\ new.score = Larger(results[today].score, run[r].score)
               /\ new.wave >= results[today].wave
    BY <1>2, RecordWrites
  <2>2. run[r].score \in Int
    BY <1>2, RecordWrites DEF Run
  <2>3. results[today] # None => new.score >= results[today].score
    BY <2>1, <2>2, LargerIs DEF Result
  <2> QED
    BY <1>0, <2>1, <2>3 DEF Result, ResultsKept
<1>3. UNCHANGED results \/ \E r \in Reqs : Record(r)
  BY DEF Next, vars, clearVars, rows, Midnight, ServerNext, StoreRun, Begin,
         ClearStep, StatementFails, Abort, ReadDailySeed, Ban, InsertCompletion,
         CountCompletions, DeleteRun, ReadRun, ReadCompleted
<1> QED
  BY <1>1, <1>2, <1>3

\* The results of a day only improve (GREATEST in AddOrUpdateAccountDailyRun).
THEOREM BestKeptHolds == Spec => BestKept
<1>1. ClearInv /\ [Next]_vars => [ResultsKept]_vars
  BY ResultsKeptNext
<1>2. Spec => [][ResultsKept]_vars
  BY <1>1, ClearInvariance, PTL DEF Spec
<1> QED
  BY <1>2 DEF BestKept, ResultsKept

-----------------------------------------------------------------------------
(* What a clear has done before it deletes the run *)

\* The result of the day is at least as good as the run's.
InResults(save) ==
    /\ results[today] # None
    /\ results[today].score >= save.score
    /\ results[today].wave >= WaveCompleted(save)

\* Past its first statement a clear knows today's seed, which is still the one
\* it read unless midnight has passed: it is about to record a run of that seed,
\* or has done so.
Credited(r) ==
    (at[r] \in Statements \ {"seed"} /\ ~crossed[r]) =>
        /\ dailyRuns[today] # None
        /\ at[r] \in {"ban", "record"} => IsTodaysRun(run[r], dailyRuns[today])
        /\ (/\ at[r] \notin {"ban", "record"}
            /\ IsTodaysRun(run[r], dailyRuns[today])
            /\ "record" \notin failed) => InResults(run[r])

\* Before it deletes a completed run its seed is among the completed ones.
Completed(r) ==
    (/\ at[r] = "delete"
     /\ validateSessionCompleted(run[r])
     /\ failed \cap {"count", "insert"} = {}) => run[r].seed \in completions

DoneFirst == \A r \in Reqs : Credited(r) /\ Completed(r)

\* What no step takes away from the others: seeds, results, completions, and
\* the memory of what has failed.
LEMMA NothingTaken ==
  ClearInv /\ [Next]_vars =>
    SeedsKept /\ ResultsKept /\ completions \subseteq completions'
    /\ failed \subseteq failed'
<1> SUFFICES ASSUME ClearInv, [Next]_vars
             PROVE  completions \subseteq completions' /\ failed \subseteq failed'
  BY ResultsKeptNext, SeedsKeptNext, StepIsDaily DEF ClearInv
<1> QED
  BY DEF Next, vars, clearVars, rows, Midnight, ServerNext, StoreRun, Begin,
         ClearStep, StatementFails, Abort, ReadDailySeed, Ban, Record, NoFailure,
         CountCompletions, InsertCompletion, DeleteRun, ReadRun, ReadCompleted

\* A result that is recorded stays at least as good until midnight.
LEMMA InResultsStays ==
  ASSUME ClearInv, [Next]_vars, UNCHANGED today, NEW save \in Run, InResults(save)
  PROVE  InResults(save)'
<1>1. today \in Days /\ results[today] \in Result /\ ResultsKept /\ RowTypes'
  BY NothingTaken, RowTypesNext
  DEF ClearInv, DailyInv, DailyTypeOK, RowTypes, InResults
<1>2. results'[today] \in Result
  BY <1>1 DEF ResultsKept, RowTypes
<1>3. save.score \in Int /\ WaveCompleted(save) \in Int
  BY DEF Run, WaveCompleted
<1> QED
  BY <1>1, <1>2, <1>3 DEF ResultsKept, InResults, Result, WaveCompleted,
                          validateSessionCompleted
\* What a request has done is done as long as it stays where it is.
LEMMA StaysDone ==
  ASSUME ClearInv, [Next]_vars, DoneFirst, UNCHANGED today,
         NEW x \in Reqs, at'[x] = at[x], run'[x] = run[x], crossed'[x] = crossed[x]
  PROVE  Credited(x)' /\ Completed(x)'
<1>0. /\ today \in Days
      /\ at[x] \in Statements => run[x] \in Run
      /\ Credited(x) /\ Completed(x)
  BY DEF ClearInv, DailyInv, DailyTypeOK, RequestTypes, DoneFirst
<1>1. Completed(x)'
  BY <1>0, NothingTaken DEF Completed, validateSessionCompleted
<1>2. Credited(x)'
  <2> SUFFICES ASSUME at[x] \in Statements \ {"seed"}, ~crossed[x]
               PROVE  Credited(x)'
    BY DEF Credited
  <2>1. dailyRuns[today] # None /\ dailyRuns'[today] = dailyRuns[today]
    BY <1>0, NothingTaken DEF Credited, SeedsKept
  <2>2. InResults(run[x]) => InResults(run[x])'
    <3>1. ASSUME NEW save \in Run, InResults(save) PROVE InResults(save)'
      BY <3>1, InResultsStays
    <3> QED
      BY <1>0, <3>1 DEF InResults, WaveCompleted, validateSessionCompleted
  <2> QED
    BY <1>0, <2>1, <2>2, NothingTaken DEF Credited, IsTodaysRun
<1> QED
  BY <1>1, <1>2

\* A request that is not in Clear, or has ended, owes nothing.
LEMMA NothingOwed ==
  ASSUME NEW r \in Reqs, at'[r] \in {"idle", "seed", "readRun", "readCompleted"}
  PROVE  Credited(r)' /\ Completed(r)'
  BY DEF Credited, Completed, Statements

\* The statements of Clear, whether they succeed or fail.
LEMMA ClearDone ==
  ASSUME ClearInv, [Next]_vars, DoneFirst, NEW r \in Reqs,
         \/ ReadDailySeed(r) \/ Ban(r) \/ Record(r) \/ CountCompletions(r)
         \/ InsertCompletion(r) \/ DeleteRun(r) \/ StatementFails(r),
         at'[r] # "idle"
  PROVE  Credited(r)' /\ Completed(r)'
<1>0. /\ at \in [Reqs -> Labels] /\ today \in Days /\ results \in [Days -> Result \cup {None}]
      /\ at[r] \in Statements => run[r] \in Run
      /\ Credited(r) /\ Completed(r)
  BY DEF ClearInv, DailyInv, DailyTypeOK, RequestTypes, RowTypes, DoneFirst
<1>1. CASE ReadDailySeed(r)
  <2>1. /\ dailyRuns[today] # None /\ UNCHANGED <<today, dailyRuns, run>>
        /\ at'[r] = AfterSeed(run[r], dailyRuns[today])
    BY <1>0, <1>1 DEF ReadDailySeed, Finish, seedVars
  <2> QED
    BY <2>1 DEF AfterSeed, AfterResult, Credited, Completed, IsTodaysRun,
                validateSessionCompleted
<1>2. ASSUME NEW l \in Statements \ {"seed"}, Proceed(r, l),
             UNCHANGED <<today, dailyRuns>>
      PROVE  /\ at[r] = l /\ at'[r] = After(l, run[r]) /\ run' = run
             /\ crossed' = crossed
  BY <1>0, <1>2 DEF Proceed, Finish
<1>3. CASE Ban(r) \/ (at[r] = "ban" /\ StatementFails(r))
  <2>1. Proceed(r, "ban") /\ UNCHANGED <<today, dailyRuns>>
    BY <1>3 DEF Ban, StatementFails, seedVars
  <2> QED
    BY <1>0, <1>2, <2>1
    DEF After, Credited, Completed, IsTodaysRun, Statements
<1>4. CASE Record(r)
  <2>1. /\ Proceed(r, "record") /\ UNCHANGED <<today, dailyRuns>>
        /\ run[r] \in Run
    BY <1>0, <1>4 DEF Record, seedVars, Proceed, Statements
  <2>2. dailyRuns[today] # None => InResults(run[r])'
    <3> SUFFICES ASSUME dailyRuns[today] # None PROVE InResults(run[r])'
      OBVIOUS
    <3>1. run[r].score \in Int /\ WaveCompleted(run[r]) \in Int
      BY <2>1 DEF Run, WaveCompleted
    <3>2. run'[r] = run[r] /\ WaveCompleted(run[r])' = WaveCompleted(run[r])
      BY <1>2, <2>1 DEF Statements, WaveCompleted, validateSessionCompleted
    <3>3. /\ results'[today] # None
          /\ results'[today].score >= run[r].score
          /\ results'[today].wave >= WaveCompleted(run[r])
      <4>1. CASE results[today] = None
        <5>1. results'[today] =
                [score |-> run[r].score, wave |-> WaveCompleted(run[r])]
          BY <1>0, <1>4, <4>1 DEF Record
        <5> QED
          BY <3>1, <5>1, RunClearAssumption DEF Result
      <4>2. CASE results[today] # None
        <5>1. results'[today] =
                [score |-> Larger(results[today].score, run[r].score),
                 wave |-> Larger(results[today].wave, WaveCompleted(run[r]))]
          BY <1>0, <1>4, <4>2 DEF Record
        <5>2. results[today].score \in Int /\ results[today].wave \in Int
          BY <1>0, <4>2 DEF Result
        <5>3. /\ Larger(results[today].score, run[r].score) \in Int
              /\ Larger(results[today].score, run[r].score) >= run[r].score
          BY <3>1, <5>2, LargerIs
        <5>4. /\ Larger(results[today].wave, WaveCompleted(run[r])) \in Int
              /\ Larger(results[today].wave, WaveCompleted(run[r]))
                   >= WaveCompleted(run[r])
          BY <3>1, <5>2, LargerIs
        <5>5. results'[today] \in Result
          BY <5>1, <5>3, <5>4 DEF Result
        <5> QED
          BY <5>1, <5>3, <5>4, <5>5, RunClearAssumption
      <4> QED
        BY <4>1, <4>2
    <3> QED
      BY <2>1, <3>2, <3>3 DEF InResults
  <2>3. at'[r] = AfterResult(run[r]) /\ run' = run /\ crossed' = crossed
    BY <1>2, <2>1 DEF After, Statements
  <2>4. Credited(r)'
    BY <1>0, <1>2, <2>1, <2>2, <2>3 DEF Credited, AfterResult, Statements
  <2>5. Completed(r)'
    BY <2>3 DEF Completed, AfterResult, validateSessionCompleted
  <2> QED
    BY <2>4, <2>5
<1>5. CASE at[r] = "record" /\ StatementFails(r)
  <2>1. /\ Proceed(r, "record") /\ UNCHANGED <<today, dailyRuns>>
        /\ "record" \in failed'
    BY <1>5 DEF StatementFails, seedVars
  <2>2. at'[r] = AfterResult(run[r]) /\ run' = run /\ crossed' = crossed
    BY <1>2, <2>1 DEF After, Statements
  <2> QED
    BY <1>0, <1>5, <2>1, <2>2
    DEF AfterResult, Credited, Completed, Statements, validateSessionCompleted
<1>6. CASE \/ CountCompletions(r) \/ InsertCompletion(r)
           \/ (at[r] \in {"count", "insert"} /\ StatementFails(r))
  <2>1. /\ at[r] \in {"count", "insert"} /\ at'[r] \in {"insert", "delete"}
        /\ run' = run /\ crossed' = crossed /\ UNCHANGED <<today, dailyRuns, results>>
        /\ at'[r] = "delete" => \/ run[r].seed \in completions'
                                \/ failed' \cap {"count", "insert"} # {}
    <3>1. CASE CountCompletions(r)
      BY <1>0, <1>2, <3>1
      DEF CountCompletions, seedVars, rows, After, Statements, Proceed
    <3>2. CASE InsertCompletion(r)
      BY <1>0, <1>2, <3>2
      DEF InsertCompletion, seedVars, After, Statements, Proceed
    <3>3. CASE at[r] = "count" /\ StatementFails(r)
      BY <1>0, <3>3 DEF StatementFails, seedVars, rows
    <3>4. CASE at[r] = "insert" /\ StatementFails(r)
      BY <1>0, <1>2, <3>4 DEF StatementFails, seedVars, rows, After, Statements
    <3> QED
      BY <1>6, <3>1, <3>2, <3>3, <3>4
  <2>2. Credited(r)'
    BY <1>0, <2>1, NothingTaken
    DEF Credited, InResults, WaveCompleted, validateSessionCompleted, Statements
  <2>3. Completed(r)'
    BY <2>1 DEF Completed
  <2> QED
    BY <2>2, <2>3
<1>7. CASE at[r] = "delete" /\ (DeleteRun(r) \/ StatementFails(r))
  BY <1>0, <1>7 DEF DeleteRun, StatementFails, Proceed, After, Finish
<1> QED
  BY <1>1, <1>3, <1>4, <1>5, <1>6, <1>7 DEF StatementFails, DeleteRun, Proceed,
     Statements

\* Every step keeps what the clears in flight have done.
LEMMA DoneFirstNext == ClearInv /\ DoneFirst /\ [Next]_vars => DoneFirst'
<1> SUFFICES ASSUME ClearInv, DoneFirst, [Next]_vars PROVE DoneFirst'
  OBVIOUS
<1>0. /\ at \in [Reqs -> Labels] /\ run \in [Reqs -> Run \cup {None}]
      /\ crossed \in [Reqs -> BOOLEAN]
  BY DEF ClearInv, RequestTypes
<1>1. CASE Midnight
  <2>1. /\ \A r \in Reqs : at'[r] # "idle" => crossed'[r]
        /\ UNCHANGED <<at, run, completions, failed>>
    BY <1>0, <1>1 DEF Midnight, rows
  <2> QED
    BY <2>1 DEF DoneFirst, Credited, Completed, Statements
<1>2. CASE UNCHANGED <<at, run, crossed, today>>
  BY <1>2, StaysDone DEF DoneFirst
<1>3. ASSUME NEW r \in Reqs,
             Begin(r) \/ ClearStep(r) \/ StatementFails(r) \/ Abort(r)
      PROVE  DoneFirst'
  <2>1. /\ UNCHANGED today
        /\ \A x \in Reqs \ {r} : at'[x] = at[x] /\ run'[x] = run[x]
                                 /\ crossed'[x] = crossed[x]
    BY <1>0, <1>3
    DEF Begin, ClearStep, StatementFails, Abort, ReadDailySeed, Ban, Record,
        CountCompletions, InsertCompletion, DeleteRun, ReadRun, ReadCompleted,
        Proceed, Finish, seedVars
  <2>2. Credited(r)' /\ Completed(r)'
    <3>1. CASE Begin(r) \/ ReadRun(r) \/ ReadCompleted(r) \/ Abort(r)
      BY <1>0, <3>1, NothingOwed
      DEF Begin, ReadRun, ReadCompleted, Abort, Finish
    <3>2. CASE ClearStep(r) \/ StatementFails(r)
      BY <3>1, <3>2, ClearDone, NothingOwed DEF ClearStep
    <3> QED
      BY <1>3, <3>1, <3>2
  <2> QED
    BY <2>1, <2>2, StaysDone DEF DoneFirst
<1>4. ASSUME NEW s \in Servers, ServerNext(s) PROVE UNCHANGED <<at, run, crossed, today>>
  BY <1>4 DEF ServerNext, clearVars, ServerMidnight, ServerStep, Start, CronClaim,
              ClaimInsert, ClaimSelect, EndClaim, ClaimFails, Stop, Redeploy
<1>5. CASE StoreRun \/ UNCHANGED vars
  BY <1>2, <1>5 DEF StoreRun, vars, clearVars, seedVars
<1> QED
  BY <1>1, <1>2, <1>3, <1>4, <1>5 DEF Next

\* The clears in flight have done what they owe, in every reachable state.
THEOREM DoneFirstInvariance == Spec => []DoneFirst
<1>1. Init => DoneFirst
  BY DEF Init, DoneFirst, Credited, Completed, Statements
<1> QED
  BY <1>1, DoneFirstNext, ClearInvariance, PTL DEF Spec

\* A result counts for the day whose seed was played, unless midnight passed
\* between the two statements (GetDailyRunSeed, AddOrUpdateAccountDailyRun).
THEOREM CreditedToItsDayHolds == Spec => CreditedToItsDay
<1> DEFINE ToItsDay ==
      \A r \in Reqs :
        (at[r] = "record" /\ at'[r] # "record" /\ results' # results)
        => (dailyRuns[today] = run[r].seed \/ crossed[r])
<1>1. DoneFirst => ToItsDay
  BY DEF DoneFirst, Credited, IsTodaysRun, Statements
<1>2. Spec => [][ToItsDay]_vars
  BY <1>1, DoneFirstInvariance, PTL
<1> QED
  BY <1>2 DEF CreditedToItsDay

\* Clear deletes the run only when what it earned is recorded, a failed
\* statement and a midnight aside (DeleteSessionSaveData is its last one).
THEOREM NothingLostHolds == Spec => NothingLostWithTheRun
<1> DEFINE Earned ==
      \A r \in Reqs :
         (at[r] = "delete" /\ at'[r] = "idle" /\ errors' = errors) =>
         /\ (/\ IsTodaysRun(run[r], dailyRuns[today])
             /\ ~crossed[r] /\ "record" \notin failed)
            => /\ results[today] # None
               /\ results[today].score >= run[r].score
               /\ results[today].wave >= WaveCompleted(run[r])
         /\ (/\ validateSessionCompleted(run[r])
             /\ failed \cap {"count", "insert"} = {})
            => run[r].seed \in completions
<1>1. DoneFirst => Earned
  BY DEF DoneFirst, Credited, Completed, InResults, Statements
<1>2. Spec => [][Earned]_vars
  BY <1>1, DoneFirstInvariance, PTL
<1> QED
  BY <1>2 DEF NothingLostWithTheRun
=============================================================================
