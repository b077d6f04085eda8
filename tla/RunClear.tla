------------------------------ MODULE RunClear ------------------------------
(***************************************************************************)
(* The end of a run: /savedata/session/clear and newclear for ONE account  *)
(* (api/savedata/{clear,newclear,common}.go), over the daily seeds of      *)
(* DailySeed.  Every row written here is keyed by the account's uuid.      *)
(*                                                                         *)
(* One action is one statement.  Of Clear's statements only the first      *)
(* (GetDailyRunSeed) can end the request: the errors of all the others are *)
(* logged or dropped and the handler goes on.                              *)
(***************************************************************************)
EXTENDS DailySeed, Integers

CONSTANTS
    Reqs,      \* requests that can be in flight together
    Runs,      \* the run saves a client may send to clear
    Unended,   \* the run saves a client may store with session update
    Cap,       \* the score from which an account is banned (20000)
    MaxErrors  \* bound on failing statements of clear and on aborted requests

\* A run as its save tells it: the game mode, the seed, the wave reached, whether
\* that wave is a boss battle, and the score.
Run == [mode : {"classic", "daily", "other"}, seed : Seeds, wave : Int,
        boss : BOOLEAN, score : Int]

Result == [score : Int, wave : Int]

ASSUME RunClearAssumption ==
    /\ Runs \subseteq Run
    /\ Unended \subseteq Run
    /\ Cap \in Nat
    /\ MaxErrors \in Nat
    /\ None \notin Run \cup Result

VARIABLES
    at,           \* request -> the statement it is about to run
    run,          \* request -> the run it clears or asks about, or None
    stored,       \* the account's sessionSaveData row, or None
    results,      \* accountDailyRuns: date -> best score and best wave, or None
    completions,  \* dailyRunCompletions: the seeds the account has completed
    banned,       \* accounts.banned
    wins,         \* seed -> number of clears answered with success
    crossed,      \* request -> has the database's midnight passed since it began
    failed,       \* the kinds of statements that failed so far
    errors        \* number of failures so far

rows == <<stored, results, completions, banned>>
clearVars == <<at, run, rows, wins, crossed, failed, errors>>
vars == <<seedVars, clearVars>>

Statements == {"seed", "ban", "record", "count", "insert", "delete"}
Labels == Statements \cup {"idle", "readRun", "readCompleted"}

-----------------------------------------------------------------------------
(* The decisions of Clear *)

\* validateSessionCompleted: the final boss of a classic or of a daily run.
validateSessionCompleted(save) ==
    /\ save.boss
    /\ \/ save.mode = "classic" /\ save.wave = 200
       \/ save.mode = "daily" /\ save.wave = 50

\* Mutant: any daily run counts for today.
IsTodaysRun_anySeed(save, seed) == save.mode = "daily"

\* Is this a run of today's seed.
IsTodaysRun(save, seed) == save.mode = "daily" /\ save.seed = seed

\* The wave that counts is the last one completed.
WaveCompleted(save) ==
    IF validateSessionCompleted(save) THEN save.wave ELSE save.wave - 1

Larger(a, b) == IF a >= b THEN a ELSE b

\* Mutant: the run is deleted without being recorded.
AfterResult_notGranted(save) == "delete"

\* The statement after the result of the day is dealt with.
AfterResult(save) == IF validateSessionCompleted(save) THEN "count" ELSE "delete"

\* Mutant: only a score above the cap bans.
AfterSeed_above(save, seed) ==
    IF IsTodaysRun(save, seed)
    THEN IF save.score > Cap THEN "ban" ELSE "record"
    ELSE AfterResult(save)

\* The statement after today's seed is read.
AfterSeed(save, seed) ==
    IF IsTodaysRun(save, seed)
    THEN IF save.score >= Cap THEN "ban" ELSE "record"
    ELSE AfterResult(save)

\* The statement after l, in Clear.
After(l, save) ==
    CASE l = "ban"    -> "record"
      [] l = "record" -> AfterResult(save)
      [] l = "count"  -> IF save.seed \in completions THEN "delete" ELSE "insert"
      [] l = "insert" -> "delete"
      [] OTHER        -> "idle"

-----------------------------------------------------------------------------
(* Control *)

Finish(r) ==
    /\ at' = [at EXCEPT ![r] = "idle"]
    /\ run' = [run EXCEPT ![r] = None]
    /\ crossed' = [crossed EXCEPT ![r] = FALSE]

\* Clear goes on from its statement l; the answer follows the last one.
Proceed(r, l) ==
    /\ at[r] = l
    /\ IF After(l, run[r]) = "idle"
       THEN Finish(r)
       ELSE /\ at' = [at EXCEPT ![r] = After(l, run[r])]
            /\ UNCHANGED <<run, crossed>>

NoFailure == UNCHANGED <<failed, errors>>

\* A request arrives at a serving process.  Clear works on the run in its body,
\* newclear on the stored one.
Begin(r) ==
    /\ at[r] = "idle"
    /\ \E s \in Servers : phase[s] = "up"
    /\ \/ /\ at' = [at EXCEPT ![r] = "readRun"]
          /\ UNCHANGED run
       \/ /\ at' = [at EXCEPT ![r] = "seed"]
          /\ \E save \in Runs : run' = [run EXCEPT ![r] = save]
    /\ UNCHANGED <<seedVars, rows, wins, crossed>>
    /\ NoFailure

\* session update or updateall stores a run (SaveSync).
StoreRun ==
    /\ \E save \in Unended : stored # save /\ stored' = save
    /\ UNCHANGED <<seedVars, at, run, results, completions, banned,
                   wins, crossed>>
    /\ NoFailure

-----------------------------------------------------------------------------
(* clear *)

\* GetDailyRunSeed: without a row for today the request fails and the run stays.
ReadDailySeed(r) ==
    /\ at[r] = "seed"
    /\ \/ dailyRuns[today] = None /\ Finish(r)
       \/ /\ dailyRuns[today] # None
          /\ at' = [at EXCEPT ![r] = AfterSeed(run[r], dailyRuns[today])]
          /\ UNCHANGED <<run, crossed>>
    /\ UNCHANGED <<seedVars, rows, wins>>
    /\ NoFailure

\* SetAccountBanned.
Ban(r) ==
    /\ Proceed(r, "ban")
    /\ banned' = TRUE
    /\ UNCHANGED <<seedVars, stored, results, completions, wins>>
    /\ NoFailure

\* Mutant: the latest result replaces the best.
Record_latest(r) ==
    /\ Proceed(r, "record")
    /\ \/ dailyRuns[today] = None /\ UNCHANGED results
       \/ /\ dailyRuns[today] # None
          /\ results' = [results EXCEPT ![today] =
                [score |-> run[r].score, wave |-> WaveCompleted(run[r])]]
    /\ UNCHANGED <<seedVars, stored, completions, banned, wins>>
    /\ NoFailure

\* AddOrUpdateAccountDailyRun, dated by the database.  The row's date references
\* dailyRuns: without today's seed the INSERT fails, which is only logged.
Record(r) ==
    /\ Proceed(r, "record")
    /\ \/ dailyRuns[today] = None /\ UNCHANGED results
       \/ /\ dailyRuns[today] # None
          /\ LET old == results[today]
                 wave == WaveCompleted(run[r])
             IN  results' = [results EXCEPT ![today] =
                   IF old = None THEN [score |-> run[r].score, wave |-> wave]
                   ELSE [score |-> Larger(old.score, run[r].score),
                         wave |-> Larger(old.wave, wave)]]
    /\ UNCHANGED <<seedVars, stored, completions, banned, wins>>
    /\ NoFailure

\* TryAddSeedCompletion's SELECT COUNT: a seed completed before is no success.
CountCompletions(r) ==
    /\ Proceed(r, "count")
    /\ UNCHANGED <<seedVars, rows, wins>>
    /\ NoFailure

\* Mutant: the INSERT tolerates a duplicate and still reports success.
InsertCompletion_ignore(r) ==
    /\ Proceed(r, "insert")
    /\ completions' = completions \cup {run[r].seed}
    /\ wins' = [wins EXCEPT ![run[r].seed] = @ + 1]
    /\ UNCHANGED <<seedVars, stored, results, banned>>
    /\ NoFailure

\* TryAddSeedCompletion's INSERT: the primary key (uuid, seed) refuses the
\* second of two clears that both counted none.
InsertCompletion(r) ==
    /\ Proceed(r, "insert")
    /\ \/ run[r].seed \in completions /\ UNCHANGED <<completions, wins>>
       \/ /\ run[r].seed \notin completions
          /\ completions' = completions \cup {run[r].seed}
          /\ wins' = [wins EXCEPT ![run[r].seed] = @ + 1]
    /\ UNCHANGED <<seedVars, stored, results, banned>>
    /\ NoFailure

\* DeleteSessionSaveData, then the answer.
DeleteRun(r) ==
    /\ Proceed(r, "delete")
    /\ stored' = None
    /\ UNCHANGED <<seedVars, results, completions, banned, wins>>
    /\ NoFailure

-----------------------------------------------------------------------------
(* newclear *)

\* Mutant: the error of a missing row is not looked at.
ReadRun_missing(r) ==
    /\ at[r] = "readRun"
    /\ run' = [run EXCEPT ![r] = stored]
    /\ at' = [at EXCEPT ![r] = "readCompleted"]
    /\ UNCHANGED <<seedVars, crossed, rows, wins>>
    /\ NoFailure

\* ReadSessionSaveData: without a row the request fails.
ReadRun(r) ==
    /\ at[r] = "readRun"
    /\ \/ stored = None /\ Finish(r)
       \/ /\ stored # None
          /\ run' = [run EXCEPT ![r] = stored]
          /\ at' = [at EXCEPT ![r] = "readCompleted"]
          /\ UNCHANGED crossed
    /\ UNCHANGED <<seedVars, rows, wins>>
    /\ NoFailure

\* ReadSeedCompleted, then the answer.
ReadCompleted(r) ==
    /\ at[r] = "readCompleted"
    /\ Finish(r)
    /\ UNCHANGED <<seedVars, rows, wins>>
    /\ NoFailure

-----------------------------------------------------------------------------
(* Failures *)

\* A statement of Clear after the first fails and the handler goes on; after a
\* failed SELECT COUNT there is no INSERT.
StatementFails(r) ==
    /\ at[r] \in Statements \ {"seed"}
    /\ errors < MaxErrors
    /\ errors' = errors + 1
    /\ failed' = failed \cup {at[r]}
    /\ IF at[r] = "count"
       THEN /\ at' = [at EXCEPT ![r] = "delete"]
            /\ UNCHANGED <<run, crossed>>
       ELSE Proceed(r, at[r])
    /\ UNCHANGED <<seedVars, rows, wins>>

\* The process stops, or a statement whose error ends the request fails.
Abort(r) ==
    /\ at[r] # "idle"
    /\ errors < MaxErrors
    /\ errors' = errors + 1
    /\ Finish(r)
    /\ UNCHANGED <<seedVars, rows, wins, failed>>

-----------------------------------------------------------------------------
Init ==
    /\ DailyInit
    /\ at = [r \in Reqs |-> "idle"]
    /\ run = [r \in Reqs |-> None]
    /\ stored = None
    /\ results = [d \in Days |-> None]
    /\ completions = {}
    /\ banned = FALSE
    /\ wins = [s \in Seeds |-> 0]
    /\ crossed = [r \in Reqs |-> FALSE]
    /\ failed = {}
    /\ errors = 0

\* The database's midnight passes for every request in flight.
Midnight ==
    /\ DbMidnight
    /\ crossed' = [r \in Reqs |-> at[r] # "idle"]
    /\ UNCHANGED <<at, run, rows, wins, failed, errors>>

ServerNext(s) ==
    /\ \/ ServerMidnight(s) \/ ServerStep(s)
       \/ ClaimFails(s) \/ Stop(s) \/ Redeploy(s)
    /\ UNCHANGED clearVars

ClearStep(r) ==
    \/ ReadDailySeed(r) \/ Ban(r) \/ Record(r) \/ CountCompletions(r)
    \/ InsertCompletion(r) \/ DeleteRun(r) \/ ReadRun(r) \/ ReadCompleted(r)

Next ==
    \/ Midnight
    \/ \E s \in Servers : ServerNext(s)
    \/ StoreRun
    \/ \E r \in Reqs : Begin(r) \/ ClearStep(r) \/ StatementFails(r) \/ Abort(r)

Spec == Init /\ [][Next]_vars

-----------------------------------------------------------------------------
(* Properties *)

TypeOK ==
    /\ DailyTypeOK
    /\ at \in [Reqs -> Labels]
    /\ run \in [Reqs -> Run \cup {None}]
    /\ \A r \in Reqs :
         at[r] \in Statements \cup {"readCompleted"} => run[r] \in Run
    /\ stored \in Unended \cup {None}
    /\ results \in [Days -> Result \cup {None}]
    /\ completions \subseteq Seeds
    /\ banned \in BOOLEAN
    /\ wins \in [Seeds -> Nat]
    /\ crossed \in [Reqs -> BOOLEAN]
    /\ failed \subseteq Statements
    /\ errors \in 0..MaxErrors

\* The clear of a seed is answered with success at most once, however many
\* clears of it run together, are repeated or fail half way: the count alone
\* would let two through.
FirstClearOnce == \A s \in Seeds : wins[s] <= 1

\* An account whose recorded score reaches the cap is banned, even when the
\* process stops in the middle of the clear, unless the ban itself failed (its
\* error is dropped).
OverCapMeansBanned ==
    "ban" \notin failed =>
        \A d \in Days : (results[d] # None /\ results[d].score >= Cap) => banned

\* Results of a day only improve, score and wave each for itself, whatever the
\* order in which clears of the day arrive.
BestKept ==
    [][\A d \in Days : results[d] # None =>
         /\ results'[d] # None
         /\ results'[d].score >= results[d].score
         /\ results'[d].wave >= results[d].wave]_vars

\* A result is credited to the day whose seed was played, unless midnight
\* passed between reading the seed and recording the result.
CreditedToItsDay ==
    [][\A r \in Reqs :
         (at[r] = "record" /\ at'[r] # "record" /\ results' # results)
         => (dailyRuns[today] = run[r].seed \/ crossed[r])]_vars

\* When clear deletes the stored run, what the run earned is recorded: its score
\* and wave if it was a run of the day, its seed if it was completed.  Exempt are
\* a failed statement and, for the score, a midnight in between: the new day may
\* have no seed yet and its row is then refused.
NothingLostWithTheRun ==
    [][\A r \in Reqs :
         (at[r] = "delete" /\ at'[r] = "idle" /\ errors' = errors) =>
         /\ (/\ IsTodaysRun(run[r], dailyRuns[today])
             /\ ~crossed[r] /\ "record" \notin failed)
            => /\ results[today] # None
               /\ results[today].score >= run[r].score
               /\ results[today].wave >= WaveCompleted(run[r])
         /\ (/\ validateSessionCompleted(run[r])
             /\ failed \cap {"count", "insert"} = {})
            => run[r].seed \in completions]_vars
=============================================================================
