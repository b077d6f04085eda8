------------------------------ MODULE TitleStats ------------------------------
(***************************************************************************)
(* The numbers on the title screen (api/stats.go, db/game.go): the players *)
(* of the last minutes, the battles and the classic sessions of all        *)
(* accounts.  A cron job for each runs a query and assigns the result to a *)
(* variable of the package, which handleGameTitleStats and                 *)
(* handleGameClassicSessionCount read.                                     *)
(*                                                                         *)
(* The scheduler starts a job whether or not the last run of it is over,   *)
(* so a slow query may overwrite the result of a later one; a query that   *)
(* fails returns 0, its error is dropped, and 0 is shown until a later one *)
(* succeeds.                                                               *)
(***************************************************************************)
EXTENDS Naturals

CONSTANTS
    Counts,     \* playerCount, battleCount, classicSessionCount
    Jobs,       \* the runs of cron jobs that may overlap
    MaxChanges, \* bound: changes of what the database would answer
    MaxFails,   \* bound: failed queries
    NoResult    \* of a job whose query has not been evaluated

ASSUME StatsAssumption ==
    MaxChanges \in Nat /\ MaxFails \in Nat /\ NoResult \notin Nat

VARIABLES
    truth,   \* what the query of each count would return now
    shown,   \* the variables of the package
    job,     \* the job of each run: a count, or none
    result,  \* what its query has returned
    changes, \* changes of the truth so far
    fails    \* failed queries so far

statVars == << truth, shown, job, result, changes, fails >>

NoJob == "none"

StatInit ==
    /\ truth = [c \in Counts |-> 1]
    /\ shown = [c \in Counts |-> 0]
    /\ job = [j \in Jobs |-> NoJob]
    /\ result = [j \in Jobs |-> NoResult]
    /\ changes = 0
    /\ fails = 0

\* Players come and go, battles are added.
Change(c) ==
    /\ changes < MaxChanges
    /\ changes' = changes + 1
    /\ truth' = [truth EXCEPT ![c] = changes + 2]
    /\ UNCHANGED << shown, job, result, fails >>

\* A number is fetched until there is one.
Fire_wrong(c) ==
    /\ shown[c] = 0
    /\ \E j \in Jobs : job[j] = NoJob /\ job' = [job EXCEPT ![j] = c]
    /\ UNCHANGED << truth, shown, result, changes, fails >>

\* The scheduler starts the job of a count.
Fire(c) ==
    /\ \E j \in Jobs : job[j] = NoJob /\ job' = [job EXCEPT ![j] = c]
    /\ UNCHANGED << truth, shown, result, changes, fails >>

\* The database evaluates the query, or fails it.
Evaluate(j) ==
    /\ job[j] # NoJob /\ result[j] = NoResult
    /\ result' = [result EXCEPT ![j] = truth[job[j]]]
    /\ UNCHANGED << truth, shown, job, changes, fails >>

QueryFails(j) ==
    /\ job[j] # NoJob /\ result[j] = NoResult
    /\ fails < MaxFails
    /\ fails' = fails + 1
    /\ result' = [result EXCEPT ![j] = 0]
    /\ UNCHANGED << truth, shown, job, changes >>

\* The job assigns what came back.
Assign(j) ==
    /\ job[j] # NoJob /\ result[j] # NoResult
    /\ shown' = [shown EXCEPT ![job[j]] = result[j]]
    /\ job' = [job EXCEPT ![j] = NoJob]
    /\ result' = [result EXCEPT ![j] = NoResult]
    /\ UNCHANGED << truth, changes, fails >>

\* The process ends and is started again: the variables are 0.
StatStops ==
    /\ fails < MaxFails
    /\ fails' = fails + 1
    /\ shown' = [c \in Counts |-> 0]
    /\ job' = [j \in Jobs |-> NoJob]
    /\ result' = [j \in Jobs |-> NoResult]
    /\ UNCHANGED << truth, changes >>

JobStep(j) == Evaluate(j) \/ Assign(j)

StatStep ==
    \/ \E c \in Counts : Change(c) \/ Fire(c)
    \/ \E j \in Jobs : JobStep(j) \/ QueryFails(j)

StatNext == StatStep \/ StatStops

(* The scheduler starts every job again and again, and a query ends.       *)
StatFairness ==
    /\ \A c \in Counts : SF_statVars(Fire(c))
    /\ \A j \in Jobs : WF_statVars(JobStep(j))

StatSpec == StatInit /\ [][StatNext]_statVars
FairStatSpec == StatSpec /\ StatFairness

(***************************************************************************)
(* Properties                                                              *)
(***************************************************************************)

\* Every variable has its type.
StatTypeOK ==
    /\ truth \in [Counts -> Nat]
    /\ shown \in [Counts -> Nat]
    /\ job \in [Jobs -> Counts \cup {NoJob}]
    /\ result \in [Jobs -> Nat \cup {NoResult}]
    /\ changes \in 0 .. MaxChanges
    /\ fails \in 0 .. MaxFails

\* Once the numbers change no more and queries no longer fail, what is shown
\* becomes what is true and stays so: no late result of an earlier query and
\* no 0 of a failed one is shown for ever.
StatsCatchUp == \A c \in Counts : <>[](shown[c] = truth[c])
=============================================================================
