-------------------------------- MODULE Server --------------------------------
(***************************************************************************)
(* One server process with the parts that only it keeps or moves: the keys *)
(* for sign-in tokens (CertCache), the transactions of the PvP collection  *)
(* (Collection), the numbers on the title screen (TitleStats), and the     *)
(* rankings it reads (Rankings).                                           *)
(*                                                                         *)
(* They share no variable, and meet in one thing: when the process ends,   *)
(* the caches are empty, the open transactions are rolled back and no      *)
(* request under way is answered, all at once, while the tables and what   *)
(* clients have been told stay.  "busy" names the parts that are at work   *)
(* in a behaviour; the others have nothing to lose.                        *)
(***************************************************************************)
EXTENDS CertCache, Collection, Rankings, TitleStats

CONSTANT Workloads \* the sets of parts that may be at work together

Parts == {"certs", "collection", "rankings", "stats"}

ASSUME WorkloadsAssumption == Workloads \subseteq SUBSET Parts

VARIABLE busy

serverVars == << busy, certVars, collVars, rankVars, statVars >>

ServerInit ==
    /\ busy \in Workloads
    /\ CertInit /\ CollInit /\ RankInit /\ StatInit

SignIns ==
    /\ "certs" \in busy /\ CertStep
    /\ UNCHANGED << busy, collVars, rankVars, statVars >>

Upserts ==
    /\ "collection" \in busy /\ CollStep
    /\ UNCHANGED << busy, certVars, rankVars, statVars >>

Ranks ==
    /\ "rankings" \in busy /\ RankNext
    /\ UNCHANGED << busy, certVars, collVars, statVars >>

Refreshes ==
    /\ "stats" \in busy /\ StatStep
    /\ UNCHANGED << busy, certVars, collVars, rankVars >>

\* The process ends and its supervisor starts it again.
ServerStops ==
    /\ IF "certs" \in busy THEN CacheStops ELSE UNCHANGED certVars
    /\ IF "collection" \in busy THEN CollStops ELSE UNCHANGED collVars
    /\ IF "stats" \in busy THEN StatStops ELSE UNCHANGED statVars
    /\ UNCHANGED << busy, rankVars >>

ServerNext == SignIns \/ Upserts \/ Ranks \/ Refreshes \/ ServerStops

\* The steps of the process itself, for the fairness of its parts.
Handles(r) ==
    /\ "collection" \in busy /\ UpsertStep(r)
    /\ UNCHANGED << busy, certVars, rankVars, statVars >>

Fires(c) ==
    /\ "stats" \in busy /\ Fire(c)
    /\ UNCHANGED << busy, certVars, collVars, rankVars >>

Runs(j) ==
    /\ "stats" \in busy /\ JobStep(j)
    /\ UNCHANGED << busy, certVars, collVars, rankVars >>

(* The fairness of the parts: a handler goes on until it has answered, a   *)
(* statement that waits ends, the scheduler fires, a query ends.  None of  *)
(* clients, Google or the clock.                                           *)
ServerFairness ==
    /\ \A r \in Requests : WF_serverVars(Handles(r))
    /\ \A c \in Counts : SF_serverVars(Fires(c))
    /\ \A j \in Jobs : WF_serverVars(Runs(j))

ServerSpec == ServerInit /\ [][ServerNext]_serverVars
FairServerSpec == ServerSpec /\ ServerFairness

(***************************************************************************)
(* Properties: those of the parts, with                                    *)
(***************************************************************************)

\* Every variable of every part has its type.
ServerTypeOK ==
    /\ busy \in Workloads
    /\ CertTypeOK /\ CollTypeOK /\ RankTypeOK /\ StatTypeOK

\* Where the cron jobs run, the numbers on the title screen become true again
\* after failed queries, overlapping jobs and stops of the process.
TitleStatsCatchUp == "stats" \in busy => StatsCatchUp
=============================================================================
