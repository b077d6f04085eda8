----------------------------- MODULE ServerProofs -----------------------------
(***************************************************************************)
(* What holds of the server process with all its parts at work at once,    *)
(* for every set of workloads: each part behaves as its own specification  *)
(* says, stops of the process included, so that what is proved of the part *)
(* alone holds in the server.                                              *)
(***************************************************************************)
EXTENDS Server, CertCacheProofs, CollectionProofs, RankingsProofs, TLAPS

\* The keys for sign-in tokens in the server are the cache by itself.
THEOREM ServerRunsCert == ServerSpec => CertSpec
<1>1. ServerInit => CertInit
  BY DEF ServerInit
<1>2. [ServerNext]_serverVars => [CertNext]_certVars
  <2> SUFFICES ASSUME [ServerNext]_serverVars PROVE [CertNext]_certVars
    OBVIOUS
  <2>1. CASE SignIns
    BY <2>1 DEF SignIns, CertNext
  <2>2. CASE Upserts
    BY <2>2 DEF Upserts
  <2>3. CASE Ranks
    BY <2>3 DEF Ranks
  <2>4. CASE Refreshes
    BY <2>4 DEF Refreshes
  <2>5. CASE ServerStops
    BY <2>5 DEF ServerStops, CertNext
  <2>6. CASE UNCHANGED serverVars
    BY <2>6 DEF serverVars
  <2>7. QED
    BY <2>1, <2>2, <2>3, <2>4, <2>5, <2>6 DEF ServerNext
<1>3. QED
  BY <1>1, <1>2, PTL DEF ServerSpec, CertSpec

\* The transactions of the PvP collection in the server are the collection by
\* itself.
THEOREM ServerRunsCollection == ServerSpec => CollSpec
<1>1. ServerInit => CollInit
  BY DEF ServerInit
<1>2. [ServerNext]_serverVars => [CollNext]_collVars
  <2> SUFFICES ASSUME [ServerNext]_serverVars PROVE [CollNext]_collVars
    OBVIOUS
  <2>1. CASE SignIns
    BY <2>1 DEF SignIns
  <2>2. CASE Upserts
    BY <2>2 DEF Upserts, CollNext
  <2>3. CASE Ranks
    BY <2>3 DEF Ranks
  <2>4. CASE Refreshes
    BY <2>4 DEF Refreshes
  <2>5. CASE ServerStops
    BY <2>5 DEF ServerStops, CollNext
  <2>6. CASE UNCHANGED serverVars
    BY <2>6 DEF serverVars
  <2>7. QED
    BY <2>1, <2>2, <2>3, <2>4, <2>5, <2>6 DEF ServerNext
<1>3. QED
  BY <1>1, <1>2, PTL DEF ServerSpec, CollSpec

\* The rankings in the server are the rankings by themselves: a stop of the
\* process loses nothing of them, and no step of another part touches them.
THEOREM ServerRunsRankings == ServerSpec => RankSpec
<1>1. ServerInit => RankInit
  BY DEF ServerInit
<1>2. [ServerNext]_serverVars => [RankNext]_rankVars
  <2> SUFFICES ASSUME [ServerNext]_serverVars PROVE [RankNext]_rankVars
    OBVIOUS
  <2>1. CASE SignIns
    BY <2>1 DEF SignIns
  <2>2. CASE Upserts
    BY <2>2 DEF Upserts
  <2>3. CASE Ranks
    BY <2>3 DEF Ranks
  <2>4. CASE Refreshes
    BY <2>4 DEF Refreshes
  <2>5. CASE ServerStops
    BY <2>5 DEF ServerStops
  <2>6. CASE UNCHANGED serverVars
    BY <2>6 DEF serverVars
  <2>7. QED
    BY <2>1, <2>2, <2>3, <2>4, <2>5, <2>6 DEF ServerNext
<1>3. QED
  BY <1>1, <1>2, PTL DEF ServerSpec, RankSpec

\* The title statistics in the server are the statistics by themselves.
THEOREM ServerRunsStats == ServerSpec => StatSpec
<1>1. ServerInit => StatInit
  BY DEF ServerInit
<1>2. [ServerNext]_serverVars => [StatNext]_statVars
  <2> SUFFICES ASSUME [ServerNext]_serverVars PROVE [StatNext]_statVars
    OBVIOUS
  <2>1. CASE SignIns
    BY <2>1 DEF SignIns
  <2>2. CASE Upserts
    BY <2>2 DEF Upserts
  <2>3. CASE Ranks
    BY <2>3 DEF Ranks
  <2>4. CASE Refreshes
    BY <2>4 DEF Refreshes, StatNext
  <2>5. CASE ServerStops
    BY <2>5 DEF ServerStops, StatNext
  <2>6. CASE UNCHANGED serverVars
    BY <2>6 DEF serverVars
  <2>7. QED
    BY <2>1, <2>2, <2>3, <2>4, <2>5, <2>6 DEF ServerNext
<1>3. QED
  BY <1>1, <1>2, PTL DEF ServerSpec, StatSpec

-----------------------------------------------------------------------------
\* What is shown and what the jobs hold of the statistics keeps its type.
LEMMA StatTypeCorrect == StatSpec => []StatTypeOK
<1>1. StatInit => StatTypeOK
  BY StatsAssumption DEF StatInit, StatTypeOK
<1>2. StatTypeOK /\ [StatNext]_statVars => StatTypeOK'
  <2> SUFFICES ASSUME StatTypeOK, [StatNext]_statVars PROVE StatTypeOK'
    OBVIOUS
  <2> USE StatsAssumption DEF StatTypeOK
  <2>1. ASSUME NEW c \in Counts, Change(c) PROVE StatTypeOK'
    BY <2>1 DEF Change
  <2>2. ASSUME NEW c \in Counts, Fire(c) PROVE StatTypeOK'
    BY <2>2 DEF Fire
  <2>3. ASSUME NEW j \in Jobs, Evaluate(j) PROVE StatTypeOK'
    BY <2>3 DEF Evaluate
  <2>4. ASSUME NEW j \in Jobs, QueryFails(j) PROVE StatTypeOK'
    BY <2>4 DEF QueryFails
  <2>5. ASSUME NEW j \in Jobs, Assign(j) PROVE StatTypeOK'
    BY <2>5 DEF Assign
  <2>6. CASE StatStops
    BY <2>6 DEF StatStops
  <2>7. CASE UNCHANGED statVars
    BY <2>7 DEF statVars
  <2>8. QED
    BY <2>1, <2>2, <2>3, <2>4, <2>5, <2>6, <2>7
    DEF StatNext, StatStep, JobStep
<1>3. QED
  BY <1>1, <1>2, PTL DEF StatSpec

\* Every variable of the server has its type, whatever parts are at work.
THEOREM ServerTypeCorrect == ServerSpec => []ServerTypeOK
<1>1. ServerSpec => [](busy \in Workloads)
  <2>1. ServerInit => busy \in Workloads
    BY DEF ServerInit
  <2>2. busy \in Workloads /\ [ServerNext]_serverVars => (busy \in Workloads)'
    BY DEF ServerNext, serverVars, SignIns, Upserts, Ranks, Refreshes,
           ServerStops
  <2>3. QED
    BY <2>1, <2>2, PTL DEF ServerSpec
<1>2. /\ busy \in Workloads
      /\ CertTypeOK /\ CollTypeOK /\ RankTypeOK /\ StatTypeOK
      => ServerTypeOK
  BY DEF ServerTypeOK
<1>3. QED
  BY <1>1, <1>2, ServerRunsCert, CertTypeCorrect, ServerRunsCollection,
     CollTypeCorrect, ServerRunsRankings, RankTypeCorrect, ServerRunsStats,
     StatTypeCorrect, PTL

-----------------------------------------------------------------------------
\* In the server a token signed with a withdrawn key is accepted for the age of
\* the cache and of an answer at most, unless its own fetch fails.
THEOREM ServerExpiresKeys == ServerSpec => WithdrawnKeyExpires
<1>1. QED
  BY ServerRunsCert, WithdrawnKeyIsRefused

\* In the server a token signed with a current key is refused only when Google
\* cannot be reached.
THEOREM ServerAcceptsCurrentKeys == ServerSpec => CurrentKeyAccepted
<1>1. QED
  BY ServerRunsCert, CurrentKeyIsAccepted

\* In the server a walk through the rankings shows every account that kept its
\* place once, whatever else the process does.
THEOREM ServerShowsTheSteady == ServerSpec => []WalkShowsTheSteady
<1>1. QED
  BY ServerRunsRankings, WalkShowsTheSteadyHolds

\* In the server pages are empty only for the bans.
THEOREM ServerPagesMeanBanned == ServerSpec => []EmptyPagesMeanBanned
<1>1. QED
  BY ServerRunsRankings, EmptyPagesMeanBannedHolds

\* In the server ties of the day are broken by the first result.
THEOREM ServerTieByFirstResult == ServerSpec => []TieByFirstResult
<1>1. QED
  BY ServerRunsRankings, TieByFirstResultHolds

\* In the server a batch of the PvP collection is banked as a whole or not at
\* all: the server implements the bank.
THEOREM ServerRefinesBank == ServerSpec => CollectionIsAtomic
<1>1. QED
  BY ServerRunsCollection, CollectionRefinesBank
=============================================================================
