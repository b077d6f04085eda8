------------------------------ MODULE SaveSync ------------------------------
(***************************************************************************)
(* The save-data endpoints of the server for ONE account: system saves     *)
(* (/savedata/system/{get,update,verify,delete}), run saves                *)
(* (/savedata/session/{get,update,delete}) and the combined                *)
(* /savedata/updateall.  Every statement of these handlers is keyed by the *)
(* account's uuid, so accounts do not interact here.                       *)
(*                                                                         *)
(* Each HTTP request runs in a goroutine of its own and every statement    *)
(* commits by itself (no transaction: "TODO wrap this in a transaction"),  *)
(* so one action is one SQL statement (or S3 call) together with the local *)
(* decisions taken on its result.                                          *)
(*                                                                         *)
(* A request is in flight until its last statement has taken effect.       *)
(***************************************************************************)
EXTENDS GameVersion

CONSTANTS
    Reqs,          \* request goroutines that can be in flight together
    Clients,       \* client session ids (a tab or device of the player)
    BlankClient,   \* the empty client session id, in Clients or not
    Slots,         \* run slots 0..SessionSlotCount-1
    NoSlot,        \* a slot out of range
    Ids,           \* trainer/secret id pairs with a positive component
    Zero,          \* the pair (0, 0)
    SystemSaves,   \* system saves a client may send
    SessionSaves,  \* run saves a client may send
    Migrators,     \* the names of migrators
    MinVersion,    \* game version "1.12.0.10"
    Ops,           \* the endpoints in use
    S3Modes,       \* the values of "S3_SYSTEM_BUCKET_NAME is set" to consider
    Faults,        \* can a statement fail, a reply get lost, the server stop
    SerialClients, \* does a client await each answer before its next request
    None           \* a missing row, an absent request

OpNames == {"sysGet", "sysUpdate", "sysVerify", "sysDelete", "updateAll",
            "sesGet", "sesUpdate", "sesDelete"}

\* A system save: its trainer/secret ids, its game statistics, its game version
\* and when each migrator was applied to it.  Of the statistics: the play time,
\* NoNumber when gameStats is no map or has no number there, and whether
\* UpdateAccountStats can write them: a map of nothing but numbers that, with
\* the vouchers, gives it a column to write at all.
SystemSave == [id : Ids \cup {Zero}, play : Nat \cup {NoNumber},
               numbers : BOOLEAN, ver : Version,
               mig : [Migrators -> Int \cup {NoNumber}]]

\* A run save: the seed of the run and the wave it has reached.
SessionSave == [seed : Nat, wave : Nat]

ASSUME SaveSyncAssumption ==
    /\ Zero \notin Ids
    /\ NoSlot \notin Slots
    /\ SystemSaves \subseteq SystemSave
    /\ SessionSaves \subseteq SessionSave
    /\ MinVersion \in Version /\ Parses(MinVersion)
    /\ Ops \subseteq OpNames
    /\ S3Modes \subseteq BOOLEAN
    /\ Faults \in BOOLEAN
    /\ None \notin Clients \cup {BlankClient} \cup SystemSave
                    \cup SessionSave \cup Nat
    /\ SerialClients \in BOOLEAN

VARIABLES
    s3,         \* do the system saves live in S3 (fixed by the environment)
    active,     \* activeClientSessions.clientSessionId, or None
    ids,        \* accounts.trainerId / secretId
    stats,      \* accountStats.playTime, or None when there is no row
    system,     \* the stored system save (table systemSaveData or S3), or None
    session,    \* sessionSaveData: slot -> run save or None
    pc,         \* request -> the statement it is about to run
    req,        \* request -> what was asked, or None
    copy,       \* client -> what it holds of the system save: nothing yet, the
                \*           stored one, or one replaced or deleted since; or
                \*           it was made the active client, and has not been
                \*           sent the stored save since
    raced,      \* request -> has another request written since it began
    racyWrite,  \* has a request written after it was raced
    retry       \* the request whose failure the client has just been told of,
                \* if it had passed its checks and nothing else ran meanwhile

db == <<s3, active, ids, stats, system, session>>
history == <<copy, raced, racyWrite, retry>>
vars == <<db, pc, req, history>>

\* What the routes accept.  updateall refuses an empty client session id.
Request == [op : OpNames, client : Clients, slot : Slots \cup {NoSlot},
            sys : SystemSaves \cup {None}, ses : SessionSaves \cup {None}]

SystemRequests ==
    [op : Ops \cap {"sysGet", "sysVerify", "sysDelete"}, client : Clients,
     slot : {NoSlot}, sys : {None}, ses : {None}]
    \cup [op : Ops \cap {"sysUpdate"}, client : Clients,
          slot : {NoSlot}, sys : SystemSaves, ses : {None}]

SessionRequests ==
    [op : Ops \cap {"sesGet", "sesDelete"}, client : Clients,
     slot : Slots, sys : {None}, ses : {None}]
    \cup [op : Ops \cap {"sesUpdate"}, client : Clients,
          slot : Slots, sys : {None}, ses : SessionSaves]

CombinedRequests ==
    [op : Ops \cap {"updateAll"}, client : Clients \ {BlankClient},
     slot : Slots \cup {NoSlot}, sys : SystemSaves, ses : SessionSaves]

Requests == SystemRequests \cup SessionRequests \cup CombinedRequests

Labels == {"idle", "isActive", "claim", "takeover", "load", "fetchIds",
           "setIds", "oldSystem", "oldSession", "putSession", "stats",
           "putSystem", "delSystem", "readSession", "delSession", "send",
           "reply"}

InFlight == {r \in Reqs : pc[r] # "idle"}

-----------------------------------------------------------------------------
(* The checks of the handlers *)

\* Mutant: a row is enough, whoever it names.
IsActiveSession_anyRow(c) == active # None

\* IsActiveSession when there is a row.
IsActiveSession(c) == active \in {c, BlankClient}

\* Mutant: stored ids are not compared.
IdsMatch_unchecked(q) == TRUE

\* validateOrCreateIds: either the ids agree or none are stored yet.
IdsMatch(q) == ids = Zero \/ ids = q.sys.id

\* Mutant: a missing play time is read as 0.
validatePlaytime_missingIsZero(new, old) ==
    LET Play(sv) == IF sv.play = NoNumber THEN 0 ELSE sv.play
    IN  Play(new) >= Play(old)

\* validatePlaytime: both saves have a play time (ErrNoPlaytime) and it does not
\* go back.  Of statistics that are no map the conversion panics, which ends
\* the request just so.
validatePlaytime(new, old) ==
    /\ new.play # NoNumber
    /\ old.play # NoNumber
    /\ new.play >= old.play

\* A version that parses and is the minimum version or a later one.
Supported(v) == Parses(v) /\ CompareGameVersion(MinVersion, v) <= 0

\* validateSystemVersion: at least the minimum version, not older than the
\* stored save's (which must parse, too), and the migrators are kept.
validateSystemVersion(new, old) ==
    /\ Supported(new.ver)
    /\ Parses(old.ver)
    /\ CompareGameVersion(old.ver, new.ver) <= 0
    /\ ValidMigrators(new.mig, old.mig)

\* The check against the stored system save, if there is one.
SystemAccepted(q) ==
    system # None => /\ validatePlaytime(q.sys, system)
                     /\ validateSystemVersion(q.sys, system)

\* Mutant: updateall does not check the wave.
SessionAccepted_updateAllUnchecked(q) ==
    (q.op # "updateAll" /\ q.slot \in Slots /\ session[q.slot] # None) =>
        ~ /\ session[q.slot].seed = q.ses.seed
          /\ session[q.slot].wave > q.ses.wave

\* Mutant: the same wave is out of date too.
SessionAccepted_strict(q) ==
    (q.slot \in Slots /\ session[q.slot] # None) =>
        ~ /\ session[q.slot].seed = q.ses.seed
          /\ session[q.slot].wave >= q.ses.wave

\* A run save is out of date when the same run is stored at a later wave.  A
\* slot out of range holds no row.
SessionAccepted(q) ==
    (q.slot \in Slots /\ session[q.slot] # None) =>
        ~ /\ session[q.slot].seed = q.ses.seed
          /\ session[q.slot].wave > q.ses.wave

-----------------------------------------------------------------------------
(* Control of one request *)

\* Go on to the statement at label l.
Continue(r, l) == pc' = [pc EXCEPT ![r] = l] /\ UNCHANGED req

\* The handler returns; nothing is in flight any more.
Finish(r) ==
    /\ pc' = [pc EXCEPT ![r] = "idle"]
    /\ req' = [req EXCEPT ![r] = None]
    /\ raced' = [raced EXCEPT ![r] = FALSE]

\* A write by r overtakes every other request in flight.
Overtake(r) ==
    /\ raced' = [x \in Reqs |-> raced[x] \/ (x # r /\ pc[x] # "idle")]
    /\ racyWrite' = (racyWrite \/ raced[r])
    /\ UNCHANGED retry

\* The copies the clients hold once the stored save changes.
Outdated ==
    [c \in Clients |-> IF copy[c] = "current" THEN "stale" ELSE copy[c]]

\* The copies once client k is made the active one, whatever it holds.
HandedTo(k) ==
    [c \in Clients |->
        CASE c = k /\ copy[c] # "current" -> "unsent"
          [] c # k /\ copy[c] = "unsent"  -> "stale"
          [] OTHER                        -> copy[c]]

\* The statement that follows once the client is known to be the active one.
WhenActive(op) ==
    CASE op = "sysGet"    -> "load"
      [] op = "sysVerify" -> "reply"
      [] op = "sysDelete" -> "delSystem"
      [] OTHER            -> "fetchIds"

\* A request arrives, its token names this account and its parameters parse.
\* The session handlers begin with UpdateActiveSession, the others ask
\* IsActiveSession.
Begin(r, q) ==
    /\ pc[r] = "idle"
    /\ SerialClients => \A x \in InFlight : req[x].client # q.client
    /\ pc' = [pc EXCEPT ![r] = IF q.op \in {"sesGet", "sesUpdate", "sesDelete"}
                               THEN "takeover" ELSE "isActive"]
    /\ req' = [req EXCEPT ![r] = q]
    /\ retry' = None
    /\ UNCHANGED <<db, copy, raced, racyWrite>>

\* Mutant: an update is taken from a client that is not the active one.
CheckActive_updatesAnyway(r) ==
    /\ pc[r] = "isActive"
    /\ \/ active = None /\ Continue(r, "claim")
       \/ /\ active # None
          /\ Continue(r, IF ~IsActiveSession(req[r].client)
                             /\ req[r].op \in {"sysGet", "sysVerify"}
                         THEN "takeover" ELSE WhenActive(req[r].op))
    /\ UNCHANGED <<db, history>>

\* IsActiveSession's SELECT.  Without a row the client becomes the active one;
\* an inactive client may load or verify (which makes it active) or delete,
\* but not update.
CheckActive(r) ==
    /\ pc[r] = "isActive"
    /\ \/ active = None /\ Continue(r, "claim") /\ UNCHANGED raced
       \/ /\ active # None
          /\ IsActiveSession(req[r].client)
          /\ Continue(r, WhenActive(req[r].op))
          /\ UNCHANGED raced
       \/ /\ active # None
          /\ ~IsActiveSession(req[r].client)
          /\ \/ /\ req[r].op \in {"sysGet", "sysVerify"}
                /\ Continue(r, "takeover")
                /\ UNCHANGED raced
             \/ /\ req[r].op = "sysDelete"
                /\ Continue(r, "delSystem")
                /\ UNCHANGED raced
             \/ /\ req[r].op \in {"sysUpdate", "updateAll"}
                /\ Finish(r)
    /\ UNCHANGED <<db, copy, racyWrite, retry>>

\* UpdateActiveSession, called by IsActiveSession when it found no row.
ClaimActive(r) ==
    /\ pc[r] = "claim"
    /\ active' = req[r].client
    /\ Continue(r, WhenActive(req[r].op))
    /\ Overtake(r)
    /\ UNCHANGED <<s3, ids, stats, system, session, copy>>

\* UpdateActiveSession, called by system get and verify for an inactive client
\* and by every session endpoint.
TakeOver(r) ==
    /\ pc[r] = "takeover"
    /\ active' = req[r].client
    /\ Continue(r, CASE req[r].op \in {"sysGet", "sysVerify"} -> "load"
                     [] req[r].op = "sesGet"                  -> "readSession"
                     [] req[r].op = "sesUpdate"               -> "oldSession"
                     [] OTHER                                 -> "delSession")
    /\ copy' = HandedTo(req[r].client)
    /\ Overtake(r)
    /\ UNCHANGED <<s3, ids, stats, system, session>>

\* Mutant: verify answers an inactive client without the stored save.
LoadSystem_verifyEmpty(r) ==
    /\ pc[r] = "load"
    /\ Continue(r, IF req[r].op = "sysVerify" THEN "reply" ELSE "send")
    /\ UNCHANGED <<db, history>>

\* What makes get and verify fail.  verify reads the database table even when
\* the saves are in S3, and finds nothing; get compares the version of the save
\* with the minimum, and sends the save whatever comes out.
LoadFails(op) ==
    IF op = "sysVerify" THEN s3 \/ system = None
    ELSE system # None /\ ~Parses(system.ver)

\* GetSystem (get) or ReadSystemSaveData (verify).
LoadSystem(r) ==
    /\ pc[r] = "load"
    /\ \/ LoadFails(req[r].op) /\ Finish(r)
       \/ ~LoadFails(req[r].op) /\ Continue(r, "send") /\ UNCHANGED raced
    /\ UNCHANGED <<db, copy, racyWrite, retry>>

\* The client receives the save that was read, or learns that there is none.
\* That is the stored one for sure if nothing was written meanwhile.
Send(r) ==
    /\ pc[r] = "send"
    /\ Finish(r)
    /\ copy' = IF raced[r] THEN copy
               ELSE [copy EXCEPT ![req[r].client] = "current"]
    /\ UNCHANGED <<db, racyWrite, retry>>

\* Mutant: ids that differ are stored instead of refused.
FetchIds_replaceMismatch(r) ==
    /\ pc[r] = "fetchIds"
    /\ Continue(r, IF ids = req[r].sys.id THEN "oldSystem" ELSE "setIds")
    /\ UNCHANGED <<db, history>>

\* FetchTrainerIds and the comparison with the ids of the save.
FetchIds(r) ==
    /\ pc[r] = "fetchIds"
    /\ \/ ~IdsMatch(req[r]) /\ Finish(r)
       \/ /\ IdsMatch(req[r])
          /\ Continue(r, IF ids = Zero THEN "setIds" ELSE "oldSystem")
          /\ UNCHANGED raced
    /\ UNCHANGED <<db, copy, racyWrite, retry>>

\* UpdateTrainerIds.
SetIds(r) ==
    /\ pc[r] = "setIds"
    /\ ids' = req[r].sys.id
    /\ Continue(r, "oldSystem")
    /\ Overtake(r)
    /\ UNCHANGED <<s3, active, stats, system, session, copy>>

\* Mutant: a system update leaves the statistics alone.
CheckSystem_noStats(r) ==
    /\ pc[r] = "oldSystem"
    /\ \/ ~SystemAccepted(req[r]) /\ Finish(r)
       \/ /\ SystemAccepted(req[r])
          /\ Continue(r, IF req[r].op = "updateAll" THEN "oldSession"
                                                    ELSE "putSystem")
          /\ UNCHANGED raced
    /\ UNCHANGED <<db, copy, racyWrite, retry>>

\* GetSystem and the checks against the stored save.
CheckSystem(r) ==
    /\ pc[r] = "oldSystem"
    /\ \/ ~SystemAccepted(req[r]) /\ Finish(r)
       \/ /\ SystemAccepted(req[r])
          /\ Continue(r, IF req[r].op = "updateAll" THEN "oldSession"
                                                    ELSE "stats")
          /\ UNCHANGED raced
    /\ UNCHANGED <<db, copy, racyWrite, retry>>

\* GetSession and the wave check, then Update's check of the slot's range
\* (handleUpdateAll alone lets a slot out of range come so far).
CheckSession(r) ==
    /\ pc[r] = "oldSession"
    /\ \/ ~(SessionAccepted(req[r]) /\ req[r].slot \in Slots) /\ Finish(r)
       \/ /\ SessionAccepted(req[r])
          /\ req[r].slot \in Slots
          /\ Continue(r, "putSession")
          /\ UNCHANGED raced
    /\ UNCHANGED <<db, copy, racyWrite, retry>>

\* StoreSessionSaveData: REPLACE of the slot's row.
StoreSession(r) ==
    /\ pc[r] = "putSession"
    /\ session' = [session EXCEPT ![req[r].slot] = req[r].ses]
    /\ Continue(r, IF req[r].op = "updateAll" THEN "stats" ELSE "reply")
    /\ Overtake(r)
    /\ UNCHANGED <<s3, active, ids, stats, system, copy>>

\* UpdateSystem: a save without ids is refused, and UpdateAccountStats refuses
\* statistics that are not all numbers.  It writes the columns it is given: a
\* play time that is missing stays what it was, 0 in a new row.
UpdateStats(r) ==
    /\ pc[r] = "stats"
    /\ \/ /\ req[r].sys.id = Zero \/ ~req[r].sys.numbers
          /\ Finish(r)
          /\ UNCHANGED <<stats, racyWrite, retry>>
       \/ /\ req[r].sys.id # Zero
          /\ req[r].sys.numbers
          /\ stats' = CASE req[r].sys.play # NoNumber -> req[r].sys.play
                       [] req[r].sys.play = NoNumber /\ stats = None -> 0
                       [] OTHER -> stats
          /\ Continue(r, "putSystem")
          /\ Overtake(r)
    /\ UNCHANGED <<s3, active, ids, system, session, copy>>

\* Mutant: the run save goes into the system save's row.
StoreSystem_wrongPayload(r) ==
    /\ pc[r] = "putSystem"
    /\ system' = req[r].ses
    /\ copy' = [Outdated EXCEPT ![req[r].client] = "current"]
    /\ Continue(r, "reply")
    /\ Overtake(r)
    /\ UNCHANGED <<s3, active, ids, stats, session>>

\* StoreSystemSaveData (REPLACE) or StoreSystemSaveDataS3 (PutObject).
StoreSystem(r) ==
    /\ pc[r] = "putSystem"
    /\ system' = req[r].sys
    /\ copy' = [Outdated EXCEPT ![req[r].client] = "current"]
    /\ Continue(r, "reply")
    /\ Overtake(r)
    /\ UNCHANGED <<s3, active, ids, stats, session>>

\* DeleteSystemSaveData: the row of the table; an S3 object stays.
DeleteSystem(r) ==
    /\ pc[r] = "delSystem"
    /\ \/ ~s3 /\ system' = None /\ copy' = Outdated
       \/ s3 /\ UNCHANGED <<system, copy>>
    /\ Continue(r, "reply")
    /\ Overtake(r)
    /\ UNCHANGED <<s3, active, ids, stats, session>>

\* session get: ReadSessionSaveData, the row or 404.
ReadSession(r) ==
    /\ pc[r] = "readSession"
    /\ Continue(r, "reply")
    /\ UNCHANGED <<db, history>>

\* session delete: DeleteSessionSaveData.
DeleteSession(r) ==
    /\ pc[r] = "delSession"
    /\ session' = [session EXCEPT ![req[r].slot] = None]
    /\ Continue(r, "reply")
    /\ Overtake(r)
    /\ UNCHANGED <<s3, active, ids, stats, system, copy>>

\* The answer of a request that did all it was asked.
Reply(r) ==
    /\ pc[r] = "reply"
    /\ Finish(r)
    /\ UNCHANGED <<db, copy, racyWrite, retry>>

\* A statement fails or times out before or after taking effect, the reply is
\* lost, or the server stops (every request in flight aborts): nothing is
\* undone.  The client can only repeat what it asked.
Abort(r) ==
    /\ Faults
    /\ pc[r] # "idle"
    /\ Finish(r)
    /\ retry' = IF /\ pc[r] \in {"putSession", "stats", "putSystem", "reply"}
                   /\ req[r].op \in {"sysUpdate", "updateAll", "sesUpdate"}
                   /\ InFlight = {r}
                   /\ ~raced[r]
                THEN req[r] ELSE retry
    /\ UNCHANGED <<db, copy, racyWrite>>

-----------------------------------------------------------------------------
Init ==
    /\ s3 \in S3Modes
    /\ active = None
    /\ ids = Zero
    /\ stats = None
    /\ system = None
    /\ session = [s \in Slots |-> None]
    /\ pc = [r \in Reqs |-> "idle"]
    /\ req = [r \in Reqs |-> None]
    /\ copy = [c \in Clients |-> "none"]
    /\ raced = [r \in Reqs |-> FALSE]
    /\ racyWrite = FALSE
    /\ retry = None

Step(r) ==
    \/ CheckActive(r)  \/ ClaimActive(r)  \/ TakeOver(r)     \/ LoadSystem(r)
    \/ FetchIds(r)     \/ SetIds(r)       \/ CheckSystem(r)  \/ CheckSession(r)
    \/ StoreSession(r) \/ UpdateStats(r)  \/ StoreSystem(r)  \/ DeleteSystem(r)
    \/ ReadSession(r)  \/ DeleteSession(r) \/ Send(r)     \/ Reply(r)

Next == \E r \in Reqs : \/ \E q \in Requests : Begin(r, q)
                        \/ Step(r)
                        \/ Abort(r)

Spec == Init /\ [][Next]_vars

-----------------------------------------------------------------------------
(* Properties *)

\* Type correctness of the rows and of the requests in flight; a request that
\* has reached the update path is an update and carries a system save.
TypeOK ==
    /\ s3 \in BOOLEAN
    /\ active \in Clients \cup {None}
    /\ ids \in Ids \cup {Zero}
    /\ stats \in Nat \cup {None}
    /\ system \in SystemSaves \cup {None}
    /\ session \in [Slots -> SessionSaves \cup {None}]
    /\ pc \in [Reqs -> Labels]
    /\ req \in [Reqs -> Request \cup {None}]
    /\ \A r \in Reqs : pc[r] # "idle" => req[r] \in Requests
    /\ copy \in [Clients -> {"none", "current", "stale", "unsent"}]
    /\ raced \in [Reqs -> BOOLEAN]
    /\ racyWrite \in BOOLEAN
    /\ retry \in Requests \cup {None}

\* Unless some request wrote after another one had overtaken it, the stored
\* system save carries the trainer and secret ids of the account, which is what
\* every later update is compared with (validateOrCreateIds): the player is
\* never locked out of the save by its own ids.
SaveMatchesIds == ~racyWrite => (system # None => system.id = ids)

\* Unless some request wrote after being overtaken, the statistics row of an
\* account with a save exists and is never behind the save's play time, whatever
\* fails between UpdateAccountStats and the store of the save.
StatsNotBehindSave ==
    (~racyWrite /\ system # None) =>
        /\ stats # None
        /\ system.play # NoNumber => stats >= system.play

\* The request whose step is taken.
Moves(r) == pc'[r] # pc[r]

\* Every migrator that was applied at a time other than 0 was applied then.
MigratorsKept(old, new) ==
    \A m \in Migrators : old[m] \notin {0, NoNumber} => new[m] = old[m]

\* A stored save is replaced by one with less play time, an older version or a
\* lost migrator, or at all when its play time is missing or its version does
\* not parse, only by a request during which another one has written
\* (validatePlaytime, validateSystemVersion).
SaveNeverRollsBack ==
    [][(system # None /\ system' # None /\ system' # system) =>
         \/ /\ system.play # NoNumber /\ system'.play # NoNumber
            /\ system'.play >= system.play
            /\ Parses(system.ver) /\ Parses(system'.ver)
            /\ NotLater(system.ver, system'.ver)
            /\ MigratorsKept(system.mig, system'.mig)
         \/ \E r \in Reqs : pc[r] = "putSystem" /\ raced[r] /\ Moves(r)]_vars

\* Once an account has trainer and secret ids, only an overtaken request
\* replaces them: of several first updates that do not overlap, one wins and
\* the others are compared with it.
IdsSettle ==
    [][(ids # Zero /\ ids' # ids) =>
         \E r \in Reqs : pc[r] = "setIds" /\ raced[r] /\ Moves(r)]_vars

\* The stored wave of a run goes back only by an overtaken request, in
\* session update and in updateall alike.
WaveNeverRollsBack ==
    [][\A s \in Slots :
         (/\ session[s] # None /\ session'[s] # None
          /\ session[s].seed = session'[s].seed
          /\ session'[s].wave < session[s].wave)
         => \E r \in Reqs : pc[r] = "putSession" /\ raced[r] /\ Moves(r)]_vars

\* The save of q is the stored one, and no check has seen it: as the first save
\* of the account it was stored without a play time, or with a version below
\* the minimum or one that does not parse.
TakenUnchecked(q) ==
    /\ system # None
    /\ system = q.sys
    /\ system.play = NoNumber \/ ~Supported(system.ver)

\* What a request would meet if it were sent now: would it pass its checks?
WouldPass(q) ==
    /\ q.op \in {"sysUpdate", "updateAll"} =>
         /\ IsActiveSession(q.client)
         /\ IdsMatch(q)
         /\ SystemAccepted(q) \/ TakenUnchecked(q)
    /\ q.op \in {"updateAll", "sesUpdate"} => SessionAccepted(q)

\* A request that failed half way, or whose reply was lost, passes every check
\* when the client repeats it: the rows it already wrote (active session, ids,
\* run save, statistics, system save) never make the server refuse the rest.
\* The exception is a first save that the checks would have refused: once it is
\* stored its repetition is refused (ErrNoPlaytime, ErrVersionTooLow).
RetryPasses == retry # None => WouldPass(retry)

\* When the server tells a client that its session is valid, that client holds
\* the stored save; it has been sent the server's state otherwise.  This is so
\* where clients await their answers, send an id and use the system endpoints
\* and updateall only, saves are in the database, versions parse and nothing
\* fails.
ValidMeansCurrent ==
    (~racyWrite /\ system # None) =>
        \A r \in Reqs :
            (pc[r] = "reply" /\ req[r].op = "sysVerify" /\ ~raced[r])
            => copy[req[r].client] \notin {"stale", "unsent"}

\* The step stores the save of r over another one.
StoresOver(r) == pc[r] = "putSystem" /\ pc'[r] = "reply" /\ system # None

\* A client never replaces a stored save it does not hold: where clients behave
\* as above, the active session hands the save from one client to the next.
NoUnseenOverwrite ==
    [][\A r \in Reqs :
         (StoresOver(r) /\ ~racyWrite')
         => copy[req[r].client] = "current"]_vars

\* A client that holds the stored save, or that the server made the active one
\* without sending it since: by a session endpoint, by a get or verify that did
\* not come to its answer, or one that has not yet.  With the empty id in the
\* row any client passes for the active one.
HandedOver(c) == active = BlankClient \/ copy[c] \in {"current", "unsent"}

\* Whatever clients, endpoints and failures: "valid" is told only to a client
\* that holds the stored save, or to the one the server itself made active
\* without sending it the save.  A client whose save was replaced or deleted by
\* another is told so as long as it is not made active again.
ValidMeansHandedOver ==
    (~racyWrite /\ system # None) =>
        \A r \in Reqs :
            (pc[r] = "reply" /\ req[r].op = "sysVerify" /\ ~raced[r])
            => HandedOver(req[r].client)

\* Whatever clients, endpoints and failures: the save that another client has
\* stored is overwritten only by a client it was sent to, or by the one the
\* server itself made active without sending it.
OverwriteAfterHandOver ==
    [][\A r \in Reqs :
         (StoresOver(r) /\ ~racyWrite')
         => HandedOver(req[r].client)]_vars

\* endpoints.go:93-94: "ensures the client is sending a save with greater (or
\* equal) playtime than the existing save".
PlaytimeNeverDecreases ==
    [][(/\ system # None /\ system' # None
         /\ system.play # NoNumber /\ system'.play # NoNumber)
         => system'.play >= system.play]_system
=============================================================================
