---------------------------- MODULE SchemaSetup ----------------------------
(***************************************************************************)
(* Start of the server in a devsetup build: db.Init calls setupDb          *)
(* (db/db_setup.go), which creates what the schema lacks, and main         *)
(* (rogueserver.go) opens the listener only when it returned no error.     *)
(*                                                                         *)
(* setupDb runs inside a transaction, but every statement that changes the *)
(* schema commits by itself: Rollback undoes nothing, and what a start     *)
(* that failed or was killed has created stays.  Several servers may start *)
(* at once against one database.  Columns and indexes are looked for in    *)
(* information_schema and then created by a statement without IF NOT       *)
(* EXISTS, which fails when another server has been faster.  A server      *)
(* whose setup fails ends with log.Fatalf and is started again by its      *)
(* supervisor.                                                             *)
(***************************************************************************)
EXTENDS Naturals, Sequences, FiniteSets

CONSTANTS
    Servers,    \* the servers that share the database
    Configs,    \* their possible environments: [endpoint, bucket], is it set?
    OldSchemas, \* the schemas a first start can find
    MaxFaults   \* bound: failed statements and stops of a process

(* AWS_ENDPOINT_URL_S3 (read by setupDb) and S3_SYSTEM_BUCKET_NAME (read   *)
(* by savedata/system.go) are set together or not at all; a server with    *)
(* the endpoint alone would look for a table that nobody creates.          *)
ASSUME ConfigsAssumption ==
    /\ Configs \subseteq [endpoint : BOOLEAN, bucket : BOOLEAN]
    /\ \A c \in Configs : c.endpoint => c.bucket

ASSUME FaultsAssumption == MaxFaults \in Nat

(***************************************************************************)
(* What setupDb creates, in its order.                                     *)
(***************************************************************************)
BaseTables ==
    << "accounts", "sessions", "accountStats", "dailyRuns",
       "dailyRunCompletions", "accountDailyRuns", "sessionSaveData",
       "activeClientSessions", "bankedPokemon", "pvpRecords" >>

columns == << "firebaseUid", "cheatsEnabled" >>

indexes ==
    << "accountsByActivity", "sessionsByUuid", "dailyRunsByDateAndSeed",
       "dailyRunCompletionsByUuidAndSeed", "accountDailyRunsByDate" >>

\* The table is left out when there is no S3, instead of when there is.
Tables_wrong(c) == BaseTables \o
                   IF c.endpoint THEN << "systemSaveData" >> ELSE << >>

\* The tables of an environment: the system saves need one without S3.
Tables(c) == BaseTables \o
             IF c.endpoint THEN << >> ELSE << "systemSaveData" >>

queries(c) == Tables(c) \o columns \o indexes

Elements(seq) == {seq[i] : i \in DOMAIN seq}
TableNames == Elements(BaseTables) \cup {"systemSaveData"}
Objects == TableNames \cup Elements(columns) \cup Elements(indexes)

ASSUME OldSchemasAssumption == OldSchemas \subseteq SUBSET Objects

\* The columns a new accounts table has from the start.
BornWith(t) == IF t = "accounts" THEN Elements(columns) ELSE {}

\* What has to be there before the database accepts a statement: the tables
\* that foreign keys refer to, the table of a column or of an index.
Requires(o) ==
    CASE o \in {"accounts", "dailyRuns"} -> {}
      [] o = "accountDailyRuns" -> {"accounts", "dailyRuns"}
      [] o = "sessionsByUuid" -> {"sessions"}
      [] o = "dailyRunsByDateAndSeed" -> {"dailyRuns"}
      [] o = "dailyRunCompletionsByUuidAndSeed" -> {"dailyRunCompletions"}
      [] o = "accountDailyRunsByDate" -> {"accountDailyRuns"}
      [] OTHER -> {"accounts"}

VARIABLES
    schema, \* the tables, columns and indexes the database has
    config, \* the environment of each server
    phase,  \* of each server: "down", "setup" or "serving"
    next,   \* position in queries of the statement a server is at
    absent, \* has the server looked for the object there and not found it?
    faults  \* failures and stops so far

vars == << schema, config, phase, next, absent, faults >>

Init ==
    /\ schema \in OldSchemas
    /\ config \in [Servers -> Configs]
    /\ phase = [s \in Servers |-> "down"]
    /\ next = [s \in Servers |-> 1]
    /\ absent = [s \in Servers |-> FALSE]
    /\ faults = 0

Statement(s) == queries(config[s])[next[s]]
InSetup(s) == phase[s] = "setup" /\ next[s] <= Len(queries(config[s]))

\* Every statement is followed by the one after the next.
Advance_wrong(s) ==
    /\ next' = [next EXCEPT ![s] = @ + 2]
    /\ absent' = [absent EXCEPT ![s] = FALSE]

\* The next statement; what the last one looked for is forgotten.
Advance(s) ==
    /\ next' = [next EXCEPT ![s] = @ + 1]
    /\ absent' = [absent EXCEPT ![s] = FALSE]

\* log.Fatalf: the process ends.
Fatal(s) ==
    /\ phase' = [phase EXCEPT ![s] = "down"]
    /\ next' = [next EXCEPT ![s] = 1]
    /\ absent' = [absent EXCEPT ![s] = FALSE]

\* The supervisor starts the process, and main calls db.Init.
Start(s) ==
    /\ phase[s] = "down"
    /\ phase' = [phase EXCEPT ![s] = "setup"]
    /\ UNCHANGED << schema, config, next, absent, faults >>

\* CREATE TABLE IF NOT EXISTS is one statement: it creates a table that is
\* missing, with all its columns, and leaves a table that is there as it is.
CreateTable(s) ==
    /\ InSetup(s)
    /\ LET t == Statement(s) IN
       /\ t \in TableNames
       /\ Requires(t) \subseteq schema
       /\ schema' = IF t \in schema THEN schema
                    ELSE schema \cup {t} \cup BornWith(t)
    /\ Advance(s)
    /\ UNCHANGED << config, phase, faults >>

\* Columns and indexes are created without looking for them.
LookFor_wrong(s) ==
    /\ InSetup(s)
    /\ Statement(s) \notin TableNames
    /\ ~absent[s]
    /\ absent' = [absent EXCEPT ![s] = TRUE]
    /\ UNCHANGED << schema, config, phase, next, faults >>

\* SELECT COUNT(*) FROM information_schema: what is there is passed over.
LookFor(s) ==
    /\ InSetup(s)
    /\ Statement(s) \notin TableNames
    /\ ~absent[s]
    /\ IF Statement(s) \in schema
       THEN Advance(s)
       ELSE absent' = [absent EXCEPT ![s] = TRUE] /\ UNCHANGED next
    /\ UNCHANGED << schema, config, phase, faults >>

\* ALTER TABLE ... ADD COLUMN or CREATE INDEX, after the object was not found.
AddMissing(s) ==
    /\ InSetup(s)
    /\ absent[s]
    /\ Statement(s) \notin schema
    /\ Requires(Statement(s)) \subseteq schema
    /\ schema' = schema \cup {Statement(s)}
    /\ Advance(s)
    /\ UNCHANGED << config, phase, faults >>

\* The database refuses the statement: another server has created the object
\* since this one looked, or what the statement builds on is not there.
Refused(s) ==
    /\ InSetup(s)
    /\ \/ absent[s] /\ Statement(s) \in schema
       \/ /\ Statement(s) \in TableNames \/ absent[s]
          /\ ~(Requires(Statement(s)) \subseteq schema)
    /\ Fatal(s)
    /\ UNCHANGED << schema, config, faults >>

\* setupDb returns, and main goes on to serve.
Serve(s) ==
    /\ phase[s] = "setup"
    /\ next[s] > Len(queries(config[s]))
    /\ phase' = [phase EXCEPT ![s] = "serving"]
    /\ UNCHANGED << schema, config, next, absent, faults >>

\* A statement fails for a reason of its own, or the process is killed, in
\* the middle of the setup or later.
Fail(s) ==
    /\ phase[s] # "down"
    /\ faults < MaxFaults
    /\ faults' = faults + 1
    /\ Fatal(s)
    /\ UNCHANGED << schema, config >>

SetupStep(s) ==
    \/ CreateTable(s) \/ LookFor(s) \/ AddMissing(s) \/ Refused(s) \/ Serve(s)

Next == \E s \in Servers : Start(s) \/ SetupStep(s) \/ Fail(s)

(* Every statement ends (the driver's timeouts, db/db.go:62-66), and the   *)
(* supervisor starts a process that ended again (restart: unless-stopped   *)
(* in the docker-compose files).                                           *)
Fairness == \A s \in Servers : WF_vars(Start(s)) /\ WF_vars(SetupStep(s))

SchemaSpec == Init /\ [][Next]_vars
FairSchemaSpec == SchemaSpec /\ Fairness

(***************************************************************************)
(* Properties                                                              *)
(***************************************************************************)

\* Every variable has its type: the position of a server stays within its
\* statements and the one after, and only faults count towards their bound.
SetupTypeOK ==
    /\ schema \in SUBSET Objects
    /\ config \in [Servers -> Configs]
    /\ phase \in [Servers -> {"down", "setup", "serving"}]
    /\ next \in [Servers -> Nat]
    /\ \A s \in Servers : next[s] \in 1 .. Len(queries(config[s])) + 1
    /\ absent \in [Servers -> BOOLEAN]
    /\ faults \in 0 .. MaxFaults

\* What the statements of the handlers work on: all of the tables but the one
\* of the system saves, which savedata/system.go uses when there is no bucket,
\* and the columns added to accounts after it was first created.
Needed(c) ==
    Elements(BaseTables) \cup Elements(columns)
        \cup IF c.bucket THEN {} ELSE {"systemSaveData"}

\* A server that answers requests finds every table, column and index it
\* needs, whatever schema the first start found, however many starts were cut
\* short at whatever statement, and whoever else was setting up meanwhile.
SchemaCompleteWhenServing ==
    \A s \in Servers :
        phase[s] = "serving" =>
            Needed(config[s]) \cup Elements(indexes) \subseteq schema

\* Every server ends up serving for good once the faults are over: a schema
\* left half done never makes the setup fail for ever ("safe to run on every
\* startup", db/db_setup.go:51), and a server that lost a race against
\* another one gets through on a later start.
EventuallyServes == \A s \in Servers : <>[](phase[s] = "serving")
=============================================================================
