------------------------------ MODULE Collection ------------------------------
(***************************************************************************)
(* The PvP collection: POST /pvp/collection (handleCollectionUpsert in     *)
(* api/endpoints.go, api/pvp/collection.go, db/collection.go) as one       *)
(* request after another sends the statements of its transaction.          *)
(*                                                                         *)
(* The rows a transaction has replaced stay locked until it ends, and      *)
(* another one that wants them waits.  Two batches in opposite order wait  *)
(* for each other; the database picks one of them and fails its statement, *)
(* as do the lock wait timeout of the database and the read timeout of the *)
(* driver (db/db.go:62-66).  GET /pvp/collection is one SELECT: it reads   *)
(* the bank of an account as it is, and changes nothing.                   *)
(***************************************************************************)
EXTENDS Naturals, Sequences

CONSTANTS Requests, Accounts, Uids, Data, Batches, NoUid, None

ASSUME CollectionAssumption ==
    /\ Batches \subseteq Seq([uid : Uids \cup {NoUid}, data : Data])
    /\ NoUid \notin Uids
    /\ None \notin Data

VARIABLES
    bankedPokemon, \* the committed table: the data of each (uuid, pokemonUid)
    upsert,        \* where each request is
    body,          \* its account and its entries
    done,          \* the number of entries it has sent
    replaced       \* the rows its transaction has replaced: None if not

collVars == << bankedPokemon, upsert, body, done, replaced >>

\* A request in the terms of its promise: asked until it has committed.
Status ==
    [r \in Requests |->
        CASE upsert[r] \in {"received", "begin", "open"} -> "asked"
          [] upsert[r] = "committed" -> "banked"
          [] OTHER -> upsert[r]]

Bank == INSTANCE BankedCollection
        WITH bank <- bankedPokemon, wish <- body, status <- Status

Rows == Accounts \X Uids
NoRows == [k \in Rows |-> None]
NoBody == [account |-> None, entries |-> << >>]
Bodies == [account : Accounts, entries : Batches]

CollInit ==
    /\ bankedPokemon = [k \in Rows |-> None]
    /\ upsert = [r \in Requests |-> "idle"]
    /\ body = [r \in Requests |-> NoBody]
    /\ done = [r \in Requests |-> 0]
    /\ replaced = [r \in Requests |-> NoRows]

\* The request is over: its transaction, if any, is closed.
Finish(r, how) ==
    /\ upsert' = [upsert EXCEPT ![r] = how]
    /\ body' = [body EXCEPT ![r] = NoBody]
    /\ done' = [done EXCEPT ![r] = 0]
    /\ replaced' = [replaced EXCEPT ![r] = NoRows]

\* A request whose token and body could be read arrives.
Receive(r) ==
    /\ upsert[r] = "idle"
    /\ upsert' = [upsert EXCEPT ![r] = "received"]
    /\ \E b \in Bodies : body' = [body EXCEPT ![r] = b]
    /\ UNCHANGED << bankedPokemon, done, replaced >>

\* UpsertCollection: every entry needs an id, and an empty batch is done.
Validate(r) ==
    LET entries == body[r].entries IN
    /\ upsert[r] = "received"
    /\ IF \E i \in DOMAIN entries : entries[i].uid = NoUid
       THEN Finish(r, "failed")
       ELSE /\ upsert' = [upsert EXCEPT ![r] =
                             IF entries = << >> THEN "committed" ELSE "begin"]
            /\ UNCHANGED << body, done, replaced >>
    /\ UNCHANGED bankedPokemon

\* handle.Begin()
Begin(r) ==
    /\ upsert[r] = "begin"
    /\ upsert' = [upsert EXCEPT ![r] = "open"]
    /\ UNCHANGED << bankedPokemon, body, done, replaced >>

HasNext(r) == upsert[r] = "open" /\ done[r] < Len(body[r].entries)
NextEntry(r) == body[r].entries[done[r] + 1]
NextRow(r) == << body[r].account, NextEntry(r).uid >>
Blocked(r) == \E q \in Requests \ {r} : replaced[q][NextRow(r)] # None

\* Each statement commits by itself.
Replace_wrong(r) ==
    /\ HasNext(r)
    /\ ~Blocked(r)
    /\ bankedPokemon' = [bankedPokemon EXCEPT ![NextRow(r)] = NextEntry(r).data]
    /\ done' = [done EXCEPT ![r] = @ + 1]
    /\ UNCHANGED << upsert, body, replaced >>

\* REPLACE INTO bankedPokemon, once no other transaction holds the row.
Replace(r) ==
    /\ HasNext(r)
    /\ ~Blocked(r)
    /\ replaced' = [replaced EXCEPT ![r][NextRow(r)] = NextEntry(r).data]
    /\ done' = [done EXCEPT ![r] = @ + 1]
    /\ UNCHANGED << bankedPokemon, upsert, body >>

\* tx.Commit(): all rows of the transaction are in the table at once.
Commit(r) ==
    /\ upsert[r] = "open"
    /\ done[r] = Len(body[r].entries)
    /\ bankedPokemon' = [k \in Rows |-> IF replaced[r][k] # None
                                        THEN replaced[r][k]
                                        ELSE bankedPokemon[k]]
    /\ upsert' = [upsert EXCEPT ![r] = "committed"]
    /\ replaced' = [replaced EXCEPT ![r] = NoRows]
    /\ UNCHANGED << body, done >>

\* Begin, a statement or the commit fails, and the deferred Rollback undoes
\* what the transaction has done; or the commit went through and only its
\* answer was lost.  Either way the client is answered an error.
StatementFails(r) ==
    /\ upsert[r] \in {"begin", "open", "committed"}
    /\ Finish(r, "failed")
    /\ UNCHANGED bankedPokemon

\* A statement waits for a row as long as it takes.
LockWaitEnds_wrong(r) == FALSE /\ UNCHANGED collVars

\* A statement that waits for a row fails in the end.
LockWaitEnds(r) ==
    /\ HasNext(r) /\ Blocked(r)
    /\ Finish(r, "failed")
    /\ UNCHANGED bankedPokemon

\* 200 is answered when Commit has returned without an error.
ReplyOK(r) ==
    /\ upsert[r] = "committed"
    /\ Finish(r, "ok")
    /\ UNCHANGED bankedPokemon

\* The answer is read, and the place is free for another request.
Leave(r) ==
    /\ upsert[r] \in {"ok", "failed"}
    /\ upsert' = [upsert EXCEPT ![r] = "idle"]
    /\ UNCHANGED << bankedPokemon, body, done, replaced >>

\* The server stops: the database rolls back what was not committed.
CollStops ==
    /\ upsert' = [r \in Requests |-> "idle"]
    /\ body' = [r \in Requests |-> NoBody]
    /\ done' = [r \in Requests |-> 0]
    /\ replaced' = [r \in Requests |-> NoRows]
    /\ UNCHANGED bankedPokemon

UpsertStep(r) ==
    Validate(r) \/ Begin(r) \/ Replace(r) \/ Commit(r) \/ LockWaitEnds(r)
        \/ ReplyOK(r)

CollStep ==
    \E r \in Requests :
        Receive(r) \/ UpsertStep(r) \/ StatementFails(r) \/ Leave(r)

CollNext == CollStep \/ CollStops

(* A handler goes on until it has answered, and the wait of a statement    *)
(* for a row ends.                                                         *)
CollFairness == \A r \in Requests : WF_collVars(UpsertStep(r))

CollSpec == CollInit /\ [][CollNext]_collVars
FairCollSpec == CollSpec /\ CollFairness

(***************************************************************************)
(* Properties                                                              *)
(***************************************************************************)

\* Every variable has its type.
CollTypeOK ==
    /\ bankedPokemon \in [Rows -> Data \cup {None}]
    /\ upsert \in [Requests -> {"idle", "received", "begin", "open",
                                "committed", "ok", "failed"}]
    /\ body \in [Requests -> Bodies \cup {NoBody}]
    /\ done \in [Requests -> Nat]
    /\ replaced \in [Requests -> [Rows -> Data \cup {None}]]

\* A batch is banked as a whole or not at all, under its own account, whatever
\* statement of it fails and whoever banks at the same time, and it is
\* answered "ok" only when it is banked.
CollectionIsAtomic == Bank!BankSpec

\* Every upsert is answered in the end: two that wait for each other's rows do
\* not wait for ever.
UpsertEnds ==
    \A r \in Requests :
        upsert[r] = "received" ~> upsert[r] \in {"idle", "ok", "failed"}
=============================================================================
