--------------------------- MODULE CollectionProofs ---------------------------
(***************************************************************************)
(* Proofs about Collection, for any number of requests, accounts,          *)
(* individuals and any batches: the statements of the handler implement    *)
(* the promise of BankedCollection.                                        *)
(***************************************************************************)
EXTENDS Collection, SequenceTheorems, TLAPS

\* The i-th entry of a batch is the last one for an id among the first n.
LastAmong(entries, i, n, uid) ==
    /\ entries[i].uid = uid
    /\ \A j \in i + 1 .. n : entries[j].uid # uid

\* The rows of an open transaction are those of the entries it has sent, the
\* later of two entries for one id.
ReplacedAsSent(r) ==
    \A k \in Rows :
        /\ replaced[r][k] # None =>
              /\ k[1] = body[r].account
              /\ \E i \in 1 .. done[r] :
                    LastAmong(body[r].entries, i, done[r], k[2])
        /\ k[1] = body[r].account =>
              \A i \in 1 .. done[r] :
                  LastAmong(body[r].entries, i, done[r], k[2]) =>
                      replaced[r][k] = body[r].entries[i].data

\* A request under way has a body, all of whose entries have an id once it was
\* validated; only an open transaction holds rows.
Orderly(r) ==
    /\ upsert[r] \in {"received", "begin", "open", "committed"} =>
          body[r] \in Bodies
    /\ upsert[r] \in {"begin", "open"} =>
          \A i \in DOMAIN body[r].entries : body[r].entries[i].uid # NoUid
    /\ upsert[r] \in {"idle", "ok", "failed"} => body[r] = NoBody
    /\ upsert[r] = "open" => done[r] <= Len(body[r].entries) /\ ReplacedAsSent(r)
    /\ upsert[r] \notin {"open", "committed"} => done[r] = 0
    /\ upsert[r] # "open" => replaced[r] = NoRows

CollInv == CollTypeOK /\ \A r \in Requests : Orderly(r)

-----------------------------------------------------------------------------
\* A body is an account and a sequence of entries with data.
LEMMA BodyTyped ==
  ASSUME NEW b \in Bodies
  PROVE  /\ b.account \in Accounts
         /\ b.entries \in Seq([uid : Uids \cup {NoUid}, data : Data])
         /\ Len(b.entries) \in Nat
         /\ DOMAIN b.entries = 1 .. Len(b.entries)
         /\ \A i \in DOMAIN b.entries :
               /\ b.entries[i].uid \in Uids \cup {NoUid}
               /\ b.entries[i].data \in Data
               /\ b.entries[i].data # None
<1>1. /\ b.account \in Accounts
      /\ b.entries \in Seq([uid : Uids \cup {NoUid}, data : Data])
  BY CollectionAssumption DEF Bodies
<1>2. /\ Len(b.entries) \in Nat /\ DOMAIN b.entries = 1 .. Len(b.entries)
      /\ \A i \in DOMAIN b.entries :
            b.entries[i] \in [uid : Uids \cup {NoUid}, data : Data]
  BY <1>1, LenProperties, ElementOfSeq
<1>3. ASSUME NEW i \in DOMAIN b.entries
      PROVE  /\ b.entries[i].uid \in Uids \cup {NoUid}
             /\ b.entries[i].data \in Data /\ b.entries[i].data # None
  <2>1. b.entries[i] \in [uid : Uids \cup {NoUid}, data : Data]
    BY <1>2
  <2>2. QED
    BY <2>1, CollectionAssumption
<1>4. QED
  BY <1>1, <1>2, <1>3

\* Every batch starts with nothing banked.
LEMMA CollInitInv == CollInit => CollInv
  BY DEF CollInit, CollInv, CollTypeOK, Orderly, Rows, NoRows, NoBody

\* A step of one request leaves the others as they were.
LEMMA OthersKept ==
  ASSUME CollInv, NEW r \in Requests, NEW q \in Requests, q # r,
         upsert'[q] = upsert[q], body'[q] = body[q], done'[q] = done[q],
         replaced'[q] = replaced[q]
  PROVE  Orderly(q)'
  BY DEF CollInv, Orderly, ReplacedAsSent, LastAmong

\* Sending one more entry keeps the rows those of the entries sent.
LEMMA ReplaceKeeps ==
  ASSUME CollInv, CollTypeOK', NEW r \in Requests, Replace(r)
  PROVE  ReplacedAsSent(r)'
<1> DEFINE es == body[r].entries
           n == done[r]
           row == NextRow(r)
<1>1. /\ upsert[r] = "open" /\ n \in Nat /\ n < Len(es) /\ body[r] \in Bodies
      /\ ReplacedAsSent(r)
      /\ \A i \in DOMAIN es : es[i].uid # NoUid
  BY DEF Replace, HasNext, CollInv, CollTypeOK, Orderly
<1>2. n + 1 \in DOMAIN es /\ es[n + 1].uid \in Uids /\ es[n + 1].data \in Data
      /\ es[n + 1].data # None /\ body[r].account \in Accounts
  BY <1>1, BodyTyped
<1>3. row = << body[r].account, es[n + 1].uid >> /\ row \in Rows
  BY <1>2 DEF NextRow, NextEntry, Rows
<1>4. /\ done'[r] = n + 1 /\ body' = body
      /\ \A k \in Rows : replaced'[r][k] =
            IF k = row THEN es[n + 1].data ELSE replaced[r][k]
  BY <1>3 DEF Replace, NextEntry, CollInv, CollTypeOK
<1> SUFFICES ASSUME NEW k \in Rows
             PROVE  /\ replaced'[r][k] # None =>
                         /\ k[1] = body[r].account
                         /\ \E i \in 1 .. n + 1 : LastAmong(es, i, n + 1, k[2])
                    /\ k[1] = body[r].account =>
                         \A i \in 1 .. n + 1 :
                             LastAmong(es, i, n + 1, k[2]) =>
                                 replaced'[r][k] = es[i].data
  BY <1>4 DEF ReplacedAsSent, LastAmong
<1>5. CASE k = row
  <2>1. k[1] = body[r].account /\ k[2] = es[n + 1].uid
        /\ replaced'[r][k] = es[n + 1].data
    BY <1>3, <1>4, <1>5
  <2>2. LastAmong(es, n + 1, n + 1, k[2])
    BY <1>1, <2>1 DEF LastAmong
  <2>3. ASSUME NEW i \in 1 .. n + 1, LastAmong(es, i, n + 1, k[2])
        PROVE  i = n + 1
    <3>1. CASE i <= n
      <4>1. n + 1 \in i + 1 .. n + 1
        BY <1>1, <2>3, <3>1
      <4>2. QED
        BY <4>1, <2>1, <2>3 DEF LastAmong
    <3>2. QED
      BY <3>1, <1>1, <2>3
  <2>4. QED
    BY <1>1, <2>1, <2>2, <2>3
<1>6. CASE k # row
  <2>1. replaced'[r][k] = replaced[r][k]
    BY <1>4, <1>6
  <2>2. k[1] = body[r].account => k[2] # es[n + 1].uid
    BY <1>3, <1>6 DEF Rows
  <2>3. ASSUME k[1] = body[r].account, NEW i \in 1 .. n + 1
        PROVE  LastAmong(es, i, n + 1, k[2]) <=>
                  (i \in 1 .. n /\ LastAmong(es, i, n, k[2]))
    <3>1. CASE i = n + 1
      BY <1>1, <2>2, <2>3, <3>1 DEF LastAmong
    <3>2. CASE i \in 1 .. n
      <4>1. i + 1 .. n + 1 = (i + 1 .. n) \cup {n + 1}
        BY <1>1, <3>2
      <4>2. QED
        BY <4>1, <3>2, <2>2, <2>3 DEF LastAmong
    <3>3. QED
      BY <1>1, <2>3, <3>1, <3>2
  <2>4. QED
    BY <1>1, <2>1, <2>3 DEF ReplacedAsSent
<1>7. QED
  BY <1>5, <1>6

\* Every step keeps the types.
LEMMA CollTypeNext == CollInv /\ [CollNext]_collVars => CollTypeOK'
<1> SUFFICES ASSUME CollInv, [CollNext]_collVars PROVE CollTypeOK'
  OBVIOUS
<1> USE DEF CollInv, CollTypeOK
<1>1. NoRows \in [Rows -> Data \cup {None}]
  BY DEF NoRows
<1>2. ASSUME NEW r \in Requests, NEW how \in {"ok", "failed"}, Finish(r, how),
             UNCHANGED bankedPokemon
      PROVE  CollTypeOK'
  BY <1>1, <1>2 DEF Finish
<1>3. ASSUME NEW r \in Requests, Receive(r) PROVE CollTypeOK'
  BY <1>3 DEF Receive
<1>4. ASSUME NEW r \in Requests, Validate(r) PROVE CollTypeOK'
  <2>1. CASE \E i \in DOMAIN body[r].entries : body[r].entries[i].uid = NoUid
    BY <1>2, <1>4, <2>1 DEF Validate
  <2>2. CASE ~\E i \in DOMAIN body[r].entries : body[r].entries[i].uid = NoUid
    BY <1>4, <2>2 DEF Validate
  <2>3. QED
    BY <2>1, <2>2
<1>5. ASSUME NEW r \in Requests, Begin(r) PROVE CollTypeOK'
  BY <1>5 DEF Begin
<1>6. ASSUME NEW r \in Requests, Replace(r) PROVE CollTypeOK'
  <2>1. body[r] \in Bodies /\ done[r] + 1 \in DOMAIN body[r].entries
        /\ body[r].entries[done[r] + 1].uid # NoUid
    BY <1>6, BodyTyped DEF Replace, HasNext, Orderly
  <2>2. NextEntry(r).data \in Data /\ NextRow(r) \in Rows
    BY <2>1, BodyTyped DEF NextEntry, NextRow, Rows
  <2>3. QED
    BY <1>6, <2>2 DEF Replace
<1>7. ASSUME NEW r \in Requests, Commit(r) PROVE CollTypeOK'
  <2>1. \A k \in Rows : (IF replaced[r][k] # None THEN replaced[r][k]
                          ELSE bankedPokemon[k]) \in Data \cup {None}
    OBVIOUS
  <2>2. QED
    BY <1>1, <1>7, <2>1 DEF Commit
<1>8. ASSUME NEW r \in Requests,
             StatementFails(r) \/ LockWaitEnds(r) \/ ReplyOK(r)
      PROVE  CollTypeOK'
  BY <1>2, <1>8 DEF StatementFails, LockWaitEnds, ReplyOK
<1>9. ASSUME NEW r \in Requests, Leave(r) PROVE CollTypeOK'
  BY <1>9 DEF Leave
<1>10. CASE CollStops
  BY <1>1, <1>10 DEF CollStops
<1>11. CASE UNCHANGED collVars
  BY <1>11 DEF collVars
<1>12. QED
  BY <1>3, <1>4, <1>5, <1>6, <1>7, <1>8, <1>9, <1>10, <1>11
  DEF CollNext, CollStep, UpsertStep

\* Requests stay orderly: the one that takes a step, and the others.
LEMMA CollNextInv == CollInv /\ [CollNext]_collVars => CollInv'
<1> SUFFICES ASSUME CollInv, [CollNext]_collVars PROVE CollInv'
  OBVIOUS
<1>1. CollTypeOK'
  BY CollTypeNext
<1>2. ASSUME NEW r \in Requests, Orderly(r)',
             \A q \in Requests \ {r} :
                 /\ upsert'[q] = upsert[q] /\ body'[q] = body[q]
                 /\ done'[q] = done[q] /\ replaced'[q] = replaced[q]
      PROVE  CollInv'
  BY <1>1, <1>2, OthersKept DEF CollInv
<1> USE DEF CollInv, CollTypeOK
<1>3. ASSUME NEW r \in Requests, NEW how \in {"ok", "failed"}, Finish(r, how)
      PROVE  CollInv'
  <2>1. Orderly(r)'
    BY <1>3 DEF Finish, Orderly
  <2>2. QED
    BY <1>2, <1>3, <2>1 DEF Finish
<1>4. ASSUME NEW r \in Requests, Receive(r) PROVE CollInv'
  <2>1. Orderly(r)'
    BY <1>4 DEF Receive, Orderly
  <2>2. QED
    BY <1>2, <1>4, <2>1 DEF Receive
<1>5. ASSUME NEW r \in Requests, Validate(r) PROVE CollInv'
  <2>1. CASE \E i \in DOMAIN body[r].entries : body[r].entries[i].uid = NoUid
    BY <1>3, <1>5, <2>1 DEF Validate
  <2>2. CASE ~\E i \in DOMAIN body[r].entries : body[r].entries[i].uid = NoUid
    <3>1. Orderly(r)'
      BY <1>5, <2>2 DEF Validate, Orderly
    <3>2. QED
      BY <1>2, <1>5, <2>2, <3>1 DEF Validate
  <2>3. QED
    BY <2>1, <2>2
<1>6. ASSUME NEW r \in Requests, Begin(r) PROVE CollInv'
  <2>1. Orderly(r)'
    <3>1. done'[r] = 0 /\ replaced'[r] = NoRows /\ body'[r] = body[r]
          /\ body[r] \in Bodies /\ upsert'[r] = "open"
          /\ \A i \in DOMAIN body[r].entries : body[r].entries[i].uid # NoUid
      BY <1>6 DEF Begin, Orderly
    <3>2. ReplacedAsSent(r)'
      BY <3>1 DEF ReplacedAsSent, NoRows
    <3>3. 0 <= Len(body[r].entries)
      BY <3>1, BodyTyped
    <3>4. QED
      BY <3>1, <3>2, <3>3 DEF Orderly
  <2>2. QED
    BY <1>2, <1>6, <2>1 DEF Begin
<1>7. ASSUME NEW r \in Requests, Replace(r) PROVE CollInv'
  <2>1. ReplacedAsSent(r)'
    BY <1>1, <1>7, ReplaceKeeps
  <2>2. body[r] \in Bodies /\ Len(body[r].entries) \in Nat
    BY <1>7, BodyTyped DEF Replace, HasNext, Orderly
  <2>3. Orderly(r)'
    BY <1>7, <2>1, <2>2 DEF Replace, HasNext, Orderly
  <2>4. QED
    BY <1>2, <1>7, <2>3 DEF Replace
<1>8. ASSUME NEW r \in Requests, Commit(r) PROVE CollInv'
  <2>1. Orderly(r)'
    BY <1>8 DEF Commit, Orderly
  <2>2. QED
    BY <1>2, <1>8, <2>1 DEF Commit
<1>9. ASSUME NEW r \in Requests,
             StatementFails(r) \/ LockWaitEnds(r) \/ ReplyOK(r)
      PROVE  CollInv'
  BY <1>3, <1>9 DEF StatementFails, LockWaitEnds, ReplyOK
<1>10. ASSUME NEW r \in Requests, Leave(r) PROVE CollInv'
  <2>1. Orderly(r)'
    BY <1>10 DEF Leave, Orderly
  <2>2. QED
    BY <1>2, <1>10, <2>1 DEF Leave
<1>11. CASE CollStops
  BY <1>1, <1>11 DEF CollStops, Orderly
<1>12. CASE UNCHANGED collVars
  BY <1>12 DEF collVars, Orderly, ReplacedAsSent, LastAmong
<1>13. QED
  BY <1>4, <1>5, <1>6, <1>7, <1>8, <1>9, <1>10, <1>11, <1>12
  DEF CollNext, CollStep, UpsertStep

-----------------------------------------------------------------------------
\* The invariant holds in every state.
THEOREM CollInvariant == CollSpec => []CollInv
<1>1. QED
  BY CollInitInv, CollNextInv, PTL DEF CollSpec

\* The variables keep their types.
THEOREM CollTypeCorrect == CollSpec => []CollTypeOK
<1>1. CollInv => CollTypeOK
  BY DEF CollInv
<1>2. QED
  BY <1>1, CollInvariant, PTL

\* The rows a commit puts into the table are the batch, put into the bank.
LEMMA CommitIsApply ==
  ASSUME CollInv, NEW r \in Requests, Commit(r)
  PROVE  bankedPokemon' = Bank!With(bankedPokemon, body[r])
<1> DEFINE es == body[r].entries
           last(uid) == {i \in DOMAIN es : Bank!IsLast(es, i, Len(es), uid)}
<1>1. /\ body[r] \in Bodies /\ done[r] = Len(es) /\ ReplacedAsSent(r)
  BY DEF Commit, CollInv, Orderly
<1>2. DOMAIN es = 1 .. Len(es) /\ \A i \in DOMAIN es : es[i].data # None
  BY <1>1, BodyTyped
<1>3. \A i, n, uid : Bank!IsLast(es, i, n, uid) <=> LastAmong(es, i, n, uid)
  BY DEF Bank!IsLast, LastAmong
<1>4. ASSUME NEW k \in Rows
      PROVE  (IF replaced[r][k] # None THEN replaced[r][k] ELSE bankedPokemon[k])
             = (IF k[1] = body[r].account /\ last(k[2]) # {}
                THEN es[CHOOSE i \in last(k[2]) : TRUE].data
                ELSE bankedPokemon[k])
  <2>1. CASE k[1] = body[r].account /\ last(k[2]) # {}
    <3>1. PICK i \in last(k[2]) : i = CHOOSE j \in last(k[2]) : TRUE
      BY <2>1
    <3>2. i \in 1 .. done[r] /\ LastAmong(es, i, done[r], k[2])
      BY <1>1, <1>2, <1>3, <3>1
    <3>3. replaced[r][k] = es[i].data /\ es[i].data # None
      BY <1>1, <1>2, <2>1, <3>2 DEF ReplacedAsSent
    <3>4. QED
      BY <2>1, <3>1, <3>3
  <2>2. CASE ~(k[1] = body[r].account /\ last(k[2]) # {})
    <3>1. replaced[r][k] = None
      BY <1>1, <1>2, <1>3, <2>2 DEF ReplacedAsSent
    <3>2. QED
      BY <2>2, <3>1
  <2>3. QED
    BY <2>1, <2>2
<1>5. Bank!With(bankedPokemon, body[r]) =
        [k \in Rows |-> IF k[1] = body[r].account /\ last(k[2]) # {}
                        THEN es[CHOOSE i \in last(k[2]) : TRUE].data
                        ELSE bankedPokemon[k]]
  BY DEF Bank!With, Bank!Individuals, Rows
<1>6. QED
  BY <1>4, <1>5 DEF Commit

\* The handler's transaction implements the promise: commit is the moment at
\* which a batch is banked, and no other step changes the bank.
THEOREM CollectionRefinesBank == CollSpec => CollectionIsAtomic
<1>1. CollInit => Bank!BankInit
  BY DEF CollInit, Bank!BankInit, Status, Bank!Individuals, Rows, NoBody,
         Bank!NoWish
<1>2. CollInv /\ [CollNext]_collVars => [Bank!BankNext]_(Bank!bankVars)
  <2> SUFFICES ASSUME CollInv, [CollNext]_collVars
               PROVE  Bank!BankNext \/ UNCHANGED Bank!bankVars
    OBVIOUS
  <2> USE DEF CollInv, CollTypeOK
  <2>1. ASSUME NEW r \in Requests, Finish(r, "failed"), UNCHANGED bankedPokemon,
               upsert[r] \in {"received", "begin", "open", "committed"}
        PROVE  Bank!BankNext
    <3>1. Status' = [Status EXCEPT ![r] = "failed"]
          /\ Status[r] \in {"asked", "banked"}
      BY <2>1 DEF Finish, Status
    <3>2. Bank!Answer(r)
      BY <2>1, <3>1 DEF Finish, Bank!Answer, NoBody, Bank!NoWish
    <3>3. QED
      BY <3>2 DEF Bank!BankNext
  <2>2. ASSUME NEW r \in Requests, Receive(r) PROVE Bank!BankNext
    <3>1. Status' = [Status EXCEPT ![r] = "asked"] /\ Status[r] = "idle"
      BY <2>2 DEF Receive, Status
    <3>2. Bank!Ask(r)
      BY <2>2, <3>1 DEF Receive, Bank!Ask, Bodies, Bank!Wishes
    <3>3. QED
      BY <3>2 DEF Bank!BankNext
  <2>3. ASSUME NEW r \in Requests, Validate(r)
        PROVE  Bank!BankNext \/ UNCHANGED Bank!bankVars
    <3>1. CASE \E i \in DOMAIN body[r].entries : body[r].entries[i].uid = NoUid
      BY <2>1, <2>3, <3>1 DEF Validate
    <3>2. CASE /\ ~\E i \in DOMAIN body[r].entries :
                        body[r].entries[i].uid = NoUid
               /\ body[r].entries = << >>
      <4>1. Status' = [Status EXCEPT ![r] = "banked"] /\ Status[r] = "asked"
        BY <2>3, <3>2 DEF Validate, Status
      <4>2. DOMAIN body[r].entries = {}
        BY <3>2
      <4>3. Bank!With(bankedPokemon, body[r]) = [k \in Rows |-> bankedPokemon[k]]
        BY <4>2 DEF Bank!With, Bank!Individuals, Rows
      <4>4. Bank!Apply(r)
        BY <2>3, <3>2, <4>1, <4>2, <4>3 DEF Validate, Bank!Apply
      <4>5. QED
        BY <4>4 DEF Bank!BankNext
    <3>3. CASE /\ ~\E i \in DOMAIN body[r].entries :
                        body[r].entries[i].uid = NoUid
               /\ body[r].entries # << >>
      <4>1. Status' = Status
        BY <2>3, <3>3 DEF Validate, Status
      <4>2. QED
        BY <2>3, <3>3, <4>1 DEF Validate, Bank!bankVars
    <3>4. QED
      BY <3>1, <3>2, <3>3
  <2>4. ASSUME NEW r \in Requests, Begin(r) \/ Replace(r)
        PROVE  UNCHANGED Bank!bankVars
    <3>1. Status' = Status
      BY <2>4 DEF Begin, Replace, Status
    <3>2. QED
      BY <2>4, <3>1 DEF Begin, Replace, Bank!bankVars
  <2>5. ASSUME NEW r \in Requests, Commit(r) PROVE Bank!BankNext
    <3>1. Status' = [Status EXCEPT ![r] = "banked"] /\ Status[r] = "asked"
      BY <2>5 DEF Commit, Status
    <3>2. bankedPokemon' = Bank!With(bankedPokemon, body[r])
      BY <2>5, CommitIsApply
    <3>3. Bank!Apply(r)
      <4>1. \A i \in DOMAIN body[r].entries : body[r].entries[i].uid # NoUid
        BY <2>5 DEF Commit, Orderly
      <4>2. body' = body
        BY <2>5 DEF Commit
      <4>3. QED
        BY <3>1, <3>2, <4>1, <4>2 DEF Bank!Apply
    <3>4. QED
      BY <3>3 DEF Bank!BankNext
  <2>6. ASSUME NEW r \in Requests,
               StatementFails(r) \/ LockWaitEnds(r) \/ ReplyOK(r)
        PROVE  Bank!BankNext
    <3>1. CASE StatementFails(r)
      BY <2>1, <3>1 DEF StatementFails
    <3>2. CASE LockWaitEnds(r)
      BY <2>1, <3>2 DEF LockWaitEnds, HasNext
    <3>3. CASE ReplyOK(r)
      <4>1. Status' = [Status EXCEPT ![r] = "ok"] /\ Status[r] = "banked"
        BY <3>3 DEF ReplyOK, Finish, Status
      <4>2. Bank!Answer(r)
        BY <3>3, <4>1 DEF ReplyOK, Finish, Bank!Answer, NoBody, Bank!NoWish
      <4>3. QED
        BY <4>2 DEF Bank!BankNext
    <3>4. QED
      BY <2>6, <3>1, <3>2, <3>3
  <2>7. ASSUME NEW r \in Requests, Leave(r) PROVE Bank!BankNext
    <3>1. Status' = [Status EXCEPT ![r] = "idle"] /\ Status[r] \in {"ok", "failed"}
      BY <2>7 DEF Leave, Status
    <3>2. Bank!Forget(r)
      BY <2>7, <3>1 DEF Leave, Bank!Forget
    <3>3. QED
      BY <3>2 DEF Bank!BankNext
  <2>8. CASE CollStops
    <3>1. Status' = [q \in Requests |-> "idle"]
      BY <2>8 DEF CollStops, Status
    <3>2. Bank!StopAll
      BY <2>8, <3>1 DEF CollStops, Bank!StopAll, NoBody, Bank!NoWish
    <3>3. QED
      BY <3>2 DEF Bank!BankNext
  <2>9. CASE UNCHANGED collVars
    BY <2>9 DEF collVars, Bank!bankVars, Status
  <2>10. QED
    BY <2>2, <2>3, <2>4, <2>5, <2>6, <2>7, <2>8, <2>9
    DEF CollNext, CollStep, UpsertStep
<1>3. QED
  BY <1>1, <1>2, CollInvariant, PTL DEF CollSpec, CollectionIsAtomic, Bank!BankSpec

-----------------------------------------------------------------------------
\* A row is replaced in one open transaction at a time.
HeldOnce ==
    \A q, r \in Requests, k \in Rows :
        replaced[q][k] # None /\ replaced[r][k] # None => q = r

\* A row that a transaction has replaced and not given up is not changed in the
\* table under it: of two batches with an id in common the later commit is also
\* the later to have replaced the row.
HeldRowsStand ==
    [][\A r \in Requests, k \in Rows :
           replaced[r][k] # None /\ replaced'[r][k] # None
               => bankedPokemon'[k] = bankedPokemon[k]]_collVars

\* A transaction takes a row that no other one holds, one at a time; all others
\* can do is to give theirs up.
LEMMA HeldByStep ==
  ASSUME CollInv, [CollNext]_collVars
  PROVE  \/ \E r \in Requests : Replace(r)
         \/ \A q \in Requests, k \in Rows :
               replaced'[q][k] # None => replaced[q][k] # None
<1> USE DEF CollInv, CollTypeOK
<1>1. \A k \in Rows : NoRows[k] = None
  BY DEF NoRows
<1>2. ASSUME NEW r \in Requests,
             \/ Validate(r) \/ Commit(r) \/ LockWaitEnds(r) \/ ReplyOK(r)
             \/ StatementFails(r) \/ Receive(r) \/ Begin(r) \/ Leave(r)
      PROVE  replaced' = replaced \/ replaced' = [replaced EXCEPT ![r] = NoRows]
  BY <1>2 DEF Validate, Commit, LockWaitEnds, ReplyOK, StatementFails, Receive,
              Begin, Leave, Finish
<1>3. CASE CollStops
  BY <1>1, <1>3 DEF CollStops
<1>4. CASE UNCHANGED collVars
  BY <1>4 DEF collVars
<1>5. CASE CollStep
  <2>1. PICK r \in Requests :
           \/ Replace(r)
           \/ Validate(r) \/ Commit(r) \/ LockWaitEnds(r) \/ ReplyOK(r)
           \/ StatementFails(r) \/ Receive(r) \/ Begin(r) \/ Leave(r)
    BY <1>5 DEF CollStep, UpsertStep
  <2>2. CASE replaced' = replaced \/ replaced' = [replaced EXCEPT ![r] = NoRows]
    BY <1>1, <2>2
  <2>3. QED
    BY <1>2, <2>1, <2>2
<1>6. QED
  BY <1>3, <1>4, <1>5 DEF CollNext

\* No two transactions ever hold the same row.
LEMMA HeldOnceInvariant == CollSpec => []HeldOnce
<1>1. CollInit => HeldOnce
  BY DEF CollInit, HeldOnce, NoRows
<1>2. CollInv /\ HeldOnce /\ [CollNext]_collVars => HeldOnce'
  <2> SUFFICES ASSUME CollInv, HeldOnce, [CollNext]_collVars,
                      NEW p \in Requests, NEW q \in Requests, NEW k \in Rows,
                      replaced'[p][k] # None, replaced'[q][k] # None
               PROVE  p = q
    BY DEF HeldOnce, Rows
  <2>1. ASSUME NEW r \in Requests, Replace(r) PROVE p = q
    <3>1. \A x \in Requests : replaced'[x][k] # None =>
             \/ replaced[x][k] # None
             \/ x = r /\ k = NextRow(r)
      BY <2>1 DEF Replace, CollInv, CollTypeOK
    <3>2. \A x \in Requests \ {r} : replaced[x][NextRow(r)] = None
      BY <2>1 DEF Replace, Blocked
    <3>3. \A x \in Requests \ {r} : replaced'[x] = replaced[x]
      BY <2>1 DEF Replace, CollInv, CollTypeOK
    <3>4. QED
      BY <3>1, <3>2, <3>3 DEF HeldOnce
  <2>2. CASE \A x \in Requests, i \in Rows :
                replaced'[x][i] # None => replaced[x][i] # None
    BY <2>2 DEF HeldOnce
  <2>3. QED
    BY <2>1, <2>2, HeldByStep
<1>3. QED
  BY <1>1, <1>2, CollInvariant, PTL DEF CollSpec

\* Only a commit writes the table, and it writes the rows that its own
\* transaction holds and then gives up.
THEOREM HeldRowsStandHolds == CollSpec => HeldRowsStand
<1>1. CollInv /\ HeldOnce /\ [CollNext]_collVars =>
        [\A r \in Requests, k \in Rows :
             replaced[r][k] # None /\ replaced'[r][k] # None
                 => bankedPokemon'[k] = bankedPokemon[k]]_collVars
  <2> SUFFICES ASSUME CollInv, HeldOnce, [CollNext]_collVars,
                      NEW r \in Requests, NEW k \in Rows,
                      replaced[r][k] # None, replaced'[r][k] # None
               PROVE  bankedPokemon'[k] = bankedPokemon[k]
    OBVIOUS
  <2>1. ASSUME NEW q \in Requests, Commit(q)
        PROVE  bankedPokemon'[k] = bankedPokemon[k]
    <3>1. q # r
      BY <2>1 DEF Commit, NoRows, CollInv, CollTypeOK
    <3>2. replaced[q][k] = None
      BY <3>1 DEF HeldOnce
    <3>3. QED
      BY <2>1, <3>2 DEF Commit
  <2>2. CASE UNCHANGED bankedPokemon
    BY <2>2
  <2>3. UNCHANGED bankedPokemon \/ \E q \in Requests : Commit(q)
    BY DEF CollNext, CollStep, CollStops, UpsertStep, collVars, Validate,
           LockWaitEnds, ReplyOK, StatementFails, Receive, Begin, Leave, Replace
  <2>4. QED
    BY <2>1, <2>2, <2>3
<1>2. QED
  BY <1>1, CollInvariant, HeldOnceInvariant, PTL DEF CollSpec, HeldRowsStand
=============================================================================
