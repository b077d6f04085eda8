--------------------------- MODULE BankedCollection ---------------------------
(***************************************************************************)
(* What the PvP collection promises its clients: a batch of individuals is *)
(* banked as a whole or not at all, at one moment between the request and  *)
(* its answer, and "ok" is answered for a batch that is banked.  A request *)
(* that is answered with an error, or never, may have been banked or not.  *)
(***************************************************************************)
EXTENDS Naturals, Sequences

CONSTANTS
    Requests, \* the upserts that may be under way at once
    Accounts,
    Uids,     \* the ids of the individuals, NoUid not among them
    Data,     \* what is stored of an individual
    Batches,  \* the batches clients send: sequences of [uid, data]
    NoUid,    \* the id of an entry that has none
    None      \* no individual of that id

VARIABLES
    bank,   \* the individuals of every account, by account and id
    status, \* of each request
    wish    \* what each request asks for: an account and a batch

bankVars == << bank, status, wish >>

Individuals == Accounts \X Uids
NoWish == [account |-> None, entries |-> << >>]
Wishes == [account : Accounts, entries : Batches]

\* The i-th entry is the last one for its id among the first n.
IsLast(entries, i, n, uid) ==
    /\ entries[i].uid = uid
    /\ \A j \in i + 1 .. n : entries[j].uid # uid

\* The bank with a batch in it: an individual that was there is replaced.
With(b, w) ==
    LET last(uid) == {i \in DOMAIN w.entries :
                         IsLast(w.entries, i, Len(w.entries), uid)}
    IN [k \in Individuals |->
           IF k[1] = w.account /\ last(k[2]) # {}
           THEN w.entries[CHOOSE i \in last(k[2]) : TRUE].data
           ELSE b[k]]

BankInit ==
    /\ bank = [k \in Individuals |-> None]
    /\ status = [r \in Requests |-> "idle"]
    /\ wish = [r \in Requests |-> NoWish]

Ask(r) ==
    /\ status[r] = "idle"
    /\ status' = [status EXCEPT ![r] = "asked"]
    /\ \E w \in Wishes : wish' = [wish EXCEPT ![r] = w]
    /\ UNCHANGED bank

\* The moment at which the batch takes effect, if it ever does.
Apply(r) ==
    /\ status[r] = "asked"
    /\ \A i \in DOMAIN wish[r].entries : wish[r].entries[i].uid # NoUid
    /\ bank' = With(bank, wish[r])
    /\ status' = [status EXCEPT ![r] = "banked"]
    /\ UNCHANGED wish

\* The answer: "ok" only for a batch that is banked.
Answer(r) ==
    /\ \/ status[r] = "banked" /\ status' = [status EXCEPT ![r] = "ok"]
       \/ /\ status[r] \in {"asked", "banked"}
          /\ status' = [status EXCEPT ![r] = "failed"]
    /\ wish' = [wish EXCEPT ![r] = NoWish]
    /\ UNCHANGED bank

\* The client goes on; the server has nothing left of the request.
Forget(r) ==
    /\ status[r] \in {"ok", "failed"}
    /\ status' = [status EXCEPT ![r] = "idle"]
    /\ UNCHANGED << bank, wish >>

\* The server stops: no request under way gets an answer.
StopAll ==
    /\ status' = [r \in Requests |-> "idle"]
    /\ wish' = [r \in Requests |-> NoWish]
    /\ UNCHANGED bank

BankNext ==
    \/ \E r \in Requests : Ask(r) \/ Apply(r) \/ Answer(r) \/ Forget(r)
    \/ StopAll

BankSpec == BankInit /\ [][BankNext]_bankVars
=============================================================================
