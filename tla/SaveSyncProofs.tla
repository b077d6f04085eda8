--------------------------- MODULE SaveSyncProofs ---------------------------
(***************************************************************************)
(* Proofs about SaveSync for every number of requests, clients, slots and  *)
(* payloads, with or without failures, with saves in the database or S3.   *)
(***************************************************************************)
EXTENDS SaveSync, TLAPS

-----------------------------------------------------------------------------
(* Game versions *)

\* A version that parses: three or four numbers.
LEMMA ParsedParts ==
  ASSUME NEW v \in Version, Parses(v)
  PROVE  /\ Len(v) \in 3 .. 4
         /\ \A i \in 1 .. Len(v) : v[i] \in Nat
  BY DEF Parses, Version

\* Without its trailing zeros a version has the same parts, and the last that
\* is left is not 0.
LEMMA TrimKeepsParts ==
  ASSUME NEW v \in Version, Parses(v)
  PROVE  LET t == trimTrailingZeros(v) IN
         /\ Len(t) \in 0 .. 4
         /\ \A i \in 1 .. Len(t) : t[i] \in Nat
         /\ Len(t) > 0 => t[Len(t)] # 0
         /\ \A i \in 1 .. 4 : Part(t, i) = Part(v, i)
<1> DEFINE Last(n) == /\ n > 0 => v[n] # 0
                      /\ \A i \in n + 1 .. Len(v) : v[i] = 0
           n == CHOOSE n \in 0 .. Len(v) : Last(n)
<1>1. Len(v) \in 3 .. 4 /\ \A i \in 1 .. Len(v) : v[i] \in Nat
  BY ParsedParts
<1>2. \E k \in 0 .. Len(v) : Last(k)
  <2>1. CASE \A i \in 1 .. Len(v) : v[i] = 0
    <3>1. Last(0)
      BY <2>1
    <3>2. QED
      BY <1>1, <3>1
  <2>2. CASE \E i \in 1 .. Len(v) : v[i] # 0
    <3>1. Last(1) \/ Last(2) \/ Last(3) \/ (Len(v) = 4 /\ Last(4))
      BY <1>1, <2>2
    <3>2. QED
      BY <1>1, <3>1
  <2>3. QED
    BY <2>1, <2>2
<1>3. n \in 0 .. Len(v) /\ Last(n)
  BY <1>2
<1>4. trimTrailingZeros(v) = SubSeq(v, 1, n)
  BY DEF trimTrailingZeros
<1> DEFINE t == SubSeq(v, 1, n)
<1> HIDE DEF n
<1>5. v \in Seq(Nat \cup {NoNumber})
  BY DEF Version
<1>6. Len(t) = n /\ \A i \in 1 .. n : t[i] = v[i]
  BY <1>1, <1>3, <1>5
<1> HIDE DEF t
<1>7. \A i \in 1 .. 4 : Part(t, i) = Part(v, i)
  BY <1>1, <1>3, <1>6 DEF Part
<1>8. trimTrailingZeros(v) = t
  BY <1>4 DEF t
<1>9. Len(t) \in 0 .. 4 /\ (Len(t) > 0 => t[Len(t)] # 0)
  BY <1>1, <1>3, <1>6
<1>10. \A i \in 1 .. Len(t) : t[i] \in Nat
  BY <1>1, <1>3, <1>6
<1>11. QED
  BY <1>7, <1>8, <1>9, <1>10, Zenon

\* Of two trimmed versions one precedes the other when it is less in the first
\* of its four parts in which they differ.
LEMMA PrecedesByParts ==
  ASSUME NEW l, NEW r, Len(l) \in 0 .. 4, Len(r) \in 0 .. 4,
         \A i \in 1 .. Len(l) : l[i] \in Nat,
         \A i \in 1 .. Len(r) : r[i] \in Nat,
         Len(r) > 0 => r[Len(r)] # 0
  PROVE  Precedes(l, r) <=>
           \E i \in 1 .. 4 : /\ Part(l, i) < Part(r, i)
                             /\ \A j \in 1 .. i - 1 : Part(l, j) = Part(r, j)
<1> DEFINE First(i) == /\ Part(l, i) < Part(r, i)
                       /\ \A j \in 1 .. i - 1 : Part(l, j) = Part(r, j)
<1>1. ASSUME NEW i \in 1 .. 4, First(i)
      PROVE  Precedes(l, r)
  <2>1. Part(r, i) > 0 /\ i \in 1 .. Len(r)
    BY <1>1 DEF Part
  <2>2. CASE i <= Len(l)
    BY <1>1, <2>1, <2>2 DEF Part, Precedes
  <2>3. CASE i > Len(l)
    <3>1. \A j \in 1 .. Len(l) : l[j] = r[j]
      BY <1>1, <2>1, <2>3 DEF Part
    <3>2. Len(l) + 1 \in 1 .. Len(r)
      BY <2>1, <2>3
    <3>3. QED
      BY <3>1, <3>2 DEF Precedes
  <2>4. QED
    BY <2>2, <2>3
<1>2. ASSUME Precedes(l, r)
      PROVE  \E i \in 1 .. 4 : First(i)
  <2>1. PICK i \in 1 .. Len(r) :
          /\ \A j \in 1 .. i - 1 : j <= Len(l) /\ l[j] = r[j]
          /\ i <= Len(l) => l[i] < r[i]
    BY <1>2 DEF Precedes
  <2>2. \A j \in 1 .. i - 1 : Part(l, j) = Part(r, j)
    BY <2>1 DEF Part
  <2>3. CASE i <= Len(l)
    <3>1. Part(l, i) < Part(r, i) /\ i \in 1 .. 4
      BY <2>1, <2>3 DEF Part
    <3>2. QED
      BY <2>2, <3>1
  <2>4. CASE i > Len(l)
    <3>1. \A j \in i .. 4 : Part(l, j) = 0
      BY <2>4 DEF Part
    <3>2. \A j \in 1 .. 4 : Part(l, j) \in Nat /\ Part(r, j) \in Nat
      BY DEF Part
    <3>3. Len(r) \in i .. 4 /\ Part(r, Len(r)) # 0
      BY DEF Part
    <3>4. PICK k \in i .. 4 : /\ Part(r, k) # 0
                              /\ \A j \in i .. k - 1 : Part(r, j) = 0
      <4>1. CASE Part(r, i) # 0
        BY <4>1, <3>3
      <4>2. CASE Part(r, i) = 0 /\ Part(r, i + 1) # 0
        BY <4>2, <3>3
      <4>3. CASE Part(r, i) = 0 /\ Part(r, i + 1) = 0 /\ Part(r, i + 2) # 0
        <5>1. i + 2 \in i .. 4
          BY <4>3, <3>3
        <5>2. \A j \in i .. (i + 2) - 1 : Part(r, j) = 0
          BY <4>3
        <5>3. QED
          BY <4>3, <5>1, <5>2
      <4>4. CASE Part(r, i) = 0 /\ Part(r, i + 1) = 0 /\ Part(r, i + 2) = 0
        <5>1. Len(r) = i + 3 /\ i = 1
          BY <4>4, <3>3
        <5>2. \A j \in i .. (i + 3) - 1 : Part(r, j) = 0
          BY <4>4
        <5>3. QED
          BY <3>3, <5>1, <5>2
      <4>5. QED
        BY <4>1, <4>2, <4>3, <4>4
    <3>5. First(k)
      BY <2>2, <3>1, <3>2, <3>4
    <3>6. QED
      BY <3>5
  <2>5. QED
    BY <2>3, <2>4
<1>3. QED
  BY <1>1, <1>2

\* CompareGameVersion orders versions as their parts do, whatever they leave
\* out at the end ("1.0.4" is "1.0.4.0"): none is taken for an older one.
THEOREM CompareMeetsOrder ==
  ASSUME NEW l \in Version, NEW r \in Version, Parses(l), Parses(r)
  PROVE  CompareGameVersion(l, r) <= 0 <=> NotLater(l, r)
<1> DEFINE tl == trimTrailingZeros(l)
           tr == trimTrailingZeros(r)
           Less(a, b) == \E i \in 1 .. 4 :
                            /\ Part(a, i) < Part(b, i)
                            /\ \A j \in 1 .. i - 1 : Part(a, j) = Part(b, j)
<1>1. /\ Len(tl) \in 0 .. 4 /\ \A i \in 1 .. Len(tl) : tl[i] \in Nat
      /\ Len(tl) > 0 => tl[Len(tl)] # 0
      /\ \A i \in 1 .. 4 : Part(tl, i) = Part(l, i)
  BY TrimKeepsParts
<1>2. /\ Len(tr) \in 0 .. 4 /\ \A i \in 1 .. Len(tr) : tr[i] \in Nat
      /\ Len(tr) > 0 => tr[Len(tr)] # 0
      /\ \A i \in 1 .. 4 : Part(tr, i) = Part(r, i)
  BY TrimKeepsParts
<1> HIDE DEF tl, tr
<1>3. (Precedes(tl, tr) <=> Less(tl, tr)) /\ (Precedes(tr, tl) <=> Less(tr, tl))
  BY <1>1, <1>2, PrecedesByParts
<1>4. \A i \in 1 .. 4 : Part(l, i) \in Nat /\ Part(r, i) \in Nat
  BY ParsedParts DEF Part
<1>5. (Less(tl, tr) <=> Less(l, r)) /\ (Less(tr, tl) <=> Less(r, l))
  BY <1>1, <1>2
<1>6. CompareGameVersion(l, r) <= 0 <=> (Less(l, r) \/ ~Less(r, l))
  BY <1>3, <1>5 DEF CompareGameVersion, tl, tr
<1>7. Less(l, r) => ~Less(r, l)
  BY <1>4
<1>8. ~Less(r, l) <=> NotLater(l, r)
  BY <1>4 DEF NotLater
<1>9. QED
  BY <1>6, <1>7, <1>8

-----------------------------------------------------------------------------
(* Control of the requests *)

Updates == {"sysUpdate", "updateAll"}

\* Which endpoints come past which statement, and with what.
PathAt(l, q) ==
    /\ l \in {"isActive", "claim"}
         => q.op \in {"sysGet", "sysUpdate", "sysVerify", "sysDelete",
                      "updateAll"}
    /\ l = "takeover"
         => q.op \in {"sysGet", "sysVerify", "sesGet", "sesUpdate", "sesDelete"}
    /\ l \in {"fetchIds", "setIds", "oldSystem", "stats", "putSystem"}
         => q.op \in Updates
    /\ l \in {"oldSession", "putSession"} => q.op \in {"updateAll", "sesUpdate"}
    /\ l = "putSystem" => q.sys.id # Zero
    /\ l \in {"load", "send"} => q.op \in {"sysGet", "sysVerify"}
    /\ l = "readSession" => q.op = "sesGet"
    /\ l = "delSystem" => q.op = "sysDelete"
    /\ l = "delSession" => q.op = "sesDelete"

\* Well-formed control state of all requests.
ControlOK ==
    /\ pc \in [Reqs -> Labels]
    /\ req \in [Reqs -> Request \cup {None}]
    /\ raced \in [Reqs -> BOOLEAN]
    /\ \A r \in Reqs :
         pc[r] # "idle" => req[r] \in Requests /\ PathAt(pc[r], req[r])

\* Well-formed rows and history.  A save without ids is never stored.
DataOK ==
    /\ s3 \in BOOLEAN
    /\ active \in Clients \cup {None}
    /\ ids \in Ids \cup {Zero}
    /\ stats \in Nat \cup {None}
    /\ system \in SystemSaves \cup {None}
    /\ system # None => system.id # Zero
    /\ session \in [Slots -> SessionSaves \cup {None}]
    /\ copy \in [Clients -> {"none", "current", "stale", "unsent"}]
    /\ racyWrite \in BOOLEAN
    /\ retry \in Requests \cup {None}

TypeInv == ControlOK /\ DataOK

\* The update path of updateall between the check of the system save and its
\* store.
InSessionPart(r) ==
    pc[r] \in {"oldSession", "putSession"} /\ req[r].op = "updateAll"

\* What the request has checked, or written, and still relies on.
CheckedAt(r) ==
    /\ pc[r] = "setIds" => ids = Zero
    /\ (pc[r] \in {"oldSystem", "stats", "putSystem"} \/ InSessionPart(r))
         => ids = req[r].sys.id
    /\ (pc[r] \in {"stats", "putSystem"} \/ InSessionPart(r))
         => SystemAccepted(req[r])
    /\ pc[r] = "putSession" => SessionAccepted(req[r])
    /\ pc[r] = "putSystem" =>
         /\ stats # None
         /\ req[r].sys.play # NoNumber => stats = req[r].sys.play

\* What a request that no other has overtaken has checked still holds.
CheckedOK == \A r \in Reqs : ~raced[r] => CheckedAt(r)

\* The inductive invariant.
IInv == TypeInv /\ CheckedOK /\ SaveMatchesIds /\ StatsNotBehindSave

-----------------------------------------------------------------------------
\* What the routes accept is well formed, and each endpoint carries the
\* payloads its statements use.
LEMMA RequestShape ==
    ASSUME NEW q \in Requests
    PROVE  /\ q \in Request
           /\ q.op \in Updates => q.sys \in SystemSaves
           /\ q.op \in {"updateAll", "sesUpdate"} => q.ses \in SessionSaves
  <1>1. CASE q \in SystemRequests
    BY <1>1, SaveSyncAssumption
    DEF SystemRequests, Request, Updates, OpNames
  <1>2. CASE q \in SessionRequests
    BY <1>2, SaveSyncAssumption
    DEF SessionRequests, Request, Updates, OpNames
  <1>3. CASE q \in CombinedRequests
    BY <1>3, SaveSyncAssumption
    DEF CombinedRequests, Request, Updates, OpNames
  <1> QED BY <1>1, <1>2, <1>3 DEF Requests

\* The invariant contains type correctness.
LEMMA TypeInvImpliesTypeOK == TypeInv => TypeOK
  BY DEF TypeInv, ControlOK, DataOK, TypeOK

\* No request is in flight and no row exists at the start.
LEMMA TypeInit == Init => TypeInv
  BY SaveSyncAssumption DEF Init, TypeInv, ControlOK, DataOK, Labels

-----------------------------------------------------------------------------
(* Control *)

\* A handler that returns leaves well-formed control state.
LEMMA FinishControl ==
    ASSUME TypeInv, NEW r \in Reqs, Finish(r)
    PROVE  ControlOK'
  BY DEF Finish, TypeInv, ControlOK, Labels

\* So does one that goes on to a statement its endpoint may reach.
LEMMA ContinueControl ==
    ASSUME TypeInv, NEW r \in Reqs, pc[r] # "idle",
           NEW l \in Labels, PathAt(l, req[r]), Continue(r, l),
           raced' \in [Reqs -> BOOLEAN]
    PROVE  ControlOK'
  <1>1. /\ pc' \in [Reqs -> Labels] /\ req' = req /\ pc'[r] = l
        /\ \A x \in Reqs \ {r} : pc'[x] = pc[x]
    BY DEF Continue, TypeInv, ControlOK
  <1>2. ASSUME NEW x \in Reqs, pc'[x] # "idle"
        PROVE  req'[x] \in Requests /\ PathAt(pc'[x], req'[x])
    BY <1>1, <1>2 DEF TypeInv, ControlOK
  <1> QED
    BY <1>1, <1>2 DEF TypeInv, ControlOK

\* A write leaves the history of overtaken requests well formed.
LEMMA OvertakeTypes ==
    ASSUME TypeInv, NEW r \in Reqs, Overtake(r)
    PROVE  /\ raced' \in [Reqs -> BOOLEAN]
           /\ racyWrite' \in BOOLEAN
           /\ retry' = retry
  BY DEF Overtake, TypeInv, ControlOK, DataOK

\* Facts about the request whose statement runs.
LEMMA InFlightRequest ==
    ASSUME TypeInv, NEW r \in Reqs, pc[r] # "idle"
    PROVE  /\ req[r] \in Requests
           /\ PathAt(pc[r], req[r])
           /\ req[r].op \in OpNames
           /\ req[r].client \in Clients
           /\ req[r].op \in Updates =>
                /\ req[r].sys \in SystemSaves
                /\ req[r].sys.id \in Ids \cup {Zero}
                /\ req[r].sys.play \in Nat \cup {NoNumber}
           /\ req[r].op \in {"updateAll", "sesUpdate"} =>
                req[r].ses \in SessionSaves
  <1>1. req[r] \in Requests /\ PathAt(pc[r], req[r])
    BY DEF TypeInv, ControlOK
  <1>2. \A sv \in SystemSaves : /\ sv.id \in Ids \cup {Zero}
                               /\ sv.play \in Nat \cup {NoNumber}
    BY SaveSyncAssumption DEF SystemSave
  <1> QED
    BY <1>1, <1>2, RequestShape DEF Request

\* Where an endpoint goes once its client is active.
LEMMA WhenActivePath ==
    ASSUME NEW q, q.op \in {"sysGet", "sysUpdate", "sysVerify", "sysDelete",
                            "updateAll"}
    PROVE  WhenActive(q.op) \in Labels /\ PathAt(WhenActive(q.op), q)
  BY DEF WhenActive, Labels, PathAt, Updates

-----------------------------------------------------------------------------
(* Type correctness: one lemma per action that changes data *)

\* A new request enters at the first statement of its endpoint.
LEMMA BeginTypes ==
    ASSUME TypeInv, NEW r \in Reqs, NEW q \in Requests, Begin(r, q)
    PROVE  TypeInv'
  <1>1. q \in Request
    BY RequestShape
  <1>2. DataOK'
    BY DEF Begin, TypeInv, DataOK, db
  <1>3. \E l \in {"isActive", "takeover"} :
           /\ pc' = [pc EXCEPT ![r] = l]
           /\ PathAt(l, q)
    BY <1>1 DEF Begin, PathAt, Request, OpNames
  <1>4. PICK l \in {"isActive", "takeover"} :
           /\ pc' = [pc EXCEPT ![r] = l]
           /\ PathAt(l, q)
    BY <1>3
  <1>5. ASSUME NEW x \in Reqs, pc'[x] # "idle"
        PROVE  req'[x] \in Requests /\ PathAt(pc'[x], req'[x])
    BY <1>4, <1>5 DEF Begin, TypeInv, ControlOK
  <1>6. /\ pc' \in [Reqs -> Labels]
        /\ req' \in [Reqs -> Request \cup {None}]
        /\ raced' \in [Reqs -> BOOLEAN]
    BY <1>1, <1>4 DEF Begin, TypeInv, ControlOK, Labels
  <1> QED
    BY <1>2, <1>5, <1>6 DEF TypeInv, ControlOK

\* IsActiveSession's answer leads on or ends the request.
LEMMA CheckActiveTypes ==
    ASSUME TypeInv, NEW r \in Reqs, CheckActive(r)
    PROVE  TypeInv'
  <1>1. DataOK'
    BY DEF CheckActive, TypeInv, DataOK, db
  <1>2. pc[r] # "idle" /\ PathAt("isActive", req[r])
    BY InFlightRequest DEF CheckActive
  <1>3. CASE Finish(r)
    BY <1>1, <1>3, FinishControl DEF TypeInv
  <1>4. CASE ~Finish(r)
    <2>1. raced' \in [Reqs -> BOOLEAN]
      BY <1>4 DEF CheckActive, TypeInv, ControlOK
    <2>2. CASE Continue(r, "claim")
      BY <1>1, <1>2, <2>1, <2>2, ContinueControl DEF PathAt, Labels, TypeInv
    <2>3. CASE Continue(r, WhenActive(req[r].op))
      <3>1. WhenActive(req[r].op) \in Labels /\ PathAt(WhenActive(req[r].op), req[r])
        BY <1>2, WhenActivePath DEF PathAt
      <3> QED
        BY <1>1, <1>2, <2>1, <2>3, <3>1, ContinueControl DEF TypeInv
    <2>4. CASE /\ req[r].op \in {"sysGet", "sysVerify"}
               /\ Continue(r, "takeover")
      BY <1>1, <1>2, <2>1, <2>4, ContinueControl DEF PathAt, Labels, TypeInv
    <2>5. CASE req[r].op = "sysDelete" /\ Continue(r, "delSystem")
      BY <1>1, <1>2, <2>1, <2>5, ContinueControl DEF PathAt, Labels, TypeInv
    <2> QED
      BY <1>4, <2>2, <2>3, <2>4, <2>5 DEF CheckActive
  <1> QED
    BY <1>3, <1>4

\* A client that finds no active session becomes the active one.
LEMMA ClaimActiveTypes ==
    ASSUME TypeInv, NEW r \in Reqs, ClaimActive(r)
    PROVE  TypeInv'
  <1>1. pc[r] # "idle" /\ PathAt("claim", req[r]) /\ req[r].client \in Clients
    BY InFlightRequest DEF ClaimActive
  <1>2. DataOK'
    BY <1>1, OvertakeTypes DEF ClaimActive, TypeInv, DataOK
  <1>3. WhenActive(req[r].op) \in Labels /\ PathAt(WhenActive(req[r].op), req[r])
    BY <1>1, WhenActivePath DEF PathAt
  <1> QED
    BY <1>1, <1>2, <1>3, ContinueControl, OvertakeTypes
    DEF ClaimActive, TypeInv

\* UpdateActiveSession stores a client session id.
LEMMA TakeOverTypes ==
    ASSUME TypeInv, NEW r \in Reqs, TakeOver(r)
    PROVE  TypeInv'
  <1>1. pc[r] # "idle" /\ PathAt("takeover", req[r]) /\ req[r].client \in Clients
    BY InFlightRequest DEF TakeOver
  <1>2. DataOK'
    BY <1>1, OvertakeTypes DEF TakeOver, TypeInv, DataOK, HandedTo
  <1>3. PICK l \in Labels : PathAt(l, req[r]) /\ Continue(r, l)
    BY <1>1 DEF TakeOver, PathAt, Labels
  <1> QED
    BY <1>1, <1>2, <1>3, ContinueControl, OvertakeTypes
    DEF TakeOver, TypeInv

\* Loading the save changes no row.
LEMMA LoadSystemTypes ==
    ASSUME TypeInv, NEW r \in Reqs, LoadSystem(r)
    PROVE  TypeInv'
  <1>1. pc[r] # "idle" /\ PathAt("load", req[r]) /\ req[r].client \in Clients
    BY InFlightRequest DEF LoadSystem
  <1>2. DataOK'
    BY <1>1 DEF LoadSystem, TypeInv, DataOK, db, history
  <1>3. CASE Finish(r)
    BY <1>2, <1>3, FinishControl DEF TypeInv
  <1>4. CASE ~Finish(r)
    <2>1. raced' \in [Reqs -> BOOLEAN]
      BY <1>4 DEF LoadSystem, TypeInv, ControlOK, history
    <2>2. PICK l \in Labels : PathAt(l, req[r]) /\ Continue(r, l)
      BY <1>1, <1>4 DEF LoadSystem, PathAt, Labels, Updates
    <2> QED
      BY <1>1, <1>2, <2>1, <2>2, ContinueControl DEF TypeInv
  <1> QED
    BY <1>3, <1>4

\* Comparing the trainer ids changes no row.
LEMMA FetchIdsTypes ==
    ASSUME TypeInv, NEW r \in Reqs, FetchIds(r)
    PROVE  TypeInv'
  <1>1. pc[r] # "idle" /\ PathAt("fetchIds", req[r]) /\ req[r].client \in Clients
    BY InFlightRequest DEF FetchIds
  <1>2. DataOK'
    BY <1>1 DEF FetchIds, TypeInv, DataOK, db, history
  <1>3. CASE Finish(r)
    BY <1>2, <1>3, FinishControl DEF TypeInv
  <1>4. CASE ~Finish(r)
    <2>1. raced' \in [Reqs -> BOOLEAN]
      BY <1>4 DEF FetchIds, TypeInv, ControlOK, history
    <2>2. PICK l \in Labels : PathAt(l, req[r]) /\ Continue(r, l)
      BY <1>1, <1>4 DEF FetchIds, PathAt, Labels, Updates
    <2> QED
      BY <1>1, <1>2, <2>1, <2>2, ContinueControl DEF TypeInv
  <1> QED
    BY <1>3, <1>4

\* Checking against the stored system save changes no row.
LEMMA CheckSystemTypes ==
    ASSUME TypeInv, NEW r \in Reqs, CheckSystem(r)
    PROVE  TypeInv'
  <1>1. pc[r] # "idle" /\ PathAt("oldSystem", req[r]) /\ req[r].client \in Clients
    BY InFlightRequest DEF CheckSystem
  <1>2. DataOK'
    BY <1>1 DEF CheckSystem, TypeInv, DataOK, db, history
  <1>3. CASE Finish(r)
    BY <1>2, <1>3, FinishControl DEF TypeInv
  <1>4. CASE ~Finish(r)
    <2>1. raced' \in [Reqs -> BOOLEAN]
      BY <1>4 DEF CheckSystem, TypeInv, ControlOK, history
    <2>2. PICK l \in Labels : PathAt(l, req[r]) /\ Continue(r, l)
      BY <1>1, <1>4 DEF CheckSystem, PathAt, Labels, Updates
    <2> QED
      BY <1>1, <1>2, <2>1, <2>2, ContinueControl DEF TypeInv
  <1> QED
    BY <1>3, <1>4

\* Checking against the stored run changes no row.
LEMMA CheckSessionTypes ==
    ASSUME TypeInv, NEW r \in Reqs, CheckSession(r)
    PROVE  TypeInv'
  <1>1. pc[r] # "idle" /\ PathAt("oldSession", req[r]) /\ req[r].client \in Clients
    BY InFlightRequest DEF CheckSession
  <1>2. DataOK'
    BY <1>1 DEF CheckSession, TypeInv, DataOK, db, history
  <1>3. CASE Finish(r)
    BY <1>2, <1>3, FinishControl DEF TypeInv
  <1>4. CASE ~Finish(r)
    <2>1. raced' \in [Reqs -> BOOLEAN]
      BY <1>4 DEF CheckSession, TypeInv, ControlOK, history
    <2>2. PICK l \in Labels : PathAt(l, req[r]) /\ Continue(r, l)
      BY <1>1, <1>4 DEF CheckSession, PathAt, Labels, Updates
    <2> QED
      BY <1>1, <1>2, <2>1, <2>2, ContinueControl DEF TypeInv
  <1> QED
    BY <1>3, <1>4

\* Reading the run changes no row.
LEMMA ReadSessionTypes ==
    ASSUME TypeInv, NEW r \in Reqs, ReadSession(r)
    PROVE  TypeInv'
  <1>1. pc[r] # "idle" /\ PathAt("readSession", req[r]) /\ req[r].client \in Clients
    BY InFlightRequest DEF ReadSession
  <1>2. DataOK'
    BY <1>1 DEF ReadSession, TypeInv, DataOK, db, history
  <1>3. CASE Finish(r)
    BY <1>2, <1>3, FinishControl DEF TypeInv
  <1>4. CASE ~Finish(r)
    <2>1. raced' \in [Reqs -> BOOLEAN]
      BY <1>4 DEF ReadSession, TypeInv, ControlOK, history
    <2>2. PICK l \in Labels : PathAt(l, req[r]) /\ Continue(r, l)
      BY <1>1, <1>4 DEF ReadSession, PathAt, Labels, Updates
    <2> QED
      BY <1>1, <1>2, <2>1, <2>2, ContinueControl DEF TypeInv
  <1> QED
    BY <1>3, <1>4

\* The stored ids come from the save of an update.
LEMMA SetIdsTypes ==
    ASSUME TypeInv, NEW r \in Reqs, SetIds(r)
    PROVE  TypeInv'
  <1>1. pc[r] # "idle" /\ PathAt("setIds", req[r])
    BY InFlightRequest DEF SetIds
  <1>2. DataOK'
    BY <1>1, InFlightRequest, OvertakeTypes
    DEF SetIds, PathAt, Updates, TypeInv, DataOK
  <1>3. PICK l \in Labels : PathAt(l, req[r]) /\ Continue(r, l)
    BY <1>1 DEF SetIds, PathAt, Labels, Updates
  <1> QED
    BY <1>1, <1>2, <1>3, ContinueControl, OvertakeTypes
    DEF SetIds, TypeInv

\* The stored run comes from a request that carries one.
LEMMA StoreSessionTypes ==
    ASSUME TypeInv, NEW r \in Reqs, StoreSession(r)
    PROVE  TypeInv'
  <1>1. pc[r] # "idle" /\ PathAt("putSession", req[r])
    BY InFlightRequest DEF StoreSession
  <1>2. DataOK'
    BY <1>1, InFlightRequest, OvertakeTypes
    DEF StoreSession, PathAt, Updates, TypeInv, DataOK
  <1>3. PICK l \in Labels : PathAt(l, req[r]) /\ Continue(r, l)
    BY <1>1 DEF StoreSession, PathAt, Labels, Updates
  <1> QED
    BY <1>1, <1>2, <1>3, ContinueControl, OvertakeTypes
    DEF StoreSession, TypeInv

\* The stored system save comes from an update and has ids.
LEMMA StoreSystemTypes ==
    ASSUME TypeInv, NEW r \in Reqs, StoreSystem(r)
    PROVE  TypeInv'
  <1>1. pc[r] # "idle" /\ PathAt("putSystem", req[r])
    BY InFlightRequest DEF StoreSystem
  <1>2. DataOK'
    BY <1>1, InFlightRequest, OvertakeTypes
    DEF StoreSystem, PathAt, Updates, TypeInv, DataOK, Outdated
  <1>3. PICK l \in Labels : PathAt(l, req[r]) /\ Continue(r, l)
    BY <1>1 DEF StoreSystem, PathAt, Labels, Updates
  <1> QED
    BY <1>1, <1>2, <1>3, ContinueControl, OvertakeTypes
    DEF StoreSystem, TypeInv

\* Deleting the system save leaves no save or, in S3, the old one.
LEMMA DeleteSystemTypes ==
    ASSUME TypeInv, NEW r \in Reqs, DeleteSystem(r)
    PROVE  TypeInv'
  <1>1. pc[r] # "idle" /\ PathAt("delSystem", req[r])
    BY InFlightRequest DEF DeleteSystem
  <1>2. DataOK'
    BY <1>1, InFlightRequest, OvertakeTypes
    DEF DeleteSystem, PathAt, Updates, TypeInv, DataOK, Outdated
  <1>3. PICK l \in Labels : PathAt(l, req[r]) /\ Continue(r, l)
    BY <1>1 DEF DeleteSystem, PathAt, Labels, Updates
  <1> QED
    BY <1>1, <1>2, <1>3, ContinueControl, OvertakeTypes
    DEF DeleteSystem, TypeInv

\* Deleting a run empties one slot.
LEMMA DeleteSessionTypes ==
    ASSUME TypeInv, NEW r \in Reqs, DeleteSession(r)
    PROVE  TypeInv'
  <1>1. pc[r] # "idle" /\ PathAt("delSession", req[r])
    BY InFlightRequest DEF DeleteSession
  <1>2. DataOK'
    BY <1>1, InFlightRequest, OvertakeTypes
    DEF DeleteSession, PathAt, Updates, TypeInv, DataOK
  <1>3. PICK l \in Labels : PathAt(l, req[r]) /\ Continue(r, l)
    BY <1>1 DEF DeleteSession, PathAt, Labels, Updates
  <1> QED
    BY <1>1, <1>2, <1>3, ContinueControl, OvertakeTypes
    DEF DeleteSession, TypeInv

\* The statistics are the play time of an update's save.
LEMMA UpdateStatsTypes ==
    ASSUME TypeInv, NEW r \in Reqs, UpdateStats(r)
    PROVE  TypeInv'
  <1>1. pc[r] # "idle" /\ PathAt("stats", req[r])
    BY InFlightRequest DEF UpdateStats
  <1>2. CASE req[r].sys.id = Zero \/ ~req[r].sys.numbers
    <2>1. DataOK'
      BY <1>2 DEF UpdateStats, TypeInv, DataOK
    <2> QED
      BY <1>2, <2>1, FinishControl DEF UpdateStats, TypeInv
  <1>3. CASE req[r].sys.id # Zero /\ req[r].sys.numbers
    <2>1. stats' \in Nat \cup {None}
      <3>1. stats \in Nat \cup {None} /\ req[r].sys.play \in Nat \cup {NoNumber}
        BY <1>1, InFlightRequest DEF PathAt, TypeInv, DataOK
      <3> QED
        BY <1>3, <3>1 DEF UpdateStats
    <2>2. DataOK'
      BY <1>3, <2>1, OvertakeTypes
      DEF UpdateStats, TypeInv, DataOK
    <2>3. PathAt("putSystem", req[r]) /\ "putSystem" \in Labels
      BY <1>1, <1>3 DEF PathAt, Labels
    <2> QED
      BY <1>1, <1>3, <2>2, <2>3, ContinueControl, OvertakeTypes
      DEF UpdateStats, TypeInv
  <1> QED
    BY <1>2, <1>3

\* Sending the save ends the request; the client holds what it was sent.
LEMMA SendTypes ==
    ASSUME TypeInv, NEW r \in Reqs, Send(r)
    PROVE  TypeInv'
  <1>1. DataOK'
    BY DEF Send, TypeInv, DataOK, db
  <1> QED
    BY <1>1, FinishControl DEF Send, TypeInv

\* Answering a request ends it.
LEMMA ReplyTypes ==
    ASSUME TypeInv, NEW r \in Reqs, Reply(r)
    PROVE  TypeInv'
  <1>1. DataOK'
    BY DEF Reply, TypeInv, DataOK, db
  <1> QED
    BY <1>1, FinishControl DEF Reply, TypeInv

\* A failed request is one the client may repeat.
LEMMA AbortTypes ==
    ASSUME TypeInv, NEW r \in Reqs, Abort(r)
    PROVE  TypeInv'
  <1>1. DataOK'
    BY InFlightRequest DEF Abort, TypeInv, DataOK, db
  <1> QED
    BY <1>1, FinishControl DEF Abort, TypeInv

\* Type correctness survives every step: one case per action.
LEMMA TypeNext == TypeInv /\ [Next]_vars => TypeInv'
  <1> SUFFICES ASSUME TypeInv, [Next]_vars PROVE TypeInv'
    OBVIOUS
  <1>1. ASSUME NEW r \in Reqs, NEW q \in Requests, Begin(r, q)
        PROVE  TypeInv'
    BY <1>1, BeginTypes
  <1>2. ASSUME NEW r \in Reqs, Step(r)
        PROVE  TypeInv'
    BY <1>2, CheckActiveTypes, ClaimActiveTypes, TakeOverTypes,
       LoadSystemTypes, FetchIdsTypes, SetIdsTypes, CheckSystemTypes,
       CheckSessionTypes, StoreSessionTypes, UpdateStatsTypes,
       StoreSystemTypes, DeleteSystemTypes, ReadSessionTypes,
       DeleteSessionTypes, SendTypes, ReplyTypes
    DEF Step
  <1>3. ASSUME NEW r \in Reqs, Abort(r)
        PROVE  TypeInv'
    BY <1>3, AbortTypes
  <1>4. CASE UNCHANGED vars
    BY <1>4 DEF vars, db, history, TypeInv, ControlOK, DataOK
  <1> QED
    BY <1>1, <1>2, <1>3, <1>4 DEF Next

\* Type correctness: rows and requests keep their shape in every behaviour,
\* and a request is only ever at a statement of its own endpoint.
THEOREM TypeCorrect == Spec => []TypeOK
  <1>1. Spec => []TypeInv
    BY TypeInit, TypeNext, PTL DEF Spec
  <1> QED
    BY <1>1, TypeInvImpliesTypeOK, PTL

-----------------------------------------------------------------------------
(* What an undisturbed request has checked still holds *)

rows == <<ids, stats, system, session>>

\* A step of r that writes no row leaves what the others rely on.
LEMMA OthersKeep ==
    ASSUME CheckedOK, NEW r \in Reqs, NEW x \in Reqs \ {r}, UNCHANGED rows,
           pc'[x] = pc[x], req'[x] = req[x], raced'[x] = raced[x], ~raced'[x]
    PROVE  CheckedAt(x)'
  <1>1. CheckedAt(x)
    BY DEF CheckedOK
  <1> QED
    BY <1>1 DEF CheckedAt, InSessionPart, SystemAccepted, SessionAccepted,
       validatePlaytime, validateSystemVersion, rows

\* A request in flight does not count on anything once another one writes.
LEMMA OthersOvertaken ==
    ASSUME TypeInv, NEW r \in Reqs, NEW x \in Reqs \ {r}, NEW l \in Labels,
           Continue(r, l), Overtake(r), ~raced'[x]
    PROVE  CheckedAt(x)'
  <1>1. pc'[x] = "idle"
    BY DEF Continue, Overtake, TypeInv, ControlOK
  <1> QED
    BY <1>1 DEF CheckedAt, InSessionPart

\* A handler that returns relies on nothing.
LEMMA FinishKeeps ==
    ASSUME TypeInv, CheckedOK, NEW r \in Reqs, Finish(r), UNCHANGED rows
    PROVE  CheckedOK'
  <1>1. pc'[r] = "idle"
    BY DEF Finish, TypeInv, ControlOK
  <1>2. CheckedAt(r)'
    BY <1>1 DEF CheckedAt, InSessionPart
  <1>3. \A x \in Reqs \ {r} :
          pc'[x] = pc[x] /\ req'[x] = req[x] /\ raced'[x] = raced[x]
    BY DEF Finish, TypeInv, ControlOK
  <1> QED
    BY <1>2, <1>3, OthersKeep DEF CheckedOK

\* A statement that only reads: its own request must rely on what it found.
LEMMA ReadKeeps ==
    ASSUME TypeInv, CheckedOK, NEW r \in Reqs, NEW l \in Labels, Continue(r, l),
           UNCHANGED rows, UNCHANGED raced, ~raced[r] => CheckedAt(r)'
    PROVE  CheckedOK'
  <1>1. \A x \in Reqs \ {r} :
          pc'[x] = pc[x] /\ req'[x] = req[x] /\ raced'[x] = raced[x]
    BY DEF Continue, TypeInv, ControlOK
  <1> QED
    BY <1>1, OthersKeep DEF CheckedOK

\* A statement that writes: likewise, all others being overtaken.
LEMMA WriteKeeps ==
    ASSUME TypeInv, NEW r \in Reqs, NEW l \in Labels, Continue(r, l),
           Overtake(r), ~raced[r] => CheckedAt(r)'
    PROVE  CheckedOK'
  <1>1. raced'[r] = raced[r]
    BY DEF Overtake, TypeInv, ControlOK
  <1> QED
    BY <1>1, OthersOvertaken DEF CheckedOK

\* Where the handler goes on to: its label and the request it serves.
LEMMA ContinueAt ==
    ASSUME TypeInv, NEW r \in Reqs, NEW l, Continue(r, l)
    PROVE  pc'[r] = l /\ req' = req
  BY DEF Continue, TypeInv, ControlOK

\* What an unovertaken request has checked survives the step of any request:
\* a step that writes overtakes every other request in flight.
LEMMA CheckedNext ==
    ASSUME TypeInv, CheckedOK, [Next]_vars
    PROVE  CheckedOK'
  <1> DEFINE Relies(l) == l \in {"setIds", "oldSystem", "stats", "putSystem",
                                 "oldSession", "putSession"}
  <1>0. ASSUME NEW r \in Reqs, ~Relies(pc'[r]) PROVE CheckedAt(r)'
    BY <1>0 DEF CheckedAt, InSessionPart
  <1>1. ASSUME NEW r \in Reqs, NEW q \in Requests, Begin(r, q)
        PROVE  CheckedOK'
    <2>1. ~Relies(pc'[r])
      BY <1>1 DEF Begin, TypeInv, ControlOK
    <2>2. \A x \in Reqs \ {r} :
            pc'[x] = pc[x] /\ req'[x] = req[x] /\ raced'[x] = raced[x]
      BY <1>1 DEF Begin, TypeInv, ControlOK
    <2>3. UNCHANGED rows
      BY <1>1 DEF Begin, db, rows
    <2> QED
      BY <1>0, <2>1, <2>2, <2>3, OthersKeep DEF CheckedOK
  <1>2. ASSUME NEW r \in Reqs, CheckActive(r) PROVE CheckedOK'
    <2>1. UNCHANGED rows
      BY <1>2 DEF CheckActive, db, rows
    <2>2. CASE Finish(r)
      BY <2>1, <2>2, FinishKeeps
    <2>3. CASE ~Finish(r)
      <3>1. PICK l \in Labels : Continue(r, l) /\ ~Relies(l) /\ UNCHANGED raced
        BY <1>2, <2>3 DEF CheckActive, WhenActive, Labels
      <3>2. CheckedAt(r)'
        BY <1>0, <3>1, ContinueAt
      <3> QED
        BY <2>1, <3>1, <3>2, ReadKeeps
    <2> QED
      BY <2>2, <2>3
  <1>3. ASSUME NEW r \in Reqs, ClaimActive(r) PROVE CheckedOK'
    <2>1. PICK l \in Labels : Continue(r, l) /\ ~Relies(l)
      BY <1>3 DEF ClaimActive, WhenActive, Labels
    <2>2. CheckedAt(r)'
      BY <1>0, <2>1, ContinueAt
    <2> QED
      BY <1>3, <2>1, <2>2, WriteKeeps DEF ClaimActive
  <1>4. ASSUME NEW r \in Reqs, TakeOver(r) PROVE CheckedOK'
    <2>1. PICK l \in Labels :
             /\ Continue(r, l)
             /\ ~Relies(l) \/ (l = "oldSession" /\ req[r].op = "sesUpdate")
      BY <1>4 DEF TakeOver, Labels
    <2>2. CheckedAt(r)'
      <3>1. pc'[r] = l /\ req' = req
        BY <2>1, ContinueAt
      <3> QED
        BY <1>0, <2>1, <3>1 DEF CheckedAt, InSessionPart
    <2> QED
      BY <1>4, <2>1, <2>2, WriteKeeps DEF TakeOver
  <1>5. ASSUME NEW r \in Reqs, LoadSystem(r) PROVE CheckedOK'
    <2>1. UNCHANGED rows
      BY <1>5 DEF LoadSystem, db, rows
    <2>2. CASE Finish(r)
      BY <2>1, <2>2, FinishKeeps
    <2>3. CASE Continue(r, "send") /\ UNCHANGED raced
      <3>1. CheckedAt(r)'
        BY <1>0, <2>3, ContinueAt
      <3> QED
        BY <2>1, <2>3, <3>1, ReadKeeps DEF Labels
    <2> QED
      BY <1>5, <2>2, <2>3 DEF LoadSystem
  <1>6. ASSUME NEW r \in Reqs, FetchIds(r) PROVE CheckedOK'
    <2>1. UNCHANGED rows
      BY <1>6 DEF FetchIds, db, rows
    <2>2. CASE Finish(r)
      BY <2>1, <2>2, FinishKeeps
    <2>3. CASE ~Finish(r)
      <3>1. PICK l \in Labels :
               /\ Continue(r, l)
               /\ l = IF ids = Zero THEN "setIds" ELSE "oldSystem"
               /\ UNCHANGED raced
        BY <1>6, <2>3 DEF FetchIds, Labels
      <3>2. pc'[r] = l /\ req' = req
        BY <3>1, ContinueAt
      <3>3. CheckedAt(r)'
        BY <1>6, <2>1, <2>3, <3>1, <3>2
        DEF FetchIds, IdsMatch, CheckedAt, InSessionPart, rows
      <3> QED
        BY <2>1, <3>1, <3>3, ReadKeeps
    <2> QED
      BY <2>2, <2>3
  <1>7. ASSUME NEW r \in Reqs, SetIds(r) PROVE CheckedOK'
    <2>1. pc'[r] = "oldSystem" /\ req' = req
      BY <1>7, ContinueAt DEF SetIds
    <2>2. CheckedAt(r)'
      BY <1>7, <2>1 DEF SetIds, CheckedAt, InSessionPart
    <2> QED
      BY <1>7, <2>2, WriteKeeps DEF SetIds, Labels
  <1>8. ASSUME NEW r \in Reqs, CheckSystem(r) PROVE CheckedOK'
    <2>1. UNCHANGED rows
      BY <1>8 DEF CheckSystem, db, rows
    <2>2. CASE Finish(r)
      BY <2>1, <2>2, FinishKeeps
    <2>3. CASE ~Finish(r)
      <3>1. PICK l \in {"oldSession", "stats"} :
               Continue(r, l) /\ UNCHANGED raced
        BY <1>8, <2>3 DEF CheckSystem
      <3>2. pc'[r] = l /\ req' = req
        BY <3>1, ContinueAt
      <3>3. ~raced[r] => ids = req[r].sys.id
        BY <1>8 DEF CheckSystem, CheckedOK, CheckedAt
      <3>4. SystemAccepted(req[r]) /\ SystemAccepted(req[r])'
        BY <1>8, <2>1, <2>3, <3>2
        DEF CheckSystem, SystemAccepted, validatePlaytime,
            validateSystemVersion, rows
      <3>5. ~raced[r] => CheckedAt(r)'
        BY <2>1, <3>2, <3>3, <3>4 DEF CheckedAt, InSessionPart, rows
      <3> QED
        BY <2>1, <3>1, <3>5, ReadKeeps DEF Labels
    <2> QED
      BY <2>2, <2>3
  <1>9. ASSUME NEW r \in Reqs, CheckSession(r) PROVE CheckedOK'
    <2>1. UNCHANGED rows
      BY <1>9 DEF CheckSession, db, rows
    <2>2. CASE Finish(r)
      BY <2>1, <2>2, FinishKeeps
    <2>3. CASE ~Finish(r)
      <3>1. Continue(r, "putSession") /\ UNCHANGED raced
        BY <1>9, <2>3 DEF CheckSession
      <3>2. pc'[r] = "putSession" /\ req' = req
        BY <3>1, ContinueAt
      <3>3. SessionAccepted(req[r])'
        BY <1>9, <2>1, <2>3, <3>2 DEF CheckSession, SessionAccepted, rows
      <3>4. (~raced[r] /\ req[r].op = "updateAll") =>
               /\ ids' = req'[r].sys.id
               /\ SystemAccepted(req[r])'
        BY <1>9, <2>1, <3>2
        DEF CheckSession, CheckedOK, CheckedAt, InSessionPart, SystemAccepted,
            validatePlaytime, validateSystemVersion, rows
      <3>5. ~raced[r] => CheckedAt(r)'
        BY <3>2, <3>3, <3>4 DEF CheckedAt, InSessionPart
      <3> QED
        BY <2>1, <3>1, <3>5, ReadKeeps DEF Labels
    <2> QED
      BY <2>2, <2>3
  <1>10. ASSUME NEW r \in Reqs, StoreSession(r) PROVE CheckedOK'
    <2>1. PICK l \in {"stats", "reply"} :
             Continue(r, l) /\ (l = "stats" => req[r].op = "updateAll")
      BY <1>10 DEF StoreSession
    <2>2. pc'[r] = l /\ req' = req
      BY <2>1, ContinueAt
    <2>3. (~raced[r] /\ l = "stats") =>
             /\ ids' = req'[r].sys.id
             /\ SystemAccepted(req[r])'
      BY <1>10, <2>1, <2>2
      DEF StoreSession, CheckedOK, CheckedAt, InSessionPart, SystemAccepted,
          validatePlaytime, validateSystemVersion
    <2>4. ~raced[r] => CheckedAt(r)'
      BY <2>2, <2>3 DEF CheckedAt, InSessionPart
    <2> QED
      BY <1>10, <2>1, <2>4, WriteKeeps DEF StoreSession, Labels
  <1>11. ASSUME NEW r \in Reqs, UpdateStats(r) PROVE CheckedOK'
    <2>1. CASE req[r].sys.id = Zero \/ ~req[r].sys.numbers
      BY <1>11, <2>1, FinishKeeps DEF UpdateStats, rows
    <2>2. CASE req[r].sys.id # Zero /\ req[r].sys.numbers
      <3>0. req[r].sys.play \in Nat \cup {NoNumber} /\ 0 # None
            /\ (req[r].sys.play # NoNumber => req[r].sys.play # None)
        BY <1>11, InFlightRequest, SaveSyncAssumption DEF UpdateStats, PathAt
      <3>1. /\ pc'[r] = "putSystem" /\ req' = req /\ stats' # None
            /\ req[r].sys.play # NoNumber => stats' = req[r].sys.play
        BY <1>11, <2>2, <3>0, ContinueAt DEF UpdateStats
      <3>2. ~raced[r] => ids' = req'[r].sys.id /\ SystemAccepted(req[r])'
        BY <1>11, <3>1
        DEF UpdateStats, CheckedOK, CheckedAt, SystemAccepted,
            validatePlaytime, validateSystemVersion
      <3>3. ~raced[r] => CheckedAt(r)'
        BY <3>1, <3>2 DEF CheckedAt, InSessionPart
      <3> QED
        BY <1>11, <2>2, <3>3, WriteKeeps DEF UpdateStats, Labels
    <2> QED
      BY <2>1, <2>2
  <1>12. ASSUME NEW r \in Reqs,
                StoreSystem(r) \/ DeleteSystem(r) \/ DeleteSession(r)
         PROVE  CheckedOK'
    <2>1. Continue(r, "reply") /\ Overtake(r)
      BY <1>12 DEF StoreSystem, DeleteSystem, DeleteSession
    <2>2. CheckedAt(r)'
      BY <1>0, <2>1, ContinueAt
    <2> QED
      BY <2>1, <2>2, WriteKeeps DEF Labels
  <1>13. ASSUME NEW r \in Reqs, ReadSession(r) PROVE CheckedOK'
    <2>1. Continue(r, "reply") /\ UNCHANGED rows /\ UNCHANGED raced
      BY <1>13 DEF ReadSession, db, history, rows
    <2>2. CheckedAt(r)'
      BY <1>0, <2>1, ContinueAt
    <2> QED
      BY <2>1, <2>2, ReadKeeps DEF Labels
  <1>14. ASSUME NEW r \in Reqs, Send(r) \/ Reply(r) \/ Abort(r)
         PROVE  CheckedOK'
    BY <1>14, FinishKeeps DEF Send, Reply, Abort, db, rows
  <1>15. CASE UNCHANGED vars
    BY <1>15
    DEF vars, db, history, CheckedOK, CheckedAt, InSessionPart, SystemAccepted,
        SessionAccepted, validatePlaytime, validateSystemVersion
  <1> QED
    BY <1>1, <1>2, <1>3, <1>4, <1>5, <1>6, <1>7, <1>8, <1>9, <1>10, <1>11,
       <1>12, <1>13, <1>14, <1>15
    DEF Next, Step

-----------------------------------------------------------------------------
(* The save agrees with the account's ids and statistics *)

\* Every step either leaves the three rows alone or is one of four writes; the
\* history of overtaken writes only grows.
LEMMA RowWriters ==
    ASSUME [Next]_vars
    PROVE  \/ UNCHANGED <<ids, stats, system>> /\ (racyWrite => racyWrite')
           \/ \E r \in Reqs : \/ SetIds(r)
                              \/ UpdateStats(r) /\ Overtake(r)
                              \/ StoreSystem(r)
                              \/ DeleteSystem(r)
  <1>1. ASSUME NEW r \in Reqs, NEW q \in Requests, Begin(r, q)
        PROVE  UNCHANGED <<ids, stats, system, racyWrite>>
    BY <1>1 DEF Begin, db
  <1>2. ASSUME NEW r \in Reqs,
               \/ CheckActive(r) \/ LoadSystem(r) \/ FetchIds(r)
               \/ CheckSystem(r) \/ CheckSession(r) \/ ReadSession(r)
               \/ Send(r) \/ Reply(r) \/ Abort(r)
        PROVE  UNCHANGED <<ids, stats, system, racyWrite>>
    BY <1>2 DEF CheckActive, LoadSystem, FetchIds, CheckSystem, CheckSession,
       ReadSession, Send, Reply, Abort, db, history
  <1>3. ASSUME NEW r \in Reqs,
               \/ ClaimActive(r) \/ TakeOver(r) \/ StoreSession(r)
               \/ DeleteSession(r)
        PROVE  UNCHANGED <<ids, stats, system>> /\ (racyWrite => racyWrite')
    BY <1>3 DEF ClaimActive, TakeOver, StoreSession, DeleteSession, Overtake
  <1>4. ASSUME NEW r \in Reqs, UpdateStats(r), ~Overtake(r)
        PROVE  UNCHANGED <<ids, stats, system, racyWrite>>
    BY <1>4 DEF UpdateStats
  <1>5. CASE UNCHANGED vars
    BY <1>5 DEF vars, db, history
  <1> QED
    BY <1>1, <1>2, <1>3, <1>4, <1>5 DEF Next, Step

\* The agreement between save, ids and statistics survives every step.
LEMMA SaveRowsNext ==
    ASSUME IInv, [Next]_vars
    PROVE  SaveMatchesIds' /\ StatsNotBehindSave'
  <1>1. CASE UNCHANGED <<ids, stats, system>> /\ (racyWrite => racyWrite')
    BY <1>1 DEF IInv, SaveMatchesIds, StatsNotBehindSave
  <1>2. ASSUME NEW r \in Reqs, SetIds(r)
        PROVE  SaveMatchesIds' /\ StatsNotBehindSave'
    <2>1. ~raced[r] => ids = Zero
      BY <1>2 DEF SetIds, IInv, CheckedOK, CheckedAt
    <2>2. (~racyWrite /\ ids = Zero) => system = None
      BY DEF IInv, SaveMatchesIds, TypeInv, DataOK
    <2>3. UNCHANGED <<stats, system>> /\ racyWrite' = (racyWrite \/ raced[r])
      BY <1>2 DEF SetIds, Overtake
    <2> QED
      BY <2>1, <2>2, <2>3 DEF IInv, SaveMatchesIds, StatsNotBehindSave
  <1>3. ASSUME NEW r \in Reqs, UpdateStats(r), Overtake(r)
        PROVE  SaveMatchesIds' /\ StatsNotBehindSave'
    <2>1. ~raced[r] => SystemAccepted(req[r])
      BY <1>3 DEF UpdateStats, IInv, CheckedOK, CheckedAt
    <2>2. UNCHANGED <<ids, system>> /\ racyWrite' = (racyWrite \/ raced[r])
      BY <1>3 DEF UpdateStats, Overtake
    <2>3. /\ stats' = stats \/ stats' = req[r].sys.play \/ stats = None
          /\ req[r].sys.play # NoNumber
               => stats' = stats \/ stats' = req[r].sys.play
      BY <1>3 DEF UpdateStats
    <2>4. req[r].sys.play # NoNumber => req[r].sys.play \in Nat
      BY <1>3, InFlightRequest DEF UpdateStats, IInv, PathAt
    <2> QED
      BY <2>1, <2>2, <2>3, <2>4, SaveSyncAssumption
      DEF IInv, SaveMatchesIds, StatsNotBehindSave, SystemAccepted,
          validatePlaytime
  <1>4. ASSUME NEW r \in Reqs, StoreSystem(r)
        PROVE  SaveMatchesIds' /\ StatsNotBehindSave'
    <2>1. ~raced[r] =>
            /\ ids = req[r].sys.id /\ stats # None
            /\ req[r].sys.play # NoNumber => stats = req[r].sys.play
      BY <1>4 DEF StoreSystem, IInv, CheckedOK, CheckedAt
    <2>2. /\ UNCHANGED <<ids, stats>> /\ system' = req[r].sys
          /\ racyWrite' = (racyWrite \/ raced[r])
      BY <1>4 DEF StoreSystem, Overtake
    <2>3. req[r].sys.play \in Nat \cup {NoNumber}
      BY <1>4, InFlightRequest DEF StoreSystem, IInv, PathAt
    <2>4. req[r].sys.play # NoNumber => req[r].sys.play >= req[r].sys.play
      BY <2>3
    <2> QED
      BY <2>1, <2>2, <2>4 DEF SaveMatchesIds, StatsNotBehindSave
  <1>5. ASSUME NEW r \in Reqs, DeleteSystem(r)
        PROVE  SaveMatchesIds' /\ StatsNotBehindSave'
    BY <1>5 DEF DeleteSystem, Overtake, IInv, SaveMatchesIds,
       StatsNotBehindSave
  <1> QED
    BY <1>1, <1>2, <1>3, <1>4, <1>5, RowWriters

\* The inductive invariant holds in every reachable state.
THEOREM Invariance == Spec => []IInv
  <1>1. Init => IInv
    <2>1. Init => CheckedOK /\ SaveMatchesIds /\ StatsNotBehindSave
      BY DEF Init, CheckedOK, CheckedAt, InSessionPart, SaveMatchesIds,
         StatsNotBehindSave
    <2> QED
      BY <2>1, TypeInit DEF IInv
  <1>2. IInv /\ [Next]_vars => IInv'
    BY TypeNext, CheckedNext, SaveRowsNext DEF IInv
  <1> QED
    BY <1>1, <1>2, PTL DEF Spec

\* Unless a request wrote after being overtaken, the stored save carries the
\* ids of the account, however many requests run and whatever fails.
THEOREM SaveMatchesIdsHolds == Spec => []SaveMatchesIds
  <1>1. IInv => SaveMatchesIds
    BY DEF IInv
  <1> QED
    BY <1>1, Invariance, PTL

\* Unless a request wrote after being overtaken, the statistics row of a stored
\* save exists and is not behind it.
THEOREM StatsNotBehindSaveHolds == Spec => []StatsNotBehindSave
  <1>1. IInv => StatsNotBehindSave
    BY DEF IInv
  <1> QED
    BY <1>1, Invariance, PTL

\* Each label of a store is left only by that store or by a handler that
\* returns.
LEMMA SystemWriters ==
    ASSUME [Next]_vars, system # None, system' # None, system' # system
    PROVE  \E r \in Reqs : StoreSystem(r)
  <1>1. ASSUME NEW r \in Reqs, NEW q \in Requests, Begin(r, q)
        PROVE  FALSE
    BY <1>1 DEF Begin, db
  <1>2. ASSUME NEW r \in Reqs, Step(r), ~StoreSystem(r)
        PROVE  FALSE
    BY <1>2 DEF Step, CheckActive, ClaimActive, TakeOver, LoadSystem, FetchIds,
       SetIds, CheckSystem, CheckSession, StoreSession, UpdateStats,
       DeleteSystem, ReadSession, DeleteSession, Send, Reply, db
  <1>3. ASSUME NEW r \in Reqs, Abort(r)
        PROVE  FALSE
    BY <1>3 DEF Abort, db
  <1>4. CASE UNCHANGED vars
    BY <1>4 DEF vars, db
  <1> QED
    BY <1>1, <1>2, <1>3, <1>4 DEF Next

\* A stored save loses play time, version or a migrator only through a request
\* that another one overtook.
THEOREM NoRollBack == Spec => SaveNeverRollsBack
  <1> DEFINE Kept == (system # None /\ system' # None /\ system' # system) =>
         \/ /\ system.play # NoNumber /\ system'.play # NoNumber
            /\ system'.play >= system.play
            /\ Parses(system.ver) /\ Parses(system'.ver)
            /\ NotLater(system.ver, system'.ver)
            /\ MigratorsKept(system.mig, system'.mig)
         \/ \E r \in Reqs : pc[r] = "putSystem" /\ raced[r] /\ Moves(r)
  <1>1. ASSUME IInv, [Next]_vars
        PROVE  Kept
    <2> SUFFICES ASSUME system # None, system' # None, system' # system
                 PROVE  \/ /\ system.play # NoNumber /\ system'.play # NoNumber
                           /\ system'.play >= system.play
                           /\ Parses(system.ver) /\ Parses(system'.ver)
                           /\ NotLater(system.ver, system'.ver)
                           /\ MigratorsKept(system.mig, system'.mig)
                        \/ \E r \in Reqs : pc[r] = "putSystem" /\ raced[r] /\ Moves(r)
      OBVIOUS
    <2>1. PICK r \in Reqs : StoreSystem(r)
      BY <1>1, SystemWriters
    <2>2. pc[r] = "putSystem" /\ Moves(r) /\ system' = req[r].sys
      BY <1>1, <2>1 DEF StoreSystem, Continue, Moves, IInv, TypeInv, ControlOK
    <2>3. ~raced[r] => SystemAccepted(req[r])
      BY <1>1, <2>2 DEF IInv, CheckedOK, CheckedAt
    <2>4. system \in SystemSave /\ system' \in SystemSave
      BY <1>1, <2>2, SaveSyncAssumption
      DEF IInv, TypeInv, ControlOK, DataOK, Requests, SystemRequests,
          SessionRequests, CombinedRequests
    <2>5. CASE raced[r]
      BY <2>2, <2>5
    <2>6. CASE ~raced[r]
      <3>1. SystemAccepted(req[r])
        BY <2>3, <2>6
      <3>2. /\ system.play # NoNumber /\ system'.play # NoNumber
            /\ system'.play >= system.play
            /\ Parses(system'.ver) /\ Parses(system.ver)
            /\ CompareGameVersion(system.ver, system'.ver) <= 0
            /\ ValidMigrators(system'.mig, system.mig)
        BY <2>2, <3>1
        DEF SystemAccepted, validatePlaytime, validateSystemVersion, Supported
      <3>3. NotLater(system.ver, system'.ver)
        BY <2>4, <3>2, CompareMeetsOrder DEF SystemSave
      <3>4. MigratorsKept(system.mig, system'.mig)
        BY <2>4, <3>2 DEF SystemSave, ValidMigrators, MigratorsKept, Timestamp
      <3>5. QED
        BY <3>2, <3>3, <3>4
    <2>7. QED
      BY <2>5, <2>6
  <1>2. IInv /\ [Next]_vars => [Kept]_vars
    BY <1>1
  <1>3. Spec => [][Kept]_vars
    BY <1>2, Invariance, PTL DEF Spec
  <1> QED
    BY <1>3 DEF SaveNeverRollsBack

\* The order of versions is transitive.
LEMMA NotLaterTransitive ==
  ASSUME NEW u \in Version, NEW v \in Version, NEW w \in Version,
         Parses(u), Parses(v), Parses(w), NotLater(u, v), NotLater(v, w)
  PROVE  NotLater(u, w)
<1>1. \A i \in 1 .. 4 : Part(u, i) \in Nat /\ Part(v, i) \in Nat /\ Part(w, i) \in Nat
  BY ParsedParts DEF Part
<1>2. QED
  BY <1>1 DEF NotLater

\* The stored save is sv, or carries on from it: no play time, version or
\* migrator of sv is lost.
CarriesOn(sv) ==
    /\ system # None
    /\ \/ system = sv
       \/ /\ sv.play # NoNumber /\ system.play # NoNumber
          /\ system.play >= sv.play
          /\ Parses(sv.ver) /\ Parses(system.ver)
          /\ NotLater(sv.ver, system.ver)
          /\ MigratorsKept(sv.mig, system.mig)

\* As long as the account has a save and no overtaken request writes, every
\* save stored after sv carries on from it, over any number of updates of any
\* number of clients and whatever fails: what holds of two saves in a row
\* (SaveNeverRollsBack) holds of any two.
THEOREM EverySaveCarriesOn ==
  ASSUME NEW sv \in SystemSave
  PROVE  Spec => [](system = sv /\ [](system # None /\ ~racyWrite)
                      => []CarriesOn(sv))
  <1>1. ASSUME IInv, [Next]_vars, CarriesOn(sv), (system # None /\ ~racyWrite)'
        PROVE  CarriesOn(sv)'
    <2>1. CASE system' = system
      BY <1>1, <2>1 DEF CarriesOn
    <2>2. CASE system' # system
      <3>1. PICK r \in Reqs : StoreSystem(r)
        BY <1>1, <2>2, SystemWriters DEF CarriesOn
      <3>2. pc[r] = "putSystem" /\ ~raced[r] /\ system' = req[r].sys
        BY <1>1, <3>1 DEF StoreSystem, Overtake
      <3>3. SystemAccepted(req[r])
        BY <1>1, <3>2 DEF IInv, CheckedOK, CheckedAt
      <3>4. system \in SystemSave /\ system' \in SystemSave
        BY <1>1, <3>2, SaveSyncAssumption
        DEF IInv, TypeInv, ControlOK, DataOK, Requests, SystemRequests,
            SessionRequests, CombinedRequests, CarriesOn
      <3>5. Parses(system.ver) /\ Parses(system'.ver)
            /\ CompareGameVersion(system.ver, system'.ver) <= 0
            /\ system.play # NoNumber /\ system'.play # NoNumber
            /\ system'.play >= system.play
            /\ ValidMigrators(system'.mig, system.mig)
        BY <1>1, <3>2, <3>3
        DEF SystemAccepted, validatePlaytime, validateSystemVersion, Supported,
            CarriesOn
      <3>6. NotLater(system.ver, system'.ver)
        BY <3>4, <3>5, CompareMeetsOrder DEF SystemSave
      <3>7. MigratorsKept(system.mig, system'.mig)
        BY <3>4, <3>5 DEF SystemSave, ValidMigrators, MigratorsKept, Timestamp
      <3>8. CASE system = sv
        BY <1>1, <3>5, <3>6, <3>7, <3>8 DEF CarriesOn
      <3>9. CASE system # sv
        <4>1. /\ sv.play # NoNumber /\ system.play >= sv.play
              /\ Parses(sv.ver) /\ NotLater(sv.ver, system.ver)
              /\ MigratorsKept(sv.mig, system.mig)
          BY <1>1, <3>9 DEF CarriesOn
        <4>2. system'.play >= sv.play
          BY <3>4, <3>5, <4>1 DEF SystemSave
        <4>3. NotLater(sv.ver, system'.ver)
          BY <3>4, <3>5, <3>6, <4>1, NotLaterTransitive DEF SystemSave
        <4>4. MigratorsKept(sv.mig, system'.mig)
          BY <3>7, <4>1 DEF MigratorsKept
        <4> QED
          BY <1>1, <3>5, <4>1, <4>2, <4>3, <4>4 DEF CarriesOn
      <3> QED
        BY <3>8, <3>9
    <2> QED
      BY <2>1, <2>2
  <1>2. system = sv /\ system # None => CarriesOn(sv)
    BY DEF CarriesOn
  <1>3. IInv /\ [Next]_vars /\ CarriesOn(sv) /\ (system # None /\ ~racyWrite)'
          => CarriesOn(sv)'
    BY <1>1
  <1> QED
    BY <1>2, <1>3, Invariance, PTL DEF Spec

\* The ids of an account are settled by the first write that no other overtook:
\* only an overtaken request replaces ids that are already there.
THEOREM IdsSettleHolds == Spec => IdsSettle
  <1> DEFINE Settled == (ids # Zero /\ ids' # ids) =>
         \E r \in Reqs : pc[r] = "setIds" /\ raced[r] /\ Moves(r)
  <1>1. ASSUME IInv, [Next]_vars
        PROVE  Settled
    <2> SUFFICES ASSUME ids # Zero, ids' # ids
                 PROVE  \E r \in Reqs : pc[r] = "setIds" /\ raced[r] /\ Moves(r)
      OBVIOUS
    <2>1. PICK r \in Reqs : SetIds(r)
      BY <1>1, RowWriters DEF UpdateStats, StoreSystem, DeleteSystem
    <2>2. pc[r] = "setIds" /\ Moves(r)
      BY <1>1, <2>1 DEF SetIds, Continue, Moves, IInv, TypeInv, ControlOK
    <2>3. ~raced[r] => ids = Zero
      BY <1>1, <2>2 DEF IInv, CheckedOK, CheckedAt
    <2> QED
      BY <2>2, <2>3
  <1>2. IInv /\ [Next]_vars => [Settled]_vars
    BY <1>1
  <1>3. Spec => [][Settled]_vars
    BY <1>2, Invariance, PTL DEF Spec
  <1> QED
    BY <1>3 DEF IdsSettle

\* Only StoreSession and DeleteSession change the runs.
LEMMA SessionWriters ==
    ASSUME [Next]_vars, session' # session
    PROVE  \E r \in Reqs : StoreSession(r) \/ DeleteSession(r)
  <1>1. ASSUME NEW r \in Reqs, NEW q \in Requests, Begin(r, q)
        PROVE  FALSE
    BY <1>1 DEF Begin, db
  <1>2. ASSUME NEW r \in Reqs, Step(r), ~StoreSession(r), ~DeleteSession(r)
        PROVE  FALSE
    BY <1>2 DEF Step, CheckActive, ClaimActive, TakeOver, LoadSystem, FetchIds,
       SetIds, CheckSystem, CheckSession, UpdateStats, StoreSystem,
       DeleteSystem, ReadSession, Send, Reply, db
  <1>3. ASSUME NEW r \in Reqs, Abort(r)
        PROVE  FALSE
    BY <1>3 DEF Abort, db
  <1>4. CASE UNCHANGED vars
    BY <1>4 DEF vars, db
  <1> QED
    BY <1>1, <1>2, <1>3, <1>4 DEF Next

\* The wave of a stored run goes back only through a request during which
\* another one has written.
THEOREM NoWaveRollBack == Spec => WaveNeverRollsBack
  <1> DEFINE Raced == \E r \in Reqs : pc[r] = "putSession" /\ raced[r] /\ Moves(r)
             Back(s) == /\ session[s] # None /\ session'[s] # None
                        /\ session[s].seed = session'[s].seed
                        /\ session'[s].wave < session[s].wave
             Kept == \A s \in Slots : Back(s) => Raced
  <1>1. ASSUME IInv, [Next]_vars
        PROVE  Kept
    <2> SUFFICES ASSUME NEW s \in Slots, Back(s) PROVE Raced
      OBVIOUS
    <2>1. session[s] \in SessionSaves /\ session[s].wave \in Nat
      BY <1>1, SaveSyncAssumption DEF IInv, TypeInv, DataOK, SessionSave
    <2>2. session'[s] # session[s]
      BY <2>1
    <2>3. PICK r \in Reqs : StoreSession(r) \/ DeleteSession(r)
      BY <1>1, <2>2, SessionWriters
    <2>4. CASE DeleteSession(r)
      BY <1>1, <2>2, <2>4 DEF DeleteSession, IInv, TypeInv, DataOK
    <2>5. CASE StoreSession(r)
      <3>1. pc[r] = "putSession" /\ Moves(r)
        BY <1>1, <2>5
        DEF StoreSession, Continue, Moves, IInv, TypeInv, ControlOK
      <3>2. s = req[r].slot /\ session'[s] = req[r].ses
        BY <1>1, <2>2, <2>5 DEF StoreSession, IInv, TypeInv, DataOK
      <3>3. ~raced[r] => SessionAccepted(req[r])
        BY <1>1, <3>1 DEF IInv, CheckedOK, CheckedAt
      <3>4. req[r].ses \in SessionSaves
        BY <1>1, <3>1, InFlightRequest DEF IInv, PathAt
      <3>5. req[r].ses.wave \in Nat
        BY <3>4, SaveSyncAssumption DEF SessionSave
      <3>6. CASE raced[r]
        BY <3>1, <3>6
      <3>7. CASE ~raced[r]
        BY <2>1, <3>2, <3>3, <3>5, <3>7 DEF SessionAccepted
      <3> QED
        BY <3>6, <3>7
    <2> QED
      BY <2>3, <2>4, <2>5
  <1>2. IInv /\ [Next]_vars => [Kept]_vars
    BY <1>1
  <1>3. Spec => [][Kept]_vars
    BY <1>2, Invariance, PTL DEF Spec
  <1> QED
    BY <1>3 DEF WaveNeverRollsBack
-----------------------------------------------------------------------------
(* A request that failed can be sent again *)

Past == {"fetchIds", "setIds", "oldSystem", "oldSession", "putSession",
         "stats", "putSystem", "reply"}

\* What a request has found or left behind it at its statement: the client is
\* the active one, the run is stored, the ids and the save are stored.
WrittenAt(r) ==
    /\ (req[r].op \in Updates \cup {"sysVerify"} /\ pc[r] \in Past)
         => IsActiveSession(req[r].client)
    /\ (req[r].op \in Updates /\ pc[r] = "reply")
         => ids = req[r].sys.id /\ system = req[r].sys
    /\ (\/ req[r].op = "updateAll" /\ pc[r] \in {"stats", "putSystem", "reply"}
        \/ req[r].op = "sesUpdate" /\ pc[r] = "reply")
         => (req[r].slot \in Slots => session[req[r].slot] = req[r].ses)

\* What a request that no other has overtaken has written is still there.
WrittenOK == \A r \in Reqs : ~raced[r] => WrittenAt(r)

\* While the client has a request to repeat, nothing else runs.
RetryOK == retry # None => InFlight = {} /\ RetryPasses

\* A save with a play time and not below the minimum version is accepted over
\* itself.
LEMMA AcceptedOverItself ==
    ASSUME NEW sv \in SystemSaves, sv.play # NoNumber, Supported(sv.ver)
    PROVE  validatePlaytime(sv, sv) /\ validateSystemVersion(sv, sv)
  <1>1. sv.play \in Nat /\ sv.ver \in Version /\ Parses(sv.ver)
    BY SaveSyncAssumption DEF SystemSave, Supported
  <1>2. \A i \in 1 .. 4 : Part(sv.ver, i) \in Nat
    BY <1>1, ParsedParts DEF Part
  <1>3. NotLater(sv.ver, sv.ver)
    BY <1>2 DEF NotLater
  <1>4. CompareGameVersion(sv.ver, sv.ver) <= 0
    BY <1>1, <1>3, CompareMeetsOrder
  <1>5. ValidMigrators(sv.mig, sv.mig)
    BY NoNumberAssumption DEF ValidMigrators, Timestamp
  <1> QED
    BY <1>1, <1>4, <1>5 DEF validatePlaytime, validateSystemVersion

\* What the other requests have written stays when r writes nothing.
LEMMA WrittenStays ==
    ASSUME WrittenOK, NEW r \in Reqs, NEW x \in Reqs \ {r},
           UNCHANGED <<active, rows>>,
           pc'[x] = pc[x], req'[x] = req[x], raced'[x] = raced[x], ~raced'[x]
    PROVE  WrittenAt(x)'
  BY DEF WrittenOK, WrittenAt, IsActiveSession, rows

\* A handler that returns leaves nothing to rely on.
LEMMA WrittenFinish ==
    ASSUME TypeInv, WrittenOK, NEW r \in Reqs, Finish(r),
           UNCHANGED <<active, rows>>
    PROVE  WrittenOK'
  <1>1. pc'[r] = "idle"
    BY DEF Finish, TypeInv, ControlOK
  <1>2. WrittenAt(r)'
    BY <1>1 DEF WrittenAt, Past
  <1>3. \A x \in Reqs \ {r} :
          pc'[x] = pc[x] /\ req'[x] = req[x] /\ raced'[x] = raced[x]
    BY DEF Finish, TypeInv, ControlOK
  <1> QED
    BY <1>2, <1>3, WrittenStays DEF WrittenOK

\* A statement that only reads.
LEMMA WrittenRead ==
    ASSUME TypeInv, WrittenOK, NEW r \in Reqs, NEW l \in Labels, Continue(r, l),
           UNCHANGED <<active, rows>>, UNCHANGED raced,
           ~raced[r] => WrittenAt(r)'
    PROVE  WrittenOK'
  <1>1. \A x \in Reqs \ {r} :
          pc'[x] = pc[x] /\ req'[x] = req[x] /\ raced'[x] = raced[x]
    BY DEF Continue, TypeInv, ControlOK
  <1> QED
    BY <1>1, WrittenStays DEF WrittenOK

\* A statement that writes overtakes every other request in flight.
LEMMA WrittenWrite ==
    ASSUME TypeInv, NEW r \in Reqs, NEW l \in Labels, Continue(r, l),
           Overtake(r), ~raced[r] => WrittenAt(r)'
    PROVE  WrittenOK'
  <1>1. raced'[r] = raced[r]
    BY DEF Overtake, TypeInv, ControlOK
  <1>2. ASSUME NEW x \in Reqs \ {r}, ~raced'[x] PROVE WrittenAt(x)'
    <2>1. pc'[x] = "idle"
      BY <1>2 DEF Continue, Overtake, TypeInv, ControlOK
    <2> QED
      BY <2>1 DEF WrittenAt, Past
  <1> QED
    BY <1>1, <1>2 DEF WrittenOK

\* An update that goes on from one checked statement to the next before it
\* answers has the client still active.
LEMMA StillActive ==
    ASSUME TypeInv, WrittenOK, NEW r \in Reqs, NEW l \in Past \ {"reply"},
           pc[r] \in Past, Continue(r, l), UNCHANGED active,
           ~raced[r],
           (req[r].op = "updateAll" /\ l \in {"stats", "putSystem"}) =>
               (req[r].slot \in Slots => session'[req[r].slot] = req[r].ses)
    PROVE  WrittenAt(r)'
  <1>1. pc'[r] = l /\ req' = req
    BY ContinueAt
  <1>2. req[r].op \in Updates \cup {"sysVerify"}
          => IsActiveSession(req[r].client)
    BY DEF WrittenOK, WrittenAt
  <1> QED
    BY <1>1, <1>2 DEF WrittenAt, IsActiveSession, Updates

\* What a request has written is still there after any step.
LEMMA WrittenNext ==
    ASSUME IInv, WrittenOK, [Next]_vars
    PROVE  WrittenOK'
  <1>0. TypeInv
    BY DEF IInv
  <1>1. ASSUME NEW r \in Reqs, NEW q \in Requests, Begin(r, q)
        PROVE  WrittenOK'
    <2>1. pc'[r] \notin Past
      BY <1>0, <1>1 DEF Begin, TypeInv, ControlOK, Past
    <2>2. WrittenAt(r)'
      BY <2>1 DEF WrittenAt, Past
    <2>3. \A x \in Reqs \ {r} :
            pc'[x] = pc[x] /\ req'[x] = req[x] /\ raced'[x] = raced[x]
      BY <1>0, <1>1 DEF Begin, TypeInv, ControlOK
    <2>4. UNCHANGED <<active, rows>>
      BY <1>1 DEF Begin, db, rows
    <2> QED
      BY <2>2, <2>3, <2>4, WrittenStays DEF WrittenOK
  <1>2. ASSUME NEW r \in Reqs, CheckActive(r) PROVE WrittenOK'
    <2>1. UNCHANGED <<active, rows>>
      BY <1>2 DEF CheckActive, db, rows
    <2>2. CASE Finish(r)
      BY <1>0, <2>1, <2>2, WrittenFinish
    <2>3. CASE ~Finish(r)
      <3>1. PICK l \in Labels :
               /\ Continue(r, l)
               /\ UNCHANGED raced
               /\ l \in Past => /\ l = WhenActive(req[r].op)
                                /\ IsActiveSession(req[r].client)
        BY <1>2, <2>3 DEF CheckActive, WhenActive, Labels, Past
      <3>2. pc'[r] = l /\ req' = req
        BY <1>0, <3>1, ContinueAt
      <3>3. PathAt("isActive", req[r])
        BY <1>0, <1>2, InFlightRequest DEF CheckActive
      <3>4. WrittenAt(r)'
        BY <2>1, <3>1, <3>2, <3>3
        DEF WrittenAt, WhenActive, PathAt, Updates, IsActiveSession, Past
      <3> QED
        BY <1>0, <2>1, <3>1, <3>4, WrittenRead
    <2> QED
      BY <2>2, <2>3
  <1>3. ASSUME NEW r \in Reqs, ClaimActive(r) PROVE WrittenOK'
    <2>1. pc'[r] = WhenActive(req[r].op) /\ req' = req
      BY <1>0, <1>3, ContinueAt DEF ClaimActive
    <2>2. PathAt("claim", req[r]) /\ WhenActive(req[r].op) \in Labels
      BY <1>0, <1>3, InFlightRequest, WhenActivePath DEF ClaimActive, PathAt
    <2>3. WrittenAt(r)'
      BY <1>3, <2>1, <2>2
      DEF ClaimActive, WrittenAt, WhenActive, PathAt, Updates, IsActiveSession
    <2> QED
      BY <1>0, <1>3, <2>2, <2>3, WrittenWrite DEF ClaimActive
  <1>4. ASSUME NEW r \in Reqs, TakeOver(r) PROVE WrittenOK'
    <2>1. PICK l \in Labels : Continue(r, l) /\ l # "reply"
      BY <1>4 DEF TakeOver, Labels
    <2>2. pc'[r] = l /\ req' = req
      BY <1>0, <2>1, ContinueAt
    <2>3. req[r].op \notin Updates /\ (req[r].op = "sysVerify" => l = "load")
      BY <1>0, <1>4, <2>1, <2>2, InFlightRequest, ContinueAt
      DEF TakeOver, PathAt, Updates
    <2>4. WrittenAt(r)'
      BY <2>1, <2>2, <2>3 DEF WrittenAt, Updates, Past
    <2> QED
      BY <1>0, <1>4, <2>1, <2>4, WrittenWrite DEF TakeOver
  <1>5. ASSUME NEW r \in Reqs, LoadSystem(r) \/ ReadSession(r)
        PROVE  WrittenOK'
    <2>1. UNCHANGED <<active, rows>>
      BY <1>5 DEF LoadSystem, ReadSession, db, rows
    <2>2. CASE Finish(r)
      BY <1>0, <2>1, <2>2, WrittenFinish
    <2>3. ASSUME NEW l \in {"send", "reply"}, Continue(r, l), UNCHANGED raced,
                 l = "reply" => req[r].op # "sysVerify"
          PROVE  WrittenOK'
      <3>1. pc'[r] = l /\ req' = req
        BY <1>0, <2>3, ContinueAt
      <3>2. req[r].op \notin Updates \cup {"sesUpdate"}
        BY <1>0, <1>5, InFlightRequest
        DEF LoadSystem, ReadSession, PathAt, Updates
      <3>3. WrittenAt(r)'
        BY <2>3, <3>1, <3>2 DEF WrittenAt, Updates, Past
      <3> QED
        BY <1>0, <2>1, <2>3, <3>3, WrittenRead DEF Labels
    <2>4. CASE LoadSystem(r)
      BY <2>2, <2>3, <2>4 DEF LoadSystem
    <2>5. CASE ReadSession(r)
      <3>1. req[r].op # "sysVerify"
        BY <1>0, <2>5, InFlightRequest DEF ReadSession, PathAt
      <3> QED
        BY <2>3, <2>5, <3>1 DEF ReadSession, history
    <2> QED
      BY <1>5, <2>4, <2>5
  <1>6. ASSUME NEW r \in Reqs,
               FetchIds(r) \/ CheckSystem(r) \/ CheckSession(r)
        PROVE  WrittenOK'
    <2>1. UNCHANGED <<active, rows>> /\ pc[r] \in Past
      BY <1>6 DEF FetchIds, CheckSystem, CheckSession, db, rows, Past
    <2>2. CASE Finish(r)
      BY <1>0, <2>1, <2>2, WrittenFinish
    <2>3. CASE ~Finish(r)
      <3>1. PICK l \in Past \ {"reply"} :
               /\ Continue(r, l)
               /\ UNCHANGED raced
               /\ l \in {"stats", "putSystem"} => req[r].op # "updateAll"
        BY <1>6, <2>3 DEF FetchIds, CheckSystem, CheckSession, Past
      <3>2. ~raced[r] => WrittenAt(r)'
        BY <1>0, <2>1, <3>1, StillActive
      <3> QED
        BY <1>0, <2>1, <3>1, <3>2, WrittenRead DEF Labels, Past
    <2> QED
      BY <2>2, <2>3
  <1>7. ASSUME NEW r \in Reqs, SetIds(r) PROVE WrittenOK'
    <2>1. /\ Continue(r, "oldSystem") /\ Overtake(r) /\ UNCHANGED active
          /\ pc[r] \in Past /\ "oldSystem" \in Past \ {"reply"}
      BY <1>7 DEF SetIds, Past
    <2>2. ~raced[r] => WrittenAt(r)'
      BY <1>0, <2>1, StillActive
    <2> QED
      BY <1>0, <2>1, <2>2, WrittenWrite DEF Labels
  <1>8. ASSUME NEW r \in Reqs, StoreSession(r) PROVE WrittenOK'
    <2>1. req[r].slot \in Slots => session'[req[r].slot] = req[r].ses
      BY <1>0, <1>8 DEF StoreSession, TypeInv, DataOK
    <2>2. pc[r] \in Past /\ Overtake(r) /\ UNCHANGED active
      BY <1>8 DEF StoreSession, Past
    <2>3. CASE req[r].op = "updateAll"
      <3>1. Continue(r, "stats") /\ "stats" \in Past \ {"reply"}
        BY <1>8, <2>3 DEF StoreSession, Past
      <3>2. ~raced[r] => WrittenAt(r)'
        BY <1>0, <2>1, <2>2, <3>1, StillActive
      <3> QED
        BY <1>0, <2>2, <3>1, <3>2, WrittenWrite DEF Labels
    <2>4. CASE req[r].op # "updateAll"
      <3>1. Continue(r, "reply") /\ req[r].op = "sesUpdate"
        BY <1>0, <1>8, <2>4, InFlightRequest DEF StoreSession, PathAt
      <3>2. pc'[r] = "reply" /\ req' = req
        BY <1>0, <3>1, ContinueAt
      <3>3. WrittenAt(r)'
        BY <2>1, <3>1, <3>2 DEF WrittenAt, Updates
      <3> QED
        BY <1>0, <2>2, <3>1, <3>3, WrittenWrite DEF Labels
    <2> QED
      BY <2>3, <2>4
  <1>9. ASSUME NEW r \in Reqs, UpdateStats(r) PROVE WrittenOK'
    <2>1. CASE req[r].sys.id = Zero \/ ~req[r].sys.numbers
      BY <1>0, <1>9, <2>1, WrittenFinish DEF UpdateStats, rows
    <2>2. CASE req[r].sys.id # Zero /\ req[r].sys.numbers
      <3>1. /\ Continue(r, "putSystem") /\ Overtake(r)
            /\ UNCHANGED <<active, session>>
            /\ pc[r] = "stats" /\ pc[r] \in Past
            /\ "putSystem" \in Past \ {"reply"}
        BY <1>9, <2>2 DEF UpdateStats, Past
      <3>2. (~raced[r] /\ req[r].op = "updateAll") =>
               (req[r].slot \in Slots => session[req[r].slot] = req[r].ses)
        BY <3>1 DEF WrittenOK, WrittenAt
      <3>3. ~raced[r] => WrittenAt(r)'
        BY <1>0, <3>1, <3>2, StillActive
      <3> QED
        BY <1>0, <3>1, <3>3, WrittenWrite DEF Labels
    <2> QED
      BY <2>1, <2>2
  <1>10. ASSUME NEW r \in Reqs, StoreSystem(r) PROVE WrittenOK'
    <2>1. /\ pc'[r] = "reply" /\ req' = req
          /\ UNCHANGED <<active, ids, session>>
          /\ system' = req[r].sys
      BY <1>0, <1>10, ContinueAt DEF StoreSystem
    <2>2. req[r].op \in Updates
      BY <1>0, <1>10, InFlightRequest DEF StoreSystem, PathAt
    <2>3. ~raced[r] => CheckedAt(r) /\ WrittenAt(r)
      BY DEF IInv, CheckedOK, WrittenOK
    <2>4. ~raced[r] => WrittenAt(r)'
      BY <1>10, <2>1, <2>2, <2>3
      DEF StoreSystem, CheckedAt, WrittenAt, Updates, Past, IsActiveSession
    <2> QED
      BY <1>0, <1>10, <2>4, WrittenWrite DEF StoreSystem, Labels
  <1>11. ASSUME NEW r \in Reqs, DeleteSystem(r) \/ DeleteSession(r)
         PROVE  WrittenOK'
    <2>1. Continue(r, "reply") /\ Overtake(r)
      BY <1>11 DEF DeleteSystem, DeleteSession
    <2>2. pc'[r] = "reply" /\ req' = req
      BY <1>0, <2>1, ContinueAt
    <2>3. req[r].op \notin Updates \cup {"sesUpdate", "sysVerify"}
      BY <1>0, <1>11, InFlightRequest
      DEF DeleteSystem, DeleteSession, PathAt, Updates
    <2>4. WrittenAt(r)'
      BY <2>2, <2>3 DEF WrittenAt, Updates
    <2> QED
      BY <1>0, <2>1, <2>4, WrittenWrite DEF Labels
  <1>12. ASSUME NEW r \in Reqs, Send(r) \/ Reply(r) \/ Abort(r)
         PROVE  WrittenOK'
    BY <1>0, <1>12, WrittenFinish DEF Send, Reply, Abort, db, rows
  <1>13. CASE UNCHANGED vars
    BY <1>13 DEF vars, db, history, WrittenOK, WrittenAt, IsActiveSession
  <1> QED
    BY <1>1, <1>2, <1>3, <1>4, <1>5, <1>6, <1>7, <1>8, <1>9, <1>10, <1>11,
       <1>12, <1>13
    DEF Next, Step

\* A request that fails past its checks, not overtaken, would pass them again.
LEMMA FailedPassesAgain ==
    ASSUME IInv, WrittenOK, NEW r \in Reqs, ~raced[r],
           pc[r] \in {"putSession", "stats", "putSystem", "reply"},
           req[r].op \in {"sysUpdate", "updateAll", "sesUpdate"}
    PROVE  WouldPass(req[r])
  <1> DEFINE q == req[r]
  <1>1. CheckedAt(r) /\ WrittenAt(r)
    BY DEF IInv, CheckedOK, WrittenOK
  <1>2. /\ PathAt(pc[r], q)
        /\ q.op \in Updates => q.sys \in SystemSaves
        /\ q.op \in {"updateAll", "sesUpdate"} => q.ses \in SessionSaves
    BY InFlightRequest DEF IInv
  <1>3. ASSUME q.op \in Updates
        PROVE  /\ IsActiveSession(q.client) /\ IdsMatch(q)
               /\ SystemAccepted(q) \/ TakenUnchecked(q)
    <2>1. IsActiveSession(q.client)
      BY <1>1, <1>3 DEF WrittenAt, Past
    <2>2. CASE pc[r] = "reply"
      <3>1. ids = q.sys.id /\ system = q.sys
        BY <1>1, <1>3, <2>2 DEF WrittenAt
      <3>2. q.sys \in SystemSaves
        BY <1>2, <1>3
      <3>3. SystemAccepted(q) \/ TakenUnchecked(q)
        <4>1. CASE q.sys.play # NoNumber /\ Supported(q.sys.ver)
          BY <3>1, <3>2, <4>1, AcceptedOverItself DEF SystemAccepted
        <4>2. CASE ~(q.sys.play # NoNumber /\ Supported(q.sys.ver))
          <5>1. system # None
            BY <3>1, <3>2, SaveSyncAssumption
          <5> QED
            BY <3>1, <4>2, <5>1 DEF TakenUnchecked
        <4> QED
          BY <4>1, <4>2
      <3> QED
        BY <2>1, <3>1, <3>3 DEF IdsMatch
    <2>3. CASE pc[r] # "reply"
      BY <1>1, <1>2, <1>3, <2>1, <2>3
      DEF CheckedAt, InSessionPart, PathAt, Updates, IdsMatch
    <2> QED
      BY <2>2, <2>3
  <1>4. ASSUME q.op \in {"updateAll", "sesUpdate"}
        PROVE  SessionAccepted(q)
    <2>1. CASE pc[r] = "putSession"
      BY <1>1, <2>1 DEF CheckedAt
    <2>2. CASE pc[r] # "putSession"
      <3>1. q.slot \in Slots => session[q.slot] = q.ses
        BY <1>1, <1>2, <1>4, <2>2 DEF WrittenAt, PathAt, Updates
      <3>2. q.ses.wave \in Nat
        BY <1>2, <1>4, SaveSyncAssumption DEF SessionSave
      <3> QED
        BY <3>1, <3>2 DEF SessionAccepted
    <2> QED
      BY <2>1, <2>2
  <1> QED
    BY <1>3, <1>4 DEF WouldPass, Updates

\* The request to repeat would pass whatever step comes next.
LEMMA RetryNext ==
    ASSUME IInv, WrittenOK, RetryOK, [Next]_vars
    PROVE  RetryOK'
  <1>0. pc \in [Reqs -> Labels] /\ TypeInv
    BY DEF IInv, TypeInv, ControlOK
  <1>1. ASSUME NEW r \in Reqs, NEW q \in Requests, Begin(r, q)
        PROVE  RetryOK'
    BY <1>1 DEF Begin, RetryOK
  <1>2. ASSUME NEW r \in Reqs, Step(r)
        PROVE  RetryOK'
    <2>1. pc[r] # "idle" /\ UNCHANGED retry
      BY <1>2
      DEF Step, CheckActive, ClaimActive, TakeOver, LoadSystem, FetchIds,
          SetIds, CheckSystem, CheckSession, StoreSession, UpdateStats,
          StoreSystem, DeleteSystem, ReadSession, DeleteSession, Send, Reply,
          Overtake, history
    <2>2. retry = None
      BY <2>1 DEF RetryOK, InFlight
    <2> QED
      BY <2>1, <2>2 DEF RetryOK
  <1>3. ASSUME NEW r \in Reqs, Abort(r)
        PROVE  RetryOK'
    <2>1. retry = None
      BY <1>3 DEF Abort, RetryOK, InFlight
    <2>2. CASE retry' # None
      <3>1. /\ retry' = req[r] /\ InFlight = {r} /\ ~raced[r]
            /\ pc[r] \in {"putSession", "stats", "putSystem", "reply"}
            /\ req[r].op \in {"sysUpdate", "updateAll", "sesUpdate"}
        BY <1>3, <2>1, <2>2 DEF Abort
      <3>2. InFlight' = {}
        BY <1>0, <1>3, <3>1 DEF Abort, Finish, InFlight
      <3>3. WouldPass(req[r])
        BY <3>1, FailedPassesAgain
      <3>4. UNCHANGED <<active, rows>>
        BY <1>3 DEF Abort, db, rows
      <3>5. RetryPasses'
        BY <3>1, <3>3, <3>4
        DEF RetryPasses, WouldPass, IsActiveSession, IdsMatch, SystemAccepted,
            TakenUnchecked, SessionAccepted, validatePlaytime, validateSystemVersion, rows
      <3> QED
        BY <3>2, <3>5 DEF RetryOK
    <2> QED
      BY <2>2 DEF RetryOK
  <1>4. CASE UNCHANGED vars
    BY <1>4
    DEF vars, db, history, RetryOK, InFlight, RetryPasses, WouldPass,
        IsActiveSession, IdsMatch, SystemAccepted, TakenUnchecked,
        SessionAccepted, validatePlaytime, validateSystemVersion
  <1> QED
    BY <1>1, <1>2, <1>3, <1>4 DEF Next

\* An update that failed half way, or whose answer was lost, passes every check
\* when it is sent again before anything else, for any payloads and failures.
THEOREM RetryPassesHolds == Spec => []RetryPasses
  <1>1. Init => WrittenOK /\ RetryOK
    BY DEF Init, WrittenOK, WrittenAt, Past, RetryOK
  <1>2. IInv /\ WrittenOK /\ RetryOK /\ [Next]_vars => WrittenOK' /\ RetryOK'
    BY WrittenNext, RetryNext
  <1>3. WrittenOK /\ RetryOK => RetryPasses
    BY DEF RetryOK, RetryPasses
  <1> QED
    BY <1>1, <1>2, <1>3, Invariance, PTL DEF Spec

-----------------------------------------------------------------------------
(* The save goes from one client to the next *)

\* The active client holds the stored save, or was made active without being
\* sent it since; no other client is owed it.  A request that found no active
\* client becomes it only where there still is none, and then there is no save.
Handed ==
    /\ active = None => system = None
    /\ \A c \in Clients : copy[c] = "unsent" => active = c
    /\ (active \notin {None, BlankClient} /\ system # None)
         => copy[active] \in {"current", "unsent"}
    /\ \A r \in Reqs : (pc[r] = "claim" /\ ~raced[r]) => active = None

\* The invariant of the hand-off, on any endpoints and with any failures.
HandInv == ~racyWrite => Handed

\* A step of r that leaves the active client, the save and the copies alone and
\* does not lead to a claim.
LEMMA QuietHanded ==
    ASSUME TypeInv, Handed, NEW r \in Reqs, UNCHANGED <<active, system, copy>>,
           pc'[r] # "claim",
           \A x \in Reqs \ {r} : pc'[x] = pc[x] /\ (raced[x] => raced'[x])
    PROVE  Handed'
  BY DEF Handed

\* The same of a step that ends the request.
LEMMA FinishHanded ==
    ASSUME TypeInv, Handed, NEW r \in Reqs, Finish(r),
           UNCHANGED <<active, system, copy>>
    PROVE  Handed'
  <1>1. /\ pc'[r] # "claim"
        /\ \A x \in Reqs \ {r} : pc'[x] = pc[x] /\ raced'[x] = raced[x]
    BY DEF Finish, TypeInv, ControlOK
  <1> QED
    BY <1>1, QuietHanded

\* A write leaves no other claim that counts on what it found.
LEMMA NoClaimLeft ==
    ASSUME TypeInv, NEW r \in Reqs, NEW l \in Labels \ {"claim"},
           Continue(r, l), Overtake(r)
    PROVE  \A x \in Reqs : pc'[x] = "claim" => raced'[x]
  BY DEF Continue, Overtake, TypeInv, ControlOK

\* A write is racy from the moment an overtaken request made one.
LEMMA CleanWrite ==
    ASSUME NEW r \in Reqs, Overtake(r), ~racyWrite'
    PROVE  ~racyWrite /\ ~raced[r]
  BY DEF Overtake

\* The hand-off survives every step that no overtaken request makes.
LEMMA HandedNext ==
    ASSUME IInv, WrittenOK, HandInv, [Next]_vars, ~racyWrite'
    PROVE  Handed'
  <1>0. TypeInv /\ (racyWrite \/ Handed)
    BY DEF IInv, HandInv
  <1>1. ASSUME NEW r \in Reqs, NEW q \in Requests, Begin(r, q)
        PROVE  Handed'
    <2>1. /\ pc'[r] # "claim"
          /\ \A x \in Reqs \ {r} : pc'[x] = pc[x] /\ raced'[x] = raced[x]
          /\ UNCHANGED <<active, system, copy, racyWrite>>
      BY <1>0, <1>1 DEF Begin, TypeInv, ControlOK, db
    <2> QED
      BY <1>0, <2>1, QuietHanded
  <1>2. ASSUME NEW r \in Reqs, CheckActive(r) PROVE Handed'
    <2>1. UNCHANGED <<active, system, copy, racyWrite>>
      BY <1>2 DEF CheckActive, db
    <2>2. CASE Finish(r)
      BY <1>0, <2>1, <2>2, FinishHanded
    <2>3. CASE ~Finish(r)
      <3>1. PICK l \in Labels : /\ Continue(r, l) /\ UNCHANGED raced
                                /\ l = "claim" => active = None
        BY <1>2, <2>3 DEF CheckActive, WhenActive, Labels
      <3>2. /\ pc'[r] = l
            /\ \A x \in Reqs \ {r} : pc'[x] = pc[x]
        BY <1>0, <3>1 DEF Continue, TypeInv, ControlOK
      <3> QED
        BY <1>0, <2>1, <3>1, <3>2 DEF Handed
    <2> QED
      BY <2>2, <2>3
  <1>3. ASSUME NEW r \in Reqs, ClaimActive(r) PROVE Handed'
    <2>1. /\ Continue(r, WhenActive(req[r].op)) /\ Overtake(r)
          /\ active' = req[r].client /\ UNCHANGED <<system, copy>>
          /\ pc[r] = "claim"
      BY <1>3 DEF ClaimActive
    <2>2. /\ WhenActive(req[r].op) \in Labels \ {"claim"}
          /\ req[r].client \in Clients
      BY <1>0, <2>1, InFlightRequest DEF WhenActive, Labels
    <2>3. active = None /\ system = None
      BY <1>0, <2>1, CleanWrite DEF Handed
    <2>4. \A c \in Clients : copy[c] # "unsent"
      BY <1>0, <2>1, <2>3, CleanWrite, SaveSyncAssumption DEF Handed
    <2> QED
      BY <2>1, <2>2, <2>3, <2>4, <1>0, NoClaimLeft DEF Handed
  <1>4. ASSUME NEW r \in Reqs, TakeOver(r) PROVE Handed'
    <2>1. /\ Overtake(r) /\ active' = req[r].client /\ UNCHANGED system
          /\ copy' = HandedTo(req[r].client)
      BY <1>4 DEF TakeOver
    <2>2. PICK l \in Labels \ {"claim"} : Continue(r, l)
      BY <1>4 DEF TakeOver, Labels
    <2>3. req[r].client \in Clients /\ req[r].client # None
      BY <1>0, <1>4, InFlightRequest, SaveSyncAssumption DEF TakeOver
    <2>4. /\ copy'[req[r].client] \in {"current", "unsent"}
          /\ \A c \in Clients : c # req[r].client => copy'[c] # "unsent"
      BY <2>1, <2>3 DEF HandedTo
    <2> QED
      BY <1>0, <2>1, <2>2, <2>3, <2>4, NoClaimLeft DEF Handed
  <1>5. ASSUME NEW r \in Reqs, Send(r) PROVE Handed'
    <2>1. /\ pc'[r] # "claim"
          /\ \A x \in Reqs \ {r} : pc'[x] = pc[x] /\ raced'[x] = raced[x]
          /\ UNCHANGED <<active, system, racyWrite>>
      BY <1>0, <1>5 DEF Send, Finish, TypeInv, ControlOK, db
    <2>2. /\ copy \in [Clients -> {"none", "current", "stale", "unsent"}]
          /\ active \in Clients \cup {None}
      BY <1>0 DEF TypeInv, DataOK
    <2>3. \A c \in Clients : copy'[c] \in {copy[c], "current"}
      BY <1>5, <2>2 DEF Send
    <2> QED
      BY <1>0, <2>1, <2>2, <2>3 DEF Handed
  <1>6. ASSUME NEW r \in Reqs, StoreSystem(r) PROVE Handed'
    <2>1. /\ Continue(r, "reply") /\ Overtake(r) /\ UNCHANGED active
          /\ copy' = [Outdated EXCEPT ![req[r].client] = "current"]
          /\ pc[r] = "putSystem"
      BY <1>6 DEF StoreSystem
    <2>2. req[r].client \in Clients /\ req[r].op \in Updates
      BY <1>0, <2>1, InFlightRequest DEF PathAt
    <2>3. IsActiveSession(req[r].client) /\ Handed
      BY <1>0, <2>1, <2>2, CleanWrite DEF WrittenOK, WrittenAt, Past
    <2>4. /\ copy'[req[r].client] = "current"
          /\ \A c \in Clients : copy'[c] = "unsent" => copy[c] = "unsent"
      BY <2>1, <2>2 DEF Outdated
    <2>5. active # None
      BY <2>2, <2>3, SaveSyncAssumption DEF IsActiveSession
    <2> QED
      BY <1>0, <2>1, <2>2, <2>3, <2>4, <2>5, NoClaimLeft
      DEF Handed, IsActiveSession, Labels
  <1>7. ASSUME NEW r \in Reqs, DeleteSystem(r) PROVE Handed'
    <2>1. Continue(r, "reply") /\ Overtake(r) /\ UNCHANGED active
      BY <1>7 DEF DeleteSystem
    <2>2. Handed
      BY <1>0, <2>1, CleanWrite
    <2>3. CASE UNCHANGED <<system, copy>>
      BY <1>0, <2>1, <2>2, <2>3, NoClaimLeft DEF Handed, Labels
    <2>4. CASE system' = None /\ copy' = Outdated
      BY <1>0, <2>1, <2>2, <2>4, NoClaimLeft DEF Handed, Labels, Outdated
    <2> QED
      BY <1>7, <2>3, <2>4 DEF DeleteSystem
  <1> DEFINE Refused(r) == req[r].sys.id = Zero \/ ~req[r].sys.numbers
  <1>8. ASSUME NEW r \in Reqs,
               \/ SetIds(r) \/ StoreSession(r) \/ DeleteSession(r)
               \/ UpdateStats(r) /\ ~Refused(r)
        PROVE  Handed'
    <2>1. /\ Overtake(r) /\ UNCHANGED <<active, system, copy>>
          /\ \E l \in Labels \ {"claim"} : Continue(r, l)
      BY <1>8 DEF SetIds, StoreSession, DeleteSession, UpdateStats, Labels
    <2> QED
      BY <1>0, <2>1, NoClaimLeft, CleanWrite DEF Handed
  <1>9. ASSUME NEW r \in Reqs,
               \/ LoadSystem(r) \/ FetchIds(r) \/ CheckSystem(r)
               \/ CheckSession(r) \/ ReadSession(r) \/ Reply(r) \/ Abort(r)
               \/ UpdateStats(r) /\ Refused(r)
        PROVE  Handed'
    <2>1. UNCHANGED <<active, system, copy, racyWrite>>
      BY <1>9 DEF LoadSystem, FetchIds, CheckSystem, CheckSession, ReadSession,
         Reply, Abort, UpdateStats, db, history
    <2>2. \/ Finish(r)
          \/ UNCHANGED raced /\ \E l \in Labels \ {"claim"} : Continue(r, l)
      BY <1>9 DEF LoadSystem, FetchIds, CheckSystem, CheckSession, ReadSession,
         Reply, Abort, UpdateStats, Labels, history
    <2>3. CASE Finish(r)
      BY <1>0, <2>1, <2>3, FinishHanded
    <2>4. CASE UNCHANGED raced /\ \E l \in Labels \ {"claim"} : Continue(r, l)
      <3>1. pc'[r] # "claim" /\ \A x \in Reqs \ {r} : pc'[x] = pc[x]
        BY <1>0, <2>4 DEF Continue, TypeInv, ControlOK
      <3> QED
        BY <1>0, <2>1, <2>4, <3>1, QuietHanded
    <2> QED
      BY <2>2, <2>3, <2>4
  <1>10. CASE UNCHANGED vars
    BY <1>0, <1>10 DEF vars, db, history, Handed
  <1> QED
    BY <1>1, <1>2, <1>3, <1>4, <1>5, <1>6, <1>7, <1>8, <1>9, <1>10
    DEF Next, Step

\* What was written and what was handed over, in every reachable state.
LEMMA HandInvariance == Spec => [](IInv /\ WrittenOK /\ HandInv)
  <1>1. Init => WrittenOK /\ HandInv
    BY SaveSyncAssumption
    DEF Init, WrittenOK, WrittenAt, Past, HandInv, Handed
  <1>2. IInv /\ WrittenOK /\ HandInv /\ [Next]_vars => WrittenOK' /\ HandInv'
    BY WrittenNext, HandedNext DEF HandInv
  <1> QED
    BY <1>1, <1>2, Invariance, PTL DEF Spec

\* A request leaves the label of the store by storing, or ends.
LEMMA StoresBy ==
    ASSUME TypeInv, [Next]_vars, NEW r \in Reqs,
           pc[r] = "putSystem", pc'[r] = "reply"
    PROVE  StoreSystem(r)
  <1>0. pc \in [Reqs -> Labels]
    BY DEF TypeInv, ControlOK
  <1>1. ASSUME NEW x \in Reqs, NEW q \in Requests, Begin(x, q)
        PROVE  FALSE
    BY <1>0, <1>1 DEF Begin
  <1>2. ASSUME NEW x \in Reqs, Step(x) \/ Abort(x)
        PROVE  x = r /\ StoreSystem(r)
    <2>1. (\E l : Continue(x, l)) \/ Finish(x)
      BY <1>2
      DEF Step, CheckActive, ClaimActive, TakeOver, LoadSystem, FetchIds,
          SetIds, CheckSystem, CheckSession, StoreSession, UpdateStats,
          StoreSystem, DeleteSystem, ReadSession, DeleteSession, Send, Reply,
          Abort
    <2>2. x = r
      BY <1>0, <2>1 DEF Continue, Finish
    <2>3. ~Finish(r)
      BY <1>0 DEF Finish
    <2> QED
      BY <1>2, <2>2, <2>3
      DEF Step, CheckActive, ClaimActive, TakeOver, LoadSystem, FetchIds,
          SetIds, CheckSystem, CheckSession, StoreSession, UpdateStats,
          DeleteSystem, ReadSession, DeleteSession, Send, Reply, Abort
  <1>3. ~UNCHANGED vars
    BY DEF vars
  <1> QED
    BY <1>1, <1>2, <1>3 DEF Next

\* A client that passes for the active one, while there is a save, holds it or
\* is owed it.
LEMMA ActiveHandedOver ==
    ASSUME Handed, system # None, NEW c \in Clients, IsActiveSession(c)
    PROVE  HandedOver(c)
  BY SaveSyncAssumption DEF Handed, IsActiveSession, HandedOver

\* "Valid" is told only to a client that holds the stored save or that was made
\* active without being sent it, for any clients, endpoints and failures.
THEOREM ValidMeansHandedOverHolds == Spec => []ValidMeansHandedOver
  <1>1. ASSUME IInv, WrittenOK, HandInv PROVE ValidMeansHandedOver
    <2> SUFFICES ASSUME ~racyWrite, system # None, NEW r \in Reqs,
                        pc[r] = "reply", req[r].op = "sysVerify", ~raced[r]
                 PROVE  HandedOver(req[r].client)
      BY DEF ValidMeansHandedOver
    <2>1. IsActiveSession(req[r].client)
      BY <1>1 DEF WrittenOK, WrittenAt, Past
    <2>2. req[r].client \in Clients
      BY <1>1, InFlightRequest DEF IInv
    <2> QED
      BY <1>1, <2>1, <2>2, ActiveHandedOver DEF HandInv
  <1>2. IInv /\ WrittenOK /\ HandInv => ValidMeansHandedOver
    BY <1>1
  <1> QED
    BY <1>2, HandInvariance, PTL

\* A stored save is overwritten only by a client it was sent to or that was made
\* active without it, for any clients, endpoints and failures.
THEOREM OverwriteAfterHandOverHolds == Spec => OverwriteAfterHandOver
  <1> DEFINE Handing == \A r \in Reqs : (StoresOver(r) /\ ~racyWrite')
                                           => HandedOver(req[r].client)
  <1>1. ASSUME IInv, WrittenOK, HandInv, [Next]_vars
        PROVE  Handing
    <2> SUFFICES ASSUME NEW r \in Reqs, StoresOver(r), ~racyWrite'
                 PROVE  HandedOver(req[r].client)
      OBVIOUS
    <2>1. ~racyWrite /\ ~raced[r]
      <3>1. StoreSystem(r)
        BY <1>1, StoresBy DEF StoresOver, IInv
      <3> QED
        BY <3>1, CleanWrite DEF StoreSystem
    <2>2. req[r].client \in Clients /\ req[r].op \in Updates
      BY <1>1, InFlightRequest DEF StoresOver, IInv, PathAt
    <2>3. IsActiveSession(req[r].client)
      BY <1>1, <2>1, <2>2 DEF WrittenOK, WrittenAt, Past, StoresOver
    <2> QED
      BY <1>1, <2>1, <2>2, <2>3, ActiveHandedOver DEF HandInv, StoresOver
  <1>2. IInv /\ WrittenOK /\ HandInv /\ [Next]_vars => [Handing]_vars
    BY <1>1
  <1>3. Spec => [][Handing]_vars
    BY <1>2, HandInvariance, PTL DEF Spec
  <1> QED
    BY <1>3 DEF OverwriteAfterHandOver

=============================================================================
