--------------------------- MODULE AccountsProofs ---------------------------
(***************************************************************************)
(* Proofs about Accounts, for any numbers of requests, names, identities   *)
(* and tokens.                                                             *)
(***************************************************************************)
EXTENDS Accounts, TLAPS

AdminOps == {"adminLink", "adminUnlink", "adminUnlinkId"}

\* What Begin makes sure of.
Shape(q) ==
    /\ q \in Request
    /\ q.op = "login" => q.uid \in Uids
    /\ q.op # "login" => q.uid = None
    /\ q.op = "link" => q.id \in GoogleIds
    /\ q.op \in AdminOps \cup {"disconnect"} => q.provider \in Providers
    /\ q.op = "adminLink" => q.id \in IdsOf(q.provider)

\* The kinds of requests that run the statement l.
OpsAt(l) ==
    CASE l \in {"find", "register", "cheats", "refuse"} -> {"login"}
      [] l = "addSession"               -> {"login", "googleLogin"}
      [] l = "findLinked"               -> {"googleLogin"}
      [] l \in {"findSession", "link"}  -> {"link"}
      [] l = "endSession"               -> {"logout"}
      [] l = "unlink"                   -> {"disconnect"}
      [] l = "authenticate"             -> AdminOps \cup {"disconnect"}
      [] l \in {"authorize", "findUser", "adminWrite"} -> AdminOps
      [] OTHER -> AdminOps \cup {"login", "googleLogin"}

\* A request is at a statement of its kind.
ReqInv(r) ==
    at[r] # "idle" => Shape(req[r]) /\ req[r].op \in OpsAt(at[r])

\* Past the lookups the request holds an account.
UserInv(r) ==
    at[r] \in {"cheats", "addSession", "link", "unlink", "authorize",
               "findUser", "adminWrite"} => user[r] \in Rows

\* A login that goes on holds the account of its identity, and has set its cheat
\* flag by the time it adds a session.
LoginInv(r) ==
    at[r] \in {"cheats", "addSession"} /\ req[r].op = "login" =>
        /\ accounts[user[r]].firebase = req[r].uid
        /\ at[r] = "addSession" =>
               (accounts[user[r]].cheats <=> req[r].uid \in allowList)

\* A login whose identity has an account finds it.
KnewInv(r) ==
    knew[r] => /\ at[r] = "find" => Where("firebase", req[r].uid) # {}
               /\ at[r] \notin {"register", "refuse"}

LocalInv(r) == ReqInv(r) /\ UserInv(r) /\ LoginInv(r) /\ KnewInv(r)

\* Tokens that have not been drawn are nowhere.
DrawnInv ==
    /\ sessions[0] = None
    /\ \A t \in Tokens : t > drawn => sessions[t] = None
    /\ handed \subseteq 1 .. drawn /\ current \subseteq 1 .. drawn

\* Sessions belong to accounts, and tokens that were handed out to sessions.
SessionInv ==
    /\ \A t \in Tokens : sessions[t] # None => sessions[t] \in Rows
    /\ \A t \in handed : sessions[t] # None

\* A token under way to its client is stored, nobody else's, and unknown to the
\* requests that present one.
TokenInv ==
    /\ \A r \in Reqs : token[r] # 0 =>
           /\ token[r] <= drawn /\ sessions[token[r]] # None
           /\ token[r] \notin handed
    /\ \A r, x \in Reqs : token[r] # 0 /\ token[r] = token[x] => r = x
    /\ \A r, x \in Reqs : at[r] # "idle" /\ req[r].token # 0 =>
           /\ req[r].token <= drawn
           /\ req[r].token # token[x]

SharedInv == DrawnInv /\ SessionInv /\ TokenInv

\* The inductive invariant.
AccountsInv ==
    /\ TypeOK
    /\ \A r \in Reqs : LocalInv(r)
    /\ SharedInv
    /\ OneAccountEach
    /\ TokenOfItsIdentity
    /\ CheatsFollowAllowList

\* The types of what a request holds, and of what all share.
LocalTypes ==
    /\ at \in [Reqs -> Labels]
    /\ req \in [Reqs -> Request \cup {None}]
    /\ user \in [Reqs -> Usernames \cup {None}]
    /\ token \in [Reqs -> Tokens]
    /\ knew \in [Reqs -> BOOLEAN]

SharedTypes ==
    /\ accounts \in [Usernames -> Account \cup {None}]
    /\ sessions \in [Tokens -> Usernames \cup {None}]
    /\ drawn \in Tokens
    /\ allowList \in AllowLists
    /\ origin \in [Tokens -> Uids \cup {None}]
    /\ handed \subseteq Tokens \ {0} /\ current \subseteq Tokens \ {0}

\* A step of r leaves the other requests alone.
OthersSame(r) ==
    \A x \in Reqs \ {r} :
        /\ at'[x] = at[x] /\ req'[x] = req[x] /\ user'[x] = user[x]
        /\ token'[x] = token[x] /\ knew'[x] = knew[x]

\* Rows stay, with their identity; a cheat flag is set to what the allow-list says.
Grow ==
    \A u \in Rows :
        /\ accounts'[u] # None
        /\ accounts'[u].firebase = accounts[u].firebase
        /\ \/ accounts'[u].cheats = accounts[u].cheats
           \/ accounts'[u].cheats <=> accounts[u].firebase \in allowList

\* Request r draws no token, and presents the one it presented or one handed out.
NoNewToken(r) ==
    /\ token'[r] \in {0, token[r]}
    /\ \/ at'[r] = "idle"
       \/ at[r] # "idle" /\ req'[r] = req[r]
       \/ req'[r].token = 0 \/ req'[r].token \in handed

-----------------------------------------------------------------------------
(* Requests *)

\* What Requests holds: well formed requests with tokens that were handed out.
LEMMA RequestShape ==
    ASSUME TypeOK, NEW q \in Requests
    PROVE  Shape(q) /\ (q.token = 0 \/ q.token \in handed)
<1> USE AccountsAssumption, DataAssumption
<1>0. handed \subseteq Tokens /\ 0 \in Tokens
    BY DEF TypeOK, Tokens
<1>1. CASE q \in LoginRequests
    <2>1. q \in Request /\ q.op = "login" /\ q.uid \in Uids /\ q.token = 0
        BY <1>0, <1>1 DEF LoginRequests, Request
    <2> QED
        BY <2>1 DEF Shape, AdminOps
<1>2. CASE q \in GoogleRequests
    <2>1. /\ q \in Request /\ q.op \in {"link", "googleLogin"} /\ q.uid = None
          /\ q.id \in GoogleIds
          /\ q.token = 0 \/ q.token \in handed
        BY <1>0, <1>2 DEF GoogleRequests, Request, Providers, Ids
    <2> QED
        BY <2>1 DEF Shape, AdminOps
<1>3. CASE q \in LogoutRequests
    <2>1. /\ q \in Request /\ q.op \in {"logout", "disconnect"} /\ q.uid = None
          /\ q.op = "disconnect" => q.provider \in Providers
          /\ q.token \in handed
        BY <1>0, <1>3 DEF LogoutRequests, Request
    <2> QED
        BY <2>1 DEF Shape, AdminOps
<1>4. CASE q \in UNION {AdminRequests(t) : t \in handed}
    <2>1. PICK t \in handed : q \in AdminRequests(t)
        BY <1>4
    <2>2. PICK task \in AdminTasks : q = [task EXCEPT !.token = t]
        BY <2>1 DEF AdminRequests
    <2>3. task \in AdminTask
        OBVIOUS
    <2>4. /\ task \in Request /\ task.uid = None /\ task.provider # None
          /\ task.op \in AdminOps
          /\ task.op = "adminLink" => task.id \in IdsOf(task.provider)
        BY <2>3 DEF AdminTask, AdminOps
    <2>5. /\ q \in Request /\ q.token = t
          /\ q.op = task.op /\ q.uid = task.uid /\ q.provider = task.provider
          /\ q.id = task.id
        BY <1>0, <2>2, <2>4 DEF Request
    <2>6. q.provider \in Providers
        BY <2>4, <2>5 DEF Request
    <2> QED
        BY <2>4, <2>5, <2>6 DEF Shape, AdminOps
<1> QED
    BY <1>1, <1>2, <1>3, <1>4 DEF Requests

-----------------------------------------------------------------------------
(* Columns of the accounts table *)

\* What the columns that statements set can hold.
ColumnType(p) == CASE p = "google"  -> GoogleIds \cup {None}
                   [] p = "discord" -> DiscordIds \cup {None}
                   [] p = "cheats"  -> BOOLEAN

\* Column p of the accounts of S is v now, and nothing else has changed.
OnlySet(S, p, v) ==
    \A u \in Rows :
        /\ accounts'[u].firebase = accounts[u].firebase
        /\ p # "cheats" => accounts'[u].cheats = accounts[u].cheats
        /\ u \in S => accounts'[u][p] = v
        /\ u \notin S => accounts'[u] = accounts[u]
        /\ \A c \in Providers \ {p} : accounts'[u][c] = accounts[u][c]

\* A row with one column set.
LEMMA ColumnSet ==
    ASSUME NEW a \in Account, NEW p \in Providers \cup {"cheats"},
           NEW v \in ColumnType(p)
    PROVE  /\ [a EXCEPT ![p] = v] \in Account
           /\ [a EXCEPT ![p] = v][p] = v
           /\ [a EXCEPT ![p] = v].firebase = a.firebase
           /\ p # "cheats" => [a EXCEPT ![p] = v].cheats = a.cheats
           /\ \A c \in Providers \ {p} : [a EXCEPT ![p] = v][c] = a[c]
<1>1. CASE p = "google"
    BY <1>1 DEF Account, Providers, ColumnType
<1>2. CASE p = "discord"
    BY <1>2 DEF Account, Providers, ColumnType
<1>3. CASE p = "cheats"
    BY <1>3 DEF Account, Providers, ColumnType
<1> QED
    BY <1>1, <1>2, <1>3 DEF Providers

\* The table with one column of some accounts set: the same accounts, with the
\* same identities.
LEMMA SetFacts ==
    ASSUME accounts \in [Usernames -> Account \cup {None}],
           NEW S \in SUBSET Rows, NEW p \in Providers \cup {"cheats"},
           NEW v \in ColumnType(p), accounts' = Set(S, p, v)
    PROVE  /\ accounts' \in [Usernames -> Account \cup {None}]
           /\ Rows' = Rows
           /\ OnlySet(S, p, v)
<1> USE DataAssumption DEF Rows
<1>1. \A u \in Usernames :
        accounts'[u] = IF u \in S THEN [accounts[u] EXCEPT ![p] = v]
                                  ELSE accounts[u]
    BY DEF Set
<1>2. ASSUME NEW u \in Rows
      PROVE  /\ accounts[u] \in Account
             /\ [accounts[u] EXCEPT ![p] = v] \in Account
             /\ [accounts[u] EXCEPT ![p] = v][p] = v
             /\ [accounts[u] EXCEPT ![p] = v].firebase = accounts[u].firebase
             /\ p # "cheats" =>
                    [accounts[u] EXCEPT ![p] = v].cheats = accounts[u].cheats
             /\ \A c \in Providers \ {p} :
                    [accounts[u] EXCEPT ![p] = v][c] = accounts[u][c]
    <2>1. accounts[u] \in Account
        OBVIOUS
    <2> QED
        BY <2>1, ColumnSet
<1>3. \A u \in Rows : accounts'[u] \in Account
    BY <1>1, <1>2
<1>4. \A u \in Usernames \ Rows : accounts'[u] = None
    BY <1>1
<1>5. accounts' \in [Usernames -> Account \cup {None}]
    <2>1. accounts' = [u \in Usernames |-> accounts'[u]]
        BY DEF Set
    <2> QED
        BY <1>3, <1>4, <2>1
<1>6. Rows' = Rows
    BY <1>3, <1>4
<1>7. ASSUME NEW u \in Rows
      PROVE  /\ accounts'[u].firebase = accounts[u].firebase
             /\ p # "cheats" => accounts'[u].cheats = accounts[u].cheats
             /\ u \in S => accounts'[u][p] = v
             /\ u \notin S => accounts'[u] = accounts[u]
             /\ \A c \in Providers \ {p} : accounts'[u][c] = accounts[u][c]
    <2>1. CASE u \in S
        <3>1. accounts'[u] = [accounts[u] EXCEPT ![p] = v]
            BY <1>1, <2>1
        <3> HIDE DEF Rows
        <3> QED
            BY <1>2, <2>1, <3>1, Zenon
    <2>2. CASE u \notin S
        BY <1>1, <2>2
    <2> QED
        BY <2>1, <2>2
<1> QED
    BY <1>5, <1>6, <1>7 DEF OnlySet

-----------------------------------------------------------------------------
(* Control of one request *)

LEMMA TypeParts == TypeOK <=> LocalTypes /\ SharedTypes
    BY DEF TypeOK, LocalTypes, SharedTypes

LEMMA TypePartsNext == TypeOK' <=> LocalTypes' /\ SharedTypes'
    BY DEF TypeOK, LocalTypes, SharedTypes

\* A request that is over.
LEMMA EndFacts ==
    ASSUME LocalTypes, NEW r \in Reqs, End(r)
    PROVE  LocalTypes' /\ OthersSame(r) /\ LocalInv(r)' /\ NoNewToken(r)
           /\ token'[r] = 0
<1>1. LocalTypes' /\ OthersSame(r)
    BY AccountsAssumption DEF End, GoTo, LocalTypes, OthersSame, Labels, Tokens
<1>2. at'[r] = "idle" /\ token'[r] = 0 /\ knew'[r] = FALSE
    BY DEF End, GoTo, LocalTypes
<1> QED
    BY <1>1, <1>2 DEF LocalInv, ReqInv, UserInv, LoginInv, KnewInv, NoNewToken

\* A request that goes on with another statement.
LEMMA GoToFacts ==
    ASSUME LocalTypes, NEW r \in Reqs, NEW l \in Labels, GoTo(r, l),
           UNCHANGED locals, at[r] # "idle"
    PROVE  LocalTypes' /\ OthersSame(r) /\ NoNewToken(r) /\ at'[r] = l
    BY DEF GoTo, locals, LocalTypes, OthersSame, NoNewToken

\* A request that goes on with the account it has found.
LEMMA FoundFacts ==
    ASSUME LocalTypes, NEW r \in Reqs, NEW l \in Labels, NEW u \in Usernames,
           Found(r, u, l), at[r] # "idle"
    PROVE  /\ LocalTypes' /\ OthersSame(r) /\ NoNewToken(r)
           /\ at'[r] = l /\ user'[r] = u /\ UNCHANGED <<req, token, knew>>
    BY DEF Found, GoTo, LocalTypes, OthersSame, NoNewToken

-----------------------------------------------------------------------------
(* What grows *)

\* Growing accounts leave the other requests what they hold.
LEMMA OthersKeep ==
    ASSUME AccountsInv, NEW r \in Reqs, OthersSame(r), Grow,
           UNCHANGED allowList, NEW x \in Reqs, x # r
    PROVE  LocalInv(x)'
<1> USE DEF AccountsInv, OthersSame
<1>1. Rows \subseteq Rows'
    BY DEF Grow, Rows
<1>2. ReqInv(x)'
    BY DEF LocalInv, ReqInv
<1>3. UserInv(x)'
    BY <1>1 DEF LocalInv, UserInv
<1>4. LoginInv(x)'
    <2> SUFFICES ASSUME at[x] \in {"cheats", "addSession"}, req[x].op = "login"
                 PROVE  /\ accounts'[user[x]].firebase = req[x].uid
                        /\ at[x] = "addSession" =>
                              (accounts'[user[x]].cheats <=> req[x].uid \in allowList)
        BY DEF LoginInv
    <2>1. user[x] \in Rows
        BY DEF LocalInv, UserInv
    <2> QED
        BY <2>1 DEF LocalInv, LoginInv, Grow
<1>5. KnewInv(x)'
    <2>1. ASSUME NEW i, Where("firebase", i) # {} PROVE Where("firebase", i)' # {}
        BY <1>1, <2>1 DEF Grow, Where
    <2>2. KnewInv(x)
        BY DEF LocalInv
    <2>3. knew'[x] = knew[x] /\ at'[x] = at[x] /\ req'[x] = req[x]
        OBVIOUS
    <2> QED
        BY <2>1, <2>2, <2>3 DEF KnewInv
<1> QED
    BY <1>2, <1>3, <1>4, <1>5 DEF LocalInv

\* Sessions of growing accounts stay good.
LEMMA SharedKeep ==
    ASSUME AccountsInv, Grow, UNCHANGED <<sessions, drawn, allowList, history>>
    PROVE  DrawnInv' /\ SessionInv' /\ TokenOfItsIdentity' /\ CheatsFollowAllowList'
<1> USE DEF AccountsInv, SharedInv, history
<1>1. Rows \subseteq Rows'
    BY DEF Grow, Rows
<1>2. DrawnInv' /\ SessionInv'
    BY <1>1 DEF DrawnInv, SessionInv
<1>3. ASSUME NEW t \in Tokens, sessions[t] # None PROVE sessions[t] \in Rows
    BY <1>3 DEF SessionInv
<1>4. TokenOfItsIdentity'
    BY <1>3 DEF TokenOfItsIdentity, Grow
<1>5. CheatsFollowAllowList'
    BY <1>3 DEF CheatsFollowAllowList, Grow, TypeOK
<1> QED
    BY <1>2, <1>4, <1>5

\* A request that draws no token disturbs no token.
LEMMA TokensKeep ==
    ASSUME AccountsInv, NEW r \in Reqs, OthersSame(r), NoNewToken(r),
           LocalTypes', UNCHANGED <<sessions, drawn, handed>>
    PROVE  TokenInv'
<1> USE DEF AccountsInv, SharedInv, OthersSame
<1>1. \A x \in Reqs : token'[x] # 0 => token'[x] = token[x]
    BY DEF NoNewToken
<1>2. \A x \in Reqs : (at'[x] # "idle" /\ req'[x].token # 0) =>
          \/ at[x] # "idle" /\ req'[x] = req[x]
          \/ req'[x].token \in handed
    BY DEF NoNewToken
<1>3. \A x \in Reqs : token'[x] # 0 =>
          /\ token'[x] <= drawn /\ sessions[token'[x]] # None
          /\ token'[x] \notin handed
    BY <1>1 DEF TokenInv
<1>4. \A x, y \in Reqs : token'[x] # 0 /\ token'[x] = token'[y] => x = y
    BY <1>1 DEF TokenInv
<1>5. ASSUME NEW x \in Reqs, NEW y \in Reqs, at'[x] # "idle", req'[x].token # 0
      PROVE  req'[x].token <= drawn /\ req'[x].token # token'[y]
    <2>1. CASE at[x] # "idle" /\ req'[x] = req[x]
        BY <1>1, <1>5, <2>1 DEF TokenInv
    <2>2. CASE req'[x].token \in handed
        <3>1. handed \subseteq 1 .. drawn /\ drawn \in Nat
            BY AccountsAssumption DEF DrawnInv, TypeOK, Tokens
        <3>2. \A t \in handed : t <= drawn
            BY <3>1
        <3>3. req'[x].token # token'[y]
            BY <1>3, <1>5, <2>2
        <3> QED
            BY <2>2, <3>2, <3>3, Zenon
    <2> QED
        BY <1>2, <1>5, <2>1, <2>2
<1> QED
    BY <1>3, <1>4, <1>5 DEF TokenInv

\* A step of r that at most lets the accounts grow keeps the invariant when r
\* itself does.
LEMMA StepKeeps ==
    ASSUME AccountsInv, NEW r \in Reqs, OthersSame(r), NoNewToken(r), LocalTypes',
           LocalInv(r)', Grow, accounts' \in [Usernames -> Account \cup {None}],
           OneAccountEach', UNCHANGED <<sessions, drawn, allowList, history>>
    PROVE  AccountsInv'
<1>1. SharedTypes'
    BY DEF AccountsInv, TypeOK, SharedTypes, history
<1>2. TypeOK'
    BY <1>1, TypePartsNext
<1>3. \A x \in Reqs : LocalInv(x)'
    BY OthersKeep
<1>4. DrawnInv' /\ SessionInv' /\ TokenOfItsIdentity' /\ CheatsFollowAllowList'
    BY SharedKeep
<1>5. TokenInv'
    BY TokensKeep DEF history
<1> QED
    BY <1>2, <1>3, <1>4, <1>5 DEF AccountsInv, SharedInv

\* So does a step of r that only reads.
LEMMA ReadKeeps ==
    ASSUME AccountsInv, NEW r \in Reqs, OthersSame(r), NoNewToken(r), LocalTypes',
           LocalInv(r)', UNCHANGED shared
    PROVE  AccountsInv'
<1>1. Grow
    BY DEF Grow, Rows, shared, rows
<1>2. /\ accounts' \in [Usernames -> Account \cup {None}]
      /\ OneAccountEach'
    BY DEF AccountsInv, TypeOK, OneAccountEach, Unique, Rows, shared, rows
<1> QED
    BY <1>1, <1>2, StepKeeps DEF shared, rows

-----------------------------------------------------------------------------
(* The steps that read *)

\* A request in flight is a well formed one at a statement of its kind.
LEMMA InFlight ==
    ASSUME AccountsInv, NEW r \in Reqs, at[r] # "idle"
    PROVE  /\ LocalTypes /\ LocalInv(r) /\ Shape(req[r])
           /\ req[r].op \in OpsAt(at[r]) /\ req[r] \in Request
    BY TypeParts DEF AccountsInv, LocalInv, ReqInv, Shape

LEMMA EndKeeps ==
    ASSUME AccountsInv, NEW r \in Reqs, at[r] # "idle", End(r), UNCHANGED shared
    PROVE  AccountsInv'
    BY InFlight, EndFacts, ReadKeeps

LEMMA BeginKeeps == ASSUME AccountsInv, NEW r \in Reqs, Begin(r) PROVE AccountsInv'
<1>1. PICK q \in Requests :
        /\ at' = [at EXCEPT ![r] = First(q)]
        /\ req' = [req EXCEPT ![r] = q]
        /\ user' = [user EXCEPT ![r] = None]
        /\ token' = [token EXCEPT ![r] = 0]
        /\ knew' = [knew EXCEPT ![r] =
                        q.uid # None /\ Where("firebase", q.uid) # {}]
    BY DEF Begin
<1>2. Shape(q) /\ (q.token = 0 \/ q.token \in handed)
    BY RequestShape DEF AccountsInv
<1>3. /\ First(q) \in Labels \ {"idle", "register", "refuse"}
      /\ First(q) \notin {"cheats", "addSession", "link", "unlink", "authorize",
                          "findUser", "adminWrite"}
      /\ q.op \in OpsAt(First(q))
    BY <1>2 DEF First, Labels, OpsAt, Shape, Request, AdminOps
<1>4. LocalTypes
    BY TypeParts DEF AccountsInv
<1>5. /\ at'[r] = First(q) /\ req'[r] = q /\ token'[r] = 0
      /\ knew'[r] = (q.uid # None /\ Where("firebase", q.uid) # {})
    BY <1>1, <1>4 DEF LocalTypes
<1>6. LocalTypes'
    <2>1. q \in Request
        BY <1>2 DEF Shape
    <2> QED
        BY <1>1, <1>3, <1>4, <2>1, AccountsAssumption DEF LocalTypes, Tokens
<1>7. OthersSame(r) /\ NoNewToken(r)
    BY <1>1, <1>2, <1>4, <1>5 DEF LocalTypes, OthersSame, NoNewToken
<1>8. UNCHANGED shared
    BY DEF Begin, shared
<1>9. LocalInv(r)'
    <2>1. ReqInv(r)' /\ UserInv(r)' /\ LoginInv(r)'
        BY <1>2, <1>3, <1>5 DEF ReqInv, UserInv, LoginInv
    <2>2. KnewInv(r)'
        <3>1. Where("firebase", q.uid)' = Where("firebase", q.uid)
            BY <1>1, <1>8 DEF Where, Rows, shared, rows
        <3> QED
            BY <1>3, <1>5, <1>1, <3>1 DEF KnewInv
    <2> QED
        BY <2>1, <2>2 DEF LocalInv
<1> QED
    BY <1>6, <1>7, <1>8, <1>9, ReadKeeps

LEMMA FindAccountKeeps ==
    ASSUME AccountsInv, NEW r \in Reqs, FindAccount(r) PROVE AccountsInv'
<1> DEFINE own == Where("firebase", req[r].uid)
<1>1. at[r] = "find" /\ UNCHANGED shared
    BY DEF FindAccount
<1>2. /\ LocalTypes /\ LocalInv(r) /\ Shape(req[r])
      /\ req[r].op \in OpsAt(at[r]) /\ req[r] \in Request
    BY <1>1, InFlight
<1>3. req[r].op = "login"
    BY <1>1, <1>2 DEF OpsAt
<1>4. ASSUME NEW u \in own, Found(r, u, "cheats") PROVE AccountsInv'
    <2>1. u \in Rows /\ accounts[u].firebase = req[r].uid
        BY DEF Where
    <2>2. /\ LocalTypes' /\ OthersSame(r) /\ NoNewToken(r)
          /\ at'[r] = "cheats" /\ user'[r] = u /\ UNCHANGED <<req, token, knew>>
        BY <1>1, <1>2, <1>4, <2>1, FoundFacts DEF Rows, Labels
    <2>3. accounts' = accounts /\ allowList' = allowList
        BY <1>1 DEF shared, rows
    <2>4. ReqInv(r)' /\ UserInv(r)' /\ LoginInv(r)' /\ KnewInv(r)'
        BY <1>2, <1>3, <2>1, <2>2, <2>3
           DEF ReqInv, UserInv, LoginInv, KnewInv, OpsAt, Shape, Rows
    <2> QED
        BY <1>1, <2>2, <2>4, ReadKeeps DEF LocalInv
<1>5. CASE own = {} /\ GoTo(r, "register") /\ UNCHANGED locals
    <2>1. /\ LocalTypes' /\ OthersSame(r) /\ NoNewToken(r)
          /\ at'[r] = "register" /\ UNCHANGED <<req, knew>>
        BY <1>1, <1>2, <1>5, GoToFacts DEF Labels, locals
    <2>2. ~knew[r]
        BY <1>1, <1>2, <1>5 DEF LocalInv, KnewInv
    <2>3. ReqInv(r)' /\ UserInv(r)' /\ LoginInv(r)' /\ KnewInv(r)'
        BY <1>2, <1>3, <2>1, <2>2
           DEF ReqInv, UserInv, LoginInv, KnewInv, OpsAt, Shape
    <2> QED
        BY <1>1, <2>1, <2>3, ReadKeeps DEF LocalInv
<1> QED
    BY <1>4, <1>5 DEF FindAccount

\* A lookup that leads on to a statement of the request's kind.
LEMMA LookupKeeps ==
    ASSUME AccountsInv, NEW r \in Reqs, NEW S \in SUBSET Rows, NEW l \in Labels,
           Lookup(r, S, l), at[r] # "idle", req[r].op \in OpsAt(l),
           l \notin {"idle", "find", "register", "refuse"}, req[r].op # "login"
    PROVE  AccountsInv'
<1>1. UNCHANGED shared
    BY DEF Lookup
<1>2. ASSUME NEW u \in S, Found(r, u, l) PROVE AccountsInv'
    <2>1. u \in Rows
        OBVIOUS
    <2>2. /\ LocalTypes' /\ OthersSame(r) /\ NoNewToken(r)
          /\ at'[r] = l /\ user'[r] = u /\ UNCHANGED <<req, token, knew>>
        BY <1>2, <2>1, FoundFacts, InFlight DEF Rows
    <2>3. accounts' = accounts
        BY <1>1 DEF shared, rows
    <2>4. ReqInv(r)' /\ UserInv(r)' /\ LoginInv(r)' /\ KnewInv(r)'
        BY <2>1, <2>2, <2>3, InFlight
           DEF ReqInv, UserInv, LoginInv, KnewInv, Shape, Rows
    <2> QED
        BY <1>1, <2>2, <2>4, ReadKeeps DEF LocalInv
<1>3. CASE End(r)
    BY <1>1, <1>3, EndKeeps
<1> QED
    BY <1>2, <1>3 DEF Lookup

\* The steps that look up an account.
LEMMA FindKeeps ==
    ASSUME AccountsInv, NEW r \in Reqs,
           FindSession(r) \/ FindLinked(r) \/ Authenticate(r) \/ FindUser(r)
    PROVE  AccountsInv'
<1> USE InFlight
<1>1. CASE FindSession(r)
    <2>1. SessionUser(req[r].token) \in SUBSET Rows
        BY DEF SessionUser
    <2> QED
        BY <1>1, <2>1, LookupKeeps DEF FindSession, OpsAt, Labels
<1>2. CASE FindLinked(r)
    <2>1. Where("google", req[r].id) \in SUBSET Rows
        BY DEF Where
    <2> QED
        BY <1>2, <2>1, LookupKeeps DEF FindLinked, OpsAt, Labels
<1>3. CASE Authenticate(r)
    <2>1. SessionUser(req[r].token) \in SUBSET Rows
        BY DEF SessionUser
    <2>2. CASE req[r].op = "disconnect"
        BY <1>3, <2>1, <2>2, LookupKeeps DEF Authenticate, OpsAt, Labels
    <2>3. CASE req[r].op # "disconnect"
        BY <1>3, <2>1, <2>3, LookupKeeps DEF Authenticate, OpsAt, Labels, AdminOps
    <2> QED
        BY <2>2, <2>3
<1>4. CASE FindUser(r)
    <2>1. Rows \cap {req[r].name} \in SUBSET Rows
        OBVIOUS
    <2> QED
        BY <1>4, <2>1, LookupKeeps DEF FindUser, OpsAt, Labels, AdminOps
<1> QED
    BY <1>1, <1>2, <1>3, <1>4

LEMMA AuthorizeKeeps ==
    ASSUME AccountsInv, NEW r \in Reqs, Authorize(r) PROVE AccountsInv'
<1>1. at[r] = "authorize" /\ UNCHANGED shared
    BY DEF Authorize
<1>2. /\ LocalTypes /\ LocalInv(r) /\ Shape(req[r]) /\ req[r] \in Request
      /\ req[r].op \in AdminOps
    BY <1>1, InFlight DEF OpsAt
<1>3. ASSUME NEW l \in {"adminWrite", "findUser"}, GoTo(r, l), UNCHANGED locals
      PROVE  AccountsInv'
    <2>1. /\ LocalTypes' /\ OthersSame(r) /\ NoNewToken(r)
          /\ at'[r] = l /\ UNCHANGED <<req, user, knew>>
        BY <1>1, <1>2, <1>3, GoToFacts DEF Labels, locals
    <2>3. accounts' = accounts
        BY <1>1 DEF shared, rows
    <2>4. ReqInv(r)' /\ UserInv(r)' /\ LoginInv(r)' /\ KnewInv(r)'
        BY <1>1, <1>2, <2>1, <2>3
           DEF LocalInv, ReqInv, UserInv, LoginInv, KnewInv, OpsAt, Shape, AdminOps,
               Rows
    <2> QED
        BY <1>1, <2>1, <2>4, ReadKeeps DEF LocalInv
<1>4. CASE End(r)
    BY <1>1, <1>4, EndKeeps
<1> QED
    BY <1>3, <1>4 DEF Authorize

-----------------------------------------------------------------------------
(* The steps that write accounts *)

\* Setting a column of some accounts to what no other account has there, or to
\* NULL, or setting cheat flags to what the allow-list says.
LEMMA SetKeeps ==
    ASSUME AccountsInv, NEW S \in SUBSET Rows,
           NEW p \in Providers \cup {"cheats"}, NEW v \in ColumnType(p),
           p = "cheats" =>
               \A u \in S : v = (accounts[u].firebase \in allowList),
           p # "cheats" =>
               v = None \/ \E u \in Usernames : S = {u} /\ CanLink(u, p, v),
           accounts' = Set(S, p, v)
    PROVE  /\ Grow /\ OneAccountEach' /\ Rows' = Rows
           /\ accounts' \in [Usernames -> Account \cup {None}]
<1>1. /\ accounts' \in [Usernames -> Account \cup {None}]
      /\ Rows' = Rows /\ OnlySet(S, p, v)
    <2>1. accounts \in [Usernames -> Account \cup {None}]
        BY DEF AccountsInv, TypeOK
    <2> QED
        BY <2>1, SetFacts
<1>2. Grow
    <2> SUFFICES ASSUME NEW u \in Rows
                 PROVE  /\ accounts'[u] # None
                        /\ accounts'[u].firebase = accounts[u].firebase
                        /\ \/ accounts'[u].cheats = accounts[u].cheats
                           \/ accounts'[u].cheats <=> accounts[u].firebase \in allowList
        BY DEF Grow
    <2>1. accounts'[u] # None
        BY <1>1 DEF Rows, OnlySet
    <2>2. CASE u \in S /\ p = "cheats"
        <3>1. accounts'[u].cheats = v
            BY <1>1, <2>2 DEF OnlySet
        <3> QED
            BY <1>1, <2>1, <2>2, <3>1 DEF OnlySet
    <2>3. CASE u \notin S \/ p # "cheats"
        BY <1>1, <2>1, <2>3 DEF OnlySet
    <2> QED
        BY <2>2, <2>3
<1>3. OneAccountEach'
    <2> SUFFICES ASSUME NEW u \in Rows, NEW w \in Rows,
                        NEW c \in {"firebase"} \cup Providers,
                        accounts'[u][c] = accounts'[w][c], accounts'[u][c] # None
                 PROVE  u = w
        BY <1>1 DEF OneAccountEach, Unique, OnlySet
    <2>1. \A x, y \in Rows : accounts[x][c] = accounts[y][c] /\ accounts[x][c] # None
                                 => x = y
        BY DEF AccountsInv, OneAccountEach, Unique
    <2>2. CASE c # p
        <3>1. accounts'[u][c] = accounts[u][c] /\ accounts'[w][c] = accounts[w][c]
            BY <1>1, <2>2 DEF OnlySet
        <3> QED
            BY <2>1, <3>1
    <2>3. CASE c = p
        <3>1. CASE u \notin S /\ w \notin S
            BY <1>1, <2>1, <3>1 DEF OnlySet
        <3>2. CASE v = None
            BY <1>1, <2>1, <2>3, <3>2 DEF OnlySet
        <3>3. ASSUME NEW x \in Usernames, S = {x}, CanLink(x, p, v) PROVE u = w
            <4>1. \A y \in Rows : accounts[y][p] = v => y = x
                BY <3>3 DEF CanLink, Where
            <4>2. ASSUME NEW y \in Rows, NEW z \in Rows, y \in S,
                         accounts'[y][p] = accounts'[z][p]
                  PROVE  y = z
                <5>1. accounts'[z][p] = v /\ y = x
                    BY <1>1, <3>3, <4>2 DEF OnlySet
                <5>2. CASE z \in S
                    BY <3>3, <5>1, <5>2
                <5>3. CASE z \notin S
                    BY <1>1, <4>1, <5>1, <5>3 DEF OnlySet
                <5> QED
                    BY <5>2, <5>3
            <4>3. accounts'[u][p] = accounts'[w][p]
                BY <2>3
            <4> QED
                BY <3>1, <4>2, <4>3
        <3>4. p # "cheats"
            BY <2>3 DEF Providers
        <3> QED
            BY <3>1, <3>2, <3>3, <3>4
    <2> QED
        BY <2>2, <2>3
<1> QED
    BY <1>1, <1>2, <1>3 DEF OnlySet

LEMMA RegisterKeeps ==
    ASSUME AccountsInv, NEW r \in Reqs, Register(r) PROVE AccountsInv' /\ Grow
<1>1. /\ at[r] = "register"
      /\ UNCHANGED <<sessions, drawn, allowList, history>>
    BY DEF Register
<1>2. /\ LocalTypes /\ LocalInv(r) /\ Shape(req[r]) /\ req[r] \in Request
      /\ req[r].op = "login" /\ req[r].uid \in Uids /\ ~knew[r]
    BY <1>1, InFlight DEF OpsAt, Shape, LocalInv, KnewInv, LocalTypes
<1>3. CASE /\ req[r].name \in Usernames
           /\ CanInsert(req[r].name, req[r].uid)
           /\ accounts' = [accounts EXCEPT ![req[r].name] = NewAccount(req[r].uid)]
           /\ Found(r, req[r].name, "cheats")
    <2> DEFINE n == req[r].name
               i == req[r].uid
               new == NewAccount(i)
    <2>1. /\ LocalTypes' /\ OthersSame(r) /\ NoNewToken(r)
          /\ at'[r] = "cheats" /\ user'[r] = n /\ UNCHANGED <<req, token, knew>>
        BY <1>1, <1>2, <1>3, FoundFacts DEF Labels
    <2>2. new \in Account /\ new # None
        <3>1. new \in Account
            BY <1>2 DEF NewAccount, Account
        <3> QED
            BY <3>1, DataAssumption
    <2>3. accounts \in [Usernames -> Account \cup {None}]
        BY DEF AccountsInv, TypeOK
    <2>4. accounts' \in [Usernames -> Account \cup {None}]
        BY <1>3, <2>2, <2>3
    <2>5. /\ n \notin Rows /\ Rows' = Rows \cup {n} /\ accounts'[n] = new
          /\ \A u \in Rows : accounts'[u] = accounts[u]
          /\ \A u \in Rows : accounts[u].firebase # i
        BY <1>3, <2>2, <2>3 DEF CanInsert, Rows, Where
    <2>6. Grow
        BY <2>5 DEF Grow, Rows
    <2>7. new.firebase = i /\ new.google = None /\ new.discord = None
        BY DEF NewAccount
    <2>8. OneAccountEach'
        <3> SUFFICES ASSUME NEW u \in Rows \cup {n}, NEW w \in Rows \cup {n},
                            NEW c \in {"firebase"} \cup Providers,
                            accounts'[u][c] = accounts'[w][c], accounts'[u][c] # None
                     PROVE  u = w
            <4>1. Rows' = Rows \cup {n}
                BY <2>5
            <4> HIDE DEF n
            <4> QED
                BY <4>1 DEF OneAccountEach, Unique
        <3>1. CASE u \in Rows /\ w \in Rows
            BY <2>5, <3>1 DEF AccountsInv, OneAccountEach, Unique
        <3>2. CASE c # "firebase"
            <4>1. accounts'[n][c] = None
                BY <2>5, <2>7, <3>2 DEF Providers
            <4> QED
                BY <3>1, <4>1
        <3>3. CASE c = "firebase"
            BY <2>5, <2>7, <3>1, <3>3
        <3> QED
            BY <3>2, <3>3
    <2>9. ReqInv(r)' /\ UserInv(r)' /\ LoginInv(r)' /\ KnewInv(r)'
        BY <1>2, <2>1, <2>5, <2>7
           DEF ReqInv, UserInv, LoginInv, KnewInv, OpsAt
    <2> QED
        BY <1>1, <2>1, <2>4, <2>6, <2>8, <2>9, StepKeeps DEF LocalInv
<1>4. CASE GoTo(r, "refuse") /\ UNCHANGED <<accounts, locals>>
    <2>1. /\ LocalTypes' /\ OthersSame(r) /\ NoNewToken(r)
          /\ at'[r] = "refuse" /\ UNCHANGED <<req, knew>>
        BY <1>1, <1>2, <1>4, GoToFacts DEF Labels, locals
    <2>2. ReqInv(r)' /\ UserInv(r)' /\ LoginInv(r)' /\ KnewInv(r)'
        BY <1>2, <2>1 DEF ReqInv, UserInv, LoginInv, KnewInv, OpsAt
    <2>3. AccountsInv'
        BY <1>1, <1>4, <2>1, <2>2, ReadKeeps DEF LocalInv, shared, rows
    <2> QED
        BY <1>4, <2>3 DEF Grow, Rows
<1> QED
    BY <1>3, <1>4 DEF Register

LEMMA SetCheatsKeeps ==
    ASSUME AccountsInv, NEW r \in Reqs, SetCheats(r) PROVE AccountsInv' /\ Grow
<1>1. /\ at[r] = "cheats" /\ GoTo(r, "addSession") /\ UNCHANGED locals
      /\ UNCHANGED <<sessions, drawn, allowList, history>>
      /\ accounts' = Set({user[r]}, "cheats", req[r].uid \in allowList)
    BY DEF SetCheats
<1>2. /\ LocalTypes /\ Shape(req[r]) /\ req[r] \in Request /\ req[r].op = "login"
      /\ user[r] \in Rows /\ accounts[user[r]].firebase = req[r].uid
    BY <1>1, InFlight DEF OpsAt, LocalInv, UserInv, LoginInv
<1>3. {user[r]} \in SUBSET Rows /\ (req[r].uid \in allowList) \in BOOLEAN
    BY <1>2
<1>4. /\ Grow /\ OneAccountEach' /\ Rows' = Rows
      /\ accounts' \in [Usernames -> Account \cup {None}]
    BY <1>1, <1>2, <1>3, SetKeeps DEF ColumnType
<1>5. /\ accounts'[user[r]].firebase = accounts[user[r]].firebase
      /\ accounts'[user[r]]["cheats"] = (req[r].uid \in allowList)
    <2>1. accounts \in [Usernames -> Account \cup {None}]
        BY DEF AccountsInv, TypeOK
    <2> DEFINE granted == req[r].uid \in allowList
    <2>2. granted \in BOOLEAN /\ accounts' = Set({user[r]}, "cheats", granted)
        BY <1>1
    <2> HIDE DEF granted
    <2>3. granted \in ColumnType("cheats")
        BY <2>2 DEF ColumnType
    <2>4. OnlySet({user[r]}, "cheats", granted)
        BY <1>3, <2>1, <2>2, <2>3, SetFacts
    <2>5. accounts'[user[r]]["cheats"] = granted
        BY <1>2, <2>4 DEF OnlySet
    <2> QED
        BY <1>2, <2>4, <2>5 DEF OnlySet, granted
<1>6. /\ LocalTypes' /\ OthersSame(r) /\ NoNewToken(r)
      /\ at'[r] = "addSession" /\ UNCHANGED <<req, user, knew>>
    BY <1>1, <1>2, GoToFacts DEF Labels, locals
<1>7. ReqInv(r)' /\ UserInv(r)' /\ LoginInv(r)' /\ KnewInv(r)'
    BY <1>1, <1>2, <1>4, <1>5, <1>6
       DEF ReqInv, UserInv, LoginInv, KnewInv, OpsAt
<1> QED
    BY <1>1, <1>4, <1>6, <1>7, StepKeeps DEF LocalInv

LEMMA LinkGoogleKeeps ==
    ASSUME AccountsInv, NEW r \in Reqs, LinkGoogle(r) PROVE AccountsInv' /\ Grow
<1>1. at[r] = "link" /\ End(r) /\ UNCHANGED linkVars
    BY DEF LinkGoogle
<1>2. /\ LocalTypes /\ req[r].id \in GoogleIds /\ user[r] \in Rows
    BY <1>1, InFlight DEF OpsAt, Shape, LocalInv, UserInv
<1>3. LocalTypes' /\ OthersSame(r) /\ LocalInv(r)' /\ NoNewToken(r)
    BY <1>1, <1>2, EndFacts
<1>4. CASE CanLink(user[r], "google", req[r].id)
    <2>1. accounts' = Set({user[r]}, "google", req[r].id)
        BY <1>4 DEF LinkGoogle
    <2>2. {user[r]} \in SUBSET Rows /\ user[r] \in Usernames
        BY <1>2 DEF Rows
    <2>3. /\ Grow /\ OneAccountEach'
          /\ accounts' \in [Usernames -> Account \cup {None}]
        BY <1>2, <1>4, <2>1, <2>2, SetKeeps DEF Providers, ColumnType
    <2> QED
        BY <1>1, <1>3, <2>3, StepKeeps DEF linkVars
<1>5. CASE ~CanLink(user[r], "google", req[r].id)
    <2>1. accounts' = accounts
        BY <1>5 DEF LinkGoogle
    <2>2. AccountsInv'
        BY <1>1, <1>3, <2>1, ReadKeeps DEF linkVars, shared, rows
    <2> QED
        BY <2>1, <2>2 DEF Grow, Rows
<1> QED
    BY <1>4, <1>5

LEMMA UnlinkKeeps ==
    ASSUME AccountsInv, NEW r \in Reqs, Unlink(r) PROVE AccountsInv' /\ Grow
<1>1. /\ at[r] = "unlink" /\ End(r) /\ UNCHANGED linkVars
      /\ accounts' = Set({user[r]}, req[r].provider, None)
    BY DEF Unlink
<1>2. LocalTypes /\ req[r].provider \in Providers /\ {user[r]} \in SUBSET Rows
    BY <1>1, InFlight DEF OpsAt, Shape, LocalInv, UserInv
<1>3. LocalTypes' /\ OthersSame(r) /\ LocalInv(r)' /\ NoNewToken(r)
    BY <1>1, <1>2, EndFacts
<1>4. /\ Grow /\ OneAccountEach'
      /\ accounts' \in [Usernames -> Account \cup {None}]
    BY <1>1, <1>2, SetKeeps DEF Providers, ColumnType
<1> QED
    BY <1>1, <1>3, <1>4, StepKeeps DEF linkVars

LEMMA AdminWriteKeeps ==
    ASSUME AccountsInv, NEW r \in Reqs, AdminWrite(r) PROVE AccountsInv' /\ Grow
<1> DEFINE q == req[r]
<1>1. /\ at[r] = "adminWrite" /\ GoTo(r, "reply")
      /\ UNCHANGED <<linkVars, locals>>
    BY DEF AdminWrite
<1>2. /\ LocalTypes /\ Shape(q) /\ q.op \in AdminOps /\ q.provider \in Providers
      /\ user[r] \in Rows
    BY <1>1, InFlight DEF OpsAt, Shape, LocalInv, UserInv
<1>3. /\ LocalTypes' /\ OthersSame(r) /\ NoNewToken(r)
      /\ at'[r] = "reply" /\ UNCHANGED <<req, knew>>
    BY <1>1, <1>2, GoToFacts DEF Labels, locals
<1>4. ReqInv(r)' /\ UserInv(r)' /\ LoginInv(r)' /\ KnewInv(r)'
    BY <1>2, <1>3 DEF ReqInv, UserInv, LoginInv, KnewInv, OpsAt
<1>5. /\ {user[r]} \in SUBSET Rows /\ user[r] \in Usernames
      /\ Where("discord", q.id) \in SUBSET Rows
    BY <1>2 DEF Rows, Where
<1>6. /\ Grow /\ OneAccountEach'
      /\ accounts' \in [Usernames -> Account \cup {None}]
    <2>1. CASE /\ q.op = "adminLink" /\ CanLink(user[r], q.provider, q.id)
               /\ accounts' = Set({user[r]}, q.provider, q.id)
        <3>1. /\ q.provider = "google" => q.id \in GoogleIds
              /\ q.provider = "discord" => q.id \in DiscordIds
            BY <1>2, <2>1 DEF Shape, IdsOf
        <3>2. q.provider # "cheats"
            BY <1>2 DEF Providers
        <3> QED
            BY <1>2, <1>5, <2>1, <3>1, <3>2, SetKeeps DEF ColumnType, Providers
    <2>2. ASSUME NEW S \in SUBSET Rows, accounts' = Set(S, q.provider, None)
          PROVE  /\ Grow /\ OneAccountEach'
                 /\ accounts' \in [Usernames -> Account \cup {None}]
        BY <1>2, <2>2, SetKeeps DEF Providers, ColumnType
    <2> QED
        BY <1>5, <2>1, <2>2 DEF AdminWrite
<1> QED
    BY <1>1, <1>3, <1>4, <1>6, StepKeeps DEF LocalInv, linkVars

-----------------------------------------------------------------------------
(* The steps that write sessions *)

\* The numbers that tokens are.
LEMMA TokenNumbers ==
    ASSUME AccountsInv
    PROVE  /\ drawn \in Nat /\ MaxTokens \in Nat /\ drawn <= MaxTokens
           /\ \A t \in Tokens : t \in Nat
           /\ \A t \in handed \cup current : t # 0 /\ t <= drawn
           /\ \A x \in Reqs : token[x] \in Nat
           /\ \A x \in Reqs : at[x] # "idle" => req[x].token \in Nat
<1>1. MaxTokens \in Nat /\ \A t \in Tokens : t \in Nat
    BY AccountsAssumption DEF Tokens
<1>2. drawn \in Nat /\ drawn <= MaxTokens
    BY <1>1 DEF AccountsInv, TypeOK, Tokens
<1>3. handed \subseteq 1 .. drawn /\ current \subseteq 1 .. drawn
    BY DEF AccountsInv, SharedInv, DrawnInv
<1>4. \A t \in handed \cup current : t # 0 /\ t <= drawn
    BY <1>2, <1>3
<1>5. \A x \in Reqs : token[x] \in Nat
    BY <1>1 DEF AccountsInv, TypeOK
<1>6. ASSUME NEW x \in Reqs, at[x] # "idle" PROVE req[x].token \in Nat
    BY <1>1, <1>6, InFlight DEF Request
<1> QED
    BY <1>1, <1>2, <1>4, <1>5, <1>6

LEMMA AddSessionKeeps ==
    ASSUME AccountsInv, NEW r \in Reqs, AddSession(r) PROVE AccountsInv'
<1> DEFINE n == drawn + 1
<1>1. /\ at[r] = "addSession" /\ drawn < MaxTokens /\ drawn' = n
      /\ sessions' = [sessions EXCEPT ![n] = user[r]]
      /\ token' = [token EXCEPT ![r] = n]
      /\ origin' = [origin EXCEPT ![n] = req[r].uid]
      /\ current' = IF req[r].op = "login" THEN current \cup {n} ELSE current
      /\ GoTo(r, "reply")
      /\ UNCHANGED <<accounts, allowList, req, user, knew, handed>>
    BY DEF AddSession
<1>2. /\ LocalTypes /\ LocalInv(r) /\ Shape(req[r]) /\ req[r] \in Request
      /\ req[r].op \in {"login", "googleLogin"}
      /\ user[r] \in Rows /\ user[r] \in Usernames
    BY <1>1, InFlight DEF OpsAt, LocalInv, UserInv, Rows
<1>3. /\ n \in Nat /\ n # 0 /\ n \in Tokens /\ drawn < n
    BY <1>1, TokenNumbers DEF Tokens
<1>4. LocalTypes' /\ OthersSame(r) /\ at'[r] = "reply" /\ token'[r] = n
    BY <1>1, <1>2, <1>3 DEF GoTo, LocalTypes, OthersSame, Labels
<1>5. LocalInv(r)'
    BY <1>1, <1>2, <1>4
       DEF LocalInv, ReqInv, UserInv, LoginInv, KnewInv, OpsAt
<1>6. \A x \in Reqs : LocalInv(x)'
    <2>1. Grow
        BY <1>1 DEF Grow, Rows
    <2> QED
        BY <1>1, <1>4, <1>5, <2>1, OthersKeep
<1>7. SharedTypes /\ req[r].uid \in Uids \cup {None}
    BY <1>2, TypeParts DEF AccountsInv, Request
<1>8. SharedTypes'
    BY <1>1, <1>2, <1>3, <1>7 DEF SharedTypes
<1>9. /\ sessions'[n] = user[r] /\ origin'[n] = req[r].uid
      /\ \A t \in Tokens \ {n} : sessions'[t] = sessions[t] /\ origin'[t] = origin[t]
    BY <1>1, <1>3, <1>7 DEF SharedTypes
<1>10. DrawnInv'
    <2>1. 0 \in Tokens \ {n}
        BY <1>3, TokenNumbers DEF Tokens
    <2>2. sessions'[0] = None
        BY <1>9, <2>1 DEF AccountsInv, SharedInv, DrawnInv
    <2>3. \A t \in Tokens : t > n => sessions'[t] = None
        BY <1>3, <1>9, TokenNumbers DEF AccountsInv, SharedInv, DrawnInv
    <2>4. handed \subseteq 1 .. n /\ current' \subseteq 1 .. n
        <3>1. 1 .. drawn \subseteq 1 .. n /\ n \in 1 .. n
            BY <1>3, TokenNumbers
        <3>2. current' \subseteq current \cup {n}
            BY <1>1
        <3> QED
            BY <3>1, <3>2 DEF AccountsInv, SharedInv, DrawnInv
    <2> QED
        BY <1>1, <2>2, <2>3, <2>4 DEF DrawnInv
<1>11. \A t \in handed \cup current : t # n /\ t \in Tokens
    BY <1>3, <1>7, TokenNumbers DEF SharedTypes
<1>12. SessionInv'
    <2>1. Rows' = Rows
        BY <1>1 DEF Rows
    <2>2. None \notin Usernames
        BY AccountsAssumption
    <2> QED
        BY <1>1, <1>2, <1>9, <1>11, <2>1, <2>2
           DEF AccountsInv, SharedInv, SessionInv
<1>13. TokenInv'
    <2>1. \A x \in Reqs \ {r} : token'[x] = token[x] /\ req'[x] = req[x] /\ at'[x] = at[x]
        BY <1>4 DEF OthersSame
    <2>2. \A x \in Reqs : token[x] # 0 => token[x] <= drawn /\ token[x] # n
        BY <1>3, TokenNumbers DEF AccountsInv, SharedInv, TokenInv
    <2>3. \A x \in Reqs : at[x] # "idle" /\ req[x].token # 0 =>
              req[x].token <= drawn /\ req[x].token # n
        BY <1>3, TokenNumbers DEF AccountsInv, SharedInv, TokenInv
    <2>4. ASSUME NEW x \in Reqs, token'[x] # 0
          PROVE  /\ token'[x] <= drawn' /\ sessions'[token'[x]] # None
                 /\ token'[x] \notin handed
        <3>1. CASE x = r
            BY <1>1, <1>2, <1>3, <1>4, <1>9, <1>11, <3>1, AccountsAssumption
        <3>2. CASE x # r
            <4>1. token[x] # 0 /\ token[x] \in Tokens
                BY <1>2, <2>1, <2>4, <3>2 DEF LocalTypes
            <4>2. token[x] <= drawn /\ sessions[token[x]] # None /\ token[x] \notin handed
                BY <4>1 DEF AccountsInv, SharedInv, TokenInv
            <4> QED
                BY <1>1, <1>3, <1>9, <2>1, <2>2, <3>2, <4>1, <4>2, TokenNumbers
        <3> QED
            BY <3>1, <3>2
    <2>5. \A x, y \in Reqs : token'[x] # 0 /\ token'[x] = token'[y] => x = y
        BY <1>4, <2>1, <2>2 DEF AccountsInv, SharedInv, TokenInv
    <2>6. ASSUME NEW x \in Reqs, NEW y \in Reqs, at'[x] # "idle", req'[x].token # 0
          PROVE  req'[x].token <= drawn' /\ req'[x].token # token'[y]
        <3>1. at[x] # "idle" /\ req'[x] = req[x]
            BY <1>1, <2>1, <2>6
        <3>2. req[x].token <= drawn /\ req[x].token # n /\ req[x].token # token[y]
            BY <2>3, <2>6, <3>1 DEF AccountsInv, SharedInv, TokenInv
        <3>3. token'[y] \in {n, token[y]}
            BY <1>4, <2>1
        <3> QED
            BY <1>1, <1>3, <3>1, <3>2, <3>3, TokenNumbers
    <2> QED
        BY <1>1, <2>4, <2>5, <2>6 DEF TokenInv
<1>14. TokenOfItsIdentity'
    <2>1. req[r].uid # None => accounts[user[r]].firebase = req[r].uid
        BY <1>1, <1>2 DEF LocalInv, LoginInv, Shape
    <2> QED
        BY <1>1, <1>9, <2>1 DEF AccountsInv, TokenOfItsIdentity
<1>15. CheatsFollowAllowList'
    <2> SUFFICES ASSUME NEW t \in current', sessions'[t] # None
                 PROVE  accounts[sessions'[t]].cheats
                            <=> accounts[sessions'[t]].firebase \in allowList
        BY <1>1 DEF CheatsFollowAllowList
    <2>1. CASE t \in current
        BY <1>9, <1>11, <2>1 DEF AccountsInv, CheatsFollowAllowList
    <2>2. CASE t = n /\ req[r].op = "login"
        <3>1. /\ accounts[user[r]].firebase = req[r].uid
              /\ accounts[user[r]].cheats <=> req[r].uid \in allowList
            BY <1>1, <1>2, <2>2 DEF LocalInv, LoginInv
        <3>2. sessions'[t] = user[r]
            BY <1>9, <2>2
        <3> QED
            BY <3>1, <3>2
    <2> QED
        BY <1>1, <2>1, <2>2
<1>16. OneAccountEach'
    BY <1>1 DEF AccountsInv, OneAccountEach, Unique, Rows
<1>17. TypeOK'
    BY <1>4, <1>8, TypePartsNext
<1> QED
    BY <1>6, <1>10, <1>12, <1>13, <1>14, <1>15, <1>16, <1>17
       DEF AccountsInv, SharedInv

LEMMA EndSessionKeeps ==
    ASSUME AccountsInv, NEW r \in Reqs, EndSession(r) PROVE AccountsInv'
<1> DEFINE n == req[r].token
<1>1. /\ at[r] = "endSession" /\ End(r)
      /\ sessions' = [sessions EXCEPT ![n] = None]
      /\ origin' = [origin EXCEPT ![n] = None]
      /\ handed' = handed \ {n} /\ current' = current \ {n}
      /\ UNCHANGED <<accounts, drawn, allowList>>
    BY DEF EndSession
<1>2. LocalTypes /\ n \in Tokens
    BY <1>1, InFlight DEF Request
<1>3. LocalTypes' /\ OthersSame(r) /\ LocalInv(r)' /\ NoNewToken(r) /\ token'[r] = 0
    BY <1>1, <1>2, EndFacts
<1>4. \A x \in Reqs : LocalInv(x)'
    <2>1. Grow
        BY <1>1 DEF Grow, Rows
    <2> QED
        BY <1>1, <1>3, <2>1, OthersKeep
<1>5. SharedTypes
    BY TypeParts DEF AccountsInv
<1>6. TypeOK'
    <2>1. SharedTypes'
        BY <1>1, <1>2, <1>5 DEF SharedTypes
    <2> QED
        BY <1>3, <2>1, TypePartsNext
<1>7. /\ sessions'[n] = None
      /\ \A t \in Tokens \ {n} : sessions'[t] = sessions[t] /\ origin'[t] = origin[t]
    BY <1>1, <1>2, <1>5 DEF SharedTypes
<1>8. Rows' = Rows
    BY <1>1 DEF Rows
<1>9. DrawnInv'
    <2>1. 0 \in Tokens
        BY TokenNumbers DEF Tokens
    <2> QED
        BY <1>1, <1>7, <2>1 DEF AccountsInv, SharedInv, DrawnInv
<1>10. SessionInv'
    BY <1>1, <1>5, <1>7, <1>8 DEF AccountsInv, SharedInv, SessionInv, SharedTypes
<1>11. TokenInv'
    <2>1. at[r] # "idle"
        BY <1>1
    <2>2. ASSUME NEW x \in Reqs, token'[x] # 0
          PROVE  /\ token'[x] <= drawn /\ sessions'[token'[x]] # None
                 /\ token'[x] \notin handed'
        <3>1. token'[x] = token[x] /\ token[x] \in Tokens
            BY <1>2, <1>3, <2>2 DEF NoNewToken, OthersSame, LocalTypes
        <3>2. /\ token[x] <= drawn /\ sessions[token[x]] # None
              /\ token[x] \notin handed
            BY <2>2, <3>1 DEF AccountsInv, SharedInv, TokenInv
        <3>3. n # token[x]
            BY <2>1, <2>2, <3>1 DEF AccountsInv, SharedInv, TokenInv
        <3> QED
            BY <1>1, <1>7, <3>1, <3>2, <3>3
    <2>3. \A x \in Reqs \ {r} : /\ token'[x] = token[x]
                                /\ req'[x] = req[x] /\ at'[x] = at[x]
        BY <1>3 DEF OthersSame
    <2>4. \A x, y \in Reqs : token'[x] # 0 /\ token'[x] = token'[y] => x = y
        BY <1>3, <2>3 DEF AccountsInv, SharedInv, TokenInv
    <2>5. at'[r] = "idle"
        BY <1>1, <1>2 DEF End, GoTo, LocalTypes
    <2>6. \A x, y \in Reqs : at'[x] # "idle" /\ req'[x].token # 0 =>
              req'[x].token <= drawn /\ req'[x].token # token'[y]
        BY <1>3, <2>3, <2>5 DEF AccountsInv, SharedInv, TokenInv
    <2> QED
        BY <1>1, <2>2, <2>4, <2>6 DEF TokenInv
<1>12. TokenOfItsIdentity'
    BY <1>1, <1>7 DEF AccountsInv, TokenOfItsIdentity
<1>13. CheatsFollowAllowList'
    BY <1>1, <1>5, <1>7 DEF AccountsInv, CheatsFollowAllowList, SharedTypes
<1>14. OneAccountEach'
    BY <1>1, <1>8 DEF AccountsInv, OneAccountEach, Unique
<1> QED
    BY <1>4, <1>6, <1>9, <1>10, <1>11, <1>12, <1>13, <1>14 DEF AccountsInv, SharedInv

LEMMA ReplyKeeps ==
    ASSUME AccountsInv, NEW r \in Reqs, Reply(r) PROVE AccountsInv'
<1>1. /\ at[r] # "idle" /\ End(r)
      /\ handed' = IF token[r] # 0 THEN handed \cup {token[r]} ELSE handed
      /\ UNCHANGED <<rows, drawn, allowList, origin, current>>
    BY DEF Reply
<1>2. LocalTypes /\ SharedTypes
    BY TypeParts DEF AccountsInv
<1>3. LocalTypes' /\ OthersSame(r) /\ LocalInv(r)' /\ NoNewToken(r) /\ token'[r] = 0
    BY <1>1, <1>2, EndFacts
<1>4. \A x \in Reqs : LocalInv(x)'
    <2>1. Grow
        BY <1>1 DEF Grow, Rows, rows
    <2> QED
        BY <1>1, <1>3, <2>1, OthersKeep
<1>5. token[r] # 0 => /\ token[r] \in Tokens /\ token[r] \in 1 .. drawn
                      /\ sessions[token[r]] # None
    <2>1. token[r] # 0 => token[r] <= drawn /\ sessions[token[r]] # None
        BY DEF AccountsInv, SharedInv, TokenInv
    <2>2. token[r] # 0 => token[r] \in 1 .. drawn
        BY <2>1, TokenNumbers
    <2> QED
        BY <1>2, <2>1, <2>2 DEF LocalTypes
<1>6. TypeOK'
    <2>1. SharedTypes'
        BY <1>1, <1>2, <1>5 DEF SharedTypes, rows
    <2> QED
        BY <1>3, <2>1, TypePartsNext
<1>7. Rows' = Rows
    BY <1>1 DEF Rows, rows
<1>8. DrawnInv'
    BY <1>1, <1>5 DEF AccountsInv, SharedInv, DrawnInv, rows
<1>9. SessionInv'
    BY <1>1, <1>5, <1>7 DEF AccountsInv, SharedInv, SessionInv, rows
<1>10. TokenInv'
    <2>1. \A x \in Reqs \ {r} : /\ token'[x] = token[x]
                                /\ req'[x] = req[x] /\ at'[x] = at[x]
        BY <1>3 DEF OthersSame
    <2>2. at'[r] = "idle"
        BY <1>1, <1>2 DEF End, GoTo, LocalTypes
    <2>3. \A x, y \in Reqs : token[x] # 0 /\ token[x] = token[y] => x = y
        BY DEF AccountsInv, SharedInv, TokenInv
    <2>4. \A x \in Reqs : token'[x] # 0 =>
              /\ token'[x] <= drawn /\ sessions[token'[x]] # None
              /\ token'[x] \notin handed'
        BY <1>1, <1>3, <2>1, <2>3 DEF AccountsInv, SharedInv, TokenInv
    <2>5. \A x, y \in Reqs : token'[x] # 0 /\ token'[x] = token'[y] => x = y
        BY <1>3, <2>1, <2>3
    <2>6. \A x, y \in Reqs : at'[x] # "idle" /\ req'[x].token # 0 =>
              req'[x].token <= drawn /\ req'[x].token # token'[y]
        BY <1>3, <2>1, <2>2 DEF AccountsInv, SharedInv, TokenInv
    <2> QED
        BY <1>1, <2>4, <2>5, <2>6 DEF TokenInv, rows
<1>11. TokenOfItsIdentity' /\ CheatsFollowAllowList'
    BY <1>1 DEF AccountsInv, TokenOfItsIdentity, CheatsFollowAllowList, rows
<1>12. OneAccountEach'
    BY <1>1, <1>7 DEF AccountsInv, OneAccountEach, Unique, rows
<1> QED
    BY <1>4, <1>6, <1>8, <1>9, <1>10, <1>11, <1>12 DEF AccountsInv, SharedInv

-----------------------------------------------------------------------------
(* Deployments *)

LEMMA DeployKeeps == ASSUME AccountsInv, Deploy PROVE AccountsInv'
<1>1. /\ allowList' \in AllowLists /\ current' = {}
      /\ UNCHANGED <<rows, drawn, origin, handed>>
    BY DEF Deploy
<1>2. LocalTypes'
    BY AccountsAssumption DEF Deploy, LocalTypes, Labels, Tokens
<1>3. \A r \in Reqs : at'[r] = "idle" /\ token'[r] = 0 /\ knew'[r] = FALSE
    BY DEF Deploy
<1>4. \A r \in Reqs : LocalInv(r)'
    BY <1>3 DEF LocalInv, ReqInv, UserInv, LoginInv, KnewInv
<1>5. TypeOK'
    <2>1. SharedTypes'
        BY <1>1, TypeParts DEF AccountsInv, SharedTypes, rows
    <2> QED
        BY <1>2, <2>1, TypePartsNext
<1>6. Rows' = Rows
    BY <1>1 DEF Rows, rows
<1>7. DrawnInv' /\ SessionInv'
    BY <1>1, <1>6 DEF AccountsInv, SharedInv, DrawnInv, SessionInv, rows
<1>8. TokenInv'
    BY <1>3 DEF TokenInv
<1>9. TokenOfItsIdentity' /\ CheatsFollowAllowList' /\ OneAccountEach'
    BY <1>1, <1>6
       DEF AccountsInv, TokenOfItsIdentity, CheatsFollowAllowList, OneAccountEach,
           Unique, rows
<1> QED
    BY <1>4, <1>5, <1>7, <1>8, <1>9 DEF AccountsInv, SharedInv

-----------------------------------------------------------------------------
(* The invariant *)

LEMMA InitAccountsInv == Init => AccountsInv
<1> SUFFICES ASSUME Init PROVE AccountsInv
    OBVIOUS
<1>1. TypeOK
    <2>1. [firebase : {None}, google : GoogleIds \cup {None},
           discord : DiscordIds \cup {None}, cheats : {FALSE}] \subseteq Account
        BY DEF Account
    <2>2. accounts \in [Usernames -> Account \cup {None}]
        BY <2>1 DEF Init
    <2>3. 0 \in Tokens
        BY AccountsAssumption DEF Tokens
    <2> QED
        BY <2>2, <2>3, AccountsAssumption DEF Init, TypeOK, Labels
<1>2. \A r \in Reqs : LocalInv(r)
    BY DEF Init, LocalInv, ReqInv, UserInv, LoginInv, KnewInv
<1>3. SharedInv
    <2>1. 0 \in Tokens
        BY AccountsAssumption DEF Tokens
    <2> QED
        BY <2>1 DEF Init, SharedInv, DrawnInv, SessionInv, TokenInv
<1>4. OneAccountEach /\ TokenOfItsIdentity /\ CheatsFollowAllowList
    BY DEF Init, OneAccountEach, TokenOfItsIdentity, CheatsFollowAllowList
<1> QED
    BY <1>1, <1>2, <1>3, <1>4 DEF AccountsInv

LEMMA NextAccountsInv == AccountsInv /\ [Next]_vars => AccountsInv'
<1> SUFFICES ASSUME AccountsInv, [Next]_vars PROVE AccountsInv'
    OBVIOUS
<1>1. CASE UNCHANGED vars
    <2>1. Rows' = Rows
        BY <1>1 DEF vars, rows, Rows
    <2> QED
        BY <1>1, <2>1
           DEF AccountsInv, TypeOK, LocalInv, ReqInv, UserInv, LoginInv, KnewInv,
               SharedInv, DrawnInv, SessionInv, TokenInv, OneAccountEach, Unique,
               TokenOfItsIdentity, CheatsFollowAllowList, Where, vars, rows, locals,
               history
<1>2. CASE Deploy
    BY <1>2, DeployKeeps
<1>3. ASSUME NEW r \in Reqs, Step(r) PROVE AccountsInv'
    <2>1. CASE Begin(r)
        BY <2>1, BeginKeeps
    <2>2. CASE FindAccount(r)
        BY <2>2, FindAccountKeeps
    <2>3. CASE Register(r)
        BY <2>3, RegisterKeeps
    <2>4. CASE SetCheats(r)
        BY <2>4, SetCheatsKeeps
    <2>5. CASE AddSession(r)
        BY <2>5, AddSessionKeeps
    <2>6. CASE EndSession(r)
        BY <2>6, EndSessionKeeps
    <2>7. CASE FindSession(r) \/ FindLinked(r) \/ Authenticate(r) \/ FindUser(r)
        BY <2>7, FindKeeps
    <2>8. CASE LinkGoogle(r)
        BY <2>8, LinkGoogleKeeps
    <2>9. CASE Unlink(r)
        BY <2>9, UnlinkKeeps
    <2>10. CASE Authorize(r)
        BY <2>10, AuthorizeKeeps
    <2>11. CASE AdminWrite(r)
        BY <2>11, AdminWriteKeeps
    <2>12. CASE AdminRefused(r)
        BY <2>12, EndKeeps DEF AdminRefused
    <2>13. CASE Reply(r)
        BY <2>13, ReplyKeeps
    <2>14. CASE Abort(r)
        BY <2>14, EndKeeps DEF Abort
    <2> QED
        BY <1>3, <2>1, <2>2, <2>3, <2>4, <2>5, <2>6, <2>7, <2>8, <2>9, <2>10,
           <2>11, <2>12, <2>13, <2>14 DEF Step
<1> QED
    BY <1>1, <1>2, <1>3 DEF Next

\* No step takes the row of a name that exists, or gives it another identity.
LEMMA NextGrows == AccountsInv /\ [Next]_vars /\ UNCHANGED allowList => Grow
<1> SUFFICES ASSUME AccountsInv, [Next]_vars, UNCHANGED allowList PROVE Grow
    OBVIOUS
<1>1. CASE UNCHANGED accounts
    BY <1>1 DEF Grow, Rows
<1>2. CASE UNCHANGED vars \/ Deploy
    BY <1>1, <1>2 DEF vars, Deploy, rows
<1>3. ASSUME NEW r \in Reqs, Step(r) PROVE Grow
    <2>1. CASE Register(r) \/ SetCheats(r) \/ LinkGoogle(r) \/ Unlink(r) \/ AdminWrite(r)
        BY <2>1, RegisterKeeps, SetCheatsKeeps, LinkGoogleKeeps, UnlinkKeeps,
           AdminWriteKeeps
    <2>2. CASE ~(Register(r) \/ SetCheats(r) \/ LinkGoogle(r) \/ Unlink(r)
                   \/ AdminWrite(r))
        <3>1. UNCHANGED accounts
            BY <1>3, <2>2
               DEF Step, Begin, FindAccount, AddSession, EndSession, FindSession,
                   FindLinked, Authenticate, Authorize, FindUser, AdminRefused, Reply,
                   Abort, Lookup, shared, rows
        <3> QED
            BY <1>1, <3>1
    <2> QED
        BY <2>1, <2>2
<1> QED
    BY <1>2, <1>3 DEF Next

\* The inductive invariant: what every request may rely on at its statement, where
\* tokens can be, and what the rows agree on.
THEOREM AccountsInvariance == Spec => []AccountsInv
<1> QED
    BY InitAccountsInv, NextAccountsInv, PTL DEF Spec

\* Types, for any numbers of requests, names, identities and tokens.
THEOREM AccountsTypeCorrect == Spec => []TypeOK
<1>1. AccountsInv => TypeOK
    BY DEF AccountsInv
<1> QED
    BY <1>1, AccountsInvariance, PTL

\* First logins, links and admin links that race leave every external identity
\* with one account at most (FetchUsernameByFirebaseUid, then the INSERT).
THEOREM OneAccountEachHolds == Spec => []OneAccountEach
<1>1. AccountsInv => OneAccountEach
    BY DEF AccountsInv
<1> QED
    BY <1>1, AccountsInvariance, PTL

\* No login gets a token for an account of another identity.
THEOREM TokenOfItsIdentityHolds == Spec => []TokenOfItsIdentity
<1>1. AccountsInv => TokenOfItsIdentity
    BY DEF AccountsInv
<1> QED
    BY <1>1, AccountsInvariance, PTL

\* A token that was answered authenticates its client until the logout.
THEOREM HandedTokenWorksHolds == Spec => []HandedTokenWorks
<1>1. AccountsInv => HandedTokenWorks
    BY DEF AccountsInv, TypeOK, SharedInv, SessionInv, HandedTokenWorks, SessionUser
<1> QED
    BY <1>1, AccountsInvariance, PTL

\* Cheat access follows the allow-list of the running build.
THEOREM CheatsFollowAllowListHolds == Spec => []CheatsFollowAllowList
<1>1. AccountsInv => CheatsFollowAllowList
    BY DEF AccountsInv
<1> QED
    BY <1>1, AccountsInvariance, PTL

\* No login of an identity that has an account is refused for its nickname.
THEOREM NicknameOnlyFirstHolds == Spec => []NicknameOnlyFirst
<1>1. AccountsInv => NicknameOnlyFirst
    BY DEF AccountsInv, LocalInv, KnewInv, NicknameOnlyFirst
<1> QED
    BY <1>1, AccountsInvariance, PTL

\* No registration, link or unlink changes whose account a row is.
THEOREM AccountKeepsIdentityHolds == Spec => AccountKeepsIdentity
<1>1. AccountsInv /\ [Next]_vars =>
        [\A u \in Rows : /\ accounts'[u] # None
                         /\ accounts'[u].firebase = accounts[u].firebase]_vars
    <2> SUFFICES ASSUME AccountsInv, [Next]_vars, NEW u \in Rows
                 PROVE  /\ accounts'[u] # None
                        /\ accounts'[u].firebase = accounts[u].firebase
        OBVIOUS
    <2>1. CASE UNCHANGED allowList
        BY <2>1, NextGrows DEF Grow
    <2>2. CASE Deploy
        BY <2>2 DEF Deploy, rows, Rows
    <2>3. CASE UNCHANGED vars
        BY <2>1, <2>3 DEF vars
    <2>4. ASSUME NEW r \in Reqs, Step(r) PROVE UNCHANGED allowList
        BY <2>4
           DEF Step, Begin, FindAccount, Register, SetCheats, AddSession, EndSession,
               FindSession, LinkGoogle, FindLinked, Authenticate, Unlink, Authorize,
               FindUser, AdminWrite, AdminRefused, Reply, Abort, Lookup, shared,
               linkVars
    <2> QED
        BY <2>1, <2>2, <2>3, <2>4 DEF Next
<1> QED
    BY <1>1, AccountsInvariance, PTL DEF Spec, AccountKeepsIdentity

=============================================================================
