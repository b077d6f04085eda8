------------------------------ MODULE Accounts ------------------------------
(***************************************************************************)
(* Accounts, their sessions and their external identities: the Firebase    *)
(* login (/account/login/firebase) with the registration it may start,     *)
(* /account/logout, the Google callback and the provider logout under      *)
(* /auth, and the admin routes that link and unlink providers.             *)
(*                                                                         *)
(* A request runs in a goroutine of its own and every statement commits by *)
(* itself, so one action is one statement and the decision taken on its    *)
(* result.  The rows of accounts are keyed by username here: username and  *)
(* uuid are both unique, neither is ever updated and no row is deleted.    *)
(***************************************************************************)
EXTENDS Naturals

CONSTANTS
    Reqs,        \* requests that can be in flight together
    Usernames,   \* names that isValidUsername accepts
    BadName,     \* a missing or malformed nickname, a name of no account
    Uids,        \* Firebase identities with a school email
    GoogleIds,   \* Google accounts
    DiscordIds,  \* Discord accounts
    Admins,      \* the Discord accounts with the admin role
    AdminTasks,  \* what admins ask for
    AllowLists,  \* the identities with cheat access, in each of the builds
    MaxTokens,   \* bound on the session tokens drawn
    None         \* a NULL, a missing row, an absent field

Providers == {"google", "discord"}
Tokens == 0 .. MaxTokens  \* token 0 is one that no session has

\* The external accounts of a provider.
IdsOf(p) == IF p = "google" THEN GoogleIds ELSE DiscordIds
Ids == GoogleIds \cup DiscordIds

ASSUME AccountsAssumption ==
    /\ BadName \notin Usernames
    /\ Admins \subseteq DiscordIds
    /\ GoogleIds \cap DiscordIds = {}
    /\ MaxTokens \in Nat
    /\ None \notin Usernames \cup Uids \cup Ids \cup {BadName}

Request == [op : {"login", "link", "googleLogin", "logout", "disconnect",
                  "adminLink", "adminUnlink", "adminUnlinkId"},
            uid : Uids \cup {None}, name : Usernames \cup {BadName, None},
            token : Tokens, provider : Providers \cup {None},
            id : Ids \cup {None}]

\* The admin routes: a provider, and the account or the external id meant.
AdminTask ==
    {q \in Request : /\ q.uid = None /\ q.token = 0 /\ q.provider # None
                     /\ \/ q.op = "adminLink" /\ q.name # None
                           /\ q.id \in IdsOf(q.provider)
                        \/ q.op = "adminUnlink" /\ q.name # None /\ q.id = None
                        \/ q.op = "adminUnlinkId" /\ q.name = None
                           /\ q.id \in IdsOf(q.provider)}

Account == [firebase : Uids \cup {None}, google : GoogleIds \cup {None},
            discord : DiscordIds \cup {None}, cheats : BOOLEAN]

ASSUME DataAssumption ==
    /\ None \notin Account \cup Request
    /\ AdminTasks \subseteq AdminTask
    /\ AllowLists \subseteq SUBSET Uids

VARIABLES
    accounts,   \* username -> its row, or None
    sessions,   \* token -> the username of its row in sessions, or None
    drawn,      \* number of tokens drawn: 32 random bytes, never drawn again
    allowList,  \* the identities whose email isCheatAccountEmail accepts
    at,         \* request -> the statement it is about to run
    req,        \* request -> what was asked, or None
    user,       \* request -> the username or uuid it has looked up, or None
    token,      \* request -> the token it has drawn, or 0
    origin,     \* token -> the Firebase identity it was drawn for, or None
    handed,     \* tokens that were answered to a client and not logged out
    current,    \* tokens drawn by a Firebase login to the running build
    knew        \* request -> had its identity an account when it began

rows == <<accounts, sessions>>
locals == <<req, user, token, knew>>
history == <<origin, handed, current>>
vars == <<rows, drawn, allowList, at, locals, history>>

Labels == {"idle", "find", "register", "cheats", "addSession", "findLinked",
           "findSession", "link", "endSession", "authenticate", "unlink",
           "authorize", "findUser", "adminWrite", "reply", "refuse"}

-----------------------------------------------------------------------------
(* Lookups and constraints of the accounts table *)

Rows == {u \in Usernames : accounts[u] # None}

\* The accounts whose column p holds the value v.
Where(p, v) == {u \in Rows : accounts[u][p] = v}

\* UPDATE accounts SET p = id for one account: refused when another has the id.
CanLink(u, p, id) == Where(p, id) \subseteq {u}

\* The accounts table when column p of the accounts of S is set to v.
Set(S, p, v) ==
    [u \in Usernames |-> IF u \in S THEN [accounts[u] EXCEPT ![p] = v]
                                    ELSE accounts[u]]

\* The row of a Firebase account.
NewAccount(uid) ==
    [firebase |-> uid, google |-> None, discord |-> None, cheats |-> FALSE]

\* Mutant: the columns were created without UNIQUE.
CanInsert_nameOnly(name, uid) == accounts[name] = None

\* AddFirebaseAccountRecord succeeds: the name and the uid are both free.
CanInsert(name, uid) == accounts[name] = None /\ Where("firebase", uid) = {}

-----------------------------------------------------------------------------
(* Requests *)

\* What clients may send, fields that a request does not have being None or 0.  A
\* token of no session meets the same refusals as one that another request logs
\* out after it was presented.
LoginRequests ==
    [op : {"login"}, uid : Uids, name : Usernames \cup {BadName},
     token : {0}, provider : {None}, id : {None}]

GoogleRequests ==
    [op : {"link"}, uid : {None}, name : {None}, token : handed,
     provider : {"google"}, id : GoogleIds]
    \cup [op : {"googleLogin"}, uid : {None}, name : {None}, token : {0},
          provider : {"google"}, id : GoogleIds]

LogoutRequests ==
    [op : {"logout"}, uid : {None}, name : {None}, token : handed,
     provider : {None}, id : {None}]
    \cup [op : {"disconnect"}, uid : {None}, name : {None}, token : handed,
          provider : Providers, id : {None}]

\* What an admin may ask for with the session token t.
AdminRequests(t) == {[task EXCEPT !.token = t] : task \in AdminTasks}

Requests == LoginRequests \cup GoogleRequests \cup LogoutRequests
                \cup UNION {AdminRequests(t) : t \in handed}

\* The first statement of a request.
First(q) ==
    CASE q.op = "login" -> "find"
      [] q.op = "link" -> "findSession"
      [] q.op = "googleLogin" -> "findLinked"
      [] q.op = "logout" -> "endSession"
      [] OTHER -> "authenticate"

\* A request arrives.
Begin(r) ==
    /\ at[r] = "idle"
    /\ \E q \in Requests :
        /\ at' = [at EXCEPT ![r] = First(q)]
        /\ req' = [req EXCEPT ![r] = q]
        /\ user' = [user EXCEPT ![r] = None]
        /\ token' = [token EXCEPT ![r] = 0]
        /\ knew' = [knew EXCEPT ![r] =
                        q.uid # None /\ Where("firebase", q.uid) # {}]
    /\ UNCHANGED <<rows, drawn, allowList, history>>

\* Request r goes on with statement l.
GoTo(r, l) == at' = [at EXCEPT ![r] = l]

\* Request r has looked up account u and goes on with statement l.
Found(r, u, l) ==
    /\ GoTo(r, l)
    /\ user' = [user EXCEPT ![r] = u]
    /\ UNCHANGED <<req, token, knew>>

\* Request r is over.
End(r) ==
    /\ GoTo(r, "idle")
    /\ req' = [req EXCEPT ![r] = None]
    /\ user' = [user EXCEPT ![r] = None]
    /\ token' = [token EXCEPT ![r] = 0]
    /\ knew' = [knew EXCEPT ![r] = FALSE]

shared == <<rows, drawn, allowList, history>>

\* A lookup of an account, one of the set S of at most one: the request goes on
\* with the next statement, or is refused or redirected when there is none.
Lookup(r, S, next) ==
    /\ \/ \E u \in S : Found(r, u, next)
       \/ S = {} /\ End(r)
    /\ UNCHANGED shared

\* The account a session token belongs to.
SessionUser(t) == {u \in Rows : sessions[t] = u}

-----------------------------------------------------------------------------
(* Firebase login: loginWithIdentity *)

\* Mutant: the nickname is validated before the account is looked up.
FindAccount_nameFirst(r) ==
    LET own == Where("firebase", req[r].uid) IN
    /\ at[r] = "find"
    /\ \/ req[r].name \in Usernames /\ \E u \in own : Found(r, u, "cheats")
       \/ /\ req[r].name \in Usernames /\ own = {}
          /\ GoTo(r, "register") /\ UNCHANGED locals
       \/ req[r].name \notin Usernames /\ GoTo(r, "refuse") /\ UNCHANGED locals
    /\ UNCHANGED shared

\* FetchUsernameByFirebaseUid: no account yet means one is registered.
FindAccount(r) ==
    LET own == Where("firebase", req[r].uid) IN
    /\ at[r] = "find"
    /\ \/ \E u \in own : Found(r, u, "cheats")
       \/ own = {} /\ GoTo(r, "register") /\ UNCHANGED locals
    /\ UNCHANGED shared

\* Mutant: a name that is taken is ignored and the login goes on with it.
Register_ignore(r) ==
    /\ at[r] = "register"
    /\ \/ /\ req[r].name \in Usernames
          /\ accounts' = IF CanInsert(req[r].name, req[r].uid)
                         THEN [accounts EXCEPT ![req[r].name] =
                                                    NewAccount(req[r].uid)]
                         ELSE accounts
          /\ Found(r, req[r].name, "cheats")
       \/ /\ req[r].name \notin Usernames
          /\ GoTo(r, "refuse")
          /\ UNCHANGED <<accounts, locals>>
    /\ UNCHANGED <<sessions, drawn, allowList, history>>

\* registerFirebaseAccount: a row for the identity under its nickname, refused
\* when the nickname is malformed or the name or the identity has a row by now.
Register(r) ==
    /\ at[r] = "register"
    /\ \/ /\ req[r].name \in Usernames
          /\ CanInsert(req[r].name, req[r].uid)
          /\ accounts' = [accounts EXCEPT ![req[r].name] = NewAccount(req[r].uid)]
          /\ Found(r, req[r].name, "cheats")
       \/ /\ req[r].name \in Usernames => ~CanInsert(req[r].name, req[r].uid)
          /\ GoTo(r, "refuse")
          /\ UNCHANGED <<accounts, locals>>
    /\ UNCHANGED <<sessions, drawn, allowList, history>>

\* Mutant: the flag is only ever granted.
SetCheats_grantOnly(r) ==
    /\ at[r] = "cheats"
    /\ accounts' = Set({user[r]}, "cheats",
                       req[r].uid \in allowList \/ accounts[user[r]].cheats)
    /\ GoTo(r, "addSession")
    /\ UNCHANGED <<sessions, drawn, allowList, locals, history>>

\* SetCheatsEnabledByUsername, on every Firebase login.
SetCheats(r) ==
    /\ at[r] = "cheats"
    /\ accounts' = Set({user[r]}, "cheats", req[r].uid \in allowList)
    /\ GoTo(r, "addSession")
    /\ UNCHANGED <<sessions, drawn, allowList, locals, history>>

\* Mutant: one session for each account.
AddSession_single(r) ==
    /\ at[r] = "addSession" /\ drawn < MaxTokens
    /\ drawn' = drawn + 1
    /\ sessions' = [t \in Tokens |-> IF t = drawn' THEN user[r]
                      ELSE IF sessions[t] = user[r] THEN None ELSE sessions[t]]
    /\ token' = [token EXCEPT ![r] = drawn']
    /\ origin' = [origin EXCEPT ![drawn'] = req[r].uid]
    /\ current' = IF req[r].op = "login" THEN current \cup {drawn'} ELSE current
    /\ GoTo(r, "reply")
    /\ UNCHANGED <<accounts, allowList, req, user, knew, handed>>

\* GenerateTokenForUsername and AddAccountSession (lastLoggedIn is not modelled;
\* when that update fails the request is aborted with its session stored).
AddSession(r) ==
    /\ at[r] = "addSession" /\ drawn < MaxTokens
    /\ drawn' = drawn + 1
    /\ sessions' = [sessions EXCEPT ![drawn'] = user[r]]
    /\ token' = [token EXCEPT ![r] = drawn']
    /\ origin' = [origin EXCEPT ![drawn'] = req[r].uid]
    /\ current' = IF req[r].op = "login" THEN current \cup {drawn'} ELSE current
    /\ GoTo(r, "reply")
    /\ UNCHANGED <<accounts, allowList, req, user, knew, handed>>

-----------------------------------------------------------------------------
(* Logout and the Google callback *)

\* RemoveSessionFromToken: no error when there is no such session.
EndSession(r) ==
    /\ at[r] = "endSession"
    /\ sessions' = [sessions EXCEPT ![req[r].token] = None]
    /\ origin' = [origin EXCEPT ![req[r].token] = None]
    /\ handed' = handed \ {req[r].token}
    /\ current' = current \ {req[r].token}
    /\ End(r)
    /\ UNCHANGED <<accounts, drawn, allowList>>

\* The callback with a state: FetchUsernameBySessionToken.
FindSession(r) ==
    /\ at[r] = "findSession"
    /\ Lookup(r, SessionUser(req[r].token), "link")

linkVars == <<sessions, drawn, allowList, history>>

\* AddGoogleIdByUsername; redirected alike when another account has the id.
LinkGoogle(r) ==
    /\ at[r] = "link"
    /\ accounts' = IF CanLink(user[r], "google", req[r].id)
                   THEN Set({user[r]}, "google", req[r].id) ELSE accounts
    /\ End(r)
    /\ UNCHANGED linkVars

\* The callback without a state: FetchUsernameByGoogleId.
FindLinked(r) ==
    /\ at[r] = "findLinked"
    /\ Lookup(r, Where("google", req[r].id), "addSession")

-----------------------------------------------------------------------------
(* Provider logout and the admin routes *)

\* uuidFromRequest.
Authenticate(r) ==
    /\ at[r] = "authenticate"
    /\ Lookup(r, SessionUser(req[r].token),
              IF req[r].op = "disconnect" THEN "unlink" ELSE "authorize")

\* Remove{Discord,Google}IdByUUID for the caller.
Unlink(r) ==
    /\ at[r] = "unlink"
    /\ accounts' = Set({user[r]}, req[r].provider, None)
    /\ End(r)
    /\ UNCHANGED linkVars

\* FetchDiscordIdByUUID and IsUserDiscordAdmin, a call to Discord that may fail.
Authorize(r) ==
    /\ at[r] = "authorize"
    /\ \/ /\ accounts[user[r]].discord \in Admins
          /\ GoTo(r, IF req[r].op = "adminUnlinkId" THEN "adminWrite"
                                                    ELSE "findUser")
          /\ UNCHANGED locals
       \/ End(r)
    /\ UNCHANGED shared

\* CheckUsernameExists and FetchUUIDFromUsername of the name given.
FindUser(r) ==
    /\ at[r] = "findUser"
    /\ Lookup(r, Rows \cap {req[r].name}, "adminWrite")

\* The statement of the admin route: Add{Discord,Google}IdByUUID,
\* Remove{Discord,Google}IdByUUID, RemoveDiscordIdByDiscordId or
\* RemoveGoogleIdByDiscordId, whose WHERE clause is on discordId as well.
AdminWrite(r) ==
    LET q == req[r] IN
    /\ at[r] = "adminWrite"
    /\ \/ /\ q.op = "adminLink" /\ CanLink(user[r], q.provider, q.id)
          /\ accounts' = Set({user[r]}, q.provider, q.id)
       \/ /\ q.op = "adminUnlink"
          /\ accounts' = Set({user[r]}, q.provider, None)
       \/ /\ q.op = "adminUnlinkId"
          /\ accounts' = Set(Where("discord", q.id), q.provider, None)
    /\ GoTo(r, "reply")
    /\ UNCHANGED <<linkVars, locals>>

\* The UNIQUE column refuses to link an external id of another account.
AdminRefused(r) ==
    /\ at[r] = "adminWrite" /\ req[r].op = "adminLink"
    /\ ~CanLink(user[r], req[r].provider, req[r].id)
    /\ End(r)
    /\ UNCHANGED shared

-----------------------------------------------------------------------------
(* Answers, failures, deployments *)

\* Mutant: every answer carries the token field, an empty one included.
Reply_anyToken(r) ==
    /\ at[r] \in {"reply", "refuse"}
    /\ handed' = handed \cup {token[r]}
    /\ End(r)
    /\ UNCHANGED <<rows, drawn, allowList, origin, current>>

\* The answer reaches the client, with the token of a login.
Reply(r) ==
    /\ at[r] \in {"reply", "refuse"}
    /\ handed' = IF token[r] # 0 THEN handed \cup {token[r]} ELSE handed
    /\ End(r)
    /\ UNCHANGED <<rows, drawn, allowList, origin, current>>

\* A statement fails, or the connection is lost: the client gets an error.
Abort(r) ==
    /\ at[r] # "idle"
    /\ End(r)
    /\ UNCHANGED shared

\* A build with another allow-list replaces the running one: the list is part of
\* the program, and the requests in flight die with the old process.
Deploy ==
    /\ allowList' \in AllowLists \ {allowList}
    /\ at' = [r \in Reqs |-> "idle"]
    /\ req' = [r \in Reqs |-> None]
    /\ user' = [r \in Reqs |-> None]
    /\ token' = [r \in Reqs |-> 0]
    /\ knew' = [r \in Reqs |-> FALSE]
    /\ current' = {}
    /\ UNCHANGED <<rows, drawn, origin, handed>>

-----------------------------------------------------------------------------

\* No identity is on two accounts.
Unique ==
    \A u, v \in Rows : \A p \in {"firebase"} \cup Providers :
        accounts[u][p] = accounts[v][p] /\ accounts[u][p] # None => u = v

\* Accounts of the time of password logins have no Firebase identity.
Init ==
    /\ accounts \in [Usernames ->
           [firebase : {None}, google : GoogleIds \cup {None},
            discord : DiscordIds \cup {None}, cheats : {FALSE}] \cup {None}]
    /\ Unique
    /\ sessions = [t \in Tokens |-> None]
    /\ drawn = 0
    /\ allowList \in AllowLists
    /\ at = [r \in Reqs |-> "idle"]
    /\ req = [r \in Reqs |-> None]
    /\ user = [r \in Reqs |-> None]
    /\ token = [r \in Reqs |-> 0]
    /\ knew = [r \in Reqs |-> FALSE]
    /\ origin = [t \in Tokens |-> None]
    /\ handed = {} /\ current = {}

Step(r) ==
    \/ Begin(r) \/ FindAccount(r) \/ Register(r) \/ SetCheats(r) \/ AddSession(r)
    \/ EndSession(r) \/ FindSession(r) \/ LinkGoogle(r) \/ FindLinked(r)
    \/ Authenticate(r) \/ Unlink(r) \/ Authorize(r) \/ FindUser(r)
    \/ AdminWrite(r) \/ AdminRefused(r) \/ Reply(r) \/ Abort(r)

Next == Deploy \/ \E r \in Reqs : Step(r)

Spec == Init /\ [][Next]_vars

-----------------------------------------------------------------------------
(* Properties *)

\* The types of the variables; only tokens of sessions are handed to clients.
TypeOK ==
    /\ accounts \in [Usernames -> Account \cup {None}]
    /\ sessions \in [Tokens -> Usernames \cup {None}]
    /\ drawn \in Tokens
    /\ allowList \in AllowLists
    /\ at \in [Reqs -> Labels]
    /\ req \in [Reqs -> Request \cup {None}]
    /\ user \in [Reqs -> Usernames \cup {None}]
    /\ token \in [Reqs -> Tokens]
    /\ knew \in [Reqs -> BOOLEAN]
    /\ origin \in [Tokens -> Uids \cup {None}]
    /\ handed \subseteq Tokens \ {0} /\ current \subseteq Tokens \ {0}

\* Two first logins of one identity that both find no account, and links that
\* race each other, leave each identity with one account at most.
OneAccountEach == Unique

\* A session belongs to the account of the identity that logged in: a login that
\* loses the race for a nickname never gets into the winner's account.
TokenOfItsIdentity ==
    \A t \in Tokens :
        sessions[t] # None /\ origin[t] # None =>
            accounts[sessions[t]].firebase = origin[t]

\* A token that was answered to a client authenticates it until it is logged out,
\* whatever other logins, logouts and unlinkings run meanwhile.
HandedTokenWorks ==
    \A t \in handed : SessionUser(t) # {}

\* Whoever has logged in through Firebase since the last deployment has the cheat
\* access of the running allow-list: granted at once, revoked at the next login,
\* and no statement of an overlapping login in between undoes it.
CheatsFollowAllowList ==
    \A t \in current :
        sessions[t] # None =>
            (accounts[sessions[t]].cheats
                <=> accounts[sessions[t]].firebase \in allowList)

\* The nickname only matters when an identity is seen for the first time: the
\* login of an identity with an account is never refused, so that a registration
\* whose answer was lost can be retried without the nickname.
NicknameOnlyFirst ==
    \A r \in Reqs : at[r] = "refuse" /\ req[r].op = "login" => ~knew[r]

\* An account keeps its identity: no registration takes the row of a name that
\* exists, with or without a Firebase identity.
AccountKeepsIdentity ==
    [][\A u \in Rows : /\ accounts'[u] # None
                       /\ accounts'[u].firebase = accounts[u].firebase]_vars

\* An admin route that answers it has removed an external id leaves no account
\* with that id (endpoints.go: "removed google id %s from username %s").
RemovedIdIsGone ==
    [][\A r \in Reqs :
        at[r] = "adminWrite" /\ req[r].op = "adminUnlinkId" /\ at'[r] = "reply"
            => \A u \in Rows : accounts'[u][req[r].provider] # req[r].id]_vars
=============================================================================
