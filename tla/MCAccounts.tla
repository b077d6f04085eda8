----------------------------- MODULE MCAccounts -----------------------------
(***************************************************************************)
(* Small instances of Accounts: two requests in flight, two names, two     *)
(* Firebase identities, one Google and one Discord account.                *)
(***************************************************************************)
EXTENDS Accounts, TLC

CONSTANTS n1, n2, i1, i2, g1, d1, r1, r2

Task(op, provider, name, id) ==
    [op |-> op, uid |-> None, name |-> name, token |-> 0,
     provider |-> provider, id |-> id]

\* Link the Google id to an account, unlink an account, unlink a Discord id.
MCAdminTasks ==
    {Task("adminLink", "google", n, g1) : n \in {n1, n2}}
    \cup {Task("adminUnlink", "discord", n, None) : n \in {n1, n2}}
    \cup {Task("adminUnlinkId", "discord", None, d1)}

\* Unlink an external id of either provider.
UnlinkTasks == {Task("adminUnlinkId", "google", None, g1),
                Task("adminUnlinkId", "discord", None, d1)}

\* Nobody, or everybody.
MCAllowLists == {{}, {i1, i2}}

Symmetric == Permutations({r1, r2}) \cup Permutations({n1, n2})
                 \cup Permutations({i1, i2})
=============================================================================
