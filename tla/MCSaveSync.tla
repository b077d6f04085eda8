----------------------------- MODULE MCSaveSync -----------------------------
(***************************************************************************)
(* Small instances of SaveSync: two requests in flight, two clients, one   *)
(* run slot.                                                               *)
(***************************************************************************)
EXTENDS SaveSync, TLC

CONSTANTS idA, idB, c1, c2, r1, r2

\* The minimum, a later version without the last part and a malformed one.
MCMinVersion == << 1, 12, 0, 10 >>
Newer == << 1, 12, 1 >>
Malformed == << 1, NoNumber, 0 >>

Unmigrated == "fix" :> NoNumber
Migrated == "fix" :> 7

Save(i, p, v, m) ==
    [id |-> i, play |-> p, numbers |-> TRUE, ver |-> v, mig |-> m]

\* Statistics with something else than numbers beside the play time.
Odd(sv) == [sv EXCEPT !.numbers = FALSE]

\* Of one player rising play time, versions at and above the minimum, with and
\* without a migrator, and a save without a play time; of another one a save
\* whose statistics are refused after its ids are set.
MCSystemSaves ==
    {Save(idA, 1, MCMinVersion, Unmigrated), Save(idA, 2, Newer, Migrated),
     Save(idA, NoNumber, MCMinVersion, Unmigrated),
     Odd(Save(idB, 2, MCMinVersion, Unmigrated))}

\* Saves of one player as play time goes on, and one without ids.
MCHandoffSaves ==
    {Save(idA, 0, MCMinVersion, Unmigrated), Save(idA, 1, MCMinVersion, Unmigrated),
     Save(Zero, 1, MCMinVersion, Unmigrated)}

\* A save of the player, and two that a later update could not replace: one
\* without a play time, one with a version that does not parse.
MCFaultSaves ==
    {Save(idA, 0, MCMinVersion, Unmigrated),
     Save(idA, NoNumber, MCMinVersion, Unmigrated),
     Save(idA, 0, Malformed, Unmigrated)}

\* One run at two waves.
MCSessionSaves == {[seed |-> 0, wave |-> 1], [seed |-> 0, wave |-> 2]}

MCOneSession == {[seed |-> 0, wave |-> 1]}

SystemOps == {"sysGet", "sysUpdate", "sysVerify", "updateAll"}
FaultOps == OpNames \ {"sesGet", "sesDelete"}

SymmetricReqs == Permutations({r1, r2})
Symmetric == Permutations({r1, r2}) \cup Permutations({c1, c2})
=============================================================================
