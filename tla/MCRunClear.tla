----------------------------- MODULE MCRunClear -----------------------------
(***************************************************************************)
(* One account, two requests in flight, one server, two days.              *)
(***************************************************************************)
EXTENDS RunClear, TLC

CONSTANTS k1, r1, r2

Ended(m, d, w, b, p) ==
    [mode |-> m, seed |-> <<d, k1>>, wave |-> w, boss |-> b, score |-> p]

\* Of the first day's seed: a lost run at wave 0 and a completed one at the cap
\* of 2; a completed classic run of another seed.
MCRuns == {Ended("daily", 0, 0, FALSE, 1), Ended("daily", 0, 50, TRUE, 2),
           Ended("classic", 1, 200, TRUE, 0)}

\* The stored run of the first day.
MCUnended == {Ended("daily", 0, 0, FALSE, 1)}

Symmetric == Permutations({r1, r2})
=============================================================================
