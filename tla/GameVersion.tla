------------------------------ MODULE GameVersion ------------------------------
(***************************************************************************)
(* Game versions and migrators as api/savedata/utils.go compares them.     *)
(*                                                                         *)
(* A version is the sequence of what stands between its dots: the number   *)
(* of a part, or NoNumber for a part that strconv.Atoi refuses.            *)
(***************************************************************************)
EXTENDS Integers, Sequences

CONSTANT NoNumber

ASSUME NoNumberAssumption == NoNumber \notin Int

Version == Seq(Nat \cup {NoNumber})

\* parseGameVersion: the versions that it accepts.
Parses(v) == Len(v) \in 3 .. 4 /\ \A i \in 1 .. Len(v) : v[i] # NoNumber

trimTrailingZeros(v) ==
    SubSeq(v, 1, CHOOSE n \in 0 .. Len(v) :
                    /\ n > 0 => v[n] # 0
                    /\ \A i \in n + 1 .. Len(v) : v[i] = 0)

\* slices.Compare is negative: where they first differ, left ends or is less.
Precedes(left, right) ==
    \E i \in 1 .. Len(right) :
        /\ \A j \in 1 .. i - 1 : j <= Len(left) /\ left[j] = right[j]
        /\ i <= Len(left) => left[i] < right[i]

\* Of versions that parse: -1, 0 or 1.
CompareGameVersion(left, right) ==
    LET l == trimTrailingZeros(left)
        r == trimTrailingZeros(right)
    IN  IF Precedes(l, r) THEN -1 ELSE IF Precedes(r, l) THEN 1 ELSE 0

\* The migrators of a save and the times they were applied at; NoNumber for one
\* that is not in the map.  What a map gives for that one is 0.
Timestamp(time) == IF time = NoNumber THEN 0 ELSE time

ValidMigrators(new, old) ==
    \A m \in DOMAIN old : old[m] # NoNumber => Timestamp(new[m]) = old[m]

(***************************************************************************)
(* What versions mean: a missing part is 0, and the first parts count most.*)
(***************************************************************************)
Part(v, i) == IF i <= Len(v) THEN v[i] ELSE 0

NotLater(left, right) ==
    \A i \in 1 .. 4 :
        \/ Part(left, i) <= Part(right, i)
        \/ \E j \in 1 .. i - 1 : Part(left, j) < Part(right, j)
=============================================================================
