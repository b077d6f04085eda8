------------------------------- MODULE MCServer -------------------------------
(* Each behaviour has one part at work: they share no variable, so what    *)
(* one does changes nothing for another.                                   *)
EXTENDS Server, TLC

CONSTANTS p1, p2, p3

MCWorkloads == {{part} : part \in Parts}

\* Batches in opposite order, one that is empty, one with an entry that has no
\* id behind one that has, one with an id twice.
Entry(uid, data) == [uid |-> uid, data |-> data]
MCBatches ==
    { << >>,
      << Entry("x", "a"), Entry("y", "a") >>,
      << Entry("y", "b"), Entry("x", "b") >>,
      << Entry("x", "b"), Entry("none", "a") >>,
      << Entry("x", "b"), Entry("x", "a") >> }

\* Three results: one more makes a tie on the score, or a full one.
Result(score, stamp) == [score |-> score, stamp |-> stamp]
MCBoards ==
    {p1 :> Result(2, 1) @@ p2 :> Result(1, 0) @@ p3 :> Result(1, 1)}
=============================================================================
