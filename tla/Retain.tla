-------------------------------- MODULE Retain --------------------------------
(***************************************************************************)
(* What `Vec::retain` and `Iterator::filter` leave of a sequence, as a     *)
(* function of how far they have come, so that it can be proved about.     *)
(***************************************************************************)
EXTENDS Integers, Sequences

\* Those of the first `n` elements that are in `wanted`, in their order.
Those(seq, n, wanted) ==
    LET those[m \in 0..n] ==
            IF m = 0 THEN <<>>
            ELSE IF seq[m] \in wanted THEN Append(those[m - 1], seq[m])
            ELSE those[m - 1]
    IN  those[n]
=============================================================================
