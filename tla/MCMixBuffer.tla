---------------------------- MODULE MCMixBuffer ----------------------------
(* Instances of MixBuffer for TLC. *)
EXTENDS MixBuffer, TLC

Loud == MaxSample

\* Frames of the extreme samples: shorter and as long as what the modem hears
\* at once, and longer than the whole buffer.
MCFrames == {<<-Loud>>, <<Loud, Loud>>,
             [i \in 1 .. Size + 1 |-> IF i < Size THEN -Loud ELSE Loud]}

Symmetry == Permutations(Stream)
=============================================================================
