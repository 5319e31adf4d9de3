---------------------------- MODULE ResultStream ----------------------------
(***************************************************************************)
(* What the reader of a tty promises to the monitor: the results of the    *)
(* modem one by one, in order, each one once.  Three things may go wrong.  *)
(* What is Noise is no result.  A Delicate result may be missed, and then  *)
(* the reader may be out of step and miss others behind it.  And a Greedy  *)
(* one may take what follows it along: a list is meant to end before the   *)
(* next OK.                                                                *)
(***************************************************************************)
EXTENDS Integers, Sequences

CONSTANTS
    Kind,       \* kinds of results
    Noise,      \* those that are none
    Delicate,   \* those that may be missed
    Greedy      \* those that may take what follows along

VARIABLES
    said,       \* the kinds of the results the modem has sent
    way,        \* which of them are on their way to the monitor
    got         \* which of them the monitor got

streamVars == <<said, way, got>>

StreamInit == said = <<>> /\ way = <<>> /\ got = <<>>

Say(k) ==
    /\ said' = Append(said, k)
    /\ way' = Append(way, Len(said'))
    /\ UNCHANGED got

\* The next result, and with a greedy one any number of those behind it.
Get ==
    /\ way # <<>>
    /\ got' = Append(got, Head(way))
    /\ \E n \in 1 .. Len(way) :
        /\ n > 1 => said[Head(way)] \in Greedy
        /\ way' = SubSeq(way, n + 1, Len(way))
    /\ UNCHANGED said

\* A delicate result before the n-th was missed, or got in fragments.
OutOfStep(n) ==
    \E m \in 1 .. n - 1 :
        /\ said[m] \in Delicate
        /\ said[m] \in Greedy \/ m \notin {got[i] : i \in DOMAIN got}

Miss ==
    /\ way # <<>>
    /\ said[Head(way)] \in Noise \union Delicate \/ OutOfStep(Head(way))
    /\ way' = Tail(way)
    /\ UNCHANGED <<said, got>>

\* The connection is lost with what is on its way.
Cut ==
    /\ way' = <<>>
    /\ UNCHANGED <<said, got>>

StreamNext == (\E k \in Kind : Say(k)) \/ Get \/ Miss \/ Cut

StreamSpec == StreamInit /\ [][StreamNext]_streamVars
=============================================================================
