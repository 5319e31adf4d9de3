------------------------------- MODULE Mixer -------------------------------
(***************************************************************************)
(* What the mixer of a device promises.  Before the modem there is one     *)
(* line of samples to be heard, `ahead'.  Each stream of a call has a      *)
(* place in it, from which on its next samples are added: to what others   *)
(* have already put there, or at the end.  The modem hears the line from   *)
(* its beginning, a frame a time, with silence where there is nothing.     *)
(* A stream that is about to get Capacity samples ahead of the modem makes *)
(* the modem skip the oldest ones.                                         *)
(***************************************************************************)
EXTENDS Integers, Sequences

CONSTANTS
    Capacity,   \* samples the mixer can hold
    FrameSize,  \* samples the modem hears at once
    MaxSample,  \* the largest sample
    Stream,     \* the streams of calls
    Frames      \* what a channel may write at once: sequences of samples

VARIABLES
    ahead,      \* what will be heard
    place,      \* how far ahead of the modem each stream is
    streams,    \* the streams that are mixed
    heard       \* the frame heard last

mixerVars == <<ahead, place, streams, heard>>

Lesser(a, b)  == IF a < b THEN a ELSE b
Greater(a, b) == IF a < b THEN b ELSE a

\* ast_slinear_saturated_add
Sum(a, b) == Greater(-MaxSample, Lesser(MaxSample, a + b))

\* The line without its first n samples, and how far ahead one is then.
Skip(line, n)  == SubSeq(line, n + 1, Len(line))
Nearer(far, n) == Greater(0, far - n)

\* data added to the line behind its first n samples.
Added(line, n, data) ==
    [i \in 1 .. Greater(Len(line), n + Len(data)) |->
        CASE i <= n \/ i > n + Len(data) -> line[i]
          [] i > n /\ i <= Len(line) /\ i <= n + Len(data) -> Sum(line[i], data[i - n])
          [] OTHER -> data[i - n]]

MixerInit ==
    /\ ahead = <<>>
    /\ place = [s \in Stream |-> 0]
    /\ streams = {}
    /\ heard = <<>>

Begin ==
    /\ streams = {}
    /\ ahead' = <<>>
    /\ UNCHANGED <<place, streams, heard>>

Join(s) ==
    /\ s \notin streams
    /\ streams' = streams \union {s}
    /\ place' = [place EXCEPT ![s] = 0]
    /\ UNCHANGED <<ahead, heard>>

Leave(s) ==
    /\ s \in streams
    /\ streams' = streams \ {s}
    /\ place' = [place EXCEPT ![s] = 0]
    /\ UNCHANGED <<ahead, heard>>

Speak(s, data) ==
    /\ s \in streams
    /\ LET late == Greater(0, place[s] + Len(data) - Capacity)
           line == Skip(ahead, late)
           fits == SubSeq(data, 1, Lesser(Capacity, Len(data)))
           near == Nearer(place[s], late)
       IN  /\ ahead' = Added(line, near, fits)
           /\ place' = [t \in Stream |-> IF t = s THEN near + Len(fits)
                                         ELSE Nearer(place[t], late)]
    /\ UNCHANGED <<streams, heard>>

Hear ==
    /\ heard' = [i \in 1 .. FrameSize |-> IF i <= Len(ahead) THEN ahead[i] ELSE 0]
    /\ ahead' = Skip(ahead, FrameSize)
    /\ place' = [s \in Stream |-> Nearer(place[s], FrameSize)]
    /\ UNCHANGED streams

MixerNext ==
    \/ Begin
    \/ Hear
    \/ \E s \in Stream : Join(s) \/ Leave(s)
    \/ \E s \in Stream, data \in Frames : Speak(s, data)

MixerSpec == MixerInit /\ [][MixerNext]_mixerVars
=============================================================================
