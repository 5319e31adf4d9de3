----------------------------- MODULE MixBuffer -----------------------------
(***************************************************************************)
(* The mixer of a device (pvt->a_write_mixb, mixbuffer.c) and its use by   *)
(* the callbacks of channels: the samples of all calls of the device are   *)
(* summed in one ring buffer, from which a timer writes frames to the      *)
(* audio tty.  All streams share the reading position of the buffer and    *)
(* have a writing position each.  A cell is a sample; the position of a    *)
(* stream in mb->streams does not matter.                                  *)
(*                                                                         *)
(* Every operation is one step, as under the lock of the device.  A stream *)
(* attached by the monitor thread, which does not hold it, is covered by   *)
(* nothing here.                                                           *)
(***************************************************************************)
EXTENDS RingBuffer, FiniteSets

CONSTANTS
    FrameSize,  \* FRAME_SIZE, in samples
    MaxSample,  \* the largest value of a sample, 32767 in the code
    Stream,     \* the streams of calls (struct mixstream)
    Frames      \* what Asterisk may hand to channel_write: sequences of samples

Sample == -MaxSample .. MaxSample

ASSUME MixerAssumption ==
    /\ FrameSize \in 1 .. Size
    /\ MaxSample \in Nat
    /\ Frames \subseteq Seq(Sample)

VARIABLES
    rb,         \* mb->rb
    streams,    \* mb->streams
    stream,     \* used and write of each stream
    heard       \* what timing_write wrote to the audio tty last

vars == <<rb, streams, stream, heard>>

-----------------------------------------------------------------------------
\* External: ast_slinear_saturated_add.
saturated_add(a, b) ==
    IF a + b > MaxSample THEN MaxSample
    ELSE IF a + b < -MaxSample THEN -MaxSample
    ELSE a + b

\* data added to the cells of the buffer from its writing position on.
saturated_sum(b, data) ==
    [i \in DOMAIN data |-> saturated_add(b.buffer[Wrap(b.write + i - 1)], data[i])]

mixb_free(s) == Size - stream[s].used

\* The ring buffer with the stream's writing position for its own.
mixb_mix_write(b, st, data) ==
    LET from == [b EXCEPT !.used = st.used, !.write = st.write]
        local == rb_write_core(from, saturated_sum(from, data))
    IN  [rb |-> [b EXCEPT !.buffer = local.buffer],
         stream |-> [used |-> local.used, write |-> local.write]]

\* Mutant: what is appended begins at the first sample instead of at the first
\* one that was not mixed.
mixb_write_from_start(b, st, data) ==
    LET len == Least(Size - st.used, Len(data))
        max_mix == b.used - st.used
        mixed == mixb_mix_write(b, st, SubSeq(data, 1, Least(len, max_mix)))
        appended == rb_write(mixed.rb, SubSeq(data, 1, len - max_mix))
    IN  IF len > max_mix
        THEN [rb |-> appended, stream |-> [used |-> appended.used, write |-> appended.write]]
        ELSE mixed

\* Mixes data with what other streams have written already, and appends what
\* goes beyond it.
mixb_write(b, st, data) ==
    LET len == Least(Size - st.used, Len(data))
        max_mix == b.used - st.used
        mixed == mixb_mix_write(b, st, SubSeq(data, 1, Least(len, max_mix)))
        appended == rb_write(mixed.rb, SubSeq(data, max_mix + 1, len))
    IN  IF len > max_mix
        THEN [rb |-> appended, stream |-> [used |-> appended.used, write |-> appended.write]]
        ELSE mixed

\* Mutant: the position does not wrap.
Advanced_unwrapped(st, len, read) ==
    LET used == IF st.used > len THEN st.used - len ELSE 0
    IN  [used |-> used, write |-> read + used]

\* The positions of a stream after its share of len read samples is gone.
Advanced(st, len, read) ==
    LET used == IF st.used > len THEN st.used - len ELSE 0
    IN  [used |-> used, write |-> Wrap(read + used)]

mixb_read_upd(b, sts, len) ==
    LET after == rb_read_upd(b, len)
    IN  [rb |-> after,
         stream |-> [s \in Stream |-> IF s \in streams THEN Advanced(sts[s], len, after.read)
                                                       ELSE sts[s]]]

-----------------------------------------------------------------------------
\* The memory of the device is zeroed (ast_calloc); so are its streams'.
Init ==
    /\ rb = rb_init([p \in Positions |-> 0])
    /\ streams = {}
    /\ stream = [s \in Stream |-> [used |-> 0, write |-> 0]]
    /\ heard = <<>>

\* pvt_on_create_1st_channel: what the last calls left is forgotten.
mixb_init ==
    /\ streams = {}
    /\ rb' = rb_init(rb.buffer)
    /\ UNCHANGED <<streams, stream, heard>>

\* Mutant: a new stream starts where the others have got to.
mixb_attach_at_end(s) ==
    /\ s \notin streams
    /\ streams' = streams \union {s}
    /\ stream' = [stream EXCEPT ![s] = [used |-> 0, write |-> rb.write]]
    /\ UNCHANGED <<rb, heard>>

mixb_attach(s) ==
    /\ s \notin streams
    /\ streams' = streams \union {s}
    /\ stream' = [stream EXCEPT ![s] = [used |-> 0, write |-> rb.read]]
    /\ UNCHANGED <<rb, heard>>

mixb_detach(s) ==
    /\ s \in streams
    /\ streams' = streams \ {s}
    /\ UNCHANGED <<rb, stream, heard>>

\* A frame of an active call: the oldest samples go if it does not fit.
channel_write(s, data) ==
    LET count == mixb_free(s)
        room == IF count < Len(data) THEN mixb_read_upd(rb, stream, Len(data) - count)
                                     ELSE [rb |-> rb, stream |-> stream]
        written == mixb_write(room.rb, room.stream[s], data)
    IN  /\ s \in streams
        /\ rb' = written.rb
        /\ stream' = [room.stream EXCEPT ![s] = written.stream]
        /\ UNCHANGED <<streams, heard>>

Silence(n) == [i \in 1 .. n |-> 0]

\* The timer: a whole frame, what there is and silence, or silence.
timing_write ==
    LET n == Least(rb.used, FrameSize)
        after == mixb_read_upd(rb, stream, n)
    IN  /\ heard' = rb_read_n_iov(rb, n) \o Silence(FrameSize - n)
        /\ IF n > 0 THEN rb' = after.rb /\ stream' = after.stream
                    ELSE UNCHANGED <<rb, stream>>
        /\ UNCHANGED streams

Next ==
    \/ mixb_init
    \/ timing_write
    \/ \E s \in Stream : mixb_attach(s) \/ mixb_detach(s)
    \/ \E s \in Stream, data \in Frames : channel_write(s, data)

Spec == Init /\ [][Next]_vars
-----------------------------------------------------------------------------
\* The buffer and the positions in it are what the C types hold.
TypeOK ==
    /\ rb \in [buffer : [Positions -> Sample], used : 0 .. Size, read : Positions,
               write : Positions]
    /\ streams \subseteq Stream
    /\ stream \in [Stream -> [used : 0 .. Size, write : Positions]]
    /\ heard = <<>> \/ heard \in [1 .. FrameSize -> Sample]

\* mixb_read_upd, mixb_write and mixb_attach keep the positions of all streams
\* by hand, with unsigned subtractions: no stream is ahead of the buffer, and
\* each one writes as far behind the shared reading position as it has used.
PositionsAgree ==
    /\ rb.write = Wrap(rb.read + rb.used)
    /\ \A s \in streams : /\ stream[s].used <= rb.used
                          /\ stream[s].write = Wrap(rb.read + stream[s].used)

\* The ring buffer with its wrapping positions, its two ways of writing and
\* its overflow handling is the one line of samples of Mixer: each sample of a
\* stream is heard once, in order, at the same time as what the others said
\* since they and the stream last had nothing ahead of the modem.
TheMixer == INSTANCE Mixer WITH
    Capacity <- Size,
    ahead <- rb_read_all_iov(rb),
    place <- [s \in Stream |-> IF s \in streams THEN stream[s].used ELSE 0]

MixerSpec == TheMixer!MixerSpec
=============================================================================
