------------------------------- MODULE AtRead -------------------------------
(***************************************************************************)
(* The reader of a data tty (at_read.c): do_monitor_phone reads what has   *)
(* come, in pieces of any size, into a ring buffer, and cuts results out   *)
(* of it until at_read_result_iov says that there is no whole one.         *)
(*                                                                         *)
(* A cell of the buffer is a character and the number of the result it     *)
(* belongs to, which the code does not know.  What the reader compares     *)
(* with as a whole ("+CMGS:"), or does not look at, is one character.      *)
(***************************************************************************)
EXTENDS RingBuffer, SequencesExt

CONSTANTS
    Kinds,      \* the kinds of results the modem sends: see Text
    MaxResults  \* bound: results sent

CR == "CR"
LF == "LF"

\* What the reader cuts out of a result of each kind.  `late' stands for
\* +CSSU:, +CMS ERROR: and +CMGS:, `list' for +CLCC: and +CNUM:; `echo' is
\* no result.
Text(k) ==
    CASE k = "ok"     -> <<"O", "K">>
      [] k = "line"   -> <<"x">>
      [] k = "prompt" -> <<">">>
      [] k = "cssi"   -> <<"+CSSI:", "n">>
      [] k = "late"   -> <<"+CMGS:", "n">>
      [] k = "list"   -> <<"+CLCC:", "n">>
      [] k = "cmgr"   -> <<"+CMGR:", "n", CR, LF, "pdu">>
      [] k = "cds"    -> <<"+CDS:", "n", CR, LF, "pdu">>
      [] k = "echo"   -> <<"AT">>

\* External: how the modem wraps it up.
Wrapped(k) ==
    CASE k = "echo" -> Text(k) \o <<CR>>
      [] k = "late" -> <<CR, LF, CR, LF>> \o Text(k) \o <<CR, LF>>
      [] k \in {"prompt", "cssi"} -> <<CR, LF>> \o Text(k)
      [] OTHER -> <<CR, LF>> \o Text(k) \o <<CR, LF>>

\* A list ends where this begins; +CMGR takes it along.
EndOfList == <<LF, CR, LF, "O", "K", CR, LF>>

\* at_read_result_iov looks for the end of +CDS from its tenth byte on, which
\* is behind the first line.
CdsOffset == 4

ASSUME KindsAssumption ==
    /\ Kinds \subseteq {"ok", "line", "prompt", "cssi", "late", "list", "cmgr", "cds", "echo"}
    /\ MaxResults \in Nat

VARIABLES
    said,           \* the kinds of the results the modem has sent
    tty,            \* what has come and was not read
    rb,             \* the buffer of do_monitor_phone
    read_result,    \* 0: before the CR LF of a result, 1: behind it
    cutting,        \* the monitor is in its loop over at_read_result_iov
    got             \* what it got: number and text of each result

vars == <<said, tty, rb, read_result, cutting, got>>

-----------------------------------------------------------------------------
\* Searches in the unread characters.

Characters(cells) == [i \in DOMAIN cells |-> cells[i][1]]
Pending == Characters(rb_read_all_iov(rb))

\* The number of characters before the first mem in text from position `from'
\* on; -1: there is none.
Find(text, mem, from) ==
    LET at == {i \in from .. Len(text) - Len(mem) : SubSeq(text, i + 1, i + Len(mem)) = mem}
    IN  IF at = {} THEN -1 ELSE CHOOSE i \in at : \A j \in at : i <= j

\* The lengths of the two pieces the unread characters are in.
FirstPiece  == Least(rb.used, Size - rb.read)
SecondPiece == rb.used - FirstPiece

\* Mutant: the last character is not counted.
rb_memcmp_needs_more(mem) ==
    CASE rb.used <= Len(mem) -> "short"
      [] rb.used > Len(mem) /\ SubSeq(Pending, 1, Len(mem)) = mem -> "equal"
      [] OTHER -> "differs"

\* rb_memcmp: is mem there?  "short" if there is not that much.
rb_memcmp(mem) ==
    CASE rb.used < Len(mem) -> "short"
      [] rb.used >= Len(mem) /\ SubSeq(Pending, 1, Len(mem)) = mem -> "equal"
      [] OTHER -> "differs"

Starts(mem) == rb_memcmp(mem) = "equal"

rb_read_until_char(c) == Find(Pending, <<c>>, 0)

\* The places at which rb_read_until_mem_iov finds mem across the two pieces:
\* i of its characters are in the second one.  They are compared with those of
\* mem from i on, where its last i ones are due.
Straddling(mem) ==
    {i \in 1 .. Len(mem) - 1 :
        /\ Len(mem) - i <= FirstPiece
        /\ i <= SecondPiece
        /\ 2 * i <= Len(mem)
        /\ SubSeq(Pending, FirstPiece - (Len(mem) - i) + 1, FirstPiece)
             = SubSeq(mem, 1, Len(mem) - i)
        /\ SubSeq(Pending, FirstPiece + 1, FirstPiece + i) = SubSeq(mem, i + 1, 2 * i)}

\* Mutant: the second piece's offset is taken for the offset in the buffer.
rb_read_until_mem_in_second(mem) ==
    LET first  == SubSeq(Pending, 1, FirstPiece)
        second == SubSeq(Pending, FirstPiece + 1, rb.used)
    IN  CASE Find(first, mem, 0) >= 0 -> Find(first, mem, 0)
          [] Find(first, mem, 0) < 0 /\ Straddling(mem) # {} ->
                FirstPiece - Len(mem) + (CHOOSE i \in Straddling(mem) :
                                            \A j \in Straddling(mem) : i <= j)
          [] OTHER -> Find(second, mem, 0)

\* rb_read_until_mem_iov: in the first piece, across both, in the second.
rb_read_until_mem(mem) ==
    LET first  == SubSeq(Pending, 1, FirstPiece)
        second == SubSeq(Pending, FirstPiece + 1, rb.used)
    IN  CASE Find(first, mem, 0) >= 0 -> Find(first, mem, 0)
          [] Find(first, mem, 0) < 0 /\ Straddling(mem) # {} ->
                FirstPiece - Len(mem) + (CHOOSE i \in Straddling(mem) :
                                            \A j \in Straddling(mem) : i <= j)
          [] OTHER -> IF Find(second, mem, 0) < 0 THEN -1
                      ELSE FirstPiece + Find(second, mem, 0)

\* rb_read_until_char_after_iov.  Each piece is searched from its own
\* character `after' on; in a shorter one the unsigned length to search wraps
\* around, and memchr finds c, or does not, in memory behind the piece.
rb_read_until_char_after(c, after) ==
    LET first  == SubSeq(Pending, 1, FirstPiece)
        second == SubSeq(Pending, FirstPiece + 1, rb.used)
        Astray(n) == {n + after + i : i \in 0 .. Size}
        InSecond == IF SecondPiece = 0 THEN {-1}
                    ELSE IF SecondPiece < after THEN {-1} \union Astray(FirstPiece)
                    ELSE LET i == Find(second, <<c>>, after)
                         IN  {IF i < 0 THEN -1 ELSE FirstPiece + i}
    IN  IF FirstPiece < after THEN Astray(0) \union InSecond
        ELSE IF Find(first, <<c>>, after) >= 0 THEN {Find(first, <<c>>, after)}
        ELSE InSecond

\* The buffer behind n characters.  What was read is blanked here, not in the
\* code: no search looks at it (memory behind a piece holds anything).
Blank == <<"", 0>>
Consumed(n) ==
    LET after == rb_read_upd(rb, n)
        unread == {Wrap(after.read + i) : i \in 0 .. after.used - 1}
    IN  [after EXCEPT !.buffer = [p \in Positions |-> IF p \in unread THEN @[p] ELSE Blank]]

-----------------------------------------------------------------------------
Init ==
    /\ said = <<>>
    /\ tty = <<>>
    /\ rb = rb_init([p \in Positions |-> Blank])
    /\ read_result = 0
    /\ cutting = FALSE
    /\ got = <<>>

\* External: the modem sends a result.  That it sends none while the monitor
\* cuts makes no difference to the monitor, which reads the tty before.
ModemSays(k) ==
    /\ ~cutting
    /\ Len(said) < MaxResults
    /\ said' = Append(said, k)
    /\ tty' = tty \o [i \in DOMAIN Wrapped(k) |-> <<Wrapped(k)[i], Len(said')>>]
    /\ UNCHANGED <<rb, read_result, cutting, got>>

\* at_read: what has come, or a piece of it; no more than there is room for.
at_read(n) ==
    /\ ~cutting
    /\ n \in 1 .. Least(Len(tty), rb_free(rb))
    /\ rb' = rb_write_upd(Filled(rb, SubSeq(tty, 1, n)), n)
    /\ tty' = SubSeq(tty, n + 1, Len(tty))
    /\ cutting' = TRUE
    /\ UNCHANGED <<said, read_result, got>>

\* No room, or an error: the monitor ends.  The next one starts with an empty
\* buffer and drops what has come meanwhile (clean_read_data).
Restart ==
    /\ ~cutting
    /\ rb' = rb_init([p \in Positions |-> Blank])
    /\ tty' = <<>>
    /\ read_result' = 0
    /\ UNCHANGED <<said, cutting, got>>

\* The reader goes on behind n characters of no result.
Drop(n, state) ==
    /\ rb' = Consumed(n)
    /\ read_result' = state
    /\ UNCHANGED <<said, tty, cutting, got>>

\* at_read_result_iov waits for more.
Wait(state) ==
    /\ cutting' = FALSE
    /\ read_result' = state
    /\ UNCHANGED <<said, tty, rb, got>>

\* The monitor gets n characters, which at_read_result_classification counts
\* as read with some behind them.  There may not be as many.
Deliver(n, behind) ==
    /\ got' = Append(got, [of |-> Unread(rb, 1)[2],
                           text |-> SubSeq(Pending, 1, Least(n, rb.used))])
    /\ rb' = Consumed(n + behind)
    /\ read_result' = 0
    /\ UNCHANGED <<said, tty, cutting>>

Nothing == cutting /\ rb.used = 0 /\ Wait(read_result)

\* State 0: to the beginning of a result.
Opening ==
    /\ cutting /\ rb.used > 0 /\ read_result = 0
    /\ \/ rb_memcmp(<<CR, LF>>) = "equal" /\ Drop(2, 1)
       \/ rb_memcmp(<<CR, LF>>) = "short" /\ Wait(0)
       \/ /\ rb_memcmp(<<CR, LF>>) = "differs"
          /\ LET n == IF Starts(<<LF>>) THEN 0 ELSE rb_read_until_char(CR)
             IN  Drop(IF n < 0 THEN rb.used ELSE n + 1, 0)

\* State 1: the text of the result, by what it begins with.
Behind == cutting /\ rb.used > 0 /\ read_result = 1

IsCssi == Starts(<<"+CSSI:">>)
IsLate == Starts(<<CR, LF, "+CMGS:">>)
IsList == Starts(<<"+CLCC:">>) \/ Starts(<<"+CMGR:">>)
IsCds  == Starts(<<"+CDS:">>)

Cssi == Behind /\ IsCssi /\ IF rb.used >= 2 THEN Deliver(2, 0) ELSE Wait(1)

\* The CR LF of an empty line before it.
SecondOpening == Behind /\ IsLate /\ Drop(2, 1)

Prompt == Behind /\ Starts(<<">">>) /\ Deliver(1, 0)

List ==
    /\ Behind /\ IsList
    /\ LET n == rb_read_until_mem(EndOfList)
       IN  IF n >= 0 THEN Deliver(n, IF Starts(<<"+CMGR:">>) THEN Len(EndOfList) ELSE 1)
                     ELSE Wait(1)

\* Not found: the monitor waits, but not behind a CR LF any more.
Cds ==
    /\ Behind /\ IsCds
    /\ \E n \in rb_read_until_char_after(CR, CdsOffset) :
        IF n >= 0 THEN Deliver(n, 1) ELSE Wait(0)

\* The CR is part of what the monitor gets.
Line ==
    /\ Behind /\ ~IsCssi /\ ~IsLate /\ ~IsList /\ ~IsCds /\ ~Starts(<<">">>)
    /\ LET n == rb_read_until_mem(<<CR, LF>>)
       IN  IF n >= 0 THEN Deliver(n + 1, 1) ELSE Wait(1)

at_read_result_iov ==
    Nothing \/ Opening \/ Cssi \/ SecondOpening \/ Prompt \/ List \/ Cds \/ Line

Next ==
    \/ \E k \in Kinds : ModemSays(k)
    \/ \E n \in 1 .. Size : at_read(n)
    \/ Restart
    \/ at_read_result_iov

Spec == Init /\ [][Next]_vars
-----------------------------------------------------------------------------
TypeOK ==
    /\ said \in Seq(Kinds)
    /\ rb.used \in 0 .. Size /\ rb.read \in Positions /\ rb.write \in 0 .. Size
    /\ Wrap(rb.write) = Wrap(rb.read + rb.used)
    /\ read_result \in {0, 1}
    /\ cutting \in BOOLEAN

\* The searches of ringbuffer.c find what is there, wherever the buffer wraps
\* around: the first place of mem among the unread characters.  (The end of a
\* list that wraps around is not found: see EndOfList in the README.)
SearchExact ==
    /\ rb_read_until_mem(<<CR, LF>>) = Find(Pending, <<CR, LF>>, 0)
    /\ rb_read_until_mem(EndOfList) # Find(Pending, EndOfList, 0) =>
        LET at == Find(Pending, EndOfList, 0)
        IN  at \in 0 .. FirstPiece - 1 /\ FirstPiece < at + Len(EndOfList)

Greedy   == {"list", "cmgr", "cds"}
Delicate == {"late", "cds"}

\* What results begin with.  Other texts the monitor gets are empty, or
\* fragments of a +CDS.
FirstCharacters == {Text(k)[1] : k \in Kinds}
Heard == SelectSeq(got, LAMBDA r : r.text # <<>> /\ r.text[1] \in FirstCharacters)

\* The results the monitor has not got or missed: their text has not been
\* read out of the buffer.
OnTheirWay ==
    LET texts == SelectSeq(rb_read_all_iov(rb) \o tty, LAMBDA c : c[1] \in FirstCharacters)
    IN  [i \in DOMAIN texts |-> texts[i][2]]

TheStream == INSTANCE ResultStream WITH
    Kind <- Kinds,
    Noise <- {"echo"},
    way <- OnTheirWay,
    got <- [i \in DOMAIN Heard |-> Heard[i].of]

\* Whatever the pieces it came in and wherever the buffer wraps around, the
\* monitor gets a result of one line or less as the modem sent it, unless it
\* is out of step.
LinesWhole ==
    \A i \in DOMAIN Heard :
        LET n == Heard[i].of
            k == said[n]
        IN  \/ k \in Greedy \/ TheStream!OutOfStep(n)
            \/ Heard[i].text \in {Text(k), Text(k) \o <<CR>>}

\* When the monitor waits and the tty is empty it has got all it was sent,
\* unless a list has not ended, or its end lies across the end of the buffer and is
\* not found (ringbuffer.c, line 224), or it is out of step: nothing is held back
\* until more comes.
NothingHeldBack ==
    ~cutting /\ tty = <<>> /\ OnTheirWay # <<>> =>
        LET n == Head(OnTheirWay)
        IN  said[n] \in Greedy \/ TheStream!OutOfStep(n)

\* The reader is the stream of ResultStream: results come one by one and in
\* order, none twice, and none is lost before a piece ended within a doubled
\* CR LF or a +CDS, except in a list.
StreamSpec == TheStream!StreamSpec
=============================================================================
