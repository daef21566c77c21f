---------------------------- MODULE EntropyCoder ----------------------------
(***************************************************************************)
(* The arithmetic coder of iSAC (isac/main/source/arith_routines*.c) and   *)
(* the way EncodeLb uses it for a frame of 30 ms or the two halves of one  *)
(* of 60 ms: a header, the state kept for another attempt, the gains, the  *)
(* spectrum, and as long as the stream is too long, smaller gains and a    *)
(* smaller spectrum coded again from the kept state.                       *)
(*                                                                         *)
(* A byte has Base values, a probability Half = Base^2, and the interval   *)
(* Word = Base^4; the code has Base = 256.  What is coded is a sequence of *)
(* symbols of tables of cumulative probabilities and of cells of a logistic*)
(* shape (table 0).  The decoder runs on the finished stream, behind which *)
(* lie bytes of another layer or of an older packet.                       *)
(***************************************************************************)
EXTENDS Integers, Sequences

CONSTANTS Base,         \* values of a byte
          HistTables,   \* the cdf tables: sequences, the first entry is 0
          Shape,        \* the logistic cdf at cell boundaries -Reach .. Reach
          Reach,
          MaxStream,    \* STREAM_SIZE_MAX_60
          Limit30,      \* payloadLimitBytes30
          Limit60,      \* payloadLimitBytes60
          MaxRetries,   \* MAX_PAYLOAD_LIMIT_ITERATION
          MaxSymbols,   \* bound on the symbols of a message
          Tails         \* bytes behind the stream

Half == Base * Base
Top == Base * Half
Word == Base * Top

ASSUME CoderAssumption ==
    /\ Base \in Nat \ {0, 1} /\ MaxStream \in Nat /\ Limit30 \in Nat /\ Limit60 \in Nat
    /\ Tails \subseteq 0 .. Base - 1
    /\ HistTables \in Seq(Seq(0 .. Half - 1))
    /\ \A t \in DOMAIN HistTables :
          /\ Len(HistTables[t]) > 1
          /\ HistTables[t][1] = 0 /\ HistTables[t][Len(HistTables[t])] = Half - 1
          /\ \A i \in 1 .. Len(HistTables[t]) - 1 : HistTables[t][i] < HistTables[t][i + 1]
    /\ Reach \in Nat \ {0}
    /\ Shape \in [-Reach .. Reach -> 0 .. Half - 1]
    /\ \A b \in -Reach .. Reach - 1 : Shape[b] =< Shape[b + 1]
    /\ Shape[1] - Shape[0] > 1

VARIABLES coder,    \* the Bitstr of the encoder
          message,  \* what it holds so far
          half,     \* frame_mode and frame_nb
          kept,     \* transcodingParam
          begun,    \* the length of the stream, the interval and the symbols
                    \* at the beginning of the spectrum
          stage,    \* what the encoder or the decoder is at
          retries,  \* iterCntr
          intact,   \* every attempt started from the bytes that were kept
          cut,      \* the first half was given up in the middle of a symbol
          decoder,  \* the Bitstr of the decoder
          decoded,  \* what it found so far
          tail      \* the byte behind the stream

evars == <<coder, message, half, kept, begun, stage, retries, intact, cut>>
dvars == <<decoder, decoded>>
codervars == <<evars, dvars, tail>>

NoState == [val |-> 0, width |-> 0, stream |-> <<>>, count |-> 0]
NoSpectrum == [index |-> 0, width |-> 0, count |-> 0]
NoDecoder == [index |-> 0, val |-> 0, width |-> 0]

\* WebRtcIsac_ResetBitstream.
Reset == [stream |-> <<>>, val |-> 0, width |-> Word - 1]

CoderInit == /\ coder = Reset /\ message = <<>> /\ half \in {"only", "first"}
             /\ kept = NoState /\ begun = NoSpectrum
             /\ stage = "header" /\ retries = 0 /\ intact = TRUE /\ cut = FALSE
             /\ decoder = NoDecoder /\ decoded = <<>> /\ tail = 0

-----------------------------------------------------------------------------
(* The interval.                                                           *)

\* The part of a width that belongs to the cumulative probability c.
Scaled(width, c) == (width \div Half) * c + ((width % Half) * c) \div Half

\* A shift by k bytes, up to three.
Power(k) == <<1, Base, Half, Top>>[k + 1]

\* Bytes to shift out for a width of at least Top.
Shifts(width) == CHOOSE k \in 0 .. 3 :
                    /\ width * Power(k) >= Top
                    /\ k = 0 \/ width * Power(k - 1) < Top

\* Fault: the carry stops at the last byte written.
CarryOnce(stream) ==
    [stream EXCEPT ![Len(stream)] = (@ + 1) % Base]

\* Adds one to the bytes written, as a number.
Carry(stream) ==
    LET full == {i \in DOMAIN stream : \A j \in i .. Len(stream) : stream[j] = Base - 1}
    IN  [i \in DOMAIN stream |-> IF i \in full THEN 0
                                 ELSE IF i = Len(stream) \/ i + 1 \in full THEN stream[i] + 1
                                 ELSE stream[i]]

Added(c, low) ==
    [c EXCEPT !.val = (@ + low) % Word,
              !.stream = IF c.val + low >= Word THEN Carry(@) ELSE @]

\* The first k bytes of a word.
Bytes(val, k) == [i \in 1 .. k |-> (val \div Power(4 - i)) % Base]

Shifted(c, k) == [stream |-> c.stream \o Bytes(c.val, k),
                  val |-> (c.val * Power(k)) % Word,
                  width |-> c.width * Power(k)]

\* One symbol between the cumulative probabilities lo and hi.
Encoded(c, lo, hi) ==
    LET low == Scaled(c.width, lo) + 1
        width == Scaled(c.width, hi) - low
    IN  Shifted([Added(c, low) EXCEPT !.width = width], Shifts(width))

\* WebRtcIsac_EncTerminate.
WideEnd(width) == width > 2 * Top - 1

Terminated(c) ==
    IF WideEnd(c.width)
    THEN LET d == Added(c, Top) IN [d EXCEPT !.stream = @ \o Bytes(d.val, 1)]
    ELSE LET d == Added(c, Half) IN [d EXCEPT !.stream = @ \o Bytes(d.val, 2)]

-----------------------------------------------------------------------------
(* The logistic shape.                                                     *)

\* piecewise, at a boundary.
Piecewise(b) == Shape[IF b < -Reach THEN -Reach ELSE IF b > Reach THEN Reach ELSE b]

Codable(d) == Piecewise(d) + 1 < Piecewise(d + 1)

\* The encoder moves a cell that is too improbable towards the middle.
Clipped(d) ==
    IF d > 0 THEN CHOOSE e \in 0 .. d : Codable(e) /\ \A f \in e + 1 .. d : ~Codable(f)
             ELSE CHOOSE e \in d .. 0 : Codable(e) /\ \A f \in d .. e - 1 : ~Codable(f)

-----------------------------------------------------------------------------
(* EncodeLb.                                                               *)

Symbols(t) == 1 .. Len(HistTables[t]) - 1

\* payloadLimitBytes; the end of a stream may take three bytes.
Limit == [only |-> Limit30 - 3, first |-> Limit60 \div 2, second |-> Limit60 - 3][half]

TooLong == \/ stage = "full"
           \/ stage = "spectrum" /\ Len(coder.stream) > Limit

\* WebRtcIsac_EncHistMulti: the frame length, the pitch, the filter; the gains.
EncHist ==
    /\ stage \in {"header", "gains"} /\ Len(message) < MaxSymbols
    /\ \E t \in DOMAIN HistTables : \E s \in Symbols(t) :
          /\ coder' = Encoded(coder, HistTables[t][s], HistTables[t][s + 1])
          /\ message' = Append(message, [table |-> t, symbol |-> s])
    /\ UNCHANGED <<half, kept, begun, stage, retries, intact, cut, dvars, tail>>

\* The state of the coder before the gains, and the last two bytes written.
Keep ==
    /\ stage = "header" /\ Len(coder.stream) >= 2
    /\ kept' = [val |-> coder.val, width |-> coder.width, stream |-> coder.stream,
                count |-> Len(message)]
    /\ stage' = "gains" /\ retries' = 0
    /\ UNCHANGED <<coder, message, half, begun, intact, cut, dvars, tail>>

\* The call of WebRtcIsac_EncLogisticMulti2 for a spectrum.
Begun == IF stage = "gains"
         THEN [index |-> Len(coder.stream), width |-> coder.width, count |-> Len(message)]
         ELSE begun

\* At the end of the buffer it returns and leaves stream_index and W_upper as
\* they were when it was called; streamval has not been shifted for the last byte.
OutOfBuffer(c) == Len(c.stream) > Len(coder.stream) /\ Len(c.stream) > MaxStream - 1

CutOff(added) ==
    LET room == MaxStream - 1 - Len(coder.stream)
    IN  [stream |-> SubSeq(added.stream, 1, Begun.index), width |-> Begun.width,
         val |-> (added.val * Power(IF room < 0 THEN 0 ELSE room)) % Word]

\* One symbol of the spectrum.
EncLogistic ==
    /\ stage \in {"gains", "spectrum"} /\ Len(message) < MaxSymbols
    /\ begun' = Begun
    /\ \E d \in -Reach .. Reach - 1 :
          LET e == Clipped(d)
              c == Encoded(coder, Piecewise(e), Piecewise(e + 1))
          IN  \/ /\ ~OutOfBuffer(c)
                 /\ coder' = c /\ stage' = "spectrum"
                 /\ message' = Append(message, [table |-> 0, symbol |-> e])
              \/ /\ OutOfBuffer(c)
                 /\ coder' = CutOff(Added(coder, Scaled(coder.width, Piecewise(e)) + 1))
                 /\ stage' = "full"
                 /\ message' = SubSeq(message, 1, Begun.count)
    /\ UNCHANGED <<half, kept, retries, intact, cut, dvars, tail>>

\* The two last of the kept bytes are put back; a carry may have gone further.
\* Fault: no byte is put back.
RestoredIndexOnly(stream) == SubSeq(stream, 1, Len(kept.stream))
Restored(stream) ==
    LET n == Len(kept.stream)
    IN  SubSeq(stream, 1, n - 2) \o SubSeq(kept.stream, n - 1, n)

Retry ==
    /\ TooLong /\ retries < MaxRetries
    /\ coder' = [stream |-> Restored(coder.stream), val |-> kept.val, width |-> kept.width]
    /\ intact' = (intact /\ coder'.stream = kept.stream)
    /\ message' = SubSeq(message, 1, kept.count)
    /\ stage' = "gains"
    /\ retries' = retries + 1
    /\ UNCHANGED <<half, kept, begun, cut, dvars, tail>>

\* A frame that stays too long is dropped; behind a first half that stays too
\* long the second one is coded, in whatever state the coder was left.
GiveUp ==
    /\ TooLong /\ retries = MaxRetries
    /\ IF half = "first"
       THEN half' = "second" /\ stage' = "header" /\ cut' = (cut \/ stage = "full")
       ELSE stage' = "dropped" /\ UNCHANGED <<half, cut>>
    /\ UNCHANGED <<coder, message, kept, begun, retries, intact, dvars, tail>>

\* The first half of a frame of 60 ms is coded.
EndFirstHalf ==
    /\ stage = "spectrum" /\ ~TooLong /\ half = "first"
    /\ half' = "second" /\ stage' = "header"
    /\ UNCHANGED <<coder, message, kept, begun, retries, intact, cut, dvars, tail>>

\* The byte at an index of the buffer of the decoder.
Memory(stream, i, behind) == IF i < Len(stream) THEN stream[i + 1] ELSE behind

\* The stream is finished, and the decoder reads its first word.
EncTerminate ==
    /\ stage = "spectrum" /\ ~TooLong /\ half # "first"
    /\ coder' = Terminated(coder)
    /\ stage' = "decode"
    /\ tail' \in Tails
    /\ LET s == coder'.stream
       IN  decoder' = [index |-> 3, width |-> Word - 1,
                       val |-> Memory(s, 0, tail') * Top + Memory(s, 1, tail') * Half
                               + Memory(s, 2, tail') * Base + Memory(s, 3, tail')]
    /\ UNCHANGED <<message, half, kept, begun, retries, intact, cut, decoded>>

-----------------------------------------------------------------------------
(* The decoder.                                                            *)

\* The symbol found lies between the boundaries low and high of the interval.
Narrowed(low, high) ==
    LET width == high - (low + 1)
        k == Shifts(width)
        Value[j \in 0 .. k] == IF j = 0 THEN decoder.val - (low + 1)
                               ELSE Value[j - 1] * Base
                                    + Memory(coder.stream, decoder.index + j, tail)
    IN  [index |-> decoder.index + k, val |-> Value[k], width |-> width * Power(k)]

Above(c) == decoder.val > Scaled(decoder.width, c)

Found(t, s) ==
    /\ decoder' = Narrowed(Scaled(decoder.width, HistTables[t][s]),
                           Scaled(decoder.width, HistTables[t][s + 1]))
    /\ decoded' = Append(decoded, [table |-> t, symbol |-> s])
    /\ UNCHANGED stage

Fails(how) == stage' = how /\ UNCHANGED dvars

\* WebRtcIsac_DecHistOneStepMulti, from the entry `from`.
OneStep(t, from) ==
    LET T == HistTables[t]
        up == {i \in from + 1 .. Len(T) : ~Above(T[i]) /\ \A j \in from .. i - 1 : Above(T[j])}
        down == {i \in 1 .. from - 1 : Above(T[i]) /\ \A j \in i + 1 .. from : ~Above(T[j])}
    IN  \/ \E i \in up : Found(t, i - 1)
        \/ \E i \in down : Found(t, i)
        \/ up \cup down = {} /\ Fails("failed")

\* WebRtcIsac_DecHistBisectMulti, for tables of 2^k - 1 entries.
Bisectable(t) == Len(HistTables[t]) \in {3, 7, 15, 31, 63, 127, 255}

\* Half of the part of the table whose middle is looked at is left.
Halved(T, part) ==
    LET size == part.size \div 2
    IN  [size |-> size,
         at |-> IF size = 0 THEN part.at
                ELSE IF Above(T[part.at + 1]) THEN part.at + size ELSE part.at - size]

Bisect(t) ==
    LET T == HistTables[t]
        middle == (Len(T) + 1) \div 2
        Search[i \in 0 .. 7] == IF i = 0 THEN [size |-> middle, at |-> middle - 1]
                                ELSE Halved(T, Search[i - 1])
        last == Search[7].at
        s == IF Above(T[last + 1]) THEN last + 1 ELSE last
    IN  IF s \in Symbols(t) THEN Found(t, s) ELSE Fails("failed")

\* Where the decoder is in the message.
Expected == message[Len(decoded) + 1]

DecHist ==
    /\ stage = "decode" /\ Len(decoded) < Len(message)
    /\ Expected.table # 0
    /\ \/ \E from \in DOMAIN HistTables[Expected.table] : OneStep(Expected.table, from)
       \/ Bisectable(Expected.table) /\ Bisect(Expected.table)
    /\ UNCHANGED <<coder, message, half, kept, begun, retries, intact, cut, tail>>

\* The decoder stops when the shape is flat before the value is reached.
FlatBetween(b, c) == \E i \in b .. c - 1 : Piecewise(i) = Piecewise(i + 1)
BehindFlat(d) == FlatBetween(2, d) \/ FlatBetween(d + 1, 0)

\* WebRtcIsac_DecLogisticMulti2, from the cell of the dither outwards.
DecLogistic ==
    /\ stage = "decode" /\ Len(decoded) < Len(message)
    /\ Expected.table = 0
    /\ LET cells == {d \in -Reach .. Reach - 1 :
                        Above(Piecewise(d)) /\ ~Above(Piecewise(d + 1))}
       IN  \/ \E d \in cells :
                 LET found == Narrowed(Scaled(decoder.width, Piecewise(d)),
                                       Scaled(decoder.width, Piecewise(d + 1)))
                 IN  IF BehindFlat(d)
                     THEN Fails("failed")
                     ELSE IF found.index > decoder.index /\ found.index >= MaxStream
                     THEN Fails("refused")
                     ELSE /\ decoder' = found
                          /\ decoded' = Append(decoded, [table |-> 0, symbol |-> d])
                          /\ UNCHANGED stage
           \/ cells = {} /\ Fails("failed")
    /\ UNCHANGED <<coder, message, half, kept, begun, retries, intact, cut, tail>>

\* The number of bytes the decoder says the stream had.
StreamLength == decoder.index - (IF WideEnd(decoder.width) THEN 2 ELSE 1)

NextFrame ==
    /\ \/ stage \in {"dropped", "failed", "refused"}
       \/ stage \in {"header", "gains"} /\ Len(message) = MaxSymbols
       \/ stage = "decode" /\ Len(decoded) = Len(message)
    /\ coder' = Reset /\ message' = <<>> /\ half' \in {"only", "first"}
    /\ kept' = NoState /\ begun' = NoSpectrum
    /\ stage' = "header" /\ retries' = 0 /\ intact' = TRUE /\ cut' = FALSE
    /\ decoder' = NoDecoder /\ decoded' = <<>> /\ tail' = 0

CoderNext == \/ EncHist \/ Keep \/ EncLogistic \/ Retry \/ GiveUp
             \/ EndFirstHalf \/ EncTerminate \/ DecHist \/ DecLogistic \/ NextFrame

CoderSpec == CoderInit /\ [][CoderNext]_codervars

-----------------------------------------------------------------------------
(* What the decoder finds is what was coded, symbol by symbol, whatever    *)
(* follows the stream in memory, and it knows the length of the stream, so *)
(* that the next layer is found; it refuses only streams that reach the    *)
(* last four bytes of its buffer.  It fails only where its search for the  *)
(* next cell meets a flat one first (arith_routines_logist.c:239, :264):   *)
(* there the encoder codes what the decoder does not read.  Nothing is     *)
(* said of a frame in which an attempt began from bytes that were not      *)
(* restored, or whose first half was given up in the middle of a symbol.   *)
RoundTrip ==
    intact /\ ~cut =>
        /\ stage = "failed" => Expected.table = 0 /\ BehindFlat(Expected.symbol)
        /\ stage = "refused" => Len(coder.stream) > MaxStream - 3
        /\ decoded = SubSeq(message, 1, Len(decoded))
        /\ stage = "decode" /\ decoded = message => StreamLength = Len(coder.stream)

(* "Re-store the state of arithmetic coder before coding LPC gains."       *)
(* (encode.c:474): another attempt starts from the bytes the first one     *)
(* started from.                                                           *)
RetryStartsAfresh == intact
=============================================================================
