------------------------ MODULE EchoCanceller3Proofs ------------------------
(***************************************************************************)
(* What holds of the render delay buffer and of its use by echo canceller  *)
(* 3 for buffers, filters, queues and frames of every size.                *)
(***************************************************************************)
EXTENDS EchoCanceller3, TLAPS

-----------------------------------------------------------------------------
(* Circular indices.                                                       *)

\* OffsetIndex goes round at most once.
LEMMA Offset ==
    ASSUME NEW n \in Nat \ {0}, NEW i \in 0 .. n - 1, NEW o \in -n .. n
    PROVE  OffsetIndex(n, i, o) = IF i + o < 0 THEN i + o + n
                                  ELSE IF i + o < n THEN i + o ELSE i + o - n
<1>1. CASE i + o < 0
  BY <1>1, SMT DEF OffsetIndex
<1>2. CASE i + o \in 0 .. n - 1
  BY <1>2, SMT DEF OffsetIndex
<1>3. CASE i + o >= n
  BY <1>3, SMT DEF OffsetIndex
<1> QED
  BY <1>1, <1>2, <1>3, SMT

\* Opposite indices add up to nothing or to one round.
LEMMA Opposite ==
    ASSUME NEW n \in Nat \ {0}, NEW i \in 0 .. n - 1, NEW j \in 0 .. n - 1
    PROVE  (i + j) % n = 0 <=> i + j = 0 \/ i + j = n
<1>1. CASE i + j < n
  BY <1>1, SMT
<1>2. CASE i + j >= n
  <2>1. (i + j) % n = i + j - n
    BY <1>2, SMT
  <2> QED
    BY <1>2, <2>1, SMT
<1> QED
  BY <1>1, <1>2, SMT

LEMMA Sizes == /\ Size \in Nat \ {0, 1} /\ MaxDelay = LowRateBlocks
               /\ MaxDelay \in 1 .. Size - 1
               /\ LowSize \in Nat \ {0}
<1>1. LowSize \in Nat \ {0}
  BY BufferAssumption, SMT DEF LowSize
<1> QED
  BY <1>1, BufferAssumption, SMT DEF Size, MaxDelay

\* The indices of the decimated signal move by whole blocks.
LEMMA Multiples ==
    ASSUME NEW i \in 0 .. LowRateBlocks - 1
    PROVE  /\ SubBlock * i \in 0 .. LowSize - 1
           /\ SubBlock * i + SubBlock <= LowSize
           /\ i > 0 => SubBlock * (i - 1) = SubBlock * i - SubBlock
           /\ SubBlock * (i + 1) = SubBlock * i + SubBlock
           /\ LowSize = SubBlock * (LowRateBlocks - 1) + SubBlock
           /\ SubBlock * i \in Nat
<1> DEFINE k == LowRateBlocks - 1 - i
<1>1. k \in Nat /\ SubBlock \in Nat \ {0} /\ LowRateBlocks \in Nat
  BY BufferAssumption, SMT
<1>2. SubBlock * k \in Nat
  BY <1>1, SMT
<1>3. LowSize = SubBlock * i + SubBlock * k + SubBlock
  BY <1>1, SMT DEF LowSize
<1>4. SubBlock * i \in Nat
  BY <1>1, SMT
<1> HIDE DEF k
<1>5. SubBlock * (i + 1) = SubBlock * i + SubBlock
  BY <1>1, SMT
<1>6. i > 0 => SubBlock * (i - 1) = SubBlock * i - SubBlock
  BY <1>1, SMT
<1>7. LowSize = SubBlock * (LowRateBlocks - 1) + SubBlock
  BY <1>1, SMT DEF LowSize
<1> QED
  BY <1>1, <1>2, <1>3, <1>4, <1>5, <1>6, <1>7, SMT

LEMMA OneBlockBack ==
    ASSUME NEW i \in 0 .. LowRateBlocks - 1
    PROVE  OffsetIndex(LowSize, SubBlock * i, -SubBlock)
             = SubBlock * (IF i > 0 THEN i - 1 ELSE LowRateBlocks - 1)
<1>1. /\ SubBlock \in Nat \ {0} /\ LowRateBlocks \in Nat
      /\ -SubBlock \in -LowSize .. LowSize /\ LowSize \in Nat \ {0}
  BY BufferAssumption, Multiples, Sizes, SMT
<1>2. OffsetIndex(LowSize, SubBlock * i, -SubBlock)
        = IF SubBlock * i - SubBlock < 0 THEN SubBlock * i - SubBlock + LowSize
                                         ELSE SubBlock * i - SubBlock
  <2> DEFINE x == SubBlock * i
            y == -SubBlock
  <2>1. x \in 0 .. LowSize - 1 /\ y \in -LowSize .. LowSize
    BY <1>1, Multiples
  <2>2. x + y = x - SubBlock /\ x + y < LowSize
    BY <1>1, <2>1, Multiples, SMT
  <2> HIDE DEF x, y
  <2>3. OffsetIndex(LowSize, x, y) = IF x + y < 0 THEN x + y + LowSize
                                     ELSE IF x + y < LowSize THEN x + y ELSE x + y - LowSize
    BY <1>1, <2>1, Offset
  <2>4. OffsetIndex(LowSize, x, y) = IF x - SubBlock < 0 THEN x - SubBlock + LowSize
                                     ELSE x - SubBlock
    BY <2>2, <2>3
  <2> QED
    BY <2>4 DEF x, y
<1>3. CASE i > 0
  <2>1. SubBlock * (i - 1) \in Nat
    BY <1>1, <1>3, SMT
  <2> QED
    BY <1>1, <1>2, <1>3, <2>1, Multiples, SMT
<1>4. CASE i = 0
  <2>1. SubBlock * i = 0
    BY <1>1, <1>4, SMT
  <2> QED
    BY <1>1, <1>2, <1>4, <2>1, Multiples, SMT
<1> QED
  BY <1>3, <1>4, SMT

LEMMA OneBlockOn ==
    ASSUME NEW i \in 0 .. LowRateBlocks - 1
    PROVE  OffsetIndex(LowSize, SubBlock * i, SubBlock)
             = SubBlock * (IF i < LowRateBlocks - 1 THEN i + 1 ELSE 0)
<1>1. /\ SubBlock \in Nat \ {0} /\ LowRateBlocks \in Nat
      /\ SubBlock \in -LowSize .. LowSize /\ LowSize \in Nat \ {0}
  BY BufferAssumption, Multiples, Sizes, SMT
<1>2. OffsetIndex(LowSize, SubBlock * i, SubBlock)
        = IF SubBlock * i + SubBlock < LowSize THEN SubBlock * i + SubBlock
                                               ELSE SubBlock * i + SubBlock - LowSize
  <2> DEFINE x == SubBlock * i
  <2>1. x \in 0 .. LowSize - 1
    BY <1>1, Multiples
  <2> HIDE DEF x
  <2>2. OffsetIndex(LowSize, x, SubBlock)
          = IF x + SubBlock < 0 THEN x + SubBlock + LowSize
            ELSE IF x + SubBlock < LowSize THEN x + SubBlock ELSE x + SubBlock - LowSize
    BY <1>1, <2>1, Offset
  <2>3. ~(x + SubBlock < 0)
    BY <1>1, <2>1, SMT
  <2> QED
    BY <2>2, <2>3 DEF x
<1>3. CASE i < LowRateBlocks - 1
  <2>1. i + 1 \in 0 .. LowRateBlocks - 1
    BY <1>1, <1>3, SMT
  <2>2. SubBlock * (i + 1) < LowSize
    BY <2>1, <1>1, Multiples, SMT
  <2> QED
    BY <1>1, <1>2, <1>3, <2>2, Multiples, SMT
<1>4. CASE i = LowRateBlocks - 1
  <2>1. SubBlock * 0 = 0
    BY <1>1, SMT
  <2> QED
    BY <1>1, <1>2, <1>4, <2>1, Multiples, SMT
<1> QED
  BY <1>3, <1>4, <1>1, SMT

\* The latency is the number of blocks between the two indices.
LEMMA Latency ==
    ASSUME NEW b, NEW w \in 0 .. LowRateBlocks - 1, NEW r \in 0 .. LowRateBlocks - 1,
           b.low.write = SubBlock * w, b.low.read = SubBlock * r
    PROVE  /\ BufferLatency(b) = IF r >= w THEN r - w ELSE LowRateBlocks + r - w
           /\ RenderUnderrun(b) <=> r = w
<1> DEFINE l == IF r >= w THEN r - w ELSE LowRateBlocks + r - w
<1>1. /\ SubBlock \in Nat \ {0} /\ LowRateBlocks \in Nat
      /\ l \in 0 .. LowRateBlocks - 1 /\ LowSize \in Nat \ {0}
  BY BufferAssumption, Sizes, SMT
<1>2. SubBlock * l \in 0 .. LowSize - 1
  BY <1>1, Multiples
<1>3. SubBlock * l = IF r >= w THEN SubBlock * r - SubBlock * w
                     ELSE LowSize + SubBlock * r - SubBlock * w
  BY <1>1, SMT DEF LowSize
<1>4. (LowSize + b.low.read - b.low.write) % LowSize = SubBlock * l
  <2> DEFINE x == SubBlock * l
  <2>1. LowSize + b.low.read - b.low.write \in {x, x + LowSize}
    BY <1>1, <1>3, SMT
  <2> HIDE DEF x, l
  <2>2. x % LowSize = x /\ (x + LowSize) % LowSize = x
    BY <1>1, <1>2, SMT DEF x
  <2> QED
    BY <2>1, <2>2 DEF x
<1>5. (SubBlock * l) \div SubBlock = l
  <2> HIDE DEF l
  <2> QED
    BY <1>1, SMT
<1>6. SubBlock * r = SubBlock * w <=> r = w
  BY <1>1, SMT
<1> QED
  BY <1>4, <1>5, <1>6 DEF BufferLatency, RenderUnderrun
-----------------------------------------------------------------------------
(* The operations of the render delay buffer.                              *)

\* What holds before and after every operation.
BufferInv(b) == b \in BufferType /\ InStep(b) /\ NeverAhead(b)

\* The part that Reset and Align need: it is they who set the read indices.
WritesInStep(b) == /\ b \in BufferType
                   /\ b.ffts.write = b.spectra.write
                   /\ (b.blocks.write + b.spectra.write) % Size = 0

\* What stays when only indices move.
SameRest(b, c) == /\ c.delay = b.delay /\ c.external = b.external
                  /\ c.minLatency = b.minLatency /\ c.excessCount = b.excessCount

LEMMA LowIndices ==
    ASSUME NEW b \in BufferType
    PROVE  \E w, r \in 0 .. LowRateBlocks - 1 :
               b.low.write = SubBlock * w /\ b.low.read = SubBlock * r
BY DEF BufferType

LEMMA LatencyType ==
    ASSUME NEW b \in BufferType
    PROVE  /\ BufferLatency(b) \in 0 .. LowRateBlocks - 1
           /\ RenderUnderrun(b) <=> BufferLatency(b) = 0
<1>1. PICK w \in 0 .. LowRateBlocks - 1, r \in 0 .. LowRateBlocks - 1 :
          b.low.write = SubBlock * w /\ b.low.read = SubBlock * r
  BY LowIndices
<1>2. /\ BufferLatency(b) = IF r >= w THEN r - w ELSE LowRateBlocks + r - w
      /\ RenderUnderrun(b) <=> r = w
  BY <1>1, Latency
<1> QED
  BY <1>2, BufferAssumption, SMT

\* Indices that run in opposite directions meet together.
LEMMA Mirror ==
    ASSUME NEW S \in Nat \ {0},
           NEW i \in 0 .. S - 1, NEW j \in 0 .. S - 1,
           NEW k \in 0 .. S - 1, NEW l \in 0 .. S - 1,
           i + k = 0 \/ i + k = S, j + l = 0 \/ j + l = S
    PROVE  i = j <=> k = l
<1>1. CASE i + k = 0
  BY <1>1, SMT
<1>2. CASE i + k = S
  BY <1>2, SMT
<1> QED
  BY <1>1, <1>2

LEMMA TotalType ==
    ASSUME NEW b \in BufferType, InStep(b)
    PROVE  /\ TotalDelay(b) \in 0 .. Size - 1
           /\ b.blocks.read = b.blocks.write <=> TotalDelay(b) = 0
<1>1. /\ b.blocks.read \in 0 .. Size - 1 /\ b.blocks.write \in 0 .. Size - 1
      /\ b.spectra.read \in 0 .. Size - 1 /\ b.spectra.write \in 0 .. Size - 1
  BY DEF BufferType, Ring
<1>2. /\ b.blocks.read + b.spectra.read \in {0, Size}
      /\ b.blocks.write + b.spectra.write \in {0, Size}
  <2> USE <1>1, Sizes
  <2>1. (b.blocks.read + b.spectra.read) % Size = 0
        /\ (b.blocks.write + b.spectra.write) % Size = 0
    BY DEF InStep
  <2>2. Size \in Nat \ {0}
    BY SMT
  <2>3. b.blocks.read + b.spectra.read = 0 \/ b.blocks.read + b.spectra.read = Size
    BY <2>1, <2>2, Opposite
  <2>4. b.blocks.write + b.spectra.write = 0 \/ b.blocks.write + b.spectra.write = Size
    BY <2>1, <2>2, Opposite
  <2> QED
    BY <2>3, <2>4
<1> DEFINE w == b.spectra.write
           r == b.spectra.read
<1>3. /\ w \in 0 .. Size - 1 /\ r \in 0 .. Size - 1 /\ Size \in Nat \ {0}
      /\ TotalDelay(b) = IF r >= w THEN r - w ELSE Size + r - w
  BY <1>1, Sizes DEF TotalDelay
<1>4. b.blocks.read = b.blocks.write <=> r = w
  <2>1. /\ b.blocks.read + r = 0 \/ b.blocks.read + r = Size
        /\ b.blocks.write + w = 0 \/ b.blocks.write + w = Size
    BY <1>2
  <2>2. b.blocks.read \in 0 .. Size - 1 /\ b.blocks.write \in 0 .. Size - 1
    BY <1>1
  <2> QED
    BY <1>3, <2>1, <2>2, Mirror
<1>5. TotalDelay(b) \in 0 .. Size - 1 /\ (r = w <=> TotalDelay(b) = 0)
  <2>1. CASE r >= w
    BY <1>3, <2>1, SMT
  <2>2. CASE ~(r >= w)
    BY <1>3, <2>2, SMT
  <2> QED
    BY <2>1, <2>2
<1> QED
  BY <1>4, <1>5

\* ApplyTotalDelay puts the read indices the given distance behind.
LEMMA Apply ==
    ASSUME NEW b, WritesInStep(b), NEW d \in 0 .. Size - 1
    PROVE  LET c == ApplyTotalDelay(b, d)
           IN  /\ c \in BufferType /\ InStep(c)
               /\ TotalDelay(c) = d /\ c.low = b.low
               /\ BufferLatency(c) = BufferLatency(b) /\ SameRest(b, c)
<1> DEFINE c == ApplyTotalDelay(b, d)
<1>0. b \in BufferType /\ Size \in Nat \ {0, 1}
  BY Sizes DEF WritesInStep
<1>1. /\ b.blocks.write \in 0 .. Size - 1 /\ b.spectra.write \in 0 .. Size - 1
      /\ b.ffts.write = b.spectra.write /\ d \in -Size .. Size /\ -d \in -Size .. Size
  BY <1>0, SMT DEF BufferType, Ring, WritesInStep
<1>2. b.blocks.write + b.spectra.write \in {0, Size}
  <2> DEFINE x == b.blocks.write
             y == b.spectra.write
  <2>1. (x + y) % Size = 0 /\ x \in 0 .. Size - 1 /\ y \in 0 .. Size - 1 /\ Size \in Nat \ {0}
    BY <1>0, <1>1 DEF WritesInStep
  <2> HIDE DEF x, y
  <2>2. x + y = 0 \/ x + y = Size
    BY ONLY <2>1, Opposite
  <2> QED
    BY <2>2 DEF x, y
<1>3. /\ OffsetIndex(Size, b.blocks.write, -d)
           = IF b.blocks.write - d < 0 THEN b.blocks.write - d + Size
                                       ELSE b.blocks.write - d
      /\ OffsetIndex(Size, b.spectra.write, d)
           = IF b.spectra.write + d < Size THEN b.spectra.write + d
                                           ELSE b.spectra.write + d - Size
  <2>1. OffsetIndex(Size, b.spectra.write, d)
           = IF b.spectra.write + d < 0 THEN b.spectra.write + d + Size
             ELSE IF b.spectra.write + d < Size THEN b.spectra.write + d
             ELSE b.spectra.write + d - Size
    BY <1>0, <1>1, Offset
  <2>2. OffsetIndex(Size, b.blocks.write, -d)
           = IF b.blocks.write + (-d) < 0 THEN b.blocks.write + (-d) + Size
             ELSE IF b.blocks.write + (-d) < Size THEN b.blocks.write + (-d)
             ELSE b.blocks.write + (-d) - Size
    BY <1>0, <1>1, Offset
  <2> QED
    BY <1>0, <1>1, <2>1, <2>2, SMT
<1>4. /\ c.blocks = [write |-> b.blocks.write, read |-> OffsetIndex(Size, b.blocks.write, -d)]
      /\ c.spectra = [write |-> b.spectra.write, read |-> OffsetIndex(Size, b.spectra.write, d)]
      /\ c.ffts = [write |-> b.spectra.write, read |-> OffsetIndex(Size, b.spectra.write, d)]
      /\ c.low = b.low /\ SameRest(b, c)
  BY <1>0, <1>1 DEF ApplyTotalDelay, BufferType, Ring, SameRest
<1>5. c \in BufferType
  <2>1. c.blocks \in Ring(Size) /\ c.spectra \in Ring(Size) /\ c.ffts \in Ring(Size)
    BY <1>0, <1>1, <1>3, <1>4, SMT DEF Ring
  <2> QED
    BY <1>0, <2>1 DEF ApplyTotalDelay, BufferType
<1>6. c.blocks.read + c.spectra.read \in {0, Size}
  BY <1>0, <1>1, <1>2, <1>3, <1>4, SMT
<1>7. InStep(c)
  <2>1. (c.blocks.read + c.spectra.read) % Size = 0
    <3>1. c.blocks.read \in 0 .. Size - 1 /\ c.spectra.read \in 0 .. Size - 1
      BY <1>5 DEF BufferType, Ring
    <3> QED
      BY <1>0, <1>6, <3>1, Opposite
  <2> QED
    BY <1>4, <2>1 DEF InStep, WritesInStep
<1>8. TotalDelay(c) = d
  BY <1>0, <1>1, <1>3, <1>4, SMT DEF TotalDelay
<1> QED
  BY <1>4, <1>5, <1>7, <1>8 DEF BufferLatency

\* Reset: one block of latency, in step, aligned by the sound card's delay or
\* not aligned.
LEMMA ResetInv ==
    ASSUME NEW b, WritesInStep(b)
    PROVE  /\ BufferInv(Reset(b))
           /\ Reset(b).external = b.external
           /\ Reset(b).delay = IF b.external = NoDelay THEN NoDelay
                               ELSE ComputeDelay(Reset(b))
           /\ TotalDelay(Reset(b)) = IF b.external # NoDelay THEN ExternalStart(b)
                                     ELSE DefaultDelay
           /\ BufferLatency(Reset(b)) = 1
<1> DEFINE fresh == [b EXCEPT !.low.read = OffsetIndex(LowSize, b.low.write, SubBlock),
                              !.minLatency = 0, !.excessCount = 0]
           d == IF b.external # NoDelay THEN ExternalStart(b) ELSE DefaultDelay
           c == ApplyTotalDelay(fresh, d)
<1>1. b \in BufferType
  BY DEF WritesInStep
<1>2. PICK w \in 0 .. LowRateBlocks - 1 : b.low.write = SubBlock * w
  BY <1>1, LowIndices
<1>3. fresh.low = [write |-> b.low.write,
                   read |-> SubBlock * (IF w < LowRateBlocks - 1 THEN w + 1 ELSE 0)]
  BY <1>1, <1>2, OneBlockOn DEF BufferType
<1>4. /\ fresh.blocks = b.blocks /\ fresh.spectra = b.spectra /\ fresh.ffts = b.ffts
      /\ fresh.external = b.external /\ fresh.minLatency = 0 /\ fresh.excessCount = 0
  BY <1>1 DEF BufferType
<1>5. fresh \in BufferType
  <2>1. (IF w < LowRateBlocks - 1 THEN w + 1 ELSE 0) \in 0 .. LowRateBlocks - 1
        /\ 0 \in 0 .. LowRateBlocks - 1 /\ 0 \in 0 .. ExcessInterval - 1
    BY BufferAssumption, SMT
  <2>2. fresh.low \in [write : {SubBlock * i : i \in 0 .. LowRateBlocks - 1},
                       read : {SubBlock * i : i \in 0 .. LowRateBlocks - 1}]
    BY <1>2, <1>3, <2>1
  <2> QED
    BY <1>1, <1>4, <2>1, <2>2 DEF BufferType
<1>6. BufferLatency(fresh) = 1
  <2> DEFINE r == IF w < LowRateBlocks - 1 THEN w + 1 ELSE 0
  <2>1. r \in 0 .. LowRateBlocks - 1
    BY BufferAssumption, SMT
  <2>2. fresh.low.write = SubBlock * w /\ fresh.low.read = SubBlock * r
    BY <1>2, <1>3
  <2> HIDE DEF fresh, r
  <2>3. BufferLatency(fresh) = IF r >= w THEN r - w ELSE LowRateBlocks + r - w
    BY <2>1, <2>2, Latency
  <2> QED
    BY <2>3, BufferAssumption, SMT DEF r
<1>7. WritesInStep(fresh)
  BY <1>4, <1>5 DEF WritesInStep
<1>8. d \in 1 .. MaxDelay /\ d \in 0 .. Size - 1
  <2>1. ExternalStart(b) \in 1 .. MaxDelay \/ b.external = NoDelay
    BY <1>1, Sizes, SMT DEF ExternalStart, Least, BufferType
  <2> QED
    BY <2>1, Sizes, BufferAssumption, SMT
<1>9. /\ c \in BufferType /\ InStep(c) /\ TotalDelay(c) = d
      /\ BufferLatency(c) = 1 /\ SameRest(fresh, c)
  BY <1>6, <1>7, <1>8, Apply
<1>10. ComputeDelay(c) = d - 1 /\ ComputeDelay(c) \in Nat
  BY <1>8, <1>9, Sizes, SMT DEF ComputeDelay
<1>11. Reset(b) = [c EXCEPT !.delay = IF b.external = NoDelay THEN NoDelay
                                      ELSE ComputeDelay(c)]
  BY DEF Reset
<1>15. d = IF b.external # NoDelay THEN ExternalStart(b) ELSE DefaultDelay
  OBVIOUS
<1> HIDE DEF c, fresh, d
<1>12. /\ Reset(b) \in BufferType
       /\ Reset(b).external = b.external
       /\ Reset(b).delay = IF b.external = NoDelay THEN NoDelay ELSE ComputeDelay(c)
       /\ Reset(b).blocks = c.blocks /\ Reset(b).spectra = c.spectra
       /\ Reset(b).ffts = c.ffts /\ Reset(b).low = c.low
  BY <1>4, <1>9, <1>10, <1>11 DEF BufferType, SameRest
<1>13. ComputeDelay(Reset(b)) = ComputeDelay(c)
  BY <1>12 DEF ComputeDelay, TotalDelay, BufferLatency
<1>14. InStep(Reset(b)) /\ NeverAhead(Reset(b))
  BY <1>9, <1>10, <1>12, <1>13, SMT DEF InStep, NeverAhead
<1>16. TotalDelay(Reset(b)) = d
  BY <1>9, <1>12 DEF TotalDelay
<1>17. BufferLatency(Reset(b)) = 1
  BY <1>9, <1>12 DEF BufferLatency
<1> QED
  BY <1>12, <1>13, <1>14, <1>15, <1>16, <1>17 DEF BufferInv

\* A written block is one more between the indices; when that makes them meet
\* it is an overrun, and the capture side was far behind.
LEMMA WriteInv ==
    ASSUME NEW b, BufferInv(b)
    PROVE  LET c == IncrementWriteIndices(b)
           IN  /\ WritesInStep(c) /\ SameRest(b, c)
               /\ ~RenderOverrun(c) =>
                     /\ InStep(c)
                     /\ TotalDelay(c) = TotalDelay(b) + 1
                     /\ BufferLatency(c) = BufferLatency(b) + 1
               /\ RenderOverrun(c) => TotalDelay(b) + 1 >= LowRateBlocks
<1> DEFINE c == IncrementWriteIndices(b)
<1>0. b \in BufferType /\ InStep(b) /\ Size \in Nat \ {0, 1}
  BY Sizes DEF BufferInv
<1>1. PICK w \in 0 .. LowRateBlocks - 1, r \in 0 .. LowRateBlocks - 1 :
          b.low.write = SubBlock * w /\ b.low.read = SubBlock * r
  BY <1>0, LowIndices
<1> DEFINE v == IF w > 0 THEN w - 1 ELSE LowRateBlocks - 1
<1>2. v \in 0 .. LowRateBlocks - 1
  BY BufferAssumption, SMT
<1>3. /\ c.low = [write |-> SubBlock * v, read |-> SubBlock * r]
      /\ c.blocks = [write |-> IncIndex(Size, b.blocks.write), read |-> b.blocks.read]
      /\ c.spectra = [write |-> DecIndex(Size, b.spectra.write), read |-> b.spectra.read]
      /\ c.ffts = [write |-> DecIndex(Size, b.ffts.write), read |-> b.ffts.read]
      /\ SameRest(b, c)
  BY <1>0, <1>1, OneBlockBack DEF IncrementWriteIndices, BufferType, Ring, SameRest
<1>4. /\ b.blocks.read \in 0 .. Size - 1 /\ b.blocks.write \in 0 .. Size - 1
      /\ b.spectra.read \in 0 .. Size - 1 /\ b.spectra.write \in 0 .. Size - 1
      /\ b.ffts = b.spectra
  BY <1>0 DEF BufferType, Ring, InStep
<1>5. /\ IncIndex(Size, b.blocks.write) \in 0 .. Size - 1
      /\ DecIndex(Size, b.spectra.write) \in 0 .. Size - 1
  BY <1>0, <1>4, SMT DEF IncIndex, DecIndex
<1>6. c \in BufferType
  <2>1. c.blocks \in Ring(Size) /\ c.spectra \in Ring(Size) /\ c.ffts \in Ring(Size)
    BY <1>3, <1>4, <1>5 DEF Ring
  <2>2. c.low \in [write : {SubBlock * i : i \in 0 .. LowRateBlocks - 1},
                   read : {SubBlock * i : i \in 0 .. LowRateBlocks - 1}]
    BY <1>2, <1>3
  <2> QED
    BY <1>0, <2>1, <2>2 DEF IncrementWriteIndices, BufferType
<1>7. /\ b.blocks.write + b.spectra.write \in {0, Size}
      /\ b.blocks.read + b.spectra.read \in {0, Size}
  <2>1. b.blocks.write + b.spectra.write = 0 \/ b.blocks.write + b.spectra.write = Size
    BY <1>0, <1>4, Opposite DEF InStep
  <2>2. b.blocks.read + b.spectra.read = 0 \/ b.blocks.read + b.spectra.read = Size
    BY <1>0, <1>4, Opposite DEF InStep
  <2> QED
    BY <2>1, <2>2
<1>8. WritesInStep(c)
  <2>1. c.blocks.write + c.spectra.write = 0 \/ c.blocks.write + c.spectra.write = Size
    <3>1. /\ c.blocks.write = IncIndex(Size, b.blocks.write)
          /\ c.spectra.write = DecIndex(Size, b.spectra.write)
      BY <1>3
    <3> DEFINE i == b.blocks.write
               j == b.spectra.write
    <3>2. /\ i \in 0 .. Size - 1 /\ j \in 0 .. Size - 1
          /\ i + j = 0 \/ i + j = Size
      BY <1>4, <1>7
    <3> HIDE DEF c, i, j
    <3>3. IncIndex(Size, i) + DecIndex(Size, j) \in {0, Size}
      BY <1>0, <3>2, SMT DEF IncIndex, DecIndex
    <3> QED
      BY <3>1, <3>3 DEF i, j
  <2>2. (c.blocks.write + c.spectra.write) % Size = 0
    <3>1. c.blocks.write \in 0 .. Size - 1 /\ c.spectra.write \in 0 .. Size - 1
      BY <1>3, <1>5
    <3> QED
      BY <1>0, <2>1, <3>1, Opposite
  <2> QED
    BY <1>3, <1>4, <1>6, <2>2 DEF WritesInStep
<1>9. ASSUME ~RenderOverrun(c)
      PROVE  /\ InStep(c)
             /\ TotalDelay(c) = TotalDelay(b) + 1
             /\ BufferLatency(c) = BufferLatency(b) + 1
  <2>1. InStep(c)
    BY <1>0, <1>3, <1>4, <1>8 DEF InStep, WritesInStep
  <2>2. c.blocks.read # c.blocks.write /\ ~RenderUnderrun(c)
    BY <1>9 DEF RenderOverrun
  <2>3. TotalDelay(c) = TotalDelay(b) + 1
    <3>1. TotalDelay(c) # 0
      BY <1>6, <2>1, <2>2, TotalType
    <3> QED
      BY <1>0, <1>3, <1>4, <3>1, SMT DEF TotalDelay, DecIndex
  <2>4. BufferLatency(c) = BufferLatency(b) + 1
    <3>1. c.low.write = SubBlock * v /\ c.low.read = SubBlock * r
      BY <1>3
    <3> HIDE DEF c, v
    <3>2. /\ BufferLatency(c) = IF r >= v THEN r - v ELSE LowRateBlocks + r - v
          /\ RenderUnderrun(c) <=> r = v
      BY <1>2, <3>1, Latency
    <3>3. BufferLatency(b) = IF r >= w THEN r - w ELSE LowRateBlocks + r - w
      BY <1>1, Latency
    <3> QED
      BY <2>2, <3>2, <3>3, BufferAssumption, SMT DEF v
  <2> QED
    BY <2>1, <2>3, <2>4
<1>10. ASSUME RenderOverrun(c)
       PROVE  TotalDelay(b) + 1 >= LowRateBlocks
  <2>1. TotalDelay(b) \in Nat /\ BufferLatency(b) \in Nat
    BY <1>0, TotalType, LatencyType, Sizes, SMT
  <2>2. CASE RenderUnderrun(c)
    <3>1. c.low.write = SubBlock * v /\ c.low.read = SubBlock * r
      BY <1>3
    <3> HIDE DEF c, v
    <3>2. r = v
      BY <1>2, <2>2, <3>1, Latency
    <3>3. BufferLatency(b) = IF r >= w THEN r - w ELSE LowRateBlocks + r - w
      BY <1>1, Latency
    <3>4. BufferLatency(b) = LowRateBlocks - 1
      BY <3>2, <3>3, BufferAssumption, SMT DEF v
    <3>5. TotalDelay(b) - BufferLatency(b) >= 0
      BY DEF BufferInv, NeverAhead, ComputeDelay
    <3> QED
      BY <2>1, <3>4, <3>5, BufferAssumption, SMT
  <2>3. CASE ~RenderUnderrun(c)
    <3> DEFINE i == b.blocks.write
               j == b.spectra.write
               k == b.blocks.read
               l == b.spectra.read
    <3>1. k = IncIndex(Size, i)
      BY <1>3, <1>10, <2>3 DEF RenderOverrun
    <3>2. /\ i \in 0 .. Size - 1 /\ j \in 0 .. Size - 1
          /\ k \in 0 .. Size - 1 /\ l \in 0 .. Size - 1
          /\ i + j = 0 \/ i + j = Size
          /\ k + l = 0 \/ k + l = Size
          /\ TotalDelay(b) = IF l >= j THEN l - j ELSE Size + l - j
      BY <1>4, <1>7 DEF TotalDelay
    <3> HIDE DEF c, i, j, k, l
    <3>3. TotalDelay(b) = Size - 1
      BY <1>0, <3>1, <3>2, SMT DEF IncIndex
    <3> QED
      BY <3>3, BufferAssumption, SMT DEF Size
  <2> QED
    BY <2>2, <2>3
<1> QED
  BY <1>3, <1>8, <1>9, <1>10

\* Insert keeps the buffer; only an overrun makes the capture side's block jump.
LEMMA InsertInv ==
    ASSUME NEW b, BufferInv(b)
    PROVE  /\ BufferInv(Insert(b))
           /\ Insert(b).external = b.external
           /\ ~InsertOverruns(b) =>
                 /\ Insert(b).delay = b.delay
                 /\ TotalDelay(Insert(b)) = TotalDelay(b) + 1
                 /\ ComputeDelay(Insert(b)) = ComputeDelay(b)
           /\ InsertOverruns(b) =>
                 Insert(b).delay = IF b.external = NoDelay THEN NoDelay
                                   ELSE ComputeDelay(Insert(b))
<1> DEFINE c == IncrementWriteIndices(b)
<1>1. WritesInStep(c) /\ SameRest(b, c)
  BY WriteInv
<1>2. CASE RenderOverrun(c)
  <2>1. Insert(b) = Reset(c)
    BY <1>2 DEF Insert, InsertOverruns
  <2> QED
    BY <1>1, <1>2, <2>1, ResetInv DEF InsertOverruns, SameRest
<1>3. CASE ~RenderOverrun(c)
  <2>1. Insert(b) = c
    BY <1>3 DEF Insert, InsertOverruns
  <2>2. /\ InStep(c) /\ TotalDelay(c) = TotalDelay(b) + 1
        /\ BufferLatency(c) = BufferLatency(b) + 1
    BY <1>3, WriteInv
  <2>3. c \in BufferType /\ b \in BufferType /\ InStep(b)
    BY <1>1 DEF WritesInStep, BufferInv
  <2>4. TotalDelay(b) \in Nat /\ BufferLatency(b) \in Nat
    BY <2>3, TotalType, LatencyType, Sizes, BufferAssumption, SMT
  <2>5. ComputeDelay(c) = ComputeDelay(b)
    BY <2>2, <2>4, SMT DEF ComputeDelay
  <2> QED
    BY <1>1, <1>3, <2>1, <2>2, <2>3, <2>5
    DEF BufferInv, NeverAhead, InsertOverruns, SameRest
<1> QED
  BY <1>2, <1>3

\* The capture side moves on by one block while there is one.
LEMMA ReadInv ==
    ASSUME NEW b \in BufferType, InStep(b)
    PROVE  LET c == IncrementReadIndices(b)
           IN  /\ c \in BufferType /\ InStep(c) /\ SameRest(b, c) /\ c.low = b.low
               /\ TotalDelay(c) = IF TotalDelay(b) > 0 THEN TotalDelay(b) - 1 ELSE 0
<1> DEFINE c == IncrementReadIndices(b)
<1>0. Size \in Nat \ {0, 1}
  BY Sizes
<1>1. CASE b.blocks.read = b.blocks.write
  <2>1. c = b
    BY <1>1 DEF IncrementReadIndices
  <2> QED
    BY <1>1, <2>1, TotalType DEF SameRest
<1>2. CASE b.blocks.read # b.blocks.write
  <2>1. /\ c.blocks = [write |-> b.blocks.write, read |-> IncIndex(Size, b.blocks.read)]
        /\ c.spectra = [write |-> b.spectra.write, read |-> DecIndex(Size, b.spectra.read)]
        /\ c.ffts = [write |-> b.ffts.write, read |-> DecIndex(Size, b.ffts.read)]
        /\ SameRest(b, c) /\ c.low = b.low
    BY <1>2 DEF IncrementReadIndices, BufferType, Ring, SameRest
  <2>2. /\ b.blocks.read \in 0 .. Size - 1 /\ b.blocks.write \in 0 .. Size - 1
        /\ b.spectra.read \in 0 .. Size - 1 /\ b.spectra.write \in 0 .. Size - 1
        /\ b.ffts = b.spectra
    BY DEF BufferType, Ring, InStep
  <2>3. /\ IncIndex(Size, b.blocks.read) \in 0 .. Size - 1
        /\ DecIndex(Size, b.spectra.read) \in 0 .. Size - 1
    BY <1>0, <2>2, SMT DEF IncIndex, DecIndex
  <2>4. c \in BufferType
    <3>1. c.blocks \in Ring(Size) /\ c.spectra \in Ring(Size) /\ c.ffts \in Ring(Size)
      BY <2>1, <2>2, <2>3 DEF Ring
    <3> QED
      BY <1>2, <3>1 DEF IncrementReadIndices, BufferType
  <2>5. InStep(c)
    <3> DEFINE i == b.blocks.read
               j == b.spectra.read
    <3>1. i \in 0 .. Size - 1 /\ j \in 0 .. Size - 1
      BY <2>2
    <3>2. i + j = 0 \/ i + j = Size
      BY <1>0, <3>1, Opposite DEF InStep
    <3> HIDE DEF i, j
    <3>3. IncIndex(Size, i) + DecIndex(Size, j) = 0
          \/ IncIndex(Size, i) + DecIndex(Size, j) = Size
      BY <1>0, <3>1, <3>2, SMT DEF IncIndex, DecIndex
    <3>4. IncIndex(Size, i) \in 0 .. Size - 1 /\ DecIndex(Size, j) \in 0 .. Size - 1
      BY <2>3 DEF i, j
    <3>5. (IncIndex(Size, i) + DecIndex(Size, j)) % Size = 0
      BY <1>0, <3>3, <3>4, Opposite
    <3> QED
      BY <2>1, <2>2, <3>5 DEF InStep, i, j
  <2>6. TotalDelay(b) \in 1 .. Size - 1
    BY <1>2, TotalType, Sizes, SMT
  <2>7. TotalDelay(c) = TotalDelay(b) - 1
    BY <1>0, <2>1, <2>2, <2>6, SMT DEF TotalDelay, DecIndex
  <2> QED
    BY <2>1, <2>4, <2>5, <2>6, <2>7, SMT
<1> QED
  BY <1>1, <1>2

LEMMA LowReadInv ==
    ASSUME NEW b \in BufferType, ~RenderUnderrun(b)
    PROVE  LET c == IncrementLowRateReadIndices(b)
           IN  /\ c \in BufferType /\ SameRest(b, c)
               /\ c.blocks = b.blocks /\ c.spectra = b.spectra /\ c.ffts = b.ffts
               /\ BufferLatency(c) = BufferLatency(b) - 1
<1> DEFINE c == IncrementLowRateReadIndices(b)
<1>1. PICK w \in 0 .. LowRateBlocks - 1, r \in 0 .. LowRateBlocks - 1 :
          b.low.write = SubBlock * w /\ b.low.read = SubBlock * r
  BY LowIndices
<1> DEFINE q == IF r > 0 THEN r - 1 ELSE LowRateBlocks - 1
<1>2. q \in 0 .. LowRateBlocks - 1
  BY BufferAssumption, SMT
<1>3. /\ c.low = [write |-> SubBlock * w, read |-> SubBlock * q]
      /\ c.blocks = b.blocks /\ c.spectra = b.spectra /\ c.ffts = b.ffts
      /\ SameRest(b, c)
  BY <1>1, OneBlockBack DEF IncrementLowRateReadIndices, BufferType, SameRest
<1>4. c \in BufferType
  <2>1. c.low \in [write : {SubBlock * i : i \in 0 .. LowRateBlocks - 1},
                   read : {SubBlock * i : i \in 0 .. LowRateBlocks - 1}]
    BY <1>2, <1>3
  <2> QED
    BY <2>1 DEF IncrementLowRateReadIndices, BufferType
<1>5. BufferLatency(c) = BufferLatency(b) - 1
  <2>1. c.low.write = SubBlock * w /\ c.low.read = SubBlock * q
    BY <1>3
  <2> HIDE DEF c, q
  <2>2. BufferLatency(c) = IF q >= w THEN q - w ELSE LowRateBlocks + q - w
    BY <1>2, <2>1, Latency
  <2>3. /\ BufferLatency(b) = IF r >= w THEN r - w ELSE LowRateBlocks + r - w
        /\ r # w
    BY <1>1, Latency
  <2> QED
    BY <2>2, <2>3, BufferAssumption, SMT DEF q
<1> QED
  BY <1>3, <1>4, <1>5

\* The count of the least latency leaves the rest of the buffer alone.
LEMMA CountInv ==
    ASSUME NEW b \in BufferType
    PROVE  LET c == CountLatency(b)
           IN  /\ c \in BufferType
               /\ c.blocks = b.blocks /\ c.spectra = b.spectra /\ c.ffts = b.ffts
               /\ c.low = b.low /\ c.delay = b.delay /\ c.external = b.external
<1>1. BufferLatency(b) \in 0 .. LowRateBlocks - 1
  BY LatencyType
<1>2. /\ b.minLatency \in 0 .. LowRateBlocks - 1 /\ b.excessCount \in 0 .. ExcessInterval - 1
      /\ ExcessInterval \in Nat \ {0}
  BY BufferAssumption DEF BufferType
<1>3. SeenLatency(b) \in 0 .. LowRateBlocks - 1
  BY <1>1, <1>2 DEF SeenLatency, Least
<1>4. ~IntervalEnds(b) => b.excessCount + 1 \in 0 .. ExcessInterval - 1
  BY <1>2, SMT DEF IntervalEnds
<1>5. 0 \in 0 .. ExcessInterval - 1
  BY <1>2, SMT
<1> QED
  BY <1>1, <1>3, <1>4, <1>5 DEF CountLatency, BufferType

\* The least latency is none while there is an underrun.
LEMMA PrepareInv ==
    ASSUME NEW b, BufferInv(b)
    PROVE  LET c == PrepareCaptureProcessing(b)
           IN  /\ BufferInv(c)
               /\ c.external = b.external
               /\ ExcessDetected(b) => c.delay = IF b.external = NoDelay THEN NoDelay
                                                 ELSE ComputeDelay(c)
               /\ Underruns(b) =>
                     /\ c.delay = UnderrunDelay(b.delay)
                     /\ ComputeDelay(c) = UnderrunDelay(ComputeDelay(b))
               /\ ~ExcessDetected(b) /\ ~Underruns(b) =>
                     /\ c.delay = b.delay
                     /\ ComputeDelay(c) = ComputeDelay(b)
                     /\ TotalDelay(c) = TotalDelay(b) - 1
<1> DEFINE n == CountLatency(b)
           m == IncrementReadIndices(n)
           c == PrepareCaptureProcessing(b)
<1>1. b \in BufferType /\ InStep(b) /\ NeverAhead(b)
  BY DEF BufferInv
<1>2. /\ n \in BufferType
      /\ n.blocks = b.blocks /\ n.spectra = b.spectra /\ n.ffts = b.ffts
      /\ n.low = b.low /\ n.delay = b.delay /\ n.external = b.external
  BY <1>1, CountInv
<1>3. InStep(n) /\ TotalDelay(n) = TotalDelay(b) /\ BufferLatency(n) = BufferLatency(b)
  BY <1>1, <1>2 DEF InStep, TotalDelay, BufferLatency
<1>4. /\ m \in BufferType /\ InStep(m) /\ SameRest(n, m) /\ m.low = n.low
      /\ TotalDelay(m) = IF TotalDelay(b) > 0 THEN TotalDelay(b) - 1 ELSE 0
  BY <1>2, <1>3, ReadInv
<1>5. BufferLatency(m) = BufferLatency(b)
  BY <1>3, <1>4 DEF BufferLatency
<1>6. /\ TotalDelay(b) \in 0 .. Size - 1 /\ BufferLatency(b) \in 0 .. LowRateBlocks - 1
      /\ RenderUnderrun(b) <=> BufferLatency(b) = 0
      /\ TotalDelay(b) >= BufferLatency(b)
  <2>1. TotalDelay(b) \in 0 .. Size - 1 /\ BufferLatency(b) \in 0 .. LowRateBlocks - 1
    BY <1>1, TotalType, LatencyType
  <2> QED
    BY <1>1, <2>1, LatencyType, Sizes, BufferAssumption, SMT DEF NeverAhead, ComputeDelay
<1>7. CASE ExcessDetected(b)
  <2>1. c = Reset(n)
    BY <1>7 DEF PrepareCaptureProcessing
  <2>2. WritesInStep(n)
    BY <1>2, <1>3 DEF WritesInStep, InStep
  <2> QED
    BY <1>2, <1>7, <2>1, <2>2, ResetInv DEF Underruns
<1>8. CASE ~ExcessDetected(b) /\ Underruns(b)
  <2>1. c = [m EXCEPT !.delay = UnderrunDelay(@)]
    BY <1>8 DEF PrepareCaptureProcessing
  <2>2. m.delay = b.delay /\ m.external = b.external /\ b.delay \in Nat \cup {NoDelay}
    BY <1>1, <1>2, <1>4 DEF SameRest, BufferType
  <2>3. UnderrunDelay(b.delay) \in Nat \cup {NoDelay}
    BY <2>2, SMT DEF UnderrunDelay, NoDelay
  <2> HIDE DEF m, n
  <2>4. /\ c \in BufferType /\ c.delay = UnderrunDelay(b.delay) /\ c.external = b.external
        /\ c.blocks = m.blocks /\ c.spectra = m.spectra /\ c.ffts = m.ffts /\ c.low = m.low
    BY <1>4, <2>1, <2>2, <2>3 DEF BufferType
  <2>5. InStep(c) /\ TotalDelay(c) = TotalDelay(m) /\ BufferLatency(c) = BufferLatency(m)
    BY <1>4, <2>4 DEF InStep, TotalDelay, BufferLatency
  <2>6. BufferLatency(b) = 0
    BY <1>6, <1>8 DEF Underruns
  <2>7. ComputeDelay(c) = UnderrunDelay(ComputeDelay(b)) /\ NeverAhead(c)
    BY <1>4, <1>5, <1>6, <2>5, <2>6, Sizes, SMT DEF ComputeDelay, UnderrunDelay, NeverAhead
  <2> QED
    BY <1>8, <2>4, <2>5, <2>7 DEF BufferInv
<1>9. CASE ~ExcessDetected(b) /\ ~Underruns(b)
  <2>1. c = IncrementLowRateReadIndices(m)
    BY <1>9 DEF PrepareCaptureProcessing
  <2>2. ~RenderUnderrun(b) /\ ~RenderUnderrun(m)
    BY <1>2, <1>4, <1>9 DEF Underruns, RenderUnderrun
  <2>3. /\ c \in BufferType /\ SameRest(m, c)
        /\ c.blocks = m.blocks /\ c.spectra = m.spectra /\ c.ffts = m.ffts
        /\ BufferLatency(c) = BufferLatency(b) - 1
    BY <1>4, <1>5, <2>1, <2>2, LowReadInv
  <2>4. InStep(c) /\ TotalDelay(c) = TotalDelay(m)
    BY <1>4, <2>3 DEF InStep, TotalDelay
  <2>5. /\ TotalDelay(c) = TotalDelay(b) - 1
        /\ ComputeDelay(c) = ComputeDelay(b) /\ NeverAhead(c)
    BY <1>1, <1>4, <1>6, <2>2, <2>3, <2>4, Sizes, BufferAssumption, SMT
    DEF ComputeDelay, NeverAhead
  <2> QED
    BY <1>2, <1>4, <1>9, <2>3, <2>4, <2>5 DEF BufferInv, SameRest
<1> QED
  BY <1>7, <1>8, <1>9

\* A buffer aligned to a delay has it, unless there is no room for it.
LEMMA AlignInv ==
    ASSUME NEW b, BufferInv(b), NEW delay \in Nat
    PROVE  LET c == AlignFromDelay(b, delay)
           IN  /\ BufferInv(c)
               /\ c.external = b.external
               /\ c.delay = delay
               /\ ~DelayChanges(b, delay) => c = b
               /\ DelayChanges(b, delay) /\ ~DelayLimited(b, delay)
                    => ComputeDelay(c) = delay
<1> DEFINE c == AlignFromDelay(b, delay)
<1>1. b \in BufferType /\ InStep(b) /\ NeverAhead(b)
  BY DEF BufferInv
<1>2. CASE ~DelayChanges(b, delay)
  BY <1>2 DEF AlignFromDelay, DelayChanges
<1>3. CASE DelayChanges(b, delay)
  <2> DEFINE n == [b EXCEPT !.delay = delay]
             d == Least(MaxDelay, BufferLatency(b) + delay)
  <2>1. c = ApplyTotalDelay(n, d)
    BY <1>3 DEF AlignFromDelay
  <2>2. /\ n \in BufferType /\ n.delay = delay /\ n.external = b.external
        /\ n.blocks = b.blocks /\ n.spectra = b.spectra /\ n.ffts = b.ffts /\ n.low = b.low
    BY <1>1 DEF BufferType
  <2>3. WritesInStep(n) /\ BufferLatency(n) = BufferLatency(b)
    BY <1>1, <2>2 DEF WritesInStep, InStep, BufferLatency
  <2>4. BufferLatency(b) \in 0 .. LowRateBlocks - 1
    BY <1>1, LatencyType
  <2>5. d \in 0 .. Size - 1 /\ d >= BufferLatency(b)
        /\ (~DelayLimited(b, delay) => d = BufferLatency(b) + delay)
    BY <2>4, Sizes, BufferAssumption, SMT DEF Least, DelayLimited
  <2> HIDE DEF n, d
  <2>6. /\ c \in BufferType /\ InStep(c) /\ TotalDelay(c) = d
        /\ BufferLatency(c) = BufferLatency(b) /\ SameRest(n, c)
    BY <2>1, <2>3, <2>5, Apply
  <2>7. NeverAhead(c) /\ (~DelayLimited(b, delay) => ComputeDelay(c) = delay)
    BY <2>4, <2>5, <2>6, Sizes, BufferAssumption, SMT DEF NeverAhead, ComputeDelay
  <2> QED
    BY <1>3, <2>2, <2>6, <2>7 DEF BufferInv, SameRest
<1> QED
  BY <1>2, <1>3

LEMMA ReportInv ==
    ASSUME NEW b, BufferInv(b), NEW ms \in Nat
    PROVE  LET c == SetAudioBufferDelay(b, ms)
           IN  /\ BufferInv(c) /\ c.external \in Nat /\ c.delay = b.delay
               /\ ComputeDelay(c) = ComputeDelay(b)
<1> DEFINE c == SetAudioBufferDelay(b, ms)
<1>1. b \in BufferType
  BY DEF BufferInv
<1>2. ms \div 4 \in Nat
  BY SMT
<1>3. /\ c \in BufferType /\ c.external \in Nat /\ c.delay = b.delay
      /\ c.blocks = b.blocks /\ c.spectra = b.spectra /\ c.ffts = b.ffts /\ c.low = b.low
  BY <1>1, <1>2 DEF SetAudioBufferDelay, BufferType
<1>4. ComputeDelay(c) = ComputeDelay(b)
  BY <1>3 DEF ComputeDelay, TotalDelay, BufferLatency
<1> QED
  BY <1>3, <1>4 DEF BufferInv, InStep, NeverAhead

LEMMA ConstructedInv ==
    /\ BufferInv(Constructed)
    /\ Constructed.delay = NoDelay /\ Constructed.external = NoDelay
    /\ BufferLatency(Constructed) = 1
<1> DEFINE start == [write |-> 0, read |-> 0]
           b == [blocks |-> start, spectra |-> start, ffts |-> start, low |-> start,
                 delay |-> DefaultDelay, external |-> NoDelay,
                 minLatency |-> 0, excessCount |-> 0]
<1>1. Constructed = Reset(b)
  BY DEF Constructed
<1>2. SubBlock * 0 = 0 /\ 0 \in 0 .. LowRateBlocks - 1 /\ 0 \in 0 .. Size - 1
      /\ 0 \in 0 .. ExcessInterval - 1 /\ DefaultDelay \in Nat
  BY BufferAssumption, Sizes, SMT
<1>3. start \in Ring(Size)
  BY <1>2 DEF Ring
<1>4. 0 \in {SubBlock * i : i \in 0 .. LowRateBlocks - 1}
  <2>1. 0 = SubBlock * 0
    BY <1>2
  <2> QED
    BY <1>2, <2>1
<1>5. b \in BufferType
  BY <1>2, <1>3, <1>4 DEF BufferType
<1>6. WritesInStep(b)
  <2>1. (0 + 0) % Size = 0
    BY Sizes, SMT
  <2> QED
    BY <1>5, <2>1 DEF WritesInStep
<1>7. b.external = NoDelay
  OBVIOUS
<1> HIDE DEF b
<1> QED
  BY <1>1, <1>6, <1>7, ResetInv
-----------------------------------------------------------------------------
(* The block processor.                                                    *)

\* A jump of the render blocks that the echo remover has not seen leaves a
\* buffer that is not aligned: the next estimate is a change.
JumpUnaligned == jumped /\ buffer.external = NoDelay => buffer.delay = NoDelay

BlockType == /\ renderEvent \in BOOLEAN
             /\ render_properly_started \in BOOLEAN
             /\ capture_properly_started \in BOOLEAN
             /\ controller \in Delays \cup {NoDelay}
             /\ limited \in BOOLEAN

BlockInv == /\ BlockType
            /\ BufferInv(buffer)
            /\ DelayIsApplied
            /\ JumpUnaligned
            /\ JumpsAreTold

LEMMA BInitInv == BInit => BlockInv
<1> SUFFICES ASSUME BInit PROVE BlockInv
  OBVIOUS
<1>1. BufferInv(buffer) /\ buffer.delay = NoDelay
  BY ConstructedInv DEF BInit
<1>2. BlockType
  BY DEF BInit, BlockType
<1>3. remover.estimate = NoDelay /\ ~jumped
  BY DEF BInit
<1> QED
  BY <1>1, <1>2, <1>3 DEF BlockInv, DelayIsApplied, JumpUnaligned, JumpsAreTold

LEMMA BufferRenderInv == BlockInv /\ BufferRender => BlockInv'
<1> SUFFICES ASSUME BlockInv, BufferRender PROVE BlockInv'
  OBVIOUS
<1>1. BufferInv(buffer) /\ BlockType /\ DelayIsApplied /\ JumpUnaligned /\ JumpsAreTold
  BY DEF BlockInv
<1>2. /\ buffer' = Insert(buffer)
      /\ renderEvent' = InsertOverruns(buffer)
      /\ limited' = (limited /\ ~InsertOverruns(buffer))
      /\ jumped' = (jumped \/ TotalDelay(buffer') # TotalDelay(buffer) + 1)
      /\ UNCHANGED <<capture_properly_started, controller, remover>>
      /\ render_properly_started' = TRUE
  BY DEF BufferRender
<1>3. BufferInv(buffer') /\ buffer'.external = buffer.external
  BY <1>1, <1>2, InsertInv
<1>4. BlockType'
  <2>1. InsertOverruns(buffer) \in BOOLEAN
    BY DEF InsertOverruns, RenderOverrun, RenderUnderrun
  <2> QED
    BY <1>1, <1>2, <2>1, Zenon DEF BlockType
<1>5. CASE InsertOverruns(buffer)
  <2>1. buffer'.delay = IF buffer.external = NoDelay THEN NoDelay ELSE ComputeDelay(buffer')
    BY <1>1, <1>2, <1>5, InsertInv
  <2> QED
    BY <1>1, <1>2, <1>3, <1>4, <2>1
    DEF BlockInv, DelayIsApplied, JumpUnaligned, JumpsAreTold
<1>6. CASE ~InsertOverruns(buffer)
  <2>1. /\ buffer'.delay = buffer.delay
        /\ TotalDelay(buffer') = TotalDelay(buffer) + 1
        /\ ComputeDelay(buffer') = ComputeDelay(buffer)
    BY <1>1, <1>2, <1>6, InsertInv
  <2> QED
    BY <1>1, <1>2, <1>3, <1>4, <1>6, <2>1
    DEF BlockInv, DelayIsApplied, JumpUnaligned, JumpsAreTold
<1> QED
  BY <1>5, <1>6

\* The buffer a capture block starts from: reset for the first one.
LEMMA StartedInv ==
    ASSUME BlockInv
    PROVE  /\ BufferInv(StartedBuffer)
           /\ StartedBuffer.external = buffer.external
           /\ StartedBuffer.delay # NoDelay /\ ~(limited /\ capture_properly_started)
                => ComputeDelay(StartedBuffer) = StartedBuffer.delay
           /\ buffer.external = NoDelay /\ StartedBuffer.delay # NoDelay
                => capture_properly_started
<1>1. BufferInv(buffer) /\ DelayIsApplied
  BY DEF BlockInv
<1>2. CASE capture_properly_started
  BY <1>1, <1>2 DEF StartedBuffer, DelayIsApplied
<1>3. CASE ~capture_properly_started
  <2>1. WritesInStep(buffer)
    BY <1>1 DEF BufferInv, WritesInStep, InStep
  <2>2. StartedBuffer = Reset(buffer)
    BY <1>3 DEF StartedBuffer
  <2> QED
    BY <1>3, <2>1, <2>2, ResetInv
<1> QED
  BY <1>2, <1>3

LEMMA ProcessCaptureInv ==
    ASSUME BlockInv, NEW estimate, ProcessCapture(estimate)
    PROVE  BlockInv' /\ buffer'.external = buffer.external
<1> DEFINE s == StartedBuffer
           p == PrepareCaptureProcessing(s)
           a == IF estimate # NoDelay THEN AlignFromDelay(p, estimate) ELSE p
<1>1. BlockType /\ BufferInv(buffer) /\ DelayIsApplied /\ JumpUnaligned
  BY DEF BlockInv
<1>2. /\ BufferInv(s) /\ s.external = buffer.external
      /\ s.delay # NoDelay /\ ~(limited /\ capture_properly_started)
            => ComputeDelay(s) = s.delay
      /\ buffer.external = NoDelay /\ s.delay # NoDelay => capture_properly_started
  BY StartedInv
<1>3. /\ capture_properly_started' = TRUE
      /\ renderEvent' = FALSE
      /\ controller' = estimate
      /\ buffer' = a
      /\ remover' = [estimate |-> estimate, told |-> Told(p, estimate),
                     jumped |-> jumped \/ TotalDelay(a) # TotalDelay(buffer) - 1,
                     underrun |-> Underruns(s)]
      /\ jumped' = FALSE
      /\ limited' = IF estimate # NoDelay /\ DelayChanges(p, estimate)
                    THEN DelayLimited(p, estimate)
                    ELSE limited /\ ~(~capture_properly_started \/ ExcessDetected(s))
      /\ UNCHANGED render_properly_started
      /\ estimate \in Estimates
  BY DEF ProcessCapture
<1>4. estimate \in Delays \cup {NoDelay} /\ (estimate # NoDelay => estimate \in Nat)
  BY <1>1, <1>3, DelaysAssumption DEF Estimates, Controller!Estimates, BlockType
<1>5. /\ BufferInv(p) /\ p.external = buffer.external
      /\ ExcessDetected(s) => p.delay = IF s.external = NoDelay THEN NoDelay
                                        ELSE ComputeDelay(p)
      /\ Underruns(s) => /\ p.delay = UnderrunDelay(s.delay)
                         /\ ComputeDelay(p) = UnderrunDelay(ComputeDelay(s))
      /\ ~ExcessDetected(s) /\ ~Underruns(s) =>
            /\ p.delay = s.delay /\ ComputeDelay(p) = ComputeDelay(s)
            /\ TotalDelay(p) = TotalDelay(s) - 1
  BY <1>2, PrepareInv
<1>6. BlockType'
  <2>1. limited' \in BOOLEAN
    <3>1. DelayLimited(p, estimate) \in BOOLEAN
      BY DEF DelayLimited
    <3> QED
      BY <1>1, <1>3, <3>1, Zenon DEF BlockType
  <2> QED
    BY <1>1, <1>3, <1>4, <2>1 DEF BlockType
<1> HIDE DEF s, p
<1>7. BufferInv(buffer') /\ buffer'.external = buffer.external
  <2>1. CASE estimate # NoDelay
    BY <1>3, <1>4, <1>5, <2>1, AlignInv
  <2>2. CASE estimate = NoDelay
    BY <1>3, <1>5, <2>2
  <2> QED
    BY <2>1, <2>2
<1>8. DelayIsApplied'
  <2>1. CASE estimate # NoDelay /\ DelayChanges(p, estimate)
    <3>1. /\ a.delay = estimate
          /\ ~DelayLimited(p, estimate) => ComputeDelay(a) = estimate
      BY <1>4, <1>5, <2>1, AlignInv
    <3> QED
      BY <1>3, <2>1, <3>1 DEF DelayIsApplied
  <2>2. CASE ~(estimate # NoDelay /\ DelayChanges(p, estimate))
    <3>1. a = p
      BY <1>4, <1>5, <2>2, AlignInv
    <3>2. limited' = (limited /\ capture_properly_started /\ ~ExcessDetected(s))
      BY <1>3, <2>2
    <3>3. ASSUME p.delay # NoDelay, ~limited'
          PROVE  ComputeDelay(p) = p.delay
      <4>1. CASE ExcessDetected(s)
        BY <1>5, <3>3, <4>1
      <4>2. CASE Underruns(s)
        <5>1. ~ExcessDetected(s)
          BY <4>2 DEF Underruns
        <5>2. s.delay # NoDelay
          BY <1>5, <3>3, <4>2, SMT DEF UnderrunDelay, NoDelay
        <5> QED
          BY <1>2, <1>5, <3>2, <3>3, <4>2, <5>1, <5>2
      <4>3. CASE ~ExcessDetected(s) /\ ~Underruns(s)
        BY <1>2, <1>5, <3>2, <3>3, <4>3
      <4> QED
        BY <4>1, <4>2, <4>3
    <3> QED
      BY <1>3, <3>1, <3>3 DEF DelayIsApplied
  <2> QED
    BY <2>1, <2>2
<1>9. JumpsAreTold'
  <2> SUFFICES ASSUME remover'.estimate # NoDelay, remover'.jumped, ~remover'.underrun,
                      buffer'.external = NoDelay
               PROVE  remover'.told \in {"newDelay", "flush"}
    BY DEF JumpsAreTold
  <2>1. estimate # NoDelay /\ ~Underruns(s) /\ buffer.external = NoDelay
    BY <1>3, <1>7
  <2>2. CASE DelayChanges(p, estimate)
    BY <1>3, <2>1, <2>2 DEF Told
  <2>3. CASE ~DelayChanges(p, estimate)
    <3>1. p.delay = estimate /\ a = p
      BY <1>4, <1>5, <2>1, <2>3, AlignInv DEF DelayChanges
    <3>2. ~ExcessDetected(s)
      BY <1>2, <1>5, <2>1, <3>1
    <3>3. s.delay = estimate /\ TotalDelay(p) = TotalDelay(s) - 1
      BY <1>5, <2>1, <3>1, <3>2
    <3>4. capture_properly_started
      BY <1>2, <2>1, <3>3
    <3>5. s = buffer
      BY <3>4 DEF s, StartedBuffer
    <3>6. jumped
      BY <1>3, <3>1, <3>3, <3>5
    <3> QED
      BY <1>1, <2>1, <3>3, <3>5, <3>6 DEF JumpUnaligned
  <2> QED
    BY <2>2, <2>3
<1> QED
  BY <1>3, <1>6, <1>7, <1>8, <1>9 DEF BlockInv, JumpUnaligned

LEMMA ReportDelayInv ==
    ASSUME BlockInv, NEW ms \in StreamDelays, ReportDelay(ms)
    PROVE  BlockInv'
<1>1. ms \in Nat
  BY DelaysAssumption
<1>2. /\ BlockType /\ BufferInv(buffer) /\ DelayIsApplied
      /\ buffer' = SetAudioBufferDelay(buffer, ms)
      /\ UNCHANGED <<renderEvent, render_properly_started, capture_properly_started,
                     controller, remover, limited, jumped>>
  BY DEF BlockInv, ReportDelay
<1>3. /\ BufferInv(buffer') /\ buffer'.external \in Nat /\ buffer'.delay = buffer.delay
      /\ ComputeDelay(buffer') = ComputeDelay(buffer)
  BY <1>1, <1>2, ReportInv
<1>4. buffer'.external # NoDelay
  BY <1>3, SMT DEF NoDelay
<1> QED
  BY <1>2, <1>3, <1>4 DEF BlockInv, BlockType, DelayIsApplied, JumpUnaligned, JumpsAreTold

LEMMA UnchangedInv == BlockInv /\ UNCHANGED bvars => BlockInv'
BY DEF BlockInv, bvars, BlockType, DelayIsApplied, JumpUnaligned, JumpsAreTold

LEMMA CaptureBlockInv ==
    BlockInv /\ CaptureBlock => BlockInv' /\ buffer'.external = buffer.external
BY ProcessCaptureInv, UnchangedInv DEF CaptureBlock, SkipCapture, bvars
-----------------------------------------------------------------------------
(* Frames and blocks.                                                      *)

Frame == 2 * Remainder        \* what a frame leaves over
BlockFrames == Block \div Frame   \* frames until the leftovers fill a block

LEMMA Framing == /\ Remainder \in Nat \ {0} /\ Frame \in Nat \ {0}
                 /\ Block \in Nat /\ BlockFrames \in Nat
                 /\ Block = Frame * BlockFrames
<1>1. Remainder \in Nat \ {0} /\ Frame \in Nat \ {0} /\ Block \in Nat
  BY FramingAssumption, SMT DEF Remainder, Frame
<1>2. Block % Frame = 0
  BY FramingAssumption DEF Frame, Remainder
<1> HIDE DEF Frame
<1>3. Block = Frame * (Block \div Frame) /\ Block \div Frame \in Nat
  BY <1>1, <1>2, SMT
<1> QED
  BY <1>1, <1>3 DEF BlockFrames

\* A blocker that is not full has room for a frame's leftovers.
LEMMA Room ==
    ASSUME NEW k \in 0 .. BlockFrames - 1
    PROVE  /\ Frame * k + Frame <= Block
           /\ Frame * (k + 1) = Frame * k + Frame
           /\ Frame * k \in Nat
           /\ Frame * k + Frame = Block => k + 1 = BlockFrames
           /\ Frame * k + Frame # Block => k + 1 \in 0 .. BlockFrames - 1
<1> DEFINE r == BlockFrames - 1 - k
<1>1. r \in Nat /\ k \in Nat /\ Frame \in Nat \ {0} /\ Block = Frame * BlockFrames
  BY Framing, SMT
<1>2. BlockFrames = k + 1 + r
  BY Framing, SMT
<1> HIDE DEF r, Frame, BlockFrames
<1>3. Frame * r \in Nat /\ Frame * k \in Nat
  BY <1>1, SMT
<1>4. Frame * (k + 1) = Frame * k + Frame
  BY <1>1, SMT
<1>5. Block = Frame * k + Frame + Frame * r
  BY <1>1, <1>2, SMT
<1>6. Frame * r = 0 <=> r = 0
  BY <1>1, SMT
<1> QED
  BY <1>1, <1>2, <1>3, <1>4, <1>5, <1>6, SMT

\* What a blocker holds when `part` sub-frames of a frame have been taken.
Holds(fill, part) == \E k \in 0 .. BlockFrames - 1 : fill = Frame * k + part * Remainder

Taken(second, rest) ==
    IF pc = second THEN 1 ELSE IF pc = rest THEN 2 ELSE 0

FramingInv == /\ pc \in Places
              /\ Holds(render_blocker, Taken("render_2", "render_rest"))
              /\ Holds(capture_blocker, Taken("capture_2", "capture_rest"))
              /\ output_framer = Block - capture_blocker
              /\ queue \in 0 .. QueueSize
              /\ dropped \in BOOLEAN

LEMMA HoldsFirst == ASSUME NEW fill, Holds(fill, 0)
                    PROVE /\ fill \in 0 .. Block - Frame
                          /\ Holds(fill + Remainder, 1)
<1>1. PICK k \in 0 .. BlockFrames - 1 : fill = Frame * k + 0 * Remainder
  BY DEF Holds
<1>2. Frame * k + Frame <= Block /\ Frame * k \in Nat
  BY Room
<1> DEFINE x == Frame * k
<1> HIDE DEF x
<1>3. x + Frame <= Block /\ x \in Nat /\ fill = x + 0 * Remainder
  BY <1>1, <1>2 DEF x
<1>4. fill = x /\ fill + Remainder = x + 1 * Remainder /\ fill \in 0 .. Block - Frame
  BY <1>3, Framing, SMT
<1> QED
  BY <1>4 DEF Holds, x

LEMMA HoldsSecond == ASSUME NEW fill, Holds(fill, 1)
                     PROVE /\ fill \in 0 .. Block - Remainder
                           /\ Holds(fill + Remainder, 2)
<1>1. PICK k \in 0 .. BlockFrames - 1 : fill = Frame * k + 1 * Remainder
  BY DEF Holds
<1>2. Frame * k + Frame <= Block /\ Frame * k \in Nat
  BY Room
<1> DEFINE x == Frame * k
<1> HIDE DEF x
<1>3. x + Frame <= Block /\ x \in Nat /\ fill = x + 1 * Remainder
  BY <1>1, <1>2 DEF x
<1>4. Frame = Remainder + Remainder
  BY Framing, SMT DEF Frame
<1>5. fill + Remainder = x + 2 * Remainder /\ fill \in 0 .. Block - Remainder
  BY <1>3, <1>4, Framing, SMT
<1> QED
  BY <1>5 DEF Holds, x

\* After a frame the blocker gives its block away or has room for the next frame.
LEMMA HoldsRest == ASSUME NEW fill, Holds(fill, 2)
                   PROVE /\ fill \in 0 .. Block
                         /\ Holds(0, 0)
                         /\ ~IsBlockAvailable(fill) => Holds(fill, 0)
<1>1. PICK k \in 0 .. BlockFrames - 1 : fill = Frame * k + 2 * Remainder
  BY DEF Holds
<1>2. /\ Frame * k + Frame <= Block /\ Frame * k \in Nat
      /\ Frame * (k + 1) = Frame * k + Frame
      /\ Frame * k + Frame # Block => k + 1 \in 0 .. BlockFrames - 1
  BY Room
<1>3. fill = Frame * k + Frame
  BY <1>1, Framing DEF Frame
<1>4. 0 \in 0 .. BlockFrames - 1 /\ Frame * 0 + 0 * Remainder = 0
  BY <1>1, Framing, SMT
<1>5. fill \in 0 .. Block
  <2> DEFINE x == Frame * k
  <2> HIDE DEF x
  <2> QED
    BY <1>2, <1>3, Framing, SMT DEF x
<1>6. ASSUME ~IsBlockAvailable(fill) PROVE Holds(fill, 0)
  <2>1. k + 1 \in 0 .. BlockFrames - 1
    BY <1>2, <1>3, <1>6 DEF IsBlockAvailable
  <2>2. fill = Frame * (k + 1) + 0 * Remainder
    <3> DEFINE x == Frame * (k + 1)
    <3>1. fill = x /\ x \in Nat
      BY <1>2, <1>3, <1>5
    <3> HIDE DEF x
    <3> QED
      BY <3>1, Framing, SMT DEF x
  <2> QED
    BY <2>1, <2>2 DEF Holds
<1> QED
  BY <1>4, <1>5, <1>6 DEF Holds

LEMMA FramingInit == Init => FramingInv
<1> SUFFICES ASSUME Init PROVE FramingInv
  OBVIOUS
<1>1. BlockFrames \in Nat \ {0}
  <2> HIDE DEF BlockFrames
  <2>1. CASE BlockFrames = 0
    BY <2>1, Framing, FramingAssumption, SMT
  <2> QED
    BY <2>1, Framing
<1>2. Holds(0, 0)
  <2>1. 0 \in 0 .. BlockFrames - 1 /\ Frame * 0 + 0 * Remainder = 0
    BY <1>1, Framing, SMT
  <2> QED
    BY <2>1 DEF Holds
<1>3. Block - 0 = Block /\ 0 \in 0 .. QueueSize
  BY FramingAssumption, SMT
<1> QED
  BY <1>2, <1>3 DEF Init, FramingInv, Taken, Places

LEMMA FramingNext == FramingInv /\ [Next]_vars => FramingInv'
<1> SUFFICES ASSUME FramingInv, [Next]_vars PROVE FramingInv'
  OBVIOUS
<1>0. /\ pc \in Places
      /\ Holds(render_blocker, Taken("render_2", "render_rest"))
      /\ Holds(capture_blocker, Taken("capture_2", "capture_rest"))
      /\ output_framer = Block - capture_blocker
      /\ queue \in 0 .. QueueSize
      /\ dropped \in BOOLEAN
      /\ QueueSize \in Nat \ {0}
  BY FramingAssumption DEF FramingInv
<1>1. CASE AnalyzeRender
  <2>1. queue' \in 0 .. QueueSize
    BY <1>0, <1>1, SMT DEF AnalyzeRender, Accepted
  <2>2. dropped' \in BOOLEAN
    BY <1>1 DEF AnalyzeRender
  <2> QED
    BY <1>0, <1>1, <2>1, <2>2 DEF FramingInv, Taken, AnalyzeRender
<1>2. CASE \E ms \in StreamDelays : SetAudioBufferDelay3(ms)
  BY <1>0, <1>2 DEF FramingInv, SetAudioBufferDelay3, evars, Taken
<1>3. CASE CaptureCall
  BY <1>0, <1>3 DEF FramingInv, CaptureCall, Taken, Goto, Places
<1>4. CASE RemoveFrame
  <2>1. queue' \in 0 .. QueueSize
    BY <1>0, <1>4, SMT DEF RemoveFrame
  <2> QED
    BY <1>0, <1>4, <2>1 DEF FramingInv, RemoveFrame, Taken, Goto, Places
<1>5. CASE QueueEmpty
  BY <1>0, <1>5 DEF FramingInv, QueueEmpty, Taken, Goto, Places
<1>6. CASE BufferSubFrame
  <2>1. CASE pc = "render_1"
    BY <1>0, <1>6, <2>1, HoldsFirst DEF FramingInv, BufferSubFrame, Taken, Goto, Places
  <2>2. CASE pc = "render_2"
    BY <1>0, <1>6, <2>2, HoldsSecond DEF FramingInv, BufferSubFrame, Taken, Goto, Places
  <2> QED
    BY <1>6, <2>1, <2>2 DEF BufferSubFrame, Goto
<1>7. CASE BufferRemaining
  <2>1. Holds(render_blocker, 2)
    BY <1>0, <1>7 DEF BufferRemaining, Taken, Goto
  <2>2. Holds(render_blocker', 0)
    BY <1>7, <2>1, HoldsRest DEF BufferRemaining
  <2> QED
    BY <1>0, <1>7, <2>2 DEF FramingInv, BufferRemaining, Taken, Goto, Places
<1>8. CASE ProcessSubFrame
  <2>1. output_framer' = Block - capture_blocker'
    <3>1. capture_blocker \in Int
      <4>1. Holds(capture_blocker, 0) \/ Holds(capture_blocker, 1)
        BY <1>0, <1>8 DEF ProcessSubFrame, Taken, Goto
      <4>2. \A fill : fill \in 0 .. Block - Frame \/ fill \in 0 .. Block - Remainder
                        => fill \in Int
        BY Framing, SMT
      <4> QED
        BY <4>1, <4>2, HoldsFirst, HoldsSecond
    <3>2. /\ output_framer = Block - capture_blocker
          /\ capture_blocker' = capture_blocker + Remainder
          /\ output_framer' = output_framer - Remainder
      BY <1>0, <1>8 DEF ProcessSubFrame
    <3> QED
      BY <3>1, <3>2, Framing, SMT
  <2>2. CASE pc = "capture_1"
    BY <1>0, <1>8, <2>1, <2>2, HoldsFirst
    DEF FramingInv, ProcessSubFrame, Taken, Goto, Places
  <2>3. CASE pc = "capture_2"
    BY <1>0, <1>8, <2>1, <2>3, HoldsSecond
    DEF FramingInv, ProcessSubFrame, Taken, Goto, Places
  <2> QED
    BY <1>8, <2>2, <2>3 DEF ProcessSubFrame, Goto
<1>9. CASE ProcessRemaining
  <2>1. Holds(capture_blocker, 2)
    BY <1>0, <1>9 DEF ProcessRemaining, Taken, Goto
  <2>2. Holds(capture_blocker', 0)
    BY <1>9, <2>1, HoldsRest DEF ProcessRemaining
  <2>3. output_framer' = Block - capture_blocker'
    <3>1. CASE IsBlockAvailable(capture_blocker)
      <4>1. capture_blocker = Block /\ capture_blocker' = 0
            /\ output_framer' = output_framer + Block
        BY <1>9, <3>1 DEF ProcessRemaining, IsBlockAvailable
      <4> QED
        BY <1>0, <4>1, Framing, SMT
    <3>2. CASE ~IsBlockAvailable(capture_blocker)
      BY <1>0, <1>9, <3>2 DEF ProcessRemaining
    <3> QED
      BY <3>1, <3>2
  <2> QED
    BY <1>0, <1>9, <2>2, <2>3 DEF FramingInv, ProcessRemaining, Taken, Goto, Places
<1>10. CASE UNCHANGED vars
  BY <1>0, <1>10 DEF FramingInv, vars, evars, Taken
<1> QED
  BY <1>1, <1>2, <1>3, <1>4, <1>5, <1>6, <1>7, <1>8, <1>9, <1>10 DEF Next, Capture
-----------------------------------------------------------------------------
(* The canceller.                                                          *)

IInv == BlockInv /\ FramingInv

LEMMA BlockNext == BlockInv /\ [Next]_vars => BlockInv'
<1> SUFFICES ASSUME BlockInv, [Next]_vars PROVE BlockInv'
  OBVIOUS
<1>1. \/ UNCHANGED bvars \/ BufferRender \/ CaptureBlock
      \/ \E ms \in StreamDelays : ReportDelay(ms)
  BY DEF Next, Capture, vars, AnalyzeRender, CaptureCall, RemoveFrame, QueueEmpty,
         BufferSubFrame, BufferRemaining, ProcessSubFrame, ProcessRemaining,
         SetAudioBufferDelay3
<1> QED
  BY <1>1, UnchangedInv, BufferRenderInv, CaptureBlockInv, ReportDelayInv

THEOREM Invariant == Spec => []IInv
<1>1. Init => IInv
  BY BInitInv, FramingInit DEF Init, IInv
<1>2. IInv /\ [Next]_vars => IInv'
  BY BlockNext, FramingNext DEF IInv
<1> QED
  BY <1>1, <1>2, PTL DEF Spec

\* Every part of the canceller keeps its range, whatever the sizes: indices stay
\* inside their buffers, blockers and framer never hold more than a block.
THEOREM TypeCorrect == Spec => []TypeOK
<1>1. IInv => TypeOK
  <2> SUFFICES ASSUME IInv PROVE TypeOK
    OBVIOUS
  <2>1. BlockType /\ buffer \in BufferType /\ FramingInv
    BY DEF IInv, BlockInv, BufferInv
  <2>2. \A fill : Holds(fill, 0) \/ Holds(fill, 1) \/ Holds(fill, 2) => fill \in 0 .. Block
    <3>1. \A fill : Holds(fill, 0) => fill \in 0 .. Block
      BY HoldsFirst, Framing, SMT
    <3>2. \A fill : Holds(fill, 1) => fill \in 0 .. Block
      BY HoldsSecond, Framing, SMT
    <3> QED
      BY <3>1, <3>2, HoldsRest
  <2>3. render_blocker \in 0 .. Block /\ capture_blocker \in 0 .. Block
    BY <2>1, <2>2 DEF FramingInv, Taken
  <2>4. output_framer \in 0 .. Block
    <3>1. output_framer = Block - capture_blocker
      BY <2>1 DEF FramingInv
    <3> QED
      BY <2>3, <3>1, Framing, SMT
  <2> QED
    BY <2>1, <2>3, <2>4 DEF TypeOK, BlockType, FramingInv
<1> QED
  BY <1>1, Invariant, PTL

\* Samples, spectra, transforms and the decimated signal are written and read at
\* the same block after any bursts of render and capture calls.
THEOREM InStepAlways == Spec => []IndicesInStep
<1>1. IInv => IndicesInStep
  BY DEF IInv, BlockInv, BufferInv, IndicesInStep
<1> QED
  BY <1>1, Invariant, PTL

\* The capture side never reads ahead of the decimated signal.
THEOREM NeverNegative == Spec => []DelayNotNegative
<1>1. IInv => DelayNotNegative
  BY DEF IInv, BlockInv, BufferInv, DelayNotNegative
<1> QED
  BY <1>1, Invariant, PTL

\* The buffer is aligned to the delay it says, for every sequence of estimates,
\* overruns, underruns and resets.
THEOREM DelayApplied == Spec => []DelayIsApplied
<1>1. IInv => DelayIsApplied
  BY DEF IInv, BlockInv
<1> QED
  BY <1>1, Invariant, PTL

\* Without a delay told by the sound card, the echo remover is told of every jump
\* of the render blocks but those of an underrun.
THEOREM JumpsTold == Spec => []JumpsAreTold
<1>1. IInv => JumpsAreTold
  BY DEF IInv, BlockInv
<1> QED
  BY <1>1, Invariant, PTL

\* Frames go through the blockers and the framer without running over or dry.
THEOREM FramingStep == Spec => []FramingKeepsStep
<1>1. FramingInv => FramingKeepsStep
  <2> SUFFICES ASSUME FramingInv PROVE FramingKeepsStep
    OBVIOUS
  <2>0. /\ Remainder \in Nat \ {0} /\ Block \in Nat
        /\ Frame \in Nat \ {0} /\ Frame = Remainder + Remainder
    <3>1. Remainder \in Nat \ {0} /\ Block \in Nat /\ Frame \in Nat \ {0}
      BY Framing
    <3> QED
      BY <3>1, SMT DEF Frame
  <2>1. \A fill : Holds(fill, 0) => fill \in 0 .. Block - Remainder /\ fill < Block
    <3>1. ASSUME NEW fill, Holds(fill, 0)
          PROVE  fill \in 0 .. Block - Remainder /\ fill < Block
      <4>1. fill \in 0 .. Block - Frame
        BY <3>1, HoldsFirst
      <4> QED
        BY <2>0, <4>1, SMT
    <3> QED
      BY <3>1
  <2>2. \A fill : Holds(fill, 1) => fill \in 0 .. Block - Remainder
    BY HoldsSecond
  <2>3. /\ Holds(render_blocker, Taken("render_2", "render_rest"))
        /\ Holds(capture_blocker, Taken("capture_2", "capture_rest"))
        /\ output_framer = Block - capture_blocker
    BY DEF FramingInv
  <2>4. pc \in {"capture_1", "capture_2"} => capture_blocker \in 0 .. Block - Remainder
    BY <2>1, <2>2, <2>3 DEF Taken
  <2>5. pc \in {"render_1", "render_2"} => render_blocker \in 0 .. Block - Remainder
    BY <2>1, <2>2, <2>3 DEF Taken
  <2>6. pc \in {"idle", "empty"} => render_blocker < Block /\ capture_blocker < Block
    BY <2>1, <2>3 DEF Taken
  <2>7. capture_blocker \in Int
    <3>1. Holds(capture_blocker, 0) \/ Holds(capture_blocker, 1) \/ Holds(capture_blocker, 2)
      BY <2>3 DEF Taken
    <3>2. \A fill : fill \in 0 .. Block - Remainder \/ fill \in 0 .. Block => fill \in Int
      BY <2>0, SMT
    <3> QED
      BY <2>1, <2>2, <3>1, <3>2, HoldsRest
  <2>8. capture_blocker + output_framer = Block
    BY <2>0, <2>3, <2>7, SMT
  <2>9. pc \in {"capture_1", "capture_2"} => output_framer >= Remainder
                                             /\ capture_blocker <= Block - Remainder
    BY <2>0, <2>3, <2>4, SMT
  <2>10. pc \in {"render_1", "render_2"} => render_blocker <= Block - Remainder
    BY <2>0, <2>5, SMT
  <2> QED
    BY <2>6, <2>8, <2>9, <2>10 DEF FramingKeepsStep
<1> QED
  BY <1>1, Invariant, PTL DEF IInv
-----------------------------------------------------------------------------
(* Dropped frames.  The constants are such that what a full queue holds     *)
(* makes the decimated signal overrun, and that an alignment after a reset  *)
(* is shorter than the buffer: 2 * 100 frames for a signal of 153 blocks,   *)
(* a default delay of 5 blocks, and no more than 500 ms or 125 blocks told. *)

QueueOutlastsBuffer ==
    /\ LowRateBlocks <= 2 * QueueSize
    /\ DefaultDelay < LowRateBlocks
    /\ \A ms \in StreamDelays : ms \div 4 < LowRateBlocks + 2

ToldIsShort == buffer.external < LowRateBlocks + 2

\* Blocks that the frame taken out last has yet to give, the rest apart.
BlocksDue == IF pc = "render_1" THEN 2 ELSE IF pc = "render_2" THEN 1 ELSE 0

\* A refusal leaves a full queue behind; unless the blocks have jumped since,
\* what of it is still to come is more than the decimated signal has room for.
DropsPending ==
    dropped => IF pc \in {"empty", "render_1", "render_2", "render_rest"}
               THEN jumped \/ BufferLatency(buffer) + 2 * queue + BlocksDue
                                 >= LowRateBlocks
               ELSE queue = QueueSize

\* An overrun starts the buffer anew at a delay it did not stand at.
LEMMA OverrunJumps ==
    ASSUME NEW b, BufferInv(b), InsertOverruns(b), DefaultDelay < LowRateBlocks,
           b.external < LowRateBlocks + 2
    PROVE  TotalDelay(Insert(b)) # TotalDelay(b) + 1
<1> DEFINE c == IncrementWriteIndices(b)
<1>1. WritesInStep(c) /\ SameRest(b, c) /\ TotalDelay(b) + 1 >= LowRateBlocks
  BY WriteInv DEF InsertOverruns
<1>2. Insert(b) = Reset(c) /\ c.external = b.external
  BY <1>1 DEF Insert, InsertOverruns, SameRest
<1>3. TotalDelay(Insert(b)) = IF b.external # NoDelay THEN ExternalStart(c)
                              ELSE DefaultDelay
  BY <1>1, <1>2, ResetInv
<1>4. b.external \in Nat \cup {NoDelay}
  BY DEF BufferInv, BufferType
<1>5. ExternalStart(c) = IF b.external <= 2 THEN 1 ELSE Least(b.external - 2, MaxDelay)
  BY <1>2 DEF ExternalStart
<1>6. b.external # NoDelay => ExternalStart(c) < LowRateBlocks
  BY <1>4, <1>5, Sizes, BufferAssumption, SMT DEF Least
<1>7. TotalDelay(b) \in Nat
  BY TotalType, Sizes, SMT DEF BufferInv
<1> HIDE DEF c
<1> QED
  BY <1>1, <1>3, <1>6, <1>7, BufferAssumption, SMT

\* A render block that does not jump is one block more of latency.
LEMMA RenderBlockCounts ==
    ASSUME QueueOutlastsBuffer, BlockInv, ToldIsShort, BufferRender, ~jumped'
    PROVE  ~jumped /\ BufferLatency(buffer') = BufferLatency(buffer) + 1
<1>1. /\ buffer' = Insert(buffer) /\ BufferInv(buffer)
      /\ jumped' = (jumped \/ TotalDelay(buffer') # TotalDelay(buffer) + 1)
  BY DEF BufferRender, BlockInv
<1>2. ~InsertOverruns(buffer)
  BY <1>1, OverrunJumps DEF QueueOutlastsBuffer, ToldIsShort
<1>3. ~RenderOverrun(IncrementWriteIndices(buffer))
  BY <1>2 DEF InsertOverruns
<1>4. Insert(buffer) = IncrementWriteIndices(buffer)
  BY <1>2 DEF Insert
<1> QED
  BY <1>1, <1>3, <1>4, WriteInv

\* What the sound card told is only replaced by what it tells next.
LEMMA ToldStaysShort ==
    ASSUME QueueOutlastsBuffer, BlockInv, ToldIsShort, [Next]_vars
    PROVE  ToldIsShort'
<1>1. BufferInv(buffer) /\ buffer \in BufferType
  BY DEF BlockInv, BufferInv
<1>2. CASE UNCHANGED bvars
  BY <1>2 DEF bvars, ToldIsShort
<1>3. CASE BufferRender
  BY <1>1, <1>3, InsertInv DEF BufferRender, ToldIsShort
<1>4. CASE CaptureBlock
  BY <1>4, CaptureBlockInv DEF ToldIsShort
<1>5. CASE \E ms \in StreamDelays : ReportDelay(ms)
  <2>1. PICK ms \in StreamDelays : ReportDelay(ms)
    BY <1>5
  <2>2. buffer'.external = ms \div 4
    BY <1>1, <2>1 DEF ReportDelay, SetAudioBufferDelay, BufferType
  <2> QED
    BY <2>2 DEF QueueOutlastsBuffer, ToldIsShort
<1> QED
  BY <1>2, <1>3, <1>4, <1>5
  DEF Next, Capture, vars, AnalyzeRender, CaptureCall, RemoveFrame, QueueEmpty,
      BufferSubFrame, BufferRemaining, ProcessSubFrame, ProcessRemaining,
      SetAudioBufferDelay3

\* No frame taken out of the queue is forgotten before it is in the buffer.
LEMMA DropsStayPending ==
    ASSUME QueueOutlastsBuffer, IInv, ToldIsShort, DropsPending, [Next]_vars
    PROVE  DropsPending'
<1>1. /\ BlockInv /\ buffer \in BufferType /\ pc \in Places
      /\ queue \in 0 .. QueueSize /\ QueueSize \in Nat \ {0} /\ LowRateBlocks \in Nat
      /\ BufferLatency(buffer) \in 0 .. LowRateBlocks - 1
  BY LatencyType, FramingAssumption, BufferAssumption
  DEF IInv, BlockInv, BufferInv, FramingInv
<1>2. LowRateBlocks <= 2 * QueueSize
  BY DEF QueueOutlastsBuffer
<1> DEFINE Pending == jumped \/ BufferLatency(buffer) + 2 * queue + BlocksDue
                                   >= LowRateBlocks
           Emptying == pc \in {"empty", "render_1", "render_2", "render_rest"}
<1>3. /\ dropped /\ Emptying => Pending
      /\ dropped /\ ~Emptying => queue = QueueSize
  BY DEF DropsPending
<1>4. BlocksDue \in Nat
  BY SMT DEF BlocksDue
<1>5. queue = QueueSize => Pending
  BY <1>1, <1>2, <1>4, SMT
<1>6. CASE AnalyzeRender
  <2>1. /\ UNCHANGED <<buffer, jumped, pc>>
        /\ queue' = queue + Accepted /\ dropped' = (dropped \/ Accepted = 0)
    BY <1>6 DEF AnalyzeRender, bvars
  <2>2. CASE queue < QueueSize
    <3>1. queue' = queue + 1 /\ (dropped' <=> dropped)
      <4>1. Accepted = 1 /\ 1 # 0
        BY <2>2, SMT DEF Accepted
      <4>2. queue' = queue + 1
        BY <2>1, <4>1
      <4>3. dropped' <=> dropped
        BY <2>1, <4>1, Zenon
      <4> QED
        BY <4>2, <4>3
    <3>2. Pending => Pending'
      BY <1>1, <1>4, <2>1, <3>1, SMT DEF BlocksDue
    <3>3. dropped => Emptying
      BY <1>1, <1>3, <2>2, SMT
    <3> QED
      BY <1>3, <2>1, <3>1, <3>2, <3>3 DEF DropsPending
  <2>3. CASE ~(queue < QueueSize)
    <3>1. queue = QueueSize /\ queue' = QueueSize
      BY <1>1, <2>1, <2>3, SMT DEF Accepted
    <3>2. Pending'
      BY <1>5, <2>1, <3>1 DEF BlocksDue
    <3> QED
      BY <3>1, <3>2 DEF DropsPending
  <2> QED
    BY <2>2, <2>3
<1>7. CASE \E ms \in StreamDelays : SetAudioBufferDelay3(ms)
  BY <1>7 DEF SetAudioBufferDelay3, DropsPending, evars
<1>8. CASE CaptureCall
  <2>1. /\ UNCHANGED <<buffer, jumped, queue, dropped>> /\ pc = "idle" /\ pc' = "empty"
    BY <1>8 DEF CaptureCall, Goto, bvars
  <2>2. BlocksDue = 0 /\ BlocksDue' = 0
    BY <2>1 DEF BlocksDue
  <2> QED
    BY <1>3, <1>5, <2>1, <2>2 DEF DropsPending
<1>9. CASE RemoveFrame
  <2>1. /\ UNCHANGED <<buffer, jumped, dropped>> /\ pc = "empty" /\ pc' = "render_1"
        /\ queue' = queue - 1
    BY <1>9 DEF RemoveFrame, Goto, bvars
  <2>2. BlocksDue = 0 /\ BlocksDue' = 2
    BY <2>1 DEF BlocksDue
  <2>3. Pending => Pending'
    BY <1>1, <2>1, <2>2, SMT
  <2> QED
    BY <1>3, <2>1, <2>3 DEF DropsPending
<1>10. CASE QueueEmpty
  BY <1>10 DEF QueueEmpty, DropsPending
<1>11. CASE BufferSubFrame
  <2>1. /\ BufferRender /\ UNCHANGED <<queue, dropped>>
        /\ \/ pc = "render_1" /\ pc' = "render_2"
           \/ pc = "render_2" /\ pc' = "render_rest"
    BY <1>11 DEF BufferSubFrame, Goto
  <2>2. BlocksDue' = BlocksDue - 1
    BY <2>1, SMT DEF BlocksDue
  <2>3. Pending => Pending'
    <3>1. SUFFICES ASSUME Pending, ~jumped' PROVE Pending'
      OBVIOUS
    <3>2. ~jumped /\ BufferLatency(buffer') = BufferLatency(buffer) + 1
      BY <1>1, <2>1, <3>1, RenderBlockCounts
    <3> QED
      BY <1>1, <1>4, <2>1, <2>2, <3>1, <3>2, SMT
  <2> QED
    BY <1>3, <2>1, <2>3 DEF DropsPending
<1>12. CASE BufferRemaining
  <2>1. /\ UNCHANGED <<queue, dropped>> /\ pc = "render_rest" /\ pc' = "empty"
        /\ BufferRender \/ UNCHANGED <<buffer, jumped>>
    BY <1>12 DEF BufferRemaining, Goto, bvars
  <2>2. BlocksDue = 0 /\ BlocksDue' = 0
    BY <2>1 DEF BlocksDue
  <2>3. Pending => Pending'
    <3>1. SUFFICES ASSUME Pending, ~jumped' PROVE Pending'
      OBVIOUS
    <3>2. CASE BufferRender
      <4>1. ~jumped /\ BufferLatency(buffer') = BufferLatency(buffer) + 1
        BY <1>1, <3>1, <3>2, RenderBlockCounts
      <4> QED
        BY <1>1, <2>1, <2>2, <3>1, <4>1, SMT
    <3> QED
      BY <2>1, <2>2, <3>1, <3>2
  <2> QED
    BY <1>3, <2>1, <2>3 DEF DropsPending
<1>13. CASE ProcessSubFrame \/ ProcessRemaining
  <2>1. /\ UNCHANGED <<queue, dropped>>
        /\ pc \in {"capture_1", "capture_2", "capture_rest"}
        /\ pc' \in {"capture_2", "capture_rest", "idle"}
    BY <1>13 DEF ProcessSubFrame, ProcessRemaining, Goto
  <2> QED
    BY <1>3, <2>1 DEF DropsPending
<1>14. CASE UNCHANGED vars
  BY <1>14 DEF vars, evars, bvars, DropsPending, BlocksDue
<1> QED
  BY <1>6, <1>7, <1>8, <1>9, <1>10, <1>11, <1>12, <1>13, <1>14 DEF Next, Capture

\* Frames that a full queue refused are noticed: before the capture call that
\* empties the queue goes on to its own frame, the render delay buffer has
\* started anew, whatever was in the buffer, whatever the sound card told and
\* however often the queue was refilled while it was emptied.
THEOREM DropsNoticed ==
    ASSUME QueueOutlastsBuffer PROVE Spec => DropsAreNoticed
<1> DEFINE DInv == IInv /\ ToldIsShort /\ DropsPending
<1>1. Init => ToldIsShort /\ DropsPending
  <2>1. ASSUME Init PROVE ToldIsShort
    <3>1. buffer.external = NoDelay
      BY <2>1, ConstructedInv DEF Init, BInit
    <3> QED
      BY <3>1, BufferAssumption, SMT DEF ToldIsShort, NoDelay
  <2> QED
    BY <2>1 DEF Init, DropsPending
<1>2. IInv /\ ToldIsShort /\ DropsPending /\ [Next]_vars => ToldIsShort' /\ DropsPending'
  BY ToldStaysShort, DropsStayPending DEF IInv
<1>3. IInv /\ DropsPending => (QueueEmpty /\ dropped => jumped)
  <2> SUFFICES ASSUME IInv, DropsPending, QueueEmpty, dropped PROVE jumped
    OBVIOUS
  <2>1. pc = "empty" /\ queue = 0
    BY DEF QueueEmpty, Goto
  <2>2. jumped \/ BufferLatency(buffer) + 2 * queue + BlocksDue >= LowRateBlocks
    BY <2>1 DEF DropsPending
  <2>3. BlocksDue = 0 /\ LowRateBlocks \in Nat
    BY <2>1, BufferAssumption DEF BlocksDue
  <2>4. BufferLatency(buffer) \in 0 .. LowRateBlocks - 1
    BY LatencyType DEF IInv, BlockInv, BufferInv
  <2> QED
    BY <2>1, <2>2, <2>3, <2>4, SMT
<1> QED
  BY <1>1, <1>2, <1>3, Invariant, PTL DEF Spec, DropsAreNoticed
-----------------------------------------------------------------------------
(* The excess of render blocks: all of LatencyRecovers but that the sound  *)
(* card keeps asking for capture frames.                                   *)

\* Capture blocks until the least latency since the last count is known to
\* exceed what is allowed: this interval's and, if the least latency before was
\* within it, the next one's.
ExcessLeft(b) == ExcessInterval - b.excessCount
                   + (IF b.minLatency <= MaxExcess THEN ExcessInterval ELSE 0)

InExcess(b) == BufferLatency(b) > MaxExcess

\* There are at most two intervals to wait, and a buffer in excess is one whose
\* capture blocks are processed and counted.
ExcessBounded == /\ ExcessLeft(buffer) \in 1 .. 2 * ExcessInterval
                 /\ InExcess(buffer) => render_properly_started

BlockProcessed == \E estimate \in Delays \cup {NoDelay} : ProcessCapture(estimate)

\* While the latency goes on exceeding what is allowed each capture block leaves
\* one less to wait for, and nothing the render side, the sound card or the delay
\* controller does in between takes that back.
LatencyApproaches ==
    [][InExcess(buffer) /\ InExcess(buffer') =>
         IF BlockProcessed THEN ExcessLeft(buffer') = ExcessLeft(buffer) - 1
         ELSE ExcessLeft(buffer') = ExcessLeft(buffer)]_vars

\* A buffer that started anew is not in excess.
LEMMA ResetEndsExcess == ASSUME NEW b, WritesInStep(b) PROVE ~InExcess(Reset(b))
<1>1. BufferLatency(Reset(b)) = 1
  BY ResetInv
<1> QED
  BY <1>1, BufferAssumption, SMT DEF InExcess

\* The count that a capture block makes.
LEMMA CountsDown ==
    ASSUME NEW b \in BufferType, InExcess(b), ~ExcessDetected(b)
    PROVE  ExcessLeft(CountLatency(b)) = ExcessLeft(b) - 1
<1>1. BufferLatency(b) \in Nat /\ BufferLatency(b) > MaxExcess
  BY LatencyType, BufferAssumption, SMT DEF InExcess
<1>2. b.minLatency \in Nat /\ b.excessCount \in 0 .. ExcessInterval - 1
  BY BufferAssumption, SMT DEF BufferType
<1>3. SeenLatency(b) <= MaxExcess <=> b.minLatency <= MaxExcess
  BY <1>1, <1>2, BufferAssumption, SMT DEF SeenLatency, Least
<1>4. CASE IntervalEnds(b)
  <2>1. /\ CountLatency(b).minLatency = BufferLatency(b)
        /\ CountLatency(b).excessCount = 0
    BY <1>4 DEF CountLatency, BufferType
  <2>2. b.excessCount = ExcessInterval - 1
    BY <1>2, <1>4, BufferAssumption, SMT DEF IntervalEnds
  <2>3. b.minLatency <= MaxExcess
    <3>1. ~(SeenLatency(b) > MaxExcess) /\ SeenLatency(b) \in Nat
      BY <1>1, <1>2, <1>4 DEF ExcessDetected, SeenLatency, Least
    <3> QED
      BY <1>3, <3>1, BufferAssumption, SMT
  <2> QED
    BY <1>1, <2>1, <2>2, <2>3, BufferAssumption, SMT DEF ExcessLeft
<1>5. CASE ~IntervalEnds(b)
  <2>1. /\ CountLatency(b).minLatency = SeenLatency(b)
        /\ CountLatency(b).excessCount = b.excessCount + 1
    BY <1>5 DEF CountLatency, BufferType
  <2> QED
    BY <1>2, <1>3, <2>1, BufferAssumption, SMT DEF ExcessLeft
<1> QED
  BY <1>4, <1>5

\* What a capture block does to an excess before it aligns the buffer.
LEMMA PrepareExcess ==
    ASSUME NEW b, BufferInv(b), NEW c, c = PrepareCaptureProcessing(b), InExcess(c)
    PROVE  InExcess(b) /\ ExcessLeft(c) = ExcessLeft(b) - 1
<1> DEFINE n == CountLatency(b)
           m == IncrementReadIndices(n)
<1>1. b \in BufferType /\ InStep(b)
  BY DEF BufferInv
<1>2. /\ n \in BufferType
      /\ n.blocks = b.blocks /\ n.spectra = b.spectra /\ n.ffts = b.ffts
      /\ n.low = b.low
  BY <1>1, CountInv
<1>3. InStep(n) /\ BufferLatency(n) = BufferLatency(b)
  BY <1>1, <1>2 DEF InStep, BufferLatency
<1>4. m \in BufferType /\ SameRest(n, m) /\ m.low = n.low
  BY <1>2, <1>3, ReadInv
<1>5. BufferLatency(m) = BufferLatency(b)
  BY <1>3, <1>4 DEF BufferLatency
<1>6. ~ExcessDetected(b)
  <2> SUFFICES ASSUME ExcessDetected(b) PROVE FALSE
    OBVIOUS
  <2>1. c = Reset(n)
    BY DEF PrepareCaptureProcessing
  <2>2. WritesInStep(n)
    BY <1>2, <1>3 DEF WritesInStep, InStep
  <2> QED
    BY <2>1, <2>2, ResetEndsExcess
<1>7. ~Underruns(b)
  <2> SUFFICES ASSUME Underruns(b) PROVE FALSE
    OBVIOUS
  <2>1. c = [m EXCEPT !.delay = UnderrunDelay(@)]
    BY <1>6 DEF PrepareCaptureProcessing
  <2> HIDE DEF m
  <2>2. c.low = m.low
    BY <1>4, <2>1 DEF BufferType
  <2>3. BufferLatency(c) = BufferLatency(b)
    BY <1>5, <2>2 DEF BufferLatency
  <2>4. BufferLatency(b) = 0
    BY <1>1, LatencyType DEF Underruns
  <2> QED
    BY <2>3, <2>4, BufferAssumption, SMT DEF InExcess
<1>8. c = IncrementLowRateReadIndices(m)
  BY <1>6, <1>7 DEF PrepareCaptureProcessing
<1>9. ~RenderUnderrun(m)
  BY <1>2, <1>4, <1>6, <1>7 DEF Underruns, RenderUnderrun
<1>10. SameRest(m, c) /\ BufferLatency(c) = BufferLatency(b) - 1
  BY <1>4, <1>5, <1>8, <1>9, LowReadInv
<1>11. InExcess(b)
  BY <1>1, <1>10, LatencyType, BufferAssumption, SMT DEF InExcess
<1>12. ExcessLeft(c) = ExcessLeft(n)
  BY <1>4, <1>10 DEF SameRest, ExcessLeft
<1> QED
  BY <1>1, <1>6, <1>11, <1>12, CountsDown

\* Aligning the buffer to an estimate changes neither its latency nor the count.
LEMMA AlignKeepsExcess ==
    ASSUME NEW b \in BufferType, NEW delay \in Nat
    PROVE  LET c == AlignFromDelay(b, delay)
           IN  (InExcess(c) <=> InExcess(b)) /\ ExcessLeft(c) = ExcessLeft(b)
<1> DEFINE c == AlignFromDelay(b, delay)
<1>1. c.low = b.low /\ c.minLatency = b.minLatency /\ c.excessCount = b.excessCount
  BY DEF AlignFromDelay, ApplyTotalDelay, BufferType
<1> QED
  BY <1>1 DEF InExcess, BufferLatency, ExcessLeft

\* A render block leaves the count, or starts the buffer anew.
LEMMA InsertKeepsExcess ==
    ASSUME NEW b, BufferInv(b), InExcess(Insert(b))
    PROVE  ExcessLeft(Insert(b)) = ExcessLeft(b)
<1> DEFINE c == IncrementWriteIndices(b)
<1>1. WritesInStep(c) /\ SameRest(b, c)
  BY WriteInv
<1>2. Insert(b) = c
  BY <1>1, ResetEndsExcess DEF Insert
<1> QED
  BY <1>1, <1>2 DEF SameRest, ExcessLeft

\* A capture block on the buffer as it is.
LEMMA ProcessedExcess ==
    ASSUME BlockInv, NEW estimate \in Delays \cup {NoDelay}, ProcessCapture(estimate),
           InExcess(buffer')
    PROVE  ExcessLeft(buffer') = ExcessLeft(buffer) - 1
<1> DEFINE p == PrepareCaptureProcessing(StartedBuffer)
<1>1. BufferInv(StartedBuffer) /\ BufferInv(buffer)
  BY StartedInv DEF BlockInv
<1>2. buffer' = IF estimate # NoDelay THEN AlignFromDelay(p, estimate) ELSE p
  BY DEF ProcessCapture
<1>3. p \in BufferType
  BY <1>1, PrepareInv DEF BufferInv
<1>4. estimate # NoDelay => estimate \in Nat
  BY DelaysAssumption
<1> HIDE DEF p
<1>5. InExcess(p) /\ ExcessLeft(buffer') = ExcessLeft(p)
  BY <1>2, <1>3, <1>4, AlignKeepsExcess
<1>6. InExcess(StartedBuffer) /\ ExcessLeft(p) = ExcessLeft(StartedBuffer) - 1
  BY <1>1, <1>5, PrepareExcess DEF p
<1>7. StartedBuffer = buffer
  <2>1. WritesInStep(buffer)
    BY <1>1 DEF BufferInv, WritesInStep, InStep
  <2> QED
    BY <1>6, <2>1, ResetEndsExcess DEF StartedBuffer
<1> QED
  BY <1>5, <1>6, <1>7

\* What a step does to the buffer.
LEMMA BufferSteps ==
    ASSUME [Next]_vars
    PROVE  \/ buffer' = buffer /\ UNCHANGED render_properly_started
           \/ BufferRender
           \/ BlockProcessed
           \/ \E ms \in StreamDelays : ReportDelay(ms)
<1>1. \/ UNCHANGED bvars \/ BufferRender \/ CaptureBlock
      \/ \E ms \in StreamDelays : ReportDelay(ms)
  BY DEF Next, Capture, vars, AnalyzeRender, CaptureCall, RemoveFrame, QueueEmpty,
         BufferSubFrame, BufferRemaining, ProcessSubFrame, ProcessRemaining,
         SetAudioBufferDelay3
<1> QED
  BY <1>1 DEF CaptureBlock, SkipCapture, BlockProcessed, bvars

LEMMA ReportKeepsExcess ==
    ASSUME BlockInv, NEW ms, ReportDelay(ms)
    PROVE  (InExcess(buffer') <=> InExcess(buffer)) /\ ExcessLeft(buffer') = ExcessLeft(buffer)
<1>1. buffer' = SetAudioBufferDelay(buffer, ms) /\ buffer \in BufferType
  BY DEF ReportDelay, BlockInv, BufferInv
<1>2. /\ buffer'.low = buffer.low
      /\ buffer'.minLatency = buffer.minLatency /\ buffer'.excessCount = buffer.excessCount
  BY <1>1 DEF SetAudioBufferDelay, BufferType
<1> QED
  BY <1>2 DEF InExcess, BufferLatency, ExcessLeft

\* An excess of render blocks, however it came about, is found and removed within
\* two intervals of capture blocks, whatever the render side does meanwhile and
\* whatever delays are reported and estimated.
THEOREM ExcessEnds == Spec => []ExcessBounded /\ LatencyApproaches
<1> DEFINE Started == InExcess(buffer) => render_properly_started
           Approach == InExcess(buffer) /\ InExcess(buffer') =>
                         IF BlockProcessed THEN ExcessLeft(buffer') = ExcessLeft(buffer) - 1
                         ELSE ExcessLeft(buffer') = ExcessLeft(buffer)
<1>1. Init => Started
  <2>1. ASSUME Init PROVE BufferLatency(buffer) = 1
    BY <2>1, ConstructedInv DEF Init, BInit
  <2> QED
    BY <2>1, BufferAssumption, SMT DEF InExcess
<1>2. IInv /\ Started /\ [Next]_vars => Started'
  <2> SUFFICES ASSUME IInv, Started, [Next]_vars PROVE Started'
    OBVIOUS
  <2>1. CASE buffer' = buffer /\ UNCHANGED render_properly_started
    BY <2>1
  <2>2. CASE BufferRender
    BY <2>2 DEF BufferRender
  <2>3. CASE BlockProcessed
    BY <2>3 DEF BlockProcessed, ProcessCapture
  <2>4. ASSUME NEW ms \in StreamDelays, ReportDelay(ms) PROVE Started'
    <3>1. InExcess(buffer') <=> InExcess(buffer)
      BY <2>4, ReportKeepsExcess DEF IInv
    <3> QED
      BY <2>4, <3>1 DEF ReportDelay, InExcess
  <2> QED
    BY <2>1, <2>2, <2>3, <2>4, BufferSteps
<1>3. IInv /\ [Next]_vars => [Approach]_vars
  <2> SUFFICES ASSUME IInv, [Next]_vars, InExcess(buffer), InExcess(buffer')
               PROVE  IF BlockProcessed THEN ExcessLeft(buffer') = ExcessLeft(buffer) - 1
                      ELSE ExcessLeft(buffer') = ExcessLeft(buffer)
    OBVIOUS
  <2>1. CASE BlockProcessed
    BY <2>1, ProcessedExcess DEF BlockProcessed, IInv
  <2>2. CASE ~BlockProcessed
    <3>1. CASE BufferRender
      BY <2>2, <3>1, InsertKeepsExcess DEF BufferRender, IInv, BlockInv
    <3>2. CASE \E ms \in StreamDelays : ReportDelay(ms)
      BY <2>2, <3>2, ReportKeepsExcess DEF IInv
    <3> QED
      BY <2>2, <3>1, <3>2, BufferSteps
  <2> QED
    BY <2>1, <2>2
<1>4. IInv => ExcessLeft(buffer) \in 1 .. 2 * ExcessInterval
  <2> SUFFICES ASSUME IInv PROVE ExcessLeft(buffer) \in 1 .. 2 * ExcessInterval
    OBVIOUS
  <2>1. buffer.excessCount \in 0 .. ExcessInterval - 1
    BY DEF IInv, BlockInv, BufferInv, BufferType
  <2> QED
    BY <2>1, BufferAssumption, SMT DEF ExcessLeft
<1>5. ExcessLeft(buffer) \in 1 .. 2 * ExcessInterval /\ Started => ExcessBounded
  BY DEF ExcessBounded
<1> QED
  BY <1>1, <1>2, <1>3, <1>4, <1>5, Invariant, PTL DEF Spec, LatencyApproaches
=============================================================================
