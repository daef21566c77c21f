--------------------------- MODULE MCEntropyCoder ---------------------------
(***************************************************************************)
(* Tables for model-checking EntropyCoder with bytes of two bits, so with  *)
(* probabilities in sixteenths, and the code's own logistic table, of which*)
(* the shape that is checked is a small likeness.                          *)
(***************************************************************************)
EXTENDS EntropyCoder

\* A coarse and a fine table, and a shape steepest in the middle, in which a
\* cell that is coded lies behind a flat one.
Tables == <<<<0, 5, 15>>, <<0, 1, 3, 6, 10, 14, 15>>>>
Logistic == [b \in -4 .. 4 |-> <<0, 0, 0, 1, 5, 9, 13, 13, 15>>[b + 5]]

-----------------------------------------------------------------------------
(* The table of arith_routines_logist.c.                                   *)

\* kHistEdgesQ15, kCdfSlopeQ0 and kCdfQ16; the first entry is number 0.
HistEdges(i) == (65536 * i) \div 5 - 327680
CdfSlope == <<5, 5, 5, 5, 5, 5, 5, 5, 5, 5, 5, 5, 13, 23, 47, 87, 154, 315, 700, 1088, 2471,
              6064, 14221, 21463, 36634, 36924, 19750, 13270, 5806, 2312, 1095, 660, 316, 145,
              86, 41, 32, 5, 5, 5, 5, 5, 5, 5, 5, 5, 5, 5, 5, 2, 0>>
Cdf == <<0, 2, 4, 6, 8, 10, 12, 14, 16, 18, 20, 22, 24, 29, 38, 57, 92, 153, 279, 559, 994,
         1983, 4408, 10097, 18682, 33336, 48105, 56005, 61313, 63636, 64560, 64998, 65262,
         65389, 65447, 65481, 65497, 65510, 65512, 65514, 65516, 65518, 65520, 65522, 65524,
         65526, 65528, 65530, 65532, 65534, 65535>>

\* piecewise, at a point in Q15.
LogisticQ16(x) ==
    LET y == IF x < -327680 THEN -327680 ELSE IF x > 327680 THEN 327680 ELSE x
        ind == ((y + 327680) * 5) \div 65536
    IN  Cdf[ind + 1] + (CdfSlope[ind + 1] * (y - HistEdges(ind))) \div 32768

\* The lower boundary of a cell, for an envelope and a dither.
Boundary(env, dither, cell) == LogisticQ16((128 * cell - 64 - dither) * env)

\* With an envelope of 10 and a dither of 8 the 113th cell is flat, and the
\* next one is coded.
ASSUME CodedBehindFlat ==
    /\ Boundary(10, 8, 113) = Boundary(10, 8, 114)
    /\ Boundary(10, 8, 114) + 1 < Boundary(10, 8, 115)

\* Shapes of the table are as CoderAssumption has them, at any scale.
ASSUME TableIsShape ==
    \A env \in {7, 10, 100, 3000}, dither \in {-64, -1, 8, 63} :
        /\ Boundary(env, dither, 1) - Boundary(env, dither, 0) > 1
        /\ \A cell \in -400 .. 400 :
              Boundary(env, dither, cell) =< Boundary(env, dither, cell + 1)
=============================================================================
