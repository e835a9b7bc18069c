-------------------------- MODULE GmemSizingProofs --------------------------
(***************************************************************************)
(* What the sizing arithmetic guarantees for every model, every reading of *)
(* /proc/meminfo and every setting of the tunables; and, of the way from a *)
(* repository to a launch (EntrySizing), that every entry validate accepts *)
(* gives the arithmetic what it relies on.                                 *)
(***************************************************************************)
EXTENDS EntrySizing, TLAPS, FiniteSetTheorems

-----------------------------------------------------------------------------
(* Rounding to the nearest hundredth.                                      *)

(* A rounded quotient is off by at most one half.                          *)
LEMMA RoundDivBounds ==
    ASSUME NEW a \in Nat, NEW b \in Nat \ {0}
    PROVE  /\ RoundDiv(a, b) \in Nat
           /\ 2 * (b * RoundDiv(a, b)) <= 2 * a + b
           /\ 2 * a < 2 * (b * RoundDiv(a, b)) + b
<1> DEFINE n == 2 * a + b
           d == 2 * b
           q == n \div d
<1>1. n \in Nat /\ d \in Nat \ {0}
  OBVIOUS
<1> HIDE DEF n, d
<1>2. q \in Int /\ d * q <= n /\ n < d * q + d
  BY <1>1
<1>3. q >= 0
  <2>1. SUFFICES ASSUME q <= -1 PROVE FALSE
    BY <1>2
  <2>2. d * q <= d * (-1)
    BY <1>1, <1>2, <2>1
  <2> QED BY <1>1, <1>2, <2>2
<1> HIDE DEF q
<1>4. d * q = 2 * (b * q)
  BY <1>2 DEF d
<1>5. q = RoundDiv(a, b)
  BY DEF q, n, d, RoundDiv
<1> QED BY <1>1, <1>2, <1>3, <1>4, <1>5 DEF n, d

(* Rounding keeps the order.                                               *)
LEMMA RoundDivMonotone ==
    ASSUME NEW a \in Nat, NEW c \in Nat, NEW b \in Nat \ {0}, a <= c
    PROVE  RoundDiv(a, b) <= RoundDiv(c, b)
<1> DEFINE qa == RoundDiv(a, b)
           qc == RoundDiv(c, b)
<1>1. qa \in Nat /\ qc \in Nat
  BY RoundDivBounds
<1>2. 2 * (b * qa) <= 2 * a + b /\ 2 * c < 2 * (b * qc) + b
  BY RoundDivBounds
<1> HIDE DEF qa, qc
<1>3. SUFFICES ASSUME qa >= qc + 1 PROVE FALSE
  BY <1>1 DEF qa, qc
<1>4. b * qa >= b * qc + b
  BY <1>1, <1>3
<1>5. b * qa \in Nat /\ b * qc \in Nat
  BY <1>1
<1> HIDE DEF qa, qc
<1> QED BY <1>2, <1>4, <1>5

(* A whole number of hundredths rounds to itself.                          *)
LEMMA RoundDivExact ==
    ASSUME NEW g \in Nat, NEW b \in Nat \ {0}
    PROVE  RoundDiv(g * b, b) = g
<1> DEFINE q == RoundDiv(g * b, b)
<1>1. g * b \in Nat
  OBVIOUS
<1>2. q \in Nat /\ 2 * (b * q) <= 2 * (g * b) + b /\ 2 * (g * b) < 2 * (b * q) + b
  BY <1>1, RoundDivBounds
<1> HIDE DEF q
<1>3. q <= g
  <2>1. SUFFICES ASSUME q >= g + 1 PROVE FALSE
    BY <1>2
  <2>2. b * q >= b * g + b
    BY <1>2, <2>1
  <2> QED BY <1>2, <2>2
<1>4. q >= g
  <2>1. SUFFICES ASSUME g >= q + 1 PROVE FALSE
    BY <1>2
  <2>2. b * g >= b * q + b
    BY <1>2, <2>1
  <2> QED BY <1>2, <2>2
<1> QED BY <1>2, <1>3, <1>4 DEF q

LEMMA Cancelled ==
    ASSUME NEW x \in Int, NEW y \in Int, NEW t \in Nat \ {0}
    PROVE  /\ x * t <= y * t => x <= y
           /\ x * t < y * t => x < y
<1>1. x >= y + 1 => x * t >= y * t + t
  OBVIOUS
<1>2. x >= y => x * t >= y * t
  OBVIOUS
<1>3. x * t \in Int /\ y * t \in Int
  OBVIOUS
<1> QED BY <1>1, <1>2, <1>3

(* Only the quotient rounds, not how finely its two sides are measured.    *)
LEMMA RoundDivCancel ==
    ASSUME NEW a \in Nat, NEW b \in Nat \ {0}, NEW t \in Nat \ {0}
    PROVE  RoundDiv(a * t, b * t) = RoundDiv(a, b)
<1> DEFINE q == RoundDiv(a, b)
           r == RoundDiv(a * t, b * t)
<1>1. a * t \in Nat /\ b * t \in Nat \ {0}
  OBVIOUS
<1>2. q \in Nat /\ 2 * (b * q) <= 2 * a + b /\ 2 * a < 2 * (b * q) + b
  BY RoundDivBounds
<1>3. /\ r \in Nat /\ 2 * ((b * t) * r) <= 2 * (a * t) + b * t
      /\ 2 * (a * t) < 2 * ((b * t) * r) + b * t
  BY <1>1, RoundDivBounds
<1> HIDE DEF q, r
<1>4. /\ 2 * (b * r) <= 2 * a + b /\ 2 * a < 2 * (b * r) + b
  <2> DEFINE br == b * r
  <2>1. br \in Nat /\ (b * t) * r = br * t
    BY <1>3
  <2> HIDE DEF br
  <2>2. /\ 2 * (br * t) = (2 * br) * t
        /\ 2 * (a * t) + b * t = (2 * a + b) * t
        /\ 2 * (a * t) = (2 * a) * t
        /\ 2 * (br * t) + b * t = (2 * br + b) * t
    BY <2>1
  <2>3. (2 * br) * t <= (2 * a + b) * t /\ (2 * a) * t < (2 * br + b) * t
    BY <1>3, <2>1, <2>2
  <2>4. 2 * br \in Int /\ 2 * a + b \in Int /\ 2 * a \in Int /\ 2 * br + b \in Int
    BY <2>1
  <2>5. 2 * br <= 2 * a + b
    BY <2>3, <2>4, Cancelled
  <2>6. 2 * a < 2 * br + b
    BY <2>3, <2>4, Cancelled
  <2> QED BY <2>5, <2>6 DEF br
<1>5. ASSUME NEW u \in Nat, NEW v \in Nat, v >= u + 1,
             2 * (b * v) <= 2 * a + b, 2 * a < 2 * (b * u) + b
      PROVE  FALSE
  <2>1. b * v >= b * u + b
    BY <1>5
  <2>2. b * v \in Nat /\ b * u \in Nat
    BY <1>5
  <2> QED BY <1>5, <2>1, <2>2
<1>6. ~(r >= q + 1) /\ ~(q >= r + 1)
  BY <1>2, <1>3, <1>4, <1>5
<1>7. q = r
  BY <1>2, <1>3, <1>6
<1> QED BY <1>7 DEF q, r

LEMMA WholeFacts == Parts \in Nat \ {0} /\ Whole \in Nat \ {0} /\ Whole = 100 * Parts
BY PartsAssumption DEF Whole

LEMMA TimesMonotone == \A a, b, t \in Nat : a <= b => a * t \in Nat /\ b * t \in Nat /\ a * t <= b * t
OBVIOUS

-----------------------------------------------------------------------------
(* The quantities of one sizing.                                           *)

LEMMA Quantities ==
    ASSUME NEW p, NEW mi, ParamsTyped(p), ReadingOK(mi)
    PROVE  /\ Need(p) \in Nat
           /\ Headroom(p, mi) \in Nat /\ Free(p, mi) \in Nat
           /\ Total(p, mi) \in Int /\ CapNum(p, mi) \in Nat
           /\ p.gmin \in Nat /\ p.gmax \in Nat
           /\ p.buffer \in Nat
<1>1. /\ p.weights \in Nat /\ p.kv \in Nat /\ p.seqs \in Nat /\ p.batch \in Nat
      /\ p.safety \in Nat /\ p.overhead \in Nat /\ p.ceiling \in Nat
      /\ p.gmin \in Nat /\ p.gmax \in Nat /\ p.buffer \in Nat
      /\ p.tp \in Nat \ {0}
  BY DEF ParamsTyped
<1>2. mi.total \in Nat /\ mi.avail \in Nat
  BY DEF ReadingOK
<1>3. 100 * p.kv * KvBatch(p) \in Nat
  <2>1. KvBatch(p) \in Nat
    BY <1>1 DEF KvBatch, MinOf
  <2>2. 100 * p.kv \in Nat
    BY <1>1
  <2> QED BY <2>1, <2>2
<1>4. Need(p) \in Nat
  <2>1. p.tp \in Nat \ {0} /\ p.weights \in Nat /\ p.safety \in Nat
    BY <1>1
  <2>2. RoundDiv(p.weights, p.tp) \in Nat
    BY <2>1, RoundDivBounds
  <2>3. RoundDiv(100 * p.kv * KvBatch(p), 1024 * p.tp) \in Nat
    <3> DEFINE a == 100 * p.kv * KvBatch(p)
               b == 1024 * p.tp
    <3>1. a \in Nat /\ b \in Nat \ {0}
      BY <1>3, <2>1
    <3> HIDE DEF a, b
    <3>2. RoundDiv(a, b) \in Nat
      BY <3>1, RoundDivBounds
    <3> QED BY <3>2 DEF a, b
  <2> QED BY <2>1, <2>2, <2>3 DEF Need
<1>5. Headroom(p, mi) \in Nat /\ Total(p, mi) \in Int
  BY <1>1, <1>2 DEF Headroom, Total, Capped, PosPart, MaxOf, MinOf
<1>6. Free(p, mi) \in Nat
  BY <1>1, <1>2, <1>5 DEF Free, PosPart, MaxOf
<1>7. CapNum(p, mi) \in Nat
  <2>1. PosPart(Free(p, mi) - p.buffer) \in Nat
    BY <1>1, <1>6 DEF PosPart, MaxOf
  <2> QED BY <2>1, WholeFacts DEF CapNum
<1> QED BY <1>1, <1>4, <1>5, <1>6, <1>7

(* The share is at least the floor, under the cap and, if the range is one *)
(* at all, within the maximum.                                             *)
LEMMA ShareBounds ==
    ASSUME NEW p, NEW mi, ParamsTyped(p), ReadingOK(mi), Fits(p, mi)
    PROVE  /\ ShareNum(p, mi) \in Nat
           /\ p.gmin * Total(p, mi) <= ShareNum(p, mi)
           /\ p.gmin <= p.gmax => ShareNum(p, mi) <= p.gmax * Total(p, mi)
           /\ ShareNum(p, mi) <= CapNum(p, mi)
<1> DEFINE T == Total(p, mi)
           lo == p.gmin * T
           hi == p.gmax * T
<1>1. T \in Nat \ {0} /\ CapNum(p, mi) >= lo
  BY Quantities DEF Fits
<1>2. CapNum(p, mi) \in Nat /\ Need(p) \in Nat
  BY Quantities
<1>3. p.gmin \in Nat /\ p.gmax \in Nat
  BY Quantities
<1> HIDE DEF T
<1>4. lo \in Nat /\ hi \in Nat /\ (p.gmin <= p.gmax => lo <= hi)
  BY <1>1, <1>3
<1> HIDE DEF lo, hi
<1>5. /\ SizedNum(p, mi) \in Nat /\ lo <= SizedNum(p, mi)
      /\ lo <= hi => SizedNum(p, mi) <= hi
      /\ SizedNum(p, mi) <= CapNum(p, mi)
  <2>1. Whole * Need(p) \in Nat
    BY <1>2, WholeFacts
  <2> QED BY <1>1, <1>2, <1>4, <2>1 DEF SizedNum, MinOf, MaxOf, lo, hi, T
<1>6. /\ FallbackNum(p, mi) \in Nat /\ lo <= FallbackNum(p, mi)
      /\ lo <= hi => FallbackNum(p, mi) <= hi
      /\ FallbackNum(p, mi) <= CapNum(p, mi)
  BY <1>1, <1>2, <1>4 DEF FallbackNum, MinOf, MaxOf, lo, hi, T
<1>7. /\ ShareNum(p, mi) \in Nat /\ lo <= ShareNum(p, mi)
      /\ lo <= hi => ShareNum(p, mi) <= hi
      /\ ShareNum(p, mi) <= CapNum(p, mi)
  BY <1>5, <1>6 DEF ShareNum
<1> QED BY <1>4, <1>7 DEF lo, hi, T

-----------------------------------------------------------------------------
(* How a plan's share is rounded.                                          *)
LEMMA PlanRounds ==
    ASSUME NEW p, NEW mi, ParamsTyped(p), ReadingOK(mi), Plan(p, mi).mode # "ERR"
    PROVE  LET D == Parts * Total(p, mi) IN
           /\ Fits(p, mi) /\ Total(p, mi) \in Nat \ {0} /\ D \in Nat \ {0}
           /\ Plan(p, mi).gmem = RoundDiv(ShareNum(p, mi), D) /\ Plan(p, mi).gmem \in Nat
           /\ \A n \in Nat : RoundDiv(n * Total(p, mi), D) = RoundDiv(n, Parts)
<1>1. Fits(p, mi) /\ Plan(p, mi).gmem = RoundDiv(ShareNum(p, mi), Parts * Total(p, mi))
  BY DEF Plan
<1>2. Total(p, mi) \in Nat \ {0} /\ ShareNum(p, mi) \in Nat
  BY <1>1, Quantities, ShareBounds DEF Fits
<1>3. Parts * Total(p, mi) \in Nat \ {0}
  <2>1. \A a, b \in Nat \ {0} : a * b \in Nat \ {0}
    OBVIOUS
  <2> QED BY <1>2, <2>1, WholeFacts
<1>4. RoundDiv(ShareNum(p, mi), Parts * Total(p, mi)) \in Nat
  BY <1>2, <1>3, RoundDivBounds
<1>5. \A n \in Nat : RoundDiv(n * Total(p, mi), Parts * Total(p, mi)) = RoundDiv(n, Parts)
  BY <1>2, WholeFacts, RoundDivCancel
<1> QED BY <1>1, <1>2, <1>3, <1>4, <1>5

(* A plan gives at least gmem.min and, fallback included, at most gmem.max *)
(* if the range is one, but for the last rounding: an end is missed by no  *)
(* more than its own rounding to a hundredth, half of one at most, and an  *)
(* end that is in whole hundredths not at all.                             *)
THEOREM RangeRespected ==
    ASSUME NEW p, NEW mi, ParamsTyped(p), ReadingOK(mi), Plan(p, mi).mode # "ERR"
    PROVE  LET share == Plan(p, mi).gmem IN
           /\ share \in Nat
           /\ RoundDiv(p.gmin, Parts) <= share
           /\ 2 * p.gmin <= 2 * (Parts * share) + Parts
           /\ \A g \in Nat : p.gmin = g * Parts => g <= share
           /\ p.gmin <= p.gmax =>
                /\ share <= RoundDiv(p.gmax, Parts)
                /\ 2 * (Parts * share) <= 2 * p.gmax + Parts
                /\ \A g \in Nat : p.gmax = g * Parts => share <= g
<1> DEFINE T == Total(p, mi)
           D == Parts * T
           S == ShareNum(p, mi)
           share == Plan(p, mi).gmem
           lo == RoundDiv(p.gmin, Parts)
           hi == RoundDiv(p.gmax, Parts)
<1>1. /\ Fits(p, mi) /\ T \in Nat \ {0} /\ D \in Nat \ {0}
      /\ share = RoundDiv(S, D) /\ share \in Nat
      /\ \A n \in Nat : RoundDiv(n * T, D) = RoundDiv(n, Parts)
  BY PlanRounds
<1>2. /\ S \in Nat /\ p.gmin \in Nat /\ p.gmax \in Nat
      /\ p.gmin * T <= S
      /\ p.gmin <= p.gmax => S <= p.gmax * T
  BY <1>1, Quantities, ShareBounds
<1>3. Parts \in Nat \ {0}
  BY WholeFacts
<1> HIDE DEF T, D, S, share
<1>4. p.gmin * T \in Nat /\ p.gmax * T \in Nat
  BY <1>1, <1>2
<1>5. lo <= share
  BY <1>1, <1>2, <1>4, RoundDivMonotone
<1>6. p.gmin <= p.gmax => share <= hi
  BY <1>1, <1>2, <1>4, RoundDivMonotone
<1>7. /\ lo \in Nat /\ 2 * p.gmin < 2 * (Parts * lo) + Parts
      /\ hi \in Nat /\ 2 * (Parts * hi) <= 2 * p.gmax + Parts
  BY <1>2, <1>3, RoundDivBounds
<1>8. \A g \in Nat : (p.gmin = g * Parts => lo = g) /\ (p.gmax = g * Parts => hi = g)
  BY <1>3, RoundDivExact
<1> HIDE DEF lo, hi
<1>9. \A a, b, d \in Nat : a <= b => d * a \in Nat /\ d * b \in Nat /\ d * a <= d * b
  OBVIOUS
<1>10. Parts * lo \in Nat /\ Parts * share \in Nat /\ Parts * lo <= Parts * share
  BY <1>1, <1>3, <1>5, <1>7, <1>9
<1>11. 2 * p.gmin <= 2 * (Parts * share) + Parts
  BY <1>2, <1>3, <1>7, <1>10
<1>12. ASSUME p.gmin <= p.gmax PROVE 2 * (Parts * share) <= 2 * p.gmax + Parts
  <2>1. Parts * hi \in Nat /\ Parts * share <= Parts * hi
    BY <1>1, <1>3, <1>6, <1>7, <1>9, <1>12
  <2> QED BY <1>2, <1>3, <1>7, <1>10, <2>1
<1> QED BY <1>1, <1>5, <1>6, <1>8, <1>11, <1>12 DEF lo, hi, share

(* No plan gives more than the whole of what CUDA sees, whatever range the *)
(* model has.                                                              *)
THEOREM ShareIsAFraction ==
    ASSUME NEW p, NEW mi, ParamsTyped(p), ReadingOK(mi), Plan(p, mi).mode # "ERR"
    PROVE  Plan(p, mi).gmem <= 100
<1> DEFINE T == Total(p, mi)
           D == Parts * T
           S == ShareNum(p, mi)
<1>1. /\ Fits(p, mi) /\ T \in Nat \ {0} /\ D \in Nat \ {0}
      /\ Plan(p, mi).gmem = RoundDiv(S, D)
  BY PlanRounds
<1>2. S \in Nat /\ S <= CapNum(p, mi) /\ CapNum(p, mi) \in Nat
  BY <1>1, Quantities, ShareBounds
<1>3. /\ p.overhead \in Nat /\ p.ceiling \in Nat /\ p.buffer \in Nat
      /\ mi.total \in Nat /\ mi.avail \in Nat /\ mi.avail <= mi.total
  BY DEF ParamsTyped, ReadingOK
<1>4. Free(p, mi) \in Nat /\ Free(p, mi) <= T
  BY <1>1, <1>3 DEF Free, Total, Capped, Headroom, PosPart, MaxOf, MinOf
<1> DEFINE x == PosPart(Free(p, mi) - p.buffer)
<1>5. x \in Nat /\ x <= T
  BY <1>1, <1>3, <1>4 DEF PosPart, MaxOf
<1>6. CapNum(p, mi) = (100 * Parts) * x
  BY DEF CapNum, Whole
<1> HIDE DEF T, S, x
<1>7. (100 * Parts) * x <= 100 * D
  <2>1. (100 * Parts) * x = 100 * (x * Parts) /\ 100 * D = 100 * (T * Parts)
    BY <1>1, <1>5, WholeFacts
  <2>2. x * Parts \in Nat /\ T * Parts \in Nat /\ x * Parts <= T * Parts
    BY <1>1, <1>5, WholeFacts, TimesMonotone
  <2> HIDE DEF D
  <2> QED BY <2>1, <2>2
<1> HIDE DEF D
<1>8. S <= 100 * D
  BY <1>1, <1>2, <1>6, <1>7
<1>9. RoundDiv(S, D) <= RoundDiv(100 * D, D)
  BY <1>1, <1>2, <1>8, RoundDivMonotone
<1>10. RoundDiv(100 * D, D) = 100
  BY <1>1, RoundDivExact
<1> QED BY <1>1, <1>9, <1>10

(* The crash guard: what is used, the share and the CUDA overhead together *)
(* stay under SYSTEM_RAM_CEILING_GIB, the last rounding included.          *)
THEOREM PlanUnderCeiling ==
    ASSUME NEW p, NEW mi, ParamsTyped(p), ReadingOK(mi), BufferCovers(p, mi),
           Plan(p, mi).gmem > 0
    PROVE  WithinCeiling(p, mi, Plan(p, mi).gmem)
<1> DEFINE T == Total(p, mi)
           D == Parts * T
           S == ShareNum(p, mi)
           g == Plan(p, mi).gmem
           x == PosPart(Free(p, mi) - p.buffer)
<1>1. /\ Fits(p, mi) /\ T \in Nat \ {0} /\ D \in Nat \ {0}
      /\ g = RoundDiv(S, D) /\ g \in Nat /\ g > 0
  <2>1. Plan(p, mi).mode # "ERR"
    BY DEF Plan
  <2> QED BY <2>1, PlanRounds
<1>2. S \in Nat /\ S <= CapNum(p, mi) /\ p.buffer \in Nat /\ Free(p, mi) \in Nat
  BY <1>1, Quantities, ShareBounds
<1>3. x \in Nat /\ CapNum(p, mi) = Whole * x
  BY <1>2 DEF PosPart, MaxOf, CapNum
\* what the rounded share takes, in whole units of memory
<1>4. 2 * (T * g) <= 200 * x + T
  <2>1. 2 * (D * g) <= 2 * S + D
    BY <1>1, <1>2, RoundDivBounds
  <2> HIDE DEF S, T, g, x
  <2>2. Whole * x \in Nat /\ D * g \in Nat
    BY <1>1, <1>3, WholeFacts
  <2>3. 2 * (D * g) <= 2 * (Whole * x) + D
    BY <1>1, <1>2, <1>3, <2>1, <2>2
  <2> DEFINE tg == T * g
  <2>4. tg \in Nat /\ D * g = tg * Parts /\ Whole * x = (100 * x) * Parts /\ D = T * Parts
    BY <1>1, <1>3, WholeFacts
  <2> HIDE DEF D, tg
  <2>5. (2 * tg) * Parts <= (200 * x + T) * Parts
    <3>1. (2 * tg) * Parts = 2 * (tg * Parts)
      BY <2>4, WholeFacts
    <3>2. (200 * x + T) * Parts = 2 * ((100 * x) * Parts) + T * Parts
      BY <1>1, <1>3, WholeFacts
    <3> QED BY <2>3, <2>4, <3>1, <3>2
  <2>6. 2 * tg \in Int /\ 200 * x + T \in Int
    BY <1>1, <1>3, <2>4
  <2>7. 2 * tg <= 200 * x + T
    BY <2>5, <2>6, WholeFacts, Cancelled
  <2> QED BY <2>7 DEF tg
\* a share that does not round to nothing was cut from something
<1>5. x > 0
  <2> HIDE DEF S, T, g, x, D
  <2>1. SUFFICES ASSUME x = 0 PROVE FALSE
    BY <1>3
  <2>2. T * g >= T /\ T * g \in Nat
    BY <1>1
  <2> QED BY <1>1, <1>4, <2>1, <2>2
<1>6. /\ p.overhead \in Nat /\ p.ceiling \in Nat
      /\ mi.total \in Nat /\ mi.avail \in Nat
  BY DEF ParamsTyped, ReadingOK
\* nothing was cut off at zero, so the cap is what is left below the ceiling
<1>7. x = mi.avail - Headroom(p, mi) - p.overhead - p.buffer
  BY <1>2, <1>5, <1>6 DEF Free, Headroom, PosPart, MaxOf
<1>8. mi.total - Headroom(p, mi) = Capped(p, mi)
  BY <1>6 DEF Headroom, Capped, PosPart, MaxOf, MinOf
<1>9. T <= 200 * p.buffer
  BY DEF BufferCovers
<1>10. Headroom(p, mi) \in Nat /\ Capped(p, mi) \in Int
  BY <1>6 DEF Headroom, Capped, PosPart, MaxOf, MinOf
<1> HIDE DEF g, S, T, D, x
<1>11. T * g \in Nat /\ T * g = g * T
  BY <1>1
<1>12. 100 * (mi.total - mi.avail + p.overhead) + g * T <= 100 * Capped(p, mi)
  BY <1>1, <1>2, <1>3, <1>4, <1>6, <1>8, <1>9, <1>10, <1>7, <1>11
<1> QED BY <1>12 DEF WithinCeiling, T, g

(* Memory that comes back (a co-tenant restarted by the reclaim) never     *)
(* turns a plan into a failure and never makes the share smaller, though   *)
(* the code switches formula where the estimate begins to fit.             *)
THEOREM MoreMemoryNeverHurts ==
    ASSUME NEW p, NEW mi, NEW more, ParamsTyped(p), ReadingOK(mi), ReadingOK(more),
           more.total = mi.total, mi.avail <= more.avail, Plan(p, mi).mode # "ERR"
    PROVE  Plan(p, more).mode # "ERR" /\ Plan(p, mi).gmem <= Plan(p, more).gmem
<1> DEFINE T == Total(p, mi)
           D == Parts * T
           S == ShareNum(p, mi)
           R == ShareNum(p, more)
<1>1. Fits(p, mi) /\ Plan(p, mi).gmem = RoundDiv(S, D) /\ D \in Nat \ {0}
  BY PlanRounds
<1>2. Total(p, more) = T
  BY DEF Total, Capped
<1>3. p.buffer \in Nat /\ p.overhead \in Nat /\ p.ceiling \in Nat
  BY DEF ParamsTyped
<1>4. mi.total \in Nat /\ mi.avail \in Nat /\ more.avail \in Nat
  BY DEF ReadingOK
<1>5. Headroom(p, more) = Headroom(p, mi)
  BY DEF Headroom
<1>6. Free(p, mi) <= Free(p, more)
  BY <1>3, <1>4, <1>5, Quantities DEF Free, PosPart, MaxOf
<1>7. CapNum(p, mi) <= CapNum(p, more)
  <2> DEFINE x == PosPart(Free(p, mi) - p.buffer)
             y == PosPart(Free(p, more) - p.buffer)
  <2>1. x \in Nat /\ y \in Nat /\ x <= y
    BY <1>3, <1>6, Quantities DEF PosPart, MaxOf
  <2>2. CapNum(p, mi) = x * Whole /\ CapNum(p, more) = y * Whole
    <3> HIDE DEF x, y
    <3>1. x * Whole = Whole * x /\ y * Whole = Whole * y
      BY <2>1, WholeFacts
    <3> QED BY <3>1 DEF CapNum, x, y
  <2> HIDE DEF x, y
  <2> QED BY <2>1, <2>2, WholeFacts, TimesMonotone
<1>8. /\ CapNum(p, mi) \in Nat /\ CapNum(p, more) \in Nat /\ Need(p) \in Nat
      /\ Free(p, mi) \in Nat /\ Free(p, more) \in Nat
      /\ p.gmin \in Nat /\ p.gmax \in Nat
  BY Quantities
<1>9. T \in Nat \ {0} /\ p.gmin * T <= CapNum(p, mi)
  BY <1>1, Quantities DEF Fits
<1> DEFINE lo == p.gmin * T
           hi == p.gmax * T
<1>10. lo \in Nat /\ hi \in Nat
  <2> HIDE DEF T
  <2> QED BY <1>8, <1>9
<1>11. Fits(p, more)
  <2>1. p.gmin * T <= CapNum(p, more)
    BY <1>7, <1>8, <1>9, <1>10
  <2> QED BY <1>2, <1>9, <2>1 DEF Fits
\* below the switch the cap is under the estimate, so the switch loses nothing
<1>12. Need(p) > Free(p, mi) => CapNum(p, mi) <= Whole * Need(p)
  <2> SUFFICES ASSUME Need(p) > Free(p, mi) PROVE CapNum(p, mi) <= Whole * Need(p)
    OBVIOUS
  <2> DEFINE x == PosPart(Free(p, mi) - p.buffer)
             n == Need(p)
  <2>1. x \in Nat /\ n \in Nat /\ x <= n
    BY <1>3, <1>8 DEF PosPart, MaxOf
  <2>2. CapNum(p, mi) = Whole * x
    BY DEF CapNum
  <2> HIDE DEF x, n
  <2>3. Whole * x = x * Whole /\ Whole * n = n * Whole
    BY <2>1, WholeFacts
  <2>4. x * Whole <= n * Whole
    BY <2>1, WholeFacts, TimesMonotone
  <2> QED BY <2>2, <2>3, <2>4 DEF n
<1>13. S <= R
  <2> HIDE DEF lo, hi
  <2>1. /\ SizedNum(p, mi) = MinOf(CapNum(p, mi), MaxOf(lo, MinOf(hi, Whole * Need(p))))
        /\ SizedNum(p, more) = MinOf(CapNum(p, more), MaxOf(lo, MinOf(hi, Whole * Need(p))))
        /\ FallbackNum(p, mi) = MaxOf(lo, MinOf(CapNum(p, mi), hi))
        /\ FallbackNum(p, more) = MaxOf(lo, MinOf(CapNum(p, more), hi))
    BY <1>2 DEF SizedNum, FallbackNum, lo, hi
  <2> HIDE DEF T
  <2>2. lo <= CapNum(p, mi)
    BY <1>9 DEF lo
  <2>3. Whole * Need(p) \in Nat
    BY <1>8, WholeFacts
  <2> QED
    BY <1>6, <1>7, <1>8, <1>10, <1>12, <2>1, <2>2, <2>3 DEF ShareNum, MinOf, MaxOf
<1>14. S \in Nat /\ R \in Nat
  BY <1>1, <1>11, ShareBounds
<1>15. RoundDiv(S, D) <= RoundDiv(R, D)
  <2> HIDE DEF S, R, D
  <2> QED BY <1>1, <1>13, <1>14, RoundDivMonotone
<1>16. Plan(p, more).mode # "ERR" /\ Plan(p, more).gmem = RoundDiv(R, D)
  BY <1>2, <1>11 DEF Plan
<1> QED BY <1>1, <1>15, <1>16

(* Two nodes: the smaller share keeps both of them under their ceilings,   *)
(* and neither below what gmem.min rounds to.                              *)
THEOREM ClusterUnderCeiling ==
    ASSUME NEW p, NEW head, NEW work, ParamsTyped(p), ReadingOK(head), ReadingOK(work),
           BufferCovers(p, head), BufferCovers(p, work),
           ClusterPlan(p, head, work).gmem > 0
    PROVE  /\ WithinCeiling(p, head, ClusterPlan(p, head, work).gmem)
           /\ WithinCeiling(p, work, ClusterPlan(p, head, work).gmem)
           /\ ClusterPlan(p, head, work).gmem >= RoundDiv(p.gmin, Parts)
<1> DEFINE h == Plan(p, head)
           w == Plan(p, work)
           g == ClusterPlan(p, head, work).gmem
           floor == RoundDiv(p.gmin, Parts)
<1>1. /\ h.mode # "ERR" /\ w.mode # "ERR" /\ g = MinOf(h.gmem, w.gmem)
      /\ g > 0
  BY DEF ClusterPlan
<1>2. /\ h.gmem \in Nat /\ floor <= h.gmem
      /\ w.gmem \in Nat /\ floor <= w.gmem
      /\ floor \in Nat
  <2>1. p.gmin \in Nat /\ floor \in Nat
    BY Quantities, WholeFacts, RoundDivBounds
  <2> QED BY <1>1, <2>1, RangeRespected
<1>3. WithinCeiling(p, head, h.gmem) /\ WithinCeiling(p, work, w.gmem)
  <2>1. h.gmem > 0 /\ w.gmem > 0
    <3> HIDE DEF h, w, g
    <3> QED BY <1>1, <1>2 DEF MinOf
  <2> QED BY <2>1, PlanUnderCeiling
<1>4. Total(p, head) \in Nat /\ Total(p, work) \in Nat
  BY <1>1, Quantities DEF Plan, Fits
<1> HIDE DEF h, w, g, floor
<1>5. g \in Nat /\ g <= h.gmem /\ g <= w.gmem /\ g >= floor
  BY <1>1, <1>2 DEF MinOf
<1>7. /\ g * Total(p, head) <= h.gmem * Total(p, head)
      /\ g * Total(p, work) <= w.gmem * Total(p, work)
  BY <1>2, <1>4, <1>5, TimesMonotone
<1>8. ASSUME NEW mi, ReadingOK(mi), NEW b \in Nat, WithinCeiling(p, mi, b),
             Total(p, mi) \in Nat, g * Total(p, mi) <= b * Total(p, mi)
      PROVE  WithinCeiling(p, mi, g)
  <2>1. /\ mi.total \in Nat /\ mi.avail \in Nat /\ p.overhead \in Nat
        /\ p.ceiling \in Nat
    BY <1>8 DEF ReadingOK, ParamsTyped
  <2>2. Capped(p, mi) \in Nat
    BY <2>1 DEF Capped, MinOf
  <2>3. g * Total(p, mi) \in Nat /\ b * Total(p, mi) \in Nat
    BY <1>5, <1>8
  <2> QED BY <1>8, <2>1, <2>2, <2>3 DEF WithinCeiling
<1>9. h.gmem \in Nat /\ w.gmem \in Nat
  BY <1>2
<1>10. WithinCeiling(p, head, g) /\ WithinCeiling(p, work, g)
  BY <1>3, <1>4, <1>7, <1>8, <1>9
<1> QED BY <1>5, <1>10 DEF g, floor

-----------------------------------------------------------------------------
(* Layers, counted.                                                        *)

LEMMA SegmentFinite ==
    ASSUME NEW n \in Nat
    PROVE  IsFiniteSet(1..n) /\ Cardinality(1..n) = n
<1>1. 1 \in Int /\ n \in Int
  OBVIOUS
<1> QED BY <1>1, FS_Interval

LEMMA ShapeFacts ==
    ASSUME NEW m \in Shapes
    PROVE  /\ Len(m.stack) \in Nat \ {0} /\ DOMAIN m.stack = 1..Len(m.stack)
           /\ m.stack \in [1..Len(m.stack) -> BOOLEAN]
           /\ m.heads \in Nat \ {0} /\ m.kvHeads \in Nat \ {0} /\ m.headDim \in Nat \ {0}
           /\ Count(m.stack, TRUE) \in Nat \ {0}
<1>1. /\ m.stack \in Seq(BOOLEAN) /\ \E i \in DOMAIN m.stack : m.stack[i]
      /\ {m.heads, m.kvHeads, m.headDim} \subseteq Nat \ {0}
  BY EntryAssumption
<1>2. Len(m.stack) \in Nat /\ DOMAIN m.stack = 1..Len(m.stack)
      /\ m.stack \in [1..Len(m.stack) -> BOOLEAN]
  BY <1>1
<1> DEFINE S == {i \in DOMAIN m.stack : m.stack[i] = TRUE}
<1>3. IsFiniteSet(1..Len(m.stack)) /\ S \in SUBSET (1..Len(m.stack)) /\ S # {}
  <2>1. IsFiniteSet(1..Len(m.stack))
    BY <1>2, SegmentFinite
  <2>2. PICK i \in DOMAIN m.stack : m.stack[i]
    BY <1>1
  <2>3. m.stack[i] = TRUE
    BY <1>2, <2>2
  <2>4. i \in S
    BY <2>3
  <2> QED BY <1>2, <2>1, <2>4
<1>4. Cardinality(S) \in Nat \ {0}
  BY <1>3, FS_Subset, FS_CardinalityType, FS_EmptySet
<1> QED BY <1>1, <1>2, <1>3, <1>4 DEF Count

(* However the kinds of the layers are called, those with a KV cache are   *)
(* counted.                                                                *)
LEMMA KindsCounted ==
    ASSUME NEW m \in Shapes, NEW yes, NEW no, yes # no
    PROVE  /\ Count(KindOf(m, yes, no), yes) = Count(m.stack, TRUE)
           /\ Len(KindOf(m, yes, no)) = Len(m.stack)
<1> DEFINE kinds == KindOf(m, yes, no)
           n == Len(m.stack)
<1>1. n \in Nat /\ DOMAIN m.stack = 1..n /\ m.stack \in [1..n -> BOOLEAN]
  BY ShapeFacts
<1>2. kinds = [i \in 1..n |-> IF m.stack[i] THEN yes ELSE no]
  BY <1>1 DEF KindOf
<1>3. DOMAIN kinds = 1..n /\ Len(kinds) = n
  <2>1. kinds \in Seq({yes, no})
    BY <1>1, <1>2
  <2> QED BY <1>1, <1>2, <2>1
<1>4. {i \in DOMAIN kinds : kinds[i] = yes} = {i \in DOMAIN m.stack : m.stack[i] = TRUE}
  <2>1. ASSUME NEW i \in 1..n PROVE kinds[i] = yes <=> m.stack[i] = TRUE
    <3>1. m.stack[i] \in BOOLEAN /\ kinds[i] = IF m.stack[i] THEN yes ELSE no
      BY <1>1, <1>2
    <3> QED BY <3>1
  <2> QED BY <1>1, <1>3, <2>1
<1> QED BY <1>3, <1>4 DEF Count

LEMMA NothingCounted == ASSUME NEW kind PROVE Count(<<>>, kind) = 0
<1>1. {i \in DOMAIN <<>> : <<>>[i] = kind} = {}
  OBVIOUS
<1> QED BY <1>1, FS_EmptySet DEF Count

(* Every k-th of n layers is n \div k layers.                              *)
LEMMA MultiplesCounted ==
    ASSUME NEW n \in Nat, NEW k \in Nat \ {0}
    PROVE  /\ n \div k \in Nat
           /\ Cardinality({i \in 1..n : i % k = 0}) = n \div k
<1> DEFINE q == n \div k
           M == {i \in 1..n : i % k = 0}
           f == [j \in 1..q |-> k * j]
<1>1. q \in Int /\ k * q <= n /\ n < k * q + k
  OBVIOUS
<1>2. q \in Nat
  <2>1. SUFFICES ASSUME q <= -1 PROVE FALSE
    BY <1>1
  <2>2. k * q <= k * (-1)
    BY <1>1, <2>1
  <2> QED BY <1>1, <2>2
<1>3. ASSUME NEW j \in 1..q PROVE k * j \in M
  <2>1. k * j \in Nat /\ k * j >= 1 /\ k * j <= k * q
    BY <1>2
  <2>2. (k * j) % k = 0
    BY <1>2
  <2> QED BY <1>1, <1>2, <2>1, <2>2
<1>4. ASSUME NEW i \in M PROVE \E j \in 1..q : k * j = i
  <2> DEFINE j == i \div k
  <2>1. i \in Nat /\ i >= 1 /\ i <= n /\ i % k = 0
    OBVIOUS
  <2>2. j \in Int /\ i = k * j
    BY <2>1
  <2> HIDE DEF j
  <2>3. j >= 1
    <3>1. SUFFICES ASSUME j <= 0 PROVE FALSE
      BY <2>2
    <3>2. k * j <= 0
      BY <2>2, <3>1
    <3> QED BY <2>1, <2>2, <3>2
  <2>4. j <= q
    <3> HIDE DEF q
    <3>1. SUFFICES ASSUME j >= q + 1 PROVE FALSE
      BY <1>2, <2>2
    <3>2. k * j >= k * q + k
      BY <1>2, <2>2, <3>1
    <3> QED BY <1>1, <2>1, <2>2, <3>2
  <2> QED BY <1>2, <2>2, <2>3, <2>4
<1> HIDE DEF q, M
<1>5. f \in [1..q -> M]
  BY <1>3
<1>6. f \in Surjection(1..q, M)
  BY <1>4, <1>5 DEF Surjection
<1>7. f \in Injection(1..q, M)
  <2>1. ASSUME NEW a \in 1..q, NEW b \in 1..q, k * a = k * b PROVE a = b
    BY <1>2, <2>1
  <2> QED BY <1>5, <2>1 DEF Injection, IsInjective
<1>8. IsFiniteSet(1..q) /\ Cardinality(1..q) = q
  BY <1>2, SegmentFinite
<1>9. Cardinality(M) = q
  BY <1>6, <1>7, <1>8, FS_Surjection
<1> QED BY <1>2, <1>9 DEF q, M

-----------------------------------------------------------------------------
(* What a configuration says.                                              *)

Entries == Overlay(Heads(model.of), Spelling(model.of, model.style))

LEMMA ModelFacts ==
    ASSUME model \in Models
    PROVE  /\ model.of \in Shapes /\ model.nested \in BOOLEAN
           /\ model.style \in {"plain", "types", "interval", "pattern", "blocks"}
           /\ model.style = "plain" => \A i \in DOMAIN model.of.stack : model.of.stack[i]
           /\ model.style = "interval" => Intervals(model.of) # {}
<1>1. PICK m \in Shapes : model \in [of : {m}, style : Styles(m), nested : BOOLEAN]
  BY DEF Models
<1>2. model.of = m /\ model.style \in Styles(m) /\ model.nested \in BOOLEAN
  BY <1>1
<1> QED BY <1>2 DEF Styles

(* The vision tower's entries stand back.                                  *)
LEMMA LookupSays ==
    ASSUME model \in Models, NEW key, NEW none
    PROVE  /\ key \in DOMAIN Entries => Lookup(Config, key, none) = Entries[key]
           /\ key \notin DOMAIN Entries \cup DOMAIN Vision => Lookup(Config, key, none) = none
<1>1. CASE model.nested
  <2>1. Config = [text |-> Entries, top |-> Vision]
    BY <1>1 DEF Config, Entries
  <2> QED BY <2>1 DEF Lookup
<1>2. CASE ~model.nested
  <2>1. Config = [text |-> <<>>, top |-> Entries]
    BY <1>2 DEF Config, Entries
  <2>2. DOMAIN <<>> = {}
    OBVIOUS
  <2> QED BY <2>1, <2>2 DEF Lookup
<1> QED BY <1>1, <1>2

LEMMA HeadsSaid ==
    ASSUME model \in Models
    PROVE  LET m == model.of IN
           /\ Extract(Config, "num_attention_heads") = m.heads
           /\ Extract(Config, "num_key_value_heads") =
                IF m.heads = m.kvHeads THEN 0 ELSE m.kvHeads
           /\ Extract(Config, "head_dim") = IF m.heads = m.kvHeads THEN 0 ELSE m.headDim
           /\ m.heads = m.kvHeads => Extract(Config, "hidden_size") = m.heads * m.headDim
<1> DEFINE m == model.of
           sp == Spelling(m, model.style)
<1>1. DOMAIN sp \subseteq {"num_hidden_layers", "layer_types", "full_attention_interval",
                           "hybrid_override_pattern", "layers_block_type"}
  BY ModelFacts DEF Spelling
<1>2. DOMAIN Vision = {"num_attention_heads", "hidden_size"}
  BY DEF Vision
<1>3. Entries = Overlay(Heads(m), sp)
  BY DEF Entries
<1> HIDE DEF sp
<1>4. CASE m.heads = m.kvHeads
  <2>1. Heads(m) = [num_attention_heads |-> m.heads, hidden_size |-> m.heads * m.headDim]
    BY <1>4 DEF Heads
  <2>2. /\ DOMAIN Entries = {"num_attention_heads", "hidden_size"} \cup DOMAIN sp
        /\ Entries["num_attention_heads"] = m.heads
        /\ Entries["hidden_size"] = m.heads * m.headDim
    BY <1>3, <2>1 DEF Overlay
  <2> QED BY <1>1, <1>2, <1>4, <2>2, LookupSays DEF Extract
<1>5. CASE m.heads # m.kvHeads
  <2>1. Heads(m) = [num_attention_heads |-> m.heads, num_key_value_heads |-> m.kvHeads,
                    head_dim |-> m.headDim]
    BY <1>5 DEF Heads
  <2>2. /\ DOMAIN Entries = {"num_attention_heads", "num_key_value_heads", "head_dim"}
                               \cup DOMAIN sp
        /\ Entries["num_attention_heads"] = m.heads
        /\ Entries["num_key_value_heads"] = m.kvHeads
        /\ Entries["head_dim"] = m.headDim
    BY <1>3, <2>1 DEF Overlay
  <2> QED BY <1>1, <1>2, <1>5, <2>2, LookupSays DEF Extract
<1> QED BY <1>4, <1>5

(* Each way to write the layers down says one thing besides their number.  *)
LEMMA LayersSaid ==
    ASSUME model \in Models
    PROVE  LET m == model.of IN
           /\ Extract(Config, "num_hidden_layers") =
                IF model.style = "blocks" THEN 0 ELSE Len(m.stack)
           /\ ExtractRaw(Config, "layer_types") =
                IF model.style = "types"
                  THEN KindOf(m, "full_attention", "linear_attention") ELSE <<>>
           /\ Extract(Config, "full_attention_interval") =
                IF model.style = "interval" THEN CHOOSE k \in Intervals(m) : TRUE ELSE 0
           /\ ExtractRaw(Config, "hybrid_override_pattern") =
                IF model.style = "pattern" THEN KindOf(m, "*", "M") ELSE <<>>
           /\ ExtractRaw(Config, "layers_block_type") =
                IF model.style = "blocks" THEN KindOf(m, "attention", "mamba") ELSE <<>>
<1> DEFINE m == model.of
           h == Heads(m)
           sp == Spelling(m, model.style)
           keys == {"num_hidden_layers", "layer_types", "full_attention_interval",
                    "hybrid_override_pattern", "layers_block_type"}
<1>1. DOMAIN h \cap keys = {} /\ DOMAIN Vision \cap keys = {}
  BY DEF Heads, Vision
<1>2. Entries = Overlay(h, sp)
  BY DEF Entries
<1> HIDE DEF h
<1>3. ASSUME NEW key \in keys, NEW none
      PROVE  Lookup(Config, key, none) = IF key \in DOMAIN sp THEN sp[key] ELSE none
  <2> HIDE DEF sp
  <2>1. /\ key \in DOMAIN Entries <=> key \in DOMAIN sp
        /\ key \in DOMAIN sp => Entries[key] = sp[key]
    BY <1>1, <1>2 DEF Overlay
  <2> QED BY <1>1, <2>1, LookupSays
<1>4. CASE model.style = "plain"
  <2>1. sp = [num_hidden_layers |-> Len(m.stack)]
    BY <1>4 DEF Spelling
  <2> HIDE DEF sp
  <2> QED BY <1>3, <1>4, <2>1 DEF Extract, ExtractRaw
<1>5. CASE model.style = "types"
  <2>1. sp = [num_hidden_layers |-> Len(m.stack),
              layer_types |-> KindOf(m, "full_attention", "linear_attention")]
    BY <1>5 DEF Spelling
  <2> HIDE DEF sp
  <2> QED BY <1>3, <1>5, <2>1 DEF Extract, ExtractRaw
<1>6. CASE model.style = "interval"
  <2>1. sp = [num_hidden_layers |-> Len(m.stack),
              full_attention_interval |-> CHOOSE k \in Intervals(m) : TRUE]
    BY <1>6 DEF Spelling
  <2> HIDE DEF sp
  <2> QED BY <1>3, <1>6, <2>1 DEF Extract, ExtractRaw
<1>7. CASE model.style = "pattern"
  <2>1. sp = [num_hidden_layers |-> Len(m.stack),
              hybrid_override_pattern |-> KindOf(m, "*", "M")]
    BY <1>7 DEF Spelling
  <2> HIDE DEF sp
  <2> QED BY <1>3, <1>7, <2>1 DEF Extract, ExtractRaw
<1>8. CASE model.style = "blocks"
  <2>1. sp = [layers_block_type |-> KindOf(m, "attention", "mamba")]
    BY <1>8 DEF Spelling
  <2> HIDE DEF sp
  <2> QED BY <1>3, <1>8, <2>1 DEF Extract, ExtractRaw
<1> QED BY <1>4, <1>5, <1>6, <1>7, <1>8, ModelFacts

(* The one that is said comes first among those that say something.        *)
LEMMA AttentionLayersRight ==
    ASSUME model \in Models
    PROVE  AttentionLayers(Config, Len(model.of.stack)) = Count(model.of.stack, TRUE)
<1> DEFINE m == model.of
           n == Len(m.stack)
           c == Count(m.stack, TRUE)
           spelled == Spelled(Config, n)
           said == {i \in 1..4 : spelled[i] > 0}
           interval == Extract(Config, "full_attention_interval")
<1>1. m \in Shapes /\ n \in Nat \ {0} /\ c \in Nat \ {0}
      /\ DOMAIN m.stack = 1..n /\ m.stack \in [1..n -> BOOLEAN]
  BY ModelFacts, ShapeFacts
<1>2. AttentionLayers(Config, n) = IF said = {} THEN n ELSE spelled[Min(said)]
  BY DEF AttentionLayers
<1>3. spelled = << Count(ExtractRaw(Config, "layer_types"), "full_attention"),
                   IF interval > 1 THEN n \div interval ELSE 0,
                   Count(ExtractRaw(Config, "hybrid_override_pattern"), "*"),
                   Count(ExtractRaw(Config, "layers_block_type"), "attention") >>
  BY DEF Spelled
<1>4. spelled = << IF model.style = "types" THEN c ELSE 0,
                   IF model.style = "interval" THEN c ELSE 0,
                   IF model.style = "pattern" THEN c ELSE 0,
                   IF model.style = "blocks" THEN c ELSE 0 >>
  <2>1. Count(ExtractRaw(Config, "layer_types"), "full_attention")
          = IF model.style = "types" THEN c ELSE 0
    <3>1. Count(KindOf(m, "full_attention", "linear_attention"), "full_attention") = c
      BY <1>1, KindsCounted
    <3> HIDE DEF m, c
    <3> QED BY <3>1, LayersSaid, NothingCounted DEF m
  <2>2. Count(ExtractRaw(Config, "hybrid_override_pattern"), "*")
          = IF model.style = "pattern" THEN c ELSE 0
    <3>1. Count(KindOf(m, "*", "M"), "*") = c
      BY <1>1, KindsCounted
    <3> HIDE DEF m, c
    <3> QED BY <3>1, LayersSaid, NothingCounted DEF m
  <2>3. Count(ExtractRaw(Config, "layers_block_type"), "attention")
          = IF model.style = "blocks" THEN c ELSE 0
    <3>1. Count(KindOf(m, "attention", "mamba"), "attention") = c
      BY <1>1, KindsCounted
    <3> HIDE DEF m, c
    <3> QED BY <3>1, LayersSaid, NothingCounted DEF m
  <2>4. (IF interval > 1 THEN n \div interval ELSE 0)
          = IF model.style = "interval" THEN c ELSE 0
    <3>1. CASE model.style # "interval"
      BY <3>1, LayersSaid
    <3>2. CASE model.style = "interval"
      <4>1. interval \in Intervals(m)
        BY <3>2, LayersSaid, ModelFacts
      <4>2. /\ interval \in Nat /\ interval > 1
            /\ \A i \in 1..n : m.stack[i] <=> i % interval = 0
        BY <1>1, <4>1 DEF Intervals
      <4>3. {i \in DOMAIN m.stack : m.stack[i] = TRUE} = {i \in 1..n : i % interval = 0}
        BY <1>1, <4>2
      <4>4. Cardinality({i \in 1..n : i % interval = 0}) = n \div interval
        <5> HIDE DEF n, interval
        <5> QED BY <1>1, <4>2, MultiplesCounted
      <4>5. c = n \div interval
        BY <4>3, <4>4 DEF Count
      <4> QED BY <3>2, <4>2, <4>5
    <3> QED BY <3>1, <3>2
  <2> QED BY <1>3, <2>1, <2>2, <2>3, <2>4
<1> HIDE DEF spelled, c, n
<1>5. CASE model.style = "plain"
  <2>1. said = {}
    BY <1>4, <1>5
  <2>2. {i \in DOMAIN m.stack : m.stack[i] = TRUE} = 1..n
    BY <1>1, <1>5, ModelFacts
  <2>3. Cardinality(1..n) = n
    BY <1>1, SegmentFinite
  <2>4. c = n
    BY <2>2, <2>3 DEF Count, c
  <2> QED BY <1>2, <2>1, <2>4 DEF n, c
<1>6. CASE model.style # "plain"
  <2>1. PICK i \in 1..4 : spelled[i] = c /\ \A j \in 1..4 \ {i} : spelled[j] = 0
    <3>1. CASE model.style = "types"
      <4>1. spelled = <<c, 0, 0, 0>>
        BY <1>4, <3>1
      <4> QED BY <4>1
    <3>2. CASE model.style = "interval"
      <4>1. spelled = <<0, c, 0, 0>>
        BY <1>4, <3>2
      <4> QED BY <4>1
    <3>3. CASE model.style = "pattern"
      <4>1. spelled = <<0, 0, c, 0>>
        BY <1>4, <3>3
      <4> QED BY <4>1
    <3>4. CASE model.style = "blocks"
      <4>1. spelled = <<0, 0, 0, c>>
        BY <1>4, <3>4
      <4> QED BY <4>1
    <3> QED BY <1>6, <3>1, <3>2, <3>3, <3>4, ModelFacts
  <2>2. said = {i}
    BY <1>1, <2>1
  <2>3. Min(said) = i
    BY <2>2 DEF Min
  <2> QED BY <1>2, <2>1, <2>2, <2>3 DEF n, c
<1> QED BY <1>5, <1>6

(* The KV cache is sized for the layers that have one, for every model and *)
(* every way to write it down.                                             *)
LEMMA ParsedRight == model \in Models => ConfigIsUnderstood
<1> SUFFICES ASSUME model \in Models PROVE ConfigIsUnderstood
  OBVIOUS
<1> DEFINE m == model.of
           n == Len(m.stack)
           listed == Extract(Config, "num_hidden_layers")
           layers == IF listed # 0 THEN listed
                     ELSE Len(ExtractRaw(Config, "layers_block_type"))
           heads == Extract(Config, "num_attention_heads")
           kvs == Extract(Config, "num_key_value_heads")
           kvHeads == IF kvs # 0 THEN kvs ELSE heads
           dim == Extract(Config, "head_dim")
           headDim == IF dim # 0 \/ heads = 0 THEN dim
                      ELSE Extract(Config, "hidden_size") \div heads
<1>1. /\ m \in Shapes /\ n \in Nat \ {0}
      /\ m.heads \in Nat \ {0} /\ m.kvHeads \in Nat \ {0} /\ m.headDim \in Nat \ {0}
  BY ModelFacts, ShapeFacts
<1>2. layers = n
  <2>1. Len(KindOf(m, "attention", "mamba")) = n
    BY <1>1, KindsCounted
  <2> HIDE DEF n
  <2> QED BY <1>1, <2>1, LayersSaid DEF n
<1>3. kvHeads = m.kvHeads
  BY <1>1, HeadsSaid
<1>4. headDim = m.headDim
  <2>1. \A a, b \in Nat \ {0} : (a * b) \div a = b
    OBVIOUS
  <2> QED BY <1>1, <2>1, HeadsSaid
<1>5. ParseConfig(Config) =
        IF 0 \in {layers, kvHeads, headDim} THEN NoFacts
        ELSE [layers |-> layers, kvHeads |-> kvHeads, headDim |-> headDim,
              kvLayers |-> AttentionLayers(Config, layers)]
  BY DEF ParseConfig
<1> HIDE DEF layers, kvHeads, headDim
<1> QED BY <1>1, <1>2, <1>3, <1>4, <1>5, AttentionLayersRight DEF ConfigIsUnderstood

-----------------------------------------------------------------------------
(* Entries, as they are proposed, edited and accepted.                     *)

LEMMA NothingTyped == FieldsTyped(<<>>)
<1>1. DOMAIN <<>> = {}
  OBVIOUS
<1> QED BY <1>1 DEF FieldsTyped

LEMMA ProposedRange ==
    /\ DOMAIN ProposedGmem = {"min", "max"}
    /\ ProposedGmem["min"] = 40 * Parts /\ ProposedGmem["max"] = 85 * Parts
    /\ {40 * Parts, 85 * Parts} \subseteq Nat /\ 40 * Parts <= 85 * Parts
BY WholeFacts DEF ProposedGmem

LEMMA ProposalTyped ==
    ASSUME NEW r \in Repos, NEW raw \in Proposals(r)
    PROVE  FieldsTyped(raw)
<1>1. r.length \in Nat
  BY EntryAssumption
<1>2. CASE raw = DeriveGgufEntry(r)
  BY <1>2 DEF FieldsTyped, DeriveGgufEntry
<1>3. CASE raw = DeriveEntry(r)
  <2>1. DOMAIN raw \cap {"gmem_min", "gmem_max", "max_model_len", "max_num_seqs",
                         "safety_gib", "gmem", "nodes"}
          = {"max_model_len", "max_num_seqs", "safety_gib", "gmem"}
    BY <1>3 DEF DeriveEntry
  <2>2. /\ raw["max_model_len"] = (IF r.length # 0 THEN r.length ELSE 128)
        /\ raw["max_num_seqs"] = 10 /\ raw["safety_gib"] = 600
        /\ raw["gmem"] = ProposedGmem
    BY <1>3 DEF DeriveEntry
  <2>3. \A key \in {"min", "max"} : raw["gmem"][key] \in Nat
    BY <2>2, ProposedRange
  <2> HIDE DEF Proposals
  <2> QED BY <1>1, <2>1, <2>2, <2>3 DEF FieldsTyped
<1> QED BY <1>2, <1>3 DEF Proposals

LEMMA OverlayTyped ==
    ASSUME NEW f, NEW g, FieldsTyped(f), FieldsTyped(g)
    PROVE  FieldsTyped(Overlay(f, g))
<1> DEFINE o == Overlay(f, g)
<1>1. /\ DOMAIN o = DOMAIN f \cup DOMAIN g
      /\ \A k \in DOMAIN o : o[k] = IF k \in DOMAIN f THEN f[k] ELSE g[k]
  BY DEF Overlay
<1> HIDE DEF o
<1>2. ASSUME NEW k \in DOMAIN o
      PROVE  \/ k \in DOMAIN f /\ o[k] = f[k]
             \/ k \in DOMAIN g /\ o[k] = g[k]
  BY <1>1
<1>3. "gmem" \in DOMAIN o =>
        \A key \in {"min", "max"} \cap DOMAIN o["gmem"] : o["gmem"][key] \in Nat
  BY <1>2 DEF FieldsTyped
<1>4. \A key \in {"gmem_min", "gmem_max", "max_model_len", "max_num_seqs", "safety_gib"}
                   \cap DOMAIN o : o[key] \in Nat
  BY <1>2 DEF FieldsTyped
<1>5. "nodes" \in DOMAIN o => o["nodes"] \in 1..2
  BY <1>2 DEF FieldsTyped
<1> QED BY <1>3, <1>4, <1>5 DEF FieldsTyped, o

(* What add-model proposes passes validation as it stands, for any         *)
(* repository with a usable name and any defaults that have an image if    *)
(* the proposal has none.                                                  *)
LEMMA ProposalAccepted ==
    ASSUME NEW r, NEW raw \in Proposals(r), NEW defaults,
           Len(r.path) = 2, RepoName(r) \notin YamlSpecial \cup Taken,
           HasImage([raw |-> raw, defaults |-> defaults])
    PROVE  Accepted([raw |-> raw, defaults |-> defaults], Taken, TRUE)
<1> DEFINE m == [raw |-> raw, defaults |-> defaults]
<1>1. m.raw = raw /\ m.defaults = defaults
  OBVIOUS
<1>2. HasImage(m)
  OBVIOUS
<1> HIDE DEF m
<1>3. CASE raw = DeriveGgufEntry(r)
  <2>1. /\ raw["engine"] = "llamacpp" /\ raw["name"] = RepoName(r) /\ raw["hf_repo"] = r.path
        /\ {"gguf", "mount", "container", "ctx_size"} \subseteq DOMAIN raw
        /\ DOMAIN raw \cap {"aliases", "gmem", "nodes", "vllm_flags"} = {}
    BY <1>3 DEF DeriveGgufEntry
  <2>2. ServedNames(m) = {RepoName(r)} /\ Nodes(m) = 1 /\ Block(m) = <<>>
    BY <1>1, <2>1 DEF ServedNames, Nodes, Block, Raw, Has
  <2>3. DOMAIN Block(m) = {}
    BY <2>2
  <2>4. GmemAccepted(m)
    BY <2>3 DEF GmemAccepted, Overridden
  <2>5. NamesAccepted(m, Taken) /\ RepoAccepted(m) /\ NodesAccepted(m, TRUE)
    BY <1>1, <2>1, <2>2 DEF NamesAccepted, RepoAccepted, NodesAccepted
  <2> QED BY <1>1, <1>2, <2>1, <2>4, <2>5 DEF Accepted, Required, m
<1>4. CASE raw = DeriveEntry(r)
  <2>1. /\ raw["engine"] = "vllm" /\ raw["name"] = RepoName(r) /\ raw["hf_repo"] = r.path
        /\ {"path", "container", "max_model_len", "max_num_seqs", "kv_dtype_bytes", "gmem",
            "vllm_flags"} \subseteq DOMAIN raw
        /\ "aliases" \notin DOMAIN raw /\ "nodes" \notin DOMAIN raw
        /\ raw["kv_dtype_bytes"] = 1 /\ raw["gmem"] = ProposedGmem
        /\ raw["vllm_flags"] = {"--kv-cache-dtype_fp8", "--load-format_fastsafetensors"}
    BY <1>4 DEF DeriveEntry
  <2>2. /\ ServedNames(m) = {RepoName(r)} /\ Nodes(m) = 1 /\ Block(m) = ProposedGmem
        /\ Flags(m) = raw["vllm_flags"]
    BY <1>1, <2>1 DEF ServedNames, Nodes, Block, Flags, Raw, Has
  <2>3. /\ DOMAIN Block(m) = {"min", "max"}
        /\ Block(m)["min"] = 40 * Parts /\ Block(m)["max"] = 85 * Parts
    BY <2>2, ProposedRange
  <2>4. GmemMin(m) = 40 * Parts /\ GmemMax(m) = 85 * Parts /\ ~Overridden(m)
    BY <2>3 DEF GmemMin, GmemMax, Overridden
  <2>5. GmemAccepted(m)
    BY <2>3, <2>4, ProposedRange DEF GmemAccepted
  <2>6. NamesAccepted(m, Taken) /\ RepoAccepted(m) /\ NodesAccepted(m, TRUE)
    BY <1>1, <2>1, <2>2 DEF NamesAccepted, RepoAccepted, NodesAccepted
  <2>7. VllmAccepted(m)
    <3>1. "--quantization_mxfp4" \notin Flags(m) /\ "--kv-cache-dtype_auto" \notin Flags(m)
      BY <2>1, <2>2
    <3>2. Unset \notin {GmemMin(m), GmemMax(m)}
      BY <2>4, ProposedRange DEF Unset
    <3> QED BY <1>1, <2>1, <3>1, <3>2 DEF VllmAccepted
  <2> QED BY <1>1, <1>2, <2>1, <2>5, <2>6, <2>7 DEF Accepted, Required, m
<1> QED BY <1>3, <1>4 DEF Proposals

(* An accepted entry gives the sizing what it may rely on; only that the   *)
(* range is one is not sure.                                               *)
LEMMA ParamsFit ==
    ASSUME model \in Models, NEW e, FieldsTyped(e.raw), FieldsTyped(e.defaults),
           Accepted(e, Taken, TRUE), e.raw["engine"] = "vllm", NEW w \in Nat
    PROVE  LET p == LaunchParams(e, ParseConfig(Config), w) IN
           /\ ParamsTyped(p)
           /\ p.gmin = GmemMin(e) /\ p.gmax = GmemMax(e)
           /\ \A mi : mi.total \in Nat => BufferCovers(p, mi)
<1> DEFINE facts == ParseConfig(Config)
           p == LaunchParams(e, facts, w)
<1>1. /\ {"max_model_len", "max_num_seqs", "kv_dtype_bytes"} \subseteq DOMAIN e.raw
      /\ Unset \notin {GmemMin(e), GmemMax(e)}
      /\ e.raw["kv_dtype_bytes"] \in {1, 2}
  BY DEF Accepted, Required, VllmAccepted
<1>2. e.raw["max_model_len"] \in Nat /\ e.raw["max_num_seqs"] \in Nat
  BY <1>1 DEF FieldsTyped
<1>3. Get(e, "safety_gib", 600) \in Nat
  BY DEF Get, Has, FieldsTyped
<1>4. Nodes(e) \in Nat \ {0}
  BY DEF Nodes, Raw, Has, FieldsTyped
<1>5. GmemMin(e) \in Nat /\ GmemMax(e) \in Nat
  <2>1. \A key \in {"min", "max"} \cap DOMAIN Block(e) : Block(e)[key] \in Nat
    <3>1. CASE "gmem" \in DOMAIN e.raw
      BY <3>1 DEF Block, Raw, Has, FieldsTyped
    <3>2. CASE "gmem" \notin DOMAIN e.raw
      <4>1. Block(e) = <<>>
        BY <3>2 DEF Block, Raw, Has
      <4>2. DOMAIN <<>> = {}
        OBVIOUS
      <4> QED BY <4>1, <4>2
    <3> QED BY <3>1, <3>2
  <2>2. /\ "gmem_min" \in DOMAIN e.defaults => e.defaults["gmem_min"] \in Nat
        /\ "gmem_max" \in DOMAIN e.defaults => e.defaults["gmem_max"] \in Nat
    BY DEF FieldsTyped
  <2>3. GmemMin(e) # Unset /\ GmemMax(e) # Unset
    BY <1>1
  <2> QED BY <2>1, <2>2, <2>3 DEF GmemMin, GmemMax
<1>6. KvCache(facts, e.raw["max_model_len"], e.raw["kv_dtype_bytes"]) \in Nat
  <2>1. facts.kvLayers \in Nat /\ facts.kvHeads \in Nat /\ facts.headDim \in Nat
    <3>1. model.of \in Shapes
      BY ModelFacts
    <3>2. facts = [layers |-> Len(model.of.stack), kvHeads |-> model.of.kvHeads,
                   headDim |-> model.of.headDim, kvLayers |-> Count(model.of.stack, TRUE)]
      BY ParsedRight DEF ConfigIsUnderstood
    <3> HIDE DEF facts
    <3> QED BY <3>1, <3>2, ShapeFacts
  <2> DEFINE ctx == e.raw["max_model_len"]
             bytes == e.raw["kv_dtype_bytes"]
  <2>2. ctx \in Nat /\ bytes \in Nat
    BY <1>1, <1>2
  <2> HIDE DEF facts, ctx, bytes
  <2>3. \A a, b \in Nat : a * b \in Nat
    OBVIOUS
  <2>4. 2 * facts.kvLayers * facts.kvHeads * facts.headDim \in Nat
    BY <2>1, <2>3
  <2>5. 2 * facts.kvLayers * facts.kvHeads * facts.headDim * ctx * bytes \in Nat
    BY <2>2, <2>3, <2>4
  <2>6. \A a \in Nat : a \div 1024 \in Nat
    OBVIOUS
  <2> QED BY <2>5, <2>6 DEF KvCache, ctx, bytes
<1>7. /\ p.weights = w /\ p.seqs = e.raw["max_num_seqs"] /\ p.batch = 4
      /\ p.kv = KvCache(facts, e.raw["max_model_len"], e.raw["kv_dtype_bytes"])
      /\ p.safety = Get(e, "safety_gib", 600) /\ p.overhead = 630 /\ p.ceiling = 11781
      /\ p.gmin = GmemMin(e) /\ p.gmax = GmemMax(e) /\ p.buffer = 500 /\ p.tp = Nodes(e)
  BY DEF LaunchParams
<1> HIDE DEF p, facts
<1>8. ParamsTyped(p)
  BY <1>2, <1>3, <1>4, <1>5, <1>6, <1>7 DEF ParamsTyped
<1>9. \A mi : mi.total \in Nat => BufferCovers(p, mi)
  BY <1>7 DEF BufferCovers, Total, Capped, MinOf
<1> QED BY <1>7, <1>8, <1>9 DEF p, facts

-----------------------------------------------------------------------------
(* From the repository to the share.                                       *)

ReadingType == [total : Nat, avail : Nat]

\* what was launched is what was accepted, and stays
IsLaunched ==
    /\ IsAccepted /\ entry.raw["engine"] = "vllm"
    /\ params = LaunchParams(entry, ParseConfig(Config), repo.weights)

EntryInv ==
    /\ model \in Models /\ repo \in Repos
    /\ {headMem, workMem} \subseteq ReadingType
    /\ ReadingOK(headMem) /\ ReadingOK(workMem)
    /\ entry = [raw |-> entry.raw, defaults |-> entry.defaults]
    /\ FieldsTyped(entry.raw) /\ FieldsTyped(entry.defaults)
    /\ entry # NoEntry /\ ~edited => entry.raw \in Proposals(repo)
    /\ Launched => entry # NoEntry /\ IsLaunched

(* Memory only comes back, up to all there is.                             *)
LEMMA FreedGrows ==
    ASSUME NEW mi \in ReadingType, ReadingOK(mi), NEW step \in Nat
    PROVE  /\ Freed(mi, step) \in ReadingType /\ ReadingOK(Freed(mi, step))
           /\ Freed(mi, step).total = mi.total /\ mi.avail <= Freed(mi, step).avail
<1>1. mi.total \in Nat /\ mi.avail \in 0..mi.total
  BY DEF ReadingOK
<1>2. MinOf(mi.total, mi.avail + step) \in mi.avail..mi.total
  BY <1>1 DEF MinOf
<1>3. Freed(mi, step) = [mi EXCEPT !.avail = MinOf(mi.total, mi.avail + step)]
  BY DEF Freed
<1> QED BY <1>1, <1>2, <1>3 DEF ReadingType, ReadingOK

LEMMA ReadingsGrow ==
    ASSUME EntryInv, [EntryNext]_entryVars
    PROVE  /\ {headMem', workMem'} \subseteq ReadingType
           /\ ReadingOK(headMem') /\ ReadingOK(workMem')
           /\ headMem'.total = headMem.total /\ headMem.avail <= headMem'.avail
           /\ workMem'.total = workMem.total /\ workMem.avail <= workMem'.avail
<1>1. /\ headMem \in ReadingType /\ workMem \in ReadingType
      /\ ReadingOK(headMem) /\ ReadingOK(workMem)
      /\ HeadStep \in Nat /\ WorkerStep \in Nat
  BY EntryAssumption DEF EntryInv
<1>2. headMem' = headMem \/ headMem' = Freed(headMem, HeadStep)
  BY DEF EntryNext, AddModel, Edit, Launch, HeadFrees, WorkerFrees, entryVars
<1>3. workMem' = workMem \/ workMem' = Freed(workMem, WorkerStep)
  BY DEF EntryNext, AddModel, Edit, Launch, HeadFrees, WorkerFrees, entryVars
<1>4. headMem.avail <= headMem.avail /\ workMem.avail <= workMem.avail
  BY <1>1 DEF ReadingType
<1> QED BY <1>1, <1>2, <1>3, <1>4, FreedGrows

LEMMA EntryInvInit == EntryInit => EntryInv
<1> SUFFICES ASSUME EntryInit PROVE EntryInv
  OBVIOUS
<1>1. model \in Models /\ repo \in Repos /\ entry = NoEntry /\ ~Launched
  BY DEF EntryInit, Launched
<1>2. /\ {headMem, workMem} \subseteq ReadingType
      /\ ReadingOK(headMem) /\ ReadingOK(workMem)
  BY EntryAssumption DEF EntryInit, ReadingType, ReadingOK
<1>3. /\ entry = [raw |-> entry.raw, defaults |-> entry.defaults]
      /\ FieldsTyped(entry.raw) /\ FieldsTyped(entry.defaults)
  BY <1>1, NothingTyped DEF NoEntry
<1> QED BY <1>1, <1>2, <1>3 DEF EntryInv

LEMMA EntryInvStep == EntryInv /\ [EntryNext]_entryVars => EntryInv'
<1> SUFFICES ASSUME EntryInv, [EntryNext]_entryVars PROVE EntryInv'
  OBVIOUS
<1>1. /\ {headMem', workMem'} \subseteq ReadingType
      /\ ReadingOK(headMem') /\ ReadingOK(workMem')
  BY ReadingsGrow
<1>2. model' = model /\ repo' = repo
  BY DEF EntryNext, AddModel, Edit, Launch, HeadFrees, WorkerFrees, entryVars
<1>3. Config' = Config
  BY <1>2 DEF Config
<1>4. CASE AddModel
  <2>1. PICK raw \in Proposals(repo), defaults \in Defaults :
          entry' = [raw |-> raw, defaults |-> defaults]
    BY <1>4 DEF AddModel
  <2>2. FieldsTyped(raw) /\ FieldsTyped(defaults)
    BY ProposalTyped, EntryAssumption DEF EntryInv
  <2>3. ~Launched'
    BY <1>4 DEF AddModel, EntryInv, Launched
  <2> QED BY <1>1, <1>2, <2>1, <2>2, <2>3 DEF EntryInv
<1>5. CASE Edit
  <2>1. PICK edit \in Edits : entry' = [entry EXCEPT !.raw = Overlay(edit, @)]
    BY <1>5 DEF Edit
  <2>2. /\ entry'.raw = Overlay(edit, entry.raw) /\ entry'.defaults = entry.defaults
        /\ entry' = [raw |-> entry'.raw, defaults |-> entry'.defaults]
    BY <2>1 DEF EntryInv
  <2>3. FieldsTyped(entry'.raw) /\ FieldsTyped(entry'.defaults)
    BY <2>2, OverlayTyped, EntryAssumption DEF EntryInv
  <2>4. ~Launched' /\ edited'
    BY <1>5 DEF Edit, Launched
  <2> QED BY <1>1, <1>2, <2>2, <2>3, <2>4 DEF EntryInv
<1>6. CASE Launch
  <2>1. entry' = entry /\ edited' = edited /\ entry # NoEntry
    BY <1>6 DEF Launch
  <2>2. IsAccepted' /\ entry'.raw["engine"] = "vllm"
    BY <1>6, <2>1 DEF Launch, IsAccepted
  <2>3. params' = LaunchParams(entry', ParseConfig(Config'), repo'.weights)
    BY <1>2, <1>3, <1>6, <2>1 DEF Launch
  <2>4. IsLaunched'
    BY <2>2, <2>3 DEF IsLaunched
  <2> QED BY <1>1, <1>2, <2>1, <2>4 DEF EntryInv
<1>7. CASE HeadFrees \/ WorkerFrees \/ UNCHANGED entryVars
  <2>1. entry' = entry /\ edited' = edited /\ params' = params
    BY <1>7 DEF HeadFrees, WorkerFrees, entryVars
  <2>2. Launched' = Launched /\ IsAccepted' = IsAccepted
    BY <2>1 DEF Launched, IsAccepted
  <2>3. IsLaunched => IsLaunched'
    BY <1>2, <1>3, <2>1, <2>2 DEF IsLaunched
  <2> QED BY <1>1, <1>2, <2>1, <2>2, <2>3 DEF EntryInv
<1> QED BY <1>4, <1>5, <1>6, <1>7 DEF EntryNext

(* What every launched model is sized with.                                *)
LEMMA LaunchedFits ==
    ASSUME EntryInv, Launched
    PROVE  /\ ParamsTyped(params)
           /\ params.gmin = GmemMin(entry) /\ params.gmax = GmemMax(entry)
           /\ \A mi \in Readings : ReadingOK(mi) /\ BufferCovers(params, mi)
<1>1. /\ model \in Models /\ FieldsTyped(entry.raw) /\ FieldsTyped(entry.defaults)
      /\ Accepted(entry, Taken, TRUE) /\ entry.raw["engine"] = "vllm"
      /\ params = LaunchParams(entry, ParseConfig(Config), repo.weights)
  BY DEF EntryInv, IsLaunched, IsAccepted
<1>2. repo.weights \in Nat
  BY EntryAssumption DEF EntryInv
<1>3. \A mi \in Readings : ReadingOK(mi) /\ mi.total \in Nat
  BY DEF EntryInv, Readings, ReadingOK
<1>4. /\ ParamsTyped(params)
      /\ params.gmin = GmemMin(entry) /\ params.gmax = GmemMax(entry)
      /\ \A mi : mi.total \in Nat => BufferCovers(params, mi)
  BY <1>1, <1>2, ParamsFit
<1> QED BY <1>3, <1>4

(* No entry that validate accepts, whatever the model, the repository, the *)
(* defaults and the edits, is ever given a share that goes past the        *)
(* memory ceiling of its node or, on two nodes, past that of either.       *)
THEOREM EveryPlanUnderCeiling == EntrySpec => []PlansUnderCeiling
<1>1. ASSUME EntryInv PROVE PlansUnderCeiling
  <2>1. Launched => \A mi \in Readings :
          Plan(params, mi).gmem > 0 => WithinCeiling(params, mi, Plan(params, mi).gmem)
    BY <1>1, LaunchedFits, PlanUnderCeiling
  <2>2. Launched =>
          LET share == ClusterPlan(params, headMem, workMem).gmem
          IN  \A mi \in Readings : share > 0 => WithinCeiling(params, mi, share)
    BY <1>1, LaunchedFits, ClusterUnderCeiling DEF Readings
  <2> QED BY <2>1, <2>2 DEF PlansUnderCeiling
<1> QED BY <1>1, EntryInvInit, EntryInvStep, PTL DEF EntrySpec

(* Every plan of an accepted entry keeps to its range, if it is one, but   *)
(* for the last rounding, which misses an end by half a hundredth at most, *)
(* however finely the range is given.                                      *)
THEOREM EveryShareInRange == EntrySpec => []SharesInRange
<1>1. ASSUME EntryInv PROVE SharesInRange
  <2> SUFFICES ASSUME Launched, GmemMin(entry) <= GmemMax(entry), NEW mi \in Readings,
                      Plan(params, mi).mode # "ERR"
               PROVE  Plan(params, mi).gmem
                        \in RoundDiv(GmemMin(entry), Parts)..RoundDiv(GmemMax(entry), Parts)
    BY DEF SharesInRange
  <2>1. /\ ParamsTyped(params) /\ ReadingOK(mi)
        /\ params.gmin = GmemMin(entry) /\ params.gmax = GmemMax(entry)
    BY <1>1, LaunchedFits
  <2>2. /\ Plan(params, mi).gmem \in Nat
        /\ RoundDiv(params.gmin, Parts) <= Plan(params, mi).gmem
        /\ Plan(params, mi).gmem <= RoundDiv(params.gmax, Parts)
    BY <2>1, RangeRespected
  <2>3. params.gmin \in Nat /\ params.gmax \in Nat
    BY <2>1, Quantities
  <2>4. RoundDiv(params.gmin, Parts) \in Nat /\ RoundDiv(params.gmax, Parts) \in Nat
    BY <2>3, WholeFacts, RoundDivBounds
  <2> QED BY <2>1, <2>2, <2>4
<1> QED BY <1>1, EntryInvInit, EntryInvStep, PTL DEF EntrySpec

(* Any model with a layer that has a KV cache is understood, in each of    *)
(* the ways to write it down.                                              *)
THEOREM EveryConfigUnderstood == EntrySpec => []ConfigIsUnderstood
<1>1. EntryInv => ConfigIsUnderstood
  BY ParsedRight DEF EntryInv
<1> QED BY <1>1, EntryInvInit, EntryInvStep, PTL DEF EntrySpec

(* No repository whose name is usable gets a proposal that validate        *)
(* refuses.                                                                *)
THEOREM EveryProposalValid == EntrySpec => []ProposalIsValid
<1>1. ASSUME EntryInv PROVE ProposalIsValid
  <2> SUFFICES ASSUME entry # NoEntry, ~edited, NameIsUsable, HasImage(entry)
               PROVE  IsAccepted
    BY DEF ProposalIsValid
  <2>1. entry.raw \in Proposals(repo)
        /\ entry = [raw |-> entry.raw, defaults |-> entry.defaults]
    BY <1>1 DEF EntryInv
  <2> QED BY <2>1, ProposalAccepted DEF NameIsUsable, IsAccepted
<1> QED BY <1>1, EntryInvInit, EntryInvStep, PTL DEF EntrySpec

(* Memory that comes back never takes the plan of an accepted entry away,  *)
(* and never shrinks its share.                                            *)
THEOREM EveryFreeingHelps == EntrySpec => FreeingNeverHurts
<1> DEFINE Helps == Launched => \A pair \in {<<headMem, headMem'>>, <<workMem, workMem'>>} :
          LET before == Plan(params, pair[1])
              after  == Plan(params, pair[2])
          IN  before.mode # "ERR" => after.mode # "ERR" /\ before.gmem <= after.gmem
<1>1. ASSUME EntryInv, [EntryNext]_entryVars PROVE Helps
  <2> SUFFICES ASSUME Launched PROVE Helps
    OBVIOUS
  <2>1. ParamsTyped(params) /\ ReadingOK(headMem) /\ ReadingOK(workMem)
    BY <1>1, LaunchedFits DEF Readings
  <2>2. /\ ReadingOK(headMem') /\ ReadingOK(workMem')
        /\ headMem'.total = headMem.total /\ headMem.avail <= headMem'.avail
        /\ workMem'.total = workMem.total /\ workMem.avail <= workMem'.avail
    BY <1>1, ReadingsGrow
  <2> QED BY <2>1, <2>2, MoreMemoryNeverHurts
<1>2. ASSUME EntryInv, [EntryNext]_entryVars PROVE [Helps]_entryVars
  BY <1>1, <1>2
<1> QED BY <1>2, EntryInvInit, EntryInvStep, PTL DEF EntrySpec, FreeingNeverHurts
=============================================================================
