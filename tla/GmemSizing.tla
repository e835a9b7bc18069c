----------------------------- MODULE GmemSizing -----------------------------
(***************************************************************************)
(* compute_gmem and size_cluster of launch.py as operators.  Memory, and a *)
(* plan's share, are in hundredths, which is what g2 leaves of them.  The  *)
(* range gmem.min..gmem.max is not rounded by the code; its ends are in    *)
(* parts of a hundredth, Parts to one, and every pair of decimals, or of   *)
(* floats, is a pair of such numbers for some Parts.  The ratio u is kept  *)
(* exact, as its numerator over Whole * total.  A tie goes up in g2, and   *)
(* may go to the even digit in the code.  The tunables safety, overhead    *)
(* and ceiling enter sums that g2 rounds; the buffer does not, and is      *)
(* taken to be in hundredths all the same.                                 *)
(*                                                                         *)
(* A parameter record p has fields weights, kv (the KV cache of one        *)
(* sequence, in MiB), seqs, batch, safety, overhead, ceiling, gmin, gmax,  *)
(* buffer and tp; mi is a reading of /proc/meminfo with fields total and   *)
(* avail.                                                                  *)
(***************************************************************************)
EXTENDS Integers

CONSTANT Parts  \* how fine gmem.min and gmem.max are given

ASSUME PartsAssumption == Parts \in Nat \ {0}

Whole == 100 * Parts  \* a share of 1

MinOf(a, b) == IF a <= b THEN a ELSE b
MaxOf(a, b) == IF a >= b THEN a ELSE b
PosPart(a)  == MaxOf(0, a)

\* g2 of a quotient: to the nearest whole number, of hundredths
RoundDiv(a, b) == (2 * a + b) \div (2 * b)

-----------------------------------------------------------------------------
(* What the model needs on one node.                                       *)
KvBatch(p) == MinOf(p.seqs, p.batch)

Need(p) ==
    RoundDiv(p.weights, p.tp) + RoundDiv(100 * p.kv * KvBatch(p), 1024 * p.tp) + p.safety

-----------------------------------------------------------------------------
(* What the node offers, as CUDA will see it once capped.                  *)
Headroom(p, mi) == PosPart(mi.total - p.ceiling)
Capped(p, mi)   == MinOf(mi.total, p.ceiling)
Total(p, mi)    == Capped(p, mi) - p.overhead

\* slip: the headroom above the ceiling is not held back
FreeWithoutHeadroom(p, mi) == PosPart(mi.avail - p.overhead)

Free(p, mi)     == PosPart(mi.avail - Headroom(p, mi) - p.overhead)

\* u_cap, over Whole * Total
CapNum(p, mi)   == Whole * PosPart(Free(p, mi) - p.buffer)

-----------------------------------------------------------------------------
Fits(p, mi) == Total(p, mi) > 0 /\ CapNum(p, mi) >= p.gmin * Total(p, mi)

\* slip: the floor is forgotten
SizedWithoutFloor(p, mi) ==
    MinOf(CapNum(p, mi), MinOf(p.gmax * Total(p, mi), Whole * Need(p)))

\* u of a model whose estimate is covered by the free memory
SizedNum(p, mi) ==
    MinOf(CapNum(p, mi),
          MaxOf(p.gmin * Total(p, mi),
                MinOf(p.gmax * Total(p, mi), Whole * Need(p))))

\* slip: the fallback is not held to the cap
UncappedFallback(p, mi) == p.gmax * Total(p, mi)

\* u of one whose estimate exceeds it: as much as is allowed
FallbackNum(p, mi) ==
    MaxOf(p.gmin * Total(p, mi), MinOf(CapNum(p, mi), p.gmax * Total(p, mi)))

ShareNum(p, mi) ==
    IF Need(p) <= Free(p, mi) THEN SizedNum(p, mi) ELSE FallbackNum(p, mi)

\* slip: the share is cut off after two decimals
Truncated(p, mi) ==
    IF ~Fits(p, mi) THEN [mode |-> "ERR", gmem |-> 0]
    ELSE [mode |-> IF Need(p) <= Free(p, mi) THEN "sized" ELSE "fallback",
          gmem |-> ShareNum(p, mi) \div (Parts * Total(p, mi))]

(* (gmem, mode) of compute_gmem; gmem is 0 where the code has None.        *)
Plan(p, mi) ==
    IF ~Fits(p, mi) THEN [mode |-> "ERR", gmem |-> 0]
    ELSE [mode |-> IF Need(p) <= Free(p, mi) THEN "sized" ELSE "fallback",
          gmem |-> RoundDiv(ShareNum(p, mi), Parts * Total(p, mi))]

\* slip: both nodes get the larger share
LargerShare(p, head, work) ==
    LET h == Plan(p, head)
        w == Plan(p, work)
    IN  IF "ERR" \in {h.mode, w.mode} THEN [mode |-> "ERR", gmem |-> 0]
        ELSE [mode |-> "sized", gmem |-> MaxOf(h.gmem, w.gmem)]

(* size_cluster: both nodes at tp=2 get the smaller share.                 *)
ClusterPlan(p, head, work) ==
    LET h == Plan(p, head)
        w == Plan(p, work)
    IN  IF "ERR" \in {h.mode, w.mode} THEN [mode |-> "ERR", gmem |-> 0]
        ELSE [mode |-> IF "fallback" \in {h.mode, w.mode} THEN "fallback" ELSE "sized",
              gmem |-> MinOf(h.gmem, w.gmem)]

(* short_of_memory: the free memory does not cover the share and what      *)
(* vLLM uses beyond it.                                                    *)
Short(p, mi, margin) ==
    LET plan == Plan(p, mi)
    IN  plan.mode = "ERR" \/ 100 * Free(p, mi) < plan.gmem * Total(p, mi) + 100 * margin

-----------------------------------------------------------------------------
(* What a plan promises.                                                   *)

\* a share of `gmem` and the CUDA overhead on top of what is used already
WithinCeiling(p, mi, gmem) ==
    100 * (mi.total - mi.avail + p.overhead) + gmem * Total(p, mi)
        <= 100 * Capped(p, mi)

ParamsTyped(p) ==
    /\ {p.weights, p.kv, p.seqs, p.batch, p.safety, p.overhead, p.ceiling,
        p.gmin, p.gmax, p.buffer} \subseteq Nat
    /\ p.tp \in Nat \ {0}

ReadingOK(mi) == mi.total \in Nat /\ mi.avail \in 0..mi.total

\* the free buffer absorbs the half hundredth the last rounding may add
BufferCovers(p, mi) == Total(p, mi) <= 200 * p.buffer
=============================================================================
