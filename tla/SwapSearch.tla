----------------------------- MODULE SwapSearch -----------------------------
(***************************************************************************)
(* How the RangeKeeper planner sizes a swap before it mints                *)
(* (strategy/rangekeeper/planner.ts, construct): find the input whose mint *)
(* deploys the most, then the smallest input that comes near it, by rounds *)
(* of nine quotes, within a budget of quotes.                              *)
(*                                                                         *)
(* A pool is reduced to the value a mint deploys after a swap of x: it is  *)
(* nothing for dust and out of range, rises to its peak and falls after    *)
(* it.  Quotes are external; prices and token amounts are left out.        *)
(***************************************************************************)
EXTENDS Integers, FiniteSets

CONSTANTS
    Bounds,          \* largest inputs the limits allow
    Ups, Downs,      \* slopes before and after the peak
    Floors,          \* least value worth a mint
    Starts,          \* value deployed without a swap
    PeakQuotes,      \* 320 and 400 in the code
    TargetQuotes,
    NearNum, NearDen \* RANGEKEEPER_NEAR_PEAK_PPM as a fraction

VARIABLES
    curve,    \* the pool and the limits
    search    \* the search

searchVars == <<curve, search>>

NoCurve == [bound |-> 0, peak |-> 0, up |-> 0, down |-> 0, dust |-> 0, start |-> 0, floor |-> 0, limit |-> 0]
NoSearch == [pc |-> "idle", lo |-> 0, hi |-> 0, peak |-> 0, round |-> 0, quotes |-> {}, result |-> 0]

PlanInit == curve = NoCurve /\ search = NoSearch

-----------------------------------------------------------------------------
(* What a quote says                                                       *)

Clip(x) == IF x < 0 THEN 0 ELSE x
Deployed(x) ==
    IF x <= curve.dust THEN 0
    ELSE IF x <= curve.peak THEN curve.start + curve.up * x
    ELSE Clip(curve.start + curve.up * curve.peak - curve.down * (x - curve.peak))

\* A candidate exists above the floor and below the shortfall cap; no quote is
\* asked for an input of zero.
Candidate(x) == x > 0 /\ x <= curve.limit /\ Deployed(x) >= curve.floor

Near(v) == (v * NearNum) \div NearDen
Highest(a, b) == IF a >= b THEN a ELSE b
\* mutant: the floor is the target.
FloorTarget(peak) == curve.floor
target(peak) == Highest(curve.floor, Near(Deployed(peak)))
meets(x, peak) == Candidate(x) /\ Deployed(x) >= target(peak)

grid(from, to) == [i \in 0..8 |-> from + (((to - from) * i) \div 8)]
Quoted(points) == search.quotes \union {points[i] : i \in {k \in 0..8 : points[k] > 0}}

-----------------------------------------------------------------------------
(* The search                                                              *)

\* construct: an exact inventory is minted without a swap.
Construct == \E b \in Bounds, up \in Ups, down \in Downs, f \in Floors, s \in Starts :
    \E p \in 1..b, dust \in {0, 2}, limit \in {1, b \div 2, b} :
    /\ search.pc = "idle"
    /\ curve' = [bound |-> b, peak |-> p, up |-> up, down |-> down, dust |-> dust, start |-> s,
                 floor |-> f, limit |-> limit]
    /\ search' = [NoSearch EXCEPT !.pc = "peak", !.lo = 1, !.hi = b]

\* The neighbours of the best point hold the peak.
\* mutant: only the right-hand neighbour is kept.
RightOfBest(points) ==
    LET best == CHOOSE i \in 0..8 :
            /\ \A j \in 0..8 : Deployed(points[j]) <= Deployed(points[i])
            /\ \A j \in 0..i - 1 : Deployed(points[j]) < Deployed(points[i])
    IN  [lo |-> points[best], hi |-> points[IF best = 8 THEN 8 ELSE best + 1]]
aroundBest(points) ==
    LET best == CHOOSE i \in 0..8 :
            /\ \A j \in 0..8 : Deployed(points[j]) <= Deployed(points[i])
            /\ \A j \in 0..i - 1 : Deployed(points[j]) < Deployed(points[i])
    IN  [lo |-> points[IF best = 0 THEN 0 ELSE best - 1], hi |-> points[IF best = 8 THEN 8 ELSE best + 1]]

Wide(span, budget) == search.hi - search.lo > span /\ Cardinality(search.quotes) < budget
Fail == search' = [search EXCEPT !.pc = "done", !.result = 0]

peakRound ==
    /\ search.pc = "peak" /\ Wide(8, PeakQuotes)
    /\ LET points == grid(search.lo, search.hi) IN
       search' = [search EXCEPT !.lo = aroundBest(points).lo, !.hi = aroundBest(points).hi, !.quotes = Quoted(points)]
    /\ UNCHANGED curve

\* The last few inputs are all quoted.
pickPeak ==
    /\ search.pc = "peak" /\ ~Wide(8, PeakQuotes)
    /\ LET last == search.lo..search.hi
           peak == CHOOSE x \in last :
                /\ \A y \in last : Deployed(y) <= Deployed(x)
                /\ \A y \in search.lo..x - 1 : Deployed(y) < Deployed(x)
       IN  IF search.hi - search.lo > 8 \/ Deployed(peak) < curve.floor THEN Fail
           ELSE search' = [search EXCEPT !.pc = "target", !.lo = 0, !.hi = peak, !.peak = peak,
                                         !.quotes = @ \union last]
    /\ UNCHANGED curve

\* The first point that meets the target bounds the answer from above.  Only
\* the first round may find that the shortfall cap hides it.
firstMeeting(points, peak) == {i \in 0..8 : meets(points[i], peak) /\ \A j \in 0..i - 1 : ~meets(points[j], peak)}

targetRound ==
    /\ search.pc = "target" /\ Wide(1, TargetQuotes)
    /\ LET points == grid(search.lo, search.hi)
           first  == firstMeeting(points, search.peak)
       IN  IF first = {}
           THEN IF search.round > 0 THEN Fail
                ELSE search' = [search EXCEPT !.pc = "fallback", !.lo = 0, !.hi = search.peak, !.round = 0,
                                              !.quotes = Quoted(points)]
           ELSE LET i == CHOOSE k \in first : TRUE IN
                IF i = 0 THEN Fail
                ELSE search' = [search EXCEPT !.lo = points[i - 1], !.hi = points[i], !.round = 1,
                                              !.quotes = Quoted(points)]
    /\ UNCHANGED curve

\* The predecessor must fail the target.
smallest(x, peak) == meets(x, peak) /\ ~(x > 1 /\ meets(x - 1, peak))

takeTarget ==
    /\ search.pc = "target" /\ ~Wide(1, TargetQuotes)
    /\ IF search.hi - search.lo > 1 \/ ~smallest(search.hi, search.peak) THEN Fail
       ELSE search' = [search EXCEPT !.pc = "done", !.result = search.hi, !.quotes = @ \union {search.hi, search.hi - 1}]
    /\ UNCHANGED curve

\* The largest candidate of the rising side.
lastCandidate(points) == {i \in 0..8 : Candidate(points[i]) /\ \A j \in i + 1..8 : ~Candidate(points[j])}

fallbackRound ==
    /\ search.pc = "fallback" /\ (search.round = 0 \/ Wide(1, TargetQuotes))
    /\ LET points == grid(search.lo, search.hi)
           last   == lastCandidate(points)
           k      == IF last = {} THEN 0 ELSE CHOOSE i \in last : TRUE
       IN  IF k = 8 \/ (search.round = 0 /\ last = {}) THEN Fail
           ELSE search' = [search EXCEPT !.lo = points[k], !.hi = points[k + 1], !.round = 1,
                                         !.quotes = Quoted(points)]
    /\ UNCHANGED curve

takeFallback ==
    /\ search.pc = "fallback" /\ search.round = 1 /\ ~Wide(1, TargetQuotes)
    /\ IF search.hi - search.lo > 1 \/ Candidate(search.hi) THEN Fail
       ELSE search' = [search EXCEPT !.pc = "done", !.result = IF Candidate(search.lo) THEN search.lo ELSE 0]
    /\ UNCHANGED curve

PlanNext == Construct \/ peakRound \/ pickPeak \/ targetRound \/ takeTarget \/ fallbackRound \/ takeFallback

PlanSpec == PlanInit /\ [][PlanNext]_searchVars

-----------------------------------------------------------------------------
Inputs == 1..curve.bound
TruePeak == CHOOSE x \in Inputs :
    /\ \A y \in Inputs : Deployed(y) <= Deployed(x)
    /\ \A y \in 1..x - 1 : Deployed(y) < Deployed(x)
Meeting == {x \in 1..TruePeak : Candidate(x) /\ Deployed(x) >= Near(Deployed(TruePeak))}
Feasible == {x \in 1..TruePeak : Candidate(x)}

\* The input the planner settles on is the smallest one near the true peak, or,
\* only where the shortfall cap cuts the rising side, the largest feasible one
\* (construct).
SwapIsMinimal ==
    search.pc = "done" /\ search.result # 0 =>
        \/ search.result \in Meeting /\ \A x \in Meeting : search.result <= x
        \/ /\ ~Candidate(TruePeak)
           /\ search.result \in Feasible /\ \A x \in Feasible : x <= search.result

\* A swap is found whenever the feasible inputs are more than an eighth of the
\* way to the peak, the spacing of the first quotes, unless the quotes run out
\* (construct).
SwapIsFound ==
    search.pc = "done" /\ search.result = 0 =>
        \/ 8 * Cardinality(Feasible) <= TruePeak
        \/ Cardinality(search.quotes) >= PeakQuotes

\* The swap search finds an input when there is one, and none that meets the
\* target with less.
SwapSound == SwapIsMinimal /\ SwapIsFound
=============================================================================
