---------------------------- MODULE PolicyReplay ----------------------------
(***************************************************************************)
(* Range policies replayed over stored evidence (oracle-policy/,           *)
(* joined-policy/, perp-basis/): strategy checkpoints mark the pool at the *)
(* head of the chain, the tail stores the swaps of buried blocks and takes *)
(* its overlap back before it scans it again, checkpoints are validated    *)
(* against the chain, and a basis run compares a checkpoint with a perp    *)
(* snapshot.  A replay reads all of this in one database snapshot.         *)
(*                                                                         *)
(* A block carries one swap.  The value of a position is its liquidity     *)
(* times Unit; prices are left out.  Height is the clock.                  *)
(***************************************************************************)
EXTENDS Integers, Sequences, FiniteSets

CONSTANTS
    Ticks,           \* ticks of a swap
    Depth,           \* confirmations before a block is indexed; deepest fork
    Overlap,         \* blocks the tail scans again
    Lookback,        \* checkpoints of a replay
    Widths,          \* half widths of the candidates, in tick spacings
    Modulus,         \* width of the pool's fee growth counter
    Unit,            \* value of one unit of liquidity
    Capital, EntryCost, MoveCost, ExitCost,
    MaxSkew,         \* maxSourceSkewSeconds and maxSourceAgeSeconds
    MaxPoolHeight, MaxPoolForks, MaxMarks, MaxQuotes   \* bounds

VARIABLES
    poolChain,   \* blocks: fork and tick of the swap
    poolForks,
    tail,        \* indexer cursor and the blocks whose swaps are stored
    marks,       \* strategy checkpoints with their stored canonicality
    quotes,      \* perp snapshots
    bases,       \* perp_pool_basis_runs
    replays      \* stored replays of both kinds

replayVars == <<poolChain, poolForks, tail, marks, quotes, bases, replays>>

height == Len(poolChain)

ReplayInit ==
    /\ poolChain = <<[fork |-> 0, tick |-> 1]>> /\ poolForks = 0
    /\ tail = [cursor |-> 0, rows |-> {}]
    /\ marks = <<>> /\ quotes = <<>> /\ bases = {} /\ replays = {}

-----------------------------------------------------------------------------
(* Chain, tail and collectors                                              *)

MineSwap == \E t \in Ticks :
    /\ height < MaxPoolHeight
    /\ poolChain' = Append(poolChain, [fork |-> poolForks, tick |-> t])
    /\ UNCHANGED <<poolForks, tail, marks, quotes, bases, replays>>

\* A fork replaces blocks that are not buried yet.
ReplaceHead == \E d \in 1..Depth :
    /\ poolForks < MaxPoolForks /\ height - d > tail.cursor /\ height > d
    /\ poolChain' = SubSeq(poolChain, 1, height - d)
    /\ poolForks' = poolForks + 1
    /\ UNCHANGED <<tail, marks, quotes, bases, replays>>

ScanBuried ==
    /\ tail.cursor < height - Depth
    /\ tail' = [cursor |-> height - Depth, rows |-> 1..height - Depth]
    /\ UNCHANGED <<poolChain, poolForks, marks, quotes, bases, replays>>

\* rewind lowers the cursor and deletes the rows above it together.
RewindOverlap ==
    LET to == IF tail.cursor > Overlap THEN tail.cursor - Overlap ELSE 0 IN
    /\ tail.cursor > 0
    /\ tail' = [cursor |-> to, rows |-> 1..to]
    /\ UNCHANGED <<poolChain, poolForks, marks, quotes, bases, replays>>

\* A checkpoint of the head; valid: its oracle mark passed.
collectMark == \E valid \in BOOLEAN :
    /\ Len(marks) < MaxMarks
    /\ \A i \in 1..Len(marks) : marks[i].block < height
    /\ marks' = Append(marks, [block |-> height, fork |-> poolChain[height].fork,
                               tick |-> poolChain[height].tick, valid |-> valid, proof |-> "none"])
    /\ UNCHANGED <<poolChain, poolForks, tail, quotes, bases, replays>>

OnChain(m) == m.block <= height /\ poolChain[m.block].fork = m.fork

validateMark == \E i \in 1..Len(marks) :
    LET found == IF OnChain(marks[i]) THEN "canonical" ELSE "replaced" IN
    /\ marks[i].proof # found /\ marks' = [marks EXCEPT ![i].proof = found]
    /\ UNCHANGED <<poolChain, poolForks, tail, quotes, bases, replays>>

\* evaluatePerpReference: a snapshot of the perp; what its own checks say is
\* a choice of each assessment that reads it.
capturePerp ==
    /\ Len(quotes) < MaxQuotes
    /\ quotes' = Append(quotes, [at |-> height])
    /\ UNCHANGED <<poolChain, poolForks, tail, marks, bases, replays>>

-----------------------------------------------------------------------------
(* Perp basis: the newest checkpoint against the newest perp snapshot      *)

Skew(i, q) ==
    IF marks[i].block > quotes[q].at THEN marks[i].block - quotes[q].at ELSE quotes[q].at - marks[i].block

\* evaluatePerpBasis; aligned: the snapshot's quality checks and those of quote
\* oracle, token and deviation.
evaluatePerpBasis(i, q, aligned) ==
    LET proven == marks[i].proof = "canonical"
        pass == /\ proven /\ aligned
                /\ height - marks[i].block <= MaxSkew /\ height - quotes[q].at <= MaxSkew
                /\ Skew(i, q) <= MaxSkew
    IN  [mark |-> i, quote |-> q, pass |-> pass]

\* loadLatest
Newest == CHOOSE i \in 1..Len(marks) : \A j \in 1..Len(marks) : marks[j].block <= marks[i].block

\* save keeps the first assessment of a checkpoint and snapshot.
assessBasis == \E aligned \in BOOLEAN :
    /\ marks # <<>> /\ quotes # <<>>
    /\ ~\E b \in bases : b.mark = Newest /\ b.quote = Len(quotes)
    /\ bases' = bases \cup {evaluatePerpBasis(Newest, Len(quotes), aligned)}
    /\ UNCHANGED <<poolChain, poolForks, tail, marks, quotes, replays>>

-----------------------------------------------------------------------------
(* One candidate over a window of checkpoints                              *)

\* The pool's growth counter, close to its limit when the chain starts.
feeGrowth(block) == (Modulus - 2 + block) % Modulus

\* mutant: a wrapped counter counts as no growth.
SubtractClipped(x, y) == IF x >= y THEN x - y ELSE 0
subtractUint256(x, y) == (x - y) % Modulus

Value(c) == c.liq * Unit + c.idle

\* centeredRange and the crossing rule of an interval.
Inside(tick, center, width) == center - width <= tick /\ tick < center + width

\* sizeLiquidityForQuoteBudget: whole units, the rest stays idle.
sizeLiquidity(c, value) == [c EXCEPT !.liq = value \div Unit, !.idle = value % Unit]

\* The position after the first checkpoint.
enterCandidate(m) ==
    LET c == sizeLiquidity([liq |-> 0, idle |-> 0, center |-> m.tick, fees |-> 0, cost |-> EntryCost,
                            fail |-> "none"], Capital - EntryCost)
    IN  CASE ~m.valid -> [c EXCEPT !.fail = "mark"]
          [] m.valid /\ c.liq = 0 -> [c EXCEPT !.fail = "small"]
          [] OTHER -> c

\* Recentering spends MoveCost and puts the idle fees back to work.
\* mutant: the fees stay idle as well.
MoveKeepingIdle(c, m) ==
    [sizeLiquidity(c, Value(c) - MoveCost) EXCEPT !.center = m.tick, !.cost = @ + MoveCost,
        !.idle = @ + c.idle]
rebalance(c, m) ==
    [sizeLiquidity(c, Value(c) - MoveCost) EXCEPT !.center = m.tick, !.cost = @ + MoveCost]

trigger(width) == IF width > 1 THEN width \div 2 ELSE 1
Distance(c, m) == IF m.tick > c.center THEN m.tick - c.center ELSE c.center - m.tick

\* One interval; path: ticks of the swaps between the two checkpoints.
replayInterval(c, a, b, width, path) ==
    LET fee == c.liq * subtractUint256(feeGrowth(b.block), feeGrowth(a.block))
        d == [c EXCEPT !.idle = @ + fee, !.fees = @ + fee]
        moved == rebalance(d, b)
    IN  CASE ~b.valid -> [c EXCEPT !.fail = "mark"]
          [] b.valid /\ \E t \in path \cup {a.tick, b.tick} : ~Inside(t, c.center, width) ->
                [c EXCEPT !.fail = "crossed"]
          [] OTHER ->
                IF Distance(c, b) < trigger(width) THEN d
                ELSE IF Value(d) <= MoveCost THEN [d EXCEPT !.fail = "cost"]
                ELSE IF moved.liq = 0 THEN [d EXCEPT !.fail = "small"] ELSE moved

\* replayOracleMarkedPolicies for one width: ms are the marks, rows the blocks
\* whose swaps are known.
replayCandidate(ms, width, rows) ==
    LET path(k) == {poolChain[b].tick : b \in {r \in rows : ms[k].block < r /\ r <= ms[k + 1].block}}
        run[k \in 1..Len(ms)] ==
            IF k = 1 THEN enterCandidate(ms[1])
            ELSE IF run[k - 1].fail # "none" THEN run[k - 1]
            ELSE replayInterval(run[k - 1], ms[k - 1], ms[k], width, path(k - 1))
    IN  run[Len(ms)]

replayOracleMarkedPolicies(ms, rows) == [w \in Widths |-> replayCandidate(ms, w, rows)]

\* applyExitCost: charged once, after the final checkpoint.
applyExitCost(c) ==
    CASE c.fail # "none" -> c
      [] c.fail = "none" /\ Value(c) <= ExitCost -> [c EXCEPT !.fail = "exit"]
      [] OTHER -> [sizeLiquidity(c, Value(c) - ExitCost) EXCEPT !.cost = @ + ExitCost]

-----------------------------------------------------------------------------
(* Loading and saving replays                                              *)

Blocks(is) == {marks[i].block : i \in is}

\* The last Lookback of a set of checkpoints, by block.
LastMarks(is) == {i \in is : Cardinality({j \in is : marks[j].block > marks[i].block}) < Lookback}

InOrder(is) == CHOOSE s \in [1..Lookback -> is] : \A a, b \in 1..Lookback : a < b => marks[s[a]].block < marks[s[b]].block

\* The tail has scanned up to the last checkpoint of the window.
\* mutant: nobody asks how far the tail has come.
AnyCoverage(is) == TRUE
covered(is) == \A b \in Blocks(is) : b <= tail.cursor

\* load of oracle-policy: every checkpoint of the window has its proof.
loadOracleWindow ==
    LET is == LastMarks(1..Len(marks)) IN
    IF /\ Cardinality(is) = Lookback /\ covered(is)
       /\ \A i \in is : marks[i].proof = "canonical"
    THEN InOrder(is) ELSE <<>>

\* load of joined-policy: checkpoints with a passing assessment, whose proof
\* was looked at when they were assessed.
loadJoinedWindow ==
    LET is == LastMarks({b.mark : b \in {x \in bases : x.pass}}) IN
    IF Cardinality(is) = Lookback /\ covered(is) THEN InOrder(is) ELSE <<>>

\* The joined replay marks every selected checkpoint as valid: by Chainlink
\* where it is available, otherwise by the perp.
selectedReference(m) == [m EXCEPT !.valid = TRUE]

save(kind, window, ms, results) ==
    replays' = IF \E r \in replays : r.kind = kind /\ r.window = window THEN replays
               ELSE replays \cup {[kind |-> kind, window |-> window, marks |-> ms, results |-> results]}

saveJoined(window, ms, results) == save("joined", window, ms, results)

oraclePolicyReplay ==
    LET w == loadOracleWindow
        ms == [k \in 1..Len(w) |-> marks[w[k]]]
    IN
    /\ w # <<>>
    /\ save("oracle", w, ms, replayOracleMarkedPolicies(ms, tail.rows))
    /\ UNCHANGED <<poolChain, poolForks, tail, marks, quotes, bases>>

joinedPolicyReplay ==
    LET w == loadJoinedWindow
        ms == [k \in 1..Len(w) |-> selectedReference(marks[w[k]])]
        core == replayOracleMarkedPolicies(ms, tail.rows)
    IN
    /\ w # <<>>
    /\ saveJoined(w, ms, [v \in Widths |-> applyExitCost(core[v])])
    /\ UNCHANGED <<poolChain, poolForks, tail, marks, quotes, bases>>

ReplayNext ==
    \/ MineSwap \/ ReplaceHead \/ ScanBuried \/ RewindOverlap
    \/ collectMark \/ validateMark \/ capturePerp \/ assessBasis
    \/ oraclePolicyReplay \/ joinedPolicyReplay

ReplaySpec == ReplayInit /\ [][ReplayNext]_replayVars

-----------------------------------------------------------------------------
\* A replay over checkpoints that are on the chain is the replay over the
\* chain's own swaps: no excursion is missed because the tail was behind or
\* had just taken its overlap back.
CertifiedPathSeen ==
    \A r \in replays : (\A k \in 1..Lookback : OnChain(r.marks[k])) =>
        LET whole == replayOracleMarkedPolicies(r.marks, 1..height) IN
        r.results = IF r.kind = "oracle" THEN whole ELSE [w \in Widths |-> applyExitCost(whole[w])]

\* A candidate that completes ends with its budget plus the fees its liquidity
\* earned over the window less every cost charged, also across a wrapped
\* counter and recenters.
CapitalConserved ==
    \A r \in replays, w \in Widths :
        LET c == r.results[w] IN c.fail = "none" => Value(c) + c.cost = Capital + c.fees

\* The fees of a candidate that never moved are its liquidity's share of the
\* growth between the ends of the window, although the counter wrapped.
FeesAreGrowth ==
    \A r \in replays, w \in Widths :
        LET c == r.results[w] IN
        c.fail = "none" /\ c.cost \in {EntryCost, EntryCost + ExitCost} =>
            c.fees = ((Capital - EntryCost) \div Unit) * (r.marks[Lookback].block - r.marks[1].block)

\* A certified policy replay saw every swap of its path, kept its capital
\* through every move and earned what the fee counters grew by.
ReplaySound == CertifiedPathSeen /\ CapitalConserved /\ FeesAreGrowth
=============================================================================
