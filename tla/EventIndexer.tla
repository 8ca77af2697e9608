---------------------------- MODULE EventIndexer ----------------------------
(***************************************************************************)
(* The event indexer, the tail loop that drives it and the replay that     *)
(* derives pool state from the stored events (indexer/runner.ts,           *)
(* indexer/store.ts, indexer/logs.ts, tail/runner.ts, tail/lock.ts,        *)
(* replay/runner.ts, replay/store.ts, backfill.ts, replay.ts).             *)
(*                                                                         *)
(* A block is its fork (the stand-in for its hash: every reorg gives the   *)
(* blocks it replaces a fork never used before) and whether it carries a   *)
(* pool log.  A stored event is <<block number, fork>>.  Every database    *)
(* transaction and every RPC read of the code is one step, so a reorg, a   *)
(* crash or another process may come between any two of them.              *)
(***************************************************************************)
EXTENDS Integers, Sequences, FiniteSets, FiniteSetsExt

CONSTANTS
  Tails,        \* conc-liq-tail processes
  Backfills,    \* manual "npm run backfill" processes
  Replayers,    \* standalone "npm run replay" processes
  None,
  Floor,        \* manifestFromBlock: the oldest pool's creation block
  Depth,        \* INDEXER_CONFIRMATION_DEPTH
  Overlap,      \* INDEXER_REORG_OVERLAP
  MinChunk, InitChunk, MaxChunk,
  BatchSize,    \* REPLAY_BATCH_SIZE
  CheckpointLimit,  \* recentCheckpoints' limit (128)
  MaxFailures,  \* TAIL_MAX_CONSECUTIVE_FAILURES
  MaxBlock, MaxReorgs, MaxFaults, \* bounds of the model
  Faults,       \* subset of {"crash", "rpc", "circuit", "lockloss"}
  ScanSpan,     \* how many blocks a reorg may replace while a scan is under way
  RestSpan      \* how many it may replace otherwise

ASSUME IndexerAssumption ==
  /\ {Floor, MinChunk, InitChunk, MaxChunk, BatchSize, CheckpointLimit,
      MaxFailures} \subseteq Nat \ {0}
  /\ {Depth, Overlap, MaxBlock, MaxReorgs, MaxFaults, ScanSpan, RestSpan} \subseteq Nat
  /\ MinChunk <= InitChunk /\ InitChunk <= MaxChunk
  /\ Floor <= MaxBlock /\ Depth <= MaxBlock
  /\ None \notin Tails \cup Backfills \cup Replayers \cup Nat /\ None \notin Nat \X Nat
  /\ Tails \cap Backfills = {} /\ (Tails \cup Backfills) \cap Replayers = {}

VARIABLES
  chain,        \* the canonical chain: chain[b] for b in 1 .. head
  forks, top,   \* reorgs so far; the highest block that ever existed
  faults,       \* faults so far
  events,       \* v3_pool_events
  checkpoints,  \* indexer_checkpoints: <<block, fork>>
  cursor,       \* indexer_cursors: None or [next, last, fork, covered]
  coverage,     \* indexer_event_timestamp_coverage: None or [from, through]
  scanned,      \* history: the blocks whose last transaction stored a scan
  replay,       \* v3_replay_cursors: None or [last, complete]
  applied,      \* the events folded into the derived pool state
  tailLock, replayLock,  \* session advisory locks v3-tail:, v3-replay:
  proc          \* the processes

db == <<events, checkpoints, cursor, coverage, scanned>>
derived == <<replay, applied>>
world == <<chain, forks, top>>
vars == <<chain, forks, top, faults, events, checkpoints, cursor, coverage,
          scanned, replay, applied, tailLock, replayLock, proc>>

Procs == Tails \cup Backfills \cup Replayers
Blocks == 1 .. MaxBlock
Forks == 0 .. MaxReorgs
Events == Blocks \X Forks

Lesser(a, b) == IF a <= b THEN a ELSE b
Greater(a, b) == IF a >= b THEN a ELSE b

(* The pool logs of the canonical chain in a block range, as getLogs answers. *)
Logs(from, to) ==
  {<<b, chain[b].fork>> : b \in {n \in from .. Lesser(to, Len(chain)) : chain[n].log}}

Upto(set, block) == {e \in set : e[1] <= block}
After(set, block) == {e \in set : e[1] >= block}

-----------------------------------------------------------------------------
(* Processes.  A scan is under way from the plan to the last saved chunk.  *)

Off == [pc |-> "off", failures |-> 0, size |-> InitChunk, explicit |-> None,
        target |-> 0, from |-> 0, next |-> 0, to |-> 0, logs |-> {}, fork |-> 0,
        source |-> None, last |-> None, rebuild |-> FALSE, began |-> 0]

ScanSteps == {"plan", "rewind", "logs", "headers", "save"}
ReplaySteps == {"open", "source", "validate", "fetch", "apply", "check", "mark"}

At(p, step) == proc[p].pc = step
Become(p, state) == proc' = [proc EXCEPT ![p] = state]
Goto(p, step) == Become(p, [proc[p] EXCEPT !.pc = step])

Init ==
  /\ chain = [b \in 1 .. Greater(Depth, Floor) |-> [fork |-> 0, log |-> FALSE]]
  /\ forks = 0 /\ top = Greater(Depth, Floor) /\ faults = 0
  /\ events = {} /\ checkpoints = {} /\ cursor = None /\ coverage = None /\ scanned = {}
  /\ replay = None /\ applied = {}
  /\ tailLock = None /\ replayLock = None
  /\ proc = [p \in Procs |-> Off]

-----------------------------------------------------------------------------
(* The chain. *)

Extend(log) ==
  /\ Len(chain) < MaxBlock
  /\ chain' = Append(chain, [fork |-> forks, log |-> log])
  /\ top' = Greater(top, Len(chain) + 1)
  /\ UNCHANGED <<forks, faults, db, derived, tailLock, replayLock, proc>>

(* The tip checkpoint is in place: the last scanned block is the block      *)
(* before the next one, so findCanonicalAnchor looks at everything stored.  *)
Anchored == cursor /= None => cursor.last = cursor.next - 1

Span == IF (\E p \in Procs : proc[p].pc \in ScanSteps) \/ ~Anchored
        THEN ScanSpan ELSE RestSpan

(* Blocks from `from' on are replaced, by a branch that may be shorter. *)
Reorg(from, length, logs) ==
  /\ forks < MaxReorgs
  /\ from > top - Span
  /\ chain' = [b \in 1 .. from - 1 + length |->
                 IF b < from THEN chain[b] ELSE [fork |-> forks + 1, log |-> b \in logs]]
  /\ forks' = forks + 1
  /\ top' = Greater(top, from - 1 + length)
  /\ UNCHANGED <<faults, db, derived, tailLock, replayLock, proc>>

-----------------------------------------------------------------------------
(* Starting, failing and dying. *)

(* Releasing a process's session locks, whether it closes or dies. *)
Release(p) ==
  /\ tailLock' = IF tailLock = p THEN None ELSE tailLock
  /\ replayLock' = IF replayLock = p THEN None ELSE replayLock

(* PostgresTailLock.acquire, then the first cycle of runTail. *)
StartTail(p) ==
  /\ p \in Tails /\ At(p, "off") /\ tailLock = None
  /\ tailLock' = p
  /\ Become(p, [Off EXCEPT !.pc = "idle"])
  /\ UNCHANGED <<world, faults, db, derived, replayLock>>

SafeHead == Len(chain) - Depth

(* The backfill command: --to-block below the safe head, and --from-block   *)
(* to rewind on purpose, never past the stored cursor.                      *)
StartBackfill(p, to, explicit) ==
  /\ p \in Backfills /\ At(p, "off") /\ tailLock = None
  /\ Len(chain) >= Depth /\ to <= SafeHead
  /\ explicit /= None => cursor /= None /\ explicit <= cursor.next
  /\ tailLock' = p
  /\ Become(p, [Off EXCEPT !.pc = "plan", !.target = to, !.explicit = explicit, !.began = forks])
  /\ UNCHANGED <<world, faults, db, derived, replayLock>>

(* The replay command; --rebuild is the operator's choice. *)
StartReplay(p, rebuild) ==
  /\ p \in Replayers /\ At(p, "off") /\ replayLock = None
  /\ replayLock' = p
  /\ Become(p, [Off EXCEPT !.pc = "source", !.rebuild = rebuild])
  /\ UNCHANGED <<world, faults, db, derived, tailLock>>

(* An error leaves the cycle: runTail counts it and gives up at the limit;  *)
(* an open health circuit is a pause, not a failure; a command just exits.  *)
Abandon(p, circuit) ==
  LET failures == IF circuit THEN 0 ELSE proc[p].failures + 1
      stop == p \notin Tails \/ failures >= MaxFailures
  IN IF stop
     THEN /\ Become(p, Off) /\ Release(p)
     ELSE /\ Become(p, [Off EXCEPT !.pc = "idle", !.failures = failures])
          /\ replayLock' = IF replayLock = p THEN None ELSE replayLock
          /\ UNCHANGED tailLock

Fail(p) == Abandon(p, FALSE) /\ UNCHANGED <<world, faults, db, derived>>

(* runTailCycle: the head and calculateSafeHead below it. *)
StartCycle(p) ==
  /\ At(p, "idle")
  /\ IF Len(chain) >= Depth
     THEN /\ Become(p, [Off EXCEPT !.pc = "plan", !.target = SafeHead, !.began = forks,
                                   !.failures = proc[p].failures])
          /\ UNCHANGED <<world, faults, db, derived, tailLock, replayLock>>
     ELSE Fail(p)

(* A kill, or the host going down, between any two steps. *)
Crash(p) ==
  /\ "crash" \in Faults /\ faults < MaxFaults /\ ~At(p, "off")
  /\ faults' = faults + 1
  /\ Become(p, Off) /\ Release(p)
  /\ UNCHANGED <<world, db, derived>>

(* The lock connection drops: PostgreSQL frees the lock, nobody notices. *)
LoseLock(p) ==
  /\ "lockloss" \in Faults /\ faults < MaxFaults /\ tailLock = p
  /\ faults' = faults + 1
  /\ tailLock' = None
  /\ UNCHANGED <<world, db, derived, replayLock, proc>>

-----------------------------------------------------------------------------
(* Where a scan resumes. *)

(* The cursor's own block, then the newest checkpoints, newest first. *)
Candidates ==
  LET newest == {c \in checkpoints :
                   Cardinality({d \in checkpoints : d[1] > c[1]}) < CheckpointLimit}
  IN {<<cursor.last, cursor.fork>>} \cup {c \in newest : c[1] /= cursor.last}

OnChain(c) == c[1] <= Len(chain) /\ chain[c[1]].fork = c[2]

TrustedAnchor == cursor.last

(* The search stops at the first candidate that is canonical. *)
findCanonicalAnchor ==
  IF OnChain(<<cursor.last, cursor.fork>>) THEN cursor.last
  ELSE IF \E c \in Candidates : OnChain(c)
       THEN Max({c[1] : c \in {d \in Candidates : OnChain(d)}})
       ELSE None

(* getBlock throws for a candidate beyond the head. *)
AnchorReadable ==
  cursor = None \/ cursor.last = None
  \/ /\ cursor.last <= Len(chain)
     /\ OnChain(<<cursor.last, cursor.fork>>) \/ \A c \in Candidates : c[1] <= Len(chain)

calculateResumeStart(explicit) ==
  LET floor == IF explicit = None THEN Floor ELSE explicit
      wanted == IF explicit = None THEN cursor.next ELSE Lesser(explicit, cursor.next)
      resume == IF cursor.last = None \/ findCanonicalAnchor = cursor.last THEN wanted
                ELSE IF findCanonicalAnchor = None THEN floor
                ELSE Lesser(wanted, findCanonicalAnchor + 1)
  IN IF cursor = None THEN floor
     ELSE Greater(floor, Greater(resume - Overlap, 0))

(* runBackfill up to the rewind: cursor, anchor search, resume point and    *)
(* the canonical block before it.                                           *)
Plan(p) ==
  /\ At(p, "plan")
  /\ LET from == calculateResumeStart(proc[p].explicit)
     IN IF AnchorReadable /\ from - 1 <= Len(chain)
        THEN /\ Become(p, [proc[p] EXCEPT !.pc = "rewind", !.from = from])
             /\ UNCHANGED <<world, faults, db, derived, tailLock, replayLock>>
        ELSE Fail(p)

(* runBackfill after its last chunk: the tail goes on to replay. *)
ScanDone(p) ==
  IF p \in Tails
  THEN [Off EXCEPT !.pc = "open", !.target = proc[p].target, !.began = proc[p].began,
                   !.failures = proc[p].failures]
  ELSE Off

-----------------------------------------------------------------------------
(* PostgresEventStore. *)

(* The coverage row a rewind leaves: the row is dropped when it starts at   *)
(* or after the first block rewound, and its end is only pulled back when   *)
(* it starts strictly below the boundary block from - 1.                    *)
TrimmedCoverage(from) ==
  IF coverage = None \/ from = 0 \/ coverage.from >= from THEN None
  ELSE IF coverage.from < from - 1
       THEN [coverage EXCEPT !.through = Lesser(coverage.through, from - 1)]
       ELSE coverage

HighWaterKept(from) ==
  [next |-> from, last |-> None, fork |-> 0,
   covered |-> IF cursor = None THEN from - 1 ELSE cursor.covered]

RewoundCursor(from) ==
  LET kept == {c \in checkpoints : c[1] < from}
      newest == {c \in kept : \A d \in kept : d[1] <= c[1]}
      anchor == IF newest = {} THEN <<None, 0>> ELSE CHOOSE c \in newest : TRUE
  IN [next |-> from, last |-> anchor[1], fork |-> anchor[2],
      covered |-> IF cursor = None THEN from - 1 ELSE Lesser(cursor.covered, from - 1)]

Rewind(p) ==
  /\ At(p, "rewind")
  /\ LET from == proc[p].from
         done == from > proc[p].target
     IN /\ events' = events \ After(events, from)
        /\ checkpoints' = checkpoints \ After(checkpoints, from)
        /\ scanned' = {b \in scanned : b < from}
        /\ coverage' = TrimmedCoverage(from)
        /\ cursor' = RewoundCursor(from)
        /\ Become(p, IF done THEN ScanDone(p)
                     ELSE [proc[p] EXCEPT !.pc = "logs", !.next = from])
        /\ IF done /\ p \notin Tails THEN Release(p) ELSE UNCHANGED <<tailLock, replayLock>>
  /\ UNCHANGED <<world, faults, derived>>

(* updateEventTimestampCoverage. *)
ExtendedCoverage(from, to) ==
  IF coverage = None \/ from > coverage.through + 1 \/ to + 1 < coverage.from
  THEN [from |-> from, through |-> to]
  ELSE [from |-> Lesser(from, coverage.from), through |-> Greater(to, coverage.through)]

LastWriterWins(to, fork) ==
  [next |-> to + 1, last |-> to, fork |-> fork, covered |-> to]

SavedCursor(to, fork) ==
  [next |-> to + 1, last |-> to, fork |-> fork,
   covered |-> IF cursor = None THEN to ELSE Greater(cursor.covered, to)]

UnflooredSizes(size) == {size, size \div 2, Lesser(MaxChunk, size * 2)}

(* The next chunk is halved after a dense one, doubled after a sparse one.  *)
NextSizes(size) ==
  {size, Greater(MinChunk, size \div 2), Lesser(MaxChunk, size * 2)}

SaveChunk(p) ==
  /\ At(p, "save")
  /\ LET from == proc[p].next
         to == proc[p].to
         done == to >= proc[p].target
     IN /\ events' = {e \in events : e[1] \notin from .. to} \cup proc[p].logs
        /\ coverage' = ExtendedCoverage(from, to)
        /\ checkpoints' = {c \in checkpoints : c[1] /= to} \cup {<<to, proc[p].fork>>}
        /\ cursor' = SavedCursor(to, proc[p].fork)
        /\ scanned' = scanned \cup from .. to
        /\ IF done
           THEN Become(p, ScanDone(p))
           ELSE \E size \in NextSizes(proc[p].size) :
                  Become(p, [proc[p] EXCEPT !.pc = "logs", !.next = to + 1,
                                            !.logs = {}, !.size = size])
        /\ IF done /\ p \notin Tails THEN Release(p) ELSE UNCHANGED <<tailLock, replayLock>>
  /\ UNCHANGED <<world, faults, derived>>

-----------------------------------------------------------------------------
(* Reading one chunk. *)

(* fetchV3Events over the next chunk. *)
FetchLogs(p) ==
  /\ At(p, "logs")
  /\ LET to == Lesser(proc[p].target, proc[p].next + proc[p].size - 1)
     IN Become(p, [proc[p] EXCEPT !.pc = "headers", !.to = to,
                                  !.logs = Logs(proc[p].next, to)])
  /\ UNCHANGED <<world, faults, db, derived, tailLock, replayLock>>

(* The catch block of the chunk loop: a smaller chunk, or the error. *)
ChunkError(p, circuit) ==
  IF proc[p].size > MinChunk
  THEN /\ Become(p, [proc[p] EXCEPT !.pc = "logs", !.logs = {},
                                    !.size = Greater(MinChunk, proc[p].size \div 2)])
       /\ UNCHANGED <<tailLock, replayLock>>
  ELSE Abandon(p, circuit)

(* fetchCheckpoint of both ends and fetchEventBlockHeaders: every block     *)
(* that holds a fetched log must still have the hash its log carried.       *)
FetchHeaders(p) ==
  /\ At(p, "headers")
  /\ IF proc[p].to <= Len(chain) /\ \A e \in proc[p].logs : OnChain(e)
     THEN /\ Become(p, [proc[p] EXCEPT !.pc = "save", !.fork = chain[proc[p].to].fork])
          /\ UNCHANGED <<tailLock, replayLock>>
     ELSE ChunkError(p, FALSE)
  /\ UNCHANGED <<world, faults, db, derived>>

(* A provider call fails, or the health gate refuses it. *)
RpcFault(p, circuit) ==
  /\ (IF circuit THEN "circuit" ELSE "rpc") \in Faults /\ faults < MaxFaults
  /\ faults' = faults + 1
  /\ \/ At(p, "plan") /\ Abandon(p, circuit)
     \/ proc[p].pc \in {"logs", "headers"} /\ ChunkError(p, circuit)
  /\ UNCHANGED <<world, db, derived>>

-----------------------------------------------------------------------------
(* Replay. *)

(* PostgresReplayStore.open in a tail cycle: the lock is tried, not awaited. *)
OpenReplay(p) ==
  /\ At(p, "open")
  /\ IF replayLock = None
     THEN /\ replayLock' = p /\ Goto(p, "source")
          /\ UNCHANGED <<world, faults, db, derived, tailLock>>
     ELSE Fail(p)

SourceNow == [block |-> cursor.last, fork |-> cursor.fork]
HasSource == cursor /= None /\ cursor.last /= None

GetSource(p) ==
  /\ At(p, "source")
  /\ IF HasSource
     THEN /\ Become(p, [proc[p] EXCEPT !.pc = "validate", !.source = SourceNow])
          /\ UNCHANGED <<world, faults, db, derived, tailLock, replayLock>>
     ELSE Fail(p)

NeverChanged(last) == TRUE

(* validateCursorSource: only the last applied event is looked up again. *)
SourceIntact(last) == last = None \/ last \in events

NoRebuild(p) ==
  /\ At(p, "validate")
  /\ replay' = IF replay = None THEN [last |-> None, complete |-> None] ELSE replay
  /\ IF SourceIntact(replay'.last)
     THEN /\ Become(p, [proc[p] EXCEPT !.pc = "fetch", !.last = replay'.last])
          /\ UNCHANGED <<tailLock, replayLock>>
     ELSE Abandon(p, FALSE)
  /\ UNCHANGED <<world, faults, db, applied>>

(* prepare (with --rebuild the derived rows go first), then the check that  *)
(* the source has not changed; the tail answers a change with one rebuild.  *)
ValidateReplay(p) ==
  /\ At(p, "validate")
  /\ LET fresh == proc[p].rebuild \/ replay = None
         last == IF fresh THEN None ELSE replay.last
     IN /\ replay' = IF fresh THEN [last |-> None, complete |-> None] ELSE replay
        /\ applied' = IF fresh THEN {} ELSE applied
        /\ IF SourceIntact(last)
           THEN /\ Become(p, [proc[p] EXCEPT !.pc = "fetch", !.last = last])
                /\ UNCHANGED <<tailLock, replayLock>>
           ELSE IF p \in Tails
           THEN /\ Become(p, [proc[p] EXCEPT !.pc = "source", !.rebuild = TRUE])
                /\ UNCHANGED <<tailLock, replayLock>>
           ELSE Abandon(p, FALSE)
  /\ UNCHANGED <<world, faults, db>>

(* The oldest BatchSize events after the cursor, through the source block. *)
Batch(last, block) ==
  LET due == {e \in Upto(events, block) : last = None \/ e[1] > last[1]}
  IN {e \in due : Cardinality({d \in due : d[1] < e[1]}) < BatchSize}

FetchEvents(p) ==
  /\ At(p, "fetch")
  /\ LET batch == Batch(proc[p].last, proc[p].source.block)
     IN Become(p, [proc[p] EXCEPT !.logs = batch,
                                  !.pc = IF batch = {} THEN "check" ELSE "apply"])
  /\ UNCHANGED <<world, faults, db, derived, tailLock, replayLock>>

Newest(batch) == CHOOSE e \in batch : \A d \in batch : d[1] <= e[1]

(* saveBatch: derived rows and the cursor in one transaction; the stored    *)
(* completion is left as it was.                                            *)
SaveBatch(p) ==
  /\ At(p, "apply")
  /\ applied' = applied \cup proc[p].logs
  /\ replay' = [replay EXCEPT !.last = Newest(proc[p].logs)]
  /\ Become(p, [proc[p] EXCEPT !.pc = "fetch", !.last = Newest(proc[p].logs), !.logs = {}])
  /\ UNCHANGED <<world, faults, db, tailLock, replayLock>>

(* No event is left: the source must still be the one replayed. *)
CheckSource(p) ==
  /\ At(p, "check")
  /\ IF HasSource /\ SourceNow = proc[p].source
     THEN /\ Goto(p, "mark")
          /\ UNCHANGED <<world, faults, db, derived, tailLock, replayLock>>
     ELSE Fail(p)

(* markComplete, and the end of the cycle or command. *)
MarkComplete(p) ==
  /\ At(p, "mark")
  /\ replay' = [replay EXCEPT !.complete = <<proc[p].source.block, proc[p].source.fork>>]
  /\ replayLock' = None
  /\ Become(p, IF p \in Tails THEN [Off EXCEPT !.pc = "idle"] ELSE Off)
  /\ UNCHANGED <<world, faults, db, applied, tailLock>>

-----------------------------------------------------------------------------
Step(p) ==
  \/ StartTail(p) \/ StartCycle(p)
  \/ Plan(p) \/ Rewind(p) \/ FetchLogs(p) \/ FetchHeaders(p) \/ SaveChunk(p)
  \/ OpenReplay(p) \/ GetSource(p) \/ ValidateReplay(p) \/ FetchEvents(p)
  \/ SaveBatch(p) \/ CheckSource(p) \/ MarkComplete(p)

Command(p) ==
  \/ \E to \in Floor .. MaxBlock, explicit \in Blocks \cup {None} :
       StartBackfill(p, to, explicit)
  \/ \E rebuild \in BOOLEAN : StartReplay(p, rebuild)

Environment ==
  \/ \E log \in BOOLEAN : Extend(log)
  \/ \E from \in Floor .. Len(chain) : \E length \in 1 .. MaxBlock - from + 1 :
       \E logs \in SUBSET (from .. from - 1 + length) : Reorg(from, length, logs)
  \/ \E p \in Procs : Crash(p) \/ LoseLock(p) \/ \E c \in BOOLEAN : RpcFault(p, c)

Next == Environment \/ \E p \in Procs : Step(p) \/ Command(p)

Spec == Init /\ [][Next]_vars

(* systemd restarts the tail (Restart=on-failure) and its loop never stops: *)
(* every step of a tail that stays possible is taken.  The chain keeps      *)
(* producing blocks (up to the bound).                                      *)
FairSpec ==
  /\ Spec
  /\ WF_vars(\E log \in BOOLEAN : Extend(log))
  /\ \A p \in Tails : WF_vars(Step(p))
-----------------------------------------------------------------------------
(* Properties. *)

(* Every variable keeps to its type: blocks, forks and sizes in bounds, a   *)
(* lock held only by a process that may take it.                            *)
TypeOK ==
  /\ Len(chain) \in Blocks /\ forks \in Forks /\ top \in Blocks /\ faults \in 0 .. MaxFaults
  /\ events \subseteq Events /\ checkpoints \subseteq Events /\ scanned \subseteq Blocks
  /\ cursor /= None => /\ cursor.next \in 1 .. MaxBlock + 1
                        /\ cursor.last \in Blocks \cup {None}
                        /\ cursor.covered \in 0 .. MaxBlock
  /\ coverage /= None => coverage.from \in Blocks /\ coverage.through \in Blocks
  /\ applied \subseteq Events
  /\ tailLock \in Tails \cup Backfills \cup {None}
  /\ replayLock \in Tails \cup Replayers \cup {None}
  /\ \A p \in Procs : /\ proc[p].pc \in {"off", "idle"} \cup ScanSteps \cup ReplaySteps
                       /\ proc[p].size \in MinChunk .. MaxChunk
                       /\ proc[p].failures \in 0 .. MaxFailures - 1

(* Every block at or below the high-water mark covered_through_block has    *)
(* been scanned since it was last rewound: a reader that waits for coverage *)
(* of a block never computes on a range another transaction has emptied.    *)
CoveredScanned ==
  cursor /= None => \A b \in Floor .. cursor.covered : b \in scanned

(* Only a rewind lowers the high-water mark, and only to the block before   *)
(* the one it rewinds to: a writer whose tail lock was lost, saving a chunk *)
(* below the mark, leaves it where it is.                                   *)
HighWater ==
  [][cursor /= None /\ cursor'.covered < cursor.covered =>
       \E p \in Procs : At(p, "rewind") /\ cursor'.covered = proc[p].from - 1]_vars

(* The timestamp-coverage row claims scanned blocks only. *)
CoverageRowScanned ==
  coverage /= None => \A b \in coverage.from .. coverage.through : b \in scanned

(* A tail's scan that finished with no reorg since its cycle began leaves   *)
(* exactly the canonical logs stored, through its safe head: whatever       *)
(* happened in earlier cycles has been found and repaired.                  *)
ScanCanonical ==
  \A p \in Tails : At(p, "open") /\ proc[p].began = forks =>
    Upto(events, proc[p].target) = Logs(Floor, proc[p].target)

(* When replay is marked complete at a block that is still canonical, the   *)
(* derived state through that block folds in the canonical logs, each once  *)
(* and no others: reorgs behind the replay cursor have been rebuilt away.   *)
ReplayCanonical ==
  replay /= None /\ replay.complete /= None /\ OnChain(replay.complete) =>
    Upto(applied, replay.complete[1]) = Logs(Floor, replay.complete[1])

(* What accounting/source-store.ts calls an exact source (completion equal  *)
(* to the indexer's last scanned block and hash) is the state at that very  *)
(* block: nothing later has been applied.                                   *)
ExactSource ==
  HasSource /\ replay /= None /\ replay.complete = <<cursor.last, cursor.fork>> =>
    applied = Upto(events, cursor.last)

(* Once the chain, the faults and the commands come to rest, the derived    *)
(* state reaches the safe head on the canonical chain and stays there.      *)
CatchesUp ==
  <>[](/\ replay /= None /\ replay.complete /= None
       /\ replay.complete[1] = SafeHead /\ OnChain(replay.complete)
       /\ applied = Logs(Floor, SafeHead))

\* What the indexer stores: a finished cycle holds exactly the canonical
\* logs, and the high-water mark never covers a block whose rows are missing.
StreamSound == TypeOK /\ ScanCanonical /\ CoveredScanned
=============================================================================
