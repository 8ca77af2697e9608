------------------------ MODULE EventIndexer_proofs ------------------------
(***************************************************************************)
(* Proofs about the event indexer, its tail and its replay.                *)
(*                                                                         *)
(* TypeInv is type correctness.  With the lock connection kept up, LockInv *)
(* (the tail lock is held by whoever is running) makes the writers one,    *)
(* and CoverInv relates the high-water mark to what has been scanned.      *)
(* SoundInv says what the stored rows tell of the chain: a stored stamp    *)
(* that is still canonical vouches for every row below it (StampInv), the  *)
(* cursor stands at a checkpoint or on canonical ground (CursorInv), and a *)
(* scan knows everything below its next block (FollowInv).  DeriveInv says *)
(* what the derived state tells of the stored rows and of the chain.       *)
(***************************************************************************)
EXTENDS EventIndexer, FiniteSetTheorems, TLAPS

\* The rows of the database and the state of a process.
ChainBlock == [fork : Forks, log : BOOLEAN]
SourceRecord == [block : Blocks, fork : Forks]
ReplayRecord == [last : Events \cup {None}, complete : Events \cup {None}]
CursorRecord == [next : 1 .. MaxBlock + 1, last : Blocks \cup {None}, fork : Forks,
                 covered : 0 .. MaxBlock]
CoverageRecord == [from : Blocks, through : Blocks]
ProcRecord ==
  [pc : {"off", "idle"} \cup ScanSteps \cup ReplaySteps, failures : 0 .. MaxFailures - 1,
   size : MinChunk .. MaxChunk, explicit : Blocks \cup {None}, target : 0 .. MaxBlock,
   from : 0 .. MaxBlock + 1, next : 0 .. MaxBlock + 1, to : 0 .. MaxBlock,
   logs : SUBSET Events, fork : Forks, source : SourceRecord \cup {None},
   last : Events \cup {None}, rebuild : BOOLEAN, began : Forks]

Chunking == {"logs", "headers", "save"}
Deriving == {"fetch", "apply", "check", "mark"}

\* What a process carries from one step to the next.
Ready(x, p) ==
  /\ x.pc \in {"idle", "open"} => p \in Tails
  /\ x.pc \in ScanSteps => p \in Tails \cup Backfills
  /\ x.pc \in ReplaySteps => p \in Tails \cup Replayers
  /\ x.pc = "rewind" => x.from >= 1
  /\ x.pc \in Chunking => 1 <= x.next /\ x.next <= x.target
  /\ x.pc \in {"headers", "save"} => x.next <= x.to /\ x.to <= x.target
  /\ x.pc \in {"validate"} \cup Deriving => x.source \in SourceRecord
  /\ x.pc = "apply" => x.logs # {}

ReadyInv == \A p \in Procs : /\ Ready(proc[p], p)
                             /\ proc[p].pc \in Deriving => replay \in ReplayRecord

WorldTyped ==
  /\ chain \in Seq(ChainBlock) /\ Len(chain) \in Blocks
  /\ forks \in Forks /\ top \in Blocks /\ Len(chain) <= top

RowsTyped ==
  /\ events \subseteq Events /\ checkpoints \subseteq Events /\ scanned \subseteq Blocks
  /\ cursor \in CursorRecord \cup {None} /\ coverage \in CoverageRecord \cup {None}
  /\ replay \in ReplayRecord \cup {None} /\ applied \subseteq Events

LocksTyped ==
  /\ tailLock \in Tails \cup Backfills \cup {None}
  /\ replayLock \in Tails \cup Replayers \cup {None}

TypeInv ==
  /\ WorldTyped /\ RowsTyped /\ LocksTyped /\ faults \in 0 .. MaxFaults
  /\ proc \in [Procs -> ProcRecord] /\ ReadyInv

-----------------------------------------------------------------------------
(* Numbers and constants.                                                   *)

\* What the assumption on the constants gives.
LEMMA Bounds ==
  /\ Floor \in Nat /\ Floor >= 1 /\ Floor <= MaxBlock /\ Depth \in Nat /\ Depth <= MaxBlock
  /\ MaxBlock \in Nat /\ MaxReorgs \in Nat /\ MaxFaults \in Nat /\ Overlap \in Nat
  /\ MinChunk \in Nat /\ MinChunk >= 1 /\ InitChunk \in MinChunk .. MaxChunk /\ MaxChunk \in Nat
  /\ BatchSize \in Nat /\ BatchSize >= 1 /\ MaxFailures \in Nat /\ MaxFailures >= 1
  /\ ScanSpan \in Nat /\ RestSpan \in Nat
BY IndexerAssumption

\* "None" is no process and no block; a process has one role.
LEMMA Nobody ==
  /\ None \notin Nat /\ None \notin Tails /\ None \notin Backfills /\ None \notin Replayers
  /\ Tails \cap Backfills = {} /\ Tails \cap Replayers = {} /\ Backfills \cap Replayers = {}
  /\ \A b \in Blocks : b \in Nat /\ b # None
BY IndexerAssumption DEF Blocks

\* An idle process is typed.
LEMMA OffTyped ==
  /\ Off \in ProcRecord /\ Off.pc = "off" /\ \A p : Ready(Off, p)
BY Bounds DEF Off, ProcRecord, Forks, ScanSteps, ReplaySteps, Ready, Chunking, Deriving

\* Halving a number.
LEMMA HalfBound ==
  ASSUME NEW n \in Nat
  PROVE  n \div 2 \in Nat /\ n \div 2 <= n
OBVIOUS

\* Chunk sizes stay within their limits.
LEMMA SizesTyped ==
  ASSUME NEW size \in MinChunk .. MaxChunk
  PROVE  /\ NextSizes(size) \subseteq MinChunk .. MaxChunk
         /\ Greater(MinChunk, size \div 2) \in MinChunk .. MaxChunk
<1>1. size \in Nat /\ MinChunk \in Nat /\ MaxChunk \in Nat
  BY Bounds
<1>2. size \div 2 \in Nat /\ size \div 2 <= size
  BY <1>1, HalfBound
<1>3. Greater(MinChunk, size \div 2) \in MinChunk .. MaxChunk
  BY <1>1, <1>2 DEF Greater
<1>4. Lesser(MaxChunk, size * 2) \in MinChunk .. MaxChunk
  BY <1>1 DEF Lesser
<1> QED BY <1>3, <1>4 DEF NextSizes

\* A process becomes x, the others stay.
LEMMA Became ==
  ASSUME TypeInv, NEW p \in Procs, NEW x, Become(p, x)
  PROVE  proc'[p] = x /\ \A q \in Procs : q # p => proc'[q] = proc[q]
BY DEF Become, TypeInv

\* The state of a process is typed.
LEMMA ProcTyped ==
  ASSUME TypeInv, NEW p \in Procs
  PROVE  proc[p] \in ProcRecord /\ Ready(proc[p], p)
BY DEF TypeInv, ReadyInv

\* One process takes a step; the others rely on the replay row alone.
LEMMA BecomeTyped ==
  ASSUME TypeInv, NEW p \in Procs, NEW x \in ProcRecord, Become(p, x), Ready(x, p),
         replay \in ReplayRecord => replay' \in ReplayRecord,
         x.pc \in Deriving => replay' \in ReplayRecord
  PROVE  proc' \in [Procs -> ProcRecord] /\ ReadyInv'
<1>1. proc' \in [Procs -> ProcRecord]
  BY DEF Become, TypeInv
<1>2. ASSUME NEW q \in Procs
      PROVE  Ready(proc'[q], q) /\ (proc'[q].pc \in Deriving => replay' \in ReplayRecord)
  BY Became DEF TypeInv, ReadyInv
<1> QED BY <1>1, <1>2 DEF ReadyInv

-----------------------------------------------------------------------------
(* Types.                                                                   *)

\* A step that leaves the processes and the replay row alone.
LEMMA ProcsKept ==
  ASSUME TypeInv, UNCHANGED <<proc, replay>>
  PROVE  proc' \in [Procs -> ProcRecord] /\ ReadyInv'
BY DEF TypeInv, ReadyInv

\* The chain grows (Extend).
LEMMA ExtendTyped ==
  ASSUME TypeInv, NEW log \in BOOLEAN, Extend(log)
  PROVE  TypeInv'
<1>1. /\ chain \in Seq(ChainBlock) /\ Len(chain) \in Nat /\ forks \in Forks /\ top \in Blocks
      /\ Len(chain) <= top
  BY DEF TypeInv, WorldTyped, Blocks
<1> DEFINE b == [fork |-> forks, log |-> log]
<1>2. b \in ChainBlock
  BY <1>1 DEF ChainBlock
<1>3. chain' = Append(chain, b) /\ Len(chain) < MaxBlock
  BY DEF Extend
<1> HIDE DEF b
<1>4. chain' \in Seq(ChainBlock) /\ Len(chain') = Len(chain) + 1
  BY <1>1, <1>2, <1>3
<1>5. WorldTyped'
  BY <1>1, <1>3, <1>4, Bounds DEF Extend, WorldTyped, Blocks, Greater
<1>6. RowsTyped' /\ LocksTyped' /\ faults' \in 0 .. MaxFaults
  BY DEF Extend, TypeInv, RowsTyped, LocksTyped, db, derived
<1> QED BY <1>5, <1>6, ProcsKept DEF TypeInv, Extend, derived

\* A branch replaces the blocks from `from' on (Reorg).
LEMMA ReorgShape ==
  ASSUME TypeInv, NEW from \in Floor .. Len(chain), NEW length \in 1 .. MaxBlock - from + 1,
         NEW logs \in SUBSET (from .. from - 1 + length), Reorg(from, length, logs)
  PROVE  /\ chain' \in Seq(ChainBlock) /\ Len(chain') = from - 1 + length
         /\ forks' = forks + 1 /\ forks' \in Forks /\ forks \in Nat
         /\ from \in Nat /\ length \in Nat /\ Len(chain) \in Nat /\ 1 <= from
         /\ \A b \in 1 .. Len(chain') :
              chain'[b] = IF b < from THEN chain[b] ELSE [fork |-> forks + 1, log |-> b \in logs]
<1>1. chain \in Seq(ChainBlock) /\ Len(chain) \in Nat /\ forks \in Forks /\ forks \in Nat
  BY DEF TypeInv, WorldTyped, Blocks, Forks
<1>2. from \in Nat /\ length \in Nat /\ 1 <= from /\ from <= Len(chain)
  BY <1>1, Bounds
<1>3. forks + 1 \in Forks
  BY <1>1, Bounds DEF Reorg, Forks
<1> DEFINE n == from - 1 + length
           B(b) == IF b < from THEN chain[b] ELSE [fork |-> forks + 1, log |-> b \in logs]
<1>4. n \in Nat
  BY <1>2
<1>5. ASSUME NEW b \in 1 .. n PROVE B(b) \in ChainBlock
  <2>1. CASE b < from
    BY <1>1, <1>2, <2>1
  <2>2. [fork |-> forks + 1, log |-> b \in logs] \in ChainBlock
    <3>1. (b \in logs) \in BOOLEAN
      OBVIOUS
    <3>2. PICK c \in BOOLEAN : c = (b \in logs)
      BY <3>1, Zenon
    <3> QED BY <1>3, <3>2 DEF ChainBlock
  <2> QED BY <2>1, <2>2
<1>6. chain' = [b \in 1 .. n |-> B(b)] /\ forks' = forks + 1
  BY DEF Reorg
<1> HIDE DEF B, n
<1>7. chain' \in Seq(ChainBlock) /\ Len(chain') = n /\ \A b \in 1 .. n : chain'[b] = B(b)
  BY <1>4, <1>5, <1>6
<1> QED BY <1>1, <1>2, <1>3, <1>6, <1>7 DEF B, n

\* A branch leaves everything typed.
LEMMA ReorgTyped ==
  ASSUME TypeInv, NEW from \in Floor .. Len(chain), NEW length \in 1 .. MaxBlock - from + 1,
         NEW logs \in SUBSET (from .. from - 1 + length), Reorg(from, length, logs)
  PROVE  TypeInv'
<1>1. WorldTyped'
  <2>1. top \in Nat /\ top <= MaxBlock
    BY Bounds DEF TypeInv, WorldTyped, Blocks
  <2>2. from - 1 + length \in Blocks
    BY ReorgShape, Bounds DEF Blocks
  <2>3. top' \in Blocks /\ from - 1 + length <= top'
    BY <2>1, <2>2, Bounds DEF Reorg, Greater, Blocks
  <2> QED BY <2>2, <2>3, ReorgShape DEF WorldTyped
<1>2. RowsTyped' /\ LocksTyped' /\ faults' \in 0 .. MaxFaults
  BY DEF Reorg, TypeInv, RowsTyped, LocksTyped, db, derived
<1> QED BY <1>1, <1>2, ProcsKept DEF TypeInv, Reorg, derived

\* A process moves on and writes no row.
LEMMA QuietTyped ==
  ASSUME TypeInv, NEW p \in Procs, NEW x \in ProcRecord, Become(p, x), Ready(x, p),
         x.pc \in Deriving => proc[p].pc \in Deriving,
         LocksTyped', UNCHANGED <<world, db, derived>>, faults' \in 0 .. MaxFaults
  PROVE  TypeInv'
<1>1. WorldTyped' /\ RowsTyped'
  BY DEF TypeInv, WorldTyped, RowsTyped, world, db, derived
<1>2. replay' = replay /\ (x.pc \in Deriving => replay \in ReplayRecord)
  BY DEF derived, TypeInv, ReadyInv
<1>3. proc' \in [Procs -> ProcRecord] /\ ReadyInv'
  BY <1>2, BecomeTyped
<1> QED BY <1>1, <1>3 DEF TypeInv

\* A process gives its locks back.
LEMMA ReleaseTyped ==
  ASSUME TypeInv, NEW p \in Procs, Release(p)
  PROVE  LocksTyped'
BY DEF TypeInv, LocksTyped, Release

\* An error leaves the cycle (Abandon): the process is off, or idle with one
\* more failure.
LEMMA AbandonShape ==
  ASSUME TypeInv, NEW p \in Procs, NEW c \in BOOLEAN, Abandon(p, c)
  PROVE  \E x \in ProcRecord :
           /\ Become(p, x) /\ Ready(x, p) /\ LocksTyped'
           /\ x.explicit = None /\ x.began = 0
           /\ \/ x.pc = "off" /\ Release(p)
              \/ x.pc = "idle" /\ UNCHANGED tailLock
                 /\ replayLock' = IF replayLock = p THEN None ELSE replayLock
<1> DEFINE failures == IF c THEN 0 ELSE proc[p].failures + 1
           stop == p \notin Tails \/ failures >= MaxFailures
           x == [Off EXCEPT !.pc = "idle", !.failures = failures]
<1>1. CASE stop
  <2>1. Become(p, Off) /\ Release(p)
    BY <1>1 DEF Abandon
  <2>2. Off.explicit = None /\ Off.began = 0
    BY DEF Off
  <2> QED BY <2>1, <2>2, OffTyped, ReleaseTyped
<1>2. CASE ~stop
  <2>1. Become(p, x) /\ UNCHANGED tailLock
        /\ replayLock' = IF replayLock = p THEN None ELSE replayLock
    BY <1>2 DEF Abandon
  <2>2. proc[p].failures \in Nat
    BY ProcTyped, Bounds DEF ProcRecord
  <2>3. failures \in 0 .. MaxFailures - 1
    BY <1>2, <2>2, Bounds
  <2>4. x \in ProcRecord /\ x.pc = "idle" /\ x.explicit = None /\ x.began = 0
    BY <2>3, OffTyped DEF Off, ProcRecord
  <2>5. Ready(x, p)
    BY <1>2, <2>4 DEF Ready, ScanSteps, ReplaySteps, Chunking, Deriving
  <2>6. LocksTyped'
    BY <2>1 DEF TypeInv, LocksTyped
  <2> HIDE DEF x
  <2> QED BY <2>1, <2>4, <2>5, <2>6
<1> QED BY <1>1, <1>2

\* A cycle given up leaves everything typed.
LEMMA AbandonTyped ==
  ASSUME TypeInv, NEW p \in Procs, NEW c \in BOOLEAN, Abandon(p, c),
         UNCHANGED <<world, db, derived>>, faults' \in 0 .. MaxFaults
  PROVE  TypeInv'
<1>1. PICK x \in ProcRecord : /\ Become(p, x) /\ Ready(x, p) /\ LocksTyped'
                              /\ x.pc \in {"off", "idle"}
  BY AbandonShape
<1> QED BY <1>1, QuietTyped DEF Deriving

\* So does a failed step (Fail).
LEMMA FailTyped ==
  ASSUME TypeInv, NEW p \in Procs, Fail(p)
  PROVE  TypeInv'
BY AbandonTyped DEF Fail, TypeInv

\* A tail takes its lock and starts (StartTail).
LEMMA StartTailTyped ==
  ASSUME TypeInv, NEW p \in Procs, StartTail(p)
  PROVE  TypeInv'
<1> DEFINE x == [Off EXCEPT !.pc = "idle"]
<1>1. x \in ProcRecord /\ x.pc = "idle"
  BY OffTyped DEF Off, ProcRecord
<1>2. p \in Tails /\ Become(p, x)
  BY DEF StartTail
<1> HIDE DEF x
<1>3. Ready(x, p)
  BY <1>1, <1>2 DEF Ready, ScanSteps, ReplaySteps, Chunking, Deriving
<1>4. LocksTyped' /\ faults' \in 0 .. MaxFaults
  BY <1>2 DEF StartTail, TypeInv, LocksTyped
<1> QED BY <1>1, <1>2, <1>3, <1>4, QuietTyped DEF Deriving, StartTail

\* The head below which a scan ends.
LEMMA SafeHeadTyped ==
  ASSUME TypeInv, Len(chain) >= Depth
  PROVE  SafeHead \in 0 .. MaxBlock /\ SafeHead <= Len(chain) /\ forks \in Forks
BY Bounds DEF SafeHead, TypeInv, WorldTyped, Blocks

\* A backfill command starts (StartBackfill).
LEMMA StartBackfillTyped ==
  ASSUME TypeInv, NEW p \in Procs, NEW to \in Floor .. MaxBlock, NEW explicit \in Blocks \cup {None},
         StartBackfill(p, to, explicit)
  PROVE  TypeInv'
<1> DEFINE x == [Off EXCEPT !.pc = "plan", !.target = to, !.explicit = explicit, !.began = forks]
<1>1. to \in 0 .. MaxBlock /\ forks \in Forks
  BY Bounds DEF TypeInv, WorldTyped
<1>2. x \in ProcRecord /\ x.pc = "plan"
  BY <1>1, OffTyped DEF Off, ProcRecord, ScanSteps
<1>3. p \in Backfills /\ Become(p, x)
  BY DEF StartBackfill
<1> HIDE DEF x
<1>4. Ready(x, p)
  BY <1>2, <1>3 DEF Ready, ScanSteps, ReplaySteps, Chunking, Deriving
<1>5. LocksTyped' /\ faults' \in 0 .. MaxFaults
  BY <1>3 DEF StartBackfill, TypeInv, LocksTyped
<1> QED BY <1>2, <1>3, <1>4, <1>5, QuietTyped DEF Deriving, StartBackfill

\* A replay command starts (StartReplay).
LEMMA StartReplayTyped ==
  ASSUME TypeInv, NEW p \in Procs, NEW rebuild \in BOOLEAN, StartReplay(p, rebuild)
  PROVE  TypeInv'
<1> DEFINE x == [Off EXCEPT !.pc = "source", !.rebuild = rebuild]
<1>1. x \in ProcRecord /\ x.pc = "source"
  BY OffTyped DEF Off, ProcRecord, ReplaySteps
<1>2. p \in Replayers /\ Become(p, x)
  BY DEF StartReplay
<1> HIDE DEF x
<1>3. Ready(x, p)
  BY <1>1, <1>2 DEF Ready, ScanSteps, ReplaySteps, Chunking, Deriving
<1>4. LocksTyped' /\ faults' \in 0 .. MaxFaults
  BY <1>2 DEF StartReplay, TypeInv, LocksTyped
<1> QED BY <1>1, <1>2, <1>3, <1>4, QuietTyped DEF Deriving, StartReplay

\* A tail starts a cycle (StartCycle).
LEMMA StartCycleTyped ==
  ASSUME TypeInv, NEW p \in Procs, StartCycle(p)
  PROVE  TypeInv'
<1>1. CASE Len(chain) >= Depth
  <2> DEFINE x == [Off EXCEPT !.pc = "plan", !.target = SafeHead, !.began = forks,
                              !.failures = proc[p].failures]
  <2>1. SafeHead \in 0 .. MaxBlock /\ forks \in Forks /\ proc[p].failures \in 0 .. MaxFailures - 1
    BY <1>1, SafeHeadTyped, ProcTyped DEF ProcRecord
  <2>2. x \in ProcRecord /\ x.pc = "plan"
    BY <2>1, OffTyped DEF Off, ProcRecord, ScanSteps
  <2>3. Become(p, x) /\ p \in Tails
    BY <1>1, ProcTyped DEF StartCycle, At, Ready
  <2> HIDE DEF x
  <2>4. Ready(x, p)
    BY <2>2, <2>3 DEF Ready, ScanSteps, ReplaySteps, Chunking, Deriving
  <2>5. LocksTyped' /\ faults' \in 0 .. MaxFaults /\ UNCHANGED <<world, db, derived>>
    BY <1>1 DEF StartCycle, TypeInv, LocksTyped
  <2> QED BY <2>2, <2>3, <2>4, <2>5, QuietTyped DEF Deriving
<1>2. CASE ~(Len(chain) >= Depth)
  BY <1>2, FailTyped DEF StartCycle
<1> QED BY <1>1, <1>2

\* One more fault.
LEMMA FaultTyped ==
  ASSUME TypeInv, faults < MaxFaults, faults' = faults + 1
  PROVE  faults' \in 0 .. MaxFaults
BY Bounds DEF TypeInv

\* A process dies (Crash).
LEMMA CrashTyped ==
  ASSUME TypeInv, NEW p \in Procs, Crash(p)
  PROVE  TypeInv'
BY FaultTyped, OffTyped, ReleaseTyped, QuietTyped DEF Crash, Deriving

\* The lock connection drops (LoseLock).
LEMMA LoseLockTyped ==
  ASSUME TypeInv, NEW p \in Procs, LoseLock(p)
  PROVE  TypeInv'
<1>1. WorldTyped' /\ RowsTyped' /\ LocksTyped'
  BY DEF LoseLock, TypeInv, WorldTyped, RowsTyped, LocksTyped, world, db, derived
<1>2. faults' \in 0 .. MaxFaults
  BY FaultTyped DEF LoseLock
<1>3. proc' \in [Procs -> ProcRecord] /\ ReadyInv'
  BY ProcsKept DEF LoseLock, derived
<1> QED BY <1>1, <1>2, <1>3 DEF TypeInv

\* A step that only names the next step, or gives the cycle up.
LEMMA GoneTyped ==
  ASSUME TypeInv, NEW p \in Procs,
         NEW pc \in {"source", "logs", "check", "mark"}, Goto(p, pc),
         pc \in Deriving => proc[p].pc \in Deriving,
         pc = "logs" => proc[p].pc \in Chunking,
         pc = "source" => p \in Tails \cup Replayers,
         LocksTyped', faults' \in 0 .. MaxFaults, UNCHANGED <<world, db, derived>>
  PROVE  TypeInv'
<1> DEFINE x == [proc[p] EXCEPT !.pc = pc]
<1>1. proc[p] \in ProcRecord /\ Ready(proc[p], p)
  BY ProcTyped
<1>2. /\ x \in ProcRecord /\ x.pc = pc /\ x.next = proc[p].next /\ x.target = proc[p].target
      /\ x.source = proc[p].source
  BY <1>1 DEF ProcRecord, ReplaySteps, ScanSteps
<1>3. Become(p, x)
  BY DEF Goto
<1> HIDE DEF x
<1>4. pc \in Deriving => x.source \in SourceRecord /\ p \in Tails \cup Replayers
  BY <1>1, <1>2 DEF Ready, Deriving, ReplaySteps
<1>5. pc = "logs" => 1 <= x.next /\ x.next <= x.target /\ p \in Tails \cup Backfills
  BY <1>1, <1>2 DEF Ready, Chunking, ScanSteps
<1>6. Ready(x, p)
  BY <1>2, <1>4, <1>5 DEF Ready, ScanSteps, ReplaySteps, Chunking, Deriving
<1> QED BY <1>2, <1>3, <1>6, QuietTyped

\* The replay lock is tried (OpenReplay).
LEMMA OpenReplayTyped ==
  ASSUME TypeInv, NEW p \in Procs, OpenReplay(p)
  PROVE  TypeInv'
<1>1. p \in Tails
  BY ProcTyped DEF OpenReplay, At, Ready
<1>2. CASE replayLock = None
  <2>1. LocksTyped'
    BY <1>1, <1>2 DEF OpenReplay, TypeInv, LocksTyped
  <2> QED BY <1>1, <1>2, <2>1, GoneTyped DEF OpenReplay, TypeInv, Deriving
<1>3. CASE replayLock # None
  BY <1>3, FailTyped DEF OpenReplay
<1> QED BY <1>2, <1>3

\* The source is compared with the one replayed (CheckSource).
LEMMA CheckSourceTyped ==
  ASSUME TypeInv, NEW p \in Procs, CheckSource(p)
  PROVE  TypeInv'
<1>1. CASE HasSource /\ SourceNow = proc[p].source
  <2>1. LocksTyped'
    BY <1>1 DEF CheckSource, TypeInv, LocksTyped
  <2> QED BY <1>1, <2>1, GoneTyped DEF CheckSource, TypeInv, Deriving, At
<1>2. CASE ~(HasSource /\ SourceNow = proc[p].source)
  BY <1>2, FailTyped DEF CheckSource
<1> QED BY <1>1, <1>2

\* The source of a replay is read (GetSource).
LEMMA GetSourceTyped ==
  ASSUME TypeInv, NEW p \in Procs, GetSource(p)
  PROVE  TypeInv'
<1>1. CASE HasSource
  <2> DEFINE x == [proc[p] EXCEPT !.pc = "validate", !.source = SourceNow]
  <2>1. proc[p] \in ProcRecord /\ Ready(proc[p], p) /\ proc[p].pc = "source"
    BY ProcTyped DEF GetSource, At
  <2>2. SourceNow \in SourceRecord
    BY <1>1 DEF HasSource, SourceNow, SourceRecord, CursorRecord, TypeInv, RowsTyped
  <2>3. x \in ProcRecord /\ x.pc = "validate" /\ x.source \in SourceRecord
    BY <2>1, <2>2 DEF ProcRecord, ReplaySteps
  <2>4. Become(p, x) /\ UNCHANGED <<world, faults, db, derived, tailLock, replayLock>>
    BY <1>1 DEF GetSource
  <2> HIDE DEF x
  <2>5. Ready(x, p)
    BY <2>1, <2>3 DEF Ready, ScanSteps, ReplaySteps, Chunking, Deriving
  <2>6. LocksTyped' /\ faults' \in 0 .. MaxFaults
    BY <2>4 DEF TypeInv, LocksTyped
  <2> QED BY <2>3, <2>4, <2>5, <2>6, QuietTyped DEF Deriving
<1>2. CASE ~HasSource
  BY <1>2, FailTyped DEF GetSource
<1> QED BY <1>1, <1>2

\* A batch is read (FetchEvents).
LEMMA FetchEventsTyped ==
  ASSUME TypeInv, NEW p \in Procs, FetchEvents(p)
  PROVE  TypeInv'
<1> DEFINE batch == Batch(proc[p].last, proc[p].source.block)
           x == [proc[p] EXCEPT !.logs = batch, !.pc = IF batch = {} THEN "check" ELSE "apply"]
<1>1. proc[p] \in ProcRecord /\ Ready(proc[p], p) /\ proc[p].pc = "fetch"
  BY ProcTyped DEF FetchEvents, At
<1>2. batch \in SUBSET Events
  BY DEF Batch, Upto, TypeInv, RowsTyped
<1>3. Become(p, x) /\ UNCHANGED <<world, faults, db, derived, tailLock, replayLock>>
  BY DEF FetchEvents
<1> HIDE DEF batch
<1>4. /\ x \in ProcRecord /\ x.pc \in {"check", "apply"} /\ x.source = proc[p].source
      /\ x.pc = "apply" => x.logs # {}
  BY <1>1, <1>2 DEF ProcRecord, ReplaySteps
<1> HIDE DEF x
<1>5. Ready(x, p)
  BY <1>1, <1>4 DEF Ready, ScanSteps, ReplaySteps, Chunking, Deriving
<1>6. LocksTyped' /\ faults' \in 0 .. MaxFaults
  BY <1>3 DEF TypeInv, LocksTyped
<1> QED BY <1>1, <1>3, <1>4, <1>5, <1>6, QuietTyped DEF Deriving

-----------------------------------------------------------------------------
(* The greatest element of a bounded set.                                   *)

\* A bounded set of numbers has a greatest element: of the sets of larger
\* elements, one is minimal.
LEMMA GreatestExists ==
  ASSUME NEW n \in Nat, NEW S \in SUBSET (1 .. n), S # {}
  PROVE  \E m \in S : \A k \in S : k <= m
<1> DEFINE Above(m) == {k \in S : k > m}
<1> DEFINE T == {Above(m) : m \in S}
<1>1. IsFiniteSet(S)
  <2>1. IsFiniteSet(1 .. n)
    BY FS_Interval
  <2> QED BY <2>1, FS_Subset
<1>2. \A m \in S : IsFiniteSet(Above(m)) /\ Above(m) \in SUBSET S
  BY <1>1, FS_Subset
<1>3. T \subseteq FiniteSubsetsOf(S) /\ T # {}
  BY <1>2 DEF FiniteSubsetsOf
<1>4. PICK x \in T : \A y \in T : <<y, x>> \notin StrictSubsetOrdering(S)
  <2> HIDE DEF T
  <2> QED BY <1>3, FS_StrictSubsetOrderingWellFounded, WFMin
<1>5. PICK m \in S : x = Above(m)
  BY <1>4
<1>6. ASSUME NEW k \in S, ~(k <= m) PROVE FALSE
  <2>1. k \in Int /\ m \in Int /\ k > m
    BY <1>6
  <2>2. \A j \in S : j \in Int /\ (j > k => j > m)
    BY <2>1
  <2>3. Above(k) \subseteq Above(m)
    BY <2>2
  <2>4. k \in Above(m) /\ k \notin Above(k)
    BY <2>1
  <2>5. Above(k) \in T /\ Above(k) \in SUBSET S /\ x \in SUBSET S
    BY <1>5
  <2>6. <<Above(k), x>> \in StrictSubsetOrdering(S)
    BY <1>5, <2>3, <2>4, <2>5 DEF StrictSubsetOrdering
  <2> QED BY <1>4, <2>5, <2>6
<1> QED BY <1>6

\* The newest of some events (Newest, and the anchor a rewind keeps).
LEMMA NewestExists ==
  ASSUME NEW S \in SUBSET Events, S # {}
  PROVE  \E e \in S : \A d \in S : d[1] <= e[1]
<1> DEFINE B == {e[1] : e \in S}
<1>1. B \in SUBSET (1 .. MaxBlock) /\ B # {}
  BY DEF Events, Blocks
<1>2. PICK m \in B : \A k \in B : k <= m
  <2> HIDE DEF B
  <2> QED BY <1>1, GreatestExists, Bounds
<1> QED BY <1>2

\* The search for a canonical anchor ends at nothing or at the highest
\* candidate that is still canonical; the cursor's own block comes first.
LEMMA AnchorShape ==
  ASSUME TypeInv, HasSource
  PROVE  /\ Candidates \subseteq Events
         /\ \/ findCanonicalAnchor = None /\ \A c \in Candidates : ~OnChain(c)
            \/ findCanonicalAnchor = cursor.last /\ OnChain(<<cursor.last, cursor.fork>>)
            \/ /\ \E c \in Candidates : OnChain(c) /\ findCanonicalAnchor = c[1]
               /\ \A c \in Candidates : OnChain(c) => c[1] <= findCanonicalAnchor
<1> DEFINE own == <<cursor.last, cursor.fork>>
           On == {d \in Candidates : OnChain(d)}
           B == {c[1] : c \in On}
<1>1. own \in Events /\ checkpoints \subseteq Events
  BY DEF HasSource, TypeInv, RowsTyped, CursorRecord, Events
<1>2. Candidates \subseteq Events /\ own \in Candidates
  BY <1>1 DEF Candidates
<1>3. CASE OnChain(own)
  BY <1>2, <1>3 DEF findCanonicalAnchor
<1>4. CASE ~OnChain(own) /\ ~(\E c \in Candidates : OnChain(c))
  BY <1>2, <1>4 DEF findCanonicalAnchor
<1>5. CASE ~OnChain(own) /\ \E c \in Candidates : OnChain(c)
  <2>1. findCanonicalAnchor = Max(B)
    BY <1>5 DEF findCanonicalAnchor
  <2>2. B \in SUBSET (1 .. MaxBlock) /\ B # {}
    BY <1>2, <1>5 DEF Events, Blocks
  <2>3. \E m \in B : \A k \in B : k <= m
    <3> HIDE DEF B
    <3> QED BY <2>2, GreatestExists, Bounds
  <2>4. B \in SUBSET Int
    BY <2>2
  <2>5. Max(B) \in B /\ \A k \in B : k <= Max(B)
    <3> HIDE DEF B
    <3>1. \E m \in B : \A k \in B : m >= k
      BY <2>3, <2>4
    <3> QED BY <3>1, <2>4 DEF Max
  <2>6. \E c \in Candidates : OnChain(c) /\ findCanonicalAnchor = c[1]
    BY <2>1, <2>5
  <2>7. \A c \in Candidates : OnChain(c) => c[1] <= findCanonicalAnchor
    BY <2>1, <2>5
  <2> QED BY <1>2, <2>6, <2>7
<1> QED BY <1>3, <1>4, <1>5

-----------------------------------------------------------------------------
(* The steps of a scan.                                                     *)

\* Where a scan resumes is a block number, at or above its floor.
LEMMA ResumeTyped ==
  ASSUME TypeInv, NEW explicit \in Blocks \cup {None}
  PROVE  calculateResumeStart(explicit) \in Nat /\ calculateResumeStart(explicit) >= 1
<1> DEFINE floor == IF explicit = None THEN Floor ELSE explicit
           wanted == IF explicit = None THEN cursor.next ELSE Lesser(explicit, cursor.next)
           resume == IF cursor.last = None \/ findCanonicalAnchor = cursor.last THEN wanted
                     ELSE IF findCanonicalAnchor = None THEN floor
                     ELSE Lesser(wanted, findCanonicalAnchor + 1)
<1>1. floor \in Nat /\ floor >= 1
  BY Bounds, Nobody DEF Blocks
<1>2. CASE cursor = None
  BY <1>1, <1>2 DEF calculateResumeStart
<1>3. CASE cursor # None
  <2>1. cursor \in CursorRecord
    BY <1>3 DEF TypeInv, RowsTyped
  <2>2. wanted \in Int
    BY <2>1, Bounds, Nobody DEF CursorRecord, Lesser, Blocks
  <2>3. resume \in Int
    <3>1. CASE cursor.last = None \/ findCanonicalAnchor = cursor.last \/ findCanonicalAnchor = None
      BY <1>1, <2>2, <3>1
    <3>2. CASE ~(cursor.last = None \/ findCanonicalAnchor = cursor.last \/ findCanonicalAnchor = None)
      <4>1. findCanonicalAnchor \in Int
        BY <1>3, <3>2, AnchorShape DEF HasSource, Events, Blocks
      <4>2. resume = Lesser(wanted, findCanonicalAnchor + 1)
        BY <3>2
      <4> HIDE DEF wanted, resume
      <4> QED BY <2>2, <4>1, <4>2 DEF Lesser
    <3> QED BY <3>1, <3>2
  <2>4. calculateResumeStart(explicit) = Greater(floor, Greater(resume - Overlap, 0))
    BY <1>3 DEF calculateResumeStart
  <2> HIDE DEF floor, resume, wanted
  <2> QED BY <1>1, <2>3, <2>4, Bounds DEF Greater
<1> QED BY <1>2, <1>3

\* The scan is planned (Plan).
LEMMA PlanTyped ==
  ASSUME TypeInv, NEW p \in Procs, Plan(p)
  PROVE  TypeInv'
<1> DEFINE from == calculateResumeStart(proc[p].explicit)
<1>1. CASE AnchorReadable /\ from - 1 <= Len(chain)
  <2> DEFINE x == [proc[p] EXCEPT !.pc = "rewind", !.from = from]
  <2>1. proc[p] \in ProcRecord /\ Ready(proc[p], p) /\ proc[p].pc = "plan"
    BY ProcTyped DEF Plan, At
  <2>2. proc[p].explicit \in Blocks \cup {None}
    BY <2>1 DEF ProcRecord
  <2>3. from \in Nat /\ from >= 1
    BY <2>2, ResumeTyped
  <2>4. Len(chain) \in Nat /\ Len(chain) <= MaxBlock
    BY Bounds DEF TypeInv, WorldTyped, Blocks
  <2>5. from \in 0 .. MaxBlock + 1
    <3> HIDE DEF from
    <3> QED BY <1>1, <2>3, <2>4, Bounds
  <2>6. Become(p, x) /\ UNCHANGED <<world, faults, db, derived, tailLock, replayLock>>
    BY <1>1 DEF Plan
  <2> HIDE DEF from
  <2>7. x \in ProcRecord /\ x.pc = "rewind" /\ x.from = from
    BY <2>1, <2>5 DEF ProcRecord, ScanSteps
  <2> HIDE DEF x
  <2>8. Ready(x, p)
    BY <2>1, <2>3, <2>7 DEF Ready, ScanSteps, ReplaySteps, Chunking, Deriving
  <2>9. LocksTyped' /\ faults' \in 0 .. MaxFaults
    BY <2>6 DEF TypeInv, LocksTyped
  <2> QED BY <2>6, <2>7, <2>8, <2>9, QuietTyped DEF Deriving
<1>2. CASE ~(AnchorReadable /\ from - 1 <= Len(chain))
  BY <1>2, FailTyped DEF Plan
<1> QED BY <1>1, <1>2

\* A block of the canonical chain.
LEMMA ChainAt ==
  ASSUME TypeInv, NEW b \in 1 .. Len(chain)
  PROVE  chain[b] \in ChainBlock /\ chain[b].fork \in Forks
<1>1. chain[b] \in ChainBlock
  BY DEF TypeInv, WorldTyped
<1>2. \A c \in ChainBlock : c.fork \in Forks
  BY DEF ChainBlock
<1> QED BY <1>1, <1>2

\* The logs of the canonical chain are events.
LEMMA LogsTyped ==
  ASSUME TypeInv, NEW from \in Nat, from >= 1, NEW to \in Int
  PROVE  Logs(from, to) \subseteq Events
<1>1. chain \in Seq(ChainBlock) /\ Len(chain) \in Nat /\ Len(chain) <= MaxBlock
  BY Bounds DEF TypeInv, WorldTyped, Blocks
<1>2. ASSUME NEW n \in from .. Lesser(to, Len(chain))
      PROVE  n \in Blocks /\ n \in 1 .. Len(chain)
  BY <1>1, Bounds DEF Lesser, Blocks
<1>3. \A n \in 1 .. Len(chain) : chain[n].fork \in Forks
  BY ChainAt
<1> QED BY <1>2, <1>3 DEF Logs, Events

\* The logs of one chunk are read (FetchLogs).
LEMMA FetchLogsTyped ==
  ASSUME TypeInv, NEW p \in Procs, FetchLogs(p)
  PROVE  TypeInv'
<1> DEFINE to == Lesser(proc[p].target, proc[p].next + proc[p].size - 1)
           x == [proc[p] EXCEPT !.pc = "headers", !.to = to, !.logs = Logs(proc[p].next, to)]
<1>1. proc[p] \in ProcRecord /\ Ready(proc[p], p) /\ proc[p].pc = "logs"
  BY ProcTyped DEF FetchLogs, At
<1>2. /\ proc[p].next \in Nat /\ proc[p].next >= 1 /\ proc[p].next <= proc[p].target
      /\ proc[p].target \in 0 .. MaxBlock /\ proc[p].size \in Nat /\ proc[p].size >= 1
  BY <1>1, Bounds DEF ProcRecord, Ready, Chunking
<1>3. to \in 0 .. MaxBlock /\ proc[p].next <= to /\ to <= proc[p].target
  BY <1>2, Bounds DEF Lesser
<1>4. Become(p, x) /\ UNCHANGED <<world, faults, db, derived, tailLock, replayLock>>
  BY DEF FetchLogs
<1> HIDE DEF to
<1>5. Logs(proc[p].next, to) \in SUBSET Events
  BY <1>2, <1>3, LogsTyped
<1>6. /\ x \in ProcRecord /\ x.pc = "headers" /\ x.to = to /\ x.next = proc[p].next
      /\ x.target = proc[p].target
  BY <1>1, <1>3, <1>5 DEF ProcRecord, ScanSteps
<1> HIDE DEF x
<1>7. Ready(x, p)
  BY <1>1, <1>2, <1>3, <1>6 DEF Ready, ScanSteps, ReplaySteps, Chunking, Deriving
<1>8. LocksTyped' /\ faults' \in 0 .. MaxFaults
  BY <1>4 DEF TypeInv, LocksTyped
<1> QED BY <1>4, <1>6, <1>7, <1>8, QuietTyped DEF Deriving

\* A chunk is tried again with a smaller size, or the cycle ends (ChunkError).
LEMMA ChunkErrorShape ==
  ASSUME TypeInv, NEW p \in Procs, NEW c \in BOOLEAN, ChunkError(p, c),
         proc[p].pc \in {"logs", "headers"}
  PROVE  \E x \in ProcRecord :
           /\ Become(p, x) /\ Ready(x, p) /\ LocksTyped'
           /\ \/ /\ x.pc = "logs" /\ x.next = proc[p].next /\ x.target = proc[p].target
                 /\ x.began = proc[p].began /\ x.explicit = proc[p].explicit
                 /\ UNCHANGED <<tailLock, replayLock>>
              \/ x.pc \in {"off", "idle"} /\ Abandon(p, c) /\ x.began = 0 /\ x.explicit = None
<1>1. CASE proc[p].size > MinChunk
  <2> DEFINE half == Greater(MinChunk, proc[p].size \div 2)
             x == [proc[p] EXCEPT !.pc = "logs", !.logs = {}, !.size = half]
  <2>1. proc[p] \in ProcRecord /\ Ready(proc[p], p)
    BY ProcTyped
  <2>2. half \in MinChunk .. MaxChunk
    BY <2>1, SizesTyped DEF ProcRecord
  <2>3. Become(p, x) /\ UNCHANGED <<tailLock, replayLock>>
    BY <1>1 DEF ChunkError
  <2> HIDE DEF half
  <2>4. /\ x \in ProcRecord /\ x.pc = "logs" /\ x.next = proc[p].next /\ x.target = proc[p].target
        /\ x.began = proc[p].began /\ x.explicit = proc[p].explicit
    BY <2>1, <2>2 DEF ProcRecord, ScanSteps
  <2> HIDE DEF x
  <2>5. Ready(x, p)
    BY <2>1, <2>4 DEF Ready, ScanSteps, ReplaySteps, Chunking, Deriving
  <2>6. LocksTyped'
    BY <2>3 DEF TypeInv, LocksTyped
  <2> QED BY <2>3, <2>4, <2>5, <2>6
<1>2. CASE ~(proc[p].size > MinChunk)
  <2>1. Abandon(p, c)
    BY <1>2 DEF ChunkError
  <2> QED BY <2>1, AbandonShape
<1> QED BY <1>1, <1>2

\* The types after such an error.
LEMMA ChunkErrorTyped ==
  ASSUME TypeInv, NEW p \in Procs, NEW c \in BOOLEAN, ChunkError(p, c),
         proc[p].pc \in {"logs", "headers"},
         UNCHANGED <<world, db, derived>>, faults' \in 0 .. MaxFaults
  PROVE  TypeInv'
<1>1. PICK x \in ProcRecord : /\ Become(p, x) /\ Ready(x, p) /\ LocksTyped'
                              /\ x.pc \in {"off", "idle", "logs"}
  BY ChunkErrorShape
<1> QED BY <1>1, QuietTyped DEF Deriving

\* The headers of the chunk are read and compared (FetchHeaders).
LEMMA FetchHeadersTyped ==
  ASSUME TypeInv, NEW p \in Procs, FetchHeaders(p)
  PROVE  TypeInv'
<1> DEFINE good == proc[p].to <= Len(chain) /\ \A e \in proc[p].logs : OnChain(e)
           x == [proc[p] EXCEPT !.pc = "save", !.fork = chain[proc[p].to].fork]
<1>1. proc[p] \in ProcRecord /\ Ready(proc[p], p) /\ proc[p].pc = "headers"
  BY ProcTyped DEF FetchHeaders, At
<1>2. CASE good
  <2>1. proc[p].to \in 1 .. Len(chain) /\ chain \in Seq(ChainBlock)
    BY <1>1, <1>2, Bounds DEF ProcRecord, Ready, Chunking, TypeInv, WorldTyped, Blocks
  <2>2. chain[proc[p].to].fork \in Forks
    BY <2>1, ChainAt
  <2>3. /\ x \in ProcRecord /\ x.pc = "save" /\ x.to = proc[p].to /\ x.next = proc[p].next
        /\ x.target = proc[p].target
    BY <1>1, <2>2 DEF ProcRecord, ScanSteps
  <2>4. Become(p, x) /\ UNCHANGED <<world, faults, db, derived, tailLock, replayLock>>
    BY <1>2 DEF FetchHeaders
  <2> HIDE DEF x
  <2>5. Ready(x, p)
    BY <1>1, <2>3 DEF Ready, ScanSteps, ReplaySteps, Chunking, Deriving
  <2>6. LocksTyped' /\ faults' \in 0 .. MaxFaults
    BY <2>4 DEF TypeInv, LocksTyped
  <2> QED BY <2>3, <2>4, <2>5, <2>6, QuietTyped DEF Deriving
<1>3. CASE ~good
  <2>1. ChunkError(p, FALSE) /\ UNCHANGED <<world, faults, db, derived>>
    BY <1>3 DEF FetchHeaders
  <2> QED BY <1>1, <2>1, ChunkErrorTyped DEF TypeInv
<1> QED BY <1>2, <1>3

\* A provider call fails (RpcFault).
LEMMA RpcFaultTyped ==
  ASSUME TypeInv, NEW p \in Procs, NEW c \in BOOLEAN, RpcFault(p, c)
  PROVE  TypeInv'
<1>1. faults' \in 0 .. MaxFaults /\ UNCHANGED <<world, db, derived>>
  BY FaultTyped DEF RpcFault
<1>2. CASE Abandon(p, c)
  BY <1>1, <1>2, AbandonTyped
<1>3. CASE proc[p].pc \in {"logs", "headers"} /\ ChunkError(p, c)
  BY <1>1, <1>3, ChunkErrorTyped
<1> QED BY <1>2, <1>3 DEF RpcFault

\* A scan that is done leaves a tail at the replay, a command off.
LEMMA ScanDoneTyped ==
  ASSUME TypeInv, NEW p \in Procs, proc[p].pc \in ScanSteps
  PROVE  /\ ScanDone(p) \in ProcRecord /\ Ready(ScanDone(p), p)
         /\ p \in Tails => /\ ScanDone(p).pc = "open" /\ ScanDone(p).target = proc[p].target
                           /\ ScanDone(p).began = proc[p].began
         /\ p \notin Tails => ScanDone(p) = Off
<1>1. proc[p] \in ProcRecord /\ Ready(proc[p], p)
  BY ProcTyped
<1>2. CASE p \in Tails
  <2> DEFINE x == [Off EXCEPT !.pc = "open", !.target = proc[p].target, !.began = proc[p].began,
                              !.failures = proc[p].failures]
  <2>1. /\ proc[p].target \in 0 .. MaxBlock /\ proc[p].began \in Forks
        /\ proc[p].failures \in 0 .. MaxFailures - 1
    BY <1>1 DEF ProcRecord
  <2>2. /\ x \in ProcRecord /\ x.pc = "open" /\ x.target = proc[p].target
        /\ x.began = proc[p].began
    BY <2>1, OffTyped DEF Off, ProcRecord, ReplaySteps
  <2>3. ScanDone(p) = x
    BY <1>2 DEF ScanDone
  <2> HIDE DEF x
  <2>4. Ready(x, p)
    BY <1>2, <2>2 DEF Ready, ScanSteps, ReplaySteps, Chunking, Deriving
  <2> QED BY <1>2, <2>2, <2>3, <2>4
<1>3. CASE p \notin Tails
  BY <1>3, OffTyped DEF ScanDone
<1> QED BY <1>2, <1>3

\* The rows that a rewind leaves are typed.
LEMMA RewoundTyped ==
  ASSUME TypeInv, NEW from \in 1 .. MaxBlock + 1
  PROVE  RewoundCursor(from) \in CursorRecord /\ TrimmedCoverage(from) \in CoverageRecord \cup {None}
<1> DEFINE kept == {c \in checkpoints : c[1] < from}
           newest == {c \in kept : \A d \in kept : d[1] <= c[1]}
           anchor == IF newest = {} THEN <<None, 0>> ELSE CHOOSE c \in newest : TRUE
           covered == IF cursor = None THEN from - 1 ELSE Lesser(cursor.covered, from - 1)
<1>1. from \in Nat /\ from >= 1 /\ from <= MaxBlock + 1 /\ MaxBlock \in Nat
  BY Bounds
<1>2. anchor[1] \in Blocks \cup {None} /\ anchor[2] \in Forks
  <2>1. newest \subseteq Events
    BY DEF TypeInv, RowsTyped
  <2>2. anchor \in Events \cup {<<None, 0>>}
    <3> HIDE DEF newest
    <3> QED BY <2>1
  <2>3. 0 \in Forks
    BY Bounds DEF Forks
  <2> HIDE DEF anchor
  <2> QED BY <2>2, <2>3 DEF Events
<1>3. covered \in 0 .. MaxBlock
  <2>1. cursor # None => cursor.covered \in 0 .. MaxBlock
    BY DEF TypeInv, RowsTyped, CursorRecord
  <2> QED BY <1>1, <2>1 DEF Lesser
<1>4. RewoundCursor(from) \in CursorRecord
  <2>1. RewoundCursor(from) = [next |-> from, last |-> anchor[1], fork |-> anchor[2], covered |-> covered]
    BY DEF RewoundCursor
  <2> HIDE DEF anchor, covered
  <2> QED BY <1>2, <1>3, <2>1 DEF CursorRecord
<1>5. TrimmedCoverage(from) \in CoverageRecord \cup {None}
  <2>1. coverage # None => coverage \in CoverageRecord
    BY DEF TypeInv, RowsTyped
  <2>2. coverage \in CoverageRecord => coverage.from \in Blocks /\ coverage.through \in Blocks
    BY DEF CoverageRecord
  <2>3. coverage \in CoverageRecord /\ coverage.from < from - 1 => Lesser(coverage.through, from - 1) \in Blocks
    BY <1>1, <2>2 DEF Lesser, Blocks
  <2>4. \A b \in Blocks : coverage \in CoverageRecord => [coverage EXCEPT !.through = b] \in CoverageRecord
    BY DEF CoverageRecord
  <2> QED BY <2>1, <2>3, <2>4 DEF TrimmedCoverage
<1> QED BY <1>4, <1>5

\* The locks when a scan ends.
LEMMA DoneLocks ==
  ASSUME TypeInv, NEW p \in Procs, NEW done,
         IF done THEN Release(p) ELSE UNCHANGED <<tailLock, replayLock>>
  PROVE  LocksTyped'
<1>1. CASE done
  BY <1>1, ReleaseTyped
<1>2. CASE ~done
  BY <1>2 DEF TypeInv, LocksTyped
<1> QED BY <1>1, <1>2

\* The rows above the resume point are deleted (Rewind).
LEMMA RewindTyped ==
  ASSUME TypeInv, NEW p \in Procs, Rewind(p)
  PROVE  TypeInv'
<1> DEFINE from == proc[p].from
           done == from > proc[p].target
           y == [proc[p] EXCEPT !.pc = "logs", !.next = from]
           x == IF done THEN ScanDone(p) ELSE y
<1>1. /\ proc[p] \in ProcRecord /\ Ready(proc[p], p) /\ proc[p].pc = "rewind"
      /\ proc[p].pc \in ScanSteps
  BY ProcTyped DEF Rewind, At, ScanSteps
<1>2. /\ from \in 1 .. MaxBlock + 1 /\ proc[p].target \in 0 .. MaxBlock
      /\ from \in 0 .. MaxBlock + 1 /\ from >= 1
  BY <1>1, Bounds DEF ProcRecord, Ready
<1>3. WorldTyped' /\ faults' \in 0 .. MaxFaults
  BY DEF Rewind, TypeInv, WorldTyped, world
<1>4. RowsTyped'
  <2>1. /\ events' \subseteq Events /\ checkpoints' \subseteq Events /\ scanned' \subseteq Blocks
    BY DEF Rewind, After, TypeInv, RowsTyped
  <2>2. cursor' \in CursorRecord /\ coverage' \in CoverageRecord \cup {None}
    BY <1>2, RewoundTyped DEF Rewind
  <2>3. replay' \in ReplayRecord \cup {None} /\ applied' \subseteq Events
    BY DEF Rewind, TypeInv, RowsTyped, derived
  <2> QED BY <2>1, <2>2, <2>3 DEF RowsTyped
<1>5. LocksTyped'
  <2>1. IF done /\ p \notin Tails THEN Release(p) ELSE UNCHANGED <<tailLock, replayLock>>
    BY DEF Rewind
  <2> QED BY <2>1, DoneLocks
<1>6. Become(p, x) /\ replay' = replay
  BY DEF Rewind, derived
<1>7. x \in ProcRecord /\ Ready(x, p) /\ x.pc \notin Deriving
  <2>1. CASE done
    BY <1>1, <2>1, ScanDoneTyped, OffTyped DEF Deriving
  <2>2. CASE ~done
    <3>1. y \in ProcRecord /\ y.pc = "logs" /\ y.next = from /\ y.target = proc[p].target
      BY <1>1, <1>2 DEF ProcRecord, ScanSteps
    <3>2. 1 <= from /\ from <= proc[p].target
      BY <1>2, <2>2
    <3> HIDE DEF y, from
    <3>3. Ready(y, p)
      BY <1>1, <3>1, <3>2 DEF Ready, ScanSteps, ReplaySteps, Chunking, Deriving
    <3> QED BY <2>2, <3>1, <3>3 DEF Deriving
  <2> QED BY <2>1, <2>2
<1>8. proc' \in [Procs -> ProcRecord] /\ ReadyInv'
  <2> HIDE DEF x
  <2> QED BY <1>6, <1>7, BecomeTyped
<1> QED BY <1>3, <1>4, <1>5, <1>8 DEF TypeInv

\* The rows that a saved chunk leaves are typed.
LEMMA SavedTyped ==
  ASSUME TypeInv, NEW from \in Blocks, NEW to \in Blocks, NEW fork \in Forks
  PROVE  SavedCursor(to, fork) \in CursorRecord /\ ExtendedCoverage(from, to) \in CoverageRecord
<1> DEFINE covered == IF cursor = None THEN to ELSE Greater(cursor.covered, to)
<1>1. to \in 1 .. MaxBlock /\ from \in 1 .. MaxBlock /\ MaxBlock \in Nat
  BY Bounds DEF Blocks
<1>2. covered \in 0 .. MaxBlock
  <2>1. cursor # None => cursor.covered \in 0 .. MaxBlock
    BY DEF TypeInv, RowsTyped, CursorRecord
  <2> QED BY <1>1, <2>1 DEF Greater
<1>3. SavedCursor(to, fork) \in CursorRecord
  <2>1. SavedCursor(to, fork) = [next |-> to + 1, last |-> to, fork |-> fork, covered |-> covered]
    BY DEF SavedCursor
  <2>2. to + 1 \in 1 .. MaxBlock + 1
    BY <1>1
  <2> HIDE DEF covered
  <2> QED BY <1>2, <2>1, <2>2 DEF CursorRecord
<1>4. ExtendedCoverage(from, to) \in CoverageRecord
  <2>1. coverage # None => coverage.from \in Blocks /\ coverage.through \in Blocks
    BY DEF TypeInv, RowsTyped, CoverageRecord
  <2>2. coverage # None => Lesser(from, coverage.from) \in Blocks /\ Greater(to, coverage.through) \in Blocks
    BY <2>1 DEF Lesser, Greater
  <2> QED BY <2>2 DEF ExtendedCoverage, CoverageRecord
<1> QED BY <1>3, <1>4

\* One chunk is stored (SaveChunk).
LEMMA SaveChunkTyped ==
  ASSUME TypeInv, NEW p \in Procs, SaveChunk(p)
  PROVE  TypeInv'
<1> DEFINE from == proc[p].next
           to == proc[p].to
           done == to >= proc[p].target
<1>1. /\ proc[p] \in ProcRecord /\ Ready(proc[p], p) /\ proc[p].pc = "save"
      /\ proc[p].pc \in ScanSteps
  BY ProcTyped DEF SaveChunk, At, ScanSteps
<1>2. /\ from \in Blocks /\ to \in Blocks /\ proc[p].target \in 0 .. MaxBlock
      /\ from <= to /\ to <= proc[p].target
  BY <1>1, Bounds DEF ProcRecord, Ready, Chunking, Blocks
<1>3. proc[p].logs \subseteq Events /\ proc[p].fork \in Forks /\ proc[p].size \in MinChunk .. MaxChunk
  BY <1>1 DEF ProcRecord
<1>4. WorldTyped' /\ faults' \in 0 .. MaxFaults
  BY DEF SaveChunk, TypeInv, WorldTyped, world
<1>5. RowsTyped'
  <2>1. events' \subseteq Events
    BY <1>3 DEF SaveChunk, TypeInv, RowsTyped
  <2>2. checkpoints' \subseteq Events
    <3>1. <<to, proc[p].fork>> \in Events
      BY <1>2, <1>3 DEF Events
    <3> QED BY <3>1 DEF SaveChunk, TypeInv, RowsTyped
  <2>3. scanned' \subseteq Blocks
    <3>1. from .. to \subseteq Blocks
      BY <1>2, Bounds DEF Blocks
    <3> QED BY <3>1 DEF SaveChunk, TypeInv, RowsTyped
  <2>4. cursor' \in CursorRecord /\ coverage' \in CoverageRecord
    BY <1>2, <1>3, SavedTyped DEF SaveChunk
  <2>5. replay' \in ReplayRecord \cup {None} /\ applied' \subseteq Events
    BY DEF SaveChunk, TypeInv, RowsTyped, derived
  <2> QED BY <2>1, <2>2, <2>3, <2>4, <2>5 DEF RowsTyped
<1>6. LocksTyped'
  <2>1. IF done /\ p \notin Tails THEN Release(p) ELSE UNCHANGED <<tailLock, replayLock>>
    BY DEF SaveChunk
  <2> QED BY <2>1, DoneLocks
<1>7. replay' = replay
  BY DEF SaveChunk, derived
<1>8. \E x \in ProcRecord : Become(p, x) /\ Ready(x, p) /\ x.pc \notin Deriving
  <2>1. CASE done
    <3>1. Become(p, ScanDone(p))
      BY <2>1 DEF SaveChunk
    <3> QED BY <1>1, <3>1, ScanDoneTyped, OffTyped DEF Deriving
  <2>2. CASE ~done
    <3>1. PICK size \in NextSizes(proc[p].size) :
            Become(p, [proc[p] EXCEPT !.pc = "logs", !.next = to + 1, !.logs = {}, !.size = size])
      BY <2>2 DEF SaveChunk
    <3> DEFINE y == [proc[p] EXCEPT !.pc = "logs", !.next = to + 1, !.logs = {}, !.size = size]
    <3>2. size \in MinChunk .. MaxChunk
      BY <1>3, SizesTyped
    <3>3. to + 1 \in 0 .. MaxBlock + 1 /\ 1 <= to + 1 /\ to + 1 <= proc[p].target
      BY <1>2, <2>2, Bounds DEF Blocks
    <3>4. y \in ProcRecord /\ y.pc = "logs" /\ y.next = to + 1 /\ y.target = proc[p].target
      BY <1>1, <3>2, <3>3 DEF ProcRecord, ScanSteps
    <3>5. Become(p, y)
      BY <3>1
    <3> HIDE DEF y, to
    <3>6. Ready(y, p)
      BY <1>1, <3>3, <3>4 DEF Ready, ScanSteps, ReplaySteps, Chunking, Deriving
    <3> QED BY <3>4, <3>5, <3>6 DEF Deriving
  <2> QED BY <2>1, <2>2
<1>9. proc' \in [Procs -> ProcRecord] /\ ReadyInv'
  BY <1>7, <1>8, BecomeTyped
<1> QED BY <1>4, <1>5, <1>6, <1>9 DEF TypeInv

-----------------------------------------------------------------------------
(* The steps of a replay.                                                   *)

\* The replay checks where it starts (ValidateReplay).
LEMMA ValidateReplayTyped ==
  ASSUME TypeInv, NEW p \in Procs, ValidateReplay(p)
  PROVE  TypeInv'
<1> DEFINE fresh == proc[p].rebuild \/ replay = None
           last == IF fresh THEN None ELSE replay.last
           y == [proc[p] EXCEPT !.pc = "fetch", !.last = last]
           z == [proc[p] EXCEPT !.pc = "source", !.rebuild = TRUE]
<1>1. /\ proc[p] \in ProcRecord /\ Ready(proc[p], p) /\ proc[p].pc = "validate"
  BY ProcTyped DEF ValidateReplay, At
<1>2. WorldTyped' /\ faults' \in 0 .. MaxFaults
  BY DEF ValidateReplay, TypeInv, WorldTyped, world
<1>3. replay' \in ReplayRecord /\ applied' \subseteq Events /\ last \in Events \cup {None}
  <2>1. replay # None => replay \in ReplayRecord
    BY DEF TypeInv, RowsTyped
  <2>2. [last |-> None, complete |-> None] \in ReplayRecord
    BY DEF ReplayRecord
  <2>3. replay \in ReplayRecord => replay.last \in Events \cup {None}
    BY DEF ReplayRecord
  <2> QED BY <2>1, <2>2, <2>3 DEF ValidateReplay, TypeInv, RowsTyped
<1>4. RowsTyped'
  BY <1>3 DEF ValidateReplay, TypeInv, RowsTyped, db
<1>5. \E x \in ProcRecord : Become(p, x) /\ Ready(x, p) /\ LocksTyped'
  <2>1. CASE SourceIntact(last)
    <3>1. Become(p, y) /\ UNCHANGED <<tailLock, replayLock>>
      BY <2>1 DEF ValidateReplay
    <3> HIDE DEF last
    <3>2. y \in ProcRecord /\ y.pc = "fetch" /\ y.source = proc[p].source
      BY <1>1, <1>3 DEF ProcRecord, ReplaySteps
    <3> HIDE DEF y
    <3>3. Ready(y, p)
      BY <1>1, <3>2 DEF Ready, ScanSteps, ReplaySteps, Chunking, Deriving
    <3> QED BY <3>1, <3>2, <3>3 DEF TypeInv, LocksTyped
  <2>2. CASE ~SourceIntact(last) /\ p \in Tails
    <3>1. Become(p, z) /\ UNCHANGED <<tailLock, replayLock>>
      BY <2>2 DEF ValidateReplay
    <3>2. z \in ProcRecord /\ z.pc = "source"
      BY <1>1 DEF ProcRecord, ReplaySteps
    <3> HIDE DEF z
    <3>3. Ready(z, p)
      BY <2>2, <3>2 DEF Ready, ScanSteps, ReplaySteps, Chunking, Deriving
    <3> QED BY <3>1, <3>2, <3>3 DEF TypeInv, LocksTyped
  <2>3. CASE ~SourceIntact(last) /\ p \notin Tails
    <3>1. Abandon(p, FALSE)
      BY <2>3 DEF ValidateReplay
    <3> QED BY <3>1, AbandonShape
  <2> QED BY <2>1, <2>2, <2>3
<1>6. proc' \in [Procs -> ProcRecord] /\ ReadyInv'
  BY <1>3, <1>5, BecomeTyped
<1> QED BY <1>2, <1>4, <1>5, <1>6 DEF TypeInv

\* The newest event of a batch is one of them.
LEMMA NewestTyped ==
  ASSUME NEW S \in SUBSET Events, S # {}
  PROVE  Newest(S) \in S /\ \A d \in S : d[1] <= Newest(S)[1]
BY NewestExists DEF Newest

\* A batch is folded into the derived state (SaveBatch).
LEMMA SaveBatchTyped ==
  ASSUME TypeInv, NEW p \in Procs, SaveBatch(p)
  PROVE  TypeInv'
<1> DEFINE last == Newest(proc[p].logs)
           x == [proc[p] EXCEPT !.pc = "fetch", !.last = last, !.logs = {}]
<1>1. /\ proc[p] \in ProcRecord /\ Ready(proc[p], p) /\ proc[p].pc = "apply"
      /\ replay \in ReplayRecord
  BY ProcTyped DEF SaveBatch, At, TypeInv, ReadyInv, Deriving
<1>2. last \in Events /\ proc[p].logs \subseteq Events
  BY <1>1, NewestTyped DEF ProcRecord, Ready
<1>3. WorldTyped' /\ LocksTyped' /\ faults' \in 0 .. MaxFaults
  BY DEF SaveBatch, TypeInv, WorldTyped, LocksTyped, world
<1>4. Become(p, x) /\ replay' = [replay EXCEPT !.last = last]
  BY DEF SaveBatch
<1> HIDE DEF last
<1>5. replay' \in ReplayRecord
  BY <1>1, <1>2, <1>4 DEF ReplayRecord
<1>6. RowsTyped'
  BY <1>2, <1>5 DEF SaveBatch, TypeInv, RowsTyped, db
<1>7. x \in ProcRecord /\ x.pc = "fetch" /\ x.source = proc[p].source
  BY <1>1, <1>2 DEF ProcRecord, ReplaySteps
<1> HIDE DEF x
<1>8. Ready(x, p)
  BY <1>1, <1>7 DEF Ready, ScanSteps, ReplaySteps, Chunking, Deriving
<1>9. proc' \in [Procs -> ProcRecord] /\ ReadyInv'
  BY <1>4, <1>5, <1>7, <1>8, BecomeTyped
<1> QED BY <1>3, <1>6, <1>9 DEF TypeInv

\* The derived state is marked complete (MarkComplete).
LEMMA MarkCompleteTyped ==
  ASSUME TypeInv, NEW p \in Procs, MarkComplete(p)
  PROVE  TypeInv'
<1> DEFINE y == [Off EXCEPT !.pc = "idle"]
           x == IF p \in Tails THEN y ELSE Off
           c == <<proc[p].source.block, proc[p].source.fork>>
<1>1. /\ proc[p] \in ProcRecord /\ Ready(proc[p], p) /\ proc[p].pc = "mark"
      /\ replay \in ReplayRecord
  BY ProcTyped DEF MarkComplete, At, TypeInv, ReadyInv, Deriving
<1>2. c \in Events
  BY <1>1 DEF Ready, Deriving, SourceRecord, Events
<1>3. WorldTyped' /\ LocksTyped' /\ faults' \in 0 .. MaxFaults
  BY DEF MarkComplete, TypeInv, WorldTyped, LocksTyped, world
<1>4. Become(p, x) /\ replay' = [replay EXCEPT !.complete = c]
  BY DEF MarkComplete
<1> HIDE DEF c
<1>5. replay' \in ReplayRecord
  BY <1>1, <1>2, <1>4 DEF ReplayRecord
<1>6. RowsTyped'
  BY <1>5 DEF MarkComplete, TypeInv, RowsTyped, db
<1>7. x \in ProcRecord /\ Ready(x, p)
  <2>1. y \in ProcRecord /\ y.pc = "idle"
    BY OffTyped DEF Off, ProcRecord
  <2> HIDE DEF y
  <2>2. p \in Tails => Ready(y, p)
    BY <2>1 DEF Ready, ScanSteps, ReplaySteps, Chunking, Deriving
  <2> QED BY <2>1, <2>2, OffTyped
<1> HIDE DEF x
<1>8. proc' \in [Procs -> ProcRecord] /\ ReadyInv'
  BY <1>4, <1>5, <1>7, BecomeTyped
<1> QED BY <1>3, <1>6, <1>8 DEF TypeInv

-----------------------------------------------------------------------------
(* Type correctness.                                                        *)

\* The initial state is typed.
LEMMA InitTyped == Init => TypeInv
<1> SUFFICES ASSUME Init PROVE TypeInv
  OBVIOUS
<1> DEFINE n == Greater(Depth, Floor)
<1>1. n \in Blocks /\ n \in Nat /\ n >= Floor
  BY Bounds DEF Greater, Blocks
<1>2. 0 \in Forks
  BY Bounds DEF Forks
<1>3. chain = [b \in 1 .. n |-> [fork |-> 0, log |-> FALSE]] /\ top = n
  BY DEF Init
<1> HIDE DEF n
<1>4. [fork |-> 0, log |-> FALSE] \in ChainBlock
  BY <1>2 DEF ChainBlock
<1>5. chain \in Seq(ChainBlock) /\ Len(chain) = n
  BY <1>1, <1>3, <1>4
<1>6. WorldTyped
  BY <1>1, <1>2, <1>3, <1>5 DEF Init, WorldTyped
<1>7. RowsTyped /\ LocksTyped /\ faults \in 0 .. MaxFaults
  BY Bounds DEF Init, RowsTyped, LocksTyped
<1>8. proc \in [Procs -> ProcRecord] /\ ReadyInv
  BY OffTyped DEF Init, ReadyInv, Deriving
<1> QED BY <1>6, <1>7, <1>8 DEF TypeInv

\* Every step of a process keeps the types.
LEMMA StepTyped ==
  ASSUME TypeInv, NEW p \in Procs, Step(p) \/ Command(p)
  PROVE  TypeInv'
<1>1. CASE StartTail(p) \/ StartCycle(p) \/ Plan(p) \/ Rewind(p)
  BY <1>1, StartTailTyped, StartCycleTyped, PlanTyped, RewindTyped
<1>2. CASE FetchLogs(p) \/ FetchHeaders(p) \/ SaveChunk(p)
  BY <1>2, FetchLogsTyped, FetchHeadersTyped, SaveChunkTyped
<1>3. CASE OpenReplay(p) \/ GetSource(p) \/ ValidateReplay(p) \/ FetchEvents(p)
  BY <1>3, OpenReplayTyped, GetSourceTyped, ValidateReplayTyped, FetchEventsTyped
<1>4. CASE SaveBatch(p) \/ CheckSource(p) \/ MarkComplete(p)
  BY <1>4, SaveBatchTyped, CheckSourceTyped, MarkCompleteTyped
<1>5. CASE Command(p)
  BY <1>5, StartBackfillTyped, StartReplayTyped DEF Command
<1> QED BY <1>1, <1>2, <1>3, <1>4, <1>5 DEF Step

\* So does every step of the chain and every fault.
LEMMA EnvironmentTyped ==
  ASSUME TypeInv, Environment
  PROVE  TypeInv'
<1>1. CASE \E log \in BOOLEAN : Extend(log)
  BY <1>1, ExtendTyped
<1>2. CASE \E from \in Floor .. Len(chain) : \E length \in 1 .. MaxBlock - from + 1 :
             \E logs \in SUBSET (from .. from - 1 + length) : Reorg(from, length, logs)
  BY <1>2, ReorgTyped
<1>3. CASE \E p \in Procs : Crash(p) \/ LoseLock(p) \/ \E c \in BOOLEAN : RpcFault(p, c)
  BY <1>3, CrashTyped, LoseLockTyped, RpcFaultTyped
<1> QED BY <1>1, <1>2, <1>3 DEF Environment

\* Types are kept by every step and every stutter.
LEMMA NextTyped ==
  ASSUME TypeInv, [Next]_vars
  PROVE  TypeInv'
<1>1. CASE Next
  BY <1>1, StepTyped, EnvironmentTyped DEF Next
<1>2. CASE UNCHANGED vars
  BY <1>2 DEF vars, TypeInv, WorldTyped, RowsTyped, LocksTyped, ReadyInv
<1> QED BY <1>1, <1>2

\* Every row, lock and process keeps its type in every state, whatever the
\* constants: a step is only taken with what the steps before it have left.
THEOREM TypesHold == Spec => []TypeInv
<1>1. Init => TypeInv
  BY InitTyped
<1>2. TypeInv /\ [Next]_vars => TypeInv'
  BY NextTyped
<1> QED BY <1>1, <1>2, PTL DEF Spec

\* The type part of StreamSound is among it.
LEMMA TypesRead == TypeInv => TypeOK
<1> SUFFICES ASSUME TypeInv PROVE TypeOK
  OBVIOUS
<1>1. Len(chain) \in Blocks /\ forks \in Forks /\ top \in Blocks /\ faults \in 0 .. MaxFaults
  BY DEF TypeInv, WorldTyped
<1>2. /\ events \subseteq Events /\ checkpoints \subseteq Events /\ scanned \subseteq Blocks
      /\ applied \subseteq Events
  BY DEF TypeInv, RowsTyped
<1>3. cursor # None => /\ cursor.next \in 1 .. MaxBlock + 1
                       /\ cursor.last \in Blocks \cup {None}
                       /\ cursor.covered \in 0 .. MaxBlock
  BY DEF TypeInv, RowsTyped, CursorRecord
<1>4. coverage # None => coverage.from \in Blocks /\ coverage.through \in Blocks
  BY DEF TypeInv, RowsTyped, CoverageRecord
<1>5. \A p \in Procs : /\ proc[p].pc \in {"off", "idle"} \cup ScanSteps \cup ReplaySteps
                       /\ proc[p].size \in MinChunk .. MaxChunk
                       /\ proc[p].failures \in 0 .. MaxFailures - 1
  BY ProcTyped DEF ProcRecord
<1> QED BY <1>1, <1>2, <1>3, <1>4, <1>5 DEF TypeOK, TypeInv, LocksTyped

-----------------------------------------------------------------------------
(* The high-water mark.                                                     *)

\* Rows of the indexer are written by a rewind and by a saved chunk only.
LEMMA RowsKept ==
  ASSUME Next, \A p \in Procs : ~Rewind(p) /\ ~SaveChunk(p)
  PROVE  UNCHANGED db
<1>1. ASSUME NEW p \in Procs, Step(p) PROVE UNCHANGED db
  <2>1. CASE StartTail(p) \/ StartCycle(p) \/ Plan(p) \/ FetchLogs(p) \/ FetchHeaders(p)
    BY <2>1 DEF StartTail, StartCycle, Plan, FetchLogs, FetchHeaders, Fail
  <2>2. CASE OpenReplay(p) \/ GetSource(p) \/ ValidateReplay(p) \/ FetchEvents(p)
    BY <2>2 DEF OpenReplay, GetSource, ValidateReplay, FetchEvents, Fail
  <2>3. CASE SaveBatch(p) \/ CheckSource(p) \/ MarkComplete(p)
    BY <2>3 DEF SaveBatch, CheckSource, MarkComplete, Fail
  <2> QED BY <1>1, <2>1, <2>2, <2>3 DEF Step
<1>2. ASSUME NEW p \in Procs, Command(p) PROVE UNCHANGED db
  BY <1>2 DEF Command, StartBackfill, StartReplay
<1>3. ASSUME Environment PROVE UNCHANGED db
  BY <1>3 DEF Environment, Extend, Reorg, Crash, LoseLock, RpcFault
<1> QED BY <1>1, <1>2, <1>3 DEF Next

\* Only a rewind lowers the high-water mark, to the block before the one it
\* rewinds to: a writer that has lost its lock never lowers it by saving.
THEOREM MarkOnlyRewound == Spec => HighWater
<1> DEFINE Kept == cursor # None /\ cursor'.covered < cursor.covered =>
                     \E p \in Procs : At(p, "rewind") /\ cursor'.covered = proc[p].from - 1
<1>1. ASSUME TypeInv, NEW p \in Procs, Rewind(p) PROVE Kept
  <2>1. cursor' = RewoundCursor(proc[p].from) /\ At(p, "rewind")
    BY <1>1 DEF Rewind
  <2>2. cursor # None => cursor'.covered = Lesser(cursor.covered, proc[p].from - 1)
    BY <2>1 DEF RewoundCursor
  <2>3. cursor # None => cursor.covered \in Int
    BY <1>1 DEF TypeInv, RowsTyped, CursorRecord
  <2>4. proc[p].from \in Int
    BY <1>1, ProcTyped, Bounds DEF ProcRecord
  <2> QED BY <2>1, <2>2, <2>3, <2>4 DEF Lesser
<1>2. ASSUME TypeInv, NEW p \in Procs, SaveChunk(p) PROVE Kept
  <2>1. cursor' = SavedCursor(proc[p].to, proc[p].fork)
    BY <1>2 DEF SaveChunk
  <2>2. cursor # None => cursor'.covered = Greater(cursor.covered, proc[p].to)
    BY <2>1 DEF SavedCursor
  <2>3. cursor # None => cursor.covered \in Int
    BY <1>2 DEF TypeInv, RowsTyped, CursorRecord
  <2>4. proc[p].to \in Int
    BY <1>2, ProcTyped, Bounds DEF ProcRecord
  <2> QED BY <2>2, <2>3, <2>4 DEF Greater
<1>3. ASSUME TypeInv, cursor' = cursor PROVE Kept
  <2>1. cursor # None => cursor.covered \in Int
    BY <1>3 DEF TypeInv, RowsTyped, CursorRecord
  <2> QED BY <1>3, <2>1
<1>4. TypeInv /\ [Next]_vars => [Kept]_vars
  BY <1>1, <1>2, <1>3, RowsKept DEF db
<1>5. Spec => [][Kept]_vars
  BY <1>4, TypesHold, PTL DEF Spec
<1> QED BY <1>5 DEF HighWater

-----------------------------------------------------------------------------
(* One writer, and what it has scanned.                                     *)

\* A tail or backfill that is running holds the writers' lock.
LockInv == \A p \in Tails \cup Backfills : proc[p].pc # "off" => tailLock = p

\* A process relies on the blocks below the one it is at having been scanned.
Scanned(x) ==
  /\ x.pc = "plan" /\ x.explicit # None => cursor # None /\ x.explicit <= cursor.next
  /\ x.pc = "rewind" => Floor .. x.from - 1 \subseteq scanned
  /\ x.pc \in Chunking => Floor .. x.next - 1 \subseteq scanned

CoverInv ==
  /\ cursor # None => /\ Floor .. cursor.next - 1 \subseteq scanned
                      /\ Floor .. cursor.covered \subseteq scanned
  /\ \A p \in Tails \cup Backfills : Scanned(proc[p])

\* What a step does to the locks and the processes: one process moves on with
\* the locks as they are, starts with the free lock, or stops and releases.
Moved(p, x) ==
  /\ Become(p, x)
  /\ \/ x.pc # "off" /\ proc[p].pc # "off" /\ tailLock' = tailLock
     \/ x.pc # "off" /\ tailLock = None /\ tailLock' = p
     \/ x.pc = "off" /\ tailLock' = IF tailLock = p THEN None ELSE tailLock
     \/ p \in Replayers /\ tailLock' = tailLock

\* Such a step keeps the one writer.
LEMMA LockKept ==
  ASSUME TypeInv, LockInv, NEW p \in Procs, NEW x, Moved(p, x)
  PROVE  LockInv'
<1>1. Become(p, x)
  BY DEF Moved
<1>2. proc'[p] = x /\ \A q \in Procs : q # p => proc'[q] = proc[q]
  BY <1>1, Became
<1>3. ASSUME NEW q \in Tails \cup Backfills, proc'[q].pc # "off"
      PROVE  tailLock' = q
  <2>1. q \in Procs /\ q # None /\ q \notin Replayers
    BY Nobody DEF Procs
  <2>2. CASE q = p
    BY <1>2, <1>3, <2>1, <2>2 DEF Moved, LockInv
  <2>3. CASE q # p
    <3>1. tailLock = q
      BY <1>2, <1>3, <2>1, <2>3 DEF LockInv
    <3> QED BY <2>1, <2>3, <3>1 DEF Moved
  <2> QED BY <2>2, <2>3
<1> QED BY <1>3 DEF LockInv

\* The only process of the writers that runs while p does is p.
LEMMA OneWriter ==
  ASSUME TypeInv, LockInv, NEW p \in Tails \cup Backfills, proc[p].pc # "off"
  PROVE  \A q \in Tails \cup Backfills : q # p => proc[q].pc = "off"
BY DEF LockInv

\* An error keeps it too.
LEMMA AbandonMoved ==
  ASSUME TypeInv, NEW p \in Procs, NEW c \in BOOLEAN, Abandon(p, c), proc[p].pc # "off"
  PROVE  \E x \in ProcRecord : Moved(p, x) /\ x.pc \in {"off", "idle"}
<1>1. PICK x \in ProcRecord :
        /\ Become(p, x)
        /\ \/ x.pc = "off" /\ Release(p)
           \/ x.pc = "idle" /\ UNCHANGED tailLock
  BY AbandonShape
<1> QED BY <1>1 DEF Moved, Release

\* A step that writes no row of the indexer, of a process that relies on
\* nothing new afterwards.
LEMMA CoverQuiet ==
  ASSUME TypeInv, CoverInv, NEW p \in Procs, NEW x, Become(p, x), UNCHANGED db, Scanned(x)
  PROVE  CoverInv'
<1>1. proc'[p] = x /\ \A q \in Procs : q # p => proc'[q] = proc[q]
  BY Became
<1>2. cursor' = cursor /\ scanned' = scanned
  BY DEF db
<1>3. ASSUME NEW q \in Tails \cup Backfills PROVE Scanned(proc[q])'
  <2>1. q \in Procs
    BY DEF Procs
  <2>2. proc'[q] = x \/ proc'[q] = proc[q]
    BY <1>1, <2>1
  <2> QED BY <1>2, <2>2 DEF CoverInv, Scanned
<1> QED BY <1>2, <1>3 DEF CoverInv

\* A process outside a scan relies on nothing.
LEMMA IdleScanned ==
  ASSUME NEW x, x.pc \notin {"plan", "rewind"} \cup Chunking
  PROVE  Scanned(x)
BY DEF Scanned

\* Everything below the point where a scan resumes has been scanned.
LEMMA ResumeScanned ==
  ASSUME TypeInv, CoverInv, NEW p \in Tails \cup Backfills, proc[p].pc = "plan"
  PROVE  Floor .. calculateResumeStart(proc[p].explicit) - 1 \subseteq scanned
<1> DEFINE explicit == proc[p].explicit
           floor == IF explicit = None THEN Floor ELSE explicit
           wanted == IF explicit = None THEN cursor.next ELSE Lesser(explicit, cursor.next)
           resume == IF cursor.last = None \/ findCanonicalAnchor = cursor.last THEN wanted
                     ELSE IF findCanonicalAnchor = None THEN floor
                     ELSE Lesser(wanted, findCanonicalAnchor + 1)
<1>1. p \in Procs /\ explicit \in Blocks \cup {None}
  BY ProcTyped DEF Procs, ProcRecord
<1>2. Scanned(proc[p])
  BY DEF CoverInv
<1>3. CASE cursor = None
  <2>1. explicit = None
    BY <1>2, <1>3 DEF Scanned
  <2>2. calculateResumeStart(explicit) = Floor
    BY <1>3, <2>1 DEF calculateResumeStart
  <2> QED BY <2>2, Bounds
<1>4. CASE cursor # None
  <2>1. cursor.next \in Nat /\ Floor .. cursor.next - 1 \subseteq scanned
    BY <1>4, Bounds DEF TypeInv, RowsTyped, CursorRecord, CoverInv
  <2>2. explicit # None => explicit \in Nat /\ explicit <= cursor.next
    BY <1>1, <1>2 DEF Scanned, Blocks
  <2>3. floor \in Nat /\ wanted \in Nat /\ wanted <= cursor.next
        /\ (floor = Floor \/ floor <= cursor.next)
    BY <2>1, <2>2, Bounds DEF Lesser
  <2>4. resume \in Int /\ (resume <= cursor.next \/ resume = floor)
    <3>1. CASE cursor.last = None \/ findCanonicalAnchor = cursor.last \/ findCanonicalAnchor = None
      BY <2>3, <3>1
    <3>2. CASE ~(cursor.last = None \/ findCanonicalAnchor = cursor.last \/ findCanonicalAnchor = None)
      <4>1. findCanonicalAnchor \in Int
        BY <1>4, <3>2, AnchorShape DEF HasSource, Events, Blocks
      <4>2. resume = Lesser(wanted, findCanonicalAnchor + 1)
        BY <3>2
      <4> HIDE DEF wanted, resume
      <4> QED BY <2>1, <2>3, <4>1, <4>2 DEF Lesser
    <3> QED BY <3>1, <3>2
  <2>5. calculateResumeStart(explicit) = Greater(floor, Greater(resume - Overlap, 0))
    BY <1>4 DEF calculateResumeStart
  <2> HIDE DEF floor, resume, wanted, explicit
  <2>6. calculateResumeStart(explicit) \in Nat
        /\ (calculateResumeStart(explicit) <= Floor \/ calculateResumeStart(explicit) <= cursor.next)
    BY <2>1, <2>3, <2>4, <2>5, Bounds DEF Greater
  <2> USE DEF explicit
  <2>7. ASSUME NEW b \in Floor .. calculateResumeStart(explicit) - 1 PROVE b \in scanned
    <3>1. b \in Floor .. cursor.next - 1
      <4> HIDE DEF explicit
      <4> QED BY <2>1, <2>6, Bounds
    <3> QED BY <2>1, <3>1
  <2> QED BY <2>7
<1> QED BY <1>3, <1>4

\* A scan starts from what the plan found.
LEMMA PlanCovered ==
  ASSUME TypeInv, LockInv, CoverInv, NEW p \in Procs, Plan(p)
  PROVE  LockInv' /\ CoverInv'
<1> DEFINE from == calculateResumeStart(proc[p].explicit)
           x == [proc[p] EXCEPT !.pc = "rewind", !.from = from]
<1>1. proc[p] \in ProcRecord /\ proc[p].pc = "plan" /\ p \in Tails \cup Backfills
  BY ProcTyped DEF Plan, At, Ready, ScanSteps
<1>2. CASE AnchorReadable /\ from - 1 <= Len(chain)
  <2>1. Floor .. from - 1 \subseteq scanned
    BY <1>1, ResumeScanned
  <2>2. Become(p, x) /\ UNCHANGED <<db, tailLock>>
    BY <1>2 DEF Plan
  <2> HIDE DEF from
  <2>3. x.pc = "rewind" /\ x.from = from
    BY <1>1 DEF ProcRecord
  <2> HIDE DEF x
  <2>4. Moved(p, x) /\ Scanned(x)
    BY <1>1, <2>1, <2>2, <2>3 DEF Moved, Scanned, Chunking
  <2> QED BY <2>2, <2>4, LockKept, CoverQuiet
<1>3. CASE ~(AnchorReadable /\ from - 1 <= Len(chain))
  <2>1. Abandon(p, FALSE) /\ UNCHANGED db
    BY <1>3 DEF Plan, Fail
  <2>2. PICK x1 \in ProcRecord : Moved(p, x1) /\ x1.pc \in {"off", "idle"}
    BY <1>1, <2>1, AbandonMoved
  <2>3. Become(p, x1) /\ Scanned(x1)
    BY <2>2, IdleScanned DEF Moved, Chunking
  <2> QED BY <2>1, <2>2, <2>3, LockKept, CoverQuiet
<1> QED BY <1>2, <1>3

\* A step of an abandoned cycle in general.
LEMMA AbandonCovered ==
  ASSUME TypeInv, LockInv, CoverInv, NEW p \in Procs, NEW c \in BOOLEAN, Abandon(p, c),
         proc[p].pc # "off", UNCHANGED db
  PROVE  LockInv' /\ CoverInv'
<1>1. PICK x \in ProcRecord : Moved(p, x) /\ x.pc \in {"off", "idle"}
  BY AbandonMoved
<1>2. Become(p, x) /\ Scanned(x)
  BY <1>1, IdleScanned DEF Moved, Chunking
<1> QED BY <1>1, <1>2, LockKept, CoverQuiet

\* A running process goes on with the locks and the rows as they are.
LEMMA AdvanceCovered ==
  ASSUME TypeInv, LockInv, CoverInv, NEW p \in Procs, NEW x, Become(p, x), x.pc # "off",
         proc[p].pc # "off", Scanned(x), UNCHANGED <<db, tailLock>>
  PROVE  LockInv' /\ CoverInv'
BY LockKept, CoverQuiet DEF Moved

\* The steps that start a process.
LEMMA StartCovered ==
  ASSUME TypeInv, LockInv, CoverInv, NEW p \in Procs, StartTail(p) \/ Command(p)
  PROVE  LockInv' /\ CoverInv'
<1>1. CASE StartTail(p)
  <2> DEFINE x == [Off EXCEPT !.pc = "idle"]
  <2>1. Become(p, x) /\ tailLock = None /\ tailLock' = p /\ UNCHANGED db
    BY <1>1 DEF StartTail
  <2>2. x.pc = "idle"
    BY DEF Off
  <2> HIDE DEF x
  <2>3. Moved(p, x) /\ Scanned(x)
    BY <2>1, <2>2, IdleScanned DEF Moved, Chunking
  <2> QED BY <2>1, <2>3, LockKept, CoverQuiet
<1>2. ASSUME NEW to \in Floor .. MaxBlock, NEW explicit \in Blocks \cup {None},
             StartBackfill(p, to, explicit)
      PROVE  LockInv' /\ CoverInv'
  <2> DEFINE x == [Off EXCEPT !.pc = "plan", !.target = to, !.explicit = explicit, !.began = forks]
  <2>1. Become(p, x) /\ tailLock = None /\ tailLock' = p /\ UNCHANGED db
    BY <1>2 DEF StartBackfill
  <2>2. x.pc = "plan" /\ x.explicit = explicit
    BY DEF Off
  <2>3. explicit # None => cursor # None /\ explicit <= cursor.next
    BY <1>2 DEF StartBackfill
  <2> HIDE DEF x
  <2>4. Moved(p, x) /\ Scanned(x)
    BY <2>1, <2>2, <2>3 DEF Moved, Scanned, Chunking
  <2> QED BY <2>1, <2>4, LockKept, CoverQuiet
<1>3. ASSUME NEW rebuild \in BOOLEAN, StartReplay(p, rebuild)
      PROVE  LockInv' /\ CoverInv'
  <2> DEFINE x == [Off EXCEPT !.pc = "source", !.rebuild = rebuild]
  <2>1. Become(p, x) /\ p \in Replayers /\ UNCHANGED <<db, tailLock>>
    BY <1>3 DEF StartReplay
  <2>2. x.pc = "source"
    BY DEF Off
  <2> HIDE DEF x
  <2>3. Moved(p, x) /\ Scanned(x)
    BY <2>1, <2>2, IdleScanned DEF Moved, Chunking
  <2> QED BY <2>1, <2>3, LockKept, CoverQuiet
<1> QED BY <1>1, <1>2, <1>3 DEF Command

\* A cycle starts.
LEMMA StartCycleCovered ==
  ASSUME TypeInv, LockInv, CoverInv, NEW p \in Procs, StartCycle(p)
  PROVE  LockInv' /\ CoverInv'
<1>1. proc[p].pc = "idle"
  BY DEF StartCycle, At
<1>2. CASE Len(chain) >= Depth
  <2> DEFINE x == [Off EXCEPT !.pc = "plan", !.target = SafeHead, !.began = forks,
                              !.failures = proc[p].failures]
  <2>1. Become(p, x) /\ UNCHANGED <<db, tailLock>>
    BY <1>2 DEF StartCycle
  <2>2. x.pc = "plan" /\ x.explicit = None
    BY DEF Off
  <2> HIDE DEF x
  <2> QED BY <1>1, <2>1, <2>2, AdvanceCovered DEF Scanned, Chunking
<1>3. CASE ~(Len(chain) >= Depth)
  BY <1>1, <1>3, AbandonCovered DEF StartCycle, Fail
<1> QED BY <1>2, <1>3

\* A chunk that fails is tried again from the same block.
LEMMA ChunkErrorCovered ==
  ASSUME TypeInv, LockInv, CoverInv, NEW p \in Procs, NEW c \in BOOLEAN, ChunkError(p, c),
         proc[p].pc \in {"logs", "headers"}, UNCHANGED db
  PROVE  LockInv' /\ CoverInv'
<1>1. p \in Tails \cup Backfills /\ Scanned(proc[p])
  BY ProcTyped DEF Ready, ScanSteps, CoverInv
<1>2. PICK x \in ProcRecord :
        /\ Become(p, x)
        /\ \/ x.pc = "logs" /\ x.next = proc[p].next /\ UNCHANGED <<tailLock, replayLock>>
           \/ Abandon(p, c)
  BY ChunkErrorShape
<1>3. CASE x.pc = "logs" /\ x.next = proc[p].next /\ UNCHANGED <<tailLock, replayLock>>
  BY <1>1, <1>2, <1>3, AdvanceCovered DEF Scanned, Chunking
<1>4. CASE Abandon(p, c)
  BY <1>4, AbandonCovered
<1> QED BY <1>2, <1>3, <1>4

\* Reading a chunk moves no resume point.
LEMMA FetchCovered ==
  ASSUME TypeInv, LockInv, CoverInv, NEW p \in Procs, FetchLogs(p) \/ FetchHeaders(p)
  PROVE  LockInv' /\ CoverInv'
<1>1. CASE FetchLogs(p)
  <2> DEFINE to == Lesser(proc[p].target, proc[p].next + proc[p].size - 1)
             x == [proc[p] EXCEPT !.pc = "headers", !.to = to, !.logs = Logs(proc[p].next, to)]
  <2>1. proc[p] \in ProcRecord /\ proc[p].pc = "logs" /\ p \in Tails \cup Backfills
    BY <1>1, ProcTyped DEF FetchLogs, At, Ready, ScanSteps
  <2>2. Become(p, x) /\ UNCHANGED <<db, tailLock>>
    BY <1>1 DEF FetchLogs
  <2> HIDE DEF to
  <2>3. x.pc = "headers" /\ x.next = proc[p].next
    BY <2>1 DEF ProcRecord
  <2> HIDE DEF x
  <2>4. Scanned(x)
    BY <2>1, <2>3 DEF CoverInv, Scanned, Chunking
  <2> QED BY <2>1, <2>2, <2>3, <2>4, AdvanceCovered
<1>2. CASE FetchHeaders(p)
  <2> DEFINE x == [proc[p] EXCEPT !.pc = "save", !.fork = chain[proc[p].to].fork]
  <2>1. proc[p] \in ProcRecord /\ proc[p].pc = "headers" /\ p \in Tails \cup Backfills
    BY <1>2, ProcTyped DEF FetchHeaders, At, Ready, ScanSteps
  <2>2. UNCHANGED db
    BY <1>2 DEF FetchHeaders
  <2>3. CASE Become(p, x) /\ UNCHANGED tailLock
    <3>1. x.pc = "save" /\ x.next = proc[p].next
      BY <2>1 DEF ProcRecord
    <3>2. Become(p, x)
      BY <2>3
    <3> HIDE DEF x
    <3>3. Scanned(x)
      BY <2>1, <3>1 DEF CoverInv, Scanned, Chunking
    <3> QED BY <2>1, <2>2, <2>3, <3>1, <3>2, <3>3, AdvanceCovered
  <2>4. CASE ChunkError(p, FALSE)
    BY <2>1, <2>2, <2>4, ChunkErrorCovered
  <2> QED BY <1>2, <2>3, <2>4 DEF FetchHeaders
<1> QED BY <1>1, <1>2

\* The steps of a replay.
LEMMA ReplayCovered ==
  ASSUME TypeInv, LockInv, CoverInv, NEW p \in Procs,
         OpenReplay(p) \/ GetSource(p) \/ ValidateReplay(p) \/ FetchEvents(p) \/ SaveBatch(p)
         \/ CheckSource(p) \/ MarkComplete(p)
  PROVE  LockInv' /\ CoverInv'
<1>1. proc[p] \in ProcRecord /\ Ready(proc[p], p)
  BY ProcTyped
<1>2. proc[p].pc \in ReplaySteps /\ UNCHANGED db /\ p \in Tails \cup Replayers
  <2>1. proc[p].pc \in ReplaySteps
    BY DEF OpenReplay, GetSource, ValidateReplay, FetchEvents, SaveBatch, CheckSource,
           MarkComplete, At, ReplaySteps
  <2>2. UNCHANGED db
    BY DEF OpenReplay, GetSource, ValidateReplay, FetchEvents, SaveBatch, CheckSource,
           MarkComplete, Fail
  <2> QED BY <1>1, <2>1, <2>2 DEF Ready
<1>3. \/ \E x : Moved(p, x) /\ x.pc \notin {"plan", "rewind"} \cup Chunking
      \/ Abandon(p, FALSE)
  <2>1. ASSUME NEW pc \in ReplaySteps, NEW x, x.pc = pc, Become(p, x), UNCHANGED tailLock
        PROVE  Moved(p, x) /\ x.pc \notin {"plan", "rewind"} \cup Chunking
    BY <1>2, <2>1 DEF Moved, ReplaySteps, Chunking
  <2>2. CASE OpenReplay(p) \/ CheckSource(p)
    <3>1. ASSUME NEW pc \in {"source", "mark"}, Goto(p, pc), UNCHANGED tailLock
          PROVE  \E x : Moved(p, x) /\ x.pc \notin {"plan", "rewind"} \cup Chunking
      <4>1. [proc[p] EXCEPT !.pc = pc].pc = pc
        BY <1>1 DEF ProcRecord
      <4> QED BY <2>1, <3>1, <4>1 DEF Goto, ReplaySteps
    <3> QED BY <2>2, <3>1 DEF OpenReplay, CheckSource, Fail
  <2>3. CASE GetSource(p)
    <3>1. [proc[p] EXCEPT !.pc = "validate", !.source = SourceNow].pc = "validate"
      BY <1>1 DEF ProcRecord
    <3> QED BY <2>1, <2>3, <3>1 DEF GetSource, ReplaySteps, Fail
  <2>4. CASE ValidateReplay(p)
    <3>1. \A last : [proc[p] EXCEPT !.pc = "fetch", !.last = last].pc = "fetch"
      BY <1>1 DEF ProcRecord
    <3>2. [proc[p] EXCEPT !.pc = "source", !.rebuild = TRUE].pc = "source"
      BY <1>1 DEF ProcRecord
    <3> QED BY <2>1, <2>4, <3>1, <3>2 DEF ValidateReplay, ReplaySteps
  <2>5. CASE FetchEvents(p)
    <3>1. \A b, pc : [proc[p] EXCEPT !.logs = b, !.pc = pc].pc = pc
      BY <1>1 DEF ProcRecord
    <3>2. PICK b, pc : pc \in {"check", "apply"} /\ Become(p, [proc[p] EXCEPT !.logs = b, !.pc = pc])
                       /\ UNCHANGED tailLock
      BY <2>5 DEF FetchEvents
    <3> DEFINE x == [proc[p] EXCEPT !.logs = b, !.pc = pc]
    <3>3. x.pc = pc /\ Become(p, x) /\ pc \in ReplaySteps
      BY <3>1, <3>2 DEF ReplaySteps
    <3> HIDE DEF x
    <3> QED BY <2>1, <3>2, <3>3
  <2>6. CASE SaveBatch(p)
    <3>1. [proc[p] EXCEPT !.pc = "fetch", !.last = Newest(proc[p].logs), !.logs = {}].pc = "fetch"
      BY <1>1 DEF ProcRecord
    <3> QED BY <2>1, <2>6, <3>1 DEF SaveBatch, ReplaySteps
  <2>7. CASE MarkComplete(p)
    <3> DEFINE x == IF p \in Tails THEN [Off EXCEPT !.pc = "idle"] ELSE Off
    <3>1. x.pc = IF p \in Tails THEN "idle" ELSE "off"
      BY DEF Off
    <3>2. Become(p, x) /\ UNCHANGED tailLock
      BY <2>7 DEF MarkComplete
    <3> HIDE DEF x
    <3> QED BY <1>2, <3>1, <3>2 DEF Moved, ReplaySteps, Chunking
  <2> QED BY <2>2, <2>3, <2>4, <2>5, <2>6, <2>7
<1>4. CASE Abandon(p, FALSE)
  BY <1>2, <1>4, AbandonCovered DEF ReplaySteps
<1>5. ASSUME NEW x, Moved(p, x), x.pc \notin {"plan", "rewind"} \cup Chunking
      PROVE  LockInv' /\ CoverInv'
  <2>1. Become(p, x) /\ Scanned(x)
    BY <1>5, IdleScanned DEF Moved
  <2> QED BY <1>2, <1>5, <2>1, LockKept, CoverQuiet
<1> QED BY <1>3, <1>4, <1>5

\* A scan's own writes: a process that was the only one of the writers to run
\* moves on to x, with the rows it needs scanned.
LEMMA WriterCovered ==
  ASSUME TypeInv, LockInv, NEW p \in Tails \cup Backfills, proc[p].pc # "off",
         NEW x, Moved(p, x),
         cursor' # None => /\ Floor .. cursor'.next - 1 \subseteq scanned'
                           /\ Floor .. cursor'.covered \subseteq scanned',
         x.pc \notin {"plan", "rewind"},
         x.pc \in Chunking => Floor .. x.next - 1 \subseteq scanned'
  PROVE  LockInv' /\ CoverInv'
<1>1. p \in Procs
  BY DEF Procs
<1>2. proc'[p] = x /\ \A q \in Procs : q # p => proc'[q] = proc[q]
  BY <1>1, Became DEF Moved
<1>3. ASSUME NEW q \in Tails \cup Backfills PROVE Scanned(proc[q])'
  <2>1. CASE q = p
    BY <1>2, <2>1 DEF Scanned
  <2>2. CASE q # p
    <3>1. proc'[q] = proc[q] /\ proc[q].pc = "off"
      BY <1>2, <2>2, OneWriter DEF Procs
    <3> QED BY <3>1 DEF Scanned, Chunking
  <2> QED BY <2>1, <2>2
<1> QED BY <1>1, <1>3, LockKept DEF CoverInv

\* A scan that is done, or goes on at y.
LEMMA DoneMoved ==
  ASSUME TypeInv, NEW p \in Tails \cup Backfills, proc[p].pc \in ScanSteps,
         NEW done, NEW y, y.pc = "logs",
         Become(p, IF done THEN ScanDone(p) ELSE y),
         IF done /\ p \notin Tails THEN Release(p) ELSE UNCHANGED <<tailLock, replayLock>>
  PROVE  Moved(p, IF done THEN ScanDone(p) ELSE y)
<1>1. p \in Procs /\ proc[p].pc # "off"
  BY DEF Procs, ScanSteps
<1>2. CASE done
  <2>1. CASE p \in Tails
    <3>1. ScanDone(p).pc = "open"
      BY <1>1, <2>1, ScanDoneTyped
    <3>2. Become(p, ScanDone(p)) /\ tailLock' = tailLock
      BY <1>2, <2>1
    <3>3. Moved(p, ScanDone(p))
      BY <1>1, <3>1, <3>2 DEF Moved
    <3> QED BY <1>2, <3>3
  <2>2. CASE p \notin Tails
    <3>1. ScanDone(p) = Off /\ Off.pc = "off"
      BY <1>1, <2>2, ScanDoneTyped, OffTyped
    <3>2. Become(p, ScanDone(p)) /\ Release(p)
      BY <1>2, <2>2
    <3>3. Moved(p, ScanDone(p))
      BY <3>1, <3>2 DEF Moved, Release
    <3> QED BY <1>2, <3>3
  <2> QED BY <2>1, <2>2
<1>3. CASE ~done
  BY <1>1, <1>3 DEF Moved
<1> QED BY <1>2, <1>3

\* The rows a rewind keeps are scanned.
LEMMA RewindCovered ==
  ASSUME TypeInv, LockInv, CoverInv, NEW p \in Procs, Rewind(p)
  PROVE  LockInv' /\ CoverInv'
<1> DEFINE from == proc[p].from
           done == from > proc[p].target
           y == [proc[p] EXCEPT !.pc = "logs", !.next = from]
           x == IF done THEN ScanDone(p) ELSE y
<1>1. /\ proc[p] \in ProcRecord /\ proc[p].pc = "rewind" /\ p \in Tails \cup Backfills
      /\ proc[p].pc \in ScanSteps /\ proc[p].pc # "off"
  BY ProcTyped DEF Rewind, At, Ready, ScanSteps
<1>2. from \in Nat /\ Floor .. from - 1 \subseteq scanned
  BY <1>1, Bounds DEF CoverInv, Scanned, ProcRecord
<1>3. y.pc = "logs" /\ y.next = from
  BY <1>1 DEF ProcRecord
<1>4. Moved(p, x)
  BY <1>1, <1>3, DoneMoved DEF Rewind
<1>5. scanned' = {b \in scanned : b < from}
  BY DEF Rewind
<1>6. cursor'.next = from
  BY DEF Rewind, RewoundCursor
<1>7. cursor'.covered \in Int /\ cursor'.covered <= from - 1
  <2>1. cursor'.covered = IF cursor = None THEN from - 1 ELSE Lesser(cursor.covered, from - 1)
    BY DEF Rewind, RewoundCursor
  <2>2. cursor # None => cursor.covered \in Int
    BY DEF TypeInv, RowsTyped, CursorRecord
  <2> QED BY <1>2, <2>1, <2>2 DEF Lesser
<1>8. \A b \in Floor .. from - 1 : b \in scanned'
  BY <1>2, <1>5, Bounds
<1>9. /\ Floor .. cursor'.next - 1 \subseteq scanned'
      /\ Floor .. cursor'.covered \subseteq scanned'
  BY <1>2, <1>6, <1>7, <1>8, Bounds
<1>10. x.pc \notin {"plan", "rewind"} /\ (x.pc \in Chunking => x = y)
  <2>1. ScanDone(p).pc \in {"open", "off"}
    BY <1>1, ScanDoneTyped, OffTyped DEF Procs
  <2> QED BY <1>3, <2>1 DEF Chunking
<1>11. x.pc \in Chunking => Floor .. x.next - 1 \subseteq scanned'
  <2> HIDE DEF x, y
  <2> QED BY <1>3, <1>8, <1>10
<1> HIDE DEF x
<1> QED BY <1>1, <1>4, <1>9, <1>10, <1>11, WriterCovered

\* The rows a saved chunk adds are those it has scanned.
LEMMA SaveCovered ==
  ASSUME TypeInv, LockInv, CoverInv, NEW p \in Procs, SaveChunk(p)
  PROVE  LockInv' /\ CoverInv'
<1> DEFINE from == proc[p].next
           to == proc[p].to
           done == to >= proc[p].target
           y(size) == [proc[p] EXCEPT !.pc = "logs", !.next = to + 1, !.logs = {}, !.size = size]
<1>1. /\ proc[p] \in ProcRecord /\ proc[p].pc = "save" /\ p \in Tails \cup Backfills
      /\ proc[p].pc \in ScanSteps /\ proc[p].pc # "off"
  BY ProcTyped DEF SaveChunk, At, Ready, ScanSteps
<1>2. from \in Nat /\ to \in Nat /\ from <= to /\ Floor .. from - 1 \subseteq scanned
  BY <1>1, ProcTyped, Bounds DEF CoverInv, Scanned, ProcRecord, Ready, Chunking
<1>3. \A size : y(size).pc = "logs" /\ y(size).next = to + 1
  BY <1>1 DEF ProcRecord
<1>4. \E size : Moved(p, IF done THEN ScanDone(p) ELSE y(size))
  <2>1. IF done /\ p \notin Tails THEN Release(p) ELSE UNCHANGED <<tailLock, replayLock>>
    BY DEF SaveChunk
  <2>2. \E size : Become(p, IF done THEN ScanDone(p) ELSE y(size))
    BY DEF SaveChunk
  <2> HIDE DEF y, done
  <2> QED BY <1>1, <1>3, <2>1, <2>2, DoneMoved
<1>5. scanned' = scanned \cup from .. to
  BY DEF SaveChunk
<1>6. \A b \in Floor .. to : b \in scanned'
  BY <1>2, <1>5, Bounds
<1>7. cursor'.next = to + 1
  BY DEF SaveChunk, SavedCursor
<1>8. Floor .. cursor'.covered \subseteq scanned'
  <2>1. cursor'.covered = IF cursor = None THEN to ELSE Greater(cursor.covered, to)
    BY DEF SaveChunk, SavedCursor
  <2>2. cursor # None => cursor.covered \in Int /\ Floor .. cursor.covered \subseteq scanned
    BY DEF TypeInv, RowsTyped, CursorRecord, CoverInv
  <2> QED BY <1>2, <1>5, <1>6, <2>1, <2>2 DEF Greater
<1>9. Floor .. cursor'.next - 1 \subseteq scanned'
  BY <1>2, <1>6, <1>7, Bounds
<1>10. PICK size : Moved(p, IF done THEN ScanDone(p) ELSE y(size))
  BY <1>4
<1> DEFINE x == IF done THEN ScanDone(p) ELSE y(size)
<1>11. x.pc \notin {"plan", "rewind"} /\ (x.pc \in Chunking => x.next = to + 1)
  <2>1. ScanDone(p).pc \in {"open", "off"}
    BY <1>1, ScanDoneTyped, OffTyped DEF Procs
  <2> HIDE DEF y, done
  <2> QED BY <1>3, <2>1 DEF Chunking
<1>12. Moved(p, x)
  BY <1>10
<1>13. x.pc \in Chunking => Floor .. x.next - 1 \subseteq scanned'
  <2> HIDE DEF x
  <2> QED BY <1>2, <1>6, <1>11, Bounds
<1> HIDE DEF x
<1> QED BY <1>1, <1>8, <1>9, <1>11, <1>12, <1>13, WriterCovered

\* The chain grows or is replaced: nothing here depends on it.
LEMMA WorldCovered ==
  ASSUME LockInv, CoverInv, UNCHANGED <<db, tailLock, proc>>
  PROVE  LockInv' /\ CoverInv'
BY DEF LockInv, CoverInv, Scanned, db

\* Every step keeps the one writer and what it has scanned, as long as the
\* lock connection is not lost.
LEMMA NextCovered ==
  ASSUME TypeInv, LockInv, CoverInv, "lockloss" \notin Faults, [Next]_vars
  PROVE  LockInv' /\ CoverInv'
<1>1. ASSUME NEW p \in Procs, Step(p) \/ Command(p) PROVE LockInv' /\ CoverInv'
  <2>1. CASE StartTail(p) \/ Command(p)
    BY <2>1, StartCovered
  <2>2. CASE StartCycle(p) \/ Plan(p) \/ Rewind(p) \/ SaveChunk(p)
    BY <2>2, StartCycleCovered, PlanCovered, RewindCovered, SaveCovered
  <2>3. CASE FetchLogs(p) \/ FetchHeaders(p)
    BY <2>3, FetchCovered
  <2>4. CASE OpenReplay(p) \/ GetSource(p) \/ ValidateReplay(p) \/ FetchEvents(p)
             \/ SaveBatch(p) \/ CheckSource(p) \/ MarkComplete(p)
    BY <2>4, ReplayCovered
  <2> QED BY <1>1, <2>1, <2>2, <2>3, <2>4 DEF Step
<1>2. ASSUME NEW p \in Procs, Crash(p) PROVE LockInv' /\ CoverInv'
  <2>1. Become(p, Off) /\ Release(p) /\ UNCHANGED db
    BY <1>2 DEF Crash
  <2>2. Moved(p, Off) /\ Scanned(Off)
    BY <2>1, OffTyped, IdleScanned DEF Moved, Release, Chunking
  <2> QED BY <2>1, <2>2, LockKept, CoverQuiet
<1>3. ASSUME NEW p \in Procs, NEW c \in BOOLEAN, RpcFault(p, c) PROVE LockInv' /\ CoverInv'
  BY <1>3, AbandonCovered, ChunkErrorCovered DEF RpcFault, At
<1>4. ASSUME NEW p \in Procs, LoseLock(p) PROVE FALSE
  BY <1>4 DEF LoseLock
<1>5. CASE Environment
  <2>1. CASE \E log \in BOOLEAN : Extend(log)
    BY <2>1, WorldCovered DEF Extend
  <2>2. CASE \E from \in Floor .. Len(chain) : \E length \in 1 .. MaxBlock - from + 1 :
               \E logs \in SUBSET (from .. from - 1 + length) : Reorg(from, length, logs)
    BY <2>2, WorldCovered DEF Reorg
  <2> QED BY <1>2, <1>3, <1>4, <1>5, <2>1, <2>2 DEF Environment
<1>6. CASE UNCHANGED vars
  BY <1>6, WorldCovered DEF vars, db
<1> QED BY <1>1, <1>5, <1>6 DEF Next

\* It holds at the start.
LEMMA InitCovered == Init => LockInv /\ CoverInv
<1> SUFFICES ASSUME Init PROVE LockInv /\ CoverInv
  OBVIOUS
<1>1. \A p \in Tails \cup Backfills : proc[p] = Off
  BY DEF Init, Procs
<1>2. Scanned(Off)
  BY OffTyped, IdleScanned DEF Chunking
<1>3. cursor = None
  BY DEF Init
<1> QED BY <1>1, <1>2, <1>3, OffTyped DEF LockInv, CoverInv

\* As long as no lock connection is lost, every block up to the high-water
\* mark has been scanned since it was last rewound, whatever tails, backfills
\* and replays run, and however the chain moves.
THEOREM MarkIsScanned ==
  ASSUME "lockloss" \notin Faults
  PROVE  Spec => []CoveredScanned
<1>1. Init => TypeInv /\ LockInv /\ CoverInv
  BY InitTyped, InitCovered
<1>2. TypeInv /\ LockInv /\ CoverInv /\ [Next]_vars => (TypeInv /\ LockInv /\ CoverInv)'
  BY NextTyped, NextCovered
<1>3. CoverInv => CoveredScanned
  BY DEF CoverInv, CoveredScanned
<1> QED BY <1>1, <1>2, <1>3, PTL DEF Spec

-----------------------------------------------------------------------------
(* What is stored, against the canonical chain.  The operators take the     *)
(* chain c, the fork count f, the stored events ev and the checkpoints cp,  *)
(* so that they can speak of a state or of the next one.                    *)

\* The chain has a log with this stamp; the chain has a block with it.
Recorded(c, e) == e[1] <= Len(c) /\ c[e[1]].log /\ c[e[1]].fork = e[2]
On(c, s) == s[1] <= Len(c) /\ c[s[1]].fork = s[2]

\* Through block b, the stored events are exactly the logs of the chain.
Faithful(c, ev, b) ==
  \A e \in Events : e[1] <= b => (e \in ev <=> (Floor <= e[1] /\ Recorded(c, e)))

\* A stamp that is not of the current fork's future: a block appended later
\* never carries it.
Fresh(c, f, s) == s[2] <= f /\ (s[2] = f => s[1] <= Len(c))

\* Forks rise along the chain.
Rises(c, f) ==
  \A a, b \in 1 .. Len(c) : a <= b => c[a].fork <= c[b].fork /\ c[b].fork <= f

\* Two chains are the same through block n.
Agree(c, d, n) == n <= Len(c) /\ n <= Len(d) /\ \A b \in 1 .. n : c[b] = d[b]

\* Every stored stamp that is still canonical vouches for everything stored
\* below it.
Vouches(c, f, ev, cp) ==
  /\ Rises(c, f)
  /\ \A s \in ev \cup cp : Fresh(c, f, s) /\ (On(c, s) => Faithful(c, ev, s[1]))
  /\ \A e \in ev : Floor <= e[1]

StampInv == Vouches(chain, forks, events, checkpoints)

\* The cursor stands at its checkpoint, or everything below it is canonical.
CursorInv ==
  cursor # None =>
    /\ Floor <= cursor.next
    /\ cursor.last # None => <<cursor.last, cursor.fork>> \in checkpoints /\ cursor.last < cursor.next
    /\ ~Anchored => cursor.next - 1 <= Len(chain) /\ Faithful(chain, events, cursor.next - 1)

\* What a tail's scan knows of the chain while it is under way, and at its end.
Follows(x, c, f, ev, cp) ==
  /\ x.began <= f
  /\ x.pc \in ScanSteps => x.target <= Len(c) /\ x.explicit = None
  /\ x.pc = "rewind" => Floor <= x.from /\ x.from - 1 <= Len(c) /\ Faithful(c, ev, x.from - 1)
  /\ x.pc \in Chunking => /\ Floor <= x.next /\ Faithful(c, ev, x.next - 1)
                          /\ \A s \in ev \cup cp : s[1] < x.next
  /\ x.pc \in {"headers", "save"} =>
       \A e \in Events : e \in x.logs <=> (x.next <= e[1] /\ e[1] <= x.to /\ Recorded(c, e))
  /\ x.pc = "save" => x.fork = c[x.to].fork
  /\ x.pc = "open" /\ x.began = f => x.target <= Len(c) /\ Faithful(c, ev, x.target)

FollowInv == \A p \in Tails : Follows(proc[p], chain, forks, events, checkpoints)

SoundInv == StampInv /\ CursorInv /\ FollowInv

\* The hypotheses: the lock connection stays up, only tails write, and no
\* reorg replaces a block while a scan is under way.
Steady == "lockloss" \notin Faults /\ Backfills = {} /\ ScanSpan = 0

\* An event is a block number and a fork.
LEMMA EventParts ==
  ASSUME NEW e \in Events
  PROVE  e[1] \in Nat /\ e[1] >= 1 /\ e[1] <= MaxBlock /\ e[2] \in Nat /\ e = <<e[1], e[2]>>
         /\ e[1] \in Blocks /\ e[2] \in Forks
BY Bounds DEF Events, Blocks, Forks

\* What getLogs answers, event by event.
LEMMA LogsMean ==
  ASSUME TypeInv, NEW from \in Nat, from >= 1, NEW to \in Int, NEW e \in Events
  PROVE  e \in Logs(from, to) <=> (from <= e[1] /\ e[1] <= to /\ Recorded(chain, e))
<1>1. Len(chain) \in Nat
  BY DEF TypeInv, WorldTyped, Blocks
<1>2. e[1] \in Nat /\ e = <<e[1], e[2]>>
  BY EventParts
<1>3. e \in Logs(from, to) <=> \E b \in from .. Lesser(to, Len(chain)) : chain[b].log /\ e = <<b, chain[b].fork>>
  BY DEF Logs
<1>4. ASSUME NEW b \in from .. Lesser(to, Len(chain)), chain[b].log, e = <<b, chain[b].fork>>
      PROVE  from <= e[1] /\ e[1] <= to /\ Recorded(chain, e)
  BY <1>1, <1>4 DEF Recorded, Lesser
<1>5. ASSUME from <= e[1], e[1] <= to, Recorded(chain, e)
      PROVE  \E b \in from .. Lesser(to, Len(chain)) : chain[b].log /\ e = <<b, chain[b].fork>>
  <2>1. e[1] \in from .. Lesser(to, Len(chain))
    BY <1>1, <1>2, <1>5 DEF Recorded, Lesser
  <2> QED BY <1>2, <1>5, <2>1 DEF Recorded
<1> QED BY <1>3, <1>4, <1>5

\* Faithful is what StreamSound says of a finished cycle.
LEMMA FaithfulMeans ==
  ASSUME TypeInv, NEW ev \in SUBSET Events, NEW b \in Int, Faithful(chain, ev, b)
  PROVE  Upto(ev, b) = Logs(Floor, b)
<1>1. Logs(Floor, b) \subseteq Events
  BY LogsTyped, Bounds
<1>2. ASSUME NEW e \in Events PROVE e \in Upto(ev, b) <=> e \in Logs(Floor, b)
  <2>1. e \in Logs(Floor, b) <=> (Floor <= e[1] /\ e[1] <= b /\ Recorded(chain, e))
    BY LogsMean, Bounds
  <2> QED BY <2>1 DEF Faithful, Upto
<1>3. Upto(ev, b) \subseteq Events
  BY DEF Upto
<1> QED BY <1>1, <1>2, <1>3

\* What is faithful through b is faithful through every earlier block.
LEMMA FaithfulBelow ==
  ASSUME NEW c, NEW ev, NEW b \in Int, NEW n \in Int, n <= b, Faithful(c, ev, b)
  PROVE  Faithful(c, ev, n)
<1>1. \A e \in Events : e[1] \in Int /\ (e[1] <= n => e[1] <= b)
  BY EventParts
<1> QED BY <1>1 DEF Faithful

\* It depends on the chain through that block only.
LEMMA FaithfulAgree ==
  ASSUME NEW c, NEW d, NEW ev, NEW n \in Int, NEW b \in Int, b <= n, Agree(c, d, n),
         Len(c) \in Nat, Len(d) \in Nat, Faithful(c, ev, b)
  PROVE  Faithful(d, ev, b)
<1>1. ASSUME NEW e \in Events, e[1] <= b PROVE Recorded(c, e) <=> Recorded(d, e)
  <2>1. e[1] \in 1 .. n /\ e[1] <= Len(c) /\ e[1] <= Len(d)
    BY <1>1, EventParts DEF Agree
  <2> QED BY <2>1 DEF Recorded, Agree
<1> QED BY <1>1 DEF Faithful

\* It depends on the events through that block only.
LEMMA FaithfulKept ==
  ASSUME NEW c, NEW ev, NEW ew, NEW b \in Int, Faithful(c, ev, b),
         \A e \in Events : e[1] <= b => (e \in ev <=> e \in ew)
  PROVE  Faithful(c, ew, b)
BY DEF Faithful

\* The chain grows by a block of the current fork.
LEMMA Grown ==
  ASSUME NEW c, NEW d, NEW f \in Nat, NEW ev \in SUBSET Events, NEW cp \in SUBSET Events,
         Len(c) \in Nat, Len(d) = Len(c) + 1, Agree(c, d, Len(c)), d[Len(c) + 1].fork = f,
         \A b \in 1 .. Len(c) : c[b].fork \in Nat
  PROVE  /\ Vouches(c, f, ev, cp) => Vouches(d, f, ev, cp)
         /\ \A x : Follows(x, c, f, ev, cp) /\ x \in ProcRecord /\ (x.pc \in Chunking => x.next <= x.target)
                     /\ (x.pc \in {"headers", "save"} => 1 <= x.to /\ x.to <= x.target)
                   => Follows(x, d, f, ev, cp)
<1>1. \A b \in 1 .. Len(c) : b \in 1 .. Len(d) /\ c[b] = d[b]
  BY DEF Agree
<1>2. ASSUME NEW n \in Int, n <= Len(c), Faithful(c, ev, n) PROVE Faithful(d, ev, n)
  BY <1>2, FaithfulAgree
<1>3. ASSUME Vouches(c, f, ev, cp) PROVE Vouches(d, f, ev, cp)
  <2>1. Rises(d, f)
    <3>1. ASSUME NEW a \in 1 .. Len(d), NEW b \in 1 .. Len(d), a <= b
          PROVE  d[a].fork <= d[b].fork /\ d[b].fork <= f
      <4>1. CASE b \in 1 .. Len(c)
        <5>1. a \in 1 .. Len(c)
          BY <3>1, <4>1
        <5> QED BY <1>1, <1>3, <3>1, <4>1, <5>1 DEF Vouches, Rises
      <4>2. CASE b = Len(c) + 1
        <5>1. CASE a = b
          BY <4>2, <5>1
        <5>2. CASE a \in 1 .. Len(c)
          BY <1>1, <1>3, <4>2, <5>2 DEF Vouches, Rises
        <5> QED BY <3>1, <4>2, <5>1, <5>2
      <4> QED BY <3>1, <4>1, <4>2
    <3> QED BY <3>1 DEF Rises
  <2>2. ASSUME NEW s \in ev \cup cp
        PROVE  Fresh(d, f, s) /\ (On(d, s) => Faithful(d, ev, s[1]))
    <3>1. s[1] \in Nat /\ s[1] >= 1 /\ s[2] \in Nat /\ Fresh(c, f, s)
      BY <1>3, EventParts DEF Vouches
    <3>2. Fresh(d, f, s)
      BY <3>1 DEF Fresh
    <3>3. ASSUME On(d, s) PROVE Faithful(d, ev, s[1])
      <4>1. s[1] <= Len(c)
        <5>1. CASE s[1] = Len(c) + 1
          BY <3>1, <3>3, <5>1 DEF On, Fresh
        <5> QED BY <3>1, <3>3, <5>1 DEF On
      <4>2. On(c, s)
        BY <1>1, <3>1, <3>3, <4>1 DEF On
      <4> QED BY <1>2, <1>3, <3>1, <4>1, <4>2 DEF Vouches
    <3> QED BY <3>2, <3>3
  <2> QED BY <1>3, <2>1, <2>2 DEF Vouches
<1>4. ASSUME NEW x, Follows(x, c, f, ev, cp), x \in ProcRecord, x.pc \in Chunking => x.next <= x.target,
             x.pc \in {"headers", "save"} => 1 <= x.to /\ x.to <= x.target
      PROVE  Follows(x, d, f, ev, cp)
  <2>1. x.from \in Int /\ x.next \in Int /\ x.to \in Int /\ x.target \in Int
    BY <1>4, Bounds DEF ProcRecord
  <2>2. x.pc \in ScanSteps => x.target <= Len(c)
    BY <1>4 DEF Follows
  <2>3. x.pc = "rewind" => Floor <= x.from /\ x.from - 1 <= Len(d) /\ Faithful(d, ev, x.from - 1)
    BY <1>2, <1>4, <2>1 DEF Follows
  <2>4. x.pc \in Chunking => Faithful(d, ev, x.next - 1)
    BY <1>2, <1>4, <2>1, <2>2 DEF Follows, Chunking, ScanSteps
  <2>5. ASSUME x.pc \in {"headers", "save"}, NEW e \in Events, e[1] <= x.to
        PROVE  Recorded(c, e) <=> Recorded(d, e)
    <3>1. e[1] \in 1 .. Len(c)
      BY <1>4, <2>1, <2>2, <2>5, EventParts DEF ScanSteps
    <3> QED BY <1>1, <3>1 DEF Recorded
  <2>6. x.pc \in {"headers", "save"} =>
          \A e \in Events : e \in x.logs <=> (x.next <= e[1] /\ e[1] <= x.to /\ Recorded(d, e))
    BY <1>4, <2>5 DEF Follows
  <2>7. x.pc = "save" => x.fork = d[x.to].fork
    <3>1. x.pc = "save" => x.to \in 1 .. Len(c)
      BY <1>4, <2>1, <2>2 DEF ScanSteps
    <3> QED BY <1>1, <1>4, <3>1 DEF Follows
  <2>8. x.pc = "open" /\ x.began = f => x.target <= Len(d) /\ Faithful(d, ev, x.target)
    BY <1>2, <1>4, <2>1 DEF Follows
  <2>9. x.pc \in ScanSteps => x.target <= Len(d)
    BY <2>1, <2>2
  <2> QED BY <1>4, <2>3, <2>4, <2>6, <2>7, <2>8, <2>9 DEF Follows
<1> QED BY <1>3, <1>4

\* A branch of a new fork replaces the blocks above n, while no scan runs.
LEMMA Forked ==
  ASSUME NEW c, NEW d, NEW f \in Nat, NEW ev \in SUBSET Events, NEW cp \in SUBSET Events,
         NEW n \in Nat, Len(c) \in Nat, Len(d) \in Nat, Agree(c, d, n),
         \A b \in n + 1 .. Len(d) : d[b].fork = f + 1,
         \A b \in 1 .. Len(c) : c[b].fork \in Nat
  PROVE  /\ Vouches(c, f, ev, cp) => Vouches(d, f + 1, ev, cp)
         /\ \A x : Follows(x, c, f, ev, cp) /\ x \in ProcRecord /\ x.pc \notin ScanSteps
                   => Follows(x, d, f + 1, ev, cp)
<1>1. \A b \in 1 .. n : b \in 1 .. Len(c) /\ b \in 1 .. Len(d) /\ c[b] = d[b]
  BY DEF Agree
<1>2. ASSUME Vouches(c, f, ev, cp) PROVE Vouches(d, f + 1, ev, cp)
  <2>1. Rises(d, f + 1)
    <3>1. ASSUME NEW a \in 1 .. Len(d), NEW b \in 1 .. Len(d), a <= b
          PROVE  d[a].fork <= d[b].fork /\ d[b].fork <= f + 1
      <4>1. CASE b <= n
        <5>1. a \in 1 .. n /\ b \in 1 .. n
          BY <3>1, <4>1
        <5>2. c[a].fork <= c[b].fork /\ c[b].fork <= f /\ c[b].fork \in Nat
          BY <1>1, <1>2, <3>1, <5>1 DEF Vouches, Rises
        <5> QED BY <1>1, <5>1, <5>2
      <4>2. CASE b > n
        <5>1. d[b].fork = f + 1
          BY <3>1, <4>2
        <5>2. CASE a > n
          BY <3>1, <5>1, <5>2
        <5>3. CASE a <= n
          <6>1. a \in 1 .. n
            BY <3>1, <5>3
          <6>2. c[a].fork <= f /\ c[a].fork \in Nat
            BY <1>1, <1>2, <6>1 DEF Vouches, Rises
          <6> QED BY <1>1, <5>1, <6>1, <6>2
        <5> QED BY <3>1, <5>2, <5>3
      <4> QED BY <3>1, <4>1, <4>2
    <3> QED BY <3>1 DEF Rises
  <2>2. ASSUME NEW s \in ev \cup cp
        PROVE  Fresh(d, f + 1, s) /\ (On(d, s) => Faithful(d, ev, s[1]))
    <3>1. s[1] \in Nat /\ s[1] >= 1 /\ s[2] \in Nat /\ Fresh(c, f, s)
      BY <1>2, EventParts DEF Vouches
    <3>2. Fresh(d, f + 1, s)
      BY <3>1 DEF Fresh
    <3>3. ASSUME On(d, s) PROVE Faithful(d, ev, s[1])
      <4>1. s[1] \in 1 .. n
        <5>1. ASSUME s[1] > n PROVE FALSE
          <6>1. d[s[1]].fork = f + 1
            BY <3>1, <3>3, <5>1 DEF On
          <6> QED BY <3>1, <3>3, <6>1 DEF On, Fresh
        <5> QED BY <3>1, <5>1
      <4>2. On(c, s)
        BY <1>1, <3>1, <3>3, <4>1 DEF On
      <4>3. Faithful(c, ev, s[1])
        BY <1>2, <4>2 DEF Vouches
      <4> QED BY <3>1, <4>1, <4>3, FaithfulAgree
    <3> QED BY <3>2, <3>3
  <2> QED BY <1>2, <2>1, <2>2 DEF Vouches
<1>3. ASSUME NEW x, Follows(x, c, f, ev, cp), x \in ProcRecord, x.pc \notin ScanSteps
      PROVE  Follows(x, d, f + 1, ev, cp)
  <2>1. x.began \in Nat /\ x.began <= f
    BY <1>3, Bounds DEF Follows, ProcRecord, Forks
  <2> QED BY <1>3, <2>1 DEF Follows, Chunking, ScanSteps
<1> QED BY <1>2, <1>3

\* The chain grows (Extend): what is stored stays sound.
LEMMA ExtendSound ==
  ASSUME TypeInv, SoundInv, NEW log \in BOOLEAN, Extend(log)
  PROVE  SoundInv'
<1>1. chain \in Seq(ChainBlock) /\ Len(chain) \in Nat /\ forks \in Nat /\ forks \in Forks
  BY Bounds DEF TypeInv, WorldTyped, Blocks, Forks
<1> DEFINE b == [fork |-> forks, log |-> log]
<1>2. chain' = Append(chain, b) /\ b \in ChainBlock /\ b.fork = forks
  BY <1>1 DEF Extend, ChainBlock
<1> HIDE DEF b
<1>3. /\ Len(chain') = Len(chain) + 1 /\ chain'[Len(chain) + 1] = b
      /\ \A n \in 1 .. Len(chain) : chain'[n] = chain[n]
  BY <1>1, <1>2
<1>4. Agree(chain, chain', Len(chain)) /\ chain'[Len(chain) + 1].fork = forks
  BY <1>1, <1>2, <1>3 DEF Agree
<1>5. \A n \in 1 .. Len(chain) : chain[n].fork \in Nat
  BY ChainAt, Bounds DEF Forks
<1>6. events \in SUBSET Events /\ checkpoints \in SUBSET Events
  BY DEF TypeInv, RowsTyped
<1>7. forks' = forks /\ events' = events /\ checkpoints' = checkpoints /\ cursor' = cursor /\ proc' = proc
  BY DEF Extend, db
<1>8. StampInv'
  BY <1>1, <1>3, <1>4, <1>5, <1>6, <1>7, Grown DEF SoundInv, StampInv
<1>9. FollowInv'
  <2>1. ASSUME NEW p \in Tails PROVE Follows(proc[p], chain', forks, events, checkpoints)
    <3>1. proc[p] \in ProcRecord /\ Ready(proc[p], p)
      BY ProcTyped DEF Procs
    <3>2. proc[p].next \in Int /\ proc[p].to \in Int
      BY <3>1, Bounds DEF ProcRecord
    <3>3. /\ proc[p].pc \in Chunking => proc[p].next <= proc[p].target
          /\ proc[p].pc \in {"headers", "save"} => 1 <= proc[p].to /\ proc[p].to <= proc[p].target
      BY <3>1, <3>2 DEF Ready, Chunking
    <3>4. Follows(proc[p], chain, forks, events, checkpoints)
      BY DEF SoundInv, FollowInv
    <3> QED BY <1>1, <1>3, <1>4, <1>5, <1>6, <3>1, <3>3, <3>4, Grown
  <2> QED BY <1>7, <2>1 DEF FollowInv
<1>10. CursorInv'
  <2>1. ASSUME NEW n \in Int, n <= Len(chain), Faithful(chain, events, n)
        PROVE  n <= Len(chain') /\ Faithful(chain', events, n)
    BY <1>1, <1>3, <1>4, <2>1, FaithfulAgree
  <2>2. cursor # None => cursor.next - 1 \in Int
    BY Bounds DEF TypeInv, RowsTyped, CursorRecord
  <2> QED BY <1>7, <2>1, <2>2 DEF SoundInv, CursorInv, Anchored
<1> QED BY <1>8, <1>9, <1>10 DEF SoundInv

\* A branch replaces blocks (Reorg), while no scan runs and the cursor stands
\* at its checkpoint.
LEMMA ReorgSound ==
  ASSUME TypeInv, SoundInv, Steady, NEW from \in Floor .. Len(chain),
         NEW length \in 1 .. MaxBlock - from + 1,
         NEW logs \in SUBSET (from .. from - 1 + length), Reorg(from, length, logs)
  PROVE  SoundInv'
<1>1. /\ Len(chain) \in Nat /\ Len(chain') \in Nat /\ from \in Nat /\ 1 <= from /\ forks \in Nat
      /\ Len(chain') = from - 1 + length /\ length \in Nat /\ forks' = forks + 1
      /\ from - 1 \in Nat
  <2>1. /\ Len(chain) \in Nat /\ from \in Nat /\ 1 <= from /\ forks \in Nat /\ length \in Nat
        /\ Len(chain') = from - 1 + length /\ forks' = forks + 1
    BY ReorgShape
  <2> QED BY <2>1
<1>2. Agree(chain, chain', from - 1)
  <2>1. \A b \in 1 .. from - 1 : b \in 1 .. Len(chain') /\ b < from
    BY <1>1
  <2>2. \A b \in 1 .. from - 1 : chain'[b] = chain[b]
    BY <2>1, ReorgShape
  <2>3. from - 1 <= Len(chain) /\ from - 1 <= Len(chain')
    BY <1>1
  <2> QED BY <2>2, <2>3 DEF Agree
<1>3. \A b \in (from - 1) + 1 .. Len(chain') : chain'[b].fork = forks + 1
  <2>1. ASSUME NEW b \in (from - 1) + 1 .. Len(chain') PROVE b \in 1 .. Len(chain') /\ ~(b < from)
    BY <1>1
  <2>2. ASSUME NEW b \in (from - 1) + 1 .. Len(chain') PROVE chain'[b].fork = forks + 1
    <3>1. chain'[b] = [fork |-> forks + 1, log |-> b \in logs]
      BY <2>1, ReorgShape
    <3> QED BY <3>1
  <2> QED BY <2>2
<1>4. \A n \in 1 .. Len(chain) : chain[n].fork \in Nat
  BY ChainAt, Bounds DEF Forks
<1>5. events \in SUBSET Events /\ checkpoints \in SUBSET Events
  BY DEF TypeInv, RowsTyped
<1>6. events' = events /\ checkpoints' = checkpoints /\ cursor' = cursor /\ proc' = proc
  BY DEF Reorg, db
<1>7. Anchored /\ \A p \in Procs : proc[p].pc \notin ScanSteps
  <2>1. from > top - Span /\ top \in Nat /\ Len(chain) <= top
    BY Bounds DEF Reorg, TypeInv, WorldTyped, Blocks
  <2>2. Span # 0
    BY <1>1, <2>1
  <2> QED BY <2>2 DEF Span, Steady
<1>8. StampInv'
  BY <1>1, <1>2, <1>3, <1>4, <1>5, <1>6, Forked DEF SoundInv, StampInv
<1>9. FollowInv'
  <2>1. ASSUME NEW p \in Tails PROVE Follows(proc[p], chain', forks + 1, events, checkpoints)
    <3>1. proc[p] \in ProcRecord /\ proc[p].pc \notin ScanSteps
      BY <1>7, ProcTyped DEF Procs
    <3>2. Follows(proc[p], chain, forks, events, checkpoints)
      BY DEF SoundInv, FollowInv
    <3> QED BY <1>1, <1>2, <1>3, <1>4, <1>5, <3>1, <3>2, Forked
  <2> QED BY <1>1, <1>6, <2>1 DEF FollowInv
<1>10. CursorInv'
  BY <1>6, <1>7 DEF SoundInv, CursorInv, Anchored
<1> QED BY <1>8, <1>9, <1>10 DEF SoundInv

\* A step that leaves the chain and the rows alone.
LEMMA QuietSound ==
  ASSUME TypeInv, SoundInv, NEW p \in Procs, NEW x, Become(p, x), UNCHANGED <<world, db>>,
         p \in Tails => Follows(x, chain, forks, events, checkpoints)
  PROVE  SoundInv'
<1>1. proc'[p] = x /\ \A q \in Procs : q # p => proc'[q] = proc[q]
  BY Became
<1>2. /\ chain' = chain /\ forks' = forks /\ events' = events /\ checkpoints' = checkpoints
      /\ cursor' = cursor
  BY DEF world, db
<1>3. ASSUME NEW q \in Tails PROVE Follows(proc'[q], chain, forks, events, checkpoints)
  BY <1>1 DEF SoundInv, FollowInv, Procs
<1>4. FollowInv'
  BY <1>2, <1>3 DEF FollowInv
<1> QED BY <1>2, <1>4 DEF SoundInv, StampInv, CursorInv, Anchored

\* A process outside a scan relies on nothing.
LEMMA Resting ==
  ASSUME NEW x, NEW c, NEW f, NEW ev, NEW cp, x.pc \notin ScanSteps \cup {"open"}, x.began <= f
  PROVE  Follows(x, c, f, ev, cp)
BY DEF Follows, ScanSteps, Chunking

\* A cycle is given up.
LEMMA AbandonSound ==
  ASSUME TypeInv, SoundInv, NEW p \in Procs, NEW c \in BOOLEAN, Abandon(p, c),
         UNCHANGED <<world, db>>
  PROVE  SoundInv'
<1>1. PICK x \in ProcRecord : Become(p, x) /\ x.began = 0 /\ x.pc \in {"off", "idle"}
  BY AbandonShape
<1>2. 0 <= forks
  BY Bounds DEF TypeInv, WorldTyped, Forks
<1>3. Follows(x, chain, forks, events, checkpoints)
  BY <1>1, <1>2, Resting DEF ScanSteps
<1> QED BY <1>1, <1>3, QuietSound

\* Everything below the point where a scan resumes is canonical: it is at the
\* floor, at the cursor of an unfinished scan, or just above a stamp that is
\* still on the chain.
LEMMA ResumeSound ==
  ASSUME TypeInv, StampInv, CursorInv
  PROVE  /\ Floor <= calculateResumeStart(None)
         /\ Faithful(chain, events, calculateResumeStart(None) - 1)
<1> DEFINE wanted == cursor.next
           resume == IF cursor.last = None \/ findCanonicalAnchor = cursor.last THEN wanted
                     ELSE IF findCanonicalAnchor = None THEN Floor
                     ELSE Lesser(wanted, findCanonicalAnchor + 1)
           from == calculateResumeStart(None)
<1>1. from \in Nat
  BY ResumeTyped
<1>2. Floor \in Nat /\ Overlap \in Nat
  BY Bounds
<1>3. Faithful(chain, events, Floor - 1)
  <2>1. \A e \in events : Floor <= e[1]
    BY DEF StampInv, Vouches
  <2>2. \A e \in Events : e[1] <= Floor - 1 => e \notin events /\ ~(Floor <= e[1])
    BY <1>2, <2>1, EventParts
  <2> QED BY <2>2 DEF Faithful
<1>4. CASE cursor = None
  <2>1. from = Floor
    BY <1>4 DEF calculateResumeStart
  <2> QED BY <1>2, <1>3, <2>1
<1>5. CASE cursor # None
  <2>1. wanted \in Nat /\ cursor.last \in Blocks \cup {None} /\ cursor \in CursorRecord
    BY <1>5, Bounds DEF TypeInv, RowsTyped, CursorRecord
  <2>2. from = Greater(Floor, Greater(resume - Overlap, 0))
    BY <1>5 DEF calculateResumeStart
  <2>3. resume \in Int /\ Faithful(chain, events, resume - 1)
    <3>1. CASE cursor.last = None
      <4>1. ~Anchored
        <5>1. cursor.next - 1 \in Nat
          BY <2>1, Bounds DEF CursorRecord
        <5>2. cursor.last # cursor.next - 1
          BY <3>1, <5>1, Nobody
        <5> QED BY <1>5, <5>2 DEF Anchored
      <4>2. resume = wanted
        BY <3>1
      <4> QED BY <1>5, <2>1, <4>1, <4>2 DEF CursorInv
    <3>2. CASE cursor.last # None /\ findCanonicalAnchor = cursor.last
      <4>1. resume = wanted
        BY <3>2
      <4>2. CASE ~Anchored
        BY <1>5, <2>1, <4>1, <4>2 DEF CursorInv
      <4>3. CASE Anchored
        <5>1. cursor.last = wanted - 1
          BY <1>5, <4>3 DEF Anchored
        <5>2. On(chain, <<cursor.last, cursor.fork>>)
          <6>1. HasSource
            BY <1>5, <3>2 DEF HasSource
          <6>2. CASE OnChain(<<cursor.last, cursor.fork>>)
            BY <6>2 DEF OnChain, On
          <6>3. CASE \E d \in Candidates : OnChain(d) /\ findCanonicalAnchor = d[1]
            <7>1. PICK d \in Candidates : OnChain(d) /\ cursor.last = d[1]
              BY <3>2, <6>3
            <7>2. d = <<cursor.last, cursor.fork>>
              BY <7>1 DEF Candidates
            <7> QED BY <7>1, <7>2 DEF OnChain, On
          <6> QED BY <3>2, <6>1, <6>2, <6>3, AnchorShape
        <5>3. <<cursor.last, cursor.fork>> \in checkpoints
          BY <1>5, <3>2 DEF CursorInv
        <5>4. Faithful(chain, events, cursor.last)
          <6> DEFINE s == <<cursor.last, cursor.fork>>
          <6>1. Faithful(chain, events, s[1])
            BY <5>2, <5>3 DEF StampInv, Vouches
          <6> QED BY <6>1
        <5> QED BY <2>1, <4>1, <5>1, <5>4
      <4> QED BY <4>2, <4>3
    <3>3. CASE cursor.last # None /\ findCanonicalAnchor # cursor.last /\ findCanonicalAnchor = None
      <4>1. resume = Floor
        BY <3>3
      <4> QED BY <1>2, <1>3, <4>1
    <3>4. CASE cursor.last # None /\ findCanonicalAnchor # cursor.last /\ findCanonicalAnchor # None
      <4> DEFINE a == findCanonicalAnchor
      <4>1. HasSource
        BY <1>5, <3>4 DEF HasSource
      <4>2. PICK d \in Candidates : OnChain(d) /\ a = d[1]
        BY <3>4, <4>1, AnchorShape
      <4>3. d \in Events /\ d \in checkpoints
        <5>1. d \in Events
          BY <4>1, AnchorShape
        <5>2. d \in checkpoints
          BY <3>4, <4>2 DEF Candidates
        <5> QED BY <5>1, <5>2
      <4>4. Faithful(chain, events, a) /\ a \in Int
        BY <4>2, <4>3, EventParts DEF StampInv, Vouches, OnChain, On
      <4>5. resume = Lesser(wanted, a + 1)
        BY <3>4
      <4> HIDE DEF a, resume
      <4>6. resume \in Int /\ resume - 1 <= a
        BY <2>1, <4>4, <4>5 DEF Lesser
      <4> QED BY <4>4, <4>6, FaithfulBelow
    <3> QED BY <3>1, <3>2, <3>3, <3>4
  <2> HIDE DEF resume
  <2>4. Floor <= from /\ (from = Floor \/ from <= resume)
    BY <1>1, <1>2, <2>2, <2>3 DEF Greater
  <2> QED BY <1>1, <1>2, <1>3, <2>3, <2>4, FaithfulBelow
<1> QED BY <1>4, <1>5

\* The scan is planned (Plan).
LEMMA PlanSound ==
  ASSUME TypeInv, SoundInv, Steady, NEW p \in Procs, Plan(p)
  PROVE  SoundInv'
<1> DEFINE from == calculateResumeStart(proc[p].explicit)
           x == [proc[p] EXCEPT !.pc = "rewind", !.from = from]
<1>1. /\ proc[p] \in ProcRecord /\ proc[p].pc = "plan" /\ p \in Tails
      /\ Follows(proc[p], chain, forks, events, checkpoints)
  <2>1. proc[p] \in ProcRecord /\ proc[p].pc = "plan" /\ p \in Tails \cup Backfills
    BY ProcTyped DEF Plan, At, Ready, ScanSteps
  <2> QED BY <2>1 DEF Steady, SoundInv, FollowInv
<1>2. CASE AnchorReadable /\ from - 1 <= Len(chain)
  <2>1. proc[p].explicit = None /\ proc[p].target <= Len(chain) /\ proc[p].began <= forks
    BY <1>1 DEF Follows, ScanSteps
  <2>2. Floor <= from /\ Faithful(chain, events, from - 1)
    BY <2>1, ResumeSound DEF SoundInv
  <2>3. Become(p, x) /\ UNCHANGED <<world, db>>
    BY <1>2 DEF Plan
  <2>4. from - 1 <= Len(chain)
    BY <1>2
  <2> HIDE DEF from
  <2>5. /\ x.pc = "rewind" /\ x.from = from /\ x.target = proc[p].target
        /\ x.explicit = proc[p].explicit /\ x.began = proc[p].began
    BY <1>1 DEF ProcRecord
  <2> HIDE DEF x
  <2>6. Follows(x, chain, forks, events, checkpoints)
    BY <2>1, <2>2, <2>4, <2>5 DEF Follows, ScanSteps, Chunking
  <2> QED BY <2>3, <2>6, QuietSound
<1>3. CASE ~(AnchorReadable /\ from - 1 <= Len(chain))
  BY <1>3, AbandonSound DEF Plan, Fail
<1> QED BY <1>2, <1>3

\* The logs of one chunk are read (FetchLogs).
LEMMA FetchLogsSound ==
  ASSUME TypeInv, SoundInv, Steady, NEW p \in Procs, FetchLogs(p)
  PROVE  SoundInv'
<1> DEFINE to == Lesser(proc[p].target, proc[p].next + proc[p].size - 1)
           x == [proc[p] EXCEPT !.pc = "headers", !.to = to, !.logs = Logs(proc[p].next, to)]
<1>1. /\ proc[p] \in ProcRecord /\ proc[p].pc = "logs" /\ p \in Tails
      /\ Follows(proc[p], chain, forks, events, checkpoints) /\ Ready(proc[p], p)
  <2>1. proc[p] \in ProcRecord /\ proc[p].pc = "logs" /\ p \in Tails \cup Backfills /\ Ready(proc[p], p)
    BY ProcTyped DEF FetchLogs, At, Ready, ScanSteps
  <2> QED BY <2>1 DEF Steady, SoundInv, FollowInv
<1>2. Become(p, x) /\ UNCHANGED <<world, db>>
  BY DEF FetchLogs
<1>3. proc[p].next \in Nat /\ proc[p].next >= 1 /\ to \in Int
  BY <1>1, Bounds DEF Ready, Chunking, ProcRecord, Lesser
<1> HIDE DEF to
<1>4. \A e \in Events : e \in Logs(proc[p].next, to) <=>
                          (proc[p].next <= e[1] /\ e[1] <= to /\ Recorded(chain, e))
  BY <1>3, LogsMean
<1>5. /\ x.pc = "headers" /\ x.to = to /\ x.logs = Logs(proc[p].next, to) /\ x.next = proc[p].next
      /\ x.target = proc[p].target /\ x.explicit = proc[p].explicit /\ x.began = proc[p].began
  BY <1>1 DEF ProcRecord
<1> HIDE DEF x
<1>6. Follows(x, chain, forks, events, checkpoints)
  BY <1>1, <1>4, <1>5 DEF Follows, ScanSteps, Chunking
<1> QED BY <1>2, <1>6, QuietSound

\* A chunk that fails is tried again from the same block.
LEMMA ChunkErrorSound ==
  ASSUME TypeInv, SoundInv, Steady, NEW p \in Procs, NEW c \in BOOLEAN, ChunkError(p, c),
         proc[p].pc \in {"logs", "headers"}, UNCHANGED <<world, db>>
  PROVE  SoundInv'
<1>1. p \in Tails /\ Follows(proc[p], chain, forks, events, checkpoints)
  <2>1. p \in Tails \cup Backfills
    BY ProcTyped DEF Ready, ScanSteps
  <2> QED BY <2>1 DEF Steady, SoundInv, FollowInv
<1>2. PICK x \in ProcRecord :
        /\ Become(p, x)
        /\ \/ /\ x.pc = "logs" /\ x.next = proc[p].next /\ x.target = proc[p].target
              /\ x.began = proc[p].began /\ x.explicit = proc[p].explicit
           \/ Abandon(p, c)
  BY ChunkErrorShape
<1>3. CASE /\ x.pc = "logs" /\ x.next = proc[p].next /\ x.target = proc[p].target
           /\ x.began = proc[p].began /\ x.explicit = proc[p].explicit
  <2>1. Follows(x, chain, forks, events, checkpoints)
    BY <1>1, <1>3 DEF Follows, ScanSteps, Chunking
  <2> QED BY <1>2, <2>1, QuietSound
<1>4. CASE Abandon(p, c)
  BY <1>4, AbandonSound
<1> QED BY <1>2, <1>3, <1>4

\* The headers of the chunk are read and compared (FetchHeaders).
LEMMA FetchHeadersSound ==
  ASSUME TypeInv, SoundInv, Steady, NEW p \in Procs, FetchHeaders(p)
  PROVE  SoundInv'
<1> DEFINE x == [proc[p] EXCEPT !.pc = "save", !.fork = chain[proc[p].to].fork]
<1>1. /\ proc[p] \in ProcRecord /\ proc[p].pc = "headers" /\ p \in Tails
      /\ Follows(proc[p], chain, forks, events, checkpoints)
  <2>1. proc[p] \in ProcRecord /\ proc[p].pc = "headers" /\ p \in Tails \cup Backfills
    BY ProcTyped DEF FetchHeaders, At, Ready, ScanSteps
  <2> QED BY <2>1 DEF Steady, SoundInv, FollowInv
<1>2. UNCHANGED <<world, db>>
  BY DEF FetchHeaders
<1>3. CASE Become(p, x)
  <2>1. /\ x.pc = "save" /\ x.fork = chain[proc[p].to].fork /\ x.to = proc[p].to
        /\ x.logs = proc[p].logs /\ x.next = proc[p].next /\ x.target = proc[p].target
        /\ x.explicit = proc[p].explicit /\ x.began = proc[p].began
    BY <1>1 DEF ProcRecord
  <2>2. Become(p, x)
    BY <1>3
  <2> HIDE DEF x
  <2>3. Follows(x, chain, forks, events, checkpoints)
    BY <1>1, <2>1 DEF Follows, ScanSteps, Chunking
  <2> QED BY <1>2, <2>2, <2>3, QuietSound
<1>4. CASE ChunkError(p, FALSE)
  BY <1>1, <1>2, <1>4, ChunkErrorSound
<1> QED BY <1>3, <1>4 DEF FetchHeaders

\* While a writer runs, the scans of all others are over.
LEMMA OnlyScan ==
  ASSUME TypeInv, LockInv, Steady, NEW p \in Tails, proc[p].pc # "off"
  PROVE  \A q \in Tails : q # p => proc[q].pc = "off"
BY OneWriter

\* A scan writes rows: it moves on to x, the other tails are off.
LEMMA WriterSound ==
  ASSUME TypeInv, LockInv, SoundInv, Steady, NEW p \in Tails, proc[p].pc # "off",
         NEW x, Become(p, x), UNCHANGED world, StampInv', CursorInv',
         Follows(x, chain, forks, events', checkpoints')
  PROVE  SoundInv'
<1>1. p \in Procs
  BY DEF Procs
<1>2. proc'[p] = x /\ \A q \in Procs : q # p => proc'[q] = proc[q]
  BY <1>1, Became
<1>3. ASSUME NEW q \in Tails PROVE Follows(proc'[q], chain, forks, events', checkpoints')
  <2>1. CASE q = p
    BY <1>2, <2>1
  <2>2. CASE q # p
    <3>1. proc'[q] = proc[q] /\ proc[q].pc = "off"
      BY <1>2, <2>2, OnlyScan DEF Procs
    <3>2. proc[q].began <= forks
      BY DEF SoundInv, FollowInv, Follows
    <3> QED BY <3>1, <3>2, Resting DEF ScanSteps
  <2> QED BY <2>1, <2>2
<1>4. FollowInv'
  BY <1>3 DEF FollowInv, world
<1> QED BY <1>4 DEF SoundInv

\* The newest checkpoint below a block, as a rewind keeps it.
LEMMA RewoundAnchor ==
  ASSUME TypeInv, NEW from \in Int
  PROVE  /\ RewoundCursor(from).next = from
         /\ LET a == RewoundCursor(from)
            IN a.last # None => <<a.last, a.fork>> \in checkpoints /\ a.last < from
<1> DEFINE kept == {c \in checkpoints : c[1] < from}
           newest == {c \in kept : \A d \in kept : d[1] <= c[1]}
           anchor == IF newest = {} THEN <<None, 0>> ELSE CHOOSE c \in newest : TRUE
           r == RewoundCursor(from)
<1>1. r.next = from /\ r.last = anchor[1] /\ r.fork = anchor[2]
  BY DEF RewoundCursor
<1>2. CASE newest = {}
  <2>1. anchor[1] = None
    BY <1>2
  <2> QED BY <1>1, <2>1
<1>3. CASE newest # {}
  <2>1. anchor \in newest
    <3> HIDE DEF newest
    <3> QED BY <1>3
  <2>2. anchor \in Events
    BY <2>1 DEF TypeInv, RowsTyped
  <2>3. anchor = <<r.last, r.fork>>
    BY <1>1, <2>2, EventParts
  <2>4. anchor \in checkpoints /\ anchor[1] < from
    BY <2>1
  <2> QED BY <1>1, <2>3, <2>4
<1> QED BY <1>2, <1>3

\* What a rewind knows, and what it leaves stored: the events below its
\* resume point, which are those of the chain.
LEMMA RewindShape ==
  ASSUME TypeInv, SoundInv, Steady, NEW p \in Procs, Rewind(p)
  PROVE  /\ proc[p] \in ProcRecord /\ proc[p].pc = "rewind" /\ p \in Tails
         /\ proc[p].from \in Int /\ proc[p].target \in Int /\ Floor <= proc[p].from
         /\ proc[p].from - 1 <= Len(chain) /\ proc[p].target <= Len(chain)
         /\ proc[p].explicit = None /\ proc[p].began <= forks
         /\ \A s \in events' \cup checkpoints' :
              s \in Events /\ s[1] < proc[p].from /\ s[1] <= proc[p].from - 1
         /\ \A b \in Int : b <= proc[p].from - 1 /\ Faithful(chain, events, b) => Faithful(chain, events', b)
         /\ \A e \in Events : e[1] <= proc[p].from - 1 => (e \in events <=> e \in events')
         /\ Faithful(chain, events', proc[p].from - 1)
<1> DEFINE from == proc[p].from
<1>1. /\ proc[p] \in ProcRecord /\ proc[p].pc = "rewind" /\ p \in Tails
      /\ Follows(proc[p], chain, forks, events, checkpoints) /\ Ready(proc[p], p)
  <2>1. /\ proc[p] \in ProcRecord /\ proc[p].pc = "rewind" /\ p \in Tails \cup Backfills
        /\ Ready(proc[p], p)
    BY ProcTyped DEF Rewind, At, Ready, ScanSteps
  <2> QED BY <2>1 DEF Steady, SoundInv, FollowInv
<1>2. /\ from \in Int /\ proc[p].target \in Int /\ Floor <= from /\ from - 1 <= Len(chain)
      /\ Faithful(chain, events, from - 1) /\ proc[p].target <= Len(chain)
      /\ proc[p].explicit = None /\ proc[p].began <= forks
  BY <1>1, Bounds DEF Follows, ScanSteps, ProcRecord
<1>3. /\ events' = {e \in events : ~(e[1] >= from)}
      /\ checkpoints' = {c \in checkpoints : ~(c[1] >= from)}
      /\ cursor' = RewoundCursor(from)
  BY DEF Rewind, After
<1>4. events \subseteq Events /\ checkpoints \subseteq Events
  BY DEF TypeInv, RowsTyped
<1> HIDE DEF from
<1>6. \A s \in events' \cup checkpoints' : s \in Events /\ s[1] < from /\ s[1] <= from - 1
  BY <1>2, <1>3, <1>4, EventParts
<1>7. \A e \in Events : e[1] <= from - 1 => (e \in events <=> e \in events')
  BY <1>2, <1>3, EventParts
<1>8. ASSUME NEW b \in Int, b <= from - 1, Faithful(chain, events, b)
      PROVE  Faithful(chain, events', b)
  <2>1. \A e \in Events : e[1] <= b => (e \in events <=> e \in events')
    BY <1>2, <1>7, <1>8, EventParts
  <2> QED BY <1>8, <2>1, FaithfulKept
<1>9. Faithful(chain, events', from - 1)
  BY <1>2, <1>8
<1> QED BY <1>1, <1>2, <1>6, <1>7, <1>8, <1>9 DEF from

\* The rows above the resume point are deleted (Rewind).
LEMMA RewindSound ==
  ASSUME TypeInv, LockInv, SoundInv, Steady, NEW p \in Procs, Rewind(p)
  PROVE  SoundInv'
<1> DEFINE from == proc[p].from
           done == from > proc[p].target
           y == [proc[p] EXCEPT !.pc = "logs", !.next = from]
           x == IF done THEN ScanDone(p) ELSE y
<1>1. /\ proc[p] \in ProcRecord /\ proc[p].pc = "rewind" /\ p \in Tails
  BY RewindShape
<1>2. /\ from \in Int /\ proc[p].target \in Int /\ Floor <= from /\ from - 1 <= Len(chain)
      /\ proc[p].target <= Len(chain) /\ proc[p].explicit = None /\ proc[p].began <= forks
  BY RewindShape
<1>3. /\ events' = {e \in events : ~(e[1] >= from)}
      /\ checkpoints' = {c \in checkpoints : ~(c[1] >= from)}
      /\ cursor' = RewoundCursor(from)
  BY DEF Rewind, After
<1>4. UNCHANGED world /\ chain' = chain /\ forks' = forks /\ Become(p, x)
  BY DEF Rewind, world
<1>5. events \subseteq Events /\ checkpoints \subseteq Events
  BY DEF TypeInv, RowsTyped
<1>6. \A s \in events' \cup checkpoints' : s \in Events /\ s[1] < from /\ s[1] <= from - 1
  BY RewindShape
<1>7. \A b \in Int : b <= from - 1 /\ Faithful(chain, events, b) => Faithful(chain, events', b)
  BY RewindShape
<1>9. Faithful(chain, events', from - 1)
  BY RewindShape
<1> HIDE DEF from
<1>8. StampInv'
  <2>1. ASSUME NEW s \in events' \cup checkpoints'
        PROVE  Fresh(chain, forks, s) /\ (On(chain, s) => Faithful(chain, events', s[1]))
    <3>1. s \in events \cup checkpoints
      BY <1>3
    <3>2. Fresh(chain, forks, s) /\ (On(chain, s) => Faithful(chain, events, s[1]))
      BY <3>1 DEF SoundInv, StampInv, Vouches
    <3>3. s[1] \in Int /\ s[1] <= from - 1
      BY <1>6, EventParts
    <3> QED BY <1>7, <3>2, <3>3
  <2>2. Rises(chain, forks) /\ \A e \in events' : Floor <= e[1]
    BY <1>3 DEF SoundInv, StampInv, Vouches
  <2> QED BY <1>4, <2>1, <2>2 DEF StampInv, Vouches
<1>10. CursorInv'
  <2>1. PICK r : r = RewoundCursor(from)
    OBVIOUS
  <2>2. cursor' = r /\ r.next = from
    BY <1>2, <1>3, <2>1, RewoundAnchor
  <2>3. r.last # None => <<r.last, r.fork>> \in checkpoints /\ r.last < from
    BY <1>2, <2>1, RewoundAnchor
  <2>4. r.last # None => <<r.last, r.fork>> \in checkpoints'
    <3>1. ASSUME r.last # None PROVE ~(r.last >= from)
      <4>1. <<r.last, r.fork>> \in Events
        BY <1>5, <2>3, <3>1
      <4>2. r.last \in Int
        BY <4>1 DEF Events, Blocks
      <4> QED BY <1>2, <2>3, <3>1, <4>2
    <3> QED BY <1>3, <2>3, <3>1
  <2> QED BY <1>2, <1>4, <1>9, <2>2, <2>3, <2>4 DEF CursorInv
<1>11. Follows(x, chain, forks, events', checkpoints')
  <2>1. CASE done
    <3>1. PICK z : z = ScanDone(p)
      OBVIOUS
    <3>2. z.pc = "open" /\ z.target = proc[p].target /\ z.began = proc[p].began
      BY <1>1, <3>1, ScanDoneTyped DEF ScanSteps, Procs
    <3>3. Faithful(chain, events', proc[p].target)
      BY <1>2, <1>9, <2>1, FaithfulBelow
    <3>4. Follows(z, chain, forks, events', checkpoints')
      BY <1>2, <3>2, <3>3 DEF Follows, ScanSteps, Chunking
    <3> QED BY <2>1, <3>1, <3>4
  <2>2. CASE ~done
    <3>1. /\ y.pc = "logs" /\ y.next = from /\ y.target = proc[p].target
          /\ y.explicit = proc[p].explicit /\ y.began = proc[p].began
      BY <1>1 DEF ProcRecord
    <3> HIDE DEF y
    <3>2. Follows(y, chain, forks, events', checkpoints')
      BY <1>2, <1>6, <1>9, <3>1 DEF Follows, ScanSteps, Chunking
    <3> QED BY <2>2, <3>2
  <2> QED BY <2>1, <2>2
<1> HIDE DEF x
<1> QED BY <1>1, <1>4, <1>8, <1>10, <1>11, WriterSound

\* What a saving scan knows, and what it leaves stored: the events it has, the
\* logs it has read, together those of the chain through its last block.
LEMMA SaveShape ==
  ASSUME TypeInv, SoundInv, Steady, NEW p \in Procs, SaveChunk(p)
  PROVE  LET from == proc[p].next
             to == proc[p].to
         IN /\ proc[p] \in ProcRecord /\ proc[p].pc = "save" /\ p \in Tails
            /\ from \in Int /\ to \in Int /\ proc[p].target \in Int /\ Floor <= from /\ from <= to
            /\ 1 <= from /\ to <= proc[p].target /\ proc[p].target <= Len(chain)
            /\ \A s \in events \cup checkpoints : s[1] < from
            /\ proc[p].explicit = None /\ proc[p].began <= forks /\ proc[p].fork = chain[to].fork
            /\ \A e \in Events : e \in proc[p].logs <=> (from <= e[1] /\ e[1] <= to /\ Recorded(chain, e))
            /\ events \subseteq Events /\ checkpoints \subseteq Events /\ proc[p].logs \subseteq Events
            /\ <<to, proc[p].fork>> \in Events
            /\ \A e \in Events : e \in events' <=> e \in events \/ e \in proc[p].logs
            /\ Faithful(chain, events', to)
<1> DEFINE from == proc[p].next
           to == proc[p].to
           mark == <<to, proc[p].fork>>
<1>1. /\ proc[p] \in ProcRecord /\ proc[p].pc = "save" /\ p \in Tails
      /\ Follows(proc[p], chain, forks, events, checkpoints) /\ Ready(proc[p], p)
  <2>1. /\ proc[p] \in ProcRecord /\ proc[p].pc = "save" /\ p \in Tails \cup Backfills
        /\ Ready(proc[p], p)
    BY ProcTyped DEF SaveChunk, At, Ready, ScanSteps
  <2> QED BY <2>1 DEF Steady, SoundInv, FollowInv
<1>2. /\ from \in Int /\ to \in Int /\ proc[p].target \in Int /\ Floor <= from /\ from <= to
      /\ 1 <= from /\ to <= proc[p].target /\ proc[p].target <= Len(chain)
      /\ Faithful(chain, events, from - 1) /\ \A s \in events \cup checkpoints : s[1] < from
      /\ proc[p].explicit = None /\ proc[p].began <= forks /\ proc[p].fork = chain[to].fork
  BY <1>1, Bounds DEF Follows, ScanSteps, ProcRecord, Ready, Chunking
<1>3. \A e \in Events : e \in proc[p].logs <=> (from <= e[1] /\ e[1] <= to /\ Recorded(chain, e))
  BY <1>1 DEF Follows
<1>4. /\ events \subseteq Events /\ checkpoints \subseteq Events /\ proc[p].logs \subseteq Events
      /\ mark \in Events
  <2>1. to \in 0 .. MaxBlock /\ proc[p].fork \in Forks /\ proc[p].logs \subseteq Events
    BY <1>1 DEF ProcRecord
  <2>2. to \in Blocks
    BY <1>2, <2>1, Bounds DEF Blocks
  <2>3. mark \in Events
    BY <2>1, <2>2 DEF Events
  <2> QED BY <2>1, <2>3 DEF TypeInv, RowsTyped
<1>5. events' = {e \in events : e[1] \notin from .. to} \cup proc[p].logs
  BY DEF SaveChunk
<1>6. Floor \in Nat
  BY Bounds
<1> HIDE DEF from, to, mark
<1>7. \A e \in Events : e \in events' <=> e \in events \/ e \in proc[p].logs
  BY <1>2, <1>5, EventParts
<1>8. Faithful(chain, events', to)
  <2>1. ASSUME NEW e \in Events, e[1] <= to
        PROVE  e \in events' <=> (Floor <= e[1] /\ Recorded(chain, e))
    <3>1. CASE e[1] <= from - 1
      <4>1. e \in events <=> (Floor <= e[1] /\ Recorded(chain, e))
        BY <1>2, <3>1 DEF Faithful
      <4>2. e \notin proc[p].logs
        BY <1>2, <1>3, <3>1, EventParts
      <4> QED BY <1>7, <4>1, <4>2
    <3>2. CASE ~(e[1] <= from - 1)
      <4>1. from <= e[1] /\ Floor <= e[1]
        BY <1>2, <1>6, <3>2, EventParts
      <4>2. e \notin events
        BY <1>2, <4>1, EventParts
      <4> QED BY <1>3, <1>7, <2>1, <4>1, <4>2
    <3> QED BY <3>1, <3>2
  <2> QED BY <2>1 DEF Faithful
<1> QED BY <1>1, <1>2, <1>3, <1>4, <1>7, <1>8 DEF from, to, mark

\* One chunk is stored (SaveChunk): its logs join, and its last block is the
\* new checkpoint.
LEMMA SaveSound ==
  ASSUME TypeInv, LockInv, SoundInv, Steady, NEW p \in Procs, SaveChunk(p)
  PROVE  SoundInv'
<1> DEFINE from == proc[p].next
           to == proc[p].to
           mark == <<to, proc[p].fork>>
           done == to >= proc[p].target
           y(size) == [proc[p] EXCEPT !.pc = "logs", !.next = to + 1, !.logs = {}, !.size = size]
<1>1. proc[p] \in ProcRecord /\ proc[p].pc = "save" /\ p \in Tails
  BY SaveShape
<1>2. /\ from \in Int /\ to \in Int /\ proc[p].target \in Int /\ Floor <= from /\ from <= to
      /\ 1 <= from /\ to <= proc[p].target /\ proc[p].target <= Len(chain)
      /\ \A s \in events \cup checkpoints : s[1] < from
      /\ proc[p].explicit = None /\ proc[p].began <= forks /\ proc[p].fork = chain[to].fork
  BY SaveShape
<1>3. \A e \in Events : e \in proc[p].logs <=> (from <= e[1] /\ e[1] <= to /\ Recorded(chain, e))
  BY SaveShape
<1>4. /\ events \subseteq Events /\ checkpoints \subseteq Events /\ proc[p].logs \subseteq Events
      /\ mark \in Events
  BY SaveShape
<1>5. events' = {e \in events : e[1] \notin from .. to} \cup proc[p].logs
      /\ checkpoints' = {c \in checkpoints : c[1] # to} \cup {mark}
  BY DEF SaveChunk
<1>6. cursor' = [next |-> to + 1, last |-> to, fork |-> proc[p].fork, covered |-> cursor'.covered]
  BY DEF SaveChunk, SavedCursor
<1>7. UNCHANGED world /\ chain' = chain /\ forks' = forks
  BY DEF SaveChunk, world
<1>8. Len(chain) \in Nat /\ forks \in Nat /\ Floor \in Nat
  BY Bounds DEF TypeInv, WorldTyped, Blocks, Forks
<1>9. mark[1] = to /\ mark[2] = chain[to].fork /\ to \in 1 .. Len(chain)
  BY <1>2, <1>8
<1>10. \A e \in Events : e \in events' <=> e \in events \/ e \in proc[p].logs
  BY SaveShape
<1>11. Faithful(chain, events', to)
  BY SaveShape
<1> HIDE DEF from, to, mark
<1>12. ASSUME NEW s \in events' \cup checkpoints'
       PROVE  /\ s \in Events /\ s[1] \in Int /\ s[1] <= to /\ Fresh(chain, forks, s)
              /\ s \in events' => Floor <= s[1]
  <2>1. CASE s \in events \cup checkpoints
    <3>1. s \in Events /\ Fresh(chain, forks, s) /\ s[1] < from
      BY <1>2, <1>4, <2>1 DEF SoundInv, StampInv, Vouches
    <3>2. s \in events' => Floor <= s[1]
      <4>1. CASE s \in events
        BY <4>1 DEF SoundInv, StampInv, Vouches
      <4>2. CASE s \in proc[p].logs
        BY <1>2, <1>3, <1>4, <1>8, <4>2, EventParts
      <4> QED BY <1>10, <3>1, <4>1, <4>2
    <3> QED BY <1>2, <3>1, <3>2, EventParts
  <2>2. CASE s \in proc[p].logs
    <3>1. s \in Events /\ from <= s[1] /\ s[1] <= to /\ Recorded(chain, s)
      BY <1>3, <1>4, <2>2
    <3>2. s[1] \in 1 .. Len(chain)
      BY <3>1, EventParts, <1>8 DEF Recorded
    <3>3. chain[s[1]].fork <= forks
      BY <3>2 DEF SoundInv, StampInv, Vouches, Rises
    <3> QED BY <1>2, <1>8, <3>1, <3>2, <3>3, EventParts DEF Fresh, Recorded
  <2>3. CASE s = mark
    <3>1. chain[to].fork <= forks
      BY <1>9 DEF SoundInv, StampInv, Vouches, Rises
    <3>2. Fresh(chain, forks, s) /\ s[1] = to
      BY <1>9, <2>3, <3>1 DEF Fresh
    <3>3. s \in events' => Floor <= s[1]
      BY <1>2, <1>8, <3>2
    <3> QED BY <1>2, <1>4, <2>3, <3>2, <3>3
  <2> QED BY <1>5, <2>1, <2>2, <2>3
<1>13. StampInv'
  <2>1. ASSUME NEW s \in events' \cup checkpoints'
        PROVE  Fresh(chain, forks, s) /\ Faithful(chain, events', s[1])
    BY <1>2, <1>11, <1>12, FaithfulBelow
  <2>2. Rises(chain, forks)
    BY DEF SoundInv, StampInv, Vouches
  <2>3. \A e \in events' : Floor <= e[1]
    BY <1>12
  <2> QED BY <1>7, <2>1, <2>2, <2>3 DEF StampInv, Vouches
<1>14. CursorInv'
  <2>1. PICK r : r = cursor'
    OBVIOUS
  <2>2. r.next = to + 1 /\ r.last = to /\ r.fork = proc[p].fork
    BY <1>6, <2>1
  <2>3. <<r.last, r.fork>> \in checkpoints'
    BY <1>5, <2>2 DEF mark
  <2>4. r.last = r.next - 1 /\ Floor <= r.next /\ r.last < r.next
    BY <1>2, <1>8, <2>2
  <2> QED BY <2>1, <2>3, <2>4 DEF CursorInv, Anchored
<1>15. \E x : Become(p, x) /\ Follows(x, chain, forks, events', checkpoints')
  <2>1. CASE done
    <3>1. Become(p, ScanDone(p)) /\ to = proc[p].target
      <4>1. Become(p, ScanDone(p))
        BY <2>1 DEF SaveChunk, to
      <4> QED BY <1>2, <2>1, <4>1
    <3>2. PICK z : z = ScanDone(p)
      OBVIOUS
    <3>3. z.pc = "open" /\ z.target = proc[p].target /\ z.began = proc[p].began
      BY <1>1, <3>2, ScanDoneTyped DEF ScanSteps, Procs
    <3>4. Follows(z, chain, forks, events', checkpoints')
      BY <1>2, <1>11, <3>1, <3>3 DEF Follows, ScanSteps, Chunking
    <3> QED BY <3>1, <3>2, <3>4
  <2>2. CASE ~done
    <3>1. PICK size : Become(p, y(size))
      BY <2>2 DEF SaveChunk, to
    <3>2. /\ y(size).pc = "logs" /\ y(size).next = to + 1 /\ y(size).target = proc[p].target
          /\ y(size).explicit = proc[p].explicit /\ y(size).began = proc[p].began
      BY <1>1 DEF ProcRecord
    <3> HIDE DEF y
    <3>3. \A s \in events' \cup checkpoints' : s[1] < to + 1
      BY <1>2, <1>12
    <3>4. Floor <= to + 1 /\ Faithful(chain, events', (to + 1) - 1)
      BY <1>2, <1>8, <1>11
    <3>5. Follows(y(size), chain, forks, events', checkpoints')
      BY <1>2, <3>2, <3>3, <3>4 DEF Follows, ScanSteps, Chunking
    <3> QED BY <3>1, <3>5
  <2> QED BY <2>1, <2>2
<1> QED BY <1>1, <1>7, <1>13, <1>14, <1>15, WriterSound

\* The steps that start a process or a cycle.
LEMMA StartSound ==
  ASSUME TypeInv, SoundInv, Steady, NEW p \in Procs,
         StartTail(p) \/ StartCycle(p) \/ Command(p)
  PROVE  SoundInv'
<1>1. forks \in Nat /\ 0 <= forks
  BY Bounds DEF TypeInv, WorldTyped, Forks
<1>2. CASE StartTail(p)
  <2> DEFINE x == [Off EXCEPT !.pc = "idle"]
  <2>1. Become(p, x) /\ UNCHANGED <<world, db>>
    BY <1>2 DEF StartTail
  <2>2. x.pc = "idle" /\ x.began = 0
    BY DEF Off
  <2> HIDE DEF x
  <2>3. Follows(x, chain, forks, events, checkpoints)
    BY <1>1, <2>2, Resting DEF ScanSteps
  <2> QED BY <2>1, <2>3, QuietSound
<1>3. CASE StartCycle(p)
  <2>1. CASE Len(chain) >= Depth
    <3> DEFINE x == [Off EXCEPT !.pc = "plan", !.target = SafeHead, !.began = forks,
                                !.failures = proc[p].failures]
    <3>1. Become(p, x) /\ UNCHANGED <<world, db>>
      BY <1>3, <2>1 DEF StartCycle
    <3>2. x.pc = "plan" /\ x.target = SafeHead /\ x.began = forks /\ x.explicit = None
      BY DEF Off
    <3> HIDE DEF x
    <3>3. Follows(x, chain, forks, events, checkpoints)
      BY <1>1, <2>1, <3>2, SafeHeadTyped DEF Follows, ScanSteps, Chunking
    <3> QED BY <3>1, <3>3, QuietSound
  <2>2. CASE ~(Len(chain) >= Depth)
    BY <1>3, <2>2, AbandonSound DEF StartCycle, Fail
  <2> QED BY <2>1, <2>2
<1>4. ASSUME NEW to \in Floor .. MaxBlock, NEW explicit \in Blocks \cup {None},
             StartBackfill(p, to, explicit)
      PROVE  FALSE
  BY <1>4 DEF StartBackfill, Steady
<1>5. ASSUME NEW rebuild \in BOOLEAN, StartReplay(p, rebuild) PROVE SoundInv'
  <2> DEFINE x == [Off EXCEPT !.pc = "source", !.rebuild = rebuild]
  <2>1. Become(p, x) /\ UNCHANGED <<world, db>>
    BY <1>5 DEF StartReplay
  <2>2. x.pc = "source" /\ x.began = 0
    BY DEF Off
  <2> HIDE DEF x
  <2>3. Follows(x, chain, forks, events, checkpoints)
    BY <1>1, <2>2, Resting DEF ScanSteps
  <2> QED BY <2>1, <2>3, QuietSound
<1> QED BY <1>2, <1>3, <1>4, <1>5 DEF Command

\* The steps of a replay: they write neither the chain nor the rows.
LEMMA ReplaySound ==
  ASSUME TypeInv, SoundInv, Steady, NEW p \in Procs,
         OpenReplay(p) \/ GetSource(p) \/ ValidateReplay(p) \/ FetchEvents(p) \/ SaveBatch(p)
         \/ CheckSource(p) \/ MarkComplete(p)
  PROVE  SoundInv'
<1>1. proc[p] \in ProcRecord /\ Ready(proc[p], p)
  BY ProcTyped
<1>2. UNCHANGED <<world, db>>
  BY DEF OpenReplay, GetSource, ValidateReplay, FetchEvents, SaveBatch, CheckSource,
         MarkComplete, Fail
<1>3. p \in Tails => proc[p].began <= forks
  BY DEF SoundInv, FollowInv, Follows
<1>4. forks \in Nat /\ 0 <= forks
  BY Bounds DEF TypeInv, WorldTyped, Forks
<1>5. ASSUME NEW x, Become(p, x), x.pc \notin ScanSteps \cup {"open"}, x.began = proc[p].began \/ x.began = 0
      PROVE  SoundInv'
  <2>1. p \in Tails => Follows(x, chain, forks, events, checkpoints)
    BY <1>3, <1>4, <1>5, Resting
  <2> QED BY <1>2, <1>5, <2>1, QuietSound
<1>6. CASE Abandon(p, FALSE)
  BY <1>2, <1>6, AbandonSound
<1>7. CASE OpenReplay(p) \/ CheckSource(p)
  <2>1. ASSUME NEW pc \in {"source", "mark"}, Goto(p, pc) PROVE SoundInv'
    <3>1. [proc[p] EXCEPT !.pc = pc].pc = pc /\ [proc[p] EXCEPT !.pc = pc].began = proc[p].began
      BY <1>1 DEF ProcRecord
    <3> QED BY <1>5, <2>1, <3>1 DEF Goto, ScanSteps
  <2> QED BY <1>6, <1>7, <2>1 DEF OpenReplay, CheckSource, Fail
<1>8. CASE GetSource(p)
  <2> DEFINE x == [proc[p] EXCEPT !.pc = "validate", !.source = SourceNow]
  <2>1. x.pc = "validate" /\ x.began = proc[p].began
    BY <1>1 DEF ProcRecord
  <2>2. Become(p, x) \/ Abandon(p, FALSE)
    BY <1>8 DEF GetSource, Fail
  <2> HIDE DEF x
  <2> QED BY <1>5, <1>6, <2>1, <2>2 DEF ScanSteps
<1>9. CASE ValidateReplay(p)
  <2> DEFINE y(last) == [proc[p] EXCEPT !.pc = "fetch", !.last = last]
             z == [proc[p] EXCEPT !.pc = "source", !.rebuild = TRUE]
  <2>1. /\ \A last : y(last).pc = "fetch" /\ y(last).began = proc[p].began
        /\ z.pc = "source" /\ z.began = proc[p].began
    BY <1>1 DEF ProcRecord
  <2>2. (\E last : Become(p, y(last))) \/ Become(p, z) \/ Abandon(p, FALSE)
    BY <1>9 DEF ValidateReplay
  <2> HIDE DEF y, z
  <2> QED BY <1>5, <1>6, <2>1, <2>2 DEF ScanSteps
<1>10. CASE FetchEvents(p)
  <2> DEFINE y(b, pc) == [proc[p] EXCEPT !.logs = b, !.pc = pc]
  <2>1. \A b, pc : y(b, pc).pc = pc /\ y(b, pc).began = proc[p].began
    BY <1>1 DEF ProcRecord
  <2>2. \E b : \E pc \in {"check", "apply"} : Become(p, y(b, pc))
    BY <1>10 DEF FetchEvents
  <2> HIDE DEF y
  <2> QED BY <1>5, <2>1, <2>2 DEF ScanSteps
<1>11. CASE SaveBatch(p)
  <2> DEFINE x == [proc[p] EXCEPT !.pc = "fetch", !.last = Newest(proc[p].logs), !.logs = {}]
  <2>1. x.pc = "fetch" /\ x.began = proc[p].began
    BY <1>1 DEF ProcRecord
  <2>2. Become(p, x)
    BY <1>11 DEF SaveBatch
  <2> HIDE DEF x
  <2> QED BY <1>5, <2>1, <2>2 DEF ScanSteps
<1>12. CASE MarkComplete(p)
  <2> DEFINE x == IF p \in Tails THEN [Off EXCEPT !.pc = "idle"] ELSE Off
  <2>1. x.pc \in {"idle", "off"} /\ x.began = 0
    BY DEF Off
  <2>2. Become(p, x)
    BY <1>12 DEF MarkComplete
  <2> HIDE DEF x
  <2> QED BY <1>5, <2>1, <2>2 DEF ScanSteps
<1> QED BY <1>7, <1>8, <1>9, <1>10, <1>11, <1>12

\* Nothing that matters here changes.
LEMMA SoundKept ==
  ASSUME SoundInv, UNCHANGED <<world, db, proc>>
  PROVE  SoundInv'
<1>1. /\ chain' = chain /\ forks' = forks /\ events' = events /\ checkpoints' = checkpoints
      /\ cursor' = cursor /\ proc' = proc
  BY DEF world, db
<1> QED BY <1>1 DEF SoundInv, StampInv, CursorInv, FollowInv, Anchored

\* Every step keeps what is stored sound.
LEMMA NextSound ==
  ASSUME TypeInv, LockInv, SoundInv, Steady, [Next]_vars
  PROVE  SoundInv'
<1>1. ASSUME NEW p \in Procs, Step(p) \/ Command(p) PROVE SoundInv'
  <2>1. CASE StartTail(p) \/ StartCycle(p) \/ Command(p)
    BY <2>1, StartSound
  <2>2. CASE Plan(p) \/ Rewind(p) \/ SaveChunk(p) \/ FetchLogs(p) \/ FetchHeaders(p)
    BY <2>2, PlanSound, RewindSound, SaveSound, FetchLogsSound, FetchHeadersSound
  <2>3. CASE OpenReplay(p) \/ GetSource(p) \/ ValidateReplay(p) \/ FetchEvents(p)
             \/ SaveBatch(p) \/ CheckSource(p) \/ MarkComplete(p)
    BY <2>3, ReplaySound
  <2> QED BY <1>1, <2>1, <2>2, <2>3 DEF Step
<1>2. ASSUME NEW p \in Procs, Crash(p) PROVE SoundInv'
  <2>1. Become(p, Off) /\ UNCHANGED <<world, db>>
    BY <1>2 DEF Crash
  <2>2. Off.pc = "off" /\ Off.began = 0 /\ 0 <= forks
    BY Bounds DEF Off, TypeInv, WorldTyped, Forks
  <2>3. Follows(Off, chain, forks, events, checkpoints)
    BY <2>2, Resting DEF ScanSteps
  <2> QED BY <2>1, <2>3, QuietSound
<1>3. ASSUME NEW p \in Procs, NEW c \in BOOLEAN, RpcFault(p, c) PROVE SoundInv'
  BY <1>3, AbandonSound, ChunkErrorSound DEF RpcFault
<1>4. ASSUME NEW p \in Procs, LoseLock(p) PROVE FALSE
  BY <1>4 DEF LoseLock, Steady
<1>5. CASE Environment
  <2>1. CASE \E log \in BOOLEAN : Extend(log)
    BY <2>1, ExtendSound
  <2>2. CASE \E from \in Floor .. Len(chain) : \E length \in 1 .. MaxBlock - from + 1 :
               \E logs \in SUBSET (from .. from - 1 + length) : Reorg(from, length, logs)
    BY <2>2, ReorgSound
  <2> QED BY <1>2, <1>3, <1>4, <1>5, <2>1, <2>2 DEF Environment
<1>6. CASE UNCHANGED vars
  BY <1>6, SoundKept DEF vars, world, db
<1> QED BY <1>1, <1>5, <1>6 DEF Next

\* It holds at the start.
LEMMA InitSound == Init => SoundInv
<1> SUFFICES ASSUME Init PROVE SoundInv
  OBVIOUS
<1> DEFINE n == Greater(Depth, Floor)
<1>1. n \in Nat /\ chain = [b \in 1 .. n |-> [fork |-> 0, log |-> FALSE]] /\ forks = 0
  BY Bounds DEF Init, Greater
<1> HIDE DEF n
<1>2. Rises(chain, forks)
  <2>1. Len(chain) = n /\ \A b \in 1 .. n : chain[b].fork = 0
    BY <1>1
  <2> QED BY <1>1, <2>1 DEF Rises
<1>3. StampInv /\ CursorInv
  BY <1>2 DEF Init, StampInv, Vouches, CursorInv
<1>4. \A p \in Tails : proc[p] = Off
  BY DEF Init, Procs
<1>5. Off.pc = "off" /\ Off.began = 0
  BY DEF Off
<1>6. Follows(Off, chain, forks, events, checkpoints)
  BY <1>1, <1>5, Resting DEF ScanSteps
<1> QED BY <1>3, <1>4, <1>6 DEF SoundInv, FollowInv

\* With no reorg during a scan, one writer and its lock kept, a finished scan
\* leaves exactly the canonical logs stored through its safe head, for every
\* chain, reorg depth, chunk size, overlap, checkpoint limit and confirmation
\* depth, whatever faults and crashes interrupt it.
THEOREM ScansAreSound ==
  ASSUME Steady
  PROVE  Spec => []StreamSound
<1> DEFINE Inv == TypeInv /\ LockInv /\ CoverInv /\ SoundInv
<1>1. Init => Inv
  BY InitTyped, InitCovered, InitSound
<1>2. Inv /\ [Next]_vars => Inv'
  BY NextTyped, NextCovered, NextSound DEF Steady
<1>3. Inv => StreamSound
  <2> SUFFICES ASSUME Inv PROVE StreamSound
    OBVIOUS
  <2>1. TypeOK /\ CoveredScanned
    BY TypesRead DEF CoverInv, CoveredScanned
  <2>2. ASSUME NEW p \in Tails, At(p, "open"), proc[p].began = forks
        PROVE  Upto(events, proc[p].target) = Logs(Floor, proc[p].target)
    <3>1. Follows(proc[p], chain, forks, events, checkpoints)
      BY DEF SoundInv, FollowInv
    <3>2. Faithful(chain, events, proc[p].target)
      BY <2>2, <3>1 DEF Follows, At
    <3>3. proc[p].target \in Int
      BY ProcTyped, Bounds DEF ProcRecord, Procs
    <3>4. events \in SUBSET Events
      BY DEF TypeInv, RowsTyped
    <3> QED BY <3>2, <3>3, <3>4, FaithfulMeans
  <2> QED BY <2>1, <2>2 DEF StreamSound, ScanCanonical
<1> QED BY <1>1, <1>2, <1>3, PTL DEF Spec

-----------------------------------------------------------------------------
(* What is derived, against what is stored.                                 *)

\* An event that the replay has still to apply, through the source block.
Due(ev, last, block, e) == e \in ev /\ e[1] <= block /\ (last = None \/ e[1] > last[1])

\* The derived state ap of a replay row r: it holds the stored events through
\* the last one applied as long as that one is stored, and the logs of the
\* chain through its last event or completion as long as that is canonical.
Replayed(r, ap, c, f, ev) ==
  /\ r.last = None => ap = {}
  /\ r.last # None =>
       /\ Fresh(c, f, r.last) /\ \A a \in ap : a[1] <= r.last[1]
       /\ On(c, r.last) => Faithful(c, ap, r.last[1])
       /\ r.last \in ev => \A e \in Events : e \in ap <=> (e \in ev /\ e[1] <= r.last[1])
  /\ r.complete # None =>
       Fresh(c, f, r.complete) /\ (On(c, r.complete) => Faithful(c, ap, r.complete[1]))

\* What a tail's replay knows of the replay row r and the cursor cu: every
\* block below the cursor that was on the chain when the cycle began and still
\* is vouches for what is stored.
Derives(x, r, cu, c, f, ev) ==
  /\ x.pc \in Deriving \/ (x.pc \in ScanSteps \cup ReplaySteps /\ r # None) =>
       (r.complete # None => r.complete[2] <= x.began)
  /\ x.pc \in ReplaySteps =>
       /\ cu \in CursorRecord /\ \A e \in ev : e[1] < cu.next
       /\ x.began = f => cu.next - 1 <= Len(c)
       /\ \A b \in 1 .. Len(c) : b < cu.next /\ c[b].fork <= x.began => Faithful(c, ev, b)
  /\ x.pc \in {"validate"} \cup Deriving =>
       cu # None /\ cu.last # None /\ x.source = [block |-> cu.last, fork |-> cu.fork]
  /\ x.pc \in Deriving => x.last = r.last /\ (x.last # None => x.last \in ev)
  /\ x.pc = "apply" =>
       /\ \A e \in x.logs : Due(ev, x.last, x.source.block, e)
       /\ \A e \in x.logs, d \in ev :
            Due(ev, x.last, x.source.block, d) /\ d[1] <= e[1] => d \in x.logs
  /\ x.pc \in {"check", "mark"} => \A e \in ev : ~Due(ev, x.last, x.source.block, e)

\* A replay row exists.
Started == replay # None \/ \E p \in Tails : proc[p].pc \in Deriving

ReplayedInv == Started => Replayed(replay, applied, chain, forks, events)
DeriveInv ==
  ReplayedInv /\ \A p \in Tails : Derives(proc[p], replay, cursor, chain, forks, events)

\* The events that exist are finitely many.
LEMMA EventsFinite == IsFiniteSet(Events)
<1>1. IsFiniteSet(Blocks) /\ IsFiniteSet(Forks)
  BY FS_Interval, Bounds DEF Blocks, Forks
<1> QED BY <1>1, FS_Product DEF Events

\* The oldest of some events.
LEMMA OldestExists ==
  ASSUME NEW S \in SUBSET Events, S # {}
  PROVE  \E e \in S : \A d \in S : e[1] <= d[1]
<1> DEFINE T == {MaxBlock + 1 - e[1] : e \in S}
<1>1. \A e \in S : MaxBlock + 1 - e[1] \in 1 .. MaxBlock
  BY EventParts, Bounds
<1>2. T \in SUBSET (1 .. MaxBlock) /\ T # {}
  BY <1>1
<1>3. PICK t \in T : \A u \in T : u <= t
  <2> HIDE DEF T
  <2> QED BY <1>2, GreatestExists, Bounds
<1>4. PICK m \in S : t = MaxBlock + 1 - m[1]
  BY <1>3
<1>5. ASSUME NEW d \in S PROVE m[1] <= d[1]
  <2>1. MaxBlock + 1 - d[1] <= MaxBlock + 1 - m[1]
    BY <1>3, <1>4
  <2>2. m[1] \in Int /\ d[1] \in Int /\ MaxBlock \in Int
    BY EventParts, Bounds
  <2> QED BY <2>1, <2>2
<1> QED BY <1>5

\* A batch holds due events, all those up to its newest, and is empty only if
\* none is due.
LEMMA BatchMeans ==
  ASSUME TypeInv, NEW last \in Events \cup {None}, NEW block \in Int
  PROVE  /\ \A e \in Batch(last, block) : Due(events, last, block, e)
         /\ \A e \in Batch(last, block), d \in events :
              Due(events, last, block, d) /\ d[1] <= e[1] => d \in Batch(last, block)
         /\ Batch(last, block) = {} => \A e \in events : ~Due(events, last, block, e)
<1> DEFINE due == {e \in Upto(events, block) : last = None \/ e[1] > last[1]}
           Before(e) == {d \in due : d[1] < e[1]}
<1>1. Batch(last, block) = {e \in due : Cardinality(Before(e)) < BatchSize}
  BY DEF Batch
<1>2. \A e : e \in due <=> Due(events, last, block, e)
  BY DEF Due, Upto
<1>3. due \subseteq Events /\ due \subseteq events
  BY DEF TypeInv, RowsTyped, Upto
<1>4. IsFiniteSet(due)
  BY <1>3, EventsFinite, FS_Subset
<1> HIDE DEF due
<1>5. \A e : IsFiniteSet(Before(e)) /\ Cardinality(Before(e)) \in Nat
  <2>1. \A e : Before(e) \subseteq due
    OBVIOUS
  <2> QED BY <1>4, <2>1, FS_Subset, FS_CardinalityType
<1>6. ASSUME NEW e \in Batch(last, block), NEW d \in due, d[1] <= e[1]
      PROVE  d \in Batch(last, block)
  <2>1. e \in due /\ Cardinality(Before(e)) < BatchSize
    BY <1>1
  <2>2. d[1] \in Int /\ e[1] \in Int /\ \A g \in due : g[1] \in Int
    BY <1>3, <2>1, EventParts
  <2>3. Before(d) \subseteq Before(e)
    BY <1>6, <2>2
  <2>4. Cardinality(Before(d)) <= Cardinality(Before(e))
    BY <1>5, <2>3, FS_Subset
  <2>5. Cardinality(Before(d)) < BatchSize
    <3>1. BatchSize \in Nat /\ Cardinality(Before(d)) \in Nat /\ Cardinality(Before(e)) \in Nat
      BY <1>5, Bounds
    <3> HIDE DEF Before
    <3> QED BY <2>1, <2>4, <3>1
  <2> QED BY <1>1, <2>5
<1>7. ASSUME Batch(last, block) = {}, NEW g \in due PROVE FALSE
  <2>1. PICK e \in due : \A d \in due : e[1] <= d[1]
    BY <1>3, <1>7, OldestExists
  <2>2. \A d \in due : d[1] \in Int
    BY <1>3, EventParts
  <2>3. Before(e) = {}
    BY <2>1, <2>2
  <2>4. Cardinality(Before(e)) = 0
    BY <2>3, FS_EmptySet
  <2> QED BY <1>1, <1>7, <2>4, Bounds
<1>8. Batch(last, block) \subseteq due
  BY <1>1
<1> QED BY <1>2, <1>6, <1>7, <1>8

\* A replay row is typed.
LEMMA StartedTyped ==
  ASSUME TypeInv, Started
  PROVE  replay \in ReplayRecord
BY DEF TypeInv, RowsTyped, Started, ReadyInv, Procs

\* The chain changes from c to d: what was derived stays right, where the new
\* chain has a block with an old stamp only if the old one had it.
LEMMA ReplayedMoved ==
  ASSUME NEW c, NEW d, NEW f, NEW g, NEW ev, NEW ap, NEW r \in ReplayRecord,
         Replayed(r, ap, c, f, ev),
         \A s \in Events : Fresh(c, f, s) => Fresh(d, g, s) /\ (On(d, s) => On(c, s)),
         \A s \in Events : Fresh(c, f, s) /\ On(d, s) /\ Faithful(c, ap, s[1]) => Faithful(d, ap, s[1])
  PROVE  Replayed(r, ap, d, g, ev)
<1>1. r.last # None => r.last \in Events
  BY DEF ReplayRecord
<1>2. r.complete # None => r.complete \in Events
  BY DEF ReplayRecord
<1> QED BY <1>1, <1>2 DEF Replayed

\* The shape of a grown chain.
LEMMA ExtendShape ==
  ASSUME TypeInv, NEW log \in BOOLEAN, Extend(log)
  PROVE  /\ Len(chain) \in Nat /\ Len(chain') = Len(chain) + 1 /\ forks \in Nat
         /\ Agree(chain, chain', Len(chain)) /\ chain'[Len(chain) + 1].fork = forks
         /\ UNCHANGED <<forks, events, checkpoints, cursor, replay, applied, proc>>
<1>1. chain \in Seq(ChainBlock) /\ Len(chain) \in Nat /\ forks \in Nat /\ forks \in Forks
  BY Bounds DEF TypeInv, WorldTyped, Blocks, Forks
<1> DEFINE b == [fork |-> forks, log |-> log]
<1>2. chain' = Append(chain, b) /\ b \in ChainBlock /\ b.fork = forks
  BY <1>1 DEF Extend, ChainBlock
<1> HIDE DEF b
<1>3. /\ Len(chain') = Len(chain) + 1 /\ chain'[Len(chain) + 1] = b
      /\ \A n \in 1 .. Len(chain) : chain'[n] = chain[n]
  BY <1>1, <1>2
<1>4. Agree(chain, chain', Len(chain))
  BY <1>1, <1>3 DEF Agree
<1> QED BY <1>1, <1>2, <1>3, <1>4 DEF Extend, db, derived

\* The shape of a chain with a new branch.
LEMMA BranchShape ==
  ASSUME TypeInv, NEW from \in Floor .. Len(chain), NEW length \in 1 .. MaxBlock - from + 1,
         NEW logs \in SUBSET (from .. from - 1 + length), Reorg(from, length, logs)
  PROVE  /\ Len(chain) \in Nat /\ Len(chain') \in Nat /\ forks \in Nat /\ forks' = forks + 1
         /\ from - 1 \in Nat /\ Agree(chain, chain', from - 1)
         /\ \A b \in (from - 1) + 1 .. Len(chain') : chain'[b].fork = forks + 1
         /\ UNCHANGED <<events, checkpoints, cursor, replay, applied, proc>>
<1>1. /\ Len(chain) \in Nat /\ from \in Nat /\ 1 <= from /\ forks \in Nat /\ length \in Nat
      /\ from <= Len(chain) /\ Len(chain') = from - 1 + length /\ forks' = forks + 1
  BY ReorgShape
<1>2. Len(chain') \in Nat /\ from - 1 \in Nat /\ from - 1 <= Len(chain) /\ from - 1 <= Len(chain')
  BY <1>1
<1>3. Agree(chain, chain', from - 1)
  <2>1. \A b \in 1 .. from - 1 : b \in 1 .. Len(chain') /\ b < from
    BY <1>1
  <2>2. \A b \in 1 .. from - 1 : chain'[b] = chain[b]
    BY <2>1, ReorgShape
  <2> QED BY <1>2, <2>2 DEF Agree
<1>4. ASSUME NEW b \in (from - 1) + 1 .. Len(chain') PROVE chain'[b].fork = forks + 1
  <2>1. b \in 1 .. Len(chain') /\ ~(b < from)
    BY <1>1
  <2>2. chain'[b] = [fork |-> forks + 1, log |-> b \in logs]
    BY <2>1, ReorgShape
  <2> QED BY <2>2
<1> QED BY <1>1, <1>2, <1>3, <1>4 DEF Reorg, db, derived

\* No branch is taken while a scan runs, or past an unfinished one.
LEMMA BranchAtRest ==
  ASSUME TypeInv, Steady, NEW from \in Floor .. Len(chain),
         NEW length \in 1 .. MaxBlock - from + 1,
         NEW logs \in SUBSET (from .. from - 1 + length), Reorg(from, length, logs)
  PROVE  Anchored /\ \A p \in Procs : proc[p].pc \notin ScanSteps
<1>1. from > top - Span /\ top \in Nat /\ Len(chain) <= top /\ Len(chain) \in Nat
  BY Bounds DEF Reorg, TypeInv, WorldTyped, Blocks
<1>2. Span # 0
  BY <1>1
<1> QED BY <1>2 DEF Span, Steady

\* A stamp is on the grown chain only if it was on the chain before.
LEMMA StampsGrown ==
  ASSUME NEW c, NEW d, NEW f \in Nat, Len(c) \in Nat, Len(d) = Len(c) + 1, Agree(c, d, Len(c)),
         d[Len(c) + 1].fork = f, NEW s \in Events, Fresh(c, f, s)
  PROVE  /\ Fresh(d, f, s) /\ (On(d, s) => On(c, s))
         /\ \A ev : On(c, s) /\ Faithful(c, ev, s[1]) => Faithful(d, ev, s[1])
<1>1. s[1] \in Nat /\ s[1] >= 1 /\ s[2] \in Nat
  BY EventParts
<1>2. Fresh(d, f, s)
  BY <1>1 DEF Fresh
<1>3. ASSUME On(d, s) PROVE On(c, s)
  <2>1. s[1] # Len(c) + 1
    BY <1>1, <1>3 DEF On, Fresh
  <2>2. s[1] \in 1 .. Len(c)
    BY <1>1, <1>3, <2>1 DEF On
  <2> QED BY <1>3, <2>2 DEF On, Agree
<1>4. ASSUME NEW ev, On(c, s), Faithful(c, ev, s[1]) PROVE Faithful(d, ev, s[1])
  BY <1>1, <1>4, FaithfulAgree DEF On
<1> QED BY <1>2, <1>3, <1>4

\* A stamp is on the new branch's chain only below it.
LEMMA StampsForked ==
  ASSUME NEW c, NEW d, NEW f \in Nat, NEW n \in Nat, Len(c) \in Nat, Len(d) \in Nat, Agree(c, d, n),
         \A b \in n + 1 .. Len(d) : d[b].fork = f + 1, NEW s \in Events, Fresh(c, f, s)
  PROVE  /\ Fresh(d, f + 1, s) /\ (On(d, s) => On(c, s))
         /\ \A ev : On(d, s) /\ Faithful(c, ev, s[1]) => Faithful(d, ev, s[1])
<1>1. s[1] \in Nat /\ s[1] >= 1 /\ s[2] \in Nat
  BY EventParts
<1>2. Fresh(d, f + 1, s)
  BY <1>1 DEF Fresh
<1>3. On(d, s) => s[1] \in 1 .. n
  <2>1. ASSUME On(d, s), s[1] > n PROVE FALSE
    <3>1. d[s[1]].fork = f + 1
      BY <1>1, <2>1 DEF On
    <3> QED BY <1>1, <2>1, <3>1 DEF On, Fresh
  <2> QED BY <1>1, <2>1
<1>4. On(d, s) => On(c, s)
  BY <1>3 DEF On, Agree
<1>5. ASSUME NEW ev, On(d, s), Faithful(c, ev, s[1]) PROVE Faithful(d, ev, s[1])
  BY <1>1, <1>3, <1>5, FaithfulAgree
<1> QED BY <1>2, <1>4, <1>5

\* The chain grows (Extend).
LEMMA ExtendDerived ==
  ASSUME TypeInv, SoundInv, DeriveInv, NEW log \in BOOLEAN, Extend(log)
  PROVE  DeriveInv'
<1>1. /\ Len(chain) \in Nat /\ Len(chain') = Len(chain) + 1 /\ forks \in Nat
      /\ Agree(chain, chain', Len(chain)) /\ chain'[Len(chain) + 1].fork = forks
      /\ UNCHANGED <<forks, events, checkpoints, cursor, replay, applied, proc>>
  BY ExtendShape
<1>2. ReplayedInv'
  <2>1. CASE Started
    <3>1. replay \in ReplayRecord
      BY <2>1, StartedTyped
    <3>2. Replayed(replay, applied, chain, forks, events)
      BY <2>1 DEF DeriveInv, ReplayedInv
    <3>3. \A s \in Events : Fresh(chain, forks, s) =>
            /\ Fresh(chain', forks, s) /\ (On(chain', s) => On(chain, s))
            /\ On(chain', s) /\ Faithful(chain, applied, s[1]) => Faithful(chain', applied, s[1])
      BY <1>1, StampsGrown
    <3>4. Replayed(replay, applied, chain', forks, events)
      BY <3>1, <3>2, <3>3, ReplayedMoved
    <3> QED BY <1>1, <3>4 DEF ReplayedInv
  <2> QED BY <1>1, <2>1 DEF ReplayedInv, Started
<1>3. ASSUME NEW p \in Tails PROVE Derives(proc[p], replay, cursor, chain', forks, events)
  <2> DEFINE x == proc[p]
  <2>1. Derives(x, replay, cursor, chain, forks, events)
    BY DEF DeriveInv
  <2>2. x.began \in Nat /\ x.began <= forks
    <3>1. x.began \in Forks
      BY ProcTyped DEF Procs, ProcRecord
    <3>2. x.began <= forks
      BY DEF SoundInv, FollowInv, Follows
    <3> QED BY <3>1, <3>2, Bounds DEF Forks
  <2>3. x.pc \in ReplaySteps => cursor.next \in Int
    <3>1. x.pc \in ReplaySteps => cursor \in CursorRecord
      BY <2>1 DEF Derives
    <3> QED BY <3>1, Bounds DEF CursorRecord
  <2> HIDE DEF x
  <2>4. ASSUME x.pc \in ReplaySteps, NEW b \in 1 .. Len(chain'), b < cursor.next,
               chain'[b].fork <= x.began
        PROVE  Faithful(chain', events, b)
    <3>1. x.began = forks => cursor.next - 1 <= Len(chain)
      BY <2>1, <2>4 DEF Derives
    <3>2. b # Len(chain) + 1
      <4>1. ASSUME b = Len(chain) + 1 PROVE FALSE
        <5>1. x.began = forks
          BY <1>1, <2>2, <2>4, <4>1
        <5> QED BY <1>1, <2>3, <2>4, <3>1, <4>1, <5>1
      <4> QED BY <4>1
    <3>3. b \in 1 .. Len(chain)
      BY <1>1, <3>2
    <3>4. chain[b].fork <= x.began
      BY <1>1, <2>4, <3>3 DEF Agree
    <3>5. Faithful(chain, events, b)
      BY <2>1, <2>4, <3>3, <3>4 DEF Derives
    <3> QED BY <1>1, <3>3, <3>5, FaithfulAgree
  <2>5. x.pc \in ReplaySteps => (x.began = forks => cursor.next - 1 <= Len(chain'))
    BY <1>1, <2>1, <2>3 DEF Derives
  <2>6. Derives(x, replay, cursor, chain', forks, events)
    BY <2>1, <2>4, <2>5 DEF Derives
  <2> QED BY <2>6 DEF x
<1> QED BY <1>1, <1>2, <1>3 DEF DeriveInv

\* A branch replaces blocks (Reorg).
LEMMA ReorgDerived ==
  ASSUME TypeInv, SoundInv, DeriveInv, Steady, NEW from \in Floor .. Len(chain),
         NEW length \in 1 .. MaxBlock - from + 1,
         NEW logs \in SUBSET (from .. from - 1 + length), Reorg(from, length, logs)
  PROVE  DeriveInv'
<1>1. /\ Len(chain) \in Nat /\ Len(chain') \in Nat /\ forks \in Nat /\ forks' = forks + 1
      /\ from - 1 \in Nat /\ Agree(chain, chain', from - 1)
      /\ \A b \in (from - 1) + 1 .. Len(chain') : chain'[b].fork = forks + 1
      /\ UNCHANGED <<events, checkpoints, cursor, replay, applied, proc>>
  BY BranchShape
<1>2. ReplayedInv'
  <2>1. CASE Started
    <3>1. replay \in ReplayRecord
      BY <2>1, StartedTyped
    <3>2. Replayed(replay, applied, chain, forks, events)
      BY <2>1 DEF DeriveInv, ReplayedInv
    <3>3. \A s \in Events : Fresh(chain, forks, s) =>
            /\ Fresh(chain', forks', s) /\ (On(chain', s) => On(chain, s))
            /\ On(chain', s) /\ Faithful(chain, applied, s[1]) => Faithful(chain', applied, s[1])
      BY <1>1, StampsForked
    <3>4. Replayed(replay, applied, chain', forks', events)
      BY <3>1, <3>2, <3>3, ReplayedMoved
    <3> QED BY <1>1, <3>4 DEF ReplayedInv
  <2> QED BY <1>1, <2>1 DEF ReplayedInv, Started
<1>3. ASSUME NEW p \in Tails PROVE Derives(proc[p], replay, cursor, chain', forks + 1, events)
  <2> DEFINE x == proc[p]
  <2>1. Derives(x, replay, cursor, chain, forks, events)
    BY DEF DeriveInv
  <2>2. x.began \in Nat /\ x.began <= forks
    <3>1. x.began \in Forks
      BY ProcTyped DEF Procs, ProcRecord
    <3>2. x.began <= forks
      BY DEF SoundInv, FollowInv, Follows
    <3> QED BY <3>1, <3>2, Bounds DEF Forks
  <2> HIDE DEF x
  <2>3. ASSUME x.pc \in ReplaySteps, NEW b \in 1 .. Len(chain'), b < cursor.next,
               chain'[b].fork <= x.began
        PROVE  Faithful(chain', events, b)
    <3>1. b \in 1 .. from - 1
      <4>1. ASSUME b > from - 1 PROVE FALSE
        <5>1. chain'[b].fork = forks + 1
          BY <1>1, <4>1
        <5> QED BY <1>1, <2>2, <2>3, <5>1
      <4> QED BY <1>1, <4>1
    <3>2. b \in 1 .. Len(chain) /\ chain[b].fork <= x.began
      BY <1>1, <2>3, <3>1 DEF Agree
    <3>3. Faithful(chain, events, b)
      BY <2>1, <2>3, <3>2 DEF Derives
    <3> QED BY <1>1, <3>1, <3>3, FaithfulAgree
  <2>4. x.began # forks + 1
    BY <1>1, <2>2
  <2>5. Derives(x, replay, cursor, chain', forks + 1, events)
    BY <2>1, <2>3, <2>4 DEF Derives
  <2> QED BY <2>5 DEF x
<1> QED BY <1>1, <1>2, <1>3 DEF DeriveInv

\* A step that writes no row: the process knows what it needs afterwards.
LEMMA QuietDerived ==
  ASSUME TypeInv, DeriveInv, NEW p \in Procs, NEW x, Become(p, x), UNCHANGED <<world, db, derived>>,
         p \in Tails => Derives(x, replay, cursor, chain, forks, events),
         x.pc \in Deriving => proc[p].pc \in Deriving
  PROVE  DeriveInv'
<1>1. proc'[p] = x /\ \A q \in Procs : q # p => proc'[q] = proc[q]
  BY Became
<1>2. /\ chain' = chain /\ forks' = forks /\ events' = events /\ checkpoints' = checkpoints
      /\ cursor' = cursor /\ replay' = replay /\ applied' = applied
  BY DEF world, db, derived
<1>3. ASSUME NEW q \in Tails PROVE Derives(proc'[q], replay, cursor, chain, forks, events)
  BY <1>1 DEF DeriveInv, Procs
<1>4. Started' => Started
  BY <1>1, <1>2 DEF Started, Procs
<1> QED BY <1>2, <1>3, <1>4 DEF DeriveInv, ReplayedInv

\* A process at rest relies on nothing.
LEMMA RestingDerived ==
  ASSUME NEW x, x.pc \in {"off", "idle"}, NEW r, NEW cu, NEW c, NEW f, NEW ev
  PROVE  Derives(x, r, cu, c, f, ev)
BY DEF Derives, ScanSteps, ReplaySteps, Deriving

\* A scan under way relies on the completion being no younger than its cycle.
LEMMA ScanDerived ==
  ASSUME NEW x, x.pc \in ScanSteps, NEW r, NEW cu, NEW c, NEW f, NEW ev,
         r # None => (r.complete # None => r.complete[2] <= x.began)
  PROVE  Derives(x, r, cu, c, f, ev)
BY DEF Derives, ScanSteps, ReplaySteps, Deriving

\* A cycle is given up.
LEMMA AbandonDerived ==
  ASSUME TypeInv, DeriveInv, NEW p \in Procs, NEW c \in BOOLEAN, Abandon(p, c),
         UNCHANGED <<world, db, derived>>
  PROVE  DeriveInv'
<1>1. PICK x \in ProcRecord : Become(p, x) /\ x.pc \in {"off", "idle"}
  BY AbandonShape
<1> QED BY <1>1, RestingDerived, QuietDerived DEF Deriving

\* A completion is never of a later fork than the current one.
LEMMA CompletedBefore ==
  ASSUME DeriveInv, replay # None, replay.complete # None
  PROVE  replay.complete[2] <= forks
BY DEF DeriveInv, ReplayedInv, Replayed, Fresh, Started

\* The steps that start a process or a cycle.
LEMMA StartDerived ==
  ASSUME TypeInv, DeriveInv, Steady, Replayers = {}, NEW p \in Procs,
         StartTail(p) \/ StartCycle(p) \/ Command(p)
  PROVE  DeriveInv'
<1>1. CASE StartTail(p)
  <2> DEFINE x == [Off EXCEPT !.pc = "idle"]
  <2>1. Become(p, x) /\ UNCHANGED <<world, db, derived>>
    BY <1>1 DEF StartTail
  <2>2. x.pc = "idle"
    BY DEF Off
  <2> HIDE DEF x
  <2> QED BY <2>1, <2>2, RestingDerived, QuietDerived DEF Deriving
<1>2. CASE StartCycle(p)
  <2>1. CASE Len(chain) >= Depth
    <3> DEFINE x == [Off EXCEPT !.pc = "plan", !.target = SafeHead, !.began = forks,
                                !.failures = proc[p].failures]
    <3>1. Become(p, x) /\ UNCHANGED <<world, db, derived>>
      BY <1>2, <2>1 DEF StartCycle
    <3>2. x.pc = "plan" /\ x.began = forks
      BY DEF Off
    <3> HIDE DEF x
    <3>3. Derives(x, replay, cursor, chain, forks, events)
      BY <3>2, CompletedBefore, ScanDerived DEF ScanSteps
    <3> QED BY <3>1, <3>2, <3>3, QuietDerived DEF Deriving
  <2>2. CASE ~(Len(chain) >= Depth)
    BY <1>2, <2>2, AbandonDerived DEF StartCycle, Fail
  <2> QED BY <2>1, <2>2
<1>3. ASSUME Command(p) PROVE FALSE
  BY <1>3 DEF Command, StartBackfill, StartReplay, Steady
<1> QED BY <1>1, <1>2, <1>3

\* A chunk that fails is tried again from the same block.
LEMMA ChunkErrorDerived ==
  ASSUME TypeInv, DeriveInv, Steady, NEW p \in Procs, NEW c \in BOOLEAN, ChunkError(p, c),
         proc[p].pc \in {"logs", "headers"}, UNCHANGED <<world, db, derived>>
  PROVE  DeriveInv'
<1>1. p \in Tails /\ Derives(proc[p], replay, cursor, chain, forks, events)
  <2>1. p \in Tails \cup Backfills
    BY ProcTyped DEF Ready, ScanSteps
  <2> QED BY <2>1 DEF Steady, DeriveInv
<1>2. PICK x \in ProcRecord :
        /\ Become(p, x)
        /\ \/ x.pc = "logs" /\ x.began = proc[p].began
           \/ Abandon(p, c)
  BY ChunkErrorShape
<1>3. CASE x.pc = "logs" /\ x.began = proc[p].began
  <2>1. replay # None => (replay.complete # None => replay.complete[2] <= x.began)
    BY <1>1, <1>3 DEF Derives, ScanSteps
  <2>2. x.pc \in ScanSteps
    BY <1>3 DEF ScanSteps
  <2>3. Derives(x, replay, cursor, chain, forks, events)
    BY <2>1, <2>2, ScanDerived
  <2> QED BY <1>2, <1>3, <2>3, QuietDerived DEF Deriving
<1>4. CASE Abandon(p, c)
  BY <1>4, AbandonDerived
<1> QED BY <1>2, <1>3, <1>4

\* The steps of a scan that write no row.
LEMMA ReadingDerived ==
  ASSUME TypeInv, DeriveInv, Steady, NEW p \in Procs,
         Plan(p) \/ FetchLogs(p) \/ FetchHeaders(p)
  PROVE  DeriveInv'
<1>1. /\ proc[p] \in ProcRecord /\ proc[p].pc \in {"plan", "logs", "headers"} /\ p \in Tails
      /\ Derives(proc[p], replay, cursor, chain, forks, events)
  <2>1. proc[p] \in ProcRecord /\ proc[p].pc \in {"plan", "logs", "headers"} /\ p \in Tails \cup Backfills
    BY ProcTyped DEF Plan, FetchLogs, FetchHeaders, At, Ready, ScanSteps
  <2> QED BY <2>1 DEF Steady, DeriveInv
<1>2. UNCHANGED <<world, db, derived>>
  BY DEF Plan, FetchLogs, FetchHeaders, Fail
<1>3. ASSUME NEW x, Become(p, x), x.pc \in ScanSteps, x.began = proc[p].began
      PROVE  DeriveInv'
  <2>1. replay # None => (replay.complete # None => replay.complete[2] <= x.began)
    BY <1>1, <1>3 DEF Derives, ScanSteps
  <2>2. x.pc \in ScanSteps
    BY <1>3 DEF ScanSteps
  <2>3. Derives(x, replay, cursor, chain, forks, events)
    BY <2>1, <2>2, ScanDerived
  <2> QED BY <1>2, <1>3, <2>3, QuietDerived DEF Deriving, ScanSteps
<1>4. CASE Plan(p)
  <2> DEFINE x(from) == [proc[p] EXCEPT !.pc = "rewind", !.from = from]
  <2>1. \A from : x(from).pc = "rewind" /\ x(from).began = proc[p].began
    BY <1>1 DEF ProcRecord
  <2>2. (\E from : Become(p, x(from))) \/ Abandon(p, FALSE)
    BY <1>4 DEF Plan, Fail
  <2> HIDE DEF x
  <2> QED BY <1>2, <1>3, <2>1, <2>2, AbandonDerived DEF ScanSteps
<1>5. CASE FetchLogs(p)
  <2> DEFINE x(to, logs) == [proc[p] EXCEPT !.pc = "headers", !.to = to, !.logs = logs]
  <2>1. \A to, logs : x(to, logs).pc = "headers" /\ x(to, logs).began = proc[p].began
    BY <1>1 DEF ProcRecord
  <2>2. \E to, logs : Become(p, x(to, logs))
    BY <1>5 DEF FetchLogs
  <2> HIDE DEF x
  <2> QED BY <1>3, <2>1, <2>2 DEF ScanSteps
<1>6. CASE FetchHeaders(p)
  <2> DEFINE x(fork) == [proc[p] EXCEPT !.pc = "save", !.fork = fork]
  <2>1. \A fork : x(fork).pc = "save" /\ x(fork).began = proc[p].began
    BY <1>1 DEF ProcRecord
  <2>2. (\E fork : Become(p, x(fork))) \/ (ChunkError(p, FALSE) /\ proc[p].pc = "headers")
    BY <1>6 DEF FetchHeaders, At
  <2> HIDE DEF x
  <2> QED BY <1>2, <1>3, <2>1, <2>2, ChunkErrorDerived DEF ScanSteps
<1> QED BY <1>4, <1>5, <1>6

\* A process writes rows: it moves on to x, the other tails are off.
LEMMA WriterDerived ==
  ASSUME TypeInv, LockInv, DeriveInv, Steady, NEW p \in Tails, proc[p].pc # "off",
         NEW x, Become(p, x), UNCHANGED world, ReplayedInv',
         Derives(x, replay', cursor', chain, forks, events')
  PROVE  DeriveInv'
<1>1. p \in Procs
  BY DEF Procs
<1>2. proc'[p] = x /\ \A q \in Procs : q # p => proc'[q] = proc[q]
  BY <1>1, Became
<1>3. ASSUME NEW q \in Tails PROVE Derives(proc'[q], replay', cursor', chain, forks, events')
  <2>1. CASE q = p
    BY <1>2, <2>1
  <2>2. CASE q # p
    <3>1. proc'[q] = proc[q] /\ proc[q].pc = "off"
      BY <1>2, <2>2, OnlyScan DEF Procs
    <3> QED BY <3>1, RestingDerived
  <2> QED BY <2>1, <2>2
<1> QED BY <1>3 DEF DeriveInv, world

\* A scan that ends has everything below the cursor canonical; what was derived
\* goes by what is stored now.
LEMMA ScanEnds ==
  ASSUME TypeInv, LockInv, SoundInv, DeriveInv, Steady, NEW p \in Tails,
         proc[p].pc \in ScanSteps, NEW x, Become(p, x), UNCHANGED <<world, derived>>,
         x.pc \in ScanSteps \cup {"open"}, x.began = proc[p].began,
         cursor' \in CursorRecord, cursor'.next \in Int, cursor'.next - 1 <= Len(chain),
         Faithful(chain, events', cursor'.next - 1), \A e \in events' : e[1] < cursor'.next,
         \A s \in Events : s \in events' /\ s \notin events => On(chain, s),
         \A s \in Events : s \in events' /\ s \in events =>
            \A e \in Events : e[1] <= s[1] => (e \in events <=> e \in events'),
         \A s \in Events : s \in events' /\ On(chain, s) => Faithful(chain, events', s[1])
  PROVE  DeriveInv'
<1>1. chain' = chain /\ forks' = forks /\ replay' = replay /\ applied' = applied
  BY DEF world, derived
<1>2. Derives(proc[p], replay, cursor, chain, forks, events)
  BY DEF DeriveInv
<1>3. applied \subseteq Events
  BY DEF TypeInv, RowsTyped
<1>4. ReplayedInv'
  <2>1. Started' => replay # None
    <3>1. \A q \in Tails : proc'[q].pc \notin Deriving
      <4>1. proc'[p] = x /\ \A q \in Procs : q # p => proc'[q] = proc[q]
        BY Became DEF Procs
      <4>2. \A q \in Tails : q # p => proc[q].pc = "off"
        BY OnlyScan DEF ScanSteps
      <4> QED BY <4>1, <4>2 DEF Procs, Deriving, ScanSteps
    <3> QED BY <1>1, <3>1 DEF Started
  <2>2. ASSUME replay # None, replay.last # None, replay.last \in events'
        PROVE  \A e \in Events : e \in applied <=> (e \in events' /\ e[1] <= replay.last[1])
    <3>1. replay.last \in Events /\ Replayed(replay, applied, chain, forks, events)
      BY <2>2 DEF TypeInv, RowsTyped, ReplayRecord, DeriveInv, ReplayedInv, Started
    <3>2. CASE replay.last \in events
      BY <2>2, <3>1, <3>2 DEF Replayed
    <3>3. CASE replay.last \notin events
      <4>1. On(chain, replay.last)
        BY <2>2, <3>1, <3>3
      <4>2. Faithful(chain, applied, replay.last[1]) /\ Faithful(chain, events', replay.last[1])
        BY <2>2, <3>1, <4>1 DEF Replayed
      <4>3. \A a \in applied : a[1] <= replay.last[1]
        BY <2>2, <3>1 DEF Replayed
      <4> QED BY <4>2, <4>3 DEF Faithful
    <3> QED BY <3>2, <3>3
  <2>3. replay # None => Replayed(replay, applied, chain, forks, events')
    BY <2>2 DEF DeriveInv, ReplayedInv, Replayed, Started
  <2> QED BY <1>1, <2>1, <2>3 DEF ReplayedInv
<1>5. Derives(x, replay, cursor', chain, forks, events')
  <2>1. replay # None => (replay.complete # None => replay.complete[2] <= proc[p].began)
    BY <1>2 DEF Derives
  <2>2. CASE x.pc \in ScanSteps
    BY <2>1, <2>2, ScanDerived
  <2>3. CASE x.pc = "open" /\ x.began = proc[p].began
    <3>1. ASSUME NEW b \in 1 .. Len(chain), b < cursor'.next PROVE Faithful(chain, events', b)
      BY <3>1, FaithfulBelow
    <3> QED BY <2>1, <2>3, <3>1 DEF Derives, ScanSteps, ReplaySteps, Deriving
  <2> QED BY <2>2, <2>3
<1>6. proc[p].pc # "off"
  BY DEF ScanSteps
<1> QED BY <1>1, <1>4, <1>5, <1>6, WriterDerived

\* The rows above the resume point are deleted (Rewind).
LEMMA RewindDerived ==
  ASSUME TypeInv, LockInv, SoundInv, DeriveInv, Steady, NEW p \in Procs, Rewind(p)
  PROVE  DeriveInv'
<1> DEFINE from == proc[p].from
           y == [proc[p] EXCEPT !.pc = "logs", !.next = from]
           x == IF from > proc[p].target THEN ScanDone(p) ELSE y
<1>1. /\ proc[p] \in ProcRecord /\ proc[p].pc \in ScanSteps /\ p \in Tails
  BY RewindShape DEF ScanSteps
<1>2. /\ from \in Int /\ from - 1 <= Len(chain) /\ Faithful(chain, events', from - 1)
      /\ \A s \in events' \cup checkpoints' : s \in Events /\ s[1] < from /\ s[1] <= from - 1
      /\ \A b \in Int : b <= from - 1 /\ Faithful(chain, events, b) => Faithful(chain, events', b)
      /\ \A e \in Events : e[1] <= from - 1 => (e \in events <=> e \in events')
  BY RewindShape
<1>3. Become(p, x) /\ UNCHANGED <<world, derived>> /\ cursor' = RewoundCursor(from)
  BY DEF Rewind
<1>4. x.pc \in ScanSteps \cup {"open"} /\ x.began = proc[p].began
  <2>1. ScanDone(p).pc = "open" /\ ScanDone(p).began = proc[p].began
    BY <1>1, ScanDoneTyped DEF Procs
  <2>2. y.pc = "logs" /\ y.began = proc[p].began
    BY <1>1 DEF ProcRecord
  <2> QED BY <2>1, <2>2 DEF ScanSteps
<1>5. \A s \in events' : s \in events /\ s[1] \in Int
  BY <1>2, EventParts
<1>6. cursor' \in CursorRecord /\ cursor'.next = from
  <2>1. from \in 1 .. MaxBlock + 1
    BY <1>1, RewindShape, ProcTyped, Bounds DEF ProcRecord, Ready
  <2>2. cursor' \in CursorRecord /\ cursor'.next = from
    BY <1>2, <1>3, <2>1, RewoundTyped, RewoundAnchor
  <2> QED BY <2>2
<1>7. ASSUME NEW s \in Events, s \in events', On(chain, s) PROVE Faithful(chain, events', s[1])
  <2>1. Faithful(chain, events, s[1])
    BY <1>5, <1>7 DEF SoundInv, StampInv, Vouches
  <2> QED BY <1>2, <1>5, <1>7, <2>1
<1>8. ASSUME NEW s \in Events, s \in events', NEW e \in Events, e[1] <= s[1]
      PROVE  e \in events <=> e \in events'
  <2>1. e[1] <= from - 1
    BY <1>2, <1>8, EventParts
  <2> QED BY <1>2, <2>1
<1> HIDE DEF x, from
<1> QED BY <1>1, <1>2, <1>3, <1>4, <1>5, <1>6, <1>7, <1>8, ScanEnds

\* One chunk is stored (SaveChunk).
LEMMA SaveDerived ==
  ASSUME TypeInv, LockInv, SoundInv, DeriveInv, Steady, NEW p \in Procs, SaveChunk(p)
  PROVE  DeriveInv'
<1> DEFINE from == proc[p].next
           to == proc[p].to
<1>1. /\ proc[p] \in ProcRecord /\ proc[p].pc \in ScanSteps /\ p \in Tails
  BY SaveShape DEF ScanSteps
<1>2. /\ from \in Int /\ to \in Int /\ from <= to /\ to <= proc[p].target
      /\ proc[p].target \in Int /\ proc[p].target <= Len(chain)
      /\ \A s \in events \cup checkpoints : s[1] < from
  BY SaveShape
<1>3. /\ \A e \in Events : e \in proc[p].logs <=> (from <= e[1] /\ e[1] <= to /\ Recorded(chain, e))
      /\ \A e \in Events : e \in events' <=> e \in events \/ e \in proc[p].logs
      /\ proc[p].logs \subseteq Events /\ events \subseteq Events /\ Faithful(chain, events', to)
  BY SaveShape
<1>4. UNCHANGED <<world, derived>> /\ cursor'.next = to + 1
  BY DEF SaveChunk, SavedCursor
<1>5. \E x : Become(p, x) /\ x.pc \in ScanSteps \cup {"open"} /\ x.began = proc[p].began
  <2> DEFINE y(size) == [proc[p] EXCEPT !.pc = "logs", !.next = to + 1, !.logs = {}, !.size = size]
  <2>1. Become(p, ScanDone(p)) \/ \E size : Become(p, y(size))
    BY DEF SaveChunk
  <2>2. ScanDone(p).pc = "open" /\ ScanDone(p).began = proc[p].began
    BY <1>1, ScanDoneTyped DEF Procs
  <2>3. \A size : y(size).pc = "logs" /\ y(size).began = proc[p].began
    BY <1>1 DEF ProcRecord
  <2> HIDE DEF y
  <2> QED BY <2>1, <2>2, <2>3 DEF ScanSteps
<1> HIDE DEF from, to
<1>6. events' \subseteq Events /\ cursor' \in CursorRecord
  <2>1. to \in Blocks
    BY <1>1, <1>2, SaveShape DEF Events, to
  <2>2. proc[p].fork \in Forks
    BY <1>1 DEF ProcRecord
  <2>3. cursor' = SavedCursor(to, proc[p].fork)
    BY DEF SaveChunk, to
  <2> QED BY <2>1, <2>2, <2>3, SavedTyped, SaveChunkTyped DEF TypeInv, RowsTyped
<1>7. Len(chain) \in Nat
  BY DEF TypeInv, WorldTyped, Blocks
<1>8. \A e \in events' : e[1] < to + 1 /\ e[1] <= to /\ e[1] \in Int
  BY <1>2, <1>3, <1>6, EventParts
<1>9. ASSUME NEW s \in Events, s \in events', s \notin events PROVE On(chain, s)
  BY <1>3, <1>9 DEF On, Recorded
<1>10. ASSUME NEW s \in Events, s \in events', s \in events, NEW e \in Events, e[1] <= s[1]
       PROVE  e \in events <=> e \in events'
  <2>1. e[1] \in Int /\ s[1] \in Int /\ s[1] < from
    BY <1>2, <1>10, EventParts
  <2>2. e \notin proc[p].logs
    BY <1>2, <1>3, <1>10, <2>1
  <2> QED BY <1>3, <2>2
<1>11. \A s \in Events : s \in events' => Faithful(chain, events', s[1])
  BY <1>2, <1>3, <1>8, FaithfulBelow
<1>12. /\ cursor'.next \in Int /\ cursor'.next - 1 <= Len(chain)
       /\ Faithful(chain, events', cursor'.next - 1) /\ \A e \in events' : e[1] < cursor'.next
  BY <1>2, <1>3, <1>4, <1>7, <1>8
<1> QED BY <1>1, <1>4, <1>5, <1>6, <1>9, <1>10, <1>11, <1>12, ScanEnds

\* "No event" is no event.
LEMMA NoneIsNoEvent == None \notin Events
<1>1. Events \subseteq Nat \X Nat
  BY Bounds DEF Events, Blocks, Forks
<1> QED BY <1>1, IndexerAssumption

\* A replay under way is a tail's.
LEMMA ReplayerIsTail ==
  ASSUME TypeInv, DeriveInv, Replayers = {}, NEW p \in Procs, proc[p].pc \in ReplaySteps
  PROVE  /\ p \in Tails /\ proc[p] \in ProcRecord /\ Ready(proc[p], p) /\ proc[p].pc # "off"
         /\ Derives(proc[p], replay, cursor, chain, forks, events)
<1>1. proc[p] \in ProcRecord /\ Ready(proc[p], p)
  BY ProcTyped
<1>2. p \in Tails
  BY <1>1 DEF Ready
<1> QED BY <1>1, <1>2 DEF DeriveInv, ReplaySteps

\* The steps of a replay that write no row.
LEMMA ReplayDerived ==
  ASSUME TypeInv, DeriveInv, Replayers = {}, NEW p \in Procs,
         OpenReplay(p) \/ GetSource(p) \/ FetchEvents(p) \/ CheckSource(p)
  PROVE  DeriveInv'
<1>1. proc[p].pc \in {"open", "source", "fetch", "check"}
  BY DEF OpenReplay, GetSource, FetchEvents, CheckSource, At
<1>2. /\ p \in Tails /\ proc[p] \in ProcRecord /\ Ready(proc[p], p)
      /\ Derives(proc[p], replay, cursor, chain, forks, events)
  BY <1>1, ReplayerIsTail DEF ReplaySteps
<1>3. UNCHANGED <<world, db, derived>>
  BY DEF OpenReplay, GetSource, FetchEvents, CheckSource, Fail
<1>4. ASSUME NEW x, Become(p, x), Derives(x, replay, cursor, chain, forks, events),
             x.pc \in Deriving => proc[p].pc \in Deriving
      PROVE  DeriveInv'
  BY <1>3, <1>4, QuietDerived
<1>5. CASE Abandon(p, FALSE)
  BY <1>3, <1>5, AbandonDerived
<1>6. CASE OpenReplay(p)
  <2> DEFINE x == [proc[p] EXCEPT !.pc = "source"]
  <2>1. /\ x.pc = "source" /\ x.began = proc[p].began /\ proc[p].pc = "open"
        /\ Become(p, x) \/ Abandon(p, FALSE)
    BY <1>2, <1>6 DEF ProcRecord, OpenReplay, Goto, Fail, At
  <2> HIDE DEF x
  <2>2. Derives(x, replay, cursor, chain, forks, events)
    BY <1>2, <2>1 DEF Derives, ReplaySteps, ScanSteps, Deriving
  <2> QED BY <1>4, <1>5, <2>1, <2>2 DEF Deriving
<1>7. CASE GetSource(p)
  <2> DEFINE x == [proc[p] EXCEPT !.pc = "validate", !.source = SourceNow]
  <2>1. /\ x.pc = "validate" /\ x.began = proc[p].began /\ proc[p].pc = "source"
        /\ x.source = [block |-> cursor.last, fork |-> cursor.fork]
        /\ (Become(p, x) /\ HasSource) \/ Abandon(p, FALSE)
    BY <1>2, <1>7 DEF ProcRecord, GetSource, Fail, At, SourceNow
  <2> HIDE DEF x
  <2>2. HasSource => Derives(x, replay, cursor, chain, forks, events)
    BY <1>2, <2>1 DEF Derives, ReplaySteps, ScanSteps, Deriving, HasSource
  <2> QED BY <1>4, <1>5, <2>1, <2>2 DEF Deriving
<1>8. CASE CheckSource(p)
  <2> DEFINE x == [proc[p] EXCEPT !.pc = "mark"]
  <2>1. /\ x.pc = "mark" /\ x.began = proc[p].began /\ proc[p].pc = "check"
        /\ x.source = proc[p].source /\ x.last = proc[p].last
        /\ Become(p, x) \/ Abandon(p, FALSE)
    BY <1>2, <1>8 DEF ProcRecord, CheckSource, Goto, Fail, At
  <2> HIDE DEF x
  <2>2. Derives(x, replay, cursor, chain, forks, events)
    BY <1>2, <2>1 DEF Derives, ReplaySteps, ScanSteps, Deriving
  <2> QED BY <1>4, <1>5, <2>1, <2>2 DEF Deriving
<1>9. CASE FetchEvents(p)
  <2> DEFINE last == proc[p].last
             block == proc[p].source.block
             batch == Batch(last, block)
             x == [proc[p] EXCEPT !.logs = batch, !.pc = IF batch = {} THEN "check" ELSE "apply"]
  <2>1. /\ x.pc = (IF batch = {} THEN "check" ELSE "apply") /\ x.began = proc[p].began
        /\ x.source = proc[p].source /\ x.last = last /\ x.logs = batch
        /\ proc[p].pc = "fetch" /\ Become(p, x)
    BY <1>2, <1>9 DEF ProcRecord, FetchEvents, At
  <2>2. last \in Events \cup {None} /\ block \in Int
    BY <1>2, <2>1, Bounds DEF ProcRecord, Ready, Deriving, SourceRecord, Blocks
  <2>3. x.source.block = block
    BY <2>1
  <2> HIDE DEF x, last, block
  <2>4. /\ \A e \in batch : Due(events, last, block, e)
        /\ \A e \in batch, d \in events : Due(events, last, block, d) /\ d[1] <= e[1] => d \in batch
        /\ batch = {} => \A e \in events : ~Due(events, last, block, e)
    BY <2>2, BatchMeans
  <2>5. last = proc[p].last
    BY DEF last
  <2> HIDE DEF batch
  <2>6. Derives(x, replay, cursor, chain, forks, events)
    <3>1. CASE batch = {}
      BY <1>2, <2>1, <2>3, <2>4, <2>5, <3>1 DEF Derives, ReplaySteps, ScanSteps, Deriving
    <3>2. CASE batch # {}
      BY <1>2, <2>1, <2>3, <2>4, <2>5, <3>2 DEF Derives, ReplaySteps, ScanSteps, Deriving
    <3> QED BY <3>1, <3>2
  <2> QED BY <1>4, <2>1, <2>6 DEF Deriving
<1> QED BY <1>6, <1>7, <1>8, <1>9

\* The replay row is read, or started afresh (ValidateReplay).
LEMMA ValidateDerived ==
  ASSUME TypeInv, LockInv, DeriveInv, Steady, Replayers = {}, NEW p \in Procs, ValidateReplay(p)
  PROVE  DeriveInv'
<1> DEFINE fresh == proc[p].rebuild \/ replay = None
           last == IF fresh THEN None ELSE replay.last
           y == [proc[p] EXCEPT !.pc = "fetch", !.last = last]
           z == [proc[p] EXCEPT !.pc = "source", !.rebuild = TRUE]
<1>1. /\ p \in Tails /\ proc[p] \in ProcRecord /\ proc[p].pc = "validate" /\ proc[p].pc # "off"
      /\ Derives(proc[p], replay, cursor, chain, forks, events)
  BY ReplayerIsTail DEF ValidateReplay, At, ReplaySteps
<1>2. UNCHANGED <<world, db>>
  BY DEF ValidateReplay
<1>3. chain' = chain /\ forks' = forks /\ events' = events /\ cursor' = cursor
  BY <1>2 DEF world, db
<1>4. /\ y.pc = "fetch" /\ y.began = proc[p].began /\ y.source = proc[p].source /\ y.last = last
      /\ z.pc = "source" /\ z.began = proc[p].began
  BY <1>1 DEF ProcRecord
<1>5. \/ SourceIntact(last) /\ Become(p, y)
      \/ Become(p, z)
  BY <1>1 DEF ValidateReplay
<1>6. CASE fresh
  <2>1. replay' = [last |-> None, complete |-> None] /\ applied' = {} /\ last = None
    BY <1>6 DEF ValidateReplay
  <2>2. replay'.last = None /\ replay'.complete = None
    BY <2>1
  <2> HIDE DEF y, z, last
  <2>3. ReplayedInv'
    BY <2>1, <2>2 DEF ReplayedInv, Replayed
  <2>4. Derives(y, replay', cursor', chain, forks, events')
    BY <1>1, <1>3, <1>4, <2>1, <2>2 DEF Derives, ReplaySteps, ScanSteps, Deriving
  <2>5. Derives(z, replay', cursor', chain, forks, events')
    BY <1>1, <1>3, <1>4, <2>1, <2>2 DEF Derives, ReplaySteps, ScanSteps, Deriving
  <2> QED BY <1>1, <1>2, <1>5, <2>3, <2>4, <2>5, WriterDerived
<1>7. CASE ~fresh
  <2>1. replay' = replay /\ applied' = applied /\ last = replay.last /\ replay # None
    BY <1>7 DEF ValidateReplay
  <2> HIDE DEF y, z, last
  <2>2. ReplayedInv'
    BY <1>3, <2>1 DEF ReplayedInv, DeriveInv, Started
  <2>3. SourceIntact(last) => Derives(y, replay', cursor', chain, forks, events')
    BY <1>1, <1>3, <1>4, <2>1 DEF Derives, ReplaySteps, ScanSteps, Deriving, SourceIntact
  <2>4. Derives(z, replay', cursor', chain, forks, events')
    BY <1>1, <1>3, <1>4, <2>1 DEF Derives, ReplaySteps, ScanSteps, Deriving
  <2> QED BY <1>1, <1>2, <1>5, <2>2, <2>3, <2>4, WriterDerived
<1> QED BY <1>6, <1>7

\* Below the completion of a replay under way, what is stored is canonical.
LEMMA EventsRecorded ==
  ASSUME TypeInv, SoundInv, DeriveInv, NEW p \in Tails, proc[p].pc \in Deriving,
         NEW b \in 1 .. Len(chain), chain[b].fork <= proc[p].began,
         NEW e \in events, e[1] <= b
  PROVE  Floor <= e[1] /\ Recorded(chain, e)
<1> DEFINE x == proc[p]
           m == IF b < cursor.next THEN b ELSE cursor.next - 1
<1>1. Derives(x, replay, cursor, chain, forks, events)
  BY DEF DeriveInv
<1>2. /\ cursor \in CursorRecord /\ e[1] < cursor.next
      /\ \A n \in 1 .. Len(chain) : n < cursor.next /\ chain[n].fork <= x.began => Faithful(chain, events, n)
  BY <1>1 DEF Derives, Deriving, ReplaySteps
<1>3. cursor.next \in Int /\ e \in Events /\ e[1] \in Nat /\ e[1] >= 1 /\ Len(chain) \in Nat
      /\ x.began \in Nat
  <2>1. cursor.next \in Int
    BY <1>2, Bounds DEF CursorRecord
  <2>2. e \in Events /\ Len(chain) \in Nat
    BY DEF TypeInv, RowsTyped, WorldTyped, Blocks
  <2>3. x.began \in Nat
    BY ProcTyped DEF Procs, ProcRecord, Forks
  <2> QED BY <2>1, <2>2, <2>3, EventParts
<1>4. m \in 1 .. Len(chain) /\ m <= b /\ m < cursor.next /\ e[1] <= m
  BY <1>2, <1>3
<1> HIDE DEF m
<1>5. chain[m].fork <= chain[b].fork /\ chain[m].fork \in Nat /\ chain[b].fork \in Nat
  <2>1. Rises(chain, forks)
    BY DEF SoundInv, StampInv, Vouches
  <2>2. chain[m].fork \in Forks /\ chain[b].fork \in Forks
    BY <1>4, ChainAt
  <2> QED BY <1>4, <2>1, <2>2, Bounds DEF Rises, Forks
<1>6. chain[m].fork <= x.began
  BY <1>3, <1>5
<1>7. Faithful(chain, events, m)
  BY <1>2, <1>4, <1>6
<1> QED BY <1>3, <1>4, <1>7 DEF Faithful

\* A batch is applied (SaveBatch).
LEMMA SaveBatchDerived ==
  ASSUME TypeInv, LockInv, SoundInv, DeriveInv, Steady, Replayers = {}, NEW p \in Procs, SaveBatch(p)
  PROVE  DeriveInv'
<1> DEFINE y == proc[p]
           n == Newest(y.logs)
           x == [y EXCEPT !.pc = "fetch", !.last = n, !.logs = {}]
<1>1. /\ p \in Tails /\ y \in ProcRecord /\ Ready(y, p) /\ y.pc = "apply" /\ y.pc # "off"
      /\ Derives(y, replay, cursor, chain, forks, events)
  BY ReplayerIsTail DEF SaveBatch, At, ReplaySteps
<1>2. /\ UNCHANGED <<world, db>> /\ Become(p, x) /\ applied' = applied \cup y.logs
      /\ replay' = [replay EXCEPT !.last = n]
  BY DEF SaveBatch
<1>3. chain' = chain /\ forks' = forks /\ events' = events /\ cursor' = cursor
  BY <1>2 DEF world, db
<1>4. x.pc = "fetch" /\ x.began = y.began /\ x.source = y.source /\ x.last = n
  BY <1>1 DEF ProcRecord
<1>5. replay \in ReplayRecord /\ Replayed(replay, applied, chain, forks, events)
  <2>1. Started
    BY <1>1 DEF Started, Deriving
  <2> QED BY <2>1, StartedTyped DEF DeriveInv, ReplayedInv
<1>6. n \in y.logs /\ (\A d \in y.logs : d[1] <= n[1]) /\ y.logs \subseteq Events
  BY <1>1, NewestTyped DEF ProcRecord, Ready
<1> HIDE DEF x, n
<1>7. replay'.last = n /\ replay'.complete = replay.complete
  BY <1>2, <1>5 DEF ReplayRecord
<1>8. /\ y.last = replay.last /\ (y.last # None => y.last \in events)
      /\ \A e \in y.logs : Due(events, y.last, y.source.block, e)
      /\ \A e \in y.logs, d \in events :
           Due(events, y.last, y.source.block, d) /\ d[1] <= e[1] => d \in y.logs
      /\ replay.complete # None => replay.complete[2] <= y.began
      /\ y.source.block \in Int
  BY <1>1, Bounds DEF Derives, Ready, SourceRecord, Blocks, Deriving
<1>9. n \in events /\ n \in Events /\ n # None
  BY <1>6, <1>8, NoneIsNoEvent DEF Due
<1>10. \A e \in Events : e[1] \in Int
  BY EventParts
<1>11. applied \subseteq Events /\ events \subseteq Events
  BY DEF TypeInv, RowsTyped
<1>12. replay.last # None =>
         replay.last \in Events /\ \A e \in Events : e \in applied <=> (e \in events /\ e[1] <= replay.last[1])
  BY <1>5, <1>8 DEF Replayed, ReplayRecord
<1>13. replay.last = None => applied = {}
  BY <1>5 DEF Replayed
<1>14. ASSUME NEW e \in Events
       PROVE  e \in applied' <=> (e \in events /\ e[1] <= n[1])
  <2>1. ASSUME e \in y.logs PROVE e \in events /\ e[1] <= n[1]
    BY <1>6, <1>8, <2>1 DEF Due
  <2>2. ASSUME e \in applied PROVE e \in events /\ e[1] <= n[1]
    <3>1. replay.last # None /\ e \in events /\ e[1] <= replay.last[1]
      BY <1>12, <1>13, <2>2
    <3>2. n[1] > replay.last[1]
      BY <1>6, <1>8, <3>1 DEF Due
    <3> QED BY <1>9, <1>10, <1>12, <3>1, <3>2
  <2>3. ASSUME e \in events, e[1] <= n[1] PROVE e \in applied'
    <3>1. n[1] <= y.source.block
      BY <1>6, <1>8 DEF Due
    <3>2. CASE replay.last # None /\ e[1] <= replay.last[1]
      BY <1>2, <1>12, <2>3, <3>2
    <3>3. CASE replay.last = None \/ ~(e[1] <= replay.last[1])
      <4>1. Due(events, y.last, y.source.block, e)
        BY <1>8, <1>9, <1>10, <1>12, <2>3, <3>1, <3>3 DEF Due
      <4> QED BY <1>2, <1>6, <1>8, <2>3, <4>1
    <3> QED BY <3>2, <3>3
  <2> QED BY <1>2, <2>1, <2>2, <2>3
<1>15. applied' \subseteq Events
  BY <1>2, <1>6, <1>11
<1>16. Fresh(chain, forks, n) /\ (On(chain, n) => Faithful(chain, events, n[1]))
  BY <1>9 DEF SoundInv, StampInv, Vouches
<1>17. On(chain, n) => Faithful(chain, applied', n[1])
  BY <1>14, <1>16 DEF Faithful
<1>18. ASSUME replay.complete # None, On(chain, replay.complete)
       PROVE  Faithful(chain, applied', replay.complete[1])
  <2> DEFINE b == replay.complete[1]
  <2>1. replay.complete \in Events /\ Faithful(chain, applied, b)
    BY <1>5, <1>18 DEF Replayed, ReplayRecord
  <2>2. Len(chain) \in Nat
    BY DEF TypeInv, WorldTyped, Blocks
  <2>3. b \in 1 .. Len(chain) /\ chain[b].fork <= y.began
    BY <1>8, <1>18, <2>1, <2>2, EventParts DEF On
  <2> HIDE DEF b
  <2>4. ASSUME NEW e \in y.logs, e[1] <= b PROVE Floor <= e[1] /\ Recorded(chain, e)
    <3>1. e \in events
      BY <1>8 DEF Due
    <3> QED BY <1>1, <2>3, <2>4, <3>1, EventsRecorded DEF Deriving
  <2>5. Faithful(chain, applied', b)
    BY <1>2, <2>1, <2>4 DEF Faithful
  <2> QED BY <2>5 DEF b
<1>19. Replayed(replay', applied', chain, forks, events)
  <2>1. \A a \in applied' : a[1] <= n[1]
    BY <1>14, <1>15
  <2>2. replay.complete # None => Fresh(chain, forks, replay.complete)
    BY <1>5 DEF Replayed
  <2> QED BY <1>7, <1>9, <1>14, <1>16, <1>17, <1>18, <2>1, <2>2 DEF Replayed
<1>20. ReplayedInv'
  BY <1>3, <1>19 DEF ReplayedInv
<1>21. Derives(x, replay', cursor', chain, forks, events')
  BY <1>1, <1>3, <1>4, <1>7, <1>8, <1>9 DEF Derives, ReplaySteps, ScanSteps, Deriving
<1> QED BY <1>1, <1>2, <1>20, <1>21, WriterDerived

\* The derived state is marked complete at the source (MarkComplete).
LEMMA MarkCompleteDerived ==
  ASSUME TypeInv, LockInv, SoundInv, DeriveInv, Steady, Replayers = {}, NEW p \in Procs,
         MarkComplete(p)
  PROVE  DeriveInv'
<1> DEFINE y == proc[p]
           b == y.source.block
           c == <<y.source.block, y.source.fork>>
           x == [Off EXCEPT !.pc = "idle"]
<1>1. /\ p \in Tails /\ y \in ProcRecord /\ Ready(y, p) /\ y.pc = "mark" /\ y.pc # "off"
      /\ Derives(y, replay, cursor, chain, forks, events)
  BY ReplayerIsTail DEF MarkComplete, At, ReplaySteps
<1>2. /\ UNCHANGED <<world, db>> /\ Become(p, x) /\ applied' = applied
      /\ replay' = [replay EXCEPT !.complete = c]
  BY <1>1 DEF MarkComplete
<1>3. chain' = chain /\ forks' = forks /\ events' = events /\ cursor' = cursor
  BY <1>2 DEF world, db
<1>4. x.pc = "idle"
  BY DEF Off
<1>5. replay \in ReplayRecord /\ Replayed(replay, applied, chain, forks, events)
  <2>1. Started
    BY <1>1 DEF Started, Deriving
  <2> QED BY <2>1, StartedTyped DEF DeriveInv, ReplayedInv
<1>6. /\ cursor # None /\ cursor.last # None /\ y.source = [block |-> cursor.last, fork |-> cursor.fork]
      /\ y.last = replay.last /\ (y.last # None => y.last \in events)
      /\ \A e \in events : ~Due(events, y.last, b, e)
      /\ b \in Int
  BY <1>1, Bounds DEF Derives, Ready, SourceRecord, Blocks, Deriving
<1>7. c \in checkpoints /\ c[1] = b
  BY <1>6 DEF SoundInv, CursorInv
<1>8. Fresh(chain, forks, c) /\ (On(chain, c) => Faithful(chain, events, b))
  BY <1>7 DEF SoundInv, StampInv, Vouches
<1> HIDE DEF x, c, b
<1>9. replay'.last = replay.last /\ replay'.complete = c
  BY <1>2, <1>5 DEF ReplayRecord
<1>10. ASSUME NEW e \in Events, e[1] <= b PROVE e \in events <=> e \in applied
  <2>1. CASE replay.last = None
    BY <1>5, <1>6, <1>10, <2>1 DEF Replayed, Due
  <2>2. CASE replay.last # None
    <3>1. replay.last \in Events /\ (e \in applied <=> (e \in events /\ e[1] <= replay.last[1]))
      BY <1>5, <1>6, <2>2 DEF Replayed, ReplayRecord
    <3>2. e[1] \in Int /\ replay.last[1] \in Int
      BY <3>1, EventParts
    <3> QED BY <1>6, <1>10, <3>1, <3>2 DEF Due
  <2> QED BY <2>1, <2>2
<1>11. On(chain, c) => Faithful(chain, applied, b)
  BY <1>8, <1>10 DEF Faithful
<1>12. Replayed(replay', applied, chain, forks, events)
  BY <1>5, <1>7, <1>8, <1>9, <1>11 DEF Replayed
<1>13. ReplayedInv'
  BY <1>2, <1>3, <1>12 DEF ReplayedInv
<1>14. Derives(x, replay', cursor', chain, forks, events')
  BY <1>4, RestingDerived
<1> QED BY <1>1, <1>2, <1>13, <1>14, WriterDerived

\* Every step keeps what is derived right.
LEMMA NextDerived ==
  ASSUME TypeInv, LockInv, SoundInv, DeriveInv, Steady, Replayers = {}, [Next]_vars
  PROVE  DeriveInv'
<1>1. ASSUME NEW p \in Procs, Step(p) \/ Command(p) PROVE DeriveInv'
  <2>1. CASE StartTail(p) \/ StartCycle(p) \/ Command(p)
    BY <2>1, StartDerived
  <2>2. CASE Plan(p) \/ Rewind(p) \/ SaveChunk(p) \/ FetchLogs(p) \/ FetchHeaders(p)
    BY <2>2, ReadingDerived, RewindDerived, SaveDerived
  <2>3. CASE OpenReplay(p) \/ GetSource(p) \/ ValidateReplay(p) \/ FetchEvents(p)
             \/ SaveBatch(p) \/ CheckSource(p) \/ MarkComplete(p)
    BY <2>3, ReplayDerived, ValidateDerived, SaveBatchDerived, MarkCompleteDerived
  <2> QED BY <1>1, <2>1, <2>2, <2>3 DEF Step
<1>2. ASSUME NEW p \in Procs, Crash(p) PROVE DeriveInv'
  <2>1. Become(p, Off) /\ UNCHANGED <<world, db, derived>>
    BY <1>2 DEF Crash
  <2>2. Off.pc = "off"
    BY DEF Off
  <2>3. Derives(Off, replay, cursor, chain, forks, events)
    BY <2>2, RestingDerived
  <2> QED BY <2>1, <2>2, <2>3, QuietDerived DEF Deriving
<1>3. ASSUME NEW p \in Procs, NEW c \in BOOLEAN, RpcFault(p, c) PROVE DeriveInv'
  BY <1>3, AbandonDerived, ChunkErrorDerived DEF RpcFault
<1>4. ASSUME NEW p \in Procs, LoseLock(p) PROVE FALSE
  BY <1>4 DEF LoseLock, Steady
<1>5. CASE Environment
  <2>1. CASE \E log \in BOOLEAN : Extend(log)
    BY <2>1, ExtendDerived
  <2>2. CASE \E from \in Floor .. Len(chain) : \E length \in 1 .. MaxBlock - from + 1 :
               \E logs \in SUBSET (from .. from - 1 + length) : Reorg(from, length, logs)
    BY <2>2, ReorgDerived
  <2> QED BY <1>2, <1>3, <1>4, <1>5, <2>1, <2>2 DEF Environment
<1>6. CASE UNCHANGED vars
  <2>1. /\ chain' = chain /\ forks' = forks /\ events' = events /\ cursor' = cursor
        /\ replay' = replay /\ applied' = applied /\ proc' = proc
    BY <1>6 DEF vars
  <2> QED BY <2>1 DEF DeriveInv, ReplayedInv, Started
<1> QED BY <1>1, <1>5, <1>6 DEF Next

\* It holds at the start: nothing is derived.
LEMMA InitDerived == Init => DeriveInv
<1> SUFFICES ASSUME Init PROVE DeriveInv
  OBVIOUS
<1>1. \A p \in Tails : proc[p] = Off
  BY DEF Init, Procs
<1>2. Off.pc = "off"
  BY DEF Off
<1>3. \A p \in Tails : Derives(proc[p], replay, cursor, chain, forks, events)
  BY <1>1, <1>2, RestingDerived
<1>4. ~Started
  BY <1>1, <1>2 DEF Started, Init, Deriving
<1> QED BY <1>3, <1>4 DEF DeriveInv, ReplayedInv

\* With no reorg during a scan, one writer and its lock kept, and no replay
\* command beside the tail: whenever the replay is marked complete at a block
\* that is still canonical, the derived state through it folds in exactly the
\* canonical logs, whatever reorgs have gone through what was replayed before
\* and however often a cycle failed or the process died between two batches.
THEOREM ReplaysAreCanonical ==
  ASSUME Steady, Replayers = {}
  PROVE  Spec => []ReplayCanonical
<1> DEFINE Inv == TypeInv /\ LockInv /\ CoverInv /\ SoundInv /\ DeriveInv
<1>1. Init => Inv
  BY InitTyped, InitCovered, InitSound, InitDerived
<1>2. Inv /\ [Next]_vars => Inv'
  BY NextTyped, NextCovered, NextSound, NextDerived DEF Steady
<1>3. Inv => ReplayCanonical
  <2> SUFFICES ASSUME Inv, replay # None, replay.complete # None, OnChain(replay.complete)
               PROVE  Upto(applied, replay.complete[1]) = Logs(Floor, replay.complete[1])
    BY DEF ReplayCanonical
  <2> DEFINE b == replay.complete[1]
  <2>1. replay \in ReplayRecord /\ applied \subseteq Events
    BY DEF TypeInv, RowsTyped
  <2>2. replay.complete \in Events
    BY <2>1 DEF ReplayRecord
  <2>3. Faithful(chain, applied, b)
    BY DEF DeriveInv, ReplayedInv, Started, Replayed, On, OnChain
  <2>4. b \in Int
    BY <2>2, EventParts
  <2> HIDE DEF b
  <2>5. Upto(applied, b) = Logs(Floor, b)
    BY <2>1, <2>3, <2>4, FaithfulMeans
  <2> QED BY <2>5 DEF b
<1> QED BY <1>1, <1>2, <1>3, PTL DEF Spec

=============================================================================
