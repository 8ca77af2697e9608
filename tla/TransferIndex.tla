---------------------------- MODULE TransferIndex ----------------------------
(***************************************************************************)
(* The wallet's Position Manager transfer index and the custody read that   *)
(* rests on it (src/src/nft/position-manager-transfer-index.ts and its      *)
(* wallet-scoped store, src/src/nft-wallet-index.ts,                        *)
(* src/src/deployments/live-transfer-nft-enumeration.ts).                   *)
(*                                                                          *)
(* A block is its fork and the tokens the wallet owns after it; its logs    *)
(* are what it changes.  A chunk is one block.  Headers and logs of a chunk *)
(* are separate calls to a node that may change its mind in between.        *)
(***************************************************************************)
EXTENDS Integers, Sequences, SequencesExt, FiniteSets, FiniteSetsExt

CONSTANTS
    Tokens,
    Depth,              \* CONFIRMATIONS
    MaxHeight, MaxLedgerForks, MaxReads   \* bounds

VARIABLES
    ledger,        \* the canonical chain, from block 1
    ledgerForks,   \* forks so far
    index,         \* chunks by number: checkpoint hash and transfers
    pins,          \* source checkpoints saved after a scan: number -> fork, 0 none
    scanner,       \* nft-wallet-index
    custodian,     \* readCompletePositionManagerNftCustody
    answers        \* enumerations reported as available

xferVars == <<ledger, ledgerForks, index, pins, scanner, custodian, answers>>

Owned(chain, h) == IF h = 0 THEN {} ELSE chain[h].owned
Gain(h) == Owned(ledger, h) \ Owned(ledger, h - 1)
Lose(h) == Owned(ledger, h - 1) \ Owned(ledger, h)
ForkAt(h) == IF h = 0 THEN 0 ELSE ledger[h].fork
Same(h, fork) == h <= Len(ledger) /\ ForkAt(h) = fork

IdleScan == [pc |-> "idle", at |-> 0, fork |-> 0, header |-> 0, parent |-> 0,
             logs |-> [fork |-> 0, gain |-> {}, lose |-> {}], have |-> {}]
IdleRead == [pc |-> "idle", at |-> 0, fork |-> 0, chunks |-> <<>>, pin |-> 0,
             ids |-> {}, balance |-> 0, owners |-> {}]

XferInit ==
    /\ ledger = <<[fork |-> 0, owned |-> {}]>>
    /\ ledgerForks = 0 /\ index = <<>>
    /\ pins = [h \in 1..MaxHeight |-> -1]
    /\ scanner = IdleScan /\ custodian = IdleRead /\ answers = {}

----------------------------------------------------------------------------
(* scanPositionManagerTransferHistoryWithBounds                             *)

\* The confirmed source, read again before the scan starts.
StartScan ==
    /\ scanner.pc = "idle"
    /\ \E h \in 1..Len(ledger) :
         /\ h + Depth <= Len(ledger)
         /\ scanner' = [IdleScan EXCEPT !.pc = "anchor", !.at = h, !.fork = ForkAt(h)]
    /\ UNCHANGED <<ledger, ledgerForks, index, pins, custodian, answers>>

\* The newest of the recent checkpoints that is still canonical.
recentCheckpoints ==
    Max({0} \cup {h \in DOMAIN index : Same(h, index[h].fork)})

\* An anchor that left the chain rewinds transfers, checkpoints and cursor in
\* one transaction.
Rewind ==
    /\ scanner.pc = "anchor"
    /\ IF index # <<>> /\ ~Same(Len(index), Last(index).fork)
       THEN /\ index' = SubSeq(index, 1, recentCheckpoints)
            /\ pins' = [h \in DOMAIN pins |-> IF h > recentCheckpoints THEN -1 ELSE pins[h]]
       ELSE UNCHANGED <<index, pins>>
    /\ scanner' = [scanner EXCEPT !.pc = "prior"]
    /\ UNCHANGED <<ledger, ledgerForks, custodian, answers>>

\* The block before the chunk must be the one the cursor covers.
Prior ==
    /\ scanner.pc = "prior" /\ Len(index) < scanner.at
    /\ scanner' = IF index # <<>> /\ ~Same(Len(index), Last(index).fork) THEN IdleScan
                  ELSE [scanner EXCEPT !.pc = "fetch", !.have = {},
                          !.parent = ForkAt(Len(index))]
    /\ UNCHANGED <<ledger, ledgerForks, index, pins, custodian, answers>>

Next1 == Len(index) + 1

FetchHeader ==
    /\ scanner.pc = "fetch" /\ "header" \notin scanner.have
    /\ scanner' = [scanner EXCEPT !.header = ForkAt(Next1), !.have = @ \cup {"header"}]
    /\ UNCHANGED <<ledger, ledgerForks, index, pins, custodian, answers>>

FetchLogs ==
    /\ scanner.pc = "fetch" /\ "logs" \notin scanner.have
    /\ scanner' = [scanner EXCEPT !.have = @ \cup {"logs"},
                     !.logs = [fork |-> ForkAt(Next1), gain |-> Gain(Next1),
                               lose |-> Lose(Next1)]]
    /\ UNCHANGED <<ledger, ledgerForks, index, pins, custodian, answers>>

Empty(logs) == logs.gain = {} /\ logs.lose = {}

\* The start header's parent must be the prior block (a fork that begins at this
\* chunk keeps it), and every block with a log must still have the log's hash.
Contiguous(h, parent) == h = 1 \/ ForkAt(h - 1) = parent

EventHeaders ==
    /\ scanner.pc = "fetch" /\ scanner.have = {"header", "logs"}
    /\ scanner' = IF Contiguous(Next1, scanner.parent)
                     /\ (Empty(scanner.logs) \/ Same(Next1, scanner.logs.fork))
                  THEN [scanner EXCEPT !.pc = "save"] ELSE IdleScan
    /\ UNCHANGED <<ledger, ledgerForks, index, pins, custodian, answers>>

\* The transfers' hashes must equal the chunk's own headers; then transfers,
\* checkpoint and cursor are written together.
saveChunk ==
    /\ scanner.pc = "save"
    /\ IF Empty(scanner.logs) \/ scanner.logs.fork = scanner.header
       THEN /\ index' = Append(index, [fork |-> scanner.header, gain |-> scanner.logs.gain,
                                       lose |-> scanner.logs.lose])
            /\ scanner' = [scanner EXCEPT !.pc = "source"]
       ELSE UNCHANGED index /\ scanner' = IdleScan
    /\ UNCHANGED <<ledger, ledgerForks, pins, custodian, answers>>

\* The source is only compared after the chunk was written.
SourceStillCanonical ==
    /\ scanner.pc = "source"
    /\ scanner' = IF Same(scanner.at, scanner.fork) THEN [scanner EXCEPT !.pc = "prior"]
                  ELSE IdleScan
    /\ UNCHANGED <<ledger, ledgerForks, index, pins, custodian, answers>>

\* A conflict with the checkpoint already there is an error.
savePinnedCheckpoint ==
    /\ scanner.pc = "prior" /\ Len(index) >= scanner.at
    /\ pins' = IF pins[scanner.at] = -1 /\ index[scanner.at].fork = scanner.fork
               THEN [pins EXCEPT ![scanner.at] = scanner.fork] ELSE pins
    /\ scanner' = IdleScan
    /\ UNCHANGED <<ledger, ledgerForks, index, custodian, answers>>

ScanFails ==
    /\ scanner.pc \in {"anchor", "fetch", "source"}
    /\ scanner' = IdleScan
    /\ UNCHANGED <<ledger, ledgerForks, index, pins, custodian, answers>>

----------------------------------------------------------------------------
(* readCompletePositionManagerNftCustody                                    *)

PinSource ==
    /\ custodian.pc = "idle" /\ Cardinality(answers) < MaxReads
    /\ \E h \in 1..Len(ledger) :
         /\ h + Depth <= Len(ledger)
         /\ custodian' = [IdleRead EXCEPT !.pc = "load", !.at = h, !.fork = ForkAt(h)]
    /\ UNCHANGED <<ledger, ledgerForks, index, pins, scanner, answers>>

\* One snapshot of cursor, transfers and checkpoints; the cursor must cover the
\* source and the source's checkpoint carry its hash.
loadReplayEvidence ==
    /\ custodian.pc = "load"
    /\ custodian' = IF Len(index) >= custodian.at /\ index[custodian.at].fork = custodian.fork
                    THEN [custodian EXCEPT !.pc = "check", !.chunks = index]
                    ELSE IdleRead
    /\ UNCHANGED <<ledger, ledgerForks, index, pins, scanner, answers>>

\* The checkpoints asked for: those of blocks with transfers, the source's and
\* the cursor's.
Required(chunks, at) ==
    {h \in DOMAIN chunks : h \in {at, Len(chunks)} \/ (h <= at /\ ~Empty(chunks[h]))}

CheckCheckpoints ==
    /\ custodian.pc = "check"
    /\ custodian' = IF \A h \in Required(custodian.chunks, custodian.at) :
                         Same(h, custodian.chunks[h].fork)
                    THEN [custodian EXCEPT !.pc = "replay"] ELSE IdleRead
    /\ UNCHANGED <<ledger, ledgerForks, index, pins, scanner, answers>>

\* An outgoing transfer of a token not owned, or an incoming one of a token
\* already owned, makes the replay unavailable.
replayPositionManagerWalletOwnerSet(chunks, at) ==
    FoldLeft(LAMBDA state, chunk :
               IF state.ok /\ chunk.lose \subseteq state.owned
                           /\ chunk.gain \cap state.owned = {}
               THEN [ok |-> TRUE, owned |-> (state.owned \ chunk.lose) \cup chunk.gain]
               ELSE [ok |-> FALSE, owned |-> {}],
             [ok |-> TRUE, owned |-> {}], SubSeq(chunks, 1, at))

Replay ==
    /\ custodian.pc = "replay"
    /\ LET r == replayPositionManagerWalletOwnerSet(custodian.chunks, custodian.at)
       IN  custodian' = IF r.ok THEN [custodian EXCEPT !.pc = "balance", !.ids = r.owned]
                        ELSE IdleRead
    /\ UNCHANGED <<ledger, ledgerForks, index, pins, scanner, answers>>

readBalance ==
    /\ custodian.pc = "balance" /\ custodian.at <= Len(ledger)
    /\ custodian' = [custodian EXCEPT !.pc = "owners",
                       !.balance = Cardinality(Owned(ledger, custodian.at))]
    /\ UNCHANGED <<ledger, ledgerForks, index, pins, scanner, answers>>

readOwners ==
    /\ custodian.pc = "owners" /\ custodian.at <= Len(ledger)
    /\ custodian' = [custodian EXCEPT !.pc = "after",
                       !.owners = custodian.ids \cap Owned(ledger, custodian.at)]
    /\ UNCHANGED <<ledger, ledgerForks, index, pins, scanner, answers>>

\* Mutant: the number of tokens is not compared with balanceOf.
OwnersOnly(read) == read.owners = read.ids

Reconciled(read) ==
    /\ read.balance = Cardinality(read.ids)
    /\ read.owners = read.ids

Enumerate ==
    /\ custodian.pc = "after"
    /\ answers' = IF Reconciled(custodian) /\ Same(custodian.at, custodian.fork)
                  THEN answers \cup {[ids |-> custodian.ids,
                                      truth |-> Owned(ledger, custodian.at)]}
                  ELSE answers
    /\ custodian' = IdleRead
    /\ UNCHANGED <<ledger, ledgerForks, index, pins, scanner>>

----------------------------------------------------------------------------
Extend ==
    /\ Len(ledger) < MaxHeight
    /\ \E owned \in SUBSET Tokens :
         ledger' = Append(ledger, [fork |-> ledgerForks, owned |-> owned])
    /\ UNCHANGED <<ledgerForks, index, pins, scanner, custodian, answers>>

Replace ==
    /\ ledgerForks < MaxLedgerForks
    /\ ledgerForks' = ledgerForks + 1
    /\ \E h \in DOMAIN ledger, owned \in SUBSET Tokens :
         ledger' = [i \in DOMAIN ledger |-> IF i < h THEN ledger[i]
                     ELSE [fork |-> ledgerForks + 1, owned |-> owned]]
    /\ UNCHANGED <<index, pins, scanner, custodian, answers>>

XferNext ==
    \/ StartScan \/ Rewind \/ Prior \/ FetchHeader \/ FetchLogs \/ EventHeaders
    \/ saveChunk \/ SourceStillCanonical \/ savePinnedCheckpoint \/ ScanFails
    \/ PinSource \/ loadReplayEvidence \/ CheckCheckpoints \/ Replay
    \/ readBalance \/ readOwners \/ Enumerate
    \/ Extend \/ Replace

XferSpec == XferInit /\ [][XferNext]_xferVars

----------------------------------------------------------------------------
(***************************************************************************)
(* A chunk whose logs came from one fork and whose header from the next may *)
(* miss a transfer for good, under a checkpoint that is canonical.  An      *)
(* enumeration reported as complete is nevertheless exactly the wallet's    *)
(* tokens at its source (readCompletePositionManagerNftCustody's            *)
(* reconciliation).                                                         *)
(***************************************************************************)
EnumerationTrue == \A a \in answers : a.ids = a.truth
============================================================================
