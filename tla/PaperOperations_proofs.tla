----------------------- MODULE PaperOperations_proofs -----------------------
(***************************************************************************)
(* One paper campaign, for any set of workers, keys and faults and every   *)
(* bound: its commands are booked once and tell one story, its settled     *)
(* operations stay, its books stand still under a preparation, and its     *)
(* fee evidence, accounting and accepted models fit the latest mark.       *)
(*                                                                         *)
(* PaperInv is the inductive invariant: types, the references between the  *)
(* tables (RowsInv), the lifecycle and the one pending operation           *)
(* (StoryInv), what is booked (BooksInv), and what the server and each     *)
(* worker carry across their steps (ServerInv, WorkersInv).  EvidenceInv   *)
(* and OriginInv come on top of it.                                        *)
(***************************************************************************)
EXTENDS PaperOperations, FiniteSetTheorems, TLAPS

\* The kinds, statuses and keys of operations.
OpKinds == {"open", "pause", "resume", "change_range"} \cup Closes
Moves == {"pause", "resume"}
Unsettled == {"preflighting", "executing", "reconciling"}
Statuses == {"queued", "succeeded", "blocked"} \cup Unsettled
KeyValues == Keys \cup {NoOne} \cup ({"rk-auto"} \X Nat)

\* The rows of deployment_marks, deployment_previews and deployment_operations,
\* the command server's request and a worker process.
MarkRecord == [kind : OpKinds \cup {"mark"}, block : Nat, fork : Forks, op : Nat]
PreviewRecord == [kind : OpKinds, prev : Nat, block : Nat, fork : Forks, live : BOOLEAN]
OpRecord == [kind : OpKinds, preview : Nat, key : KeyValues, status : Statuses,
             by : Workers \cup {NoOne}, valid : BOOLEAN, attempts : Nat]
SrvRecord == [pc : {"idle", "preparing", "accepting"}, kind : OpKinds, prev : Nat,
              block : Nat, fork : Forks, preview : Nat, key : KeyValues]
WorkerRecord == [pc : {"idle", "down"} \cup OpPcs \cup PassPcs, op : Nat, lost : BOOLEAN,
                 from : Nat, to : Nat, prev : Nat, block : Nat, fork : Forks,
                 sample : BOOLEAN, work : BOOLEAN]

\* Every variable keeps its type.
Typed ==
  /\ chain \in Seq(Forks) /\ Len(chain) \in 1 .. MaxBlock /\ reorgs \in Forks
  /\ lifecycle \in {"draft", "opening", "active", "paused", "closing", "closed"}
  /\ marks \in Seq(MarkRecord) /\ previews \in Seq(PreviewRecord) /\ ops \in Seq(OpRecord)
  /\ fee \subseteq (1 .. Latest) \X (1 .. Latest)
  /\ acct \subseteq {"v1", "v2", "v3", "rk"} \X (1 .. Latest) /\ invalid \subseteq acct
  /\ srv \in SrvRecord /\ worker \in [Workers -> WorkerRecord]
  /\ exclusive \in Owners /\ shared \subseteq Workers /\ pass \in Workers \cup {NoOne}

\* A model is built on a mark of the past, or on none.
After(prev, block) ==
  /\ block \in 1 .. MaxBlock
  /\ prev > 0 => prev <= Latest /\ marks[prev].block < block

\* An operation runs the preview it was accepted for; a mark is an observation
\* or the result of one operation; a live claim is of an unsettled operation.
RowsInv ==
  /\ \A m \in 1 .. Latest :
       /\ marks[m].block \in 1 .. MaxBlock /\ marks[m].op <= Len(ops)
       /\ marks[m].kind = IF marks[m].op = 0 THEN "mark" ELSE ops[marks[m].op].kind
  /\ \A p \in 1 .. Len(previews) :
       previews[p].kind \notin Moves => After(previews[p].prev, previews[p].block)
  /\ \A i \in 1 .. Len(ops) :
       /\ ops[i].preview \in 1 .. Len(previews) /\ previews[ops[i].preview].kind = ops[i].kind
       /\ ops[i].valid => ops[i].by # NoOne /\ ops[i].status \in Unsettled

\* The lifecycle says whether there is a mark, and whether the last is a close.
StoryInv ==
  /\ lifecycle \in {"draft", "opening"} => marks = <<>>
  /\ lifecycle \in {"active", "paused", "closing"} => marks # <<>>
  /\ \A i, j \in 1 .. Len(ops) : Pending(i) /\ Pending(j) => i = j
  /\ \A i \in 1 .. Len(ops) : Pending(i) =>
       /\ lifecycle \notin {"draft", "closed"}
       /\ lifecycle = "opening" <=> ops[i].kind = "open"
       /\ lifecycle = "closing" <=> ops[i].kind \in Closes
  /\ lifecycle \in {"opening", "closing"} => SomePending
  /\ MarkStory

\* The operations that have left their mark and ledger entry.
Done(i) == ops[i].status = "succeeded" /\ ops[i].kind \notin Moves

\* An operation has its mark and its ledger entry if and only if it is done, and
\* each mark of an operation is the only one.
BooksInv ==
  /\ \A m \in 1 .. Latest : marks[m].op > 0 => Done(marks[m].op)
  /\ \A m, n \in 1 .. Latest : marks[m].op > 0 /\ marks[m].op = marks[n].op => m = n
  /\ \A i \in 1 .. Len(ops) : Done(i) => /\ \E m \in 1 .. Latest : marks[m].op = i
                                        /\ <<ops[i].kind, i>> \in ledger
  /\ \A e \in ledger : \E i \in 1 .. Len(ops) : Done(i) /\ e = <<ops[i].kind, i>>

\* What the command server carries from one of its steps to the next.
ServerInv ==
  /\ srv.pc = "preparing" => srv.kind \in Closes /\ After(srv.prev, srv.block)
  /\ srv.pc = "accepting" => /\ srv.preview \in 1 .. Len(previews)
                             /\ previews[srv.preview].kind = "close_convert"

\* What a worker carries from one step to the next.
Holds(x, w) ==
  /\ x.pc \in PassPcs <=> pass = w
  /\ pass = w => Latest > 0
  /\ x.pc \in OpPcs => x.op \in 1 .. Len(ops)
  /\ x.pc \in {"sampled", "recenter", "frozen"} => x.prev > 0 /\ After(x.prev, x.block)
  /\ x.pc = "frozen" => \E p \in 1 .. Len(previews) : previews[p].kind = "change_range"
  /\ x.pc = "feed" => /\ x.to <= Latest /\ 1 <= x.from /\ x.from < x.to
                      /\ ~Static => \A q \in fee : q[2] <= x.from

Carries(w) == Holds(worker[w], w)

\* Every worker carries what its step relies on.
WorkersInv == \A w \in Workers : Carries(w)

\* The inductive invariant.
PaperInv == Typed /\ RowsInv /\ StoryInv /\ BooksInv /\ ServerInv /\ WorkersInv

-----------------------------------------------------------------------------
(* Numbers and constants.                                                   *)

\* A bounded set of numbers has a greatest and a least element: of the sets of
\* larger (smaller) elements, one is minimal.
LEMMA GreatestExists ==
  ASSUME NEW n \in Nat, NEW S \in SUBSET (1 .. n), S # {}
  PROVE  \E m \in S : \A k \in S : k <= m
<1> DEFINE Above(m) == {k \in S : k > m}
<1> DEFINE T == {Above(m) : m \in S}
<1>1. IsFiniteSet(S)
  <2>1. IsFiniteSet(1 .. n)
    BY FS_Interval
  <2> QED BY <2>1, FS_Subset
<1>2. \A m \in S : IsFiniteSet(Above(m)) /\ Above(m) \in SUBSET S
  BY <1>1, FS_Subset
<1>3. T \subseteq FiniteSubsetsOf(S) /\ T # {}
  BY <1>2 DEF FiniteSubsetsOf
<1>4. PICK x \in T : \A y \in T : <<y, x>> \notin StrictSubsetOrdering(S)
  <2> HIDE DEF T
  <2> QED BY <1>3, FS_StrictSubsetOrderingWellFounded, WFMin
<1>5. PICK m \in S : x = Above(m)
  BY <1>4
<1>6. ASSUME NEW k \in S, ~(k <= m) PROVE FALSE
  <2>1. k \in Int /\ m \in Int /\ k > m
    BY <1>6
  <2>2. \A j \in S : j \in Int /\ (j > k => j > m)
    BY <2>1
  <2>3. Above(k) \subseteq Above(m) /\ k \in Above(m) /\ k \notin Above(k)
    <3>1. Above(k) \subseteq Above(m)
      BY <2>2
    <3>2. k \in Above(m)
      BY <2>1
    <3>3. k \notin Above(k)
      BY <2>1
    <3> QED BY <3>1, <3>2, <3>3
  <2>4. Above(k) \in T /\ Above(k) \in SUBSET S /\ x \in SUBSET S
    BY <1>5
  <2> HIDE DEF Above, T
  <2>5. <<Above(k), x>> \in StrictSubsetOrdering(S)
    BY <1>5, <2>3, <2>4 DEF StrictSubsetOrdering
  <2> QED BY <1>4, <2>4, <2>5
<1> QED BY <1>6

\* A nonempty bounded set of numbers has a least element: mirror it.
LEMMA LeastExists ==
  ASSUME NEW n \in Nat, NEW S \in SUBSET (1 .. n), S # {}
  PROVE  \E m \in S : \A k \in S : m <= k
<1> DEFINE T == {n + 1 - k : k \in S}
<1>1. \A k \in S : n + 1 - k \in 1 .. n
  OBVIOUS
<1>2. T \in SUBSET (1 .. n) /\ T # {}
  BY <1>1
<1>3. PICK t \in T : \A u \in T : u <= t
  <2> HIDE DEF T
  <2> QED BY <1>2, GreatestExists
<1>4. PICK m \in S : t = n + 1 - m
  BY <1>3
<1>5. ASSUME NEW k \in S PROVE m <= k
  <2>1. n + 1 - k <= n + 1 - m
    BY <1>3, <1>4
  <2> QED BY <2>1
<1> QED BY <1>5

\* What the assumption on the constants gives.
LEMMA Bounds ==
  /\ 0 \in Forks /\ \A f \in Forks : f \in Nat
  /\ MaxBlock \in Nat /\ MaxBlock >= 1 /\ MaxReorgs \in Nat
  /\ NoOne \notin Workers /\ "server" \notin Workers /\ NoOne # "server"
BY PaperAssumption DEF Forks

\* An idle worker and an idle server are typed.
LEMMA IdleTyped ==
  /\ IdleWorker \in WorkerRecord
  /\ [IdleWorker EXCEPT !.pc = "down"] \in WorkerRecord
  /\ IdleSrv \in SrvRecord
BY Bounds DEF IdleWorker, WorkerRecord, IdleSrv, SrvRecord, OpPcs, PassPcs, OpKinds, KeyValues

\* The interval that ReadFee asks for.
LEMMA LastFeeRange ==
  ASSUME Typed, Latest > 0
  PROVE  LastFee \in 1 .. Latest /\ \A q \in fee : q[2] <= LastFee
<1>1. CASE fee = {}
  BY <1>1 DEF LastFee, Typed, Latest
<1>2. CASE fee # {}
  <2> DEFINE S == {q[2] : q \in fee}
  <2>1. S \in SUBSET (1 .. Latest) /\ S # {}
    BY <1>2 DEF Typed
  <2>2. Latest \in Nat
    BY DEF Typed, Latest
  <2>3. \E m \in S : \A k \in S : k <= m
    BY <2>1, <2>2, GreatestExists
  <2>4. \E m \in 1 .. Latest : (\E q \in fee : q[2] = m) /\ \A q \in fee : q[2] <= m
    BY <2>1, <2>3
  <2> QED BY <1>2, <2>4 DEF LastFee
<1> QED BY <1>1, <1>2

\* The fee interval a pass samples next ends at a mark after its start.
LEMMA FeeToRange ==
  ASSUME Typed, Latest > 0, LastFee < Latest
  PROVE  FeeTo \in LastFee + 1 .. Latest
<1>1. Latest \in Nat /\ LastFee \in 1 .. Latest
  BY LastFeeRange DEF Typed, Latest
<1>2. CASE Static
  BY <1>1, <1>2 DEF FeeTo
<1>3. CASE ~Static /\ Boundaries = {}
  BY <1>1, <1>3 DEF FeeTo
<1>4. CASE ~Static /\ Boundaries # {}
  <2>1. Boundaries \in SUBSET (1 .. Latest) /\ Boundaries \subseteq LastFee + 1 .. Latest
    BY <1>1 DEF Boundaries
  <2>2. \E m \in Boundaries : \A k \in Boundaries : m <= k
    BY <1>1, <1>4, <2>1, LeastExists
  <2> QED BY <1>4, <2>1, <2>2 DEF FeeTo
<1> QED BY <1>2, <1>3, <1>4

-----------------------------------------------------------------------------
(* Rows are appended and never lose what others refer to.                   *)

\* Marks and previews are only added, operations keep what they are: what a
\* worker carries survives such a step of anyone else.
Grows ==
  /\ Latest <= Latest' /\ \A m \in 1 .. Latest : marks'[m] = marks[m]
  /\ Len(previews) <= Len(previews')
  /\ \A p \in 1 .. Len(previews) :
       /\ previews'[p].kind = previews[p].kind /\ previews'[p].prev = previews[p].prev
       /\ previews'[p].block = previews[p].block
  /\ Len(ops) <= Len(ops')
  /\ \A i \in 1 .. Len(ops) :
       ops'[i].kind = ops[i].kind /\ ops'[i].preview = ops[i].preview

\* The lengths of the tables are numbers.
LEMMA LengthsNat ==
  ASSUME Typed
  PROVE  Latest \in Nat /\ Len(previews) \in Nat /\ Len(ops) \in Nat /\ Len(chain) \in Nat
BY DEF Typed, Latest

\* They are numbers after a step as well.
LEMMA LengthsNext ==
  ASSUME Typed'
  PROVE  Latest' \in Nat /\ Len(previews') \in Nat /\ Len(ops') \in Nat
BY DEF Typed, Latest

\* A model built on a mark stays so when marks are added.
LEMMA AfterGrows ==
  ASSUME Typed, Typed', Grows, NEW prev \in Nat, NEW block, After(prev, block)
  PROVE  After(prev, block)'
BY LengthsNat, LengthsNext DEF After, Grows

\* What the server carries survives a step of others.
LEMMA ServerKept ==
  ASSUME PaperInv, Typed', Grows, UNCHANGED srv
  PROVE  ServerInv'
<1>1. srv.prev \in Nat
  BY DEF PaperInv, Typed, SrvRecord
<1>2. srv.pc = "preparing" => After(srv.prev, srv.block)'
  BY <1>1, AfterGrows DEF PaperInv, ServerInv
<1>3. srv.pc = "accepting" => /\ srv.preview \in 1 .. Len(previews')
                              /\ previews'[srv.preview].kind = "close_convert"
  BY LengthsNat, LengthsNext DEF PaperInv, ServerInv, Grows
<1> QED BY <1>2, <1>3 DEF PaperInv, ServerInv, After

\* And what a worker carries a step of another.
LEMMA CarriesKept ==
  ASSUME PaperInv, Typed', Grows, NEW w \in Workers, worker'[w] = worker[w],
         pass' = w <=> pass = w, fee' = fee \/ Static \/ pass # w
  PROVE  Carries(w)'
<1> DEFINE t == worker[w]
<1>1. Carries(w) /\ t \in WorkerRecord
  BY DEF PaperInv, WorkersInv, Typed
<1>2. t.prev \in Nat
  BY <1>1 DEF WorkerRecord
<1>3. t.pc \in {"sampled", "recenter", "frozen"} => After(t.prev, t.block)'
  BY <1>1, <1>2, AfterGrows DEF PaperInv, Carries, Holds
<1>4. t.pc \in PassPcs <=> pass' = w
  BY <1>1 DEF Carries, Holds
<1>5. pass' = w => Latest' > 0
  BY <1>1, LengthsNat, LengthsNext DEF Carries, Holds, Grows, PaperInv
<1>6. t.pc \in OpPcs => t.op \in 1 .. Len(ops')
  BY <1>1, LengthsNat, LengthsNext DEF Carries, Holds, Grows, PaperInv
<1>7. t.pc = "frozen" => \E p \in 1 .. Len(previews') : previews'[p].kind = "change_range"
  BY <1>1, LengthsNat, LengthsNext DEF Carries, Holds, Grows, PaperInv
<1>8. t.pc = "feed" =>
        /\ t.to <= Latest' /\ 1 <= t.from /\ t.from < t.to
        /\ ~Static => \A q \in fee' : q[2] <= t.from
  <2> SUFFICES ASSUME t.pc = "feed"
               PROVE  /\ t.to <= Latest' /\ 1 <= t.from /\ t.from < t.to
                      /\ ~Static => \A q \in fee' : q[2] <= t.from
    OBVIOUS
  <2>1. pass = w
    BY <1>1 DEF Carries, Holds, PassPcs
  <2>2. t.to \in Nat
    BY <1>1 DEF WorkerRecord
  <2>3. t.to <= Latest'
    BY <1>1, <2>2, LengthsNat, LengthsNext DEF Carries, Holds, Grows, PaperInv
  <2> QED BY <1>1, <2>1, <2>3 DEF Carries, Holds
<1>9. Carries(w)' <=>
        /\ t.pc \in PassPcs <=> pass' = w
        /\ pass' = w => Latest' > 0
        /\ t.pc \in OpPcs => t.op \in 1 .. Len(ops')
        /\ t.pc \in {"sampled", "recenter", "frozen"} => t.prev > 0 /\ After(t.prev, t.block)'
        /\ t.pc = "frozen" => \E p \in 1 .. Len(previews') : previews'[p].kind = "change_range"
        /\ t.pc = "feed" => /\ t.to <= Latest' /\ 1 <= t.from /\ t.from < t.to
                            /\ ~Static => \A q \in fee' : q[2] <= t.from
  BY DEF Carries, Holds
<1> HIDE DEF t
<1>10. t.pc \in {"sampled", "recenter", "frozen"} => t.prev > 0
  BY <1>1 DEF Carries, Holds, t
<1> QED BY <1>3, <1>4, <1>5, <1>6, <1>7, <1>8, <1>9, <1>10

\* A step that leaves the workers alone keeps what all of them carry.
LEMMA WorkersKept ==
  ASSUME PaperInv, Typed', Grows, UNCHANGED <<worker, pass>>, fee' = fee \/ Static
  PROVE  WorkersInv'
BY CarriesKept DEF WorkersInv

\* A worker's step keeps what the other workers carry.
LEMMA OthersKept ==
  ASSUME PaperInv, Typed', Grows, NEW w \in Workers,
         \A x \in Workers \ {w} : worker'[x] = worker[x] /\ (pass' = x <=> pass = x),
         fee' = fee \/ Static \/ pass = w, Carries(w)'
  PROVE  WorkersInv'
<1>1. ASSUME NEW x \in Workers PROVE Carries(x)'
  <2>1. CASE x = w
    BY <2>1
  <2>2. CASE x # w
    BY <2>2, CarriesKept
  <2> QED BY <2>1, <2>2
<1> QED BY <1>1 DEF WorkersInv

-----------------------------------------------------------------------------
(* What the ways of writing rows leave true.                                *)

\* The part of the invariant that the tables alone decide.
BookInv == RowsInv /\ StoryInv /\ BooksInv

\* A mark refers to an operation of the table or to none.
LEMMA MarkRefs ==
  ASSUME Typed, RowsInv, NEW m \in 1 .. Latest
  PROVE  /\ marks[m] \in MarkRecord /\ marks[m].op \in Nat
         /\ marks[m].op > 0 => marks[m].op \in 1 .. Len(ops)
<1>1. marks[m] \in MarkRecord
  BY DEF Typed, Latest
<1>2. marks[m].op \in Nat /\ marks[m].op <= Len(ops)
  BY <1>1 DEF MarkRecord, RowsInv
<1> QED BY <1>1, <1>2, LengthsNat

\* A step that writes no table keeps their invariant.
LEMMA QuietRows ==
  ASSUME PaperInv, UNCHANGED <<lifecycle, marks, ledger, previews, ops>>
  PROVE  BookInv' /\ Grows
<1>1. Grows
  BY LengthsNat DEF Grows, PaperInv, Latest
<1>2. RowsInv'
  BY DEF PaperInv, RowsInv, Latest, After
<1>3. StoryInv'
  BY DEF PaperInv, StoryInv, Pending, SomePending, MarkStory, Latest
<1>4. BooksInv'
  BY DEF PaperInv, BooksInv, Done, Latest
<1> QED BY <1>1, <1>2, <1>3, <1>4 DEF BookInv

\* The claim or the status of one operation that does not become a success.
LEMMA TouchedRows ==
  ASSUME PaperInv, NEW i \in 1 .. Len(ops), NEW o \in OpRecord, ops' = [ops EXCEPT ![i] = o],
         o.kind = ops[i].kind, o.preview = ops[i].preview,
         ops[i].status # "succeeded", o.status # "succeeded",
         o.valid => o.by # NoOne /\ o.status \in Unsettled,
         UNCHANGED <<lifecycle, marks, ledger, previews>>
  PROVE  ops' \in Seq(OpRecord) /\ BookInv' /\ Grows
<1> USE LengthsNat
<1>1. ops \in Seq(OpRecord) /\ Len(ops) \in Nat
  BY DEF PaperInv, Typed
<1>2. ops' \in Seq(OpRecord) /\ Len(ops') = Len(ops) /\ ops'[i] = o
      /\ \A j \in 1 .. Len(ops) : j # i => ops'[j] = ops[j]
  BY <1>1
<1>3. \A j \in 1 .. Len(ops) : /\ ops'[j].kind = ops[j].kind
                               /\ ops'[j].preview = ops[j].preview
                               /\ ops'[j].status = "succeeded" <=> ops[j].status = "succeeded"
  BY <1>2
<1>4. Grows
  BY <1>2, <1>3 DEF Grows, PaperInv, Latest
<1>5. RowsInv'
  <2>1. \A m \in 1 .. Latest' : /\ marks'[m].block \in 1 .. MaxBlock /\ marks'[m].op <= Len(ops')
                                /\ marks'[m].op \in Nat
    BY <1>2, MarkRefs DEF PaperInv, RowsInv, Latest
  <2>2. \A m \in 1 .. Latest' :
          marks'[m].kind = IF marks'[m].op = 0 THEN "mark" ELSE ops'[marks'[m].op].kind
    BY <2>1, <1>2, <1>3 DEF PaperInv, RowsInv, Latest
  <2>3. \A p \in 1 .. Len(previews') :
          previews'[p].kind \notin Moves => After(previews[p].prev, previews[p].block)'
    BY DEF PaperInv, RowsInv, After, Latest
  <2>4. \A j \in 1 .. Len(ops') :
          /\ ops'[j].preview \in 1 .. Len(previews')
          /\ previews'[ops'[j].preview].kind = ops'[j].kind
          /\ ops'[j].valid => ops'[j].by # NoOne /\ ops'[j].status \in Unsettled
    BY <1>2, <1>3 DEF PaperInv, RowsInv
  <2> QED BY <2>1, <2>2, <2>3, <2>4 DEF RowsInv
<1>6. StoryInv'
  <2>1. \A j \in 1 .. Len(ops) : Pending(j)' <=> Pending(j)
    BY <1>3 DEF Pending
  <2>2. MarkStory'
    BY DEF PaperInv, StoryInv, MarkStory, Latest
  <2>3. SomePending' <=> SomePending
    BY <1>2, <2>1 DEF SomePending
  <2> QED BY <1>2, <1>3, <2>1, <2>2, <2>3 DEF PaperInv, StoryInv
<1>7. BooksInv'
  <2>1. \A j \in 1 .. Len(ops) : Done(j)' <=> Done(j)
    BY <1>3 DEF Done
  <2>2. \A m \in 1 .. Latest : marks[m].op > 0 => marks[m].op \in 1 .. Len(ops)
    BY MarkRefs DEF PaperInv
  <2> QED BY <1>2, <1>3, <2>1, <2>2 DEF PaperInv, BooksInv, Latest
<1> QED BY <1>2, <1>4, <1>5, <1>6, <1>7 DEF BookInv

\* A preview taken, or its deadline.
LEMMA PreviewRows ==
  ASSUME PaperInv, NEW k \in OpKinds, NEW prev \in Nat, NEW block \in Nat, NEW f \in Forks,
         k \notin Moves => After(prev, block), SavePreview(k, prev, block, f),
         UNCHANGED <<lifecycle, marks, ledger, ops>>
  PROVE  previews' \in Seq(PreviewRecord) /\ BookInv' /\ Grows
<1> USE LengthsNat
<1> DEFINE v == [kind |-> k, prev |-> prev, block |-> block, fork |-> f, live |-> TRUE]
<1>1. previews' = Append(previews, v)
  BY DEF SavePreview
<1>2. v \in PreviewRecord /\ previews \in Seq(PreviewRecord)
  BY DEF PreviewRecord, PaperInv, Typed
<1>3. /\ v.kind = k /\ v.prev = prev /\ v.block = block
      /\ previews' \in Seq(PreviewRecord) /\ Len(previews') = Len(previews) + 1
      /\ previews'[Len(previews) + 1] = v
      /\ \A p \in 1 .. Len(previews) : previews'[p] = previews[p]
  BY <1>1, <1>2
<1> HIDE DEF v
<1>4. Grows
  BY <1>3 DEF Grows, PaperInv, Latest
<1>5. RowsInv'
  <2>1. \A m \in 1 .. Latest' :
       /\ marks'[m].block \in 1 .. MaxBlock /\ marks'[m].op <= Len(ops')
       /\ marks'[m].kind = IF marks'[m].op = 0 THEN "mark" ELSE ops'[marks'[m].op].kind
    BY DEF PaperInv, RowsInv, Latest
  <2>2. \A q, b : After(q, b)' <=> After(q, b)
    BY DEF After, Latest
  <2>3. ASSUME NEW p \in 1 .. Len(previews'), previews'[p].kind \notin Moves
        PROVE  After(previews[p].prev, previews[p].block)'
    <3>1. CASE p \in 1 .. Len(previews)
      BY <1>3, <2>3, <3>1 DEF PaperInv, RowsInv, After, Latest
    <3>2. CASE p = Len(previews) + 1
      BY <1>3, <2>3, <3>2 DEF After, Latest
    <3> QED BY <1>3, <3>1, <3>2 DEF PaperInv
  <2>4. \A j \in 1 .. Len(ops') :
          /\ ops'[j].preview \in 1 .. Len(previews')
          /\ previews'[ops'[j].preview].kind = ops'[j].kind
          /\ ops'[j].valid => ops'[j].by # NoOne /\ ops'[j].status \in Unsettled
    BY <1>3 DEF PaperInv, RowsInv
  <2> QED BY <2>1, <2>3, <2>4 DEF RowsInv
<1>6. StoryInv'
  <2>1. MarkStory' /\ (marks' = <<>> <=> marks = <<>>)
    BY DEF PaperInv, StoryInv, MarkStory, Latest
  <2>2. \A i \in 1 .. Len(ops) : Pending(i)' <=> Pending(i)
    BY DEF Pending
  <2>3. SomePending' <=> SomePending
    BY <2>2 DEF SomePending
  <2> QED BY <2>1, <2>2, <2>3 DEF PaperInv, StoryInv
<1>7. BooksInv'
  BY DEF PaperInv, BooksInv, Done, Latest
<1> QED BY <1>3, <1>4, <1>5, <1>6, <1>7 DEF BookInv

\* A preview that expires (ExpirePreview).
LEMMA ExpiredRows ==
  ASSUME PaperInv, NEW p \in 1 .. Len(previews), previews' = [previews EXCEPT ![p].live = FALSE],
         UNCHANGED <<lifecycle, marks, ledger, ops>>
  PROVE  previews' \in Seq(PreviewRecord) /\ BookInv' /\ Grows
<1> USE LengthsNat
<1>1. previews \in Seq(PreviewRecord) /\ previews[p] \in PreviewRecord
  BY DEF PaperInv, Typed
<1> DEFINE v == [previews[p] EXCEPT !.live = FALSE]
<1>2. /\ v \in PreviewRecord /\ v.kind = previews[p].kind
      /\ v.prev = previews[p].prev /\ v.block = previews[p].block
  BY <1>1 DEF PreviewRecord
<1>3. previews' = [previews EXCEPT ![p] = v]
  OBVIOUS
<1> HIDE DEF v
<1>a. previews' \in Seq(PreviewRecord)
  <2>1. \A x \in PreviewRecord : [previews EXCEPT ![p] = x] \in Seq(PreviewRecord)
    BY <1>1
  <2> QED BY <1>2, <1>3, <2>1
<1>b. Len(previews') = Len(previews) /\ previews'[p] = v
      /\ \A q \in 1 .. Len(previews) : q # p => previews'[q] = previews[q]
  BY <1>1, <1>3
<1>4. /\ previews' \in Seq(PreviewRecord) /\ Len(previews') = Len(previews)
      /\ \A q \in 1 .. Len(previews) :
           /\ previews'[q].kind = previews[q].kind /\ previews'[q].prev = previews[q].prev
           /\ previews'[q].block = previews[q].block
  BY <1>2, <1>a, <1>b
<1>5. Grows
  BY <1>4 DEF Grows, PaperInv, Latest
<1>6. RowsInv'
  <2>1. \A m \in 1 .. Latest' :
       /\ marks'[m].block \in 1 .. MaxBlock /\ marks'[m].op <= Len(ops')
       /\ marks'[m].kind = IF marks'[m].op = 0 THEN "mark" ELSE ops'[marks'[m].op].kind
    BY DEF PaperInv, RowsInv, Latest
  <2>2. \A q \in 1 .. Len(previews') :
          previews'[q].kind \notin Moves => After(previews[q].prev, previews[q].block)'
    BY <1>4 DEF PaperInv, RowsInv, After, Latest
  <2>3. \A j \in 1 .. Len(ops') :
          /\ ops'[j].preview \in 1 .. Len(previews')
          /\ previews'[ops'[j].preview].kind = ops'[j].kind
          /\ ops'[j].valid => ops'[j].by # NoOne /\ ops'[j].status \in Unsettled
    BY <1>4 DEF PaperInv, RowsInv
  <2> QED BY <2>1, <2>2, <2>3 DEF RowsInv
<1>7. StoryInv'
  BY DEF PaperInv, StoryInv, Pending, SomePending, MarkStory, Latest
<1>8. BooksInv'
  BY DEF PaperInv, BooksInv, Done, Latest
<1> QED BY <1>4, <1>5, <1>6, <1>7, <1>8 DEF BookInv

\* An operation accepted: the only one pending, of the kind of its preview.
LEMMA AcceptedRows ==
  ASSUME PaperInv, NEW p \in 1 .. Len(previews), NEW k \in KeyValues,
         ~SomePending, ops' = Queued(previews[p].kind, p, k),
         IF previews[p].kind = "open" THEN lifecycle = "draft" /\ lifecycle' = "opening"
         ELSE /\ lifecycle \in {"active", "paused"}
              /\ lifecycle' = IF previews[p].kind \in Closes THEN "closing" ELSE lifecycle,
         UNCHANGED <<marks, ledger, previews>>
  PROVE  ops' \in Seq(OpRecord) /\ BookInv' /\ Grows
<1> USE LengthsNat
<1> DEFINE kind == previews[p].kind
           o == [kind |-> kind, preview |-> p, key |-> k, status |-> "queued",
                 by |-> NoOne, valid |-> FALSE, attempts |-> 0]
<1>a. previews[p] \in PreviewRecord /\ ops \in Seq(OpRecord)
  BY DEF PaperInv, Typed
<1>1. kind \in OpKinds /\ ops \in Seq(OpRecord)
  BY <1>a DEF PreviewRecord
<1>2. o \in OpRecord
  BY <1>1 DEF OpRecord, Statuses, PaperInv
<1>3. ops' = Append(ops, o)
  BY DEF Queued
<1>4. o.kind = kind /\ o.preview = p /\ o.status = "queued" /\ o.valid = FALSE
  OBVIOUS
<1> HIDE DEF o
<1>5. ops' \in Seq(OpRecord)
  BY <1>1, <1>2, <1>3
<1>6. Len(ops') = Len(ops) + 1 /\ ops'[Len(ops) + 1] = o
      /\ \A j \in 1 .. Len(ops) : ops'[j] = ops[j]
  BY <1>1, <1>3
<1>7. \A j \in 1 .. Len(ops) : ops[j].status = "succeeded"
  BY DEF SomePending, Pending
<1>8. \A j \in 1 .. Len(ops') : j \in 1 .. Len(ops) \/ j = Len(ops) + 1
  BY <1>6 DEF PaperInv
<1>9. Grows
  BY <1>6 DEF Grows, PaperInv, Latest
<1>10. RowsInv'
  <2>1. \A m \in 1 .. Latest' : /\ marks'[m].block \in 1 .. MaxBlock /\ marks'[m].op <= Len(ops')
                                /\ marks'[m].op \in Nat
    BY <1>6, MarkRefs DEF PaperInv, RowsInv, Latest
  <2>2. \A m \in 1 .. Latest' :
          marks'[m].kind = IF marks'[m].op = 0 THEN "mark" ELSE ops'[marks'[m].op].kind
    BY <2>1, <1>6, MarkRefs DEF PaperInv, RowsInv, Latest
  <2>3. \A q \in 1 .. Len(previews') :
          previews'[q].kind \notin Moves => After(previews[q].prev, previews[q].block)'
    BY DEF PaperInv, RowsInv, After, Latest
  <2>4. \A j \in 1 .. Len(ops') :
          /\ ops'[j].preview \in 1 .. Len(previews')
          /\ previews'[ops'[j].preview].kind = ops'[j].kind
          /\ ops'[j].valid => ops'[j].by # NoOne /\ ops'[j].status \in Unsettled
    BY <1>4, <1>6, <1>8 DEF PaperInv, RowsInv
  <2> QED BY <2>1, <2>2, <2>3, <2>4 DEF RowsInv
<1>11. StoryInv'
  <2>1. \A j \in 1 .. Len(ops') : Pending(j)' <=> j = Len(ops) + 1
    BY <1>4, <1>6, <1>7, <1>8 DEF Pending, PaperInv
  <2>2. MarkStory'
    BY DEF PaperInv, StoryInv, MarkStory, Latest
  <2>3. SomePending' /\ ops'[Len(ops) + 1].kind = kind /\ Len(ops) + 1 \in 1 .. Len(ops')
    BY <1>4, <1>6, <2>1 DEF SomePending, PaperInv
  <2>4. lifecycle' \in {"draft", "opening"} => marks' = <<>>
    BY <1>1 DEF PaperInv, StoryInv
  <2>5. lifecycle' \in {"active", "paused", "closing"} => marks' # <<>>
    BY <1>1 DEF PaperInv, StoryInv
  <2>6. /\ lifecycle' \notin {"draft", "closed"}
        /\ lifecycle' = "opening" <=> kind = "open"
        /\ lifecycle' = "closing" <=> kind \in Closes
    BY <1>1 DEF Closes
  <2> HIDE DEF kind
  <2> QED BY <2>1, <2>2, <2>3, <2>4, <2>5, <2>6 DEF StoryInv
<1>12. BooksInv'
  <2>1. \A j \in 1 .. Len(ops) : /\ Done(j)' <=> Done(j)
                                 /\ ops'[j].kind = ops[j].kind /\ j \in 1 .. Len(ops')
    BY <1>6 DEF Done, PaperInv
  <2>2. \A m \in 1 .. Latest : marks[m].op > 0 => marks[m].op \in 1 .. Len(ops)
    BY MarkRefs DEF PaperInv
  <2>3. \A j \in 1 .. Len(ops') : Done(j)' => j \in 1 .. Len(ops)
    <3>1. ops'[Len(ops) + 1].status # "succeeded"
      BY <1>4, <1>6
    <3> QED BY <1>8, <3>1 DEF Done
  <2> QED BY <2>1, <2>2, <2>3 DEF PaperInv, BooksInv, Latest
<1> QED BY <1>5, <1>9, <1>10, <1>11, <1>12 DEF BookInv

\* One mark is appended.
MarkAdded(r) == marks' = Append(marks, r)

\* A mark appended: what every later mark leaves of the others.
LEMMA MarksAppended ==
  ASSUME PaperInv, NEW r \in MarkRecord, MarkAdded(r)
  PROVE  /\ marks' \in Seq(MarkRecord) /\ Latest' = Latest + 1 /\ marks'[Latest + 1] = r
         /\ \A m \in 1 .. Latest : marks'[m] = marks[m]
         /\ \A m \in 1 .. Latest' : m \in 1 .. Latest \/ m = Latest + 1
BY LengthsNat DEF PaperInv, Typed, Latest, MarkAdded

\* An observation: later than the latest mark of an active or paused campaign.
LEMMA ObservedRows ==
  ASSUME PaperInv, NEW r \in MarkRecord, MarkAdded(r), r.kind = "mark", r.op = 0,
         r.block \in 1 .. MaxBlock, lifecycle \in {"active", "paused"},
         marks[Latest].block < r.block,
         UNCHANGED <<lifecycle, ledger, previews, ops>>
  PROVE  marks' \in Seq(MarkRecord) /\ BookInv' /\ Grows
<1> USE LengthsNat
<1>1. /\ marks' \in Seq(MarkRecord) /\ Latest' = Latest + 1 /\ marks'[Latest + 1] = r
      /\ \A m \in 1 .. Latest : marks'[m] = marks[m]
      /\ \A m \in 1 .. Latest' : m \in 1 .. Latest \/ m = Latest + 1
  BY MarksAppended
<1>2. Latest > 0 /\ Latest \in Nat
  BY DEF PaperInv, StoryInv, Latest, Typed
<1>3. Grows
  BY <1>1, <1>2 DEF Grows, PaperInv
<1>4. RowsInv'
  <2>1. \A m \in 1 .. Latest' :
       /\ marks'[m].block \in 1 .. MaxBlock /\ marks'[m].op <= Len(ops')
       /\ marks'[m].kind = IF marks'[m].op = 0 THEN "mark" ELSE ops'[marks'[m].op].kind
    <3> SUFFICES ASSUME NEW m \in 1 .. Latest'
                 PROVE  /\ marks'[m].block \in 1 .. MaxBlock /\ marks'[m].op <= Len(ops')
                        /\ marks'[m].kind = IF marks'[m].op = 0 THEN "mark"
                                            ELSE ops'[marks'[m].op].kind
      OBVIOUS
    <3>1. CASE m \in 1 .. Latest
      <4>1. marks'[m] = marks[m]
        BY <1>1, <3>1
      <4>2. /\ marks[m].block \in 1 .. MaxBlock /\ marks[m].op <= Len(ops)
            /\ marks[m].kind = IF marks[m].op = 0 THEN "mark" ELSE ops[marks[m].op].kind
        BY <3>1 DEF PaperInv, RowsInv
      <4> QED BY <4>1, <4>2
    <3>2. CASE m = Latest + 1
      BY <1>1, <3>2
    <3> QED BY <1>1, <3>1, <3>2
  <2>2. ASSUME NEW q \in 1 .. Len(previews'), previews'[q].kind \notin Moves
        PROVE  After(previews[q].prev, previews[q].block)'
    <3>1. previews[q] \in PreviewRecord /\ After(previews[q].prev, previews[q].block)
      BY <2>2 DEF PaperInv, RowsInv, Typed
    <3>2. previews[q].prev \in Nat
      BY <3>1 DEF PreviewRecord
    <3> QED BY <1>1, <1>2, <3>1, <3>2 DEF After
  <2>3. \A j \in 1 .. Len(ops') :
          /\ ops'[j].preview \in 1 .. Len(previews')
          /\ previews'[ops'[j].preview].kind = ops'[j].kind
          /\ ops'[j].valid => ops'[j].by # NoOne /\ ops'[j].status \in Unsettled
    BY DEF PaperInv, RowsInv
  <2> QED BY <2>1, <2>2, <2>3 DEF RowsInv
<1>5. StoryInv'
  <2>1. MarkStory'
    <3>1. MarkStory /\ \A m \in 1 .. Latest : marks[m].kind \notin Closes
      BY <1>2 DEF PaperInv, StoryInv, MarkStory
    <3>2. \A m \in 1 .. Latest' : /\ (m = 1) = (marks'[m].kind = "open")
                                  /\ marks'[m].kind \notin Closes
      BY <1>1, <1>2, <3>1 DEF MarkStory, Closes
    <3>3. \A m \in 1 .. Latest' : m > 1 => marks'[m].block > marks'[m - 1].block
      <4>1. \A m \in 1 .. Latest : m > 1 => marks'[m].block > marks'[m - 1].block
        <5>1. ASSUME NEW m \in 1 .. Latest, m > 1 PROVE m - 1 \in 1 .. Latest
          BY <1>2, <5>1
        <5> QED BY <1>1, <3>1, <5>1 DEF MarkStory
      <4>2. marks'[Latest + 1].block > marks'[Latest].block
        <5>1. marks'[Latest] = marks[Latest] /\ marks[Latest].block \in Nat
          <6>1. Latest \in 1 .. Latest
            BY <1>2
          <6> QED BY <1>1, <6>1 DEF PaperInv, RowsInv
        <5> QED BY <1>1, <5>1
      <4>3. ASSUME NEW m \in 1 .. Latest', m > 1 PROVE marks'[m].block > marks'[m - 1].block
        <5>1. CASE m \in 1 .. Latest
          BY <4>1, <4>3, <5>1
        <5>2. CASE m = Latest + 1
          <6>1. m - 1 = Latest
            BY <1>2, <5>2
          <6> QED BY <4>2, <5>2, <6>1
        <5> QED BY <1>1, <5>1, <5>2
      <4> QED BY <4>3
    <3> QED BY <3>2, <3>3, <1>1, <1>2 DEF MarkStory, Closes
  <2>2. marks' # <<>>
    BY <1>1, <1>2 DEF Latest
  <2> QED BY <2>1, <2>2 DEF PaperInv, StoryInv, Pending, SomePending
<1>6. BooksInv'
  <2>1. \A j : Done(j)' <=> Done(j)
    BY DEF Done
  <2>2. \A m \in 1 .. Latest' : marks'[m].op > 0 => m \in 1 .. Latest /\ marks'[m] = marks[m]
    BY <1>1
  <2>3. \A m \in 1 .. Latest : m \in 1 .. Latest' /\ marks'[m] = marks[m]
    BY <1>1, <1>2
  <2> QED BY <2>1, <2>2, <2>3 DEF PaperInv, BooksInv
<1> QED BY <1>1, <1>3, <1>4, <1>5, <1>6 DEF BookInv

\* One operation is set.
OpSet(i, o) == ops' = [ops EXCEPT ![i] = o]

\* The state of the operations after a completion: all succeeded, and only the
\* completed one is new among the done.
Settled(i) ==
  /\ ops' \in Seq(OpRecord) /\ Len(ops') = Len(ops)
  /\ \A j \in 1 .. Len(ops) :
       /\ ops'[j].kind = ops[j].kind /\ ops'[j].preview = ops[j].preview
       /\ ops'[j].status = "succeeded"
       /\ ops'[j].valid => ops'[j].by # NoOne /\ ops'[j].status \in Unsettled
       /\ Done(j)' <=> Done(j) \/ (j = i /\ ops[i].kind \notin Moves)
  /\ ~Done(i) /\ ~SomePending'

\* What the completion of the pending operation leaves of the operations.
LEMMA OpSettled ==
  ASSUME PaperInv, NEW i \in 1 .. Len(ops), NEW o \in OpRecord, OpSet(i, o),
         o.kind = ops[i].kind, o.preview = ops[i].preview,
         Pending(i), o.status = "succeeded", o.valid = FALSE
  PROVE  Settled(i)
<1>1. ops \in Seq(OpRecord) /\ Len(ops) \in Nat
  BY LengthsNat DEF PaperInv, Typed
<1>2. ops' \in Seq(OpRecord)
  BY <1>1 DEF OpSet
<1>3. Len(ops') = Len(ops) /\ ops'[i] = o /\ \A j \in 1 .. Len(ops) : j # i => ops'[j] = ops[j]
  BY <1>1 DEF OpSet
<1>4. \A j \in 1 .. Len(ops) : j # i => ops[j].status = "succeeded"
  BY DEF PaperInv, StoryInv, Pending
<1>5. \A j \in 1 .. Len(ops) :
              /\ ops'[j].kind = ops[j].kind /\ ops'[j].preview = ops[j].preview
              /\ ops'[j].status = "succeeded"
              /\ ops'[j].valid => ops'[j].by # NoOne /\ ops'[j].status \in Unsettled
  BY <1>3, <1>4 DEF PaperInv, RowsInv
<1>6. ~Done(i)
  BY DEF Done, Pending
<1>7. ASSUME NEW j \in 1 .. Len(ops)
      PROVE  Done(j)' <=> Done(j) \/ (j = i /\ ops[i].kind \notin Moves)
  <2>1. CASE j = i
    BY <1>5, <1>6, <2>1 DEF Done
  <2>2. CASE j # i
    BY <1>4, <1>5, <2>2 DEF Done
  <2> QED BY <2>1, <2>2
<1>8. ~SomePending'
  BY <1>3, <1>5 DEF SomePending, Pending
<1> QED BY <1>2, <1>3, <1>5, <1>6, <1>7, <1>8 DEF Settled

\* A pause or a resume completed.
LEMMA MovedRows ==
  ASSUME PaperInv, NEW i \in 1 .. Len(ops), NEW o \in OpRecord, OpSet(i, o),
         o.kind = ops[i].kind, o.preview = ops[i].preview,
         Pending(i), o.status = "succeeded", o.valid = FALSE, ops[i].kind \in Moves,
         lifecycle' \in {"active", "paused"}, UNCHANGED <<marks, ledger, previews>>
  PROVE  ops' \in Seq(OpRecord) /\ BookInv' /\ Grows
<1> USE LengthsNat
<1>1. /\ ops' \in Seq(OpRecord) /\ Len(ops') = Len(ops)
      /\ \A j \in 1 .. Len(ops) :
           /\ ops'[j].kind = ops[j].kind /\ ops'[j].preview = ops[j].preview
           /\ ops'[j].status = "succeeded"
           /\ ops'[j].valid => ops'[j].by # NoOne /\ ops'[j].status \in Unsettled
           /\ Done(j)' <=> Done(j)
      /\ ~SomePending'
  <2>1. Settled(i)
    BY OpSettled
  <2> QED BY <2>1 DEF Settled
<1>2. lifecycle \in {"active", "paused"}
  BY DEF PaperInv, Typed, StoryInv, Moves, Closes
<1>3. Grows
  BY <1>1 DEF Grows, PaperInv, Latest
<1>4. RowsInv'
  <2>1. \A m \in 1 .. Latest' : /\ marks'[m].block \in 1 .. MaxBlock /\ marks'[m].op <= Len(ops')
                                /\ marks'[m].op \in Nat
    BY <1>1, MarkRefs DEF PaperInv, RowsInv, Latest
  <2>2. \A m \in 1 .. Latest' :
          marks'[m].kind = IF marks'[m].op = 0 THEN "mark" ELSE ops'[marks'[m].op].kind
    BY <2>1, <1>1 DEF PaperInv, RowsInv, Latest
  <2>3. \A p \in 1 .. Len(previews') :
          previews'[p].kind \notin Moves => After(previews[p].prev, previews[p].block)'
    BY DEF PaperInv, RowsInv, After, Latest
  <2>4. \A j \in 1 .. Len(ops') :
          /\ ops'[j].preview \in 1 .. Len(previews')
          /\ previews'[ops'[j].preview].kind = ops'[j].kind
          /\ ops'[j].valid => ops'[j].by # NoOne /\ ops'[j].status \in Unsettled
    BY <1>1 DEF PaperInv, RowsInv
  <2> QED BY <2>1, <2>2, <2>3, <2>4 DEF RowsInv
<1>5. StoryInv'
  <2>1. MarkStory'
    BY <1>2 DEF PaperInv, StoryInv, MarkStory, Latest
  <2>2. \A j \in 1 .. Len(ops') : ~Pending(j)'
    BY <1>1 DEF Pending
  <2>3. marks' # <<>>
    BY <1>2 DEF PaperInv, StoryInv
  <2> QED BY <2>1, <2>2, <2>3 DEF StoryInv
<1>6. BooksInv'
  <2>1. \A m \in 1 .. Latest : marks[m].op > 0 => marks[m].op \in 1 .. Len(ops)
    BY MarkRefs DEF PaperInv
  <2>2. Latest' = Latest /\ Len(ops') = Len(ops)
        /\ \A j \in 1 .. Len(ops) : ops'[j].kind = ops[j].kind /\ (Done(j)' <=> Done(j))
    BY <1>1 DEF Latest
  <2>3. \A m \in 1 .. Latest' : marks[m].op > 0 =>
          ops'[marks[m].op].status = "succeeded" /\ ops'[marks[m].op].kind \notin Moves
    BY <2>1, <2>2, <1>1 DEF PaperInv, BooksInv, Done
  <2>4. \A m, n \in 1 .. Latest' : marks'[m].op > 0 /\ marks'[m].op = marks'[n].op => m = n
    BY <2>2 DEF PaperInv, BooksInv
  <2>5. \A j \in 1 .. Len(ops') : Done(j)' => /\ \E m \in 1 .. Latest' : marks'[m].op = j
                                             /\ <<ops'[j].kind, j>> \in ledger'
    BY <2>2 DEF PaperInv, BooksInv
  <2>6. \A e \in ledger' : \E j \in 1 .. Len(ops') : Done(j)' /\ e = <<ops'[j].kind, j>>
    BY <2>2 DEF PaperInv, BooksInv
  <2> QED BY <2>3, <2>4, <2>5, <2>6 DEF BooksInv, Done
<1> QED BY <1>1, <1>3, <1>4, <1>5, <1>6 DEF BookInv

\* An operation that moves capital completed: its mark and its ledger entry are
\* the first, and the mark the last of a story that it continues or ends.
LEMMA BookedRows ==
  ASSUME PaperInv, NEW i \in 1 .. Len(ops), NEW o \in OpRecord, OpSet(i, o),
         o.kind = ops[i].kind, o.preview = ops[i].preview,
         Pending(i), o.status = "succeeded", o.valid = FALSE, ops[i].kind \notin Moves,
         NEW r \in MarkRecord, MarkAdded(r), r.kind = ops[i].kind, r.op = i,
         r.block \in 1 .. MaxBlock,
         Latest > 0 => marks[Latest].block < r.block,
         Latest = 0 <=> ops[i].kind = "open", lifecycle # "closed",
         lifecycle' = IF ops[i].kind \in Closes THEN "closed" ELSE "active",
         ledger' = ledger \cup {<<ops[i].kind, i>>}, UNCHANGED previews
  PROVE  ops' \in Seq(OpRecord) /\ marks' \in Seq(MarkRecord) /\ BookInv' /\ Grows
<1> USE LengthsNat
<1>1. /\ ops' \in Seq(OpRecord) /\ Len(ops') = Len(ops)
      /\ \A j \in 1 .. Len(ops) :
           /\ ops'[j].kind = ops[j].kind /\ ops'[j].preview = ops[j].preview
           /\ ops'[j].status = "succeeded"
           /\ ops'[j].valid => ops'[j].by # NoOne /\ ops'[j].status \in Unsettled
           /\ Done(j)' <=> Done(j) \/ j = i
      /\ ~Done(i) /\ ~SomePending'
  <2>1. Settled(i)
    BY OpSettled
  <2> QED BY <2>1 DEF Settled
<1>2. /\ marks' \in Seq(MarkRecord) /\ Latest' = Latest + 1 /\ marks'[Latest + 1] = r
      /\ \A m \in 1 .. Latest : marks'[m] = marks[m]
      /\ \A m \in 1 .. Latest' : m \in 1 .. Latest \/ m = Latest + 1
  BY MarksAppended
<1>3. Latest \in Nat /\ Len(ops) \in Nat /\ \A m \in 1 .. Latest : m \in 1 .. Latest'
  BY <1>2 DEF PaperInv
<1>4. Grows
  BY <1>1, <1>2, <1>3 DEF Grows, PaperInv
<1>5. RowsInv'
  <2>1. ASSUME NEW m \in 1 .. Latest'
        PROVE  /\ marks'[m].block \in 1 .. MaxBlock /\ marks'[m].op <= Len(ops')
               /\ marks'[m].kind = IF marks'[m].op = 0 THEN "mark" ELSE ops'[marks'[m].op].kind
    <3>1. CASE m \in 1 .. Latest
      <4>1. marks'[m] = marks[m] /\ (marks[m].op > 0 => marks[m].op \in 1 .. Len(ops))
            /\ marks[m].op \in Nat
        BY <1>2, <3>1, MarkRefs DEF PaperInv
      <4>2. /\ marks[m].block \in 1 .. MaxBlock /\ marks[m].op <= Len(ops)
            /\ marks[m].kind = IF marks[m].op = 0 THEN "mark" ELSE ops[marks[m].op].kind
        BY <3>1 DEF PaperInv, RowsInv
      <4>3. marks[m].op # 0 => ops'[marks[m].op].kind = ops[marks[m].op].kind
        BY <1>1, <4>1
      <4>4. Len(ops') = Len(ops)
        BY <1>1
      <4> QED BY <4>1, <4>2, <4>3, <4>4
    <3>2. CASE m = Latest + 1
      BY <1>1, <1>2, <1>3, <3>2
    <3> QED BY <1>2, <3>1, <3>2
  <2>2. ASSUME NEW q \in 1 .. Len(previews'), previews'[q].kind \notin Moves
        PROVE  After(previews[q].prev, previews[q].block)'
    <3>1. previews[q] \in PreviewRecord /\ After(previews[q].prev, previews[q].block)
      BY <2>2 DEF PaperInv, RowsInv, Typed
    <3>2. previews[q].prev \in Nat
      BY <3>1 DEF PreviewRecord
    <3> QED BY <1>2, <1>3, <3>1, <3>2 DEF After
  <2>3. \A j \in 1 .. Len(ops') :
          /\ ops'[j].preview \in 1 .. Len(previews')
          /\ previews'[ops'[j].preview].kind = ops'[j].kind
          /\ ops'[j].valid => ops'[j].by # NoOne /\ ops'[j].status \in Unsettled
    <3> SUFFICES ASSUME NEW j \in 1 .. Len(ops')
                 PROVE  /\ ops'[j].preview \in 1 .. Len(previews')
                        /\ previews'[ops'[j].preview].kind = ops'[j].kind
                        /\ ops'[j].valid => ops'[j].by # NoOne /\ ops'[j].status \in Unsettled
      OBVIOUS
    <3>1. j \in 1 .. Len(ops)
      BY <1>1
    <3>2. ops[j].preview \in 1 .. Len(previews) /\ previews[ops[j].preview].kind = ops[j].kind
      BY <3>1 DEF PaperInv, RowsInv
    <3>3. /\ ops'[j].kind = ops[j].kind /\ ops'[j].preview = ops[j].preview
          /\ ops'[j].valid => ops'[j].by # NoOne /\ ops'[j].status \in Unsettled
      BY <1>1, <3>1
    <3> QED BY <3>2, <3>3
  <2> QED BY <2>1, <2>2, <2>3 DEF RowsInv
<1>6. MarkStory'
  <2>1. MarkStory /\ \A m \in 1 .. Latest : marks[m].kind \notin Closes
    BY <1>3 DEF PaperInv, StoryInv, MarkStory
  <2>2. ASSUME NEW m \in 1 .. Latest'
        PROVE  /\ (m = 1) = (marks'[m].kind = "open")
               /\ marks'[m].kind \in Closes => m = Latest'
               /\ m > 1 => marks'[m].block > marks'[m - 1].block
    <3>1. CASE m \in 1 .. Latest
      <4>1. m > 1 => m - 1 \in 1 .. Latest
        BY <3>1, <1>3
      <4>2. marks'[m] = marks[m]
        BY <1>2, <3>1
      <4>3. m > 1 => marks'[m - 1] = marks[m - 1]
        BY <1>2, <4>1
      <4>4. Latest' = Latest + 1 /\ m # Latest'
        BY <1>2, <1>3, <3>1
      <4>5. /\ (m = 1) = (marks[m].kind = "open")
            /\ marks[m].kind \notin Closes
            /\ m > 1 => marks[m].block > marks[m - 1].block
        BY <2>1, <3>1 DEF MarkStory
      <4> QED BY <4>2, <4>3, <4>5
    <3>2. CASE m = Latest + 1
      <4>1. (m = 1) = (marks'[m].kind = "open")
        BY <1>2, <1>3, <3>2
      <4>2. ASSUME m > 1 PROVE marks'[m].block > marks'[m - 1].block
        <5>1. m - 1 = Latest /\ Latest \in 1 .. Latest
          BY <1>3, <3>2, <4>2
        <5>2. marks'[Latest] = marks[Latest] /\ marks[Latest].block \in Nat
          BY <1>2, <5>1 DEF PaperInv, RowsInv
        <5>3. marks[Latest].block < r.block /\ r.block \in Nat
          BY <5>1
        <5> QED BY <1>2, <3>2, <5>1, <5>2, <5>3
      <4> QED BY <1>2, <3>2, <4>1, <4>2
    <3> QED BY <1>2, <3>1, <3>2
  <2>3. Latest' \in 1 .. Latest' /\ ((lifecycle' = "closed") = (marks'[Latest'].kind \in Closes))
    BY <1>2, <1>3
  <2> QED BY <2>2, <2>3 DEF MarkStory
<1>7. StoryInv'
  <2>1. \A j \in 1 .. Len(ops') : ~Pending(j)'
    BY <1>1 DEF Pending
  <2>2. marks' # <<>>
    BY <1>2, <1>3 DEF Latest
  <2> QED BY <1>6, <2>1, <2>2 DEF StoryInv
<1>8. BooksInv'
  <2>1. \A m \in 1 .. Latest : marks[m].op > 0 => marks[m].op \in 1 .. Len(ops)
                                                 /\ marks[m].op # i
    BY <1>1, MarkRefs DEF PaperInv, BooksInv
  <2>a. BooksInv
    BY DEF PaperInv
  <2>2. ASSUME NEW m \in 1 .. Latest', marks'[m].op > 0
        PROVE  ops'[marks'[m].op].status = "succeeded" /\ ops'[marks'[m].op].kind \notin Moves
    <3>1. CASE m \in 1 .. Latest
      <4>1. marks'[m].op = marks[m].op /\ Done(marks[m].op) /\ marks[m].op \in 1 .. Len(ops)
        BY <1>2, <2>1, <2>2, <2>a, <3>1 DEF BooksInv
      <4>2. PICK j \in 1 .. Len(ops) : j = marks'[m].op /\ Done(j)
        BY <4>1
      <4>3. Done(j)'
        BY <1>1, <4>2
      <4> QED BY <4>2, <4>3 DEF Done
    <3>2. CASE m = Latest + 1
      <4>1. Done(i)' /\ marks'[m].op = i
        BY <1>1, <1>2, <3>2
      <4> QED BY <4>1 DEF Done
    <3> QED BY <1>2, <3>1, <3>2
  <2>3. ASSUME NEW m \in 1 .. Latest', NEW n \in 1 .. Latest',
               marks'[m].op > 0, marks'[m].op = marks'[n].op
        PROVE  m = n
    <3>1. CASE m \in 1 .. Latest /\ n \in 1 .. Latest
      BY <1>2, <2>3, <2>a, <3>1 DEF BooksInv
    <3>2. CASE m = Latest + 1 \/ n = Latest + 1
      <4>1. \A l \in 1 .. Latest : marks'[l].op > 0 => marks'[l].op # i
        BY <1>2, <2>1
      <4>2. marks'[m].op = i /\ marks'[n].op = i
        BY <1>2, <2>3, <3>2
      <4> QED BY <1>2, <2>3, <4>1, <4>2
    <3> QED BY <1>2, <3>1, <3>2
  <2>4. ASSUME NEW j \in 1 .. Len(ops'), Done(j)'
        PROVE  /\ \E m \in 1 .. Latest' : marks'[m].op = j
               /\ <<ops'[j].kind, j>> \in ledger'
    <3>1. CASE j = i
      BY <1>1, <1>2, <1>3, <3>1
    <3>2. CASE j # i
      <4>1. Done(j) /\ j \in 1 .. Len(ops)
        BY <1>1, <2>4, <3>2
      <4>2. <<ops[j].kind, j>> \in ledger /\ \E m \in 1 .. Latest : marks[m].op = j
        BY <2>a, <4>1 DEF BooksInv
      <4> QED BY <1>1, <1>2, <1>3, <4>1, <4>2
    <3> QED BY <3>1, <3>2
  <2>5. ASSUME NEW e \in ledger'
        PROVE  \E j \in 1 .. Len(ops') : Done(j)' /\ e = <<ops'[j].kind, j>>
    <3>1. PICK j \in 1 .. Len(ops) : (Done(j) \/ j = i) /\ e = <<ops[j].kind, j>>
      BY <2>5, <2>a DEF BooksInv
    <3>2. j \in 1 .. Len(ops') /\ Done(j)' /\ e = <<ops'[j].kind, j>>
      BY <1>1, <3>1
    <3> QED BY <3>2
  <2> QED BY <2>2, <2>3, <2>4, <2>5 DEF BooksInv, Done
<1> QED BY <1>1, <1>2, <1>4, <1>5, <1>7, <1>8 DEF BookInv

-----------------------------------------------------------------------------
(* The steps.                                                               *)

\* A step of one worker: what others carry is kept.
LEMMA WorkerStep ==
  ASSUME PaperInv, BookInv', Grows, UNCHANGED <<chain, reorgs, srv>>,
         lifecycle' \in {"draft", "opening", "active", "paused", "closing", "closed"},
         marks' \in Seq(MarkRecord), previews' \in Seq(PreviewRecord), ops' \in Seq(OpRecord),
         fee' \subseteq (1 .. Latest') \X (1 .. Latest'),
         acct' \subseteq {"v1", "v2", "v3", "rk"} \X (1 .. Latest'), invalid' \subseteq acct',
         exclusive' \in Owners, shared' \subseteq Workers, pass' \in Workers \cup {NoOne},
         NEW w \in Workers, NEW x \in WorkerRecord, worker' = [worker EXCEPT ![w] = x],
         \A y \in Workers \ {w} : pass' = y <=> pass = y,
         fee' = fee \/ Static \/ pass = w, Holds(x, w)'
  PROVE  PaperInv'
<1>1. worker' \in [Workers -> WorkerRecord] /\ worker'[w] = x
      /\ \A y \in Workers \ {w} : worker'[y] = worker[y]
  BY DEF PaperInv, Typed
<1>2. Typed'
  BY <1>1 DEF PaperInv, Typed
<1>3. Carries(w)'
  BY <1>1 DEF Carries, Holds, After
<1>4. ServerInv'
  BY <1>2, ServerKept
<1>5. WorkersInv'
  BY <1>1, <1>2, <1>3, OthersKept
<1> QED BY <1>2, <1>4, <1>5 DEF PaperInv, BookInv

\* A step of one worker that writes no row.
LEMMA QuietWorkerStep ==
  ASSUME PaperInv, UNCHANGED <<chain, reorgs, srv, lifecycle, marks, ledger, fee, acct,
                               invalid, previews, ops>>,
         exclusive' \in Owners, shared' \subseteq Workers, pass' \in Workers \cup {NoOne},
         NEW w \in Workers, NEW x \in WorkerRecord, worker' = [worker EXCEPT ![w] = x],
         \A y \in Workers \ {w} : pass' = y <=> pass = y, Holds(x, w)'
  PROVE  PaperInv'
<1>1. BookInv' /\ Grows
  BY QuietRows
<1>2. /\ lifecycle' \in {"draft", "opening", "active", "paused", "closing", "closed"}
      /\ marks' \in Seq(MarkRecord) /\ previews' \in Seq(PreviewRecord) /\ ops' \in Seq(OpRecord)
  BY DEF PaperInv, Typed
<1>3. /\ fee' \subseteq (1 .. Latest') \X (1 .. Latest')
      /\ acct' \subseteq {"v1", "v2", "v3", "rk"} \X (1 .. Latest') /\ invalid' \subseteq acct'
  BY DEF PaperInv, Typed, Latest
<1> QED BY <1>1, <1>2, <1>3, WorkerStep

\* A worker without an operation or a pass carries nothing.
LEMMA IdleHolds ==
  ASSUME NEW w, NEW x, x \in {IdleWorker, [IdleWorker EXCEPT !.pc = "down"]}, pass' # w
  PROVE  Holds(x, w)'
BY DEF Holds, IdleWorker, PassPcs, OpPcs

\* A pass ends and drops its locks (EndPass).
LEMMA EndPassKept ==
  ASSUME PaperInv, NEW w \in Workers, pass = w, EndPass(w)
  PROVE  PaperInv'
<1> USE Bounds, IdleTyped
<1>1. pass' = NoOne /\ exclusive' \in Owners /\ shared' \subseteq Workers
  BY DEF EndPass, PaperInv, Typed, Owners
<1>2. worker' = [worker EXCEPT ![w] = IdleWorker]
      /\ UNCHANGED <<chain, reorgs, srv, lifecycle, marks, ledger, fee, acct, invalid, previews, ops>>
  BY DEF EndPass, Settle, chainVars, bookVars, opVars
<1>3. Holds(IdleWorker, w)'
  BY <1>1, IdleHolds
<1> QED BY <1>1, <1>2, <1>3, QuietWorkerStep

\* A worker walks away from its operation (Drop).
LEMMA DropKept ==
  ASSUME PaperInv, NEW w \in Workers, pass # w, Drop(w)
  PROVE  PaperInv'
<1> USE Bounds, IdleTyped
<1>1. pass' = pass /\ pass' \in Workers \cup {NoOne} /\ exclusive' \in Owners /\ shared' \subseteq Workers
  BY DEF Drop, PaperInv, Typed, Owners, leaseVars
<1>2. worker' = [worker EXCEPT ![w] = IdleWorker]
      /\ UNCHANGED <<chain, reorgs, srv, lifecycle, marks, ledger, fee, acct, invalid, previews, ops>>
  BY DEF Drop, Settle, chainVars, bookVars, opVars
<1>3. Holds(IdleWorker, w)'
  BY <1>1, IdleHolds
<1> QED BY <1>1, <1>2, <1>3, QuietWorkerStep

\* A step of one worker on one operation that is not yet booked.
LEMMA TouchedStep ==
  ASSUME PaperInv, NEW i \in 1 .. Len(ops), NEW o \in OpRecord, OpSet(i, o),
         o.kind = ops[i].kind, o.preview = ops[i].preview,
         ops[i].status # "succeeded", o.status # "succeeded",
         o.valid => o.by # NoOne /\ o.status \in Unsettled,
         UNCHANGED <<chain, reorgs, srv, lifecycle, marks, ledger, fee, acct, invalid,
                     previews, exclusive, shared, pass>>,
         NEW w \in Workers, NEW x \in WorkerRecord, worker' = [worker EXCEPT ![w] = x],
         Holds(x, w)'
  PROVE  PaperInv'
<1>1. ops' \in Seq(OpRecord) /\ BookInv' /\ Grows
  <2>1. ops' = [ops EXCEPT ![i] = o]
    BY DEF OpSet
  <2> QED BY <2>1, TouchedRows
<1>2. /\ lifecycle' \in {"draft", "opening", "active", "paused", "closing", "closed"}
      /\ marks' \in Seq(MarkRecord) /\ previews' \in Seq(PreviewRecord)
      /\ exclusive' \in Owners /\ shared' \subseteq Workers /\ pass' \in Workers \cup {NoOne}
  BY DEF PaperInv, Typed
<1>3. /\ fee' \subseteq (1 .. Latest') \X (1 .. Latest')
      /\ acct' \subseteq {"v1", "v2", "v3", "rk"} \X (1 .. Latest') /\ invalid' \subseteq acct'
  BY DEF PaperInv, Typed, Latest
<1> QED BY <1>1, <1>2, <1>3, WorkerStep

\* The row of an operation and of its preview.
LEMMA OpTyped ==
  ASSUME PaperInv, NEW i \in 1 .. Len(ops)
  PROVE  /\ ops[i] \in OpRecord /\ ops[i].status \in Statuses /\ ops[i].attempts \in Nat
         /\ ops[i].by \in Workers \cup {NoOne} /\ ops[i].kind \in OpKinds
         /\ ops[i].valid \in BOOLEAN
         /\ previews[ops[i].preview] \in PreviewRecord
         /\ previews[ops[i].preview].kind = ops[i].kind
         /\ ops[i].preview \in 1 .. Len(previews)
<1>1. ops[i] \in OpRecord
  BY DEF PaperInv, Typed
<1>2. ops[i].preview \in 1 .. Len(previews) /\ previews[ops[i].preview].kind = ops[i].kind
  BY DEF PaperInv, RowsInv
<1>3. previews[ops[i].preview] \in PreviewRecord
  BY <1>2 DEF PaperInv, Typed
<1> QED BY <1>1, <1>2, <1>3 DEF OpRecord

\* A worker claims an operation (claimNextPaperOperation).
LEMMA ClaimKept ==
  ASSUME PaperInv, NEW w \in Workers, NEW i \in 1 .. Len(ops), Claim(w, i)
  PROVE  PaperInv'
<1> DEFINE x == [IdleWorker EXCEPT !.pc = "claimed", !.op = i]
<1>1. i \in Nat
  BY LengthsNat DEF PaperInv
<1>2. x \in WorkerRecord /\ x.pc = "claimed" /\ x.op = i
  BY <1>1, IdleTyped DEF IdleWorker, WorkerRecord, OpPcs
<1>3. worker' = [worker EXCEPT ![w] = x] /\ worker[w].pc = "idle"
      /\ UNCHANGED <<chain, reorgs, srv, lifecycle, marks, ledger, fee, acct, invalid,
                     previews, exclusive, shared, pass>>
  BY DEF Claim, chainVars, bookVars, leaseVars
<1> HIDE DEF x
<1>4. pass # w
  BY <1>3 DEF PaperInv, WorkersInv, Carries, Holds, PassPcs
<1> DEFINE o == Claimed(ops[i], w)
<1>5. OpSet(i, o)
  BY DEF Claim, OpSet
<1>6. ops[i] \in OpRecord /\ ops[i].status \in {"queued"} \cup Unsettled /\ ops[i].attempts \in Nat
  BY OpTyped DEF Claim, Unsettled
<1>7. /\ o.kind = ops[i].kind /\ o.preview = ops[i].preview /\ o.by = w /\ o.valid = TRUE
      /\ o.status \in Unsettled
  BY <1>6 DEF OpRecord, Unsettled, Claimed
<1>8. o \in OpRecord
  <2>1. PICK s \in Statuses : s = IF ops[i].status = "queued" THEN "preflighting"
                                                             ELSE ops[i].status
    BY <1>6 DEF Unsettled, Statuses
  <2>2. ops[i].attempts + 1 \in Nat
    BY <1>6
  <2>3. \A n \in Nat : [ops[i] EXCEPT !.by = w, !.valid = TRUE, !.attempts = n, !.status = s]
                        \in OpRecord
    BY <1>6 DEF OpRecord
  <2>4. o = [ops[i] EXCEPT !.by = w, !.valid = TRUE, !.attempts = ops[i].attempts + 1,
                           !.status = s]
    BY <1>6, <2>1 DEF OpRecord, Claimed
  <2> QED BY <2>2, <2>3, <2>4
<1> HIDE DEF o
<1>9. Len(ops') = Len(ops)
  BY <1>5 DEF OpSet, PaperInv, Typed
<1>10. Holds(x, w)'
  BY <1>2, <1>3, <1>4, <1>9 DEF Holds, PassPcs, OpPcs
<1>11. ops[i].status # "succeeded" /\ o.status # "succeeded" /\ o.by # NoOne
  BY <1>6, <1>7, Bounds DEF Unsettled
<1> QED BY <1>2, <1>3, <1>5, <1>7, <1>8, <1>10, <1>11, TouchedStep

\* A claim given up: the operation blocked or left where it was.
LEMMA UnclaimedKept ==
  ASSUME PaperInv, NEW w \in Workers, NEW i \in 1 .. Len(ops), NEW s \in Statuses,
         ops[i].status # "succeeded", s # "succeeded", OpSet(i, Unclaimed(ops[i], s)),
         pass # w, Settle(w),
         UNCHANGED <<chain, reorgs, srv, lifecycle, marks, ledger, fee, acct, invalid,
                     previews, exclusive, shared, pass>>
  PROVE  PaperInv'
<1> USE Bounds, IdleTyped
<1> DEFINE o == Unclaimed(ops[i], s)
<1>1. ops[i] \in OpRecord
  BY OpTyped
<1>2. /\ o \in OpRecord /\ o.kind = ops[i].kind /\ o.preview = ops[i].preview
      /\ o.status = s /\ o.valid = FALSE
  BY <1>1 DEF Unclaimed, OpRecord
<1>3. worker' = [worker EXCEPT ![w] = IdleWorker]
  BY DEF Settle
<1>4. Holds(IdleWorker, w)'
  BY IdleHolds
<1> HIDE DEF o
<1>5. OpSet(i, o)
  BY DEF o
<1> QED BY <1>2, <1>3, <1>4, <1>5, TouchedStep

\* What a worker that holds a claim knows of its operation.
LEMMA OwnerFacts ==
  ASSUME PaperInv, NEW w \in Workers, worker[w].pc \in OpPcs
  PROVE  /\ pass # w /\ worker[w].op \in 1 .. Len(ops) /\ worker[w] \in WorkerRecord
         /\ Owns(w) => /\ ops[worker[w].op].status \in Unsettled
                       /\ ops[worker[w].op].status # "succeeded"
<1>1. pass # w /\ worker[w].op \in 1 .. Len(ops)
  BY DEF PaperInv, WorkersInv, Carries, Holds, OpPcs, PassPcs
<1>2. worker[w] \in WorkerRecord
  BY DEF PaperInv, Typed
<1>3. Owns(w) => ops[worker[w].op].status \in Unsettled
  BY <1>1 DEF Owns, PaperInv, RowsInv
<1> QED BY <1>1, <1>2, <1>3 DEF Unsettled

\* The owner of a live claim blocks its operation (Block).
LEMMA BlockKept ==
  ASSUME PaperInv, NEW w \in Workers, worker[w].pc \in OpPcs, Block(w)
  PROVE  PaperInv'
<1> DEFINE i == worker[w].op
<1>1. pass # w /\ i \in 1 .. Len(ops)
      /\ (Owns(w) => ops[i].status # "succeeded")
  BY OwnerFacts
<1>2. Settle(w) /\ UNCHANGED <<chain, reorgs, srv, lifecycle, marks, ledger, fee, acct, invalid,
                               previews, exclusive, shared, pass>>
  BY DEF Block, chainVars, bookVars, leaseVars
<1>3. CASE ~worker[w].lost /\ Owns(w)
  <2>1. OpSet(i, Unclaimed(ops[i], "blocked"))
    BY <1>1, <1>3 DEF Block, OpSet
  <2>2. "blocked" \in Statuses
    BY DEF Statuses
  <2> QED BY <1>1, <1>2, <1>3, <2>1, <2>2, UnclaimedKept
<1>4. CASE ~(~worker[w].lost /\ Owns(w))
  <2>1. Drop(w)
    BY <1>2, <1>4 DEF Block, Drop, chainVars, bookVars, opVars, leaseVars
  <2> QED BY <1>1, <2>1, DropKept
<1> QED BY <1>3, <1>4

\* A worker's step on its operation that writes no row and keeps its claim.
LEMMA OpMoveKept ==
  ASSUME PaperInv, NEW w \in Workers, worker[w].pc \in OpPcs, NEW x \in WorkerRecord,
         worker' = [worker EXCEPT ![w] = x], x.pc \in OpPcs, x.op = worker[w].op,
         UNCHANGED <<chain, reorgs, srv, lifecycle, marks, ledger, fee, acct, invalid,
                     previews, ops, exclusive, shared, pass>>
  PROVE  PaperInv'
<1>1. pass # w /\ x.op \in 1 .. Len(ops)
  BY OwnerFacts
<1>2. exclusive' \in Owners /\ shared' \subseteq Workers /\ pass' \in Workers \cup {NoOne}
  BY DEF PaperInv, Typed
<1>3. Holds(x, w)'
  BY <1>1 DEF Holds, OpPcs, PassPcs
<1> QED BY <1>2, <1>3, QuietWorkerStep

\* One field of a worker's record.
LEMMA WorkerFields ==
  ASSUME NEW t \in WorkerRecord, NEW pc \in {"idle", "down"} \cup OpPcs \cup PassPcs
  PROVE  LET x == [t EXCEPT !.pc = pc]
         IN /\ x \in WorkerRecord /\ x.pc = pc /\ x.op = t.op /\ x.from = t.from /\ x.to = t.to
            /\ x.prev = t.prev /\ x.block = t.block /\ x.fork = t.fork
BY DEF WorkerRecord

\* The checks before an operation runs (Preflight).
LEMMA PreflightKept ==
  ASSUME PaperInv, NEW w \in Workers, Preflight(w)
  PROVE  PaperInv'
<1>1. worker[w].pc \in OpPcs /\ pass # w /\ worker[w] \in WorkerRecord
  BY OwnerFacts DEF Preflight, OpPcs
<1>2. CASE Block(w)
  BY <1>1, <1>2, BlockKept
<1>3. CASE Drop(w)
  BY <1>1, <1>3, DropKept
<1>4. CASE /\ worker' = [worker EXCEPT ![w].pc = "checked"]
           /\ UNCHANGED <<chainVars, bookVars, opVars, leaseVars, srv, pass, faults>>
  <2> DEFINE x == [worker[w] EXCEPT !.pc = "checked"]
  <2>1. x \in WorkerRecord /\ x.pc = "checked" /\ x.op = worker[w].op
    BY <1>1, WorkerFields DEF OpPcs
  <2>2. worker' = [worker EXCEPT ![w] = x]
    BY <1>4
  <2> HIDE DEF x
  <2>3. UNCHANGED <<chain, reorgs, srv, lifecycle, marks, ledger, fee, acct, invalid,
                     previews, ops, exclusive, shared, pass>>
    BY <1>4 DEF chainVars, bookVars, opVars, leaseVars
  <2> QED BY <1>1, <2>1, <2>2, <2>3, OpMoveKept DEF OpPcs
<1> QED BY <1>2, <1>3, <1>4 DEF Preflight

\* advanceClaim persists the next status (Advance).
LEMMA AdvanceKept ==
  ASSUME PaperInv, NEW w \in Workers, Advance(w)
  PROVE  PaperInv'
<1> DEFINE i == worker[w].op
           s == ops[i].status
           moves == s \in {"preflighting", "executing"}
           next == IF s = "preflighting" THEN "executing" ELSE "reconciling"
           pc == IF s = "preflighting" THEN "checked" ELSE "ready"
           x == [worker[w] EXCEPT !.pc = pc]
<1>1. worker[w].pc \in OpPcs /\ pass # w /\ worker[w] \in WorkerRecord /\ i \in 1 .. Len(ops)
  BY OwnerFacts DEF Advance, OpPcs
<1>2. CASE Block(w)
  BY <1>1, <1>2, BlockKept
<1>3. CASE Drop(w)
  BY <1>1, <1>3, DropKept
<1>4. CASE /\ ~(moves /\ ~Owns(w))
           /\ ops' = IF moves THEN [ops EXCEPT ![i].status = next] ELSE ops
           /\ worker' = [worker EXCEPT ![w].pc = pc]
           /\ UNCHANGED <<chainVars, bookVars, previews, leaseVars, srv, pass, faults>>
  <2>1. x \in WorkerRecord /\ x.pc = pc /\ x.op = i
    <3>1. pc \in OpPcs
      BY DEF OpPcs
    <3> HIDE DEF pc
    <3> QED BY <1>1, <3>1, WorkerFields
  <2>2. worker' = [worker EXCEPT ![w] = x]
    BY <1>4
  <2>3. UNCHANGED <<chain, reorgs, srv, lifecycle, marks, ledger, fee, acct, invalid,
                     previews, exclusive, shared, pass>>
    BY <1>4 DEF chainVars, bookVars, leaseVars
  <2>4. pc \in OpPcs
    BY DEF OpPcs
  <2> HIDE DEF x, pc
  <2>5. CASE ~moves
    <3>1. ops' = ops
      BY <1>4, <2>5
    <3> QED BY <1>1, <2>1, <2>2, <2>3, <2>4, <3>1, OpMoveKept
  <2>6. CASE moves
    <3> DEFINE o == [ops[i] EXCEPT !.status = next]
    <3>1. ops[i] \in OpRecord
      BY <1>1, OpTyped
    <3>2. /\ o \in OpRecord /\ o.kind = ops[i].kind /\ o.preview = ops[i].preview
          /\ o.status \in Unsettled /\ o.by = ops[i].by
      BY <3>1 DEF OpRecord, Statuses, Unsettled
    <3>3. OpSet(i, o)
      BY <1>4, <2>6 DEF OpSet
    <3>4. Owns(w) /\ ops[i].valid /\ ops[i].status # "succeeded"
      BY <1>4, <2>6 DEF Owns
    <3>5. ops[i].by # NoOne
      BY <1>1, <3>4 DEF PaperInv, RowsInv
    <3> HIDE DEF o
    <3>6. Len(ops') = Len(ops)
      BY <3>3 DEF OpSet, PaperInv, Typed
    <3> PICK y \in WorkerRecord : y = x
      BY <2>1
    <3>7. Holds(y, w)' /\ worker' = [worker EXCEPT ![w] = y]
      BY <1>1, <2>1, <2>2, <2>3, <2>4, <3>6 DEF Holds, OpPcs, PassPcs
    <3>8. o.status # "succeeded"
      BY <3>2 DEF Unsettled
    <3> QED BY <1>1, <2>3, <3>2, <3>3, <3>4, <3>5, <3>7, <3>8, TouchedStep
  <2> QED BY <2>5, <2>6
<1> QED BY <1>2, <1>3, <1>4 DEF Advance

\* A worker learns that its claim lapsed (LoseRenewal).
LEMMA LoseRenewalKept ==
  ASSUME PaperInv, NEW w \in Workers, LoseRenewal(w)
  PROVE  PaperInv'
<1> DEFINE x == [worker[w] EXCEPT !.lost = TRUE]
<1>1. worker[w].pc \in OpPcs /\ worker[w] \in WorkerRecord
  BY OwnerFacts DEF LoseRenewal
<1>2. x \in WorkerRecord /\ x.pc = worker[w].pc /\ x.op = worker[w].op
  BY <1>1 DEF WorkerRecord
<1>3. worker' = [worker EXCEPT ![w] = x]
      /\ UNCHANGED <<chain, reorgs, srv, lifecycle, marks, ledger, fee, acct, invalid,
                     previews, ops, exclusive, shared, pass>>
  BY DEF LoseRenewal, chainVars, bookVars, opVars, leaseVars
<1> HIDE DEF x
<1> QED BY <1>1, <1>2, <1>3, OpMoveKept

\* A claim that lapses, by itself or under a stalled owner.
LEMMA LapsedKept ==
  ASSUME PaperInv, NEW i \in 1 .. Len(ops), ops[i].valid,
         ops' = [ops EXCEPT ![i].valid = FALSE],
         UNCHANGED <<chain, reorgs, lifecycle, marks, ledger, fee, acct, invalid, previews,
                     exclusive, shared, srv, worker, pass>>
  PROVE  PaperInv'
<1> DEFINE o == [ops[i] EXCEPT !.valid = FALSE]
<1>1. ops[i] \in OpRecord /\ ops[i].status \in Unsettled
  BY OpTyped DEF PaperInv, RowsInv
<1>2. /\ o \in OpRecord /\ o.kind = ops[i].kind /\ o.preview = ops[i].preview
      /\ o.status = ops[i].status /\ o.valid = FALSE
  BY <1>1 DEF OpRecord
<1>3. ops' = [ops EXCEPT ![i] = o]
  OBVIOUS
<1>4. ops[i].status # "succeeded"
  BY <1>1 DEF Unsettled
<1> HIDE DEF o
<1>5. ops' \in Seq(OpRecord) /\ BookInv' /\ Grows
  BY <1>2, <1>3, <1>4, TouchedRows
<1>6. Typed'
  BY <1>5 DEF PaperInv, Typed, Latest
<1>7. ServerInv' /\ WorkersInv'
  BY <1>5, <1>6, ServerKept, WorkersKept
<1> QED BY <1>5, <1>6, <1>7 DEF PaperInv, BookInv

\* What a completion found under the campaign's row lock.
LEMMA CompletionFacts ==
  ASSUME PaperInv, NEW i \in 1 .. Len(ops), CompletionFits(ops[i], previews[ops[i].preview])
  PROVE  /\ ops[i].kind = "open" => lifecycle = "opening" /\ Latest = 0
         /\ ops[i].kind \in Moves => lifecycle \in {"active", "paused"}
         /\ ops[i].kind \in Closes \cup {"change_range"} =>
              /\ previews[ops[i].preview].prev = Latest /\ Latest > 0
              /\ lifecycle = IF ops[i].kind \in Closes THEN "closing" ELSE "active"
<1>1. ops[i].kind \in {"open", "pause", "resume", "change_range", "close_retain", "close_convert"}
  BY OpTyped DEF OpKinds, Closes
<1>2. ops[i].kind = "open" => lifecycle = "opening" /\ marks = <<>>
  BY DEF CompletionFits, OpenCompletes, RangeKeeperOpenCompletes
<1>3. ops[i].kind \in {"pause", "resume"} => lifecycle \in {"active", "paused"}
  BY DEF CompletionFits, LifecycleCompletes
<1>4. ops[i].kind = "change_range" =>
        lifecycle = "active" /\ previews[ops[i].preview].prev = Latest
  BY DEF CompletionFits, RecenterCompletes
<1>5. ops[i].kind = "close_retain" =>
        lifecycle = "closing" /\ previews[ops[i].preview].prev = Latest
  BY DEF CompletionFits, RetainCompletes, RangeKeeperExitCompletes
<1>6. ops[i].kind = "close_convert" =>
        lifecycle = "closing" /\ previews[ops[i].preview].prev = Latest
  BY DEF CompletionFits, ConvertCompletes, ConvertFits, RangeKeeperConvertCompletes
<1>7. lifecycle \in {"active", "closing"} => Latest > 0
  BY LengthsNat DEF PaperInv, StoryInv, Typed, Latest
<1>8. marks = <<>> => Latest = 0
  BY DEF Latest
<1> QED BY <1>1, <1>2, <1>3, <1>4, <1>5, <1>6, <1>7, <1>8 DEF Closes, Moves

\* The completion transaction: mark, ledger, fee evidence, accounting, lifecycle
\* and operation change together (Book).
LEMMA BookKept ==
  ASSUME PaperInv, NEW w \in Workers, worker[w].pc \in OpPcs, Fenced(w),
         CompletionFits(ops[worker[w].op], previews[ops[worker[w].op].preview]), Book(w)
  PROVE  PaperInv'
<1> USE Bounds, IdleTyped
<1>0. PICK i \in 1 .. Len(ops) : i = worker[w].op
  BY OwnerFacts
<1> DEFINE v == previews[ops[i].preview]
           kind == ops[i].kind
           terminal == Static /\ kind = "close_convert"
           o == Unclaimed(ops[i], "succeeded")
           r == [kind |-> kind, block |-> v.block, fork |-> v.fork, op |-> i]
<1>1. pass # w /\ worker[w] \in WorkerRecord
  BY OwnerFacts
<1>2. ops[i] \in OpRecord /\ v \in PreviewRecord /\ kind \in OpKinds /\ v.kind = kind
      /\ Pending(i) /\ ops[i].preview \in 1 .. Len(previews) /\ i \in Nat
  BY <1>0, OpTyped, LengthsNat DEF Fenced, Pending, PaperInv
<1>3. CompletionFits(ops[i], previews[ops[i].preview])
  BY <1>0
<1>4. /\ kind = "open" => lifecycle = "opening" /\ Latest = 0
      /\ kind \in Moves => lifecycle \in {"active", "paused"}
      /\ kind \in Closes \cup {"change_range"} =>
              /\ v.prev = Latest /\ Latest > 0
              /\ lifecycle = IF kind \in Closes THEN "closing" ELSE "active"
  BY <1>3, CompletionFacts
<1>5. /\ lifecycle' = CASE kind \in {"open", "resume"} -> "active"
                       [] kind = "pause" -> "paused"
                       [] kind = "change_range" -> lifecycle
                       [] OTHER -> "closed"
      /\ marks' = IF kind \in Moves THEN marks ELSE Append(marks, r)
      /\ ledger' = IF kind \in Moves THEN ledger ELSE ledger \cup {<<kind, i>>}
      /\ fee' = IF terminal THEN fee \cup {<<v.prev, Latest + 1>>} ELSE fee
      /\ acct' = IF terminal THEN acct \cup {<<"v3", Latest + 1>>} ELSE acct
      /\ ops' = [ops EXCEPT ![i] = o]
  BY <1>0 DEF Book, Moves
<1>6. worker' = [worker EXCEPT ![w] = IdleWorker]
      /\ UNCHANGED <<chain, reorgs, srv, invalid, previews, exclusive, shared, pass>>
  BY DEF Book, Settle, chainVars, leaseVars
<1>7. /\ o \in OpRecord /\ o.kind = kind /\ o.preview = ops[i].preview
      /\ o.status = "succeeded" /\ o.valid = FALSE
  BY <1>2 DEF Unclaimed, OpRecord, Statuses
<1>8. OpSet(i, o)
  BY <1>5 DEF OpSet
<1>9. Holds(IdleWorker, w)'
  BY <1>1, <1>6, IdleHolds
<1> HIDE DEF o, v, r, kind
<1>10. CASE kind \in Moves
  <2>1. lifecycle' \in {"active", "paused"} /\ UNCHANGED <<marks, ledger, fee, acct>>
    BY <1>4, <1>5, <1>10 DEF Moves
  <2>2. ops' \in Seq(OpRecord) /\ BookInv' /\ Grows
    BY <1>2, <1>6, <1>7, <1>8, <1>10, <2>1, MovedRows DEF kind
  <2>3. marks' \in Seq(MarkRecord) /\ previews' \in Seq(PreviewRecord)
        /\ exclusive' \in Owners /\ shared' \subseteq Workers /\ pass' \in Workers \cup {NoOne}
    BY <1>6, <2>1 DEF PaperInv, Typed
  <2>4. /\ fee' \subseteq (1 .. Latest') \X (1 .. Latest')
        /\ acct' \subseteq {"v1", "v2", "v3", "rk"} \X (1 .. Latest') /\ invalid' \subseteq acct'
    BY <1>6, <2>1 DEF PaperInv, Typed, Latest
  <2> QED BY <1>6, <1>9, <2>1, <2>2, <2>3, <2>4, WorkerStep
<1>11. CASE kind \notin Moves
  <2>1. MarkAdded(r) /\ ledger' = ledger \cup {<<kind, i>>}
    BY <1>5, <1>11 DEF MarkAdded
  <2>2. /\ kind \in {"open", "change_range"} \cup Closes
        /\ kind = "open" <=> kind \notin Closes \cup {"change_range"}
    BY <1>2, <1>11 DEF OpKinds, Moves, Closes
  <2>3. lifecycle' = IF kind \in Closes THEN "closed" ELSE "active"
    BY <1>4, <1>5, <2>2 DEF Closes
  <2>4. v.block \in 1 .. MaxBlock /\ (v.prev > 0 => v.prev <= Latest /\ marks[v.prev].block < v.block)
    BY <1>2, <1>11 DEF PaperInv, RowsInv, After, v
  <2>5. Latest > 0 => marks[Latest].block < v.block
    BY <1>4, <2>2, <2>4
  <2>6. Latest = 0 <=> kind = "open"
    BY <1>4, <2>2
  <2>7. r \in MarkRecord /\ r.kind = kind /\ r.op = i /\ r.block = v.block
    BY <1>2, <2>4 DEF r, MarkRecord, PreviewRecord
  <2>8. lifecycle # "closed"
    BY <1>4, <2>2
  <2>9. ops' \in Seq(OpRecord) /\ marks' \in Seq(MarkRecord) /\ BookInv' /\ Grows
    BY <1>2, <1>6, <1>7, <1>8, <1>11, <2>1, <2>3, <2>4, <2>5, <2>6, <2>7, <2>8, BookedRows DEF kind
  <2>10. /\ previews' \in Seq(PreviewRecord) /\ exclusive' \in Owners
         /\ shared' \subseteq Workers /\ pass' \in Workers \cup {NoOne}
         /\ lifecycle' \in {"draft", "opening", "active", "paused", "closing", "closed"}
    BY <1>6, <2>3 DEF PaperInv, Typed
  <2>11. Latest' = Latest + 1 /\ Latest \in Nat
    BY <2>1, <2>7, MarksAppended, LengthsNat DEF PaperInv
  <2>12. /\ fee \subseteq (1 .. Latest') \X (1 .. Latest')
         /\ acct \subseteq {"v1", "v2", "v3", "rk"} \X (1 .. Latest') /\ invalid \subseteq acct
    <3>1. 1 .. Latest \subseteq 1 .. Latest'
      BY <2>11
    <3> QED BY <3>1 DEF PaperInv, Typed
  <2>13. terminal => v.prev \in 1 .. Latest' /\ Latest + 1 \in 1 .. Latest'
    BY <1>4, <2>11 DEF Closes
  <2>14. /\ fee' \subseteq (1 .. Latest') \X (1 .. Latest')
         /\ acct' \subseteq {"v1", "v2", "v3", "rk"} \X (1 .. Latest') /\ invalid' \subseteq acct'
    BY <1>5, <1>6, <2>12, <2>13
  <2>15. fee' = fee \/ Static
    BY <1>5
  <2> QED BY <1>6, <1>9, <2>9, <2>10, <2>14, <2>15, WorkerStep
<1> QED BY <1>10, <1>11

\* A completion books, blocks or walks away (Complete).
LEMMA CompleteKept ==
  ASSUME PaperInv, NEW w \in Workers, Complete(w)
  PROVE  PaperInv'
<1>1. worker[w].pc \in OpPcs /\ pass # w
  BY OwnerFacts DEF Complete, OpPcs
<1>2. CASE Drop(w)
  BY <1>1, <1>2, DropKept
<1>3. CASE Block(w)
  BY <1>1, <1>3, BlockKept
<1>4. CASE /\ Fenced(w) /\ CompletionFits(ops[worker[w].op], previews[ops[worker[w].op].preview])
           /\ Book(w)
  BY <1>1, <1>4, BookKept
<1> QED BY <1>2, <1>3, <1>4 DEF Complete

\* A worker in a maintenance pass holds the pass lock of a campaign with a mark.
LEMMA PassFacts ==
  ASSUME PaperInv, NEW w \in Workers, worker[w].pc \in PassPcs
  PROVE  pass = w /\ Latest > 0 /\ worker[w] \in WorkerRecord /\ Holds(worker[w], w)
BY DEF PaperInv, Typed, WorkersInv, Carries, Holds

\* A step of a pass that writes no row.
LEMMA PassMoveKept ==
  ASSUME PaperInv, NEW w \in Workers, pass = w, NEW x \in WorkerRecord,
         worker' = [worker EXCEPT ![w] = x],
         x.pc \in PassPcs \ {"sampled", "recenter", "frozen", "feed"},
         exclusive' \in Owners, shared' \subseteq Workers,
         UNCHANGED <<chain, reorgs, srv, lifecycle, marks, ledger, fee, acct, invalid,
                     previews, ops, pass>>
  PROVE  PaperInv'
<1>1. Latest' > 0 /\ pass' \in Workers \cup {NoOne}
  BY DEF PaperInv, Typed, WorkersInv, Carries, Holds, Latest
<1>2. Holds(x, w)'
  BY <1>1 DEF Holds, OpPcs, PassPcs
<1> QED BY <1>1, <1>2, QuietWorkerStep

\* The plain moves of a pass.
LEMMA GotoKept ==
  ASSUME PaperInv, NEW w \in Workers, worker[w].pc \in PassPcs,
         NEW pc \in PassPcs \ {"sampled", "recenter", "frozen", "feed"}, Goto(w, pc),
         exclusive' \in Owners, shared' \subseteq Workers,
         UNCHANGED <<chainVars, bookVars, opVars, srv, pass>>
  PROVE  PaperInv'
<1>1. pass = w /\ worker[w] \in WorkerRecord
  BY PassFacts
<1> DEFINE x == [worker[w] EXCEPT !.pc = pc]
<1>2. x \in WorkerRecord /\ x.pc = pc
  BY <1>1, WorkerFields
<1>3. worker' = [worker EXCEPT ![w] = x]
      /\ UNCHANGED <<chain, reorgs, srv, lifecycle, marks, ledger, fee, acct, invalid,
                     previews, ops, pass>>
  BY DEF Goto, chainVars, bookVars, opVars
<1> HIDE DEF x
<1> QED BY <1>1, <1>2, <1>3, PassMoveKept

\* A worker takes the pass lock (StartPass).
LEMMA StartPassKept ==
  ASSUME PaperInv, NEW w \in Workers, StartPass(w)
  PROVE  PaperInv'
<1>a. (lifecycle \in {"active", "paused"}) \in BOOLEAN
  OBVIOUS
<1> PICK b \in BOOLEAN : b = (lifecycle \in {"active", "paused"})
  BY <1>a, Zenon
<1> DEFINE x == [IdleWorker EXCEPT !.pc = "audit", !.sample = b]
<1>1. x \in WorkerRecord /\ x.pc = "audit"
  BY IdleTyped DEF IdleWorker, WorkerRecord, PassPcs
<1>2. worker' = [worker EXCEPT ![w] = x] /\ pass = NoOne /\ pass' = w /\ marks # <<>>
      /\ UNCHANGED <<chain, reorgs, srv, lifecycle, marks, ledger, fee, acct, invalid,
                     previews, ops, exclusive, shared>>
  BY DEF StartPass, chainVars, bookVars, opVars, leaseVars
<1> HIDE DEF x
<1>3. Latest' > 0
  BY <1>2, LengthsNat DEF PaperInv, Typed, Latest
<1>4. exclusive' \in Owners /\ shared' \subseteq Workers /\ pass' \in Workers \cup {NoOne}
      /\ \A y \in Workers \ {w} : pass' = y <=> pass = y
  BY <1>2, Bounds DEF PaperInv, Typed
<1>5. Holds(x, w)'
  BY <1>1, <1>2, <1>3 DEF Holds, OpPcs, PassPcs
<1> QED BY <1>1, <1>2, <1>4, <1>5, QuietWorkerStep

\* A step of a worker that writes fee evidence, accounting or invalidations.
LEMMA EvidenceStep ==
  ASSUME PaperInv, UNCHANGED <<chain, reorgs, srv, lifecycle, marks, ledger, previews, ops,
                               exclusive, shared>>,
         fee' \subseteq (1 .. Latest) \X (1 .. Latest),
         acct' \subseteq {"v1", "v2", "v3", "rk"} \X (1 .. Latest), invalid' \subseteq acct',
         NEW w \in Workers, pass = w, NEW x \in WorkerRecord, worker' = [worker EXCEPT ![w] = x],
         \/ pass' = w /\ x.pc \in PassPcs \ {"sampled", "recenter", "frozen", "feed"}
         \/ pass' = NoOne /\ x = IdleWorker
  PROVE  PaperInv'
<1>1. BookInv' /\ Grows /\ Latest' = Latest
  BY QuietRows DEF Latest
<1>2. /\ lifecycle' \in {"draft", "opening", "active", "paused", "closing", "closed"}
      /\ marks' \in Seq(MarkRecord) /\ previews' \in Seq(PreviewRecord) /\ ops' \in Seq(OpRecord)
      /\ exclusive' \in Owners /\ shared' \subseteq Workers
  BY DEF PaperInv, Typed
<1>3. /\ fee' \subseteq (1 .. Latest') \X (1 .. Latest')
      /\ acct' \subseteq {"v1", "v2", "v3", "rk"} \X (1 .. Latest')
  BY <1>1
<1>4. Latest > 0
  BY DEF PaperInv, WorkersInv, Carries, Holds
<1>5. pass' \in Workers \cup {NoOne} /\ \A y \in Workers \ {w} : pass' = y <=> pass = y
  BY Bounds
<1>6. Holds(x, w)'
  <2>1. CASE pass' = w /\ x.pc \in PassPcs \ {"sampled", "recenter", "frozen", "feed"}
    BY <1>1, <1>4, <2>1 DEF Holds, OpPcs, PassPcs
  <2>2. CASE pass' = NoOne /\ x = IdleWorker
    BY <2>2, Bounds, IdleHolds
  <2> QED BY <2>1, <2>2
<1> QED BY <1>1, <1>2, <1>3, <1>5, <1>6, WorkerStep

\* The audit invalidates, ends or goes on (Audit).
LEMMA AuditKept ==
  ASSUME PaperInv, NEW w \in Workers, Audit(w)
  PROVE  PaperInv'
<1>1. worker[w].pc \in PassPcs /\ pass = w /\ IdleWorker \in WorkerRecord
  BY IdleTyped DEF Audit, At, PassPcs
<1>2. CASE EndPass(w)
  BY <1>1, <1>2, EndPassKept
<1>3. CASE /\ invalid' = Invalidated /\ Settle(w) /\ pass' = NoOne
           /\ UNCHANGED <<chainVars, lifecycle, marks, ledger, fee, acct, opVars,
                          leaseVars, srv, faults>>
  <2>1. fee \subseteq (1 .. Latest) \X (1 .. Latest)
        /\ acct \subseteq {"v1", "v2", "v3", "rk"} \X (1 .. Latest)
    BY DEF PaperInv, Typed
  <2>2. invalid' \subseteq acct
    BY <1>3 DEF Invalidated, InvalidatedFrom
  <2>3. worker' = [worker EXCEPT ![w] = IdleWorker]
        /\ UNCHANGED <<chain, reorgs, srv, lifecycle, marks, ledger, previews, ops,
                       exclusive, shared, fee, acct>>
    BY <1>3 DEF Settle, chainVars, opVars, leaseVars
  <2> QED BY <1>1, <1>3, <2>1, <2>2, <2>3, EvidenceStep
<1>4. CASE /\ shared' = shared \cup {w} /\ Goto(w, "account")
           /\ UNCHANGED <<chainVars, bookVars, opVars, exclusive, srv, pass, faults>>
  <2>1. "account" \in PassPcs \ {"sampled", "recenter", "frozen", "feed"}
        /\ exclusive' \in Owners /\ shared' \subseteq Workers
    BY <1>4 DEF PassPcs, PaperInv, Typed
  <2> QED BY <1>1, <1>4, <2>1, GotoKept
<1>5. CASE /\ Goto(w, "fee")
           /\ UNCHANGED <<chainVars, bookVars, opVars, leaseVars, srv, pass, faults>>
  <2>1. "fee" \in PassPcs \ {"sampled", "recenter", "frozen", "feed"}
        /\ exclusive' \in Owners /\ shared' \subseteq Workers
    BY <1>5 DEF PassPcs, PaperInv, Typed, leaseVars
  <2> QED BY <1>1, <1>5, <2>1, GotoKept
<1> QED BY <1>2, <1>3, <1>4, <1>5 DEF Audit

\* A pass reads the fee growth of the next interval (ReadFee).
LEMMA ReadFeeKept ==
  ASSUME PaperInv, NEW w \in Workers, ReadFee(w)
  PROVE  PaperInv'
<1>1. worker[w].pc \in PassPcs /\ pass = w /\ worker[w] \in WorkerRecord /\ Latest > 0
  BY PassFacts DEF ReadFee, At, PassPcs
<1>2. CASE /\ Goto(w, "account")
           /\ UNCHANGED <<chainVars, bookVars, opVars, leaseVars, srv, pass, faults>>
  <2>1. "account" \in PassPcs \ {"sampled", "recenter", "frozen", "feed"}
        /\ exclusive' \in Owners /\ shared' \subseteq Workers
    BY <1>2 DEF PassPcs, PaperInv, Typed, leaseVars
  <2> QED BY <1>1, <1>2, <2>1, GotoKept
<1>3. CASE /\ LastFee < Latest
           /\ worker' = [worker EXCEPT ![w].pc = "feed", ![w].from = LastFee, ![w].to = FeeTo]
           /\ UNCHANGED <<chainVars, bookVars, opVars, leaseVars, srv, pass, faults>>
  <2>1. LastFee \in 1 .. Latest /\ FeeTo \in LastFee + 1 .. Latest /\ Latest \in Nat
        /\ \A q \in fee : q[2] <= LastFee
    BY <1>1, <1>3, LastFeeRange, FeeToRange, LengthsNat DEF PaperInv
  <2>2. PICK f, t \in Nat : f = LastFee /\ t = FeeTo /\ 1 <= f /\ f < t /\ t <= Latest
    BY <2>1
  <2> DEFINE x == [worker[w] EXCEPT !.pc = "feed", !.from = f, !.to = t]
  <2>3. x \in WorkerRecord /\ x.pc = "feed" /\ x.from = f /\ x.to = t
    BY <1>1 DEF WorkerRecord, PassPcs
  <2>4. worker' = [worker EXCEPT ![w] = x]
    BY <1>3, <2>2
  <2> HIDE DEF x
  <2>5. UNCHANGED <<chain, reorgs, srv, lifecycle, marks, ledger, fee, acct, invalid,
                    previews, ops, exclusive, shared, pass>>
    BY <1>3 DEF chainVars, bookVars, opVars, leaseVars
  <2>6. exclusive' \in Owners /\ shared' \subseteq Workers /\ pass' \in Workers \cup {NoOne}
    BY <2>5 DEF PaperInv, Typed
  <2> PICK y \in WorkerRecord : y = x
    BY <2>3
  <2>7. Latest' = Latest
    BY <2>5 DEF Latest
  <2>8. Holds(y, w)' /\ worker' = [worker EXCEPT ![w] = y]
    BY <1>1, <2>1, <2>2, <2>3, <2>4, <2>5, <2>7 DEF Holds, OpPcs, PassPcs
  <2> QED BY <2>5, <2>6, <2>8, QuietWorkerStep
<1>4. CASE EndPass(w)
  BY <1>1, <1>4, EndPassKept
<1> QED BY <1>2, <1>3, <1>4 DEF ReadFee

\* A fee interval is recorded between two marks (RecordFee).
LEMMA RecordFeeKept ==
  ASSUME PaperInv, NEW w \in Workers, RecordFee(w)
  PROVE  PaperInv'
<1>1. worker[w].pc = "feed" /\ worker[w].pc \in PassPcs /\ pass = w
      /\ worker[w] \in WorkerRecord /\ Holds(worker[w], w)
  BY PassFacts DEF RecordFee, At, PassPcs
<1>2. CASE /\ fee' = fee \cup {<<worker[w].from, worker[w].to>>}
           /\ worker' = [worker EXCEPT ![w].pc = "account", ![w].work = TRUE]
           /\ UNCHANGED <<chainVars, lifecycle, marks, ledger, acct, invalid, opVars,
                          leaseVars, srv, pass, faults>>
  <2> DEFINE x == [worker[w] EXCEPT !.pc = "account", !.work = TRUE]
  <2>1. x \in WorkerRecord /\ x.pc = "account"
    BY <1>1 DEF WorkerRecord, PassPcs
  <2>2. worker' = [worker EXCEPT ![w] = x]
    BY <1>2
  <2> HIDE DEF x
  <2>3. worker[w].from \in 1 .. Latest /\ worker[w].to \in 1 .. Latest
    <3>1. worker[w].from \in Nat /\ worker[w].to \in Nat /\ Latest \in Nat
      BY <1>1, LengthsNat DEF WorkerRecord, PaperInv
    <3> QED BY <1>1, <3>1 DEF Holds
  <2>4. fee' \subseteq (1 .. Latest) \X (1 .. Latest)
    BY <1>2, <2>3 DEF PaperInv, Typed
  <2>5. acct' \subseteq {"v1", "v2", "v3", "rk"} \X (1 .. Latest) /\ invalid' \subseteq acct'
        /\ UNCHANGED <<chain, reorgs, srv, lifecycle, marks, ledger, previews, ops,
                       exclusive, shared, pass>>
    BY <1>2 DEF PaperInv, Typed, chainVars, opVars, leaseVars
  <2>6. "account" \in PassPcs \ {"sampled", "recenter", "frozen", "feed"}
    BY DEF PassPcs
  <2> QED BY <1>1, <2>1, <2>2, <2>4, <2>5, <2>6, EvidenceStep
<1>3. CASE EndPass(w)
  BY <1>1, <1>3, EndPassKept
<1> QED BY <1>2, <1>3 DEF RecordFee

\* The policy and mark that a pass accounts next.
LEMMA NextFound ==
  ASSUME Typed, NEW p, Accountable(p) # {}
  PROVE  /\ NextAccounting(p) \in Accountable(p)
         /\ \A k \in Accountable(p) : NextAccounting(p) <= k
<1>1. Latest \in Nat /\ Accountable(p) \in SUBSET (1 .. Latest)
  BY LengthsNat DEF Accountable
<1>2. \E m \in Accountable(p) : \A k \in Accountable(p) : m <= k
  BY <1>1, LeastExists
<1> QED BY <1>2 DEF NextAccounting

\* A campaign that is not caught up has a policy to account for.
LEMMA PolicyFound ==
  ASSUME PaperInv, ~CaughtUp
  PROVE  Policy \in Behind /\ Policy \in Policies
<1>1. CASE ~Static
  <2>1. Policies = {"rk"} /\ Behind # {}
    BY <1>1 DEF CaughtUp, Policies
  <2>2. \E p \in Behind : p # "v1"
    BY <2>1 DEF Behind
  <2> QED BY <1>1, <2>1, <2>2 DEF Policy, Behind
<1>2. CASE Static /\ ("v1" \in Behind /\ marks[NextAccounting("v1")].kind # "close_convert")
  BY <1>2 DEF Policy, Behind
<1>3. CASE Static /\ ~("v1" \in Behind /\ marks[NextAccounting("v1")].kind # "close_convert")
  <2>1. Behind \subseteq {"v1", "v2"} /\ Behind # {}
    BY <1>3 DEF Behind, Policies, CaughtUp
  <2>2. "v2" \in Behind
    <3>1. CASE "v1" \notin Behind
      BY <2>1, <3>1
    <3>2. CASE "v1" \in Behind
      <4>1. NextAccounting("v1") \in 1 .. Latest
            /\ marks[NextAccounting("v1")].kind = "close_convert"
        BY <1>3, <3>2, NextFound DEF Behind, Accountable, PaperInv
      <4>2. NextAccounting("v1") = Latest
        BY <4>1 DEF PaperInv, StoryInv, MarkStory, Closes
      <4>3. Latest > 0
        BY <4>1, <4>2, LengthsNat DEF PaperInv
      <4>4. Behind \cap {"v2"} # {}
        BY <1>3, <4>1, <4>2, <4>3 DEF CaughtUp
      <4> QED BY <4>4
    <3> QED BY <3>1, <3>2
  <2>3. \E p \in Behind : p # "v1"
    BY <2>2
  <2> QED BY <1>3, <2>1, <2>3 DEF Policy, Behind
<1> QED BY <1>1, <1>2, <1>3

\* A snapshot is recorded for a mark (Account).
LEMMA AccountKept ==
  ASSUME PaperInv, NEW w \in Workers, Account(w)
  PROVE  PaperInv'
<1>1. worker[w].pc = "account" /\ worker[w].pc \in PassPcs /\ pass = w
      /\ worker[w] \in WorkerRecord /\ Latest > 0
  BY PassFacts DEF Account, At, PassPcs
<1> DEFINE m == NextAccounting(Policy)
<1>2. CASE /\ Goto(w, "observe")
           /\ UNCHANGED <<chainVars, bookVars, opVars, leaseVars, srv, pass, faults>>
  <2>1. "observe" \in PassPcs \ {"sampled", "recenter", "frozen", "feed"}
        /\ exclusive' \in Owners /\ shared' \subseteq Workers
    BY <1>2 DEF PassPcs, PaperInv, Typed, leaseVars
  <2> QED BY <1>1, <1>2, <2>1, GotoKept
<1>3. CASE /\ ~CaughtUp /\ acct' = acct \cup {<<Policy, m>>}
           /\ worker' = [worker EXCEPT ![w].work = TRUE]
           /\ UNCHANGED <<chainVars, lifecycle, marks, ledger, fee, invalid, opVars,
                          leaseVars, srv, pass, faults>>
  <2> DEFINE x == [worker[w] EXCEPT !.work = TRUE]
  <2>1. x \in WorkerRecord /\ x.pc = "account"
    BY <1>1 DEF WorkerRecord
  <2>2. worker' = [worker EXCEPT ![w] = x]
    BY <1>3
  <2> HIDE DEF x
  <2>3. Policy \in Behind /\ Policy \in {"v1", "v2", "v3", "rk"}
    BY <1>3, PolicyFound DEF Policies
  <2>4. m \in 1 .. Latest
    <3>1. Accountable(Policy) # {}
      BY <2>3 DEF Behind
    <3> QED BY <3>1, NextFound DEF Accountable, PaperInv
  <2>5. /\ acct' \subseteq {"v1", "v2", "v3", "rk"} \X (1 .. Latest) /\ invalid' \subseteq acct'
        /\ fee' \subseteq (1 .. Latest) \X (1 .. Latest)
    BY <1>3, <2>3, <2>4 DEF PaperInv, Typed
  <2>6. UNCHANGED <<chain, reorgs, srv, lifecycle, marks, ledger, previews, ops,
                    exclusive, shared, pass>>
    BY <1>3 DEF chainVars, opVars, leaseVars
  <2>7. "account" \in PassPcs \ {"sampled", "recenter", "frozen", "feed"}
    BY DEF PassPcs
  <2> QED BY <1>1, <2>1, <2>2, <2>5, <2>6, <2>7, EvidenceStep
<1>4. CASE /\ Goto(w, "fee")
           /\ UNCHANGED <<chainVars, bookVars, opVars, leaseVars, srv, pass, faults>>
  <2>1. "fee" \in PassPcs \ {"sampled", "recenter", "frozen", "feed"}
        /\ exclusive' \in Owners /\ shared' \subseteq Workers
    BY <1>4 DEF PassPcs, PaperInv, Typed, leaseVars
  <2> QED BY <1>1, <1>4, <2>1, GotoKept
<1>5. CASE EndPass(w)
  BY <1>1, <1>5, EndPassKept
<1> QED BY <1>2, <1>3, <1>4, <1>5 DEF Account

\* A frame is later than the latest mark.
LEMMA FrameAfter ==
  ASSUME PaperInv, NextFrame
  PROVE  /\ After(Latest, Len(chain)) /\ Len(chain) \in 1 .. MaxBlock
         /\ chain[Len(chain)] \in Forks /\ Len(chain) \in Nat /\ Latest \in Nat
<1>1. Len(chain) \in 1 .. MaxBlock /\ Len(chain) \in Nat /\ Latest \in Nat
  BY LengthsNat DEF PaperInv, Typed
<1>2. Len(chain) \in 1 .. Len(chain)
  BY <1>1
<1>3. chain[Len(chain)] \in Forks
  BY <1>2 DEF PaperInv, Typed
<1> QED BY <1>1, <1>3 DEF NextFrame, After

\* A pass takes a sample on the latest mark (Observe).
LEMMA ObserveKept ==
  ASSUME PaperInv, NEW w \in Workers, Observe(w)
  PROVE  PaperInv'
<1>1. worker[w].pc \in PassPcs /\ pass = w /\ worker[w] \in WorkerRecord /\ Latest > 0
  BY PassFacts DEF Observe, At, PassPcs
<1>2. CASE /\ NextFrame /\ shared' = shared \cup {w}
           /\ worker' = [worker EXCEPT ![w].pc = "sampled", ![w].prev = Latest,
                          ![w].block = Len(chain), ![w].fork = chain[Len(chain)]]
           /\ UNCHANGED <<chainVars, bookVars, opVars, exclusive, srv, pass, faults>>
  <2>1. After(Latest, Len(chain))
    BY <1>2, FrameAfter
  <2>2. PICK l, b \in Nat, f \in Forks : l = Latest /\ b = Len(chain) /\ f = chain[Len(chain)]
    BY <1>2, FrameAfter
  <2> DEFINE x == [worker[w] EXCEPT !.pc = "sampled", !.prev = l, !.block = b, !.fork = f]
  <2>3. x \in WorkerRecord /\ x.pc = "sampled" /\ x.prev = l /\ x.block = b
    BY <1>1 DEF WorkerRecord, PassPcs
  <2>4. worker' = [worker EXCEPT ![w] = x]
    BY <1>2, <2>2
  <2> HIDE DEF x
  <2>5. UNCHANGED <<chain, reorgs, srv, lifecycle, marks, ledger, fee, acct, invalid,
                    previews, ops, exclusive, pass>>
    BY <1>2 DEF chainVars, bookVars, opVars
  <2>6. exclusive' \in Owners /\ shared' \subseteq Workers /\ pass' \in Workers \cup {NoOne}
    BY <1>2, <2>5 DEF PaperInv, Typed
  <2>7. PICK y \in WorkerRecord : y = x
    BY <2>3
  <2>8. Latest' = Latest /\ After(l, b)'
    BY <2>1, <2>2, <2>5 DEF Latest, After
  <2>9. Holds(y, w)' /\ worker' = [worker EXCEPT ![w] = y]
    BY <1>1, <2>2, <2>3, <2>4, <2>5, <2>7, <2>8 DEF Holds, OpPcs, PassPcs
  <2> QED BY <2>5, <2>6, <2>9, QuietWorkerStep
<1>3. CASE EndPass(w)
  BY <1>1, <1>3, EndPassKept
<1> QED BY <1>2, <1>3 DEF Observe

\* The sample becomes a mark (RecordObservation).
LEMMA RecordObservationKept ==
  ASSUME PaperInv, NEW w \in Workers, RecordObservation(w)
  PROVE  PaperInv'
<1>1. worker[w].pc = "sampled" /\ worker[w].pc \in PassPcs /\ pass = w
      /\ worker[w] \in WorkerRecord /\ Latest > 0 /\ Holds(worker[w], w)
  BY PassFacts DEF RecordObservation, At, PassPcs
<1>2. CASE /\ ObservationFits(w)
           /\ marks' = Append(marks, [kind |-> "mark", block |-> worker[w].block,
                                     fork |-> worker[w].fork, op |-> 0])
           /\ worker' = [worker EXCEPT ![w] = [IdleWorker EXCEPT
                          !.pc = IF Static THEN "account" ELSE "audit"]]
           /\ shared' = IF Static THEN shared ELSE shared \ {w}
           /\ UNCHANGED <<chainVars, lifecycle, ledger, fee, acct, invalid, opVars,
                         exclusive, srv, pass, faults>>
  <2>1. PICK b \in Nat, f \in Forks : b = worker[w].block /\ f = worker[w].fork
    BY <1>1 DEF WorkerRecord
  <2> DEFINE r == [kind |-> "mark", block |-> b, fork |-> f, op |-> 0]
  <2>2. r \in MarkRecord /\ r.kind = "mark" /\ r.op = 0 /\ r.block = b
    BY <2>1 DEF MarkRecord
  <2>3. marks' = Append(marks, r)
    BY <1>2, <2>1
  <2> HIDE DEF r
  <2>4. /\ lifecycle \in {"active", "paused"} /\ b \in 1 .. MaxBlock /\ marks[Latest].block < b
    <3>1. b \in 1 .. MaxBlock /\ worker[w].prev > 0 /\ marks[worker[w].prev].block < b
      BY <1>1, <2>1 DEF Holds, After
    <3>2. CASE Static
      BY <1>2, <3>1, <3>2 DEF ObservationFits, ValuationFits
    <3>3. CASE ~Static
      <4>1. marks[Latest].block \in Nat /\ b > marks[Latest].block
            /\ lifecycle \in {"active", "paused"}
        <5>1. Latest \in 1 .. Latest
          BY <1>1, LengthsNat DEF PaperInv
        <5> QED BY <1>2, <2>1, <3>3, <5>1
                DEF ObservationFits, RangeKeeperMarkFits, PaperInv, RowsInv
      <4> QED BY <3>1, <4>1
    <3> QED BY <3>2, <3>3
  <2>5. UNCHANGED <<chain, reorgs, srv, lifecycle, ledger, fee, acct, invalid, previews, ops,
                    exclusive, pass>>
    BY <1>2 DEF chainVars, opVars
  <2>6. marks' \in Seq(MarkRecord) /\ BookInv' /\ Grows
    BY <2>2, <2>3, <2>4, <2>5, ObservedRows DEF MarkAdded
  <2>7. Latest' = Latest + 1 /\ Latest \in Nat
    BY <2>2, <2>3, MarksAppended, LengthsNat DEF PaperInv, MarkAdded
  <2> DEFINE x == [IdleWorker EXCEPT !.pc = IF Static THEN "account" ELSE "audit"]
  <2>8. x \in WorkerRecord /\ x.pc \in {"account", "audit"}
    BY IdleTyped DEF IdleWorker, WorkerRecord, PassPcs
  <2>9. worker' = [worker EXCEPT ![w] = x]
    BY <1>2
  <2> HIDE DEF x
  <2>10. Holds(x, w)'
    BY <1>1, <2>5, <2>7, <2>8 DEF Holds, OpPcs, PassPcs, x
  <2>11. /\ lifecycle' \in {"draft", "opening", "active", "paused", "closing", "closed"}
         /\ previews' \in Seq(PreviewRecord) /\ ops' \in Seq(OpRecord)
         /\ exclusive' \in Owners /\ shared' \subseteq Workers /\ pass' \in Workers \cup {NoOne}
    BY <1>2, <2>5 DEF PaperInv, Typed
  <2>12. /\ fee' \subseteq (1 .. Latest') \X (1 .. Latest')
         /\ acct' \subseteq {"v1", "v2", "v3", "rk"} \X (1 .. Latest') /\ invalid' \subseteq acct'
    <3>1. 1 .. Latest \subseteq 1 .. Latest'
      BY <2>7
    <3> QED BY <2>5, <3>1 DEF PaperInv, Typed
  <2> QED BY <1>1, <2>5, <2>6, <2>8, <2>9, <2>10, <2>11, <2>12, WorkerStep
<1>3. CASE EndPass(w)
  BY <1>1, <1>3, EndPassKept
<1> QED BY <1>2, <1>3 DEF RecordObservation

\* A pass swaps its shared lease for the exclusive one (StartRecenter).
LEMMA StartRecenterKept ==
  ASSUME PaperInv, NEW w \in Workers, StartRecenter(w)
  PROVE  PaperInv'
<1>1. worker[w].pc = "sampled" /\ worker[w].pc \in PassPcs /\ pass = w
      /\ worker[w] \in WorkerRecord /\ Latest > 0 /\ Holds(worker[w], w)
  BY PassFacts DEF StartRecenter, At, PassPcs
<1>2. CASE /\ exclusive' = w /\ shared' = {} /\ Goto(w, "recenter")
           /\ UNCHANGED <<chainVars, bookVars, opVars, srv, pass, faults>>
  <2> DEFINE x == [worker[w] EXCEPT !.pc = "recenter"]
  <2>0. /\ x \in WorkerRecord /\ x.pc = "recenter"
        /\ x.prev = worker[w].prev /\ x.block = worker[w].block
    BY <1>1, WorkerFields DEF PassPcs
  <2> HIDE DEF x
  <2>1. PICK y \in WorkerRecord : /\ y = x /\ y.pc = "recenter"
                                  /\ y.prev = worker[w].prev /\ y.block = worker[w].block
    BY <2>0
  <2>2. worker' = [worker EXCEPT ![w] = y]
        /\ UNCHANGED <<chain, reorgs, srv, lifecycle, marks, ledger, fee, acct, invalid,
                       previews, ops, pass>>
    BY <1>2, <2>1 DEF Goto, chainVars, bookVars, opVars, x
  <2>3. y.prev > 0 /\ After(y.prev, y.block)
    BY <1>1, <2>1 DEF Holds
  <2>4. Holds(y, w)'
    BY <1>1, <2>1, <2>2, <2>3 DEF Holds, OpPcs, PassPcs, Latest, After
  <2>5. exclusive' \in Owners /\ shared' \subseteq Workers /\ pass' \in Workers \cup {NoOne}
    BY <1>1, <1>2, <2>2 DEF Owners
  <2> QED BY <2>2, <2>4, <2>5, QuietWorkerStep
<1>3. CASE EndPass(w)
  BY <1>1, <1>3, EndPassKept
<1> QED BY <1>2, <1>3 DEF StartRecenter

\* The recentre's preview is saved under the lease (FreezeRecenter).
LEMMA FreezeRecenterKept ==
  ASSUME PaperInv, NEW w \in Workers, FreezeRecenter(w)
  PROVE  PaperInv'
<1>1. worker[w].pc = "recenter" /\ worker[w].pc \in PassPcs /\ pass = w
      /\ worker[w] \in WorkerRecord /\ Latest > 0 /\ Holds(worker[w], w)
  BY PassFacts DEF FreezeRecenter, At, PassPcs
<1>2. CASE /\ SavePreview("change_range", worker[w].prev, worker[w].block, worker[w].fork)
           /\ Goto(w, "frozen")
           /\ UNCHANGED <<chainVars, bookVars, ops, leaseVars, srv, pass, faults>>
  <2> DEFINE x == [worker[w] EXCEPT !.pc = "frozen"]
  <2>0. /\ x \in WorkerRecord /\ x.pc = "frozen"
        /\ x.prev = worker[w].prev /\ x.block = worker[w].block
    BY <1>1, WorkerFields DEF PassPcs
  <2> HIDE DEF x
  <2>1. PICK y \in WorkerRecord : /\ y = x /\ y.pc = "frozen"
                                  /\ y.prev = worker[w].prev /\ y.block = worker[w].block
    BY <2>0
  <2>2. worker' = [worker EXCEPT ![w] = y]
        /\ UNCHANGED <<chain, reorgs, srv, lifecycle, marks, ledger, fee, acct, invalid,
                       ops, exclusive, shared, pass>>
    BY <1>2, <2>1 DEF Goto, chainVars, bookVars, leaseVars, x
  <2>3. y.prev > 0 /\ After(y.prev, y.block)
    BY <1>1, <2>1 DEF Holds
  <2>4. worker[w].prev \in Nat /\ worker[w].block \in Nat /\ worker[w].fork \in Forks
        /\ "change_range" \in OpKinds
    BY <1>1 DEF WorkerRecord, OpKinds
  <2>5. previews' \in Seq(PreviewRecord) /\ BookInv' /\ Grows
    BY <1>2, <2>1, <2>2, <2>3, <2>4, PreviewRows
  <2>6. \E p \in 1 .. Len(previews') : previews'[p].kind = "change_range"
    <3>1. previews \in Seq(PreviewRecord) /\ Len(previews) \in Nat
      BY LengthsNat DEF PaperInv, Typed
    <3>2. Len(previews') = Len(previews) + 1
          /\ previews'[Len(previews) + 1].kind = "change_range"
      BY <1>2, <3>1 DEF SavePreview
    <3>3. Len(previews) + 1 \in 1 .. Len(previews')
      BY <3>1, <3>2
    <3> QED BY <3>2, <3>3
  <2>7. Holds(y, w)'
    BY <1>1, <2>1, <2>2, <2>3, <2>6 DEF Holds, OpPcs, PassPcs, Latest, After
  <2>8. /\ lifecycle' \in {"draft", "opening", "active", "paused", "closing", "closed"}
        /\ marks' \in Seq(MarkRecord) /\ ops' \in Seq(OpRecord)
        /\ exclusive' \in Owners /\ shared' \subseteq Workers /\ pass' \in Workers \cup {NoOne}
    BY <2>2 DEF PaperInv, Typed
  <2>9. /\ fee' \subseteq (1 .. Latest') \X (1 .. Latest')
        /\ acct' \subseteq {"v1", "v2", "v3", "rk"} \X (1 .. Latest') /\ invalid' \subseteq acct'
    BY <2>2 DEF PaperInv, Typed, Latest
  <2> QED BY <2>2, <2>5, <2>7, <2>8, <2>9, WorkerStep
<1>3. CASE EndPass(w)
  BY <1>1, <1>3, EndPassKept
<1> QED BY <1>2, <1>3 DEF FreezeRecenter

\* The recentre is accepted under its own key (AcceptRecenter).
LEMMA AcceptRecenterKept ==
  ASSUME PaperInv, NEW w \in Workers, AcceptRecenter(w)
  PROVE  PaperInv'
<1>1. worker[w].pc = "frozen" /\ worker[w].pc \in PassPcs /\ pass = w
      /\ worker[w] \in WorkerRecord /\ Latest > 0 /\ Holds(worker[w], w)
  BY PassFacts DEF AcceptRecenter, At, PassPcs
<1> DEFINE S == {q \in 1 .. Len(previews) : previews[q].kind = "change_range"}
<1>2. PICK g \in S : \A q \in S : q <= g
  <2>1. S \in SUBSET (1 .. Len(previews)) /\ S # {}
    BY <1>1 DEF Holds
  <2> HIDE DEF S
  <2> QED BY <2>1, GreatestExists, LengthsNat DEF PaperInv
<1>3. /\ previews[g].kind = "change_range"
      /\ \A r \in g + 1 .. Len(previews) : previews[r].kind # "change_range"
  BY <1>2, LengthsNat DEF PaperInv
<1> DEFINE p == CHOOSE q \in 1 .. Len(previews) :
                /\ previews[q].kind = "change_range"
                /\ \A r \in q + 1 .. Len(previews) : previews[r].kind # "change_range"
<1>4. p \in 1 .. Len(previews) /\ previews[p].kind = "change_range"
  BY <1>3
<1>5. CASE /\ Acceptable(p, <<"rk-auto", p>>) /\ lifecycle = "active"
           /\ ops' = Queued("change_range", p, <<"rk-auto", p>>)
           /\ exclusive' = IF exclusive = w THEN NoOne ELSE exclusive
           /\ worker' = [worker EXCEPT ![w] = [IdleWorker EXCEPT !.pc = "audit"]]
           /\ UNCHANGED <<chainVars, bookVars, previews, shared, srv, pass, faults>>
  <2> HIDE DEF p
  <2>1. PICK c \in 1 .. Len(previews) : c = p /\ previews[c].kind = "change_range"
    BY <1>4
  <2>2. UNCHANGED <<chain, reorgs, srv, lifecycle, marks, ledger, fee, acct, invalid,
                    previews, shared, pass>>
    BY <1>5 DEF chainVars, bookVars
  <2>3. <<"rk-auto", c>> \in KeyValues /\ ~SomePending /\ "change_range" \notin Closes
    BY <1>5, LengthsNat DEF KeyValues, PaperInv, Acceptable, Closes
  <2>4. ops' \in Seq(OpRecord) /\ BookInv' /\ Grows
    BY <1>5, <2>1, <2>2, <2>3, AcceptedRows
  <2> DEFINE x == [IdleWorker EXCEPT !.pc = "audit"]
  <2>5. x \in WorkerRecord /\ x.pc = "audit"
    BY IdleTyped DEF IdleWorker, WorkerRecord, PassPcs
  <2>6. worker' = [worker EXCEPT ![w] = x]
    BY <1>5
  <2> HIDE DEF x
  <2>7. Holds(x, w)'
    BY <1>1, <2>2, <2>5 DEF Holds, OpPcs, PassPcs, Latest, x
  <2>8. /\ lifecycle' \in {"draft", "opening", "active", "paused", "closing", "closed"}
        /\ marks' \in Seq(MarkRecord) /\ previews' \in Seq(PreviewRecord)
        /\ exclusive' \in Owners /\ shared' \subseteq Workers /\ pass' \in Workers \cup {NoOne}
    BY <1>5, <2>2 DEF PaperInv, Typed, Owners
  <2>9. /\ fee' \subseteq (1 .. Latest') \X (1 .. Latest')
        /\ acct' \subseteq {"v1", "v2", "v3", "rk"} \X (1 .. Latest') /\ invalid' \subseteq acct'
    BY <2>2 DEF PaperInv, Typed, Latest
  <2> QED BY <2>2, <2>4, <2>5, <2>6, <2>7, <2>8, <2>9, WorkerStep
<1>6. CASE EndPass(w)
  BY <1>1, <1>6, EndPassKept
<1> QED BY <1>5, <1>6 DEF AcceptRecenter

\* A worker process dies and its session's locks go with it (Crash).
LEMMA CrashKept ==
  ASSUME PaperInv, NEW w \in Workers, Crash(w)
  PROVE  PaperInv'
<1> DEFINE x == [IdleWorker EXCEPT !.pc = "down"]
<1>1. x \in WorkerRecord
  BY IdleTyped
<1>2. worker' = [worker EXCEPT ![w] = x] /\ pass' = (IF pass = w THEN NoOne ELSE pass)
      /\ UNCHANGED <<chain, reorgs, srv, lifecycle, marks, ledger, fee, acct, invalid, previews, ops>>
  BY DEF Crash, chainVars, bookVars, opVars
<1>3. exclusive' \in Owners /\ shared' \subseteq Workers /\ pass' \in Workers \cup {NoOne}
      /\ \A y \in Workers \ {w} : pass' = y <=> pass = y
  BY Bounds DEF Crash, PaperInv, Typed, Owners
<1>4. Holds(x, w)'
  BY <1>2, Bounds, IdleHolds
<1> HIDE DEF x
<1> QED BY <1>1, <1>2, <1>3, <1>4, QuietWorkerStep

\* The supervisor restarts it (Restart).
LEMMA RestartKept ==
  ASSUME PaperInv, NEW w \in Workers, Restart(w)
  PROVE  PaperInv'
<1>1. pass # w
  BY DEF Restart, PaperInv, WorkersInv, Carries, Holds, PassPcs
<1>2. Drop(w)
  BY DEF Restart, Drop
<1> QED BY <1>1, <1>2, DropKept

\* A read fails: the claim is released or the pass given up (ReadFails).
LEMMA ReadFailsKept ==
  ASSUME PaperInv, NEW w \in Workers, ReadFails(w)
  PROVE  PaperInv'
<1>1. CASE worker[w].pc \in OpPcs
  <2>1. worker[w].pc \notin PassPcs /\ pass # w
    BY <1>1, OwnerFacts DEF OpPcs, PassPcs
  <2>2. PICK i \in 1 .. Len(ops) : i = worker[w].op
    BY <1>1, OwnerFacts
  <2> DEFINE s == IF worker[w].pc = "ready" /\ Static /\ ops[i].kind = "close_convert"
                  THEN "blocked" ELSE ops[i].status
  <2>3. /\ ops' = (IF ~worker[w].lost /\ Owns(w)
                   THEN [ops EXCEPT ![i] = Unclaimed(ops[i], s)] ELSE ops)
        /\ Settle(w) /\ UNCHANGED <<chainVars, bookVars, previews, leaseVars, srv, pass>>
    BY <2>1, <2>2 DEF ReadFails
  <2>4. UNCHANGED <<chain, reorgs, srv, lifecycle, marks, ledger, fee, acct, invalid,
                    previews, exclusive, shared, pass>>
    BY <2>3 DEF chainVars, bookVars, leaseVars
  <2>5. CASE ~worker[w].lost /\ Owns(w)
    <3>1. ops[i].status \in Unsettled
      BY <1>1, <2>2, <2>5, OwnerFacts
    <3>2. s \in Statuses /\ s # "succeeded" /\ ops[i].status # "succeeded"
      BY <3>1 DEF Statuses, Unsettled
    <3> HIDE DEF s
    <3>3. OpSet(i, Unclaimed(ops[i], s))
      BY <2>3, <2>5 DEF OpSet
    <3> QED BY <2>1, <2>3, <2>4, <3>2, <3>3, UnclaimedKept
  <2>6. CASE ~(~worker[w].lost /\ Owns(w))
    <3>1. worker' = [worker EXCEPT ![w] = IdleWorker] /\ ops' = ops
      BY <2>3, <2>6 DEF Settle
    <3>2. exclusive' \in Owners /\ shared' \subseteq Workers /\ pass' \in Workers \cup {NoOne}
      BY <2>4 DEF PaperInv, Typed
    <3>3. Holds(IdleWorker, w)' /\ IdleWorker \in WorkerRecord
      BY <2>1, <2>4, IdleHolds, IdleTyped
    <3> QED BY <2>4, <3>1, <3>2, <3>3, QuietWorkerStep
  <2> QED BY <2>5, <2>6
<1>2. CASE /\ worker[w].pc \in PassPcs
           /\ Settle(w) /\ pass' = NoOne /\ shared' = shared \ {w}
           /\ exclusive' = IF exclusive = w THEN NoOne ELSE exclusive
           /\ UNCHANGED <<chainVars, bookVars, opVars, srv>>
  <2>1. pass = w
    BY <1>2, PassFacts
  <2>2. worker' = [worker EXCEPT ![w] = IdleWorker]
        /\ UNCHANGED <<chain, reorgs, srv, lifecycle, marks, ledger, fee, acct, invalid, previews, ops>>
    BY <1>2 DEF Settle, chainVars, bookVars, opVars
  <2>3. exclusive' \in Owners /\ shared' \subseteq Workers /\ pass' \in Workers \cup {NoOne}
        /\ \A y \in Workers \ {w} : pass' = y <=> pass = y
    BY <1>2, <2>1, Bounds DEF PaperInv, Typed, Owners
  <2>4. Holds(IdleWorker, w)' /\ IdleWorker \in WorkerRecord
    BY <1>2, Bounds, IdleHolds, IdleTyped
  <2> QED BY <2>2, <2>3, <2>4, QuietWorkerStep
<1> QED BY <1>1, <1>2 DEF ReadFails

\* A step of the command server, the chain or a lease: the workers stay.
LEMMA ServerMoves ==
  ASSUME PaperInv, BookInv', Grows, UNCHANGED <<worker, pass, fee, acct, invalid>>,
         chain' \in Seq(Forks), Len(chain') \in 1 .. MaxBlock, reorgs' \in Forks,
         lifecycle' \in {"draft", "opening", "active", "paused", "closing", "closed"},
         UNCHANGED marks, previews' \in Seq(PreviewRecord), ops' \in Seq(OpRecord),
         exclusive' \in Owners, shared' \subseteq Workers,
         srv' \in SrvRecord, srv' = srv \/ ServerInv'
  PROVE  PaperInv'
<1>1. Typed'
  <2>1. Latest' = Latest /\ marks' \in Seq(MarkRecord)
    BY DEF Latest, PaperInv, Typed
  <2> QED BY <2>1 DEF PaperInv, Typed
<1>2. ServerInv' /\ WorkersInv'
  BY <1>1, ServerKept, WorkersKept
<1> QED BY <1>1, <1>2 DEF PaperInv, BookInv

\* The parts of the type invariant that a step of the server cites.
LEMMA TypedSame ==
  ASSUME PaperInv
  PROVE  /\ chain \in Seq(Forks) /\ Len(chain) \in 1 .. MaxBlock /\ reorgs \in Forks
         /\ lifecycle \in {"draft", "opening", "active", "paused", "closing", "closed"}
         /\ previews \in Seq(PreviewRecord) /\ ops \in Seq(OpRecord) /\ srv \in SrvRecord
         /\ exclusive \in Owners /\ shared \subseteq Workers
BY DEF PaperInv, Typed

\* The chain grows or is reorganised under the campaign (Grow, Reorg).
LEMMA ChainKept ==
  ASSUME PaperInv, Grow \/ \E b \in 1 .. Len(chain) : Reorg(b)
  PROVE  PaperInv'
<1> USE TypedSame, Bounds
<1>1. UNCHANGED <<worker, pass, fee, acct, invalid, lifecycle, marks, ledger, previews, ops,
                  exclusive, shared, srv>>
  BY DEF Grow, Reorg, bookVars, opVars, leaseVars
<1>2. BookInv' /\ Grows
  BY <1>1, QuietRows
<1>3. chain' \in Seq(Forks) /\ Len(chain') \in 1 .. MaxBlock /\ reorgs' \in Forks
  <2>1. Len(chain) \in Nat /\ chain[Len(chain)] \in Forks
    <3>1. Len(chain) \in 1 .. Len(chain)
      OBVIOUS
    <3> QED BY <3>1
  <2>2. CASE Grow
    <3>1. chain' = Append(chain, chain[Len(chain)]) /\ reorgs' = reorgs /\ Len(chain) < MaxBlock
      BY <2>2 DEF Grow
    <3>2. chain' \in Seq(Forks)
      BY <2>1, <3>1
    <3>3. Len(chain') = Len(chain) + 1
      BY <2>1, <3>1
    <3> QED BY <3>1, <3>2, <3>3
  <2>3. ASSUME NEW b \in 1 .. Len(chain), Reorg(b)
        PROVE  chain' \in Seq(Forks) /\ Len(chain') \in 1 .. MaxBlock /\ reorgs' \in Forks
    <3>1. reorgs < MaxReorgs /\ reorgs' = reorgs + 1
          /\ chain' = [i \in 1 .. Len(chain) |-> IF i < b THEN chain[i] ELSE reorgs + 1]
      BY <2>3 DEF Reorg
    <3>2. reorgs + 1 \in Forks
      BY <3>1 DEF Forks
    <3>3. \A i \in 1 .. Len(chain) : chain[i] \in Forks
      OBVIOUS
    <3>4. chain' \in [1 .. Len(chain) -> Forks]
      BY <3>1, <3>2, <3>3
    <3>5. chain' \in Seq(Forks)
      BY <2>1, <3>4
    <3>6. Len(chain') = Len(chain)
      BY <2>1, <3>4, <3>5
    <3> QED BY <3>1, <3>2, <3>5, <3>6
  <2> QED BY <2>2, <2>3
<1>4. /\ lifecycle' \in {"draft", "opening", "active", "paused", "closing", "closed"}
      /\ previews' \in Seq(PreviewRecord) /\ ops' \in Seq(OpRecord) /\ srv' \in SrvRecord
      /\ exclusive' \in Owners /\ shared' \subseteq Workers
  BY <1>1
<1> QED BY <1>1, <1>2, <1>3, <1>4, ServerMoves

\* An advisory lock is lost with its session (LeaseLost).
LEMMA LeaseLostKept ==
  ASSUME PaperInv, LeaseLost
  PROVE  PaperInv'
<1>1. UNCHANGED <<worker, pass, fee, acct, invalid, chain, reorgs, lifecycle, marks, ledger,
                  previews, ops>>
  BY DEF LeaseLost, chainVars, bookVars, opVars
<1>2. BookInv' /\ Grows
  BY <1>1, QuietRows
<1>3. srv' \in SrvRecord /\ (srv' = srv \/ ServerInv') /\ exclusive' \in Owners
      /\ shared' \subseteq Workers
  BY TypedSame, IdleTyped DEF LeaseLost, Owners, ServerInv, IdleSrv
<1> QED BY <1>1, <1>2, <1>3, TypedSame, ServerMoves

\* deleteStaticPaperDraft closes a draft without operations.
LEMMA DeleteDraftKept ==
  ASSUME PaperInv, DeleteDraft
  PROVE  PaperInv'
<1>1. ops = <<>> /\ marks = <<>> /\ lifecycle' = "closed" /\ lifecycle = "draft"
      /\ UNCHANGED <<worker, pass, fee, acct, invalid, chain, reorgs, marks, ledger,
                     previews, ops, exclusive, shared, srv>>
  BY DEF DeleteDraft, chainVars, opVars, leaseVars
<1>2. Grows
  BY <1>1, LengthsNat DEF PaperInv, Grows, Latest
<1>3. RowsInv' /\ BooksInv'
  BY <1>1 DEF PaperInv, RowsInv, BooksInv, Done, After, Latest
<1>4. Len(ops) = 0 /\ Latest = 0
  BY <1>1 DEF Latest
<1>5. StoryInv'
  <2>1. MarkStory'
    BY <1>1, <1>4 DEF MarkStory, Latest
  <2>2. ~\E i \in 1 .. Len(ops') : TRUE
    BY <1>1, <1>4
  <2> QED BY <1>1, <2>1, <2>2 DEF StoryInv
<1> QED BY <1>1, <1>2, <1>3, <1>5, TypedSame, ServerMoves DEF BookInv

\* The operator's kinds are kinds of operation.
LEMMA KindsKnown == \A k \in Kinds : k \in OpKinds
BY PaperAssumption DEF OpKinds, Closes

\* A preview saved by the server.
LEMMA SavedKept ==
  ASSUME PaperInv, NEW k \in OpKinds, NEW prev \in Nat, NEW block \in Nat, NEW f \in Forks,
         k \notin Moves => After(prev, block), SavePreview(k, prev, block, f),
         UNCHANGED <<worker, pass, fee, acct, invalid, chain, reorgs, lifecycle, marks, ledger,
                     ops, exclusive, shared>>,
         srv' \in {srv, IdleSrv}
  PROVE  PaperInv'
<1>1. previews' \in Seq(PreviewRecord) /\ BookInv' /\ Grows
  BY PreviewRows
<1>2. srv' \in SrvRecord /\ (srv' = srv \/ ServerInv')
  BY TypedSame, IdleTyped DEF ServerInv, IdleSrv
<1> QED BY <1>1, <1>2, TypedSame, ServerMoves

\* A preview taken without a lease (Preview).
LEMMA PreviewKept ==
  ASSUME PaperInv, NEW k \in Kinds, Preview(k)
  PROVE  PaperInv'
<1>1. UNCHANGED <<worker, pass, fee, acct, invalid, chain, reorgs, lifecycle, marks, ledger,
                  ops, exclusive, shared, srv>> /\ k \in OpKinds
  BY KindsKnown DEF Preview, chainVars, bookVars, leaseVars
<1>2. Len(chain) \in 1 .. MaxBlock /\ Len(chain) \in Nat /\ chain[Len(chain)] \in Forks
  <2>1. Len(chain) \in 1 .. Len(chain)
    BY TypedSame, Bounds
  <2> QED BY <2>1, TypedSame, Bounds
<1>3. CASE k = "open"
  <2>1. SavePreview(k, 0, Len(chain), chain[Len(chain)])
    BY <1>3 DEF Preview
  <2>2. After(0, Len(chain))
    BY <1>2 DEF After
  <2> QED BY <1>1, <1>2, <2>1, <2>2, SavedKept
<1>4. CASE k \in {"pause", "resume"}
  <2>1. SavePreview(k, 0, 0, 0) /\ k \in Moves
    BY <1>4 DEF Preview, Moves
  <2> QED BY <1>1, <2>1, Bounds, SavedKept
<1>5. CASE k = "close_retain"
  <2>1. SavePreview(k, Latest, Len(chain), chain[Len(chain)]) /\ NextFrame
    BY <1>5 DEF Preview
  <2>2. After(Latest, Len(chain)) /\ Latest \in Nat
    BY <2>1, FrameAfter
  <2> QED BY <1>1, <1>2, <2>1, <2>2, SavedKept
<1> QED BY <1>3, <1>4, <1>5 DEF Preview

\* A close is prepared under the exclusive lease (StartPreparation).
LEMMA StartPreparationKept ==
  ASSUME PaperInv, NEW k \in Kinds, StartPreparation(k)
  PROVE  PaperInv'
<1>1. UNCHANGED <<worker, pass, fee, acct, invalid, chain, reorgs, lifecycle, marks, ledger,
                  previews, ops, shared>> /\ exclusive' \in Owners /\ NextFrame
      /\ k \in Closes /\ k \in OpKinds
  BY KindsKnown DEF StartPreparation, chainVars, bookVars, opVars, Owners
<1>2. After(Latest, Len(chain)) /\ Latest \in Nat /\ Len(chain) \in Nat
      /\ chain[Len(chain)] \in Forks
  BY <1>1, FrameAfter
<1> DEFINE x == [IdleSrv EXCEPT !.pc = "preparing", !.kind = k, !.prev = Latest,
                            !.block = Len(chain), !.fork = chain[Len(chain)]]
<1>3. /\ x \in SrvRecord /\ x.pc = "preparing" /\ x.kind = k /\ x.prev = Latest
      /\ x.block = Len(chain)
  BY <1>1, <1>2, IdleTyped DEF IdleSrv, SrvRecord
<1>4. srv' = x
  BY DEF StartPreparation
<1> HIDE DEF x
<1>5. BookInv' /\ Grows
  BY <1>1, QuietRows
<1>6. ServerInv' /\ srv' \in SrvRecord
  BY <1>1, <1>2, <1>3, <1>4 DEF ServerInv, After, Latest
<1> QED BY <1>1, <1>5, <1>6, TypedSame, ServerMoves

\* The preparation is saved or given up (FinishPreparation, AbortPreparation).
LEMMA PreparationKept ==
  ASSUME PaperInv, FinishPreparation \/ AbortPreparation
  PROVE  PaperInv'
<1>1. CASE FinishPreparation
  <2>1. /\ srv.pc = "preparing" /\ SavePreview(srv.kind, srv.prev, srv.block, srv.fork)
        /\ srv' = IdleSrv
        /\ UNCHANGED <<worker, pass, fee, acct, invalid, chain, reorgs, lifecycle, marks, ledger,
                       ops, exclusive, shared>>
    BY <1>1 DEF FinishPreparation, chainVars, bookVars, leaseVars
  <2>2. srv.kind \in OpKinds /\ srv.prev \in Nat /\ srv.block \in Nat /\ srv.fork \in Forks
    BY TypedSame DEF SrvRecord
  <2>3. After(srv.prev, srv.block)
    BY <2>1 DEF PaperInv, ServerInv
  <2> QED BY <2>1, <2>2, <2>3, SavedKept
<1>2. CASE AbortPreparation
  <2>1. UNCHANGED <<worker, pass, fee, acct, invalid, chain, reorgs, lifecycle, marks, ledger,
                    previews, ops, shared>> /\ srv' = IdleSrv /\ exclusive' \in Owners
    BY <1>2, TypedSame DEF AbortPreparation, chainVars, bookVars, opVars, Owners
  <2>2. BookInv' /\ Grows
    BY <2>1, QuietRows
  <2>3. srv' \in SrvRecord /\ ServerInv'
    BY <2>1, IdleTyped DEF ServerInv, IdleSrv
  <2> QED BY <2>1, <2>2, <2>3, TypedSame, ServerMoves
<1> QED BY <1>1, <1>2

\* A preview's deadline passes (ExpirePreview).
LEMMA ExpireKept ==
  ASSUME PaperInv, NEW p \in 1 .. Len(previews), ExpirePreview(p)
  PROVE  PaperInv'
<1>1. UNCHANGED <<worker, pass, fee, acct, invalid, chain, reorgs, lifecycle, marks, ledger,
                  ops, shared, srv>> /\ exclusive' \in Owners
      /\ previews' = [previews EXCEPT ![p].live = FALSE]
  BY TypedSame DEF ExpirePreview, chainVars, bookVars, Owners
<1>2. previews' \in Seq(PreviewRecord) /\ BookInv' /\ Grows
  BY <1>1, ExpiredRows
<1> QED BY <1>1, <1>2, TypedSame, ServerMoves

\* An acceptance by the server.
LEMMA AcceptedKept ==
  ASSUME PaperInv, NEW p \in 1 .. Len(previews), NEW k \in KeyValues,
         ~SomePending, ops' = Queued(previews[p].kind, p, k),
         IF previews[p].kind = "open" THEN lifecycle = "draft" /\ lifecycle' = "opening"
         ELSE /\ lifecycle \in {"active", "paused"}
              /\ lifecycle' = IF previews[p].kind \in Closes THEN "closing" ELSE lifecycle,
         UNCHANGED <<worker, pass, fee, acct, invalid, chain, reorgs, marks, ledger, previews, shared>>,
         exclusive' \in Owners, srv' \in {srv, IdleSrv}
  PROVE  PaperInv'
<1>1. ops' \in Seq(OpRecord) /\ BookInv' /\ Grows
  BY AcceptedRows
<1>2. srv' \in SrvRecord /\ (srv' = srv \/ ServerInv')
  BY TypedSame, IdleTyped DEF ServerInv, IdleSrv
<1>3. lifecycle' \in {"draft", "opening", "active", "paused", "closing", "closed"}
  OBVIOUS
<1> QED BY <1>1, <1>2, <1>3, TypedSame, ServerMoves

\* An acceptance in one transaction (AcceptOpenOrLifecycle, AcceptClose).
LEMMA AcceptKept ==
  ASSUME PaperInv, NEW p \in 1 .. Len(previews), NEW k \in Keys,
         AcceptOpenOrLifecycle(p, k) \/ AcceptClose(p, k)
  PROVE  PaperInv'
<1>1. k \in KeyValues
  BY DEF KeyValues
<1>2. CASE AcceptOpenOrLifecycle(p, k)
  <2>1. /\ ~SomePending /\ ops' = Queued(previews[p].kind, p, k)
        /\ previews[p].kind \in {"open", "pause", "resume"}
        /\ UNCHANGED <<worker, pass, fee, acct, invalid, chain, reorgs, marks, ledger, previews,
                       shared, exclusive, srv>>
    BY <1>2 DEF AcceptOpenOrLifecycle, Acceptable, chainVars, leaseVars
  <2>2. IF previews[p].kind = "open" THEN lifecycle = "draft" /\ lifecycle' = "opening"
        ELSE /\ lifecycle \in {"active", "paused"} /\ lifecycle' = lifecycle
    BY <1>2, <2>1 DEF AcceptOpenOrLifecycle
  <2>3. {"open", "pause", "resume"} \cap Closes = {}
    BY DEF Closes
  <2> QED BY <1>1, <2>1, <2>2, <2>3, TypedSame, AcceptedKept
<1>3. CASE AcceptClose(p, k)
  <2>1. /\ ~SomePending /\ ops' = Queued(previews[p].kind, p, k)
        /\ previews[p].kind \in Closes /\ previews[p].kind # "open"
        /\ lifecycle \in {"active", "paused"} /\ lifecycle' = "closing"
        /\ UNCHANGED <<worker, pass, fee, acct, invalid, chain, reorgs, marks, ledger, previews,
                       shared, srv>>
    BY <1>3 DEF AcceptClose, Acceptable, chainVars, Closes
  <2>2. exclusive' \in Owners
    BY <1>3, TypedSame DEF AcceptClose, Owners
  <2> QED BY <1>1, <2>1, <2>2, AcceptedKept
<1> QED BY <1>2, <1>3

\* The verification before a conversion is accepted (BeginAcceptConvert).
LEMMA BeginAcceptConvertKept ==
  ASSUME PaperInv, NEW p \in 1 .. Len(previews), NEW k \in Keys, BeginAcceptConvert(p, k)
  PROVE  PaperInv'
<1>1. UNCHANGED <<worker, pass, fee, acct, invalid, chain, reorgs, lifecycle, marks, ledger,
                  previews, ops, shared, exclusive>> /\ previews[p].kind = "close_convert"
  BY DEF BeginAcceptConvert, chainVars, bookVars, opVars, leaseVars
<1> DEFINE x == [IdleSrv EXCEPT !.pc = "accepting", !.preview = p, !.key = k]
<1>2. x \in SrvRecord /\ x.pc = "accepting" /\ x.preview = p
  <2>1. p \in Nat /\ k \in KeyValues
    BY LengthsNat DEF KeyValues, PaperInv
  <2> QED BY <2>1, IdleTyped DEF IdleSrv, SrvRecord
<1>3. srv' = x
  BY DEF BeginAcceptConvert
<1> HIDE DEF x
<1>4. BookInv' /\ Grows
  BY <1>1, QuietRows
<1>5. ServerInv' /\ srv' \in SrvRecord
  BY <1>1, <1>2, <1>3 DEF ServerInv
<1> QED BY <1>1, <1>4, <1>5, TypedSame, ServerMoves

\* The acceptance of a static conversion (CommitAcceptConvert).
LEMMA CommitAcceptConvertKept ==
  ASSUME PaperInv, CommitAcceptConvert
  PROVE  PaperInv'
<1>1. /\ srv' = IdleSrv /\ srv.pc = "accepting"
      /\ UNCHANGED <<worker, pass, fee, acct, invalid, chain, reorgs, marks, ledger, previews,
                     shared>>
      /\ exclusive' \in Owners
  BY TypedSame DEF CommitAcceptConvert, chainVars, Owners
<1>2. srv.preview \in 1 .. Len(previews) /\ previews[srv.preview].kind = "close_convert"
      /\ srv.key \in KeyValues
  BY <1>1, TypedSame DEF PaperInv, ServerInv, SrvRecord
<1>3. CASE UNCHANGED <<ops, lifecycle>>
  <2>1. BookInv' /\ Grows
    BY <1>1, <1>3, QuietRows
  <2>2. srv' \in SrvRecord /\ ServerInv'
    BY <1>1, IdleTyped DEF ServerInv, IdleSrv
  <2> QED BY <1>1, <1>3, <2>1, <2>2, TypedSame, ServerMoves
<1>4. CASE /\ ops' = Queued("close_convert", srv.preview, srv.key) /\ lifecycle' = "closing"
           /\ ~SomePending /\ lifecycle \in {"active", "paused"}
  BY <1>1, <1>2, <1>4, AcceptedKept DEF Closes
<1> QED BY <1>3, <1>4 DEF CommitAcceptConvert, Acceptable

-----------------------------------------------------------------------------
(* The invariant.                                                           *)

\* The invariant holds of a draft campaign.
LEMMA PaperInit == Init => PaperInv
<1> SUFFICES ASSUME Init PROVE PaperInv
  OBVIOUS
<1> USE Bounds, IdleTyped DEF Init
<1>1. Latest = 0 /\ Len(ops) = 0 /\ Len(previews) = 0
  BY DEF Latest
<1>2. Typed
  <2>1. chain \in Seq(Forks) /\ Len(chain) = 1 /\ 1 \in 1 .. MaxBlock
    OBVIOUS
  <2>2. worker \in [Workers -> WorkerRecord]
    OBVIOUS
  <2> QED BY <1>1, <2>1, <2>2 DEF Typed, Owners
<1>3. RowsInv /\ BooksInv
  BY <1>1 DEF RowsInv, BooksInv
<1>4. StoryInv
  BY <1>1 DEF StoryInv, MarkStory
<1>5. ServerInv /\ WorkersInv
  BY DEF ServerInv, IdleSrv, WorkersInv, Carries, Holds, IdleWorker, OpPcs, PassPcs
<1> QED BY <1>2, <1>3, <1>4, <1>5 DEF PaperInv

\* Every action of the server, the workers, the chain and the faults keeps it.
LEMMA PaperNext == PaperInv /\ [Next]_vars => PaperInv'
<1> SUFFICES ASSUME PaperInv, [Next]_vars PROVE PaperInv'
  OBVIOUS
<1>1. CASE Grow \/ \E b \in 1 .. Len(chain) : Reorg(b)
  BY <1>1, ChainKept
<1>2. CASE ServerStep
  <2>1. CASE DeleteDraft
    BY <2>1, DeleteDraftKept
  <2>2. ASSUME NEW k \in Kinds, Preview(k) \/ StartPreparation(k) PROVE PaperInv'
    BY <2>2, PreviewKept, StartPreparationKept
  <2>3. CASE FinishPreparation \/ AbortPreparation
    BY <2>3, PreparationKept
  <2>4. CASE CommitAcceptConvert
    BY <2>4, CommitAcceptConvertKept
  <2>5. ASSUME NEW p \in 1 .. Len(previews), ExpirePreview(p) PROVE PaperInv'
    BY <2>5, ExpireKept
  <2>6. ASSUME NEW p \in 1 .. Len(previews), NEW k \in Keys,
               AcceptOpenOrLifecycle(p, k) \/ AcceptClose(p, k) \/ BeginAcceptConvert(p, k)
        PROVE  PaperInv'
    BY <2>6, AcceptKept, BeginAcceptConvertKept
  <2> QED BY <1>2, <2>1, <2>2, <2>3, <2>4, <2>5, <2>6 DEF ServerStep
<1>3. ASSUME NEW w \in Workers, OpStep(w) PROVE PaperInv'
  BY <1>3, ClaimKept, PreflightKept, AdvanceKept, CompleteKept DEF OpStep
<1>4. ASSUME NEW w \in Workers, LoseRenewal(w) \/ StartPass(w) \/ StartRecenter(w)
      PROVE  PaperInv'
  BY <1>4, LoseRenewalKept, StartPassKept, StartRecenterKept
<1>5. ASSUME NEW w \in Workers, PassStep(w) PROVE PaperInv'
  BY <1>5, AuditKept, ReadFeeKept, RecordFeeKept, AccountKept, ObserveKept,
     RecordObservationKept, FreezeRecenterKept, AcceptRecenterKept DEF PassStep
<1>6. ASSUME NEW w \in Workers, Crash(w) \/ Restart(w) \/ ReadFails(w) PROVE PaperInv'
  BY <1>6, CrashKept, RestartKept, ReadFailsKept
<1>7. ASSUME NEW i \in 1 .. Len(ops), ClaimLapses(i) \/ Stall(i) PROVE PaperInv'
  BY <1>7, LapsedKept DEF ClaimLapses, Stall, chainVars, bookVars, leaseVars
<1>8. CASE LeaseLost
  BY <1>8, LeaseLostKept
<1>9. CASE UNCHANGED vars
  <2>1. UNCHANGED <<worker, pass, fee, acct, invalid, chain, reorgs, lifecycle, marks, ledger,
                  previews, ops, exclusive, shared, srv>>
    BY <1>9 DEF vars
  <2>2. BookInv' /\ Grows
    BY <2>1, QuietRows
  <2> QED BY <2>1, <2>2, TypedSame, ServerMoves
<1> QED BY <1>1, <1>2, <1>3, <1>4, <1>5, <1>6, <1>7, <1>8, <1>9 DEF Next

\* The invariant holds in every state.
THEOREM PaperCorrect == Spec => []PaperInv
BY PaperInit, PaperNext, PTL DEF Spec

-----------------------------------------------------------------------------
(* What it says of the commands.                                            *)

\* The invariant implies the type invariant that the runs check.
LEMMA TypeHolds == PaperInv => TypeOK
<1> SUFFICES ASSUME PaperInv PROVE TypeOK
  OBVIOUS
<1> USE LengthsNat, Bounds
<1>1. Typed /\ RowsInv
  BY DEF PaperInv
<1>2. chain \in UNION {[1 .. n -> Forks] : n \in 1 .. MaxBlock} /\ reorgs \in Forks
  <2>1. chain \in [1 .. Len(chain) -> Forks] /\ Len(chain) \in 1 .. MaxBlock
    BY <1>1 DEF Typed
  <2> QED BY <1>1, <2>1 DEF Typed
<1>3. ASSUME NEW m \in 1 .. Latest
      PROVE  /\ marks[m].block \in 1 .. MaxBlock /\ marks[m].fork \in Forks
             /\ marks[m].op \in 0 .. Len(ops)
             /\ marks[m].kind = IF marks[m].op = 0 THEN "mark" ELSE ops[marks[m].op].kind
  <2>1. marks[m] \in MarkRecord /\ marks[m].op \in Nat
    BY <1>1, MarkRefs
  <2> QED BY <1>1, <2>1 DEF RowsInv, MarkRecord
<1>4. ASSUME NEW i \in 1 .. Len(ops)
      PROVE  /\ ops[i].preview \in 1 .. Len(previews)
             /\ previews[ops[i].preview].kind = ops[i].kind
             /\ ops[i].by \in Workers \cup {NoOne} /\ (ops[i].valid => ops[i].by # NoOne)
             /\ ops[i].status \in {"queued", "preflighting", "executing", "reconciling",
                                   "succeeded", "blocked"}
  BY <1>1, OpTyped DEF RowsInv, Statuses, Unsettled
<1>5. ASSUME NEW w \in Workers
      PROVE  /\ worker[w].pc \in {"idle", "down"} \cup OpPcs \cup PassPcs
             /\ worker[w].pc \in PassPcs <=> pass = w
  <2>1. worker[w] \in WorkerRecord
    BY <1>1 DEF Typed
  <2> QED BY <2>1 DEF WorkerRecord, PaperInv, WorkersInv, Carries, Holds
<1>6. /\ lifecycle \in {"draft", "opening", "active", "paused", "closing", "closed"}
      /\ fee \subseteq (1 .. Latest) \X (1 .. Latest)
      /\ invalid \subseteq acct /\ acct \subseteq {"v1", "v2", "v3", "rk"} \X (1 .. Latest)
      /\ exclusive \in Owners /\ shared \subseteq Workers /\ pass \in Workers \cup {NoOne}
  BY <1>1 DEF Typed
<1> QED BY <1>2, <1>3, <1>4, <1>5, <1>6 DEF TypeOK

\* It implies that an operation is booked once: its mark and its ledger entry are
\* the only ones.
LEMMA BookedHolds == PaperInv => BookedOnce
<1> SUFFICES ASSUME PaperInv, NEW i \in 1 .. Len(ops)
             PROVE  LET n == IF ops[i].status = "succeeded" /\ ops[i].kind \notin {"pause", "resume"}
                             THEN 1 ELSE 0
                    IN /\ Cardinality({m \in 1 .. Latest : marks[m].op = i}) = n
                       /\ Cardinality({e \in ledger : e[2] = i}) = n
  BY DEF BookedOnce
<1> DEFINE M == {m \in 1 .. Latest : marks[m].op = i}
           L == {e \in ledger : e[2] = i}
<1>1. BooksInv /\ i \in Nat /\ i > 0
  BY LengthsNat DEF PaperInv
<1>2. Done(i) <=> (ops[i].status = "succeeded" /\ ops[i].kind \notin {"pause", "resume"})
  BY DEF Done, Moves
<1>3. CASE Done(i)
  <2>1. PICK m \in 1 .. Latest : marks[m].op = i
    BY <1>1, <1>3 DEF BooksInv
  <2>2. M = {m}
    BY <1>1, <2>1 DEF BooksInv
  <2>3. L = {<<ops[i].kind, i>>}
    <3>1. <<ops[i].kind, i>> \in L
      BY <1>1, <1>3 DEF BooksInv
    <3>2. \A e \in L : e = <<ops[i].kind, i>>
      BY <1>1 DEF BooksInv
    <3> HIDE DEF L
    <3> QED BY <3>1, <3>2
  <2> HIDE DEF M, L
  <2>4. Cardinality(M) = 1 /\ Cardinality(L) = 1
    BY <2>2, <2>3, FS_Singleton
  <2> QED BY <1>2, <1>3, <2>4 DEF M, L
<1>4. CASE ~Done(i)
  <2>1. M = {}
    BY <1>1, <1>4 DEF BooksInv
  <2>2. L = {}
    BY <1>1, <1>4 DEF BooksInv
  <2> HIDE DEF M, L
  <2>3. Cardinality(M) = 0 /\ Cardinality(L) = 0
    BY <2>1, <2>2, FS_EmptySet
  <2> QED BY <1>2, <1>4, <2>3 DEF M, L
<1> QED BY <1>3, <1>4

\* It implies that the lifecycle explains the one pending operation.
LEMMA PendingHolds == PaperInv => PendingExplains
<1> SUFFICES ASSUME PaperInv PROVE PendingExplains
  OBVIOUS
<1> DEFINE P == {i \in 1 .. Len(ops) : Pending(i)}
<1>1. StoryInv
  BY DEF PaperInv
<1>2. Cardinality(P) <= 1
  <2>1. CASE P = {}
    <3> HIDE DEF P
    <3> QED BY <2>1, FS_EmptySet
  <2>2. CASE P # {}
    <3>1. PICK i \in P : TRUE
      BY <2>2
    <3>2. P = {i}
      BY <1>1, <3>1 DEF StoryInv
    <3> HIDE DEF P
    <3>3. Cardinality({i}) = 1
      BY FS_Singleton
    <3> QED BY <3>2, <3>3
  <2> QED BY <2>1, <2>2
<1>3. (lifecycle = "opening") = \E i \in P : ops[i].kind = "open"
  BY <1>1 DEF StoryInv, SomePending
<1>4. (lifecycle = "closing") = \E i \in P : ops[i].kind \in Closes
  BY <1>1 DEF StoryInv, SomePending
<1>5. lifecycle \in {"draft", "closed"} => P = {}
  BY <1>1 DEF StoryInv
<1> QED BY <1>2, <1>3, <1>4, <1>5 DEF PendingExplains

\* Operations of a campaign are accepted one at a time and booked once, and its
\* marks, ledger and lifecycle tell one story.
THEOREM CommandsAreSound == Spec => []CommandsSound
<1>1. PaperInv => CommandsSound
  BY TypeHolds, BookedHolds, PendingHolds DEF CommandsSound, PaperInv, StoryInv
<1> QED BY <1>1, PaperCorrect, PTL

-----------------------------------------------------------------------------
(* Settled operations.                                                      *)

\* A step appends an operation or sets one that is not settled.
OpsStep ==
  \/ ops' = ops
  \/ \E o : ops' = Append(ops, o)
  \/ \E j \in 1 .. Len(ops) : /\ ops[j].status \notin {"succeeded", "blocked"}
                              /\ \E o : ops' = [ops EXCEPT ![j] = o]

\* A worker sets the operation it owns, which is not settled: a lapsed owner is
\* fenced.
LEMMA OwnerStep ==
  ASSUME PaperInv, NEW w \in Workers, worker[w].pc \in OpPcs,
         Preflight(w) \/ Advance(w) \/ Complete(w) \/ ReadFails(w)
  PROVE  OpsStep
<1>1. PICK i \in 1 .. Len(ops) : i = worker[w].op
  BY OwnerFacts
<1>2. Owns(w) => ops[i].status \notin {"succeeded", "blocked"}
  BY <1>1, OwnerFacts DEF Unsettled
<1>3. ops' = ops \/ (Owns(w) /\ \E o : ops' = [ops EXCEPT ![i] = o])
  <2>1. ASSUME Block(w) PROVE ops' = ops \/ (Owns(w) /\ \E o : ops' = [ops EXCEPT ![i] = o])
    BY <1>1, <2>1 DEF Block
  <2>2. ASSUME Drop(w) PROVE ops' = ops
    BY <2>2 DEF Drop, opVars
  <2>3. ASSUME Preflight(w) PROVE ops' = ops \/ Block(w)
    BY <2>2, <2>3 DEF Preflight, opVars
  <2>4. ASSUME Advance(w)
        PROVE  ops' = ops \/ Block(w) \/ (Owns(w) /\ \E o : ops' = [ops EXCEPT ![i] = o])
    BY <1>1, <2>2, <2>4 DEF Advance
  <2>5. ASSUME Complete(w)
        PROVE  ops' = ops \/ Block(w) \/ (Owns(w) /\ \E o : ops' = [ops EXCEPT ![i] = o])
    BY <1>1, <2>2, <2>5 DEF Complete, Fenced, Book
  <2>6. ASSUME ReadFails(w)
        PROVE  ops' = ops \/ (Owns(w) /\ \E o : ops' = [ops EXCEPT ![i] = o])
    BY <1>1, <2>6 DEF ReadFails, opVars
  <2> QED BY <2>1, <2>3, <2>4, <2>5, <2>6
<1> QED BY <1>2, <1>3 DEF OpsStep

\* Every step is one of these.
LEMMA OpsSteps == PaperInv /\ [Next]_vars => OpsStep
<1> SUFFICES ASSUME PaperInv, [Next]_vars PROVE OpsStep
  OBVIOUS
<1>1. CASE Grow \/ (\E b \in 1 .. Len(chain) : Reorg(b)) \/ LeaseLost \/ UNCHANGED vars
  BY <1>1 DEF Grow, Reorg, LeaseLost, vars, opVars, OpsStep
<1>2. CASE ServerStep
  BY <1>2 DEF ServerStep, DeleteDraft, Preview, StartPreparation, FinishPreparation,
     AbortPreparation, CommitAcceptConvert, ExpirePreview, AcceptOpenOrLifecycle, AcceptClose,
     BeginAcceptConvert, Queued, opVars, OpsStep
<1>3. ASSUME NEW w \in Workers, NEW i \in 1 .. Len(ops), Claim(w, i) PROVE OpsStep
  BY <1>3 DEF Claim, OpsStep
<1>4. ASSUME NEW w \in Workers, Preflight(w) \/ Advance(w) \/ Complete(w) PROVE OpsStep
  <2>1. worker[w].pc \in OpPcs
    BY <1>4 DEF Preflight, Advance, Complete, OpPcs
  <2> QED BY <1>4, <2>1, OwnerStep
<1>5. ASSUME NEW w \in Workers,
             LoseRenewal(w) \/ StartPass(w) \/ StartRecenter(w) \/ Crash(w) \/ Restart(w)
      PROVE  ops' = ops
  BY <1>5 DEF LoseRenewal, StartPass, StartRecenter, EndPass, Crash, Restart, opVars
<1>6. ASSUME NEW w \in Workers, PassStep(w) PROVE OpsStep
  BY <1>6 DEF PassStep, Audit, ReadFee, RecordFee, Account, Observe, RecordObservation,
     FreezeRecenter, AcceptRecenter, EndPass, Queued, opVars, OpsStep
<1>7. ASSUME NEW w \in Workers, ReadFails(w) PROVE OpsStep
  <2>1. CASE worker[w].pc \in OpPcs
    BY <1>7, <2>1, OwnerStep
  <2>2. CASE worker[w].pc \notin OpPcs
    BY <1>7, <2>2 DEF ReadFails, opVars, OpsStep
  <2> QED BY <2>1, <2>2
<1>8. ASSUME NEW i \in 1 .. Len(ops), ClaimLapses(i) \/ Stall(i) PROVE OpsStep
  <2>1. ops[i].status \in Unsettled
    BY <1>8 DEF ClaimLapses, Stall, PaperInv, RowsInv
  <2>2. ops' = [ops EXCEPT ![i] = [ops[i] EXCEPT !.valid = FALSE]]
    BY <1>8 DEF ClaimLapses, Stall
  <2> QED BY <2>1, <2>2 DEF OpsStep, Unsettled
<1> QED BY <1>1, <1>2, <1>3, <1>4, <1>5, <1>6, <1>7, <1>8 DEF Next, OpStep, OpsStep

\* A settled operation stays as it is, whoever claimed it before and wakes up
\* later.
THEOREM SettledStaysFinal == Spec => SettledFinal
<1>1. PaperInv /\ [Next]_vars =>
        \A i \in 1 .. Len(ops) : ops[i].status \in {"succeeded", "blocked"} => ops'[i] = ops[i]
  <2> SUFFICES ASSUME PaperInv, OpsStep, NEW i \in 1 .. Len(ops),
                      ops[i].status \in {"succeeded", "blocked"}
               PROVE  ops'[i] = ops[i]
    BY OpsSteps
  <2>1. ops \in Seq(OpRecord) /\ Len(ops) \in Nat
    BY LengthsNat DEF PaperInv, Typed
  <2>2. ASSUME NEW o, ops' = Append(ops, o) PROVE ops'[i] = ops[i]
    BY <2>1, <2>2
  <2>3. ASSUME NEW j \in 1 .. Len(ops), NEW o, j # i, ops' = [ops EXCEPT ![j] = o]
        PROVE  ops'[i] = ops[i]
    BY <2>1, <2>3
  <2> QED BY <2>2, <2>3 DEF OpsStep
<1> QED BY <1>1, PaperCorrect, PTL DEF Spec, SettledFinal

-----------------------------------------------------------------------------
(* The books under a preparation.                                           *)

\* Marks, fee evidence and accounting stay.
BooksSame == UNCHANGED <<marks, fee, acct>>

\* A pass writes only while no one prepares: each transaction looks for the lease
\* itself (MutationAllowed), whatever lease the pass believes to hold.
LEMMA PassStepFrozen ==
  ASSUME PaperInv, NEW w \in Workers, PassStep(w)
  PROVE  BooksSame \/ exclusive = NoOne
<1>1. ASSUME EndPass(w) PROVE BooksSame
  BY <1>1 DEF EndPass, bookVars, BooksSame
<1>2. ASSUME Audit(w) \/ ReadFee(w) \/ Observe(w) \/ FreezeRecenter(w) \/ AcceptRecenter(w)
      PROVE  BooksSame
  BY <1>1, <1>2 DEF Audit, ReadFee, Observe, FreezeRecenter, AcceptRecenter, bookVars, BooksSame
<1>3. ASSUME RecordFee(w) PROVE BooksSame \/ exclusive = NoOne
  BY <1>1, <1>3 DEF RecordFee, MutationAllowed
<1>4. ASSUME RecordObservation(w) PROVE BooksSame \/ exclusive = NoOne
  BY <1>1, <1>4 DEF RecordObservation, ObservationFits, ValuationFits, RangeKeeperMarkFits,
     MutationAllowed
<1>5. ASSUME Account(w) PROVE BooksSame \/ exclusive = NoOne
  BY <1>1, <1>5 DEF Account, AccountingFits, StaticAccountingFits, RangeKeeperAccountingFits,
     SnapshotFits, MutationAllowed, bookVars, BooksSame
<1> QED BY <1>2, <1>3, <1>4, <1>5 DEF PassStep

\* Of the steps on an operation only a completion writes the books.
LEMMA OpStepFrozen ==
  ASSUME PaperInv, NEW w \in Workers, OpStep(w)
  PROVE  BooksSame \/ \E i \in 1 .. Len(ops) : Pending(i) /\ ops'[i].status = "succeeded"
<1>1. ASSUME Block(w) \/ Drop(w) PROVE BooksSame
  BY <1>1 DEF Block, Drop, bookVars, BooksSame
<1>2. ASSUME NEW i \in 1 .. Len(ops), Claim(w, i) PROVE BooksSame
  BY <1>2 DEF Claim, bookVars, BooksSame
<1>3. ASSUME Preflight(w) \/ Advance(w) PROVE BooksSame
  BY <1>1, <1>3 DEF Preflight, Advance, bookVars, BooksSame
<1>4. ASSUME Complete(w), ~BooksSame
      PROVE  \E i \in 1 .. Len(ops) : Pending(i) /\ ops'[i].status = "succeeded"
  <2>1. Fenced(w) /\ Book(w) /\ worker[w].pc \in OpPcs
    BY <1>1, <1>4 DEF Complete, OpPcs
  <2>2. PICK i \in 1 .. Len(ops) : i = worker[w].op
    BY <2>1, OwnerFacts
  <2>3. Pending(i)
    BY <2>1, <2>2 DEF Fenced, Pending
  <2>4. ops[i] \in OpRecord /\ ops \in Seq(OpRecord)
    BY OpTyped DEF PaperInv, Typed
  <2>5. ops' = [ops EXCEPT ![i] = Unclaimed(ops[i], "succeeded")]
    BY <2>1, <2>2 DEF Book
  <2>6. ops'[i].status = "succeeded"
    BY <2>4, <2>5 DEF Unclaimed, OpRecord
  <2> QED BY <2>3, <2>6
<1> QED BY <1>2, <1>3, <1>4 DEF OpStep

\* While a close or recentre is prepared under the exclusive lease, only a
\* completion writes marks, fee evidence or accounting.
THEOREM PreparedStaysFrozen == Spec => PreparedFrozen
<1> DEFINE Completes == \E i \in 1 .. Len(ops) : Pending(i) /\ ops'[i].status = "succeeded"
<1>1. PaperInv /\ [Next]_vars => BooksSame \/ exclusive = NoOne \/ Completes
  <2> SUFFICES ASSUME PaperInv, [Next]_vars PROVE BooksSame \/ exclusive = NoOne \/ Completes
    OBVIOUS
  <2>1. CASE Grow \/ (\E b \in 1 .. Len(chain) : Reorg(b)) \/ LeaseLost \/ UNCHANGED vars
    BY <2>1 DEF Grow, Reorg, LeaseLost, vars, bookVars, BooksSame
  <2>2. ASSUME ServerStep PROVE BooksSame
    <3>1. CASE DeleteDraft \/ FinishPreparation \/ AbortPreparation \/ CommitAcceptConvert
      BY <3>1 DEF DeleteDraft, FinishPreparation, AbortPreparation, CommitAcceptConvert,
         bookVars, BooksSame
    <3>2. ASSUME NEW k \in Kinds, Preview(k) \/ StartPreparation(k) PROVE BooksSame
      BY <3>2 DEF Preview, StartPreparation, bookVars, BooksSame
    <3>3. ASSUME NEW p \in 1 .. Len(previews), ExpirePreview(p) PROVE BooksSame
      BY <3>3 DEF ExpirePreview, bookVars, BooksSame
    <3>4. ASSUME NEW p \in 1 .. Len(previews), NEW k \in Keys,
                 AcceptOpenOrLifecycle(p, k) \/ AcceptClose(p, k) \/ BeginAcceptConvert(p, k)
          PROVE  BooksSame
      BY <3>4 DEF AcceptOpenOrLifecycle, AcceptClose, BeginAcceptConvert, bookVars, BooksSame
    <3> QED BY <2>2, <3>1, <3>2, <3>3, <3>4 DEF ServerStep
  <2>3. ASSUME NEW w \in Workers, OpStep(w) PROVE BooksSame \/ Completes
    BY <2>3, OpStepFrozen
  <2>4. ASSUME NEW w \in Workers, PassStep(w) PROVE BooksSame \/ exclusive = NoOne
    BY <2>4, PassStepFrozen
  <2>5. ASSUME NEW w \in Workers, LoseRenewal(w) \/ StartPass(w) \/ StartRecenter(w) \/ Crash(w)
                                  \/ Restart(w) \/ ReadFails(w)
        PROVE  BooksSame
    BY <2>5 DEF LoseRenewal, StartPass, StartRecenter, EndPass, Crash, Restart, ReadFails,
       bookVars, BooksSame
  <2>6. ASSUME NEW i \in 1 .. Len(ops), ClaimLapses(i) \/ Stall(i) PROVE BooksSame
    BY <2>6 DEF ClaimLapses, Stall, bookVars, BooksSame
  <2> QED BY <2>1, <2>2, <2>3, <2>4, <2>5, <2>6 DEF Next
<1> HIDE DEF Completes
<1>2. PaperInv /\ [Next]_vars =>
        (exclusive # NoOne /\ exclusive' = exclusive
          /\ <<marks, fee, acct>>' # <<marks, fee, acct>> => Completes)
  BY <1>1 DEF BooksSame
<1>3. PaperInv /\ [Next]_vars =>
        [exclusive # NoOne /\ exclusive' = exclusive /\ <<marks, fee, acct>>' # <<marks, fee, acct>>
       => \E i \in 1 .. Len(ops) : Pending(i) /\ ops'[i].status = "succeeded"]_vars
  BY <1>2 DEF Completes
<1> QED BY <1>3, PaperCorrect, PTL DEF Spec, PreparedFrozen

-----------------------------------------------------------------------------
(* Fee evidence and accounting.                                             *)

\* Fee intervals never overlap, skip only observations, and each starts an epoch
\* or where another ended; of a static campaign each is one mark long.
FeeInv ==
  /\ \A q \in fee :
       /\ q[1] < q[2]
       /\ marks[q[1]].kind \in {"open", "change_range"} \/ \E r \in fee : r[2] = q[1]
       /\ \A m \in q[1] + 1 .. q[2] - 1 : marks[m].kind = "mark"
       /\ Static => q[2] = q[1] + 1
  /\ \A q, r \in fee : q = r \/ q[2] <= r[1] \/ r[2] <= q[1]

\* A snapshot rests on the one before and the evidence between the two.
Rests(a) == LET p == IF a[1] = "v3" THEN "v2" ELSE a[1]
            IN \E k \in PriorAccounting(p, a[2]) : <<k, a[2]>> \in fee
\* Every snapshot after the open rests on evidence.
AcctInv == \A a \in acct : a[2] > 1 => Rests(a)

\* The inductive invariant of fee evidence and accounting, on top of PaperInv.
EvidenceInv == FeeInv /\ AcctInv /\ InvalidTail

\* The ways in which a step writes marks, fee evidence, accounting or
\* invalidations.
FeeWritten(w) ==
  /\ worker[w].pc = "feed" /\ pass = w /\ FeeFits(worker[w].from, worker[w].to)
  /\ fee' = fee \cup {<<worker[w].from, worker[w].to>>} /\ UNCHANGED <<marks, acct, invalid>>
\* A snapshot is added.
Accounted ==
  /\ ~CaughtUp /\ AccountingFits(Policy, NextAccounting(Policy))
  /\ acct' = acct \cup {<<Policy, NextAccounting(Policy)>>} /\ UNCHANGED <<marks, fee, invalid>>
\* The audit invalidates.
Invalidates ==
  /\ invalid = {} /\ Replaced # {} /\ invalid' = Invalidated /\ UNCHANGED <<marks, fee, acct>>
\* An observation becomes a mark.
Observes(w) ==
  /\ worker[w].pc = "sampled" /\ ObservationFits(w)
  /\ \E r : marks' = Append(marks, r)
  /\ UNCHANGED <<fee, acct, invalid, previews, ops>>
\* An operation is booked.
Completes(w) ==
  /\ worker[w].pc \in OpPcs /\ Fenced(w) /\ Book(w)
  /\ CompletionFits(ops[worker[w].op], previews[ops[worker[w].op].preview])

\* A step does one of these, or leaves the four tables alone.
BooksStep ==
  \/ UNCHANGED <<marks, fee, acct, invalid>>
  \/ Accounted \/ Invalidates
  \/ \E w \in Workers : FeeWritten(w) \/ Observes(w) \/ Completes(w)

\* The steps of a pass.
LEMMA PassBooksStep ==
  ASSUME NEW w \in Workers, PassStep(w)
  PROVE  BooksStep
<1>1. ASSUME EndPass(w) PROVE UNCHANGED <<marks, fee, acct, invalid>>
  BY <1>1 DEF EndPass, bookVars
<1>2. ASSUME ReadFee(w) \/ Observe(w) \/ FreezeRecenter(w) \/ AcceptRecenter(w)
      PROVE  UNCHANGED <<marks, fee, acct, invalid>>
  BY <1>1, <1>2 DEF ReadFee, Observe, FreezeRecenter, AcceptRecenter, bookVars
<1>3. ASSUME RecordFee(w) PROVE BooksStep
  BY <1>1, <1>3 DEF RecordFee, At, FeeWritten, BooksStep
<1>4. ASSUME RecordObservation(w) PROVE BooksStep
  BY <1>1, <1>4 DEF RecordObservation, At, Observes, BooksStep, opVars
<1>5. ASSUME Account(w) PROVE BooksStep
  BY <1>1, <1>5 DEF Account, Accounted, BooksStep, bookVars
<1>6. ASSUME Audit(w) PROVE BooksStep
  BY <1>1, <1>6 DEF Audit, Invalidates, BooksStep, bookVars
<1> QED BY <1>2, <1>3, <1>4, <1>5, <1>6 DEF PassStep, BooksStep

\* Every step.
LEMMA BooksSteps == [Next]_vars => BooksStep
<1> SUFFICES ASSUME [Next]_vars PROVE BooksStep
  OBVIOUS
<1> DEFINE Same == UNCHANGED <<marks, fee, acct, invalid>>
<1>1. ASSUME Grow \/ (\E b \in 1 .. Len(chain) : Reorg(b)) \/ LeaseLost \/ UNCHANGED vars
      PROVE  Same
  BY <1>1 DEF Grow, Reorg, LeaseLost, vars, bookVars
<1>2. ASSUME ServerStep PROVE Same
  BY <1>2 DEF ServerStep, DeleteDraft, Preview, StartPreparation, FinishPreparation,
     AbortPreparation, CommitAcceptConvert, ExpirePreview, AcceptOpenOrLifecycle, AcceptClose,
     BeginAcceptConvert, bookVars
<1>3. ASSUME NEW w \in Workers, OpStep(w) PROVE Same \/ Completes(w)
  <2>1. ASSUME Block(w) \/ Drop(w) PROVE Same
    BY <2>1 DEF Block, Drop, bookVars
  <2>2. ASSUME NEW i \in 1 .. Len(ops), Claim(w, i) PROVE Same
    BY <2>2 DEF Claim, bookVars
  <2>3. ASSUME Preflight(w) \/ Advance(w) PROVE Same
    BY <2>1, <2>3 DEF Preflight, Advance, bookVars
  <2>4. ASSUME Complete(w) PROVE Same \/ Completes(w)
    BY <2>1, <2>4 DEF Complete, Completes, OpPcs
  <2> QED BY <1>3, <2>2, <2>3, <2>4 DEF OpStep
<1>4. ASSUME NEW w \in Workers, LoseRenewal(w) \/ StartPass(w) \/ StartRecenter(w) \/ Crash(w)
                                \/ Restart(w) \/ ReadFails(w)
      PROVE  Same
  BY <1>4 DEF LoseRenewal, StartPass, StartRecenter, EndPass, Crash, Restart, ReadFails, bookVars
<1>5. ASSUME NEW i \in 1 .. Len(ops), ClaimLapses(i) \/ Stall(i) PROVE Same
  BY <1>5 DEF ClaimLapses, Stall, bookVars
<1> QED BY <1>1, <1>2, <1>3, <1>4, <1>5, PassBooksStep DEF Next, BooksStep

\* A fee interval is a pair of marks.
LEMMA FeeTyped ==
  ASSUME PaperInv, NEW q \in fee
  PROVE  q[1] \in 1 .. Latest /\ q[2] \in 1 .. Latest /\ q[1] \in Nat /\ q[2] \in Nat
         /\ q = <<q[1], q[2]>>
BY LengthsNat DEF PaperInv, Typed

\* A snapshot is of a mark.
LEMMA AcctTyped ==
  ASSUME PaperInv, NEW a \in acct
  PROVE  a[2] \in 1 .. Latest /\ a[2] \in Nat /\ a = <<a[1], a[2]>>
BY LengthsNat DEF PaperInv, Typed

\* Marks only grow, and what fee evidence says of them stays.
LEMMA MarksGrow ==
  ASSUME PaperInv, FeeInv, NEW r, marks' = Append(marks, r), UNCHANGED fee
  PROVE  FeeInv' /\ Latest' = Latest + 1 /\ \A m \in 1 .. Latest : marks'[m] = marks[m]
<1>1. Latest' = Latest + 1 /\ \A m \in 1 .. Latest : marks'[m] = marks[m]
  BY DEF PaperInv, Typed, Latest
<1>2. ASSUME NEW q \in fee, NEW m \in q[1] + 1 .. q[2] - 1 PROVE marks'[m].kind = "mark"
  <2>1. m \in 1 .. Latest
    <3>1. q[1] \in 1 .. Latest /\ q[2] \in 1 .. Latest /\ Latest \in Nat
      BY FeeTyped, LengthsNat DEF PaperInv
    <3> QED BY <3>1
  <2> QED BY <1>1, <1>2, <2>1 DEF FeeInv
<1>3. \A q \in fee : marks'[q[1]] = marks[q[1]]
  BY <1>1, FeeTyped
<1>4. \A q \in fee :
       /\ q[1] < q[2]
       /\ marks'[q[1]].kind \in {"open", "change_range"} \/ \E s \in fee : s[2] = q[1]
       /\ Static => q[2] = q[1] + 1
  BY <1>3 DEF FeeInv
<1>5. \A q, s \in fee : q = s \/ q[2] <= s[1] \/ s[2] <= q[1]
  BY DEF FeeInv
<1>6. FeeInv'
  BY <1>2, <1>4, <1>5 DEF FeeInv
<1> QED BY <1>1, <1>6

\* A fee interval added.
LEMMA FeeAdded ==
  ASSUME PaperInv, FeeInv, NEW f \in Nat, NEW t \in Nat, f < t,
         fee' = fee \cup {<<f, t>>},
         marks'[f].kind \in {"open", "change_range"} \/ \E r \in fee : r[2] = f,
         \A m \in f + 1 .. t - 1 : marks'[m].kind = "mark",
         Static => t = f + 1,
         \A q \in fee : q = <<f, t>> \/ q[2] <= f \/ t <= q[1],
         \A m \in 1 .. Latest : marks'[m] = marks[m]
  PROVE  FeeInv'
<1> DEFINE n == <<f, t>>
<1>1. n[1] = f /\ n[2] = t
  OBVIOUS
<1> HIDE DEF n
<1>2. fee' = fee \cup {n} /\ \A q \in fee : q = n \/ q[2] <= f \/ t <= q[1]
  BY DEF n
<1>3. \A q \in fee : marks'[q[1]] = marks[q[1]]
  BY FeeTyped
<1>4. ASSUME NEW q \in fee, NEW m \in q[1] + 1 .. q[2] - 1 PROVE marks'[m].kind = "mark"
  <2>1. m \in 1 .. Latest
    <3>1. q[1] \in 1 .. Latest /\ q[2] \in 1 .. Latest /\ Latest \in Nat
      BY FeeTyped, LengthsNat DEF PaperInv
    <3> QED BY <3>1
  <2> QED BY <1>4, <2>1 DEF FeeInv
<1>5. ASSUME NEW q \in fee'
      PROVE  /\ q[1] < q[2]
             /\ marks'[q[1]].kind \in {"open", "change_range"} \/ \E r \in fee' : r[2] = q[1]
             /\ \A m \in q[1] + 1 .. q[2] - 1 : marks'[m].kind = "mark"
             /\ Static => q[2] = q[1] + 1
  <2>1. CASE q \in fee
    <3>1. marks'[q[1]].kind \in {"open", "change_range"} \/ \E r \in fee : r[2] = q[1]
      BY <1>3, <2>1 DEF FeeInv
    <3>2. q[1] < q[2] /\ (Static => q[2] = q[1] + 1)
      BY <2>1 DEF FeeInv
    <3> QED BY <1>2, <1>4, <2>1, <3>1, <3>2
  <2>2. CASE q = n
    BY <1>1, <1>2, <2>2
  <2> QED BY <1>2, <1>5, <2>1, <2>2
<1>6. ASSUME NEW q \in fee', NEW r \in fee' PROVE q = r \/ q[2] <= r[1] \/ r[2] <= q[1]
  <2>1. CASE q \in fee /\ r \in fee
    BY <2>1 DEF FeeInv
  <2>2. CASE q = n \/ r = n
    BY <1>1, <1>2, <1>6, <2>2
  <2> QED BY <1>2, <1>6, <2>1, <2>2
<1> QED BY <1>5, <1>6 DEF FeeInv

\* Accounting rests on evidence that is only added to.
LEMMA RestsKept ==
  ASSUME PaperInv, AcctInv, UNCHANGED acct, fee \subseteq fee'
  PROVE  AcctInv'
<1>1. \A p, m : PriorAccounting(p, m)' = PriorAccounting(p, m)
  BY DEF PriorAccounting
<1> QED BY <1>1 DEF AcctInv, Rests

\* recordTrustedPaperFeeEvidence and its RangeKeeper form keep the chain: a static
\* interval is one mark long and the only one that ends there, a RangeKeeper one
\* starts at the last evidence.
LEMMA FeeWrittenKept ==
  ASSUME PaperInv, EvidenceInv, NEW w \in Workers, FeeWritten(w)
  PROVE  EvidenceInv'
<1>1. worker[w] \in WorkerRecord /\ Holds(worker[w], w) /\ worker[w].pc = "feed"
  BY PassFacts DEF FeeWritten, PassPcs
<1>2. PICK f, t \in Nat : f = worker[w].from /\ t = worker[w].to
  BY <1>1 DEF WorkerRecord
<1>3. f < t /\ t <= Latest /\ 1 <= f /\ (~Static => \A q \in fee : q[2] <= f)
  BY <1>1, <1>2 DEF Holds
<1>4. fee' = fee \cup {<<f, t>>} /\ UNCHANGED <<marks, acct, invalid>> /\ FeeFits(f, t)
  BY <1>2 DEF FeeWritten
<1>5. FeeContinues(f, t) /\ (Static => t = f + 1)
      /\ (~Static => \A m \in f + 1 .. t - 1 : marks[m].kind = "mark")
  BY <1>4 DEF FeeFits, StaticFeeFits, RangeKeeperFeeFits
<1>6. marks'[f].kind \in {"open", "change_range"} \/ \E r \in fee : r[2] = f
  BY <1>4, <1>5 DEF FeeContinues
<1>7. \A m \in f + 1 .. t - 1 : marks'[m].kind = "mark"
  BY <1>4, <1>5
<1>8. ASSUME NEW q \in fee PROVE q = <<f, t>> \/ q[2] <= f \/ t <= q[1]
  <2>1. CASE ~Static
    BY <1>3, <2>1
  <2>2. CASE Static
    <3>1. q[2] = q[1] + 1 /\ q[2] # t /\ t = f + 1 /\ q[1] \in Nat
      BY <1>5, <2>2, FeeTyped DEF EvidenceInv, FeeInv, FeeContinues
    <3> QED BY <3>1
  <2> QED BY <2>1, <2>2
<1>9. FeeInv'
  BY <1>3, <1>4, <1>5, <1>6, <1>7, <1>8, FeeAdded DEF EvidenceInv
<1>10. AcctInv'
  BY <1>4, RestsKept DEF EvidenceInv
<1>11. InvalidTail'
  BY <1>4 DEF EvidenceInv, InvalidTail
<1> QED BY <1>9, <1>10, <1>11 DEF EvidenceInv

\* A snapshot keeps the chain: it rests on evidence, and no later RangeKeeper
\* snapshot rested on an interval across its mark.
LEMMA AccountedKept ==
  ASSUME PaperInv, EvidenceInv, Accounted
  PROVE  EvidenceInv'
<1>1. PICK p \in Policies, m \in 1 .. Latest :
        p = Policy /\ m = NextAccounting(Policy) /\ m \in Accountable(p)
  <2>1. Policy \in Policies /\ Accountable(Policy) # {}
    BY PolicyFound DEF Accounted, Behind
  <2>2. NextAccounting(Policy) \in Accountable(Policy)
    BY <2>1, NextFound DEF PaperInv
  <2> QED BY <2>1, <2>2 DEF Accountable
<1>2. acct' = acct \cup {<<p, m>>} /\ UNCHANGED <<marks, fee, invalid>> /\ AccountingFits(p, m)
  BY <1>1 DEF Accounted
<1>3. invalid = {} /\ (m > 1 => \E k \in PriorAccounting(p, m) : <<k, m>> \in fee)
  BY <1>2 DEF AccountingFits, StaticAccountingFits, RangeKeeperAccountingFits, SnapshotFits
<1>4. Latest \in Nat /\ m \in Nat /\ p # "v3"
  BY LengthsNat DEF PaperInv, Policies
<1>5. FeeInv'
  BY <1>2 DEF EvidenceInv, FeeInv, Latest
<1>6. InvalidTail'
  BY <1>2, <1>3 DEF InvalidTail
<1>7. ASSUME NEW a \in acct', a[2] > 1 PROVE Rests(a)'
  <2> DEFINE b == IF a[1] = "v3" THEN "v2" ELSE a[1]
  <2>1. ASSUME NEW c, NEW l \in Nat, NEW k \in PriorAccounting(c, l), <<k, l>> \in fee,
               ~Static /\ c = p => ~(k < m /\ m < l)
        PROVE  k \in PriorAccounting(c, l)'
    <3>1. CASE Static
      BY <1>2, <2>1, <3>1 DEF PriorAccounting
    <3>2. CASE ~Static
      <4>1. k \in 1 .. l - 1 /\ <<c, k>> \in acct
            /\ \A j \in k + 1 .. l - 1 : <<c, j>> \notin acct
        BY <2>1, <3>2 DEF PriorAccounting
      <4>2. \A j \in k + 1 .. l - 1 : <<c, j>> \notin acct'
        BY <1>2, <1>4, <2>1, <3>2, <4>1
      <4> QED BY <1>2, <3>2, <4>1, <4>2 DEF PriorAccounting
    <3> QED BY <3>1, <3>2
  <2>2. CASE a = <<p, m>>
    <3>1. a[1] = p /\ a[2] = m
      BY <2>2
    <3>2. PICK k \in PriorAccounting(p, m) : <<k, m>> \in fee
      BY <1>3, <1>7, <3>1
    <3>3. k \in PriorAccounting(p, m)'
      BY <1>4, <2>1, <3>2
    <3> QED BY <1>2, <1>4, <3>1, <3>2, <3>3 DEF Rests
  <2>3. CASE a \in acct
    <3>1. a[2] \in Nat
      BY <2>3, AcctTyped
    <3>2. PICK k \in PriorAccounting(b, a[2]) : <<k, a[2]>> \in fee
      BY <1>7, <2>3 DEF EvidenceInv, AcctInv, Rests
    <3>3. ASSUME ~Static, k < m, m < a[2] PROVE FALSE
      <4> DEFINE q == <<k, a[2]>>
      <4>1. q \in fee /\ q[1] = k /\ q[2] = a[2]
        BY <3>2
      <4>2. k \in Nat
        BY <3>2, <4>1, FeeTyped
      <4>3. a[2] <= Latest
        BY <2>3, AcctTyped
      <4> HIDE DEF q
      <4>4. marks[m].kind = "mark"
        <5>1. m \in q[1] + 1 .. q[2] - 1
          BY <1>4, <3>1, <3>3, <4>1, <4>2
        <5> QED BY <4>1, <5>1 DEF EvidenceInv, FeeInv
      <4>5. m # Latest
        BY <1>4, <3>1, <3>3, <4>3
      <4>6. PICK s \in fee : s[2] = m
        BY <1>1, <3>3, <4>4, <4>5 DEF Accountable
      <4>7. s[1] < s[2] /\ (s = q \/ s[2] <= q[1] \/ q[2] <= s[1]) /\ s[1] \in Nat
        BY <4>1, <4>6, FeeTyped DEF EvidenceInv, FeeInv
      <4> QED BY <1>4, <3>1, <3>3, <4>1, <4>2, <4>6, <4>7
    <3>4. k \in PriorAccounting(b, a[2])'
      BY <2>1, <3>1, <3>2, <3>3
    <3> QED BY <1>2, <3>2, <3>4 DEF Rests
  <2> QED BY <1>2, <1>7, <2>2, <2>3
<1>8. AcctInv'
  BY <1>7 DEF AcctInv
<1> QED BY <1>5, <1>6, <1>8 DEF EvidenceInv

\* The audit invalidates everything from the first mismatched mark on.
LEMMA InvalidatesKept ==
  ASSUME PaperInv, EvidenceInv, Invalidates
  PROVE  EvidenceInv'
<1>1. invalid' = Invalidated /\ UNCHANGED <<marks, fee, acct>> /\ Replaced # {}
  BY DEF Invalidates
<1>2. FeeInv' /\ AcctInv'
  BY <1>1, RestsKept DEF EvidenceInv, FeeInv, Latest
<1>3. PICK n \in Replaced : \A k \in Replaced : n <= k
  <2>1. Len(Audited) \in Nat
    BY DEF Audited
  <2>2. Replaced \in SUBSET (1 .. Len(Audited))
    BY DEF Replaced
  <2> HIDE DEF Replaced
  <2> QED BY <1>1, <2>1, <2>2, LeastExists
<1> DEFINE i == CHOOSE n1 \in Replaced : \A k \in Replaced : n1 <= k
           p == Audited[i]
           S == Mismatched(p)
<1>4. i \in Replaced
  BY <1>3
<1>5. S # {} /\ S \in SUBSET (1 .. Latest) /\ Latest \in Nat
  <2> HIDE DEF i
  <2> QED BY <1>4, LengthsNat DEF Replaced, Mismatched, PaperInv
<1>6. PICK m \in S : \A k \in S : m <= k
  <2> HIDE DEF S
  <2> QED BY <1>5, LeastExists
<1> DEFINE c == CHOOSE x \in S : \A k \in S : x <= k
<1>7. c \in 1 .. Latest
  <2>1. c \in S
    BY <1>6
  <2> HIDE DEF S
  <2> QED BY <1>5, <2>1
<1>8. invalid' = {a \in acct : c <= a[2]}
  BY <1>1 DEF Invalidated, InvalidatedFrom
<1>9. InvalidTail'
  <2> HIDE DEF c
  <2> SUFFICES ASSUME NEW d \in invalid', NEW a \in acct, d[2] <= a[2] PROVE a \in invalid'
    BY <1>1 DEF InvalidTail
  <2>1. c <= d[2] /\ d \in acct /\ c \in Nat
    BY <1>5, <1>7, <1>8
  <2>2. d[2] \in Nat /\ a[2] \in Nat
    BY <2>1, AcctTyped
  <2> QED BY <1>8, <2>1, <2>2
<1> QED BY <1>2, <1>9 DEF EvidenceInv

\* An observation leaves evidence and accounting as they are.
LEMMA ObservesKept ==
  ASSUME PaperInv, EvidenceInv, NEW w \in Workers, Observes(w)
  PROVE  EvidenceInv'
<1>1. PICK r : marks' = Append(marks, r)
  BY DEF Observes
<1>2. UNCHANGED <<fee, acct, invalid>>
  BY DEF Observes
<1>3. FeeInv'
  BY <1>1, <1>2, MarksGrow DEF EvidenceInv
<1>4. AcctInv'
  BY <1>2, RestsKept DEF EvidenceInv
<1>5. InvalidTail'
  BY <1>2 DEF EvidenceInv, InvalidTail
<1> QED BY <1>3, <1>4, <1>5 DEF EvidenceInv

\* A completion: the terminal conversion adds evidence from the latest mark to its
\* own and the V3 snapshot on it.
LEMMA CompletesKept ==
  ASSUME PaperInv, EvidenceInv, NEW w \in Workers, Completes(w)
  PROVE  EvidenceInv'
<1>0. PICK i \in 1 .. Len(ops) : i = worker[w].op
  BY OwnerFacts DEF Completes
<1> DEFINE v == previews[ops[i].preview]
           kind == ops[i].kind
           terminal == Static /\ kind = "close_convert"
           r == [kind |-> kind, block |-> v.block, fork |-> v.fork, op |-> i]
<1>1. /\ marks' = IF kind \in Moves THEN marks ELSE Append(marks, r)
      /\ fee' = IF terminal THEN fee \cup {<<v.prev, Latest + 1>>} ELSE fee
      /\ acct' = IF terminal THEN acct \cup {<<"v3", Latest + 1>>} ELSE acct
      /\ invalid' = invalid
  BY <1>0 DEF Completes, Book, Moves
<1>2. CompletionFits(ops[i], previews[ops[i].preview])
  BY <1>0 DEF Completes
<1>3. CASE ~terminal
  <2>1. UNCHANGED <<fee, acct, invalid>>
    BY <1>1, <1>3
  <2>2. FeeInv'
    <3>1. CASE kind \in Moves
      BY <1>1, <2>1, <3>1 DEF EvidenceInv, FeeInv
    <3>2. CASE kind \notin Moves
      <4>1. \E s : marks' = Append(marks, s)
        BY <1>1, <3>2
      <4> QED BY <2>1, <4>1, MarksGrow DEF EvidenceInv
    <3> QED BY <3>1, <3>2
  <2>3. AcctInv'
    BY <2>1, RestsKept DEF EvidenceInv
  <2>4. InvalidTail'
    BY <2>1 DEF EvidenceInv, InvalidTail
  <2> QED BY <2>2, <2>3, <2>4 DEF EvidenceInv
<1>4. CASE terminal
  <2>1. ConvertCompletes(v)
    BY <1>2, <1>4 DEF CompletionFits
  <2>2. v.prev = Latest /\ (\E q \in fee : q[2] = Latest) /\ <<"v2", Latest>> \in acct
        /\ invalid = {} /\ Latest \in Nat
    BY <2>1, LengthsNat DEF ConvertCompletes, ConvertFits, PaperInv
  <2>3. PICK l \in Nat : l = Latest
    BY <2>2
  <2>4. fee' = fee \cup {<<l, l + 1>>} /\ acct' = acct \cup {<<"v3", l + 1>>} /\ invalid' = {}
    BY <1>1, <1>4, <2>2, <2>3
  <2>5. \A m \in 1 .. Latest : marks'[m] = marks[m]
    <3>1. marks' = Append(marks, r)
      BY <1>1, <1>4 DEF Moves
    <3> HIDE DEF r
    <3> QED BY <3>1 DEF PaperInv, Typed, Latest
  <2>6. FeeInv'
    <3>1. \A q \in fee : q = <<l, l + 1>> \/ q[2] <= l \/ l + 1 <= q[1]
      BY <2>3, FeeTyped
    <3>2. \A m \in l + 1 .. (l + 1) - 1 : FALSE
      BY <2>3
    <3>3. \E q \in fee : q[2] = l
      BY <2>2, <2>3
    <3> HIDE DEF terminal, r, v, kind
    <3> QED BY <2>4, <2>5, <3>1, <3>2, <3>3, FeeAdded DEF EvidenceInv
  <2>7. InvalidTail'
    BY <2>4 DEF InvalidTail
  <2>8. AcctInv'
    <3> SUFFICES ASSUME NEW a \in acct', a[2] > 1 PROVE Rests(a)'
      BY DEF AcctInv
    <3>1. \A c, m : PriorAccounting(c, m) \subseteq PriorAccounting(c, m)'
      BY <1>4, <2>4 DEF PriorAccounting
    <3>2. CASE a \in acct
      BY <2>4, <3>1, <3>2 DEF EvidenceInv, AcctInv, Rests
    <3>3. CASE a = <<"v3", l + 1>>
      <4>1. a[1] = "v3" /\ a[2] = l + 1 /\ (l + 1) - 1 = l
        BY <2>3, <3>3
      <4>2. l \in PriorAccounting("v2", l + 1)'
        BY <1>4, <2>2, <2>3, <2>4, <4>1 DEF PriorAccounting
      <4>3. <<l, l + 1>> \in fee'
        BY <2>4
      <4> QED BY <4>1, <4>2, <4>3 DEF Rests
    <3> QED BY <2>4, <3>2, <3>3
  <2> QED BY <2>6, <2>7, <2>8 DEF EvidenceInv
<1> QED BY <1>3, <1>4

\* Every step keeps evidence and accounting sound.
LEMMA EvidenceNext == PaperInv /\ EvidenceInv /\ [Next]_vars => EvidenceInv'
<1> SUFFICES ASSUME PaperInv, EvidenceInv, [Next]_vars PROVE EvidenceInv'
  OBVIOUS
<1>1. CASE UNCHANGED <<marks, fee, acct, invalid>>
  <2>1. FeeInv' /\ InvalidTail'
    BY <1>1 DEF EvidenceInv, FeeInv, InvalidTail
  <2>2. AcctInv'
    BY <1>1, RestsKept DEF EvidenceInv
  <2> QED BY <2>1, <2>2 DEF EvidenceInv
<1>2. CASE Accounted
  BY <1>2, AccountedKept
<1>3. CASE Invalidates
  BY <1>3, InvalidatesKept
<1>4. ASSUME NEW w \in Workers, FeeWritten(w) \/ Observes(w) \/ Completes(w) PROVE EvidenceInv'
  BY <1>4, FeeWrittenKept, ObservesKept, CompletesKept
<1> QED BY <1>1, <1>2, <1>3, <1>4, BooksSteps DEF BooksStep

\* Fee evidence is one unbroken account, every snapshot rests on it, and nothing
\* at or after the first invalid mark counts as valid, whatever faults strike.
THEOREM EvidenceHolds == Spec => [](EvidenceChained /\ InvalidTail)
<1>1. Init => EvidenceInv
  BY DEF Init, EvidenceInv, FeeInv, AcctInv, InvalidTail
<1>2. EvidenceInv => EvidenceChained /\ InvalidTail
  BY DEF EvidenceInv, FeeInv, AcctInv, Rests, EvidenceChained
<1> QED BY <1>1, <1>2, EvidenceNext, PaperCorrect, PTL DEF Spec

-----------------------------------------------------------------------------
(* What is accepted still builds on the latest mark.                        *)

\* A recentre is RangeKeeper's, and a preview of a kind the operator previews.
OriginInv ==
  /\ \A p \in 1 .. Len(previews) :
       previews[p].kind \in Kinds \/ (~Static /\ previews[p].kind = "change_range")
  /\ srv.pc = "preparing" => srv.kind \in Kinds
  /\ \A w \in Workers : worker[w].pc \in {"recenter", "frozen"} => ~Static

\* How the previews change.
PreviewsStep ==
  /\ Len(previews) <= Len(previews')
  /\ \A p \in 1 .. Len(previews) :
       previews'[p].kind = previews[p].kind /\ previews'[p].prev = previews[p].prev

\* A preview saved.
LEMMA SavedStep ==
  ASSUME PaperInv, NEW k, NEW prev, NEW block, NEW f, SavePreview(k, prev, block, f)
  PROVE  /\ Len(previews') = Len(previews) + 1 /\ previews'[Len(previews) + 1].kind = k
         /\ \A p \in 1 .. Len(previews) : previews'[p] = previews[p]
BY DEF SavePreview, PaperInv, Typed

\* A preview saved is of a kind that the operator or a RangeKeeper pass asks for.
LEMMA OriginSaved ==
  ASSUME PaperInv, OriginInv, NEW k, NEW prev, NEW block, NEW f, SavePreview(k, prev, block, f),
         k \in Kinds \/ (~Static /\ k = "change_range")
  PROVE  /\ PreviewsStep
         /\ \A p \in 1 .. Len(previews') :
              previews'[p].kind \in Kinds \/ (~Static /\ previews'[p].kind = "change_range")
<1>1. /\ Len(previews') = Len(previews) + 1 /\ previews'[Len(previews) + 1].kind = k
      /\ \A p \in 1 .. Len(previews) : previews'[p] = previews[p]
  BY SavedStep
<1>2. Len(previews) \in Nat
  BY LengthsNat DEF PaperInv
<1>3. \A p \in 1 .. Len(previews') : p \in 1 .. Len(previews) \/ p = Len(previews) + 1
  BY <1>1, <1>2
<1> QED BY <1>1, <1>2, <1>3 DEF PreviewsStep, OriginInv

\* A step that saves none.
LEMMA OriginQuiet ==
  ASSUME PaperInv, OriginInv, UNCHANGED previews
  PROVE  /\ PreviewsStep
         /\ \A p \in 1 .. Len(previews') :
              previews'[p].kind \in Kinds \/ (~Static /\ previews'[p].kind = "change_range")
BY LengthsNat DEF PreviewsStep, OriginInv, PaperInv

\* Only a RangeKeeper pass prepares a recentre.
Recentring(u) == worker[u].pc \in {"recenter", "frozen"}

\* A worker moves on, to a step of a recentre only if it was at one already or
\* the campaign is RangeKeeper's.
Moved(w) == \A u \in Workers : Recentring(u)' => Recentring(u) \/ (u = w /\ ~Static)

\* One worker gets a new record.
LEMMA WorkerMoved ==
  ASSUME PaperInv, NEW w \in Workers, NEW x, worker' = [worker EXCEPT ![w] = x],
         x.pc \in {"recenter", "frozen"} => ~Static \/ Recentring(w)
  PROVE  Moved(w)
<1> SUFFICES ASSUME NEW u \in Workers, Recentring(u)' PROVE Recentring(u) \/ (u = w /\ ~Static)
  BY DEF Moved
<1>1. worker \in [Workers -> WorkerRecord]
  BY DEF PaperInv, Typed
<1>2. CASE u = w
  BY <1>1, <1>2 DEF Recentring
<1>3. CASE u # w
  BY <1>1, <1>3 DEF Recentring
<1> QED BY <1>2, <1>3

\* A worker that only changes its step.
LEMMA WorkerGoes ==
  ASSUME PaperInv, NEW w \in Workers, NEW pc, Goto(w, pc),
         pc \in {"recenter", "frozen"} => ~Static \/ Recentring(w)
  PROVE  Moved(w)
<1> DEFINE x == [worker[w] EXCEPT !.pc = pc]
<1>1. worker \in [Workers -> WorkerRecord]
  BY DEF PaperInv, Typed
<1>2. worker[w] \in WorkerRecord
  BY <1>1
<1>3. x.pc = pc
  BY <1>2 DEF WorkerRecord
<1>4. worker' = [worker EXCEPT ![w] = x]
  BY DEF Goto
<1> HIDE DEF x
<1> QED BY <1>3, <1>4, WorkerMoved

\* A worker that drops what it does.
LEMMA WorkerSettles ==
  ASSUME PaperInv, NEW w \in Workers, Settle(w) \/ UNCHANGED worker
  PROVE  Moved(w)
<1>1. CASE Settle(w)
  <2>1. IdleWorker.pc = "idle"
    BY DEF IdleWorker
  <2> QED BY <1>1, <2>1, WorkerMoved DEF Settle
<1>2. CASE UNCHANGED worker
  BY <1>2 DEF Moved, Recentring
<1> QED BY <1>1, <1>2

\* Every step of a worker moves it so.
LEMMA OpsMoved ==
  ASSUME PaperInv, NEW w \in Workers, OpStep(w) \/ LoseRenewal(w)
  PROVE  Moved(w)
<1>w. worker \in [Workers -> WorkerRecord] /\ worker[w] \in WorkerRecord
  BY DEF PaperInv, Typed
<1>1. ASSUME Block(w) \/ Drop(w) \/ Book(w) PROVE Moved(w)
  BY <1>1, WorkerSettles DEF Block, Drop, Book
<1>2. ASSUME NEW i \in 1 .. Len(ops), Claim(w, i) PROVE Moved(w)
  <2>1. [IdleWorker EXCEPT !.pc = "claimed", !.op = i].pc = "claimed"
    BY DEF IdleWorker
  <2> QED BY <1>2, <2>1, WorkerMoved DEF Claim
<1>3. ASSUME Preflight(w) PROVE Moved(w)
  <2>1. Block(w) \/ Drop(w) \/ Goto(w, "checked")
    BY <1>3 DEF Preflight, Goto
  <2> QED BY <1>1, <2>1, WorkerGoes
<1>4. ASSUME Advance(w) PROVE Moved(w)
  <2>1. Block(w) \/ Drop(w) \/ \E pc \in {"checked", "ready"} : Goto(w, pc)
    BY <1>4 DEF Advance, Goto
  <2> QED BY <1>1, <2>1, WorkerGoes
<1>5. ASSUME Complete(w) PROVE Moved(w)
  BY <1>1, <1>5 DEF Complete
<1>6. ASSUME LoseRenewal(w) PROVE Moved(w)
  <2> DEFINE x == [worker[w] EXCEPT !.lost = TRUE]
  <2>1. worker' = [worker EXCEPT ![w] = x]
    BY <1>6 DEF LoseRenewal
  <2>2. x.pc = worker[w].pc
    BY <1>w DEF WorkerRecord
  <2> HIDE DEF x
  <2> QED BY <2>1, <2>2, WorkerMoved DEF Recentring
<1> QED BY <1>2, <1>3, <1>4, <1>5, <1>6 DEF OpStep

\* The steps of a pass: StartRecenter alone leads to a recentre.
LEMMA PassMoved ==
  ASSUME PaperInv, NEW w \in Workers, StartPass(w) \/ PassStep(w) \/ StartRecenter(w)
  PROVE  Moved(w)
<1>w. worker \in [Workers -> WorkerRecord] /\ worker[w] \in WorkerRecord
  BY DEF PaperInv, Typed
<1>1. ASSUME EndPass(w) PROVE Moved(w)
  BY <1>1, WorkerSettles DEF EndPass
<1>2. ASSUME NEW pc \in {"account", "fee", "observe", "audit"}, Goto(w, pc) PROVE Moved(w)
  BY <1>2, WorkerGoes
<1>3. ASSUME StartPass(w) PROVE Moved(w)
  <2> DEFINE x == [IdleWorker EXCEPT !.pc = "audit", !.sample = lifecycle \in {"active", "paused"}]
  <2>1. worker' = [worker EXCEPT ![w] = x]
    BY <1>3 DEF StartPass
  <2>2. x.pc = "audit"
    BY DEF IdleWorker
  <2> HIDE DEF x
  <2> QED BY <2>1, <2>2, WorkerMoved
<1>4. ASSUME Audit(w) PROVE Moved(w)
  <2>1. EndPass(w) \/ Settle(w) \/ \E pc \in {"account", "fee"} : Goto(w, pc)
    BY <1>4 DEF Audit
  <2> QED BY <1>1, <1>2, <2>1, WorkerSettles
<1>5. ASSUME ReadFee(w) PROVE Moved(w)
  <2>1. CASE EndPass(w) \/ Goto(w, "account")
    BY <1>1, <1>2, <2>1
  <2>2. CASE worker' = [worker EXCEPT ![w].pc = "feed", ![w].from = LastFee, ![w].to = FeeTo]
    <3> DEFINE x == [worker[w] EXCEPT !.pc = "feed", !.from = LastFee, !.to = FeeTo]
    <3>1. worker' = [worker EXCEPT ![w] = x]
      BY <1>w, <2>2 DEF WorkerRecord
    <3>2. x.pc = "feed"
      BY <1>w DEF WorkerRecord
    <3> HIDE DEF x
    <3> QED BY <3>1, <3>2, WorkerMoved
  <2> QED BY <1>5, <2>1, <2>2 DEF ReadFee
<1>6. ASSUME RecordFee(w) PROVE Moved(w)
  <2>1. CASE worker' = [worker EXCEPT ![w].pc = "account", ![w].work = TRUE]
    <3> DEFINE x == [worker[w] EXCEPT !.pc = "account", !.work = TRUE]
    <3>1. worker' = [worker EXCEPT ![w] = x]
      BY <1>w, <2>1 DEF WorkerRecord
    <3>2. x.pc = "account"
      BY <1>w DEF WorkerRecord
    <3> HIDE DEF x
    <3> QED BY <3>1, <3>2, WorkerMoved
  <2> QED BY <1>1, <1>6, <2>1 DEF RecordFee
<1>7. ASSUME Account(w) PROVE Moved(w)
  <2>1. CASE worker' = [worker EXCEPT ![w].work = TRUE]
    <3> DEFINE x == [worker[w] EXCEPT !.work = TRUE]
    <3>1. worker' = [worker EXCEPT ![w] = x]
      BY <2>1
    <3>2. x.pc = worker[w].pc
      BY <1>w DEF WorkerRecord
    <3> HIDE DEF x
    <3> QED BY <3>1, <3>2, WorkerMoved DEF Recentring
  <2>2. CASE EndPass(w) \/ Goto(w, "observe") \/ Goto(w, "fee")
    BY <1>1, <1>2, <2>2
  <2> QED BY <1>7, <2>1, <2>2 DEF Account
<1>8. ASSUME Observe(w) PROVE Moved(w)
  <2>1. CASE worker' = [worker EXCEPT ![w].pc = "sampled", ![w].prev = Latest,
                          ![w].block = Len(chain), ![w].fork = chain[Len(chain)]]
    <3> DEFINE x == [worker[w] EXCEPT !.pc = "sampled", !.prev = Latest,
                          !.block = Len(chain), !.fork = chain[Len(chain)]]
    <3>1. worker' = [worker EXCEPT ![w] = x]
      BY <1>w, <2>1 DEF WorkerRecord
    <3>2. x.pc = "sampled"
      BY <1>w DEF WorkerRecord
    <3> HIDE DEF x
    <3> QED BY <3>1, <3>2, WorkerMoved
  <2> QED BY <1>1, <1>8, <2>1 DEF Observe
<1>9. ASSUME RecordObservation(w) PROVE Moved(w)
  <2>1. CASE worker' = [worker EXCEPT ![w] = [IdleWorker EXCEPT
                          !.pc = IF Static THEN "account" ELSE "audit"]]
    <3> DEFINE x == [IdleWorker EXCEPT !.pc = IF Static THEN "account" ELSE "audit"]
    <3>1. x.pc \in {"account", "audit"}
      BY DEF IdleWorker
    <3>2. worker' = [worker EXCEPT ![w] = x]
      BY <2>1
    <3> HIDE DEF x
    <3> QED BY <3>1, <3>2, WorkerMoved
  <2> QED BY <1>1, <1>9, <2>1 DEF RecordObservation
<1>10. ASSUME StartRecenter(w) PROVE Moved(w)
  <2>1. ~Static /\ (EndPass(w) \/ Goto(w, "recenter"))
    BY <1>10 DEF StartRecenter
  <2> QED BY <1>1, <2>1, WorkerGoes
<1>11. ASSUME FreezeRecenter(w) PROVE Moved(w)
  <2>1. EndPass(w) \/ (Recentring(w) /\ Goto(w, "frozen"))
    BY <1>11 DEF FreezeRecenter, At, Recentring
  <2> QED BY <1>1, <2>1, WorkerGoes
<1>12. ASSUME AcceptRecenter(w) PROVE Moved(w)
  <2>1. CASE worker' = [worker EXCEPT ![w] = [IdleWorker EXCEPT !.pc = "audit"]]
    <3> DEFINE x == [IdleWorker EXCEPT !.pc = "audit"]
    <3>1. x.pc = "audit"
      BY DEF IdleWorker
    <3>2. worker' = [worker EXCEPT ![w] = x]
      BY <2>1
    <3> HIDE DEF x
    <3> QED BY <3>1, <3>2, WorkerMoved
  <2> QED BY <1>1, <1>12, <2>1 DEF AcceptRecenter
<1> QED BY <1>3, <1>4, <1>5, <1>6, <1>7, <1>8, <1>9, <1>10, <1>11, <1>12 DEF PassStep

\* Faults lead to no recentre.
LEMMA FaultMoved ==
  ASSUME PaperInv, NEW w \in Workers, Crash(w) \/ Restart(w) \/ ReadFails(w)
  PROVE  Moved(w)
<1>1. CASE Crash(w)
  <2>1. [IdleWorker EXCEPT !.pc = "down"].pc = "down"
    BY DEF IdleWorker
  <2> QED BY <1>1, <2>1, WorkerMoved DEF Crash
<1>2. CASE Restart(w) \/ ReadFails(w)
  BY <1>2, WorkerSettles DEF Restart, ReadFails
<1> QED BY <1>1, <1>2

\* The steps that save a preview, and the kinds they save.
LEMMA PreviewsMoved ==
  ASSUME PaperInv, OriginInv, [Next]_vars
  PROVE  /\ PreviewsStep
         /\ \A p \in 1 .. Len(previews') :
              previews'[p].kind \in Kinds \/ (~Static /\ previews'[p].kind = "change_range")
<1> DEFINE Kept == /\ PreviewsStep
                   /\ \A p \in 1 .. Len(previews') : previews'[p].kind \in Kinds
                        \/ (~Static /\ previews'[p].kind = "change_range")
<1>q. ASSUME UNCHANGED previews PROVE Kept
  BY <1>q, OriginQuiet
<1>s. ASSUME NEW k, NEW prev, NEW block, NEW f, SavePreview(k, prev, block, f),
             k \in Kinds \/ (~Static /\ k = "change_range")
      PROVE  Kept
  BY <1>s, OriginSaved
<1>1. ASSUME NEW k \in Kinds, Preview(k) PROVE Kept
  <2>1. \E prev, block, f : SavePreview(k, prev, block, f)
    BY <1>1 DEF Preview
  <2> QED BY <1>s, <2>1
<1>2. ASSUME FinishPreparation PROVE Kept
  <2>1. srv.kind \in Kinds /\ SavePreview(srv.kind, srv.prev, srv.block, srv.fork)
    BY <1>2 DEF FinishPreparation, OriginInv
  <2> QED BY <1>s, <2>1
<1>3. ASSUME NEW p \in 1 .. Len(previews), ExpirePreview(p) PROVE Kept
  <2>1. previews \in Seq(PreviewRecord) /\ Len(previews) \in Nat
    BY LengthsNat DEF PaperInv, Typed
  <2> DEFINE x == [previews[p] EXCEPT !.live = FALSE]
  <2>2. previews' = [previews EXCEPT ![p] = x]
    BY <1>3 DEF ExpirePreview
  <2>3. previews[p] \in PreviewRecord
    BY <2>1
  <2>4. x.kind = previews[p].kind /\ x.prev = previews[p].prev
    BY <2>3 DEF PreviewRecord
  <2> HIDE DEF x
  <2>5. /\ Len(previews') = Len(previews)
        /\ \A q \in 1 .. Len(previews) :
             previews'[q].kind = previews[q].kind /\ previews'[q].prev = previews[q].prev
    <3>1. Len(previews') = Len(previews) /\ previews'[p] = x
          /\ \A q \in 1 .. Len(previews) : q # p => previews'[q] = previews[q]
      BY <2>1, <2>2
    <3> QED BY <2>4, <3>1
  <2> QED BY <2>1, <2>5 DEF PreviewsStep, OriginInv
<1>4. ASSUME NEW w \in Workers, FreezeRecenter(w) PROVE Kept
  <2>1. ~Static
    BY <1>4 DEF FreezeRecenter, At, OriginInv
  <2>2. (\E prev, block, f : SavePreview("change_range", prev, block, f)) \/ UNCHANGED previews
    BY <1>4 DEF FreezeRecenter, EndPass, opVars
  <2> QED BY <1>q, <1>s, <2>1, <2>2
<1> HIDE DEF Kept
<1>5. ASSUME ServerStep PROVE Kept
  <2>1. ASSUME NEW k \in Kinds, StartPreparation(k) PROVE Kept
    BY <1>q, <2>1 DEF StartPreparation, opVars
  <2>2. ASSUME DeleteDraft \/ AbortPreparation \/ CommitAcceptConvert PROVE Kept
    BY <1>q, <2>2 DEF DeleteDraft, AbortPreparation, CommitAcceptConvert, opVars
  <2>3. ASSUME NEW p \in 1 .. Len(previews), NEW k \in Keys,
               AcceptOpenOrLifecycle(p, k) \/ AcceptClose(p, k) \/ BeginAcceptConvert(p, k)
        PROVE  Kept
    BY <1>q, <2>3 DEF AcceptOpenOrLifecycle, AcceptClose, BeginAcceptConvert, opVars
  <2> QED BY <1>1, <1>2, <1>3, <1>5, <2>1, <2>2, <2>3 DEF ServerStep
<1>6. ASSUME NEW w \in Workers, OpStep(w) PROVE UNCHANGED previews
  BY <1>6 DEF OpStep, Claim, Preflight, Advance, Complete, Block, Drop, Book, opVars
<1>7. ASSUME NEW w \in Workers, PassStep(w) PROVE Kept
  <2>1. FreezeRecenter(w) \/ UNCHANGED previews
    BY <1>7 DEF PassStep, Audit, ReadFee, RecordFee, Account, Observe, RecordObservation,
       AcceptRecenter, EndPass, opVars
  <2> QED BY <1>4, <1>q, <2>1
<1>8. ASSUME NEW w \in Workers, LoseRenewal(w) \/ StartPass(w) \/ StartRecenter(w) \/ Crash(w)
                                \/ Restart(w) \/ ReadFails(w)
      PROVE  UNCHANGED previews
  BY <1>8 DEF LoseRenewal, StartPass, StartRecenter, EndPass, Crash, Restart, ReadFails, opVars
<1>9. ASSUME NEW i \in 1 .. Len(ops), ClaimLapses(i) \/ Stall(i) PROVE UNCHANGED previews
  BY <1>9 DEF ClaimLapses, Stall
<1>10. ASSUME Grow \/ (\E b \in 1 .. Len(chain) : Reorg(b)) \/ LeaseLost \/ UNCHANGED vars
       PROVE  UNCHANGED previews
  BY <1>10 DEF Grow, Reorg, LeaseLost, vars, opVars
<1>11. Kept
  BY <1>q, <1>5, <1>6, <1>7, <1>8, <1>9, <1>10 DEF Next
<1> QED BY <1>11 DEF Kept

\* The command server prepares only a kind the operator asks for.
LEMMA PreparingKept ==
  ASSUME PaperInv, OriginInv, [Next]_vars, srv'.pc = "preparing"
  PROVE  srv'.kind \in Kinds
<1>1. ASSUME NEW k \in Kinds, StartPreparation(k) PROVE srv'.kind \in Kinds
  BY <1>1 DEF StartPreparation, IdleSrv
<1>2. ASSUME UNCHANGED srv PROVE srv'.kind \in Kinds
  BY <1>2 DEF OriginInv
<1>3. ASSUME NEW p, NEW k, BeginAcceptConvert(p, k) PROVE FALSE
  BY <1>3 DEF BeginAcceptConvert, IdleSrv
<1>4. srv' # IdleSrv
  BY DEF IdleSrv
<1>5. ASSUME ServerStep PROVE srv'.kind \in Kinds
  <2>1. ASSUME NEW k \in Kinds, Preview(k) PROVE UNCHANGED srv
    BY <2>1 DEF Preview
  <2>2. ASSUME DeleteDraft PROVE UNCHANGED srv
    BY <2>2 DEF DeleteDraft
  <2>3. ~(FinishPreparation \/ AbortPreparation \/ CommitAcceptConvert)
    BY <1>4 DEF FinishPreparation, AbortPreparation, CommitAcceptConvert
  <2>4. ASSUME NEW p \in 1 .. Len(previews), NEW k \in Keys,
               ExpirePreview(p) \/ AcceptOpenOrLifecycle(p, k) \/ AcceptClose(p, k)
        PROVE  UNCHANGED srv
    BY <2>4 DEF ExpirePreview, AcceptOpenOrLifecycle, AcceptClose
  <2>5. ASSUME NEW p \in 1 .. Len(previews), ExpirePreview(p) PROVE UNCHANGED srv
    BY <2>5 DEF ExpirePreview
  <2> QED BY <1>1, <1>2, <1>3, <1>5, <2>1, <2>2, <2>3, <2>4, <2>5 DEF ServerStep
<1>6. ASSUME NEW w \in Workers, OpStep(w) PROVE UNCHANGED srv
  BY <1>6 DEF OpStep, Claim, Preflight, Advance, Complete, Block, Drop, Book
<1>7. ASSUME NEW w \in Workers, PassStep(w) PROVE UNCHANGED srv
  BY <1>7 DEF PassStep, Audit, ReadFee, RecordFee, Account, Observe, RecordObservation,
     FreezeRecenter, AcceptRecenter, EndPass
<1>8. ASSUME NEW w \in Workers, LoseRenewal(w) \/ StartPass(w) \/ StartRecenter(w) \/ Crash(w)
                                \/ Restart(w) \/ ReadFails(w)
      PROVE  UNCHANGED srv
  BY <1>8 DEF LoseRenewal, StartPass, StartRecenter, EndPass, Crash, Restart, ReadFails
<1>9. ASSUME NEW i \in 1 .. Len(ops), ClaimLapses(i) \/ Stall(i) PROVE UNCHANGED srv
  BY <1>9 DEF ClaimLapses, Stall
<1>10. ASSUME Grow \/ (\E b \in 1 .. Len(chain) : Reorg(b)) \/ LeaseLost \/ UNCHANGED vars
       PROVE  UNCHANGED srv
  BY <1>4, <1>10 DEF Grow, Reorg, LeaseLost, vars
<1> QED BY <1>2, <1>5, <1>6, <1>7, <1>8, <1>9, <1>10 DEF Next

\* Only a RangeKeeper pass starts a recentre.
LEMMA RecentringKept ==
  ASSUME PaperInv, OriginInv, [Next]_vars, NEW u \in Workers, Recentring(u)'
  PROVE  ~Static
<1>1. ASSUME NEW w \in Workers, Moved(w) PROVE ~Static
  BY <1>1 DEF Moved, Recentring, OriginInv
<1>2. ASSUME UNCHANGED worker PROVE ~Static
  BY <1>2 DEF Recentring, OriginInv
<1>3. ASSUME ServerStep PROVE UNCHANGED worker
  BY <1>3 DEF ServerStep, DeleteDraft, Preview, StartPreparation, FinishPreparation,
     AbortPreparation, CommitAcceptConvert, ExpirePreview, AcceptOpenOrLifecycle, AcceptClose,
     BeginAcceptConvert
<1>4. ASSUME NEW i \in 1 .. Len(ops), ClaimLapses(i) \/ Stall(i) PROVE UNCHANGED worker
  BY <1>4 DEF ClaimLapses, Stall
<1>5. ASSUME Grow \/ (\E b \in 1 .. Len(chain) : Reorg(b)) \/ LeaseLost \/ UNCHANGED vars
      PROVE  UNCHANGED worker
  BY <1>5 DEF Grow, Reorg, LeaseLost, vars
<1> QED BY <1>1, <1>2, <1>3, <1>4, <1>5, OpsMoved, PassMoved, FaultMoved DEF Next

\* Every step keeps the origin of the previews.
LEMMA OriginNext == PaperInv /\ OriginInv /\ [Next]_vars => OriginInv' /\ PreviewsStep
<1> SUFFICES ASSUME PaperInv, OriginInv, [Next]_vars PROVE OriginInv' /\ PreviewsStep
  OBVIOUS
<1>1. \A w \in Workers : worker'[w].pc \in {"recenter", "frozen"} => ~Static
  BY RecentringKept DEF Recentring
<1> QED BY <1>1, PreviewsMoved, PreparingKept DEF OriginInv

\* The kinds whose model builds on a mark.
Builds == Closes \cup {"change_range"}

\* A step accepts a preview, a close or recentre only if it builds on the latest
\* mark, or sets an operation that is not settled and keeps what it is.
FitStep ==
  \/ ops' = ops
  \/ /\ UNCHANGED marks
     /\ \E p \in 1 .. Len(previews) :
          /\ previews[p].kind \in Builds => previews[p].prev = Latest
          /\ \E k : ops' = Queued(previews[p].kind, p, k)
  \/ \E j \in 1 .. Len(ops) :
       /\ ops[j].status \notin {"succeeded", "blocked"}
       /\ \E o : o.kind = ops[j].kind /\ o.preview = ops[j].preview /\ ops' = [ops EXCEPT ![j] = o]

\* A queued, unclaimed or further operation is still the same one.
LEMMA SameOperation ==
  ASSUME NEW o \in OpRecord, NEW w, NEW s
  PROVE  /\ Claimed(o, w).kind = o.kind /\ Claimed(o, w).preview = o.preview
         /\ Unclaimed(o, s).kind = o.kind /\ Unclaimed(o, s).preview = o.preview
         /\ [o EXCEPT !.valid = FALSE].kind = o.kind
         /\ [o EXCEPT !.valid = FALSE].preview = o.preview
         /\ [o EXCEPT !.status = s].kind = o.kind /\ [o EXCEPT !.status = s].preview = o.preview
BY DEF Claimed, Unclaimed, OpRecord

\* An acceptance by the command server.
LEMMA ServerFits ==
  ASSUME PaperInv, OriginInv, Static \/ "close_retain" \notin Kinds, ServerStep
  PROVE  FitStep
<1>1. ASSUME NEW p \in 1 .. Len(previews), NEW k \in Keys, AcceptOpenOrLifecycle(p, k)
      PROVE  FitStep
  <2>1. previews[p].kind \notin Builds
    BY <1>1 DEF AcceptOpenOrLifecycle, Builds, Closes
  <2>2. ops' = Queued(previews[p].kind, p, k) /\ UNCHANGED marks
    BY <1>1 DEF AcceptOpenOrLifecycle
  <2> QED BY <2>1, <2>2 DEF FitStep
<1>2. ASSUME NEW p \in 1 .. Len(previews), NEW k \in Keys, AcceptClose(p, k) PROVE FitStep
  <2>1. previews[p].kind \in Kinds \/ previews[p].kind = "change_range"
    BY DEF OriginInv
  <2>2. previews[p].prev = Latest
    BY <1>2, <2>1 DEF AcceptClose, RetainFits, RangeKeeperConvertFits
  <2>3. ops' = Queued(previews[p].kind, p, k) /\ UNCHANGED marks
    BY <1>2 DEF AcceptClose
  <2> QED BY <2>2, <2>3 DEF FitStep
<1>3. ASSUME CommitAcceptConvert PROVE FitStep
  <2>1. PICK p \in 1 .. Len(previews) : p = srv.preview /\ previews[p].kind = "close_convert"
    BY <1>3 DEF CommitAcceptConvert, PaperInv, ServerInv
  <2>2. UNCHANGED marks
    BY <1>3 DEF CommitAcceptConvert
  <2>3. ops' = ops \/ (previews[p].prev = Latest /\ ops' = Queued(previews[p].kind, p, srv.key))
    BY <1>3, <2>1 DEF CommitAcceptConvert, ConvertFits
  <2> QED BY <2>2, <2>3 DEF FitStep
<1>4. ASSUME DeleteDraft \/ FinishPreparation \/ AbortPreparation
             \/ (\E k \in Kinds : Preview(k) \/ StartPreparation(k))
             \/ (\E p \in 1 .. Len(previews) : ExpirePreview(p)
                   \/ \E k \in Keys : BeginAcceptConvert(p, k))
      PROVE  UNCHANGED ops
  BY <1>4 DEF DeleteDraft, FinishPreparation, AbortPreparation, Preview, StartPreparation,
     ExpirePreview, BeginAcceptConvert, opVars
<1> QED BY <1>1, <1>2, <1>3, <1>4 DEF ServerStep, FitStep

\* A worker on the operation it claimed.
LEMMA OwnerFits ==
  ASSUME PaperInv, NEW w \in Workers, worker[w].pc \in OpPcs,
         Preflight(w) \/ Advance(w) \/ Complete(w) \/ ReadFails(w)
  PROVE  FitStep
<1>1. PICK i \in 1 .. Len(ops) : i = worker[w].op
  BY OwnerFacts
<1>2. Owns(w) => ops[i].status \notin {"succeeded", "blocked"}
  BY <1>1, OwnerFacts DEF Unsettled
<1>3. ops[i] \in OpRecord
  BY OpTyped
<1> DEFINE Sets == Owns(w) /\ \E o : /\ o.kind = ops[i].kind /\ o.preview = ops[i].preview
                                     /\ ops' = [ops EXCEPT ![i] = o]
<1>4. ASSUME NEW s, Owns(w), ops' = [ops EXCEPT ![i] = Unclaimed(ops[i], s)] PROVE Sets
  BY <1>3, <1>4, SameOperation
<1>5. ASSUME NEW s, Owns(w), ops' = [ops EXCEPT ![i].status = s] PROVE Sets
  <2>1. ops' = [ops EXCEPT ![i] = [ops[i] EXCEPT !.status = s]]
    BY <1>5
  <2> QED BY <1>3, <1>5, <2>1, SameOperation
<1> HIDE DEF Sets
<1>6. ASSUME Block(w) PROVE ops' = ops \/ Sets
  BY <1>1, <1>4, <1>6 DEF Block
<1>7. ASSUME Drop(w) PROVE ops' = ops
  BY <1>7 DEF Drop, opVars
<1>8. ASSUME Preflight(w) PROVE ops' = ops \/ Sets
  BY <1>6, <1>7, <1>8 DEF Preflight, opVars
<1>9. ASSUME Advance(w) PROVE ops' = ops \/ Sets
  <2>1. Block(w) \/ Drop(w) \/ ops' = ops
        \/ (Owns(w) /\ \E s : ops' = [ops EXCEPT ![i].status = s])
    BY <1>1, <1>9 DEF Advance
  <2> QED BY <1>5, <1>6, <1>7, <2>1
<1>10. ASSUME Complete(w) PROVE ops' = ops \/ Sets
  <2>1. Block(w) \/ Drop(w)
        \/ (Owns(w) /\ ops' = [ops EXCEPT ![i] = Unclaimed(ops[i], "succeeded")])
    BY <1>1, <1>10 DEF Complete, Fenced, Book
  <2> QED BY <1>4, <1>6, <1>7, <2>1
<1>11. ASSUME ReadFails(w) PROVE ops' = ops \/ Sets
  <2>1. ops' = ops \/ (Owns(w) /\ \E s : ops' = [ops EXCEPT ![i] = Unclaimed(ops[i], s)])
    BY <1>1, <1>11 DEF ReadFails, opVars
  <2> QED BY <1>4, <2>1
<1>12. ops' = ops \/ Sets
  BY <1>8, <1>9, <1>10, <1>11
<1> QED BY <1>2, <1>12 DEF Sets, FitStep

\* The acceptance of a recentre compares the latest mark (AcceptRecenter).
LEMMA RecenterFitsLatest ==
  ASSUME PaperInv, NEW w \in Workers, AcceptRecenter(w)
  PROVE  FitStep
<1> DEFINE Q == {q \in 1 .. Len(previews) : previews[q].kind = "change_range"}
           p == CHOOSE q \in 1 .. Len(previews) :
                /\ previews[q].kind = "change_range"
                /\ \A r \in q + 1 .. Len(previews) : previews[r].kind # "change_range"
<1>1. p \in 1 .. Len(previews) /\ previews[p].kind = "change_range"
  <2>1. Q # {} /\ Q \in SUBSET (1 .. Len(previews)) /\ Len(previews) \in Nat
    BY LengthsNat DEF AcceptRecenter, At, PaperInv, WorkersInv, Carries, Holds
  <2>2. PICK g \in Q : \A r \in Q : r <= g
    <3> HIDE DEF Q
    <3> QED BY <2>1, GreatestExists
  <2>3. \A r \in g + 1 .. Len(previews) : previews[r].kind # "change_range"
    BY <2>1, <2>2
  <2> QED BY <2>2, <2>3
<1>2. ASSUME EndPass(w) PROVE UNCHANGED ops
  BY <1>2 DEF EndPass, opVars
<1>3. UNCHANGED ops \/ /\ previews[p].prev = Latest /\ UNCHANGED marks
                       /\ ops' = Queued("change_range", p, <<"rk-auto", p>>)
  BY <1>2 DEF AcceptRecenter, RecenterFits, bookVars
<1> HIDE DEF p
<1> QED BY <1>1, <1>3 DEF FitStep

\* Every step is one of these.
LEMMA FitSteps ==
  ASSUME PaperInv, OriginInv, Static \/ "close_retain" \notin Kinds, [Next]_vars
  PROVE  FitStep
<1>1. CASE Grow \/ (\E b \in 1 .. Len(chain) : Reorg(b)) \/ LeaseLost \/ UNCHANGED vars
  BY <1>1 DEF Grow, Reorg, LeaseLost, vars, opVars, FitStep
<1>2. ASSUME NEW w \in Workers, NEW i \in 1 .. Len(ops), Claim(w, i) PROVE FitStep
  <2>1. ops' = [ops EXCEPT ![i] = Claimed(ops[i], w)]
    BY <1>2 DEF Claim
  <2>2. ops[i].status \notin {"succeeded", "blocked"}
    BY <1>2 DEF Claim
  <2>3. ops[i] \in OpRecord
    BY OpTyped
  <2> QED BY <2>1, <2>2, <2>3, SameOperation DEF FitStep
<1>3. ASSUME NEW w \in Workers, Preflight(w) \/ Advance(w) \/ Complete(w) PROVE FitStep
  <2>1. worker[w].pc \in OpPcs
    BY <1>3 DEF Preflight, Advance, Complete, OpPcs
  <2> QED BY <1>3, <2>1, OwnerFits
<1>4. ASSUME NEW w \in Workers,
             LoseRenewal(w) \/ StartPass(w) \/ StartRecenter(w) \/ Crash(w) \/ Restart(w)
      PROVE  ops' = ops
  BY <1>4 DEF LoseRenewal, StartPass, StartRecenter, EndPass, Crash, Restart, opVars
<1>5. ASSUME NEW w \in Workers, PassStep(w) PROVE FitStep
  <2>1. AcceptRecenter(w) \/ ops' = ops
    BY <1>5 DEF PassStep, Audit, ReadFee, RecordFee, Account, Observe, RecordObservation,
       FreezeRecenter, EndPass, opVars
  <2> QED BY <2>1, RecenterFitsLatest DEF FitStep
<1>6. ASSUME NEW w \in Workers, ReadFails(w) PROVE FitStep
  <2>1. CASE worker[w].pc \in OpPcs
    BY <1>6, <2>1, OwnerFits
  <2>2. CASE worker[w].pc \notin OpPcs
    BY <1>6, <2>2 DEF ReadFails, opVars, FitStep
  <2> QED BY <2>1, <2>2
<1>7. ASSUME NEW i \in 1 .. Len(ops), ClaimLapses(i) \/ Stall(i) PROVE FitStep
  <2>1. ops[i].status \in Unsettled
    BY <1>7 DEF ClaimLapses, Stall, PaperInv, RowsInv
  <2>2. ops' = [ops EXCEPT ![i] = [ops[i] EXCEPT !.valid = FALSE]]
    BY <1>7 DEF ClaimLapses, Stall
  <2>3. ops[i] \in OpRecord
    BY OpTyped
  <2> QED BY <2>1, <2>2, <2>3, SameOperation DEF FitStep, Unsettled
<1> QED BY <1>1, <1>2, <1>3, <1>4, <1>5, <1>6, <1>7, ServerFits DEF Next, OpStep, FitStep

\* Marks are appended by an observation or by the completion of the one pending
\* operation.
LEMMA NothingPending ==
  ASSUME PaperInv, NEW w \in Workers, Completes(w)
  PROVE  ~SomePending'
<1>1. PICK i \in 1 .. Len(ops) : i = worker[w].op
  BY OwnerFacts DEF Completes
<1> DEFINE o == Unclaimed(ops[i], "succeeded")
<1>2. ops[i] \in OpRecord
  BY OpTyped
<1>3. OpSet(i, o)
  BY <1>1 DEF Completes, Book, OpSet
<1>4. Pending(i)
  BY <1>1 DEF Completes, Fenced, Pending
<1>5. o \in OpRecord /\ o.kind = ops[i].kind /\ o.preview = ops[i].preview
      /\ o.status = "succeeded" /\ o.valid = FALSE
  BY <1>2 DEF Unclaimed, OpRecord, Statuses
<1> HIDE DEF o
<1>6. Settled(i)
  BY <1>3, <1>4, <1>5, OpSettled
<1> QED BY <1>6 DEF Settled

\* An observation finds no accepted close or recentre: a static campaign is closing
\* then, and a RangeKeeper mark requires that nothing is pending.
LEMMA ObservedFits ==
  ASSUME PaperInv, OriginInv, NEW w \in Workers, Observes(w)
  PROVE  AcceptedStillFits'
<1>1. UNCHANGED <<previews, ops>>
  BY DEF Observes
<1>2. ASSUME NEW i \in 1 .. Len(ops), Pending(i), ops[i].kind \in Builds PROVE FALSE
  <2>1. lifecycle \in {"active", "paused"} /\ (~Static => ~SomePending)
    BY DEF Observes, ObservationFits, ValuationFits, RangeKeeperMarkFits
  <2>2. ops[i].kind \notin Closes
    BY <1>2, <2>1 DEF PaperInv, StoryInv
  <2>3. ~Static
    <3>1. ops[i].preview \in 1 .. Len(previews) /\ previews[ops[i].preview].kind = "change_range"
      BY <1>2, <2>2 DEF PaperInv, RowsInv, Builds
    <3>2. "change_range" \notin Kinds
      BY PaperAssumption
    <3> QED BY <3>1, <3>2 DEF OriginInv
  <2> QED BY <1>2, <2>1, <2>3 DEF SomePending
<1> QED BY <1>1, <1>2 DEF AcceptedStillFits, Pending, Builds

\* No row appears under an accepted close or recentre.
LEMMA QuietFits ==
  ASSUME PaperInv, AcceptedStillFits, PreviewsStep, FitStep, UNCHANGED marks
  PROVE  AcceptedStillFits'
<1>1. ops \in Seq(OpRecord) /\ Len(ops) \in Nat
  BY LengthsNat DEF PaperInv, Typed
<1>2. Latest' = Latest
  BY DEF Latest
<1>3. ASSUME NEW i \in 1 .. Len(ops), Pending(i), ops[i].status # "blocked", ops[i].kind \in Builds
      PROVE  previews'[ops[i].preview].prev = Latest
  <2>1. previews[ops[i].preview].prev = Latest
    BY <1>3 DEF AcceptedStillFits, Builds
  <2>2. ops[i].preview \in 1 .. Len(previews)
    BY DEF PaperInv, RowsInv
  <2> QED BY <2>1, <2>2 DEF PreviewsStep
<1>4. SUFFICES ASSUME NEW i \in 1 .. Len(ops'), Pending(i)', ops'[i].status # "blocked",
                      ops'[i].kind \in Builds
               PROVE  previews'[ops'[i].preview].prev = Latest
  BY <1>2 DEF AcceptedStillFits, Builds
<1>5. CASE ops' = ops
  BY <1>3, <1>4, <1>5 DEF Pending
<1>6. ASSUME NEW p \in 1 .. Len(previews), NEW k, ops' = Queued(previews[p].kind, p, k),
             previews[p].kind \in Builds => previews[p].prev = Latest
      PROVE  previews'[ops'[i].preview].prev = Latest
  <2> DEFINE o == [kind |-> previews[p].kind, preview |-> p, key |-> k, status |-> "queued",
                   by |-> NoOne, valid |-> FALSE, attempts |-> 0]
  <2>1. ops' = Append(ops, o)
    BY <1>6 DEF Queued
  <2>2. o.kind = previews[p].kind /\ o.preview = p
    OBVIOUS
  <2> HIDE DEF o
  <2>3. CASE i \in 1 .. Len(ops)
    <3>1. ops'[i] = ops[i]
      BY <1>1, <2>1, <2>3
    <3> QED BY <1>3, <1>4, <2>3, <3>1 DEF Pending
  <2>4. CASE i = Len(ops) + 1
    <3>1. ops'[i] = o
      BY <1>1, <2>1, <2>4
    <3>2. previews'[p].prev = previews[p].prev
      BY DEF PreviewsStep
    <3> QED BY <1>4, <1>6, <2>2, <3>1, <3>2
  <2>5. Len(ops') = Len(ops) + 1
    BY <1>1, <2>1
  <2> QED BY <1>1, <2>3, <2>4, <2>5
<1>7. ASSUME NEW j \in 1 .. Len(ops), ops[j].status \notin {"succeeded", "blocked"},
             NEW o, o.kind = ops[j].kind, o.preview = ops[j].preview,
             ops' = [ops EXCEPT ![j] = o]
      PROVE  previews'[ops'[i].preview].prev = Latest
  <2>1. i \in 1 .. Len(ops) /\ ops'[j] = o /\ (i # j => ops'[i] = ops[i])
    BY <1>1, <1>7
  <2>2. CASE i = j
    BY <1>3, <1>4, <1>7, <2>1, <2>2 DEF Pending
  <2>3. CASE i # j
    BY <1>3, <1>4, <2>1, <2>3 DEF Pending
  <2> QED BY <2>2, <2>3
<1> QED BY <1>5, <1>6, <1>7 DEF FitStep

\* Every step keeps accepted models on the latest mark.
LEMMA FitsNext ==
  ASSUME PaperInv, OriginInv, AcceptedStillFits, Static \/ "close_retain" \notin Kinds, [Next]_vars
  PROVE  AcceptedStillFits'
<1>1. FitStep /\ PreviewsStep
  BY FitSteps, OriginNext
<1>2. CASE UNCHANGED marks
  BY <1>1, <1>2, QuietFits
<1>3. ASSUME NEW w \in Workers, Observes(w) PROVE AcceptedStillFits'
  BY <1>3, ObservedFits
<1>4. ASSUME NEW w \in Workers, Completes(w) PROVE AcceptedStillFits'
  BY <1>4, NothingPending DEF AcceptedStillFits, SomePending
<1> QED BY <1>2, <1>3, <1>4, BooksSteps DEF BooksStep, Accounted, Invalidates, FeeWritten

\* What is accepted still builds on the latest mark, fee evidence and accounting
\* form one chain, and nothing from a replaced mark on stays valid.  The retained
\* close of a RangeKeeper campaign is left out: its acceptance does not compare
\* the latest mark.
THEOREM EvidenceIsSound ==
  ASSUME Static \/ "close_retain" \notin Kinds
  PROVE  Spec => []EvidenceSound
<1> DEFINE Fits == OriginInv /\ AcceptedStillFits
<1>1. Init => Fits
  BY DEF Init, OriginInv, AcceptedStillFits, IdleSrv, IdleWorker
<1>2. PaperInv /\ Fits /\ [Next]_vars => Fits'
  BY OriginNext, FitsNext
<1>3. Fits /\ EvidenceChained /\ InvalidTail => EvidenceSound
  BY DEF EvidenceSound
<1> QED BY <1>1, <1>2, <1>3, EvidenceHolds, PaperCorrect, PTL DEF Spec

=============================================================================
