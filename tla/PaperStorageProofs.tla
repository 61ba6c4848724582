------------------------- MODULE PaperStorageProofs -------------------------
(***************************************************************************)
(* Proofs about PaperStorage, for any boards, end times and number of      *)
(* blocks at once: what the variables hold, and that no board is closed    *)
(* before its time.                                                        *)
(***************************************************************************)
EXTENDS PaperStorage, SequenceTheorems, TLAPS

Over(ps) == \A p \in ps : p.end <= now

(* A block that was overtaken has closed no board before its time, either, *)
(* and may assign what it has split at any time.                           *)
SplitsInTime == \A t \in 0..Threads : block[t] # Idle => Over(block[t].split.closed)

IInv == TypeOK /\ NotBeforeTime /\ SplitsInTime

-----------------------------------------------------------------------------
(* Lists                                                                   *)

LEMMA PartOfList ==
  ASSUME NEW from, NEW s \in ListsFrom(from), NEW r, r \subseteq s
  PROVE  r \in ListsFrom(from)
BY DEF ListsFrom, Lists

LEMMA EmptyList == {} \in Lists /\ \A from : {} \in ListsFrom(from)
BY DEF ListsFrom, Lists

(* The boards of the device that the server does not have, and those of    *)
(* both, though read from different lists of the server.                   *)
LEMMA LocalOnlyList ==
  ASSUME NEW both \in LocalAndServer
  PROVE  LocalOnly(both) \in ListsFrom("local")
<1>1. both.local \in ListsFrom("local")
  BY DEF LocalAndServer
<1> QED BY <1>1, PartOfList DEF LocalOnly

LEMMA MergedList ==
  ASSUME NEW l \in ListsFrom("local"), NEW r \in ListsFrom("server")
  PROVE  l \cup r \in Lists
<1>1. l \cup r \in SUBSET PaperPreviewModel
  BY DEF ListsFrom, Lists
<1>2. ASSUME NEW p \in l \cup r, NEW q \in l \cup r, p.id = q.id, p.from = q.from
      PROVE  p = q
  <2>1. (p \in l /\ q \in l) \/ (p \in r /\ q \in r)
    BY <1>2 DEF ListsFrom
  <2> QED BY <1>2, <2>1 DEF ListsFrom, Lists
<1> QED BY <1>1, <1>2 DEF Lists

(* The open and the closed boards of a list are lists, the latter over.    *)
LEMMA SplitList ==
  ASSUME NEW s \in Lists, now \in Nat
  PROVE  SplitAtNow(s) \in Sorted /\ Over(SplitAtNow(s).closed)
<1>1. {p \in s : p.end > now} \in Lists /\ {p \in s : ~(p.end > now)} \in Lists
  BY DEF Lists
<1>2. \A p \in s : p.end \in Nat
  BY PaperStorageAssumption DEF Lists, PaperPreviewModel
<1>3. Over({p \in s : ~(p.end > now)})
  BY <1>2 DEF Over
<1> QED BY <1>1, <1>3 DEF SplitAtNow, Sorted

(* What is over stays over.                                                *)
LEMMA StaysOver ==
  ASSUME NEW s \in Lists, Over(s), now \in Nat, now' \in Nat, now <= now'
  PROVE  \A p \in s : p.end <= now'
<1>1. \A p \in s : p.end \in Nat
  BY PaperStorageAssumption DEF Lists, PaperPreviewModel
<1> QED BY <1>1 DEF Over

(* A new block that runs on a thread.                                      *)
LEMMA NewBlock ==
  ASSUME NEW task \in Tasks, NEW step \in Steps, NEW both \in LocalAndServer
  PROVE  Block(task, step, both) \in Blocks /\ Over(Block(task, step, both).split.closed)
<1>1. [opened |-> {}, closed |-> {}] \in Sorted /\ {} \in ListsFrom("local")
  BY EmptyList DEF Sorted
<1> QED BY <1>1 DEF Block, Blocks, Over

LEMMA NewTask ==
  ASSUME NEW task \in Tasks, NEW step \in Steps
  PROVE  Task(task, step) \in Blocks /\ Over(Task(task, step).split.closed)
<1>1. Both({}, {}) \in LocalAndServer
  BY EmptyList DEF Both, LocalAndServer
<1> QED BY <1>1, NewBlock DEF Task

-----------------------------------------------------------------------------
(* The threads                                                             *)

BlocksOK == block \in [0..Threads -> Blocks \cup {Idle}] /\ SplitsInTime

LEMMA ThreadStep ==
  ASSUME BlocksOK, UNCHANGED now, NEW t, NEW b \in Blocks \cup {Idle},
         b # Idle => Over(b.split.closed), block' = [block EXCEPT ![t] = b]
  PROVE  BlocksOK'
<1>1. block' \in [0..Threads -> Blocks \cup {Idle}]
  BY DEF BlocksOK
<1>2. ASSUME NEW s \in 0..Threads, block'[s] # Idle
      PROVE  \A p \in block'[s].split.closed : p.end <= now
  <2>1. CASE s = t
    BY <1>2, <2>1 DEF BlocksOK, Over
  <2>2. CASE s # t
    <3>1. block'[s] = block[s]
      BY <2>2 DEF BlocksOK
    <3> QED BY <1>2, <3>1 DEF BlocksOK, SplitsInTime, Over
  <2> QED BY <2>1, <2>2
<1> QED BY <1>1, <1>2 DEF BlocksOK, SplitsInTime, Over

LEMMA BlocksKept ==
  ASSUME BlocksOK, UNCHANGED block, now \in Nat, now' \in Nat, now <= now'
  PROVE  BlocksOK'
<1>1. ASSUME NEW t \in 0..Threads, block[t] # Idle
      PROVE  \A p \in block[t].split.closed : p.end <= now'
  <2>1. block[t].split.closed \in Lists /\ Over(block[t].split.closed)
    BY <1>1 DEF BlocksOK, SplitsInTime, Blocks, Sorted
  <2> QED BY <2>1, StaysOver
<1> QED BY <1>1 DEF BlocksOK, SplitsInTime, Over

LEMMA DispatchStep ==
  ASSUME BlocksOK, UNCHANGED now, NEW b \in Blocks, Over(b.split.closed), Dispatch(b)
  PROVE  BlocksOK'
BY ThreadStep DEF Dispatch

(* The other variables.                                                    *)
ModelOK ==
  /\ lists \in LocalAndServer
  /\ serverPaperIds \subseteq Papers /\ papers \in Lists
  /\ sorted \in Sorted /\ closedPaperIds \subseteq Papers
  /\ isPaperClosed \in BOOLEAN
  /\ Over(sorted.closed)

RestOK ==
  /\ local \in ListsFrom("local") /\ remote \in ListsFrom("server")
  /\ timerInput \in [bind : Nat, cancel : Nat]
  /\ timer \in BOOLEAN /\ visible \in BOOLEAN
  /\ shown \in Sorted \cup {Idle} /\ Over(DrawnClosed)
  /\ mainQueue \in Seq({"reloadData", "initPapers"})
  /\ now \in 0..MaxTime /\ changes \in 0..MaxChanges /\ visits \in 0..MaxVisits

LEMMA Parts == IInv <=> BlocksOK /\ ModelOK /\ RestOK
BY DEF IInv, TypeOK, NotBeforeTime, BlocksOK, ModelOK, RestOK, Over

LEMMA PartsNext == ASSUME BlocksOK', ModelOK', RestOK' PROVE IInv'
BY DEF IInv, TypeOK, NotBeforeTime, BlocksOK, ModelOK, RestOK, Over

LEMMA TimeTyped == ASSUME RestOK PROVE now \in Nat
BY PaperStorageAssumption DEF RestOK

LEMMA ModelKept ==
  ASSUME ModelOK, UNCHANGED model, now \in Nat, now' \in Nat, now <= now'
  PROVE  ModelOK'
<1>1. \A p \in sorted.closed : p.end <= now'
  BY StaysOver DEF ModelOK, Sorted
<1> QED BY <1>1 DEF ModelOK, model, Over

LEMMA ShownKept ==
  ASSUME RestOK, UNCHANGED shown, now' \in Nat, now <= now'
  PROVE  (shown \in Sorted \cup {Idle} /\ Over(DrawnClosed))'
<1>1. DrawnClosed \in Lists
  BY EmptyList DEF RestOK, DrawnClosed, Sorted
<1>2. \A p \in DrawnClosed : p.end <= now'
  BY <1>1, StaysOver, TimeTyped DEF RestOK
<1> QED BY <1>2 DEF RestOK, DrawnClosed, Over

LEMMA Sending ==
  ASSUME RestOK, NEW e \in {"reloadData", "initPapers"}
  PROVE  Append(mainQueue, e) \in Seq({"reloadData", "initPapers"})
BY AppendProperties DEF RestOK

LEMMA Counted ==
  ASSUME RestOK
  PROVE  /\ now < MaxTime => now + 1 \in 0..MaxTime
         /\ changes < MaxChanges => changes + 1 \in 0..MaxChanges
         /\ visits < MaxVisits => visits + 1 \in 0..MaxVisits
BY PaperStorageAssumption DEF RestOK

-----------------------------------------------------------------------------
(* Every step keeps the invariant                                          *)

(* While the clock stands still.                                           *)
LEMMA Standing ==
  ASSUME IInv, UNCHANGED now
  PROVE  /\ BlocksOK /\ ModelOK /\ RestOK /\ now \in Nat /\ now' \in Nat /\ now <= now'
         /\ UNCHANGED model => ModelOK'
         /\ UNCHANGED block => BlocksOK'
         /\ UNCHANGED shown => (shown \in Sorted \cup {Idle} /\ Over(DrawnClosed))'
<1>1. BlocksOK /\ ModelOK /\ RestOK /\ now \in Nat
  BY Parts, TimeTyped
<1>2. now' \in Nat /\ now <= now'
  BY <1>1
<1> QED BY <1>1, <1>2, ModelKept, BlocksKept, ShownKept

LEMMA DatabasePublishesStep ==
  ASSUME IInv, DatabasePublishes
  PROVE  IInv'
<1>1. /\ local' \in ListsFrom("local") /\ remote' \in ListsFrom("server") /\ UNCHANGED model
      /\ UNCHANGED <<timer, timerInput, visible, shown, mainQueue, now, visits>>
      /\ changes < MaxChanges /\ changes' = changes + 1
      /\ Dispatch(Block("lists", "local", Both(local', remote')))
  BY Parts DEF DatabasePublishes, RestOK, clock, screen
<1>0. /\ BlocksOK /\ ModelOK /\ RestOK /\ ModelOK'
      /\ (shown \in Sorted \cup {Idle} /\ Over(DrawnClosed))'
  BY <1>1, Standing
<1>2. Both(local', remote') \in LocalAndServer
  BY <1>1 DEF Both, LocalAndServer
<1>3. BlocksOK'
  BY <1>0, <1>1, <1>2, NewBlock, DispatchStep DEF Tasks, Steps
<1>4. RestOK'
  BY <1>0, <1>1, Counted DEF RestOK
<1> QED BY <1>0, <1>3, <1>4, PartsNext

LEMMA PaperDeletedStep ==
  ASSUME IInv, NEW p \in PaperPreviewModel, PaperDeleted(p)
  PROVE  IInv'
<1> DEFINE Rest(list) == {q \in list : q.id # p.id}
<1>1. /\ UNCHANGED model /\ changes < MaxChanges /\ changes' = changes + 1
      /\ UNCHANGED <<timer, timerInput, visible, shown, mainQueue, now, visits>>
  BY DEF PaperDeleted, clock, screen
<1>0. /\ BlocksOK /\ ModelOK /\ RestOK /\ ModelOK'
      /\ UNCHANGED block => BlocksOK'
      /\ (shown \in Sorted \cup {Idle} /\ Over(DrawnClosed))'
  BY <1>1, Standing
<1>2. Rest(remote) \in ListsFrom("server") /\ Rest(local) \in ListsFrom("local")
  BY <1>0, PartOfList DEF RestOK
<1>3. /\ local' \in {local, Rest(local)} /\ remote' \in {remote, Rest(remote)}
      /\ \/ Dispatch(Block("lists", "local", Both(local, remote')))
         \/ Dispatch(Block("lists", "local", Both(local', remote)))
         \/ UNCHANGED block
  BY DEF PaperDeleted
<1>4. local' \in ListsFrom("local") /\ remote' \in ListsFrom("server")
  BY <1>0, <1>2, <1>3 DEF RestOK
<1>5. Both(local, remote') \in LocalAndServer /\ Both(local', remote) \in LocalAndServer
  BY <1>0, <1>4 DEF Both, RestOK, LocalAndServer
<1>6. BlocksOK'
  BY <1>0, <1>1, <1>3, <1>5, NewBlock, DispatchStep DEF Tasks, Steps
<1>7. RestOK'
  BY <1>0, <1>1, <1>4, Counted DEF RestOK
<1> QED BY <1>0, <1>6, <1>7, PartsNext

(* The screen and its timer.                                               *)
LEMMA SurroundingsStep ==
  ASSUME IInv, ViewDidAppear \/ ViewDidDisappear \/ BindTimer \/ CancelTimer \/ TimeIsUpdated
  PROVE  IInv'
<1>1. UNCHANGED <<databases, model, shown, mainQueue, now, changes>>
  BY DEF ViewDidAppear, ViewDidDisappear, BindTimer, CancelTimer, TimeIsUpdated, screen, bounds
<1>0. /\ BlocksOK /\ ModelOK /\ RestOK /\ ModelOK'
      /\ UNCHANGED block => BlocksOK'
      /\ (shown \in Sorted \cup {Idle} /\ Over(DrawnClosed))'
  BY <1>1, Standing
<1>2. BlocksOK'
  <2>1. CASE ViewDidAppear
    BY <1>0, <1>1, <2>1, NewTask, DispatchStep DEF ViewDidAppear, Tasks, Steps
  <2>2. CASE TimeIsUpdated
    <3>1. block' = [block EXCEPT ![0] = Task("timeIsUpdated", "filter")]
      BY <2>2 DEF TimeIsUpdated
    <3>2. /\ Task("timeIsUpdated", "filter") \in Blocks
          /\ Over(Task("timeIsUpdated", "filter").split.closed)
      BY NewTask DEF Tasks, Steps
    <3> QED BY <1>0, <1>1, <3>1, <3>2, ThreadStep
  <2>3. CASE ViewDidDisappear \/ BindTimer \/ CancelTimer
    BY <1>0, <2>3 DEF ViewDidDisappear, BindTimer, CancelTimer
  <2> QED BY <2>1, <2>2, <2>3
<1>3. timerInput.bind \in Nat /\ timerInput.cancel \in Nat
  BY <1>0 DEF RestOK
<1>4. timerInput' \in [bind : Nat, cancel : Nat]
  <2>1. CASE ViewDidAppear
    BY <1>0, <1>3, <2>1 DEF ViewDidAppear, RestOK
  <2>2. CASE ViewDidDisappear
    BY <1>0, <1>3, <2>2 DEF ViewDidDisappear, RestOK
  <2>3. CASE BindTimer
    BY <1>0, <1>3, <2>3 DEF BindTimer, RestOK
  <2>4. CASE CancelTimer
    BY <1>0, <1>3, <2>4 DEF CancelTimer, RestOK
  <2>5. CASE TimeIsUpdated
    BY <1>0, <2>5 DEF TimeIsUpdated, RestOK, clock
  <2> QED BY <2>1, <2>2, <2>3, <2>4, <2>5
<1>5. timer' \in BOOLEAN /\ visible' \in BOOLEAN /\ visits' \in 0..MaxVisits
  BY <1>0, Counted
     DEF ViewDidAppear, ViewDidDisappear, BindTimer, CancelTimer, TimeIsUpdated, RestOK,
         clock, screen, bounds
<1>6. RestOK'
  BY <1>0, <1>1, <1>4, <1>5 DEF RestOK, databases
<1> QED BY <1>0, <1>2, <1>6, PartsNext

(* The only step that moves the clock closes nothing.                      *)
LEMMA TimePassesStep ==
  ASSUME IInv, TimePasses
  PROVE  IInv'
<1>1. BlocksOK /\ ModelOK /\ RestOK /\ now \in Nat
  BY Parts, TimeTyped
<1>2. /\ now' \in Nat /\ now <= now' /\ now' \in 0..MaxTime
      /\ UNCHANGED <<databases, model, clock, visible, shown, block, mainQueue, changes, visits>>
  BY <1>1, Counted DEF TimePasses, screen
<1>3. BlocksOK' /\ ModelOK' /\ (shown \in Sorted \cup {Idle} /\ Over(DrawnClosed))'
  BY <1>1, <1>2, BlocksKept, ModelKept, ShownKept
<1>4. RestOK'
  BY <1>1, <1>2, <1>3 DEF RestOK, databases, clock
<1> QED BY <1>3, <1>4, PartsNext

(* The databases, the screen and the clock are those of the last step.     *)
LEMMA RestKept ==
  ASSUME RestOK, UNCHANGED <<databases, clock, screen, mainQueue, bounds>>
  PROVE  RestOK'
BY DEF RestOK, databases, clock, screen, bounds, Over, DrawnClosed

LEMMA RestSending ==
  ASSUME RestOK, UNCHANGED <<databases, clock, screen, bounds>>,
         NEW e \in {"reloadData", "initPapers"},
         mainQueue' \in {mainQueue, Append(mainQueue, e)}
  PROVE  RestOK'
<1>1. mainQueue' \in Seq({"reloadData", "initPapers"})
  BY Sending DEF RestOK
<1> QED BY <1>1 DEF RestOK, databases, clock, screen, bounds, Over, DrawnClosed

LEMMA ListsArriveStep ==
  ASSUME IInv, NEW t \in 0..Threads, LocalArrives(t) \/ ServerArrives(t)
  PROVE  IInv'
<1>1. /\ UNCHANGED <<databases, serverPaperIds, papers, sorted, closedPaperIds, isPaperClosed, clock, screen,
                     mainQueue, bounds>>
      /\ block[t] # Idle /\ UNCHANGED now
  BY DEF LocalArrives, ServerArrives, At, bounds
<1>0. BlocksOK /\ ModelOK /\ RestOK
  BY <1>1, Standing
<1>2. block[t] \in Blocks /\ block[t].lists \in LocalAndServer /\ Over(block[t].split.closed)
  BY <1>0, <1>1 DEF BlocksOK, Blocks, SplitsInTime
<1>3. lists' \in LocalAndServer
  BY <1>0, <1>2 DEF LocalArrives, ServerArrives, ModelOK, LocalAndServer
<1>4. ModelOK'
  BY <1>0, <1>1, <1>3 DEF ModelOK, Over
<1>5. BlocksOK'
  <2>1. CASE LocalArrives(t)
    <3> DEFINE b == [block[t] EXCEPT !.step = "server"]
    <3>1. b \in Blocks /\ b.split = block[t].split
      BY <1>2 DEF Blocks, Steps
    <3>2. block' = [block EXCEPT ![t] = b]
      BY <2>1 DEF LocalArrives, GoesTo
    <3> HIDE DEF b
    <3> QED BY <1>0, <1>1, <1>2, <3>1, <3>2, ThreadStep
  <2>2. CASE ServerArrives(t)
    BY <1>0, <1>1, <2>2, NewTask, ThreadStep DEF ServerArrives, Tasks, Steps
  <2> QED BY <2>1, <2>2
<1>6. RestOK'
  BY <1>0, <1>1, RestKept
<1> QED BY <1>4, <1>5, <1>6, PartsNext

LEMMA AssignServerIdsStep ==
  ASSUME IInv, NEW t \in 0..Threads, AssignServerIds(t)
  PROVE  IInv'
<1>1. /\ UNCHANGED <<databases, lists, papers, sorted, closedPaperIds, isPaperClosed, clock,
                     screen, mainQueue, bounds, now>>
      /\ block[t] # Idle
  BY DEF AssignServerIds, At, bounds
<1>0. BlocksOK /\ ModelOK /\ RestOK
  BY <1>1, Standing
<1>2. block[t] \in Blocks /\ Over(block[t].split.closed)
  BY <1>0, <1>1 DEF BlocksOK, SplitsInTime
<1>3. serverPaperIds' \subseteq Papers
  <2>1. lists.remote \subseteq PaperPreviewModel
    BY <1>0 DEF ModelOK, LocalAndServer, ListsFrom, Lists
  <2> QED BY <2>1 DEF AssignServerIds, Ids, PaperPreviewModel
<1>4. ModelOK'
  BY <1>0, <1>1, <1>3 DEF ModelOK, Over
<1>5. BlocksOK'
  <2> DEFINE b == [block[t] EXCEPT !.step = "filter"]
  <2>1. b \in Blocks /\ b.split = block[t].split
    BY <1>2 DEF Blocks, Steps
  <2>2. block' = [block EXCEPT ![t] = b]
    BY DEF AssignServerIds, GoesTo
  <2> HIDE DEF b
  <2> QED BY <1>0, <1>1, <1>2, <2>1, <2>2, ThreadStep
<1>6. RestOK'
  BY <1>0, <1>1, RestKept
<1> QED BY <1>4, <1>5, <1>6, PartsNext

(* Wherever the block of thread t is in classifyPapers, and whoever        *)
(* assigned the variables it reads.                                        *)
LEMMA ClassifyStep ==
  ASSUME IInv, NEW t \in 0..Threads, Classify(t)
  PROVE  IInv'
<1>1. UNCHANGED <<databases, lists, serverPaperIds, clock, screen, bounds, now>> /\ block[t] # Idle
  BY DEF Classify, FilterLocal, MergeLists, SplitPapers, CompareClosed, AssignIds, AssignOpened,
         AssignClosed, At, bounds, model
<1>0. /\ BlocksOK /\ ModelOK /\ RestOK /\ now \in Nat
      /\ UNCHANGED model => ModelOK'
      /\ UNCHANGED mainQueue => RestOK'
  BY <1>1, Standing, RestKept
<1>2. /\ block[t] \in Blocks /\ Over(block[t].split.closed)
      /\ block[t].split \in Sorted /\ block[t].papersLocalOnly \in ListsFrom("local")
  BY <1>0, <1>1 DEF BlocksOK, SplitsInTime, Blocks
<1>3. ASSUME NEW step \in Steps, GoesTo(t, step) PROVE BlocksOK'
  <2> DEFINE b == [block[t] EXCEPT !.step = step]
  <2>1. b \in Blocks /\ b.split = block[t].split /\ block' = [block EXCEPT ![t] = b]
    BY <1>2, <1>3 DEF GoesTo, Blocks
  <2> HIDE DEF b
  <2> QED BY <1>0, <1>1, <1>2, <2>1, ThreadStep
<1>4. CASE FilterLocal(t)
  <2> DEFINE b == [block[t] EXCEPT !.step = "merge", !.papersLocalOnly = LocalOnly(lists)]
  <2>1. LocalOnly(lists) \in ListsFrom("local")
    BY <1>0, LocalOnlyList DEF ModelOK
  <2>2. b \in Blocks /\ b.split = block[t].split
    BY <1>2, <2>1 DEF Blocks, Steps
  <2>3. block' = [block EXCEPT ![t] = b]
    BY <1>0, <1>4 DEF FilterLocal, BlocksOK
  <2> HIDE DEF b
  <2>4. BlocksOK'
    BY <1>0, <1>1, <1>2, <2>2, <2>3, ThreadStep
  <2> QED BY <1>0, <1>4, <2>4, PartsNext DEF FilterLocal
<1>5. CASE MergeLists(t)
  <2> DEFINE b == [block[t] EXCEPT !.step = "split", !.papersLocalOnly = {}]
  <2>1. {} \in ListsFrom("local")
    BY EmptyList
  <2>2. b \in Blocks /\ b.split = block[t].split
    BY <1>2, <2>1 DEF Blocks, Steps
  <2>3. block' = [block EXCEPT ![t] = b]
    BY <1>0, <1>5 DEF MergeLists, BlocksOK
  <2> HIDE DEF b
  <2>4. BlocksOK'
    BY <1>0, <1>1, <1>2, <2>2, <2>3, ThreadStep
  <2>5. papers' \in Lists
    <3>1. lists.remote \in ListsFrom("server") /\ papers' = block[t].papersLocalOnly \cup lists.remote
      BY <1>0, <1>5 DEF MergeLists, ModelOK, LocalAndServer
    <3> QED BY <1>2, <3>1, MergedList
  <2>6. ModelOK'
    BY <1>0, <1>1, <1>5, <2>5 DEF MergeLists, ModelOK, Over
  <2> QED BY <1>0, <1>5, <2>4, <2>6, PartsNext DEF MergeLists
<1>6. CASE SplitPapers(t)
  <2> DEFINE split == SplitAtNow(papers)
             b == [block[t] EXCEPT !.step = "compare", !.split = split]
  <2>1. split \in Sorted /\ Over(split.closed)
    BY <1>0, SplitList DEF ModelOK
  <2> HIDE DEF split
  <2>2. b \in Blocks /\ b.split = split
    BY <1>2, <2>1 DEF Blocks, Steps
  <2>3. block' = [block EXCEPT ![t] = b]
    BY <1>0, <1>6 DEF SplitPapers, split, BlocksOK
  <2> HIDE DEF b
  <2>4. BlocksOK'
    BY <1>0, <1>1, <2>1, <2>2, <2>3, ThreadStep
  <2> QED BY <1>0, <1>6, <2>4, PartsNext DEF SplitPapers
<1>7. CASE CompareClosed(t) \/ AssignIds(t) \/ AssignOpened(t)
  <2>1. BlocksOK'
    BY <1>3, <1>7 DEF CompareClosed, AssignIds, AssignOpened, Steps
  <2>2. Ids(block[t].split.closed) \subseteq Papers
    BY <1>2 DEF Ids, Sorted, Lists, PaperPreviewModel
  <2>3. /\ isPaperClosed' \in BOOLEAN /\ closedPaperIds' \subseteq Papers /\ UNCHANGED papers
        /\ sorted' \in Sorted /\ sorted'.closed = sorted.closed
    <3>1. CASE CompareClosed(t)
      BY <1>0, <3>1 DEF CompareClosed, ModelOK
    <3>2. CASE AssignIds(t)
      BY <1>0, <2>2, <3>2 DEF AssignIds, ModelOK
    <3>3. CASE AssignOpened(t)
      BY <1>0, <1>2, <3>3 DEF AssignOpened, ModelOK, Sorted
    <3> QED BY <1>7, <3>1, <3>2, <3>3
  <2>4. ModelOK'
    BY <1>0, <1>1, <2>3 DEF ModelOK, Over
  <2> QED BY <1>0, <1>7, <2>1, <2>4, PartsNext DEF CompareClosed, AssignIds, AssignOpened
<1>8. CASE AssignClosed(t)
  <2>1. /\ sorted' \in Sorted /\ sorted'.closed = block[t].split.closed
        /\ UNCHANGED <<papers, closedPaperIds, isPaperClosed>>
    BY <1>0, <1>2, <1>8 DEF AssignClosed, ModelOK, Sorted
  <2>2. ModelOK'
    BY <1>0, <1>1, <1>2, <2>1 DEF ModelOK, Over
  <2>3. CASE t = 0
    <3>1. block' = [block EXCEPT ![0] = Task("timeIsUpdated", "check")] /\ UNCHANGED mainQueue
      BY <1>8, <2>3 DEF AssignClosed, EndOfSorting
    <3>2. BlocksOK'
      BY <1>0, <1>1, <3>1, NewTask, ThreadStep DEF Tasks, Steps
    <3> QED BY <1>0, <2>2, <3>1, <3>2, PartsNext
  <2>4. CASE t # 0
    <3>1. block' = [block EXCEPT ![t] = Idle]
          /\ mainQueue' = Append(mainQueue, Sent(block[t].task))
      BY <1>8, <2>4 DEF AssignClosed, EndOfSorting
    <3>2. BlocksOK'
      BY <1>0, <1>1, <3>1, ThreadStep
    <3>3. Sent(block[t].task) \in {"reloadData", "initPapers"}
      BY DEF Sent
    <3>4. RestOK'
      BY <1>0, <1>1, <3>1, <3>3, RestSending
    <3> QED BY <2>2, <3>2, <3>4, PartsNext
  <2> QED BY <2>3, <2>4
<1> QED BY <1>4, <1>5, <1>6, <1>7, <1>8 DEF Classify

LEMMA MainStep ==
  ASSUME IInv, CheckClosed \/ ReloadData \/ InitPapers
  PROVE  IInv'
<1>1. UNCHANGED <<databases, model, clock, visible, bounds, now>>
  BY DEF CheckClosed, ReloadData, InitPapers, screen, bounds
<1>0. /\ BlocksOK /\ ModelOK /\ RestOK /\ ModelOK'
      /\ UNCHANGED block => BlocksOK'
  BY <1>1, Standing
<1>2. CASE CheckClosed
  <2>1. BlocksOK'
    BY <1>0, <1>1, <1>2, ThreadStep DEF CheckClosed
  <2>2. RestOK'
    BY <1>0, <1>2, RestSending DEF CheckClosed
  <2> QED BY <1>0, <2>1, <2>2, PartsNext
<1>3. CASE ReloadData \/ InitPapers
  <2>1. /\ UNCHANGED block /\ shown' \in {shown, sorted}
        /\ mainQueue # << >> /\ mainQueue' = Tail(mainQueue)
    BY <1>3 DEF ReloadData, InitPapers, MainTurn
  <2>2. mainQueue' \in Seq({"reloadData", "initPapers"})
    BY <1>0, <2>1, HeadTailProperties DEF RestOK
  <2>3. shown' \in Sorted \cup {Idle} /\ (Over(DrawnClosed))'
    BY <1>0, <1>1, <2>1 DEF RestOK, ModelOK, Over, DrawnClosed
  <2>4. RestOK'
    BY <1>0, <1>1, <2>2, <2>3 DEF RestOK, databases, clock, bounds
  <2> QED BY <1>0, <2>1, <2>4, PartsNext
<1> QED BY <1>2, <1>3

LEMMA InitInvariant == Init => IInv
<1> SUFFICES ASSUME Init PROVE IInv
  OBVIOUS
<1>1. local \in ListsFrom("local") /\ remote \in ListsFrom("server") /\ {} \in Lists
  BY EmptyList DEF Init
<1>2. ModelOK
  <2>1. Both({}, {}) \in LocalAndServer
    BY EmptyList DEF Both, LocalAndServer
  <2> QED BY <1>1, <2>1 DEF Init, ModelOK, Sorted, Over
<1>3. << >> \in Seq({"reloadData", "initPapers"})
  OBVIOUS
<1>4. /\ timerInput \in [bind : Nat, cancel : Nat]
      /\ now \in 0..MaxTime /\ changes \in 0..MaxChanges /\ visits \in 0..MaxVisits
  BY PaperStorageAssumption DEF Init
<1>5. timer \in BOOLEAN /\ visible \in BOOLEAN /\ shown = Idle /\ mainQueue = << >>
  BY DEF Init
<1>6. RestOK
  BY <1>1, <1>3, <1>4, <1>5 DEF RestOK, Over, DrawnClosed
<1>7. BlocksOK
  <2> DEFINE b == Block("lists", "local", Both(local, remote))
  <2>1. Both(local, remote) \in LocalAndServer
    BY <1>1 DEF Both, LocalAndServer
  <2>2. b \in Blocks /\ Over(b.split.closed)
    BY <2>1, NewBlock DEF Tasks, Steps
  <2>3. block = [t \in 0..Threads |-> IF t = 1 THEN b ELSE Idle]
    BY DEF Init
  <2> HIDE DEF b
  <2> QED BY <2>2, <2>3 DEF BlocksOK, SplitsInTime
<1> QED BY <1>2, <1>6, <1>7, Parts

LEMMA NextInvariant == IInv /\ [Next]_vars => IInv'
<1> SUFFICES ASSUME IInv, [Next]_vars PROVE IInv'
  OBVIOUS
<1>1. Background \subseteq 0..Threads /\ 0 \in 0..Threads
  BY PaperStorageAssumption DEF Background
<1>2. CASE Environment
  BY <1>2, DatabasePublishesStep, PaperDeletedStep, SurroundingsStep DEF Environment
<1>3. CASE TimePasses \/ TimeIsUpdated
  BY <1>3, SurroundingsStep, TimePassesStep
<1>4. CASE BackgroundTurn
  BY <1>1, <1>4, SurroundingsStep, ListsArriveStep, AssignServerIdsStep, ClassifyStep
     DEF BackgroundTurn
<1>5. CASE Main
  BY <1>1, <1>5, MainStep, ClassifyStep DEF Main
<1>6. CASE UNCHANGED vars
  <2>1. UNCHANGED <<model, block, now>> /\ UNCHANGED <<databases, clock, screen, mainQueue, bounds>>
    BY <1>6 DEF vars, bounds
  <2> QED BY <2>1, Standing, RestKept, PartsNext
<1> QED BY <1>2, <1>3, <1>4, <1>5, <1>6 DEF Next

(* The invariant that the theorems follow from.                            *)
THEOREM Invariant == Spec => []IInv
BY InitInvariant, NextInvariant, PTL DEF Spec

(* No list, nor what is merged or sorted from them, ever has a board twice *)
(* from one database, whatever the order and the number of the blocks that *)
(* sort: classifyPapers, PaperStorageViewModel.swift:103-144.              *)
THEOREM TypeCorrect == Spec => []TypeOK
<1>1. IInv => TypeOK
  BY DEF IInv
<1> QED BY <1>1, Invariant, PTL

(* No board is closed, or drawn as closed, before its time, however many   *)
(* blocks sort at once, and whoever overtakes whom between two statements: *)
(* classifyPapers, PaperStorageViewModel.swift:127-143.                    *)
THEOREM ClosedInTime == Spec => []NotBeforeTime
<1>1. IInv => NotBeforeTime
  BY DEF IInv
<1> QED BY <1>1, Invariant, PTL
=============================================================================
