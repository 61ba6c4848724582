---------------------------- MODULE PaperStorage ----------------------------
(***************************************************************************)
(* The list of boards: PaperStorageViewModel, which merges what the two    *)
(* database managers publish and sorts it into open and closed boards, its *)
(* TimeFlowManager, which has it sort again every second while the list is *)
(* on the screen, and PaperStorageViewController, whose collection view    *)
(* keeps what it was told to draw last.                                    *)
(*                                                                         *)
(* The lists and the appearances of the screen are handled by blocks of a  *)
(* concurrent queue: they run in any order and at once, and beside the     *)
(* ticks of the clock on the main thread.  classifyPapers is therefore in  *)
(* as many steps as it has statements, or loops, on the variables that the *)
(* blocks share.  (A read of an array while another thread assigns it      *)
(* gives the old or the new one here.)                                     *)
(*                                                                         *)
(* Time is counted in the whole seconds that are left to a board: end is   *)
(* the first instant at which Int(timeIntervalSince) is no longer above 0. *)
(* The order of the boards on the screen is layout, and left out.          *)
(***************************************************************************)
EXTENDS Naturals, Sequences, FiniteSets

CONSTANTS
  Papers,      \* identifiers of boards
  Ends,        \* the instants at which boards close
  Threads,     \* bound: how many blocks are under way at once
  Idle,        \* what a thread without a block runs
  MaxTime,     \* bound: the clock
  MaxChanges,  \* bound: how often the databases publish
  MaxVisits    \* bound: how often the screen appears or disappears

ASSUME PaperStorageAssumption ==
  /\ Ends \subseteq Nat /\ IsFiniteSet(Papers) /\ IsFiniteSet(Ends)
  /\ Threads \in Nat /\ MaxTime \in Nat /\ MaxChanges \in Nat /\ MaxVisits \in Nat

(* A preview, with the database whose copy it is.                          *)
PaperPreviewModel == [id : Papers, end : Ends, from : {"local", "server"}]

(* Each database has one preview of a board.                               *)
Lists == {s \in SUBSET PaperPreviewModel :
            \A p, q \in s : p.id = q.id /\ p.from = q.from => p = q}

ListsFrom(database) == {s \in Lists : \A p \in s : p.from = database}

VARIABLES
  local, remote,  \* papersSubject.value of the two managers
  lists,          \* papersFromLocal and papersFromServer
  serverPaperIds,
  papers,
  sorted,         \* openedPapers and closedPapers
  closedPaperIds,
  isPaperClosed,
  timer,          \* whether TimeFlowManager's timer runs
  timerInput,     \* how many blocks are to bind it, and to cancel it
  visible,        \* whether the screen is in front
  shown,          \* what the collection view has drawn, Idle before its layout
  block,          \* the block that each thread runs
  mainQueue,      \* the events that wait for the main thread
  now, changes, visits

databases == <<local, remote>>
model     == <<lists, serverPaperIds, papers, sorted, closedPaperIds, isPaperClosed>>
clock     == <<timer, timerInput>>
screen    == <<visible, shown>>
bounds    == <<now, changes, visits>>
vars == <<databases, model, clock, screen, block, mainQueue, bounds>>

Both(l, s) == [local |-> l, remote |-> s]

(* A block: which closure it runs, how far it is, and its own variables.   *)
Block(task, step, both) ==
  [task |-> task, step |-> step, lists |-> both, papersLocalOnly |-> {},
   split |-> [opened |-> {}, closed |-> {}]]

Task(task, step) == Block(task, step, Both({}, {}))

(* Thread 0 is the main thread.                                            *)
Background == 1..Threads

Free == {t \in Background : block[t] = Idle}

FirstFree == CHOOSE t \in Free : \A s \in Free : t <= s

(* A block of the background queue begins to run.                          *)
Dispatch(b) ==
  /\ Free # {}
  /\ block' = [block EXCEPT ![FirstFree] = b]

(* The device's boards are read at the start, the server's come later.     *)
Init ==
  /\ local \in ListsFrom("local") /\ remote = {}
  /\ lists = Both({}, {}) /\ serverPaperIds = {} /\ papers = {}
  /\ sorted = [opened |-> {}, closed |-> {}]
  /\ closedPaperIds = {} /\ isPaperClosed = FALSE
  /\ timer = FALSE /\ timerInput = [bind |-> 0, cancel |-> 0]
  /\ visible = FALSE /\ shown = Idle
  /\ block = [t \in 0..Threads |->
                IF t = 1 THEN Block("lists", "local", Both(local, remote)) ELSE Idle]
  /\ mainQueue = << >>
  /\ now = 0 /\ changes = 0 /\ visits = 0

-----------------------------------------------------------------------------
(* What happens around the screen                                          *)

(* A database publishes: combineLatest hands on the latest of both.        *)
DatabasePublishes ==
  /\ changes < MaxChanges
  /\ changes' = changes + 1
  /\ \/ local' \in ListsFrom("local") \ {local} /\ UNCHANGED remote
     \/ remote' \in ListsFrom("server") \ {remote} /\ UNCHANGED local
  /\ Dispatch(Block("lists", "local", Both(local', remote')))
  /\ UNCHANGED <<model, clock, screen, mainQueue, now, visits>>

(* A board on the screen is deleted: by the server's manager, if the board *)
(* counts as the server's, and else by the device's, whose copy stays      *)
(* otherwise.  The list that is left is published, at once here.           *)
PaperDeleted(p) ==
  /\ visible /\ shown # Idle /\ p \in shown.opened \cup shown.closed
  /\ changes < MaxChanges
  /\ changes' = changes + 1
  /\ LET Rest(list) == {q \in list : q.id # p.id}
     IN  \/ /\ p.id \in serverPaperIds
            /\ remote' = Rest(remote) /\ UNCHANGED local
            /\ IF remote' = remote THEN UNCHANGED block
               ELSE Dispatch(Block("lists", "local", Both(local, remote')))
         \/ /\ p.id \notin serverPaperIds
            /\ local' = Rest(local) /\ UNCHANGED remote
            /\ IF local' = local THEN UNCHANGED block
               ELSE Dispatch(Block("lists", "local", Both(local', remote)))
  /\ UNCHANGED <<model, clock, screen, mainQueue, now, visits>>

(* viewDidAppear and viewDidDisappear of the controller.  The block of the *)
(* view model passes the event on to TimeFlowManager, whose closure is a   *)
(* block of its own.                                                       *)
ViewDidAppear ==
  /\ ~visible /\ visits < MaxVisits
  /\ visible' = TRUE
  /\ timerInput' = [timerInput EXCEPT !.bind = @ + 1]
  /\ Dispatch(Task("appear", "filter"))
  /\ visits' = visits + 1
  /\ UNCHANGED <<databases, model, timer, shown, mainQueue, now, changes>>

ViewDidDisappear ==
  /\ visible /\ visits < MaxVisits
  /\ visible' = FALSE
  /\ timerInput' = [timerInput EXCEPT !.cancel = @ + 1]
  /\ visits' = visits + 1
  /\ UNCHANGED <<databases, model, timer, shown, block, mainQueue, now, changes>>

(* A timer that is bound again replaces the one that runs.                 *)
BindTimer ==
  /\ timerInput.bind > 0
  /\ timerInput' = [timerInput EXCEPT !.bind = @ - 1]
  /\ timer' = TRUE
  /\ UNCHANGED <<databases, model, screen, block, mainQueue, bounds>>

CancelTimer ==
  /\ timerInput.cancel > 0
  /\ timerInput' = [timerInput EXCEPT !.cancel = @ - 1]
  /\ timer' = FALSE
  /\ UNCHANGED <<databases, model, screen, block, mainQueue, bounds>>

TimePasses ==
  /\ now < MaxTime
  /\ now' = now + 1
  /\ UNCHANGED <<databases, model, clock, screen, block, mainQueue, changes, visits>>

-----------------------------------------------------------------------------
(* classifyPapers, in the block of thread t                                *)

(* The boards of the device that the server does not have.                 *)
LocalOnly(both) == {p \in both.local : \A q \in both.remote : p.id # q.id}

(* Mutant: a board of which half a second is left is rounded to closed.    *)
SplitEarly(ps) ==
  [opened |-> {p \in ps : p.end > now + 1}, closed |-> {p \in ps : ~(p.end > now + 1)}]

SplitAtNow(ps) ==
  [opened |-> {p \in ps : p.end > now}, closed |-> {p \in ps : ~(p.end > now)}]

Ids(ps) == {p.id : p \in ps}

(* The block of thread t is at the given step and goes on to the next.     *)
At(t, step) == block[t] # Idle /\ block[t].step = step

GoesTo(t, next) == block' = [block EXCEPT ![t].step = next]

(* bindDatabaseManager's closure, before it sorts.                         *)
LocalArrives(t) ==
  /\ At(t, "local")
  /\ lists' = [lists EXCEPT !.local = block[t].lists.local]
  /\ GoesTo(t, "server")
  /\ UNCHANGED <<databases, serverPaperIds, papers, sorted, closedPaperIds, isPaperClosed, clock, screen, mainQueue, bounds>>

ServerArrives(t) ==
  /\ At(t, "server")
  /\ lists' = [lists EXCEPT !.remote = block[t].lists.remote]
  /\ block' = [block EXCEPT ![t] = Task("lists", "serverIds")]
  /\ UNCHANGED <<databases, serverPaperIds, papers, sorted, closedPaperIds, isPaperClosed, clock, screen, mainQueue, bounds>>

AssignServerIds(t) ==
  /\ At(t, "serverIds")
  /\ serverPaperIds' = Ids(lists.remote)
  /\ GoesTo(t, "filter")
  /\ UNCHANGED <<databases, lists, papers, sorted, closedPaperIds, isPaperClosed, clock, screen, mainQueue, bounds>>

FilterLocal(t) ==
  /\ At(t, "filter")
  /\ block' = [block EXCEPT ![t].step = "merge", ![t].papersLocalOnly = LocalOnly(lists)]
  /\ UNCHANGED <<databases, model, clock, screen, mainQueue, bounds>>

(* Mutant: the lists are added to the papers that were merged before.      *)
MergeListsAppending(t) ==
  /\ At(t, "merge")
  /\ papers' = papers \cup block[t].papersLocalOnly \cup lists.remote
  /\ block' = [block EXCEPT ![t].step = "split", ![t].papersLocalOnly = {}]
  /\ UNCHANGED <<databases, lists, serverPaperIds, sorted, closedPaperIds, isPaperClosed, clock, screen, mainQueue, bounds>>

MergeLists(t) ==
  /\ At(t, "merge")
  /\ papers' = block[t].papersLocalOnly \cup lists.remote
  /\ block' = [block EXCEPT ![t].step = "split", ![t].papersLocalOnly = {}]
  /\ UNCHANGED <<databases, lists, serverPaperIds, sorted, closedPaperIds, isPaperClosed, clock, screen, mainQueue, bounds>>

SplitPapers(t) ==
  /\ At(t, "split")
  /\ block' = [block EXCEPT ![t].step = "compare", ![t].split = SplitAtNow(papers)]
  /\ UNCHANGED <<databases, model, clock, screen, mainQueue, bounds>>

CompareClosed(t) ==
  /\ At(t, "compare")
  /\ isPaperClosed' = (Cardinality(Ids(block[t].split.closed)) > Cardinality(closedPaperIds))
  /\ GoesTo(t, "ids")
  /\ UNCHANGED <<databases, lists, serverPaperIds, papers, sorted, closedPaperIds, clock, screen, mainQueue, bounds>>

AssignIds(t) ==
  /\ At(t, "ids")
  /\ closedPaperIds' = Ids(block[t].split.closed)
  /\ GoesTo(t, "opened")
  /\ UNCHANGED <<databases, lists, serverPaperIds, papers, sorted, isPaperClosed, clock, screen, mainQueue, bounds>>

AssignOpened(t) ==
  /\ At(t, "opened")
  /\ sorted' = [sorted EXCEPT !.opened = block[t].split.opened]
  /\ GoesTo(t, "closed")
  /\ UNCHANGED <<databases, lists, serverPaperIds, papers, closedPaperIds, isPaperClosed, clock, screen, mainQueue, bounds>>

(* What a block sends to the controller after it sorted the boards.        *)
Sent(task) == IF task = "lists" THEN "reloadData" ELSE "initPapers"

(* A block of the background queue sends what it sends at once; the tick   *)
(* on the main thread looks at isPaperClosed first.                        *)
EndOfSorting(t) ==
  IF t = 0 THEN /\ block' = [block EXCEPT ![0] = Task("timeIsUpdated", "check")]
                /\ UNCHANGED mainQueue
           ELSE /\ block' = [block EXCEPT ![t] = Idle]
                /\ mainQueue' = Append(mainQueue, Sent(block[t].task))

(* Mutant: the boards are taken over only if more of them are closed.      *)
AssignClosedIfGrown(t) ==
  /\ At(t, "closed")
  /\ sorted' = [sorted EXCEPT !.closed = IF isPaperClosed THEN block[t].split.closed ELSE @]
  /\ EndOfSorting(t)
  /\ UNCHANGED <<databases, lists, serverPaperIds, papers, closedPaperIds, isPaperClosed, clock, screen, bounds>>

AssignClosed(t) ==
  /\ At(t, "closed")
  /\ sorted' = [sorted EXCEPT !.closed = block[t].split.closed]
  /\ EndOfSorting(t)
  /\ UNCHANGED <<databases, lists, serverPaperIds, papers, closedPaperIds, isPaperClosed, clock, screen, bounds>>

-----------------------------------------------------------------------------
(* The main thread                                                         *)

MainTurn(event) ==
  /\ block[0] = Idle
  /\ mainQueue # << >> /\ Head(mainQueue) = event
  /\ mainQueue' = Tail(mainQueue)

(* The timer's event comes back to the main thread, where bindTimer's      *)
(* closure of the view model begins to sort.  One tick is under way at a   *)
(* time; its first step may come as late as the event itself might.        *)
TimeIsUpdated ==
  /\ timer /\ block[0] = Idle /\ mainQueue = << >>
  /\ block' = [block EXCEPT ![0] = Task("timeIsUpdated", "filter")]
  /\ UNCHANGED <<databases, model, clock, screen, mainQueue, bounds>>

(* A tick has the view draw only if boards have closed.                    *)
CheckClosed ==
  /\ block[0] # Idle /\ block[0].step = "check"
  /\ block' = [block EXCEPT ![0] = Idle]
  /\ mainQueue' = IF isPaperClosed THEN Append(mainQueue, "reloadData") ELSE mainQueue
  /\ UNCHANGED <<databases, model, clock, screen, bounds>>

ReloadData ==
  /\ MainTurn("reloadData")
  /\ shown' = IF shown = Idle THEN Idle ELSE sorted
  /\ UNCHANGED <<databases, model, clock, visible, block, bounds>>

(* The collection view comes out of hiding; it asks for its boards only    *)
(* when it is laid out for the first time.                                 *)
InitPapers ==
  /\ MainTurn("initPapers")
  /\ shown' = IF shown = Idle THEN sorted ELSE shown
  /\ UNCHANGED <<databases, model, clock, visible, block, bounds>>

-----------------------------------------------------------------------------
Classify(t) ==
  \/ FilterLocal(t) \/ MergeLists(t) \/ SplitPapers(t)
  \/ CompareClosed(t) \/ AssignIds(t) \/ AssignOpened(t) \/ AssignClosed(t)

BackgroundTurn ==
  \/ BindTimer \/ CancelTimer
  \/ \E t \in Background : LocalArrives(t) \/ ServerArrives(t) \/ AssignServerIds(t) \/ Classify(t)

Main == CheckClosed \/ ReloadData \/ InitPapers \/ Classify(0)

Environment ==
  \/ DatabasePublishes \/ ViewDidAppear \/ ViewDidDisappear
  \/ \E p \in PaperPreviewModel : PaperDeleted(p)

Next == Environment \/ TimePasses \/ TimeIsUpdated \/ BackgroundTurn \/ Main

Spec == Init /\ [][Next]_vars

(* Queued blocks and events get their turn, the timer fires while it is    *)
(* bound, and time passes.                                                 *)
FairSpec ==
  Spec /\ WF_vars(BackgroundTurn) /\ WF_vars(Main) /\ WF_vars(TimeIsUpdated) /\ WF_vars(TimePasses)

-----------------------------------------------------------------------------
Sorted == [opened : Lists, closed : Lists]

Tasks == {"lists", "appear", "timeIsUpdated"}

Steps == {"local", "server", "serverIds", "filter", "merge", "split", "compare", "ids", "opened", "closed", "check"}

LocalAndServer == [local : ListsFrom("local"), remote : ListsFrom("server")]

Blocks == [task : Tasks, step : Steps, lists : LocalAndServer,
           papersLocalOnly : ListsFrom("local"), split : Sorted]

(* The variables hold what the declarations of the code allow, and a board *)
(* is never there twice from one database, whatever the order of the       *)
(* blocks.  PaperStorageViewModel.swift:103-144                            *)
TypeOK ==
  /\ local \in ListsFrom("local") /\ remote \in ListsFrom("server")
  /\ lists \in LocalAndServer
  /\ serverPaperIds \subseteq Papers /\ papers \in Lists
  /\ sorted \in Sorted /\ closedPaperIds \subseteq Papers
  /\ timerInput \in [bind : Nat, cancel : Nat]
  /\ isPaperClosed \in BOOLEAN /\ timer \in BOOLEAN /\ visible \in BOOLEAN
  /\ shown \in Sorted \cup {Idle}
  /\ block \in [0..Threads -> Blocks \cup {Idle}]
  /\ mainQueue \in Seq({"reloadData", "initPapers"})
  /\ now \in 0..MaxTime /\ changes \in 0..MaxChanges /\ visits \in 0..MaxVisits

(* The sorted boards are those of both lists as the clock has them.        *)
RightlySorted ==
  \A p \in PaperPreviewModel :
    LET listed == \/ p \in lists.remote
                  \/ p \in lists.local /\ \A q \in lists.remote : q.id # p.id
    IN  /\ p \in sorted.opened <=> listed /\ now < p.end
        /\ p \in sorted.closed <=> listed /\ p.end <= now

(* Whatever block was overtaken by another while it sorted, while the list *)
(* is on the screen with its timer the boards end up sorted by the lists   *)
(* received last and by the clock.  PaperStorageViewModel.swift:50-66      *)
SortedInTheEnd == <>[](visible /\ timer => RightlySorted)

(* No block is under way on the background queue.                          *)
Settled ==
  /\ \A t \in Background : block[t] = Idle
  /\ timerInput = [bind |-> 0, cancel |-> 0]

DrawnClosed == IF shown = Idle THEN {} ELSE shown.closed

(* No board is closed, or drawn as closed, while a second of it is left,   *)
(* whichever of the blocks that sort at once assigned it, and whatever the *)
(* lists were then.  PaperStorageViewModel.swift:127-143                   *)
NotBeforeTime == \A p \in sorted.closed \cup DrawnClosed : p.end <= now

(* With nothing under way, the boards that are drawn are the sorted ones.  *)
(* The controller: "update the UI if there is a change",                   *)
(* PaperStorageViewController.swift:107; initPapers draws nothing anew.    *)
ShownAsSorted ==
  visible /\ Settled /\ block[0] = Idle /\ mainQueue = << >>
    => shown \in {Idle, sorted}
=============================================================================
