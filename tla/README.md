# RollingPaper: TLA+ models, checks and proofs

RollingPaper is an iPad app for shared boards ("papers") on which several people
leave cards. A paper is made on one device, published to Firestore when its
link is shared, opened by other people through that link, decorated with cards,
stopped when its time is over, and may be turned into a gift. All paths below
are relative to `src/RollingPaper/RollingPaper/` unless they start with `Pods/`
(`src/RollingPaper/Pods/`).

## 1. Inventory

| Component | State | Operations | Talks to |
|---|---|---|---|
| `Managers/FirestoreManager.swift` | `paperSubject` (open paper), `papersSubject` (list of previews), `currentUserEmail`, the last listener registrations | the `DatabaseManager` protocol (`fetchPaper`, `resetPaper`, `addPaper`, `addCard`, `removeCard`, `updateCard`, `updatePaper`, `removePaper`, `convertPaperToGift`) and `bind` | Firestore (documents `papers/p`, `paperPreviews/p`, `users/u`), `FirebaseAuthManager`'s profile |
| Firestore client (`Pods/FirebaseFirestore`) | queue of unacknowledged writes, cached documents, listeners, pending reads | `setData`, `delete`, `getDocument`, `addSnapshotListener` | the backend; the app's main queue |
| `Managers/LocalDatabaseFileManager.swift` | paper files and preview files, `paperSubject`, `papersSubject` | the same protocol | the file system, the profile |
| `Managers/LocalDatabaseMockManager.swift` | in memory | the same protocol | nobody: not instantiated |
| `Managers/FirebaseAuthManager.swift` | `userProfileSubject`, the stored address, photo cache on disk, a listener of `users/u` | `signUp`, `signIn`, `signOut`, `deleteUser`, `appleSignIn`, `setUserProfile`, `fetchUserProfile` | Firebase Auth, Firestore, both database managers |
| `ViewModels/Other/WrittenPaper/WrittenPaperViewModel.swift` and its controller | the board on the screen, whether it is the device's or the server's, whether its link was made here, the buttons, boards on their way to the server | title, delete card, stop, delete, share link, gift link, leave | both database managers, storage, the profile |
| `ViewModels/Other/GiftPaper/GiftPaperViewModel.swift` | the same, read only | open, close | both database managers |
| `ViewModels/Other/Card/CardViewModel.swift` | background, result image | create a card: upload, then `addCard` | storage, database managers |
| `PaperStorageViewModel` and its controller, `TimeFlowManager` | both lists, merged papers, opened and closed papers, the timer, what is drawn | merge, sort by end time, draw, select, delete | database managers, clock, a concurrent queue |
| `GiftStorageViewModel`, `TimerView` | gifts by year; the countdown of a board | sort, show | database managers, `TimeFlowManager` |
| `PaperTemplateSelectViewModel`, `PaperSettingViewModel` | recent templates | choose a template, make a paper | `UserDefaults`, the local database manager |
| `NSCacheManager`, `LocalStorageManager`, `FirebaseStorageManager` | image cache, image files, uploads | put, get, upload, download | disk, Firebase Storage |
| `SettingScreenViewModel` | the profile of the moment | name, photo, both, sign out, resign | `FirebaseAuthManager`, storage |
| sign-in view models, sidebar, split view, view controllers, `SceneDelegate`, dynamic links | screens | user interface; a link opens a board, the sidebar covers one | the above |

How they interact: view models call a database manager and subscribe to its two
publishers; the managers subscribe to the profile; completion handlers and
snapshot listeners of the SDK run as closures on the main queue and write the
same publishers. Nothing in the app locks. Almost all its code runs on the main queue, where
concurrency is that of closures which run later than the state they captured, of
several devices on the same documents, and of the network; the list of boards and
its timer use a concurrent background queue, where closures overlap.

What is hard in it:

* a document is always written whole, from a copy in memory, so two writers undo
  each other's changes;
* a completion handler publishes what was true when the write was made;
* a dropped registration does not stop its listener;
* an error is handled like a missing document, also offline;
* an operation keeps three documents in step with three unrelated writes, and the
  user's list is read first and written later;
* a write may be refused after it was shown; an offline or killed app sends its
  writes much later, and completions are lost with the process;
* the local manager writes two files per paper, and changes cards in memory only.

What makes each component correct:

* `FirestoreManager`: a settled device shows the backend's board and the backend's
  previews; cards nobody removed stay; the preview and the user's list exist as
  long as the paper; the list is that of the signed-in user; cascades end.
* `LocalDatabaseFileManager`: files of a paper and of its preview come and go
  together; the list agrees with the files and with the profile.
* `FirebaseAuthManager`: the published profile is, in the end, that of the user's
  document, and no write loses what it does not know.
* `WrittenPaperViewModel`: the board on the screen is the one that is changed; a
  board that nobody shared stays on the device; a published board has all its cards.
* storage screen: each paper appears once, open or closed, as its end time says,
  and is drawn so.

`PROJECT.json` lists each hazard at its line.

## 2. Modules

| Module | What it models |
|---|---|
| `FirestoreClient` | the SDK between the devices and the backend |
| `FirestoreManager` (EXTENDS it) | the server database manager on every device |
| `MCFirestoreManager` | instances for TLC: who owns which paper at first, symmetry |
| `FirestoreManagerProofs` | theorems about it: what queues, documents and the list hold |
| `FirestoreScreenProofs` (EXTENDS them) | theorems about what its users see: their own list, the open board |
| `QueueFacts` | lemmas about queues that several proofs use |
| `LocalDatabase` | the local database manager on one device |
| `MCLocalDatabase` | its instances for TLC: symmetry |
| `LocalDatabaseProofs` | theorems about it |
| `PaperShelf` | what the local manager promises, without files, previews and errors |
| `LocalDatabaseShelf` | proof that `LocalDatabase` implements `PaperShelf` |
| `WrittenPaper` (EXTENDS `FirestoreClient`) | the board on the screen of one device, over both managers; the editor of a card, publishing, gifts, links |
| `MCWrittenPaper` | its instances for TLC |
| `WrittenPaperProofs` | theorems about it |
| `PaperStorage` | the list of boards: view model, timer, collection view, on several threads |
| `MCPaperStorage` | model values for TLC |
| `PaperStorageProofs` | theorems about it |
| `AuthProfile` | the signed-in user and the settings screen |
| `MCAuthProfile` | model values for TLC |
| `AuthProfileProofs` | theorems about it |

Definitions whose comment begins with "Mutant:" are variants with a plausible bug; they
are used by nothing in the modules and show, exchanged for the definition they vary,
that each property can be violated.

### FirestoreClient

`server[x]` is the committed value of document `x`; `client[d]` is what the SDK
keeps on device `d`: `pending` (the mutation queue), `base` (the remote document
cache), `listening` and `raised` (listeners, and those that have had their first
event), `gets` (open `getDocument` calls) and `inbox` (closures queued on the main
queue). `View(c, x)` is the SDK's latency compensation: the newest own write of
`x`, or the cached copy. A listener is notified only when the view of its document
changes (`QueryListener::OnViewSnapshot` strips metadata-only changes), the first
time when the document is known or the backend has said that it is missing, or
offline (`ShouldRaiseInitialEvent`). Every action is one turn of the SDK's worker
queue or of the network: `Acknowledge`, `Reject`, `Watch`, `OfflineSnapshot`,
`AnswerOnline`, `AnswerOffline`. Being offline is not a state: an offline device is
one for which the network actions do not happen, and any answer may come from the
cache.

Abstractions: commit and acknowledgement are one step (between the two a device
sees its own pending write, and the app is told later still, through `inbox`); two
listeners of one document hear the same events in the same turn and are one;
listening never ends, because the app only drops the registration and the SDK keeps
a listener until `remove()`.

### FirestoreManager

One action per operation of the protocol, one per closure. The map is direct:
`subject` is `paperSubject.value`, `papers` is `papersSubject.value` by identifier,
`email` is `currentUserEmail`, `paperObserver` the paper of the last registration,
`profile` the value of `userProfileSubject`. An operation is its synchronous part
up to the SDK call, e.g. `AddCard` is lines 125-135 and `AddCardDone` lines 136-143
of `FirestoreManager.swift`. An operation that calls other operations inside a
closure does so in one action: `PaperSnapshot` of a missing paper queues the
deletion of its preview and the read of the user's list in the same turn. `owner`,
`created` and `dropped` are history variables. `dropped[d]` holds the papers whose entry the
completion of `removePaperPreview` took off the list (lines 238-245) after their preview had been set and
shown again: no listener brings them back until the preview changes or the profile does.

Abstractions: `title` stands for every field of a paper but its identifier and its
cards, and a preview is its title; the order of cards, and of the list, is left out
(no property speaks of it); a user's list is the set of its identifiers, but the
order in which its previews are fetched is kept as a choice (`ListsOf`), since it
orders the callbacks. `paperPreviewObserver` is left out: assigning it does not stop
a listener. Line 119 re-sends the list it has (`a ?? b + [c]` is `a ?? (b + [c])`),
which changes nothing. `updateCard` has no caller in the app and is modelled from
its code; `removeCard` has one, `WrittenPaperViewModel.deleteCard`, whose `paperID` is never
assigned: Firestore raises an exception for the empty path. This module gives
`removeCard` the identifier of the open paper, which is what the caller means to
pass; the caller itself is `WrittenPaper.DeleteCard`, where the process ends.

### LocalDatabase

`paperFile[p]` and `previewFile[p]` are the two files of a paper, `papers` is
`papersSubject.value` (a sequence: the code appends, removes by index and could list
a paper twice), `subject` is `paperSubject.value`. The manager runs synchronously on
the main thread, so an operation is one action; but each action chooses how far its
file accesses get. `Outcomes` says how it can then end: it returns when all accesses are made or
one raises an error that is the code's own (removing a file that does not exist), it
returns at a fault of the file system, or the process is killed, and `Ends` says what is
left in memory. `Launch` is the next start. `updatePaper` compares title, thumbnail and
end time in this order, and writes the preview and sends the list once for each that
differs: `Prefixes` are the sets of fields it can have dealt with, `Merged` is the
entry then. Its argument is any paper: callers hand over the open paper with a change, or a
paper of the server's that need not be on the device. `behind` is a history variable:
the papers whose last save did not reach the preview, because it was cut short or
because the list did not have the paper.

Left out: `isGift` (false in every paper of this list), date, template and link, and the
contents of cards - nothing in the app sets a card's creator, so the last test of
`filterPaper` never holds. Reading a file that exists does not fail.

### PaperShelf

The abstract specification of the local manager: `kept[p]` is what is on the shelf of
paper `p`, `shown` what is listed, `given` the identifiers in use. A step puts one paper on the shelf,
exchanges it, takes it off, or looks at the shelf again; at any of them the process may
end, with which only what is shown is lost. `LocalDatabase` maps to it (`Shelf`): a paper
is on the shelf when both its files are there (`OnDevice`), and shown when it has an entry.

### WrittenPaper

One device with one screen. `localPaper` and `serverPaper` are the `paperSubject`s of the two
managers, `current` is `currentPaperPublisher`, `file` the papers on disk, `client` the SDK of
`FirestoreClient` whose documents are the boards. `Publish` is `setCurrentPaper`'s closure,
which runs with every change of either publisher; `NewScreen` is a new view model and controller
with `fetchingPaper`; `Leave` is the back button (`moveToPaperStorageView`, then
`cleanPaperPublisher`), `PaperDeleted` the deletion's output, which does the same in the
other order, `Left` the end of the transition. With no board on the screen `cleanPaperPublisher` returns
before it drops the subscriptions (`WrittenPaperViewModel.swift:229`): the screen is then `popping`, goes on hearing the
publishers and the profile, and may take a board again, until `Left`. Otherwise it is `leaving` and hears nothing.
`editor` and `uploading` are the screen of a new card above
the board; `publishing` holds the boards whose cards are being uploaded, each as it was at the
tap (`getServerSidePaper`), with the answers so far. `Unsubscribed` is what dropping the subscriptions leaves of
it: the boards whose link is being made already. `own` says whether a publication is of the screen in front. That of a
screen that was popped without cleaning goes on (its list of cards and its controller hold each other,
`CardsInPaperViewController.swift:15`), and sets the link of its own view model only. `Cover` and `Uncover`
are the sidebar's change of section, which takes a board out of sight as it is, with its subscriptions; signing out, a new
board or a link may come meanwhile. `DeepLink` is a link that is opened in the
middle of anything: the screen in front is popped as it is and a new one is pushed, which shows what the publishers hold
until `Fetch`, after the transition, loads the board from both managers. (A gift's link takes the same steps in another section,
`SplitViewController.swift:100-113`.) `Elsewhere` is another device. `created` and `published` are history
variables.

Abstractions: an image is nothing but its card; `ended` stands for the end time, which
only stopping changes here; `link` for the link's address; of the server manager's
documents only the boards are kept, since previews and users' lists change nothing on this
screen; every local file access succeeds (`LocalDatabase` has the failures). Timing: the
background queue, on which the view model learns of the user and the selected board is
fetched, has run when the board is drawn half a second after it arrived
(`WrittenPaperViewController.swift:344`), and taps come after what the tap before put on a queue of the
device; answers of the network are never awaited. A controller that was popped or covered by a newer board
keeps its subscription to the profile, and would load its own board's file, too, or claim it: such loads go through the same publishers
as `ProfileChanged` of the screen in front, and are left out; so is the way back to a covered board below a newer
one.

### PaperStorage

`lists`, `papers`, `sorted`, `closedPaperIds` and `isPaperClosed` are the view model's variables,
shared by the blocks of the concurrent background queue and by the main thread; `block[t]` is what
thread `t` runs, 0 being the main thread, with its local variables. `classifyPapers` has a step for each
statement, or loop, that reads or assigns a shared variable, and any block may run between two of them:
`FilterLocal` (lines 104-116), `MergeLists` (117-119), `SplitPapers` (121-136), `CompareClosed` (138),
`AssignIds` (140-141), `AssignOpened` (142), `AssignClosed` (143); a block of lists begins with
`LocalArrives`, `ServerArrives` and `AssignServerIds` (81, 82 and 84-95). A preview carries the database whose copy it is (`from`), by which it
can be seen where a list took it from. `shown` is what the collection view drew
last: `reloadData` draws, `initPapers` only takes the view out of hiding, which draws only
before the first layout. `timerInput` counts blocks that are to bind or to cancel the timer. `PaperDeleted`
removes a board by the manager that the view model picks by `serverPaperIds`; that a board is selected is
`WrittenPaper.Open` and `Fetch`.

Two races that the steps show are there in the code and no property denies them. A board that comes to the server's list
between `FilterLocal` and `MergeLists` is merged from both databases, until the next sorting: the
comment in `PaperStorageViewModel.swift:104` promises that the device's copy is taken out. And a block that is
overtaken between its assignments leaves `closedPaperIds` of one sorting and `closedPapers` of another: a board
may then be sorted, and drawn, as open while it counts as closed, and no tick has the view draw when its time
is up. The next tick sorts it as closed, which is `SortedInTheEnd`; that it is drawn so is not among the properties,
since it is not so.

Abstractions: time in whole seconds left; the order of boards is left out; one statement's reads
and its assignment are one step, and a read of an
array that another thread assigns gives the old or the new array (Swift promises nothing
there); the clock stands still within one loop; one tick is under way at a time; a
removal by the server's manager is answered at once, and any other time by
`DatabasePublishes`, which changes a list at will.

### AuthProfile

`stored` is the address in the user defaults, `profile` is `userProfileSubject.value`, `server` the users'
documents, `calls` the calls of Auth, of the storage and of the query for names that wait
for an answer, each with the user that its closure captured. Documents are written with
merge, which `FirestoreClient` (whole documents) does not have, so the module has its own small
client: copies, pending writes, listeners and one queue to the application, `inbox`. `removeSnapshotListener`
drops the registration, which stops nothing: `listening` shrinks with a restart only. `silent` counts the pending writes, the
oldest, that were made before the process ended: their completion is not told, so nothing is fetched at their
end (`sync_engine.cc:435`). The query for a name is answered by the backend, offline by what the device has,
or with an error, after which the name counts as taken (`Answers`). One action per
method, per answer and per closure, and one per input of the settings screen, whose
`currentUserSubject` follows the profile in the same call.

Left out: passwords, nonces and errors that are only shown; the download of the photo.

## 3. What TLC checks

`Ops` chooses the operations of a run and `MaxOps` bounds how many the users perform
in all; network steps and closures are not bounded by it. Deadlock is not checked: a system whose users have
used up their operations and whose closures have all run stops by design (as does one whose clock,
visits and changes have come to their bounds).

| Run | Result | What it shows |
|---|---|---|
| `shared_board` | holds | `TypeOK`, `OpenPaperFresh`: two devices open a board, add cards, leave, are refused writes and restart; while a device has opened one board only and nothing is under way for it, it shows the backend's board |
| `cascades` | holds | `ListingFresh`, `ListingTracked`: an entry of the list never falls behind the backend's preview; `OwnListTracked`, `OwnPapersShown`: once the device is quiet, the list has the papers of the user's list of identifiers whose previews exist, but for entries that a late removal took away; `CascadesEnd`: writes, reads and events that cause each other come to an end |
| `local_files` | holds | `TypeOK`, `ListMatchesFiles`, `ListedOnce`, `ListedOpens`, `PreviewInStep`: papers made, saved, removed, reloaded, with failing writes and the process killed anywhere; the list shows what the files hold, and the next save repairs what an earlier one left out; `KeepsAShelf`: all this is a shelf of whole papers |
| `written_paper` | holds | `ScreenFollows`: the board on the screen is the one, and of the manager, that the next card goes to, with its cards; `UnsharedStaysHere`: no board goes to the server that nobody published; `PublishedWhole`: a board is published with all cards it had at the tap, in whatever order the uploads are answered |
| `storage` | holds | `TypeOK`: merged and sorted papers never have a board twice from one database; `NotBeforeTime`: no board is sorted or drawn as closed before its time; `SortedInTheEnd`: overtaken blocks leave the boards sorted by the lists received last and by the clock, while the list is on the screen with its timer |
| `profile` | holds | `ProfileFresh`: with nothing under way, the signed-in user's published profile has the document's name and photo, also when refused writes, another device or a restart that loses completions came between; `PhotoKept`: no write takes a photo away |
| `other_paper` | violated | `ShowsFetchedPaper`: the listener of a board opened before replaces the open board |
| `preview_lost` | violated | `PreviewOutlivesPaper`: opening an uncached board offline deletes its preview |
| `lost_paper_id` | violated | `PublishedPapersListed`: two papers published in a row, one is missing in the user's list |
| `left_board` | violated | `SharedCardsKept`: leaving a shared board overwrites it with the copy on the screen, and another device's card is gone |
| `lost_title` | violated | `EditsKept`: a title changed on a board of the device is undone by the next card |
| `stale_storage` | violated | `ShownAsSorted`: a board that closes while the list is hidden stays drawn as open |

The violated ones are the `findings` of `PROJECT.json`: each property says what a
comment of the code says, and its trace is a history of the app.

`OpenPaperFresh` holds for opening, leaving and adding cards, which is what `shared_board`
does. It fails with `addPaper`, which shows a board before anything is known of its write, and
with `updatePaper`, `updateCard`, `removeCard` or `removePaper` where cards are added, too: `addCard`'s late handler then
brings back what it captured. TLC finds a history for each of the five; the theorem below leaves out
these and no others.

Bounds and why they are enough. One or two devices: every interference above needs
one other writer at most, and a third device only adds commits that look like those of
the second. One or two papers, two or three cards, two titles, one user: closures act on
one paper and one user's list, and the second paper is there for the interference of
two (`lost_paper_id`, `other_paper`). Three to five operations: each operation
starts a cascade of up to six closures and network steps, and all their interleavings
are explored. Rejection and restart are in the runs whose properties they could
break. `shared_board` uses symmetry of devices and of cards; it checks no liveness.
`local_files` has two papers, two titles and one card (so thumbnails differ), one user
and nobody signed in, and four operations between any number of starts: making a paper, a save that
is cut short, a removal or change of profile, and the save or reload that shows the
effect. It uses symmetry of papers and of titles. Its `Faults` leave out failing
removals, under which `ListedOpens` does not hold: the paper's file is gone, the preview's
removal fails, and the paper stays in the list until the next start. A crash in `addPaper`
between its two writes leaves a paper without a preview, which is never listed again; no
comment promises otherwise.
`cascades` has two boards that do not exist at first, two users, one device and three operations of
any kind: a board, or two, published, and renamed, left, given away or removed, by a user who signs in or
out between; a second device and a board that was there before are in `shared_board`.
`MayReject` is off, for a refused write ends a cascade without completing it, and
`OwnPapersShown` then has nothing to wait for. That `ListingFresh` holds with refused writes is proved.
`written_paper` has a board on the server, two identifiers for a board and a gift, two cards, one title
(`lost_title` has two) and one user or nobody, and any five operations; longest is making a board, adding a card, publishing, stopping and giving
it, or sharing one board, leaving it, opening or making a second and changing that. Opening an editor and ending a transition, which only
prepare another operation, take place while one may follow (`MayFollow`); a screen that is leaving and a closed one hear equally
little. Symmetry of cards and of the two unused identifiers.
`storage` has one board, whose copies on the device and on the server may end at different
instants, one block on the background queue at a time beside the main thread's ticks,
one instant at which a board closes within the run and one beyond it, one change of a list and two appearances or
disappearances. The seven steps of sorting in two threads give every way in which one block is overtaken by others;
with two background threads the run has more than ten million states. `TypeOK` and `NotBeforeTime` are
proved for any number of threads. `SortedInTheEnd` needs no more visits:
after the last the screen stays as it is, in front or not. With one change there is a block for the
first lists and one for the changed ones, each overtaken by ticks at any step; two changes are
beyond the time of a run.
`profile` has two addresses, one with a photo, two names, two photos and any four operations:
two changes that race, between signing in and out, or a sign-up for an address in use.

Fairness is assumed in two runs. In `cascades` (`Fairness`): the main queue runs, and a device is
online again and again for long enough that its oldest write is acknowledged, its
reads are answered and its listeners are served. That is what the SDK does when it
has a connection (it retries writes and streams by itself); users are not assumed
to do anything, writes are not assumed to be refused, and offline answers may come
at any time. In `storage` (`FairSpec`): blocks that were handed to the background queue
run, the main thread handles its events, the clock goes on, and a bound timer fires;
libdispatch and the run loop do that while the app is in front. The user and the databases are assumed to do nothing.
One condition covers all background blocks (`BackgroundTurn`): each goes on only a
bounded number of steps, so none is passed over for ever.

## 4. What is proved

`FirestoreManagerProofs`, for every finite set of papers, any devices, cards,
titles and users, any choice of operations and any number of them, with or without
refused writes:

* `TypeCorrect`: `Spec => []TypeOK`. Not only a shape: it says that whatever is in
  a queue holds a value of its document, and that a closure finds the kind of document and of
  value it was written for (`Fits`), however late it runs.
* `ListingIsTracked`: `Spec => []ListingTracked`. For every preview a device listens
  to, the newest news under way to the list is the client's view, and with none under way
  the view is in the list, if anything is.
* `ListingIsFresh`: `Spec => []ListingFresh`. It follows: with no own write and no news under
  way the view is the cached copy, which is the backend's.

`ListingFresh` is not inductive: it says nothing while something is under way, and
every step that ends such a period could end it with a wrong entry. The invariant
`IInv` is `TypeOK /\ ListingTracked` (theorem `Invariant`), preserved by every action:
one lemma per operator of the client says what it does to views and to queued news
(a write, a listener, an answer, a popped callback), and one per action applies them.

`FirestoreScreenProofs`, in the same generality:

* `OwnListIsTracked` (`OwnListTracked`) and `OwnPapersAreShown` (`OwnPapersShown`). The invariant
  `ScreenIInv` joins `IInv` and `OwnListTracked`: what the device sees of its user's list has news under way, or
  each paper it names is listened to and its entry follows (`Following`) - it is what the device sees
  of the preview, or there is news of it, or none was raised yet, or a removal from the list is under way, or the
  entry was dropped. A turn of the client is one relation (`Turn`): each listener is told what it now sees
  (`Told`) or nothing it could notice has happened (`Still`), and no callback is lost; one lemma for each action of the client
  shows it is a turn, and one says that a turn keeps the lists followed.
* `OpenPaperIsFresh`: if `OpsFit`, then `Spec => []OpenPaperFresh`. `OpsFit` says that `addPaper` is not among the
  operations and, if `addCard` is, that papers change in no other way; each operation it leaves out breaks the property
  (section 3). The difficulty is a write of `addCard` that is refused: its handler has set, or will set, the
  publisher to a board that the backend never had, and what makes it good is the listener, which is only told if what
  the device sees changes by the refusal. It does because every write of `addCard` has a card that is in no copy received and
  no older write (`FreshWrites`): nobody else can have the card, since cards are new when they are added, and every place a card can
  be in is counted (`Carried`, `Elsewhere`, `Within`). The invariant `BoardInv` joins this with the order
  of callbacks and writes (`BoardInOrder`): what will set the publisher is about a board whose listener was
  heard, and writes of a board end with those of `addCard`; and with `BoardShown`, which is `OpenPaperFresh`
  without its "nothing under way": the last callback that sets the publisher, or the publisher if there is none, has what the device sees
  of the board, unless a write of `addCard` is still pending.

`LocalDatabaseProofs`, for every finite set of papers, any users, cards and titles, any
set of faults and any number of operations: `TypeCorrect`, `ListMatches`
(`ListMatchesFiles`), `NeverTwice` (`ListedOnce`), `SavesHeal` (`PreviewInStep`), and, if
removals do not fail, `ListedPapersOpen` (`ListedOpens`). The inductive invariant
joins the first four with one fact more, `FilesUsed`: a paper with a file has a used
identifier, without which a new paper could already be listed. The properties need
each other: a save finds the entry it replaces because a paper is listed once, it
repairs the preview because it compares with an entry that is what the preview's file
holds, and a reload finds at most one preview per paper because each file is its
paper's.

`LocalDatabaseShelf`: `ImplementsShelf`, `Spec => KeepsAShelf` if removals do not fail. The
initial states map to those of the shelf, and under `IInv /\ ListedOpens` (proved before)
every step maps to a step of the shelf or to none: one lemma for each operation, from how
far its file accesses got. Without `ListedOpens` it would not: a listed paper whose file is gone
could be taken off a shelf it is not on.

`WrittenPaperProofs`, for any boards, cards, titles and users, any choice of operations and
any number of them: `TypeCorrect`, `UnsharedIsHere` (`UnsharedStaysHere`), `IsPublishedWhole`
(`PublishedWhole`) and `ScreenIsFollowing` (`ScreenFollows`).
The inductive invariant `IInv` ties what each place may hold to what has been published:
the server, the copies and the writes of the client only have published boards (`Remote`); a
board of the device that has a link is published, so the copy that is written on leaving goes
to a board the server knows (`Files`, `Held`); a screen whose link was made has published boards only,
so its later edits and its deletion do (`Linked`); what is on its way to the server has the
cards it started with and gets its link with the last (`Publications`); and a new screen starts
without either (`Loading`). `ScreenFollows` is inductive given `IInv`, for every place that sets a publisher of an attached
screen sets the board too.

`AuthProfileProofs`, for any users, names and photos: `TypeCorrect`, `PhotoIsKept` (`PhotoKept`) and
`ProfileIsFresh` (`ProfileFresh`). The last is the listing's argument once more: the news of a
document end with what the device sees of it (`NewsUpToDate`), everybody who is told of or
asked about is listened to (`Heard`), and a published profile that is not what the device sees
has news or a fetch under way (`ProfileTracked`). It does not rest on the completion of a write, which may be
lost with the process: what the listener hears is enough. The lemmas about merged writes say when the view
of a document changes as writes join and leave the queue.

`PaperStorageProofs`, for any boards, end times and number of blocks that sort at once: `TypeCorrect`, by
which no board is in the merged or the sorted list twice from one database, and `ClosedInTime` (`NotBeforeTime`). The
inductive invariant adds `SplitsInTime`: what a block has split as closed is over, and remains so however long the
block waits before it assigns.

The assumptions are `ClientAssumption`, `ManagerAssumption`, `LocalAssumption`,
`WrittenPaperAssumption`, `PaperStorageAssumption` and `AuthProfileAssumption`, which TLC evaluates on
the runs.

Only model-checked is what is out of the prover's reach, liveness under fairness: `CascadesEnd` and
`SortedInTheEnd`. Every invariant that a passing run checks is a theorem (`OpenPaperFresh` and `ListedOpens` under the
hypotheses named above, which their runs meet).

## 5. Not modelled

See `components` in `PROJECT.json`. Of the SDK: transactions, cache
eviction, limbo resolution, the wire protocol; the app does not use the first, and the others do
not change what a document listener of an authorised user reports. Third-party libraries are
nearly all of the repository's lines; they enter as what the app's calls do. `GiftStorageViewModel`
and `GiftPaperViewModel` are read-only copies of what `PaperStorage` and `WrittenPaper` model. The countdown of `TimerView`, views, layout, image
processing, caches and the text of links have no state the
properties speak of. Of the sidebar's navigation, that it covers a board is modelled; which section is in front, and two boards
stacked in one section, are not. `SplitViewController.swift:199-211` does not run, because nothing posts `viewInit`,
and line 129 is not reached: the only `viewChange` for the section of boards is posted by `PaperSettingViewController.swift:306`, whose
section is then in front. Unreachable code (`LocalDatabaseMockManager`, `updateCard`'s missing callers) is
listed as such.

## 6. Left to do

1. The server manager inside `WrittenPaper` is what the screen sees of it. A
   composition with all of `FirestoreManager` (previews and lists while a board is on screen) is out of
   TLC's reach at useful bounds.
2. An abstract register per document, implemented by `FirestoreClient` for one writer.
3. The gifts of `GiftPaperViewModel` and `GiftStorageViewModel`, which show what the publishers have.
