--------------------------- MODULE FirestoreClient ---------------------------
(***************************************************************************)
(* The part of the vendored Firestore SDK that FirestoreManager relies on: *)
(* whole-document writes with latency compensation, snapshot listeners and *)
(* getDocument, between a set of devices and the one backend.              *)
(*                                                                         *)
(* A document is written as a whole, so a client's view of a document is   *)
(* its own newest unacknowledged write of it if there is one, and else the *)
(* copy it last received.  Everything the SDK tells the application passes *)
(* through the main queue, in order: inbox.  A step of this module is one  *)
(* turn of the SDK's worker queue or of the network.                       *)
(*                                                                         *)
(* Abstraction: the backend's commit of a write and the client's handling  *)
(* of the acknowledgement are one step.  What a device can observe between *)
(* the two is hidden by its own pending write, and the application learns  *)
(* of the commit later still, through the inbox.                           *)
(***************************************************************************)
EXTENDS Naturals, Sequences

CONSTANTS
  Devices,    \* the iPads
  Absent,     \* the value of a document that does not exist
  MayReject   \* whether the backend may refuse a write

ASSUME ClientAssumption == MayReject \in BOOLEAN

VARIABLES
  server,     \* server[x]: the committed value of document x
  client      \* client[d]: what the SDK on device d keeps

(***************************************************************************)
(* client[d] is a record c:                                                *)
(*   c.pending    unacknowledged writes, oldest first                      *)
(*   c.base       last copy of each document received from the backend,    *)
(*                Absent if there is none                                  *)
(*   c.listening  documents with a snapshot listener (the application      *)
(*                never removes one: it only drops its registration)       *)
(*   c.raised     those whose listener has raised its first event          *)
(*   c.gets       getDocument calls waiting for their answer               *)
(*   c.inbox      callbacks queued on the main queue                       *)
(***************************************************************************)
FreshClient(docs) ==
  [pending |-> << >>, base |-> [x \in docs |-> Absent], listening |-> {},
   raised |-> {}, gets |-> << >>, inbox |-> << >>]

(* A continuation: which completion handler runs, and the argument it      *)
(* captured.                                                               *)
Then(op, arg) == [op |-> op, arg |-> arg]

NoCallback == Then("none", Absent)

PendingOn(c, x) == {i \in 1..Len(c.pending) : c.pending[i].doc = x}

LastPending(c, x) ==
  CHOOSE i \in PendingOn(c, x) : \A j \in PendingOn(c, x) : j <= i

(* What listeners and cached reads of document x see.                      *)
View(c, x) ==
  IF PendingOn(c, x) = {} THEN c.base[x] ELSE c.pending[LastPending(c, x)].val

Event(type, x, v, then) == [type |-> type, doc |-> x, val |-> v, then |-> then]

Post(c, e) == [c EXCEPT !.inbox = Append(@, e)]

PostSnapshot(c, x, v) ==
  Post([c EXCEPT !.raised = @ \cup {x}], Event("snapshot", x, v, NoCallback))

(* A listener hears of a new client state only if its document's value     *)
(* changed: changes of metadata alone are stripped.  (A document that      *)
(* exists has been raised, so its first appearance is such a change.)      *)
Notify(old, new, x) ==
  IF x \in new.listening /\ View(new, x) # View(old, x)
    THEN PostSnapshot(new, x, View(new, x))
    ELSE new

(* setData and delete: queued for the backend, visible locally at once.    *)
Write(c, x, v, then) ==
  Notify(c, [c EXCEPT !.pending = Append(@, [doc |-> x, val |-> v, then |-> then])], x)

(* addSnapshotListener: a document that exists locally is raised at once,  *)
(* a missing one only if another listener has been told so; else the first *)
(* event awaits the backend (Received) or comes offline (OfflineSnapshot). *)
(* Two listeners of one document hear the same events in the same turn of  *)
(* the queue, and are one here.                                            *)
Known(c, x) == x \in c.raised \/ View(c, x) # Absent

Listen(c, x) ==
  LET new == [c EXCEPT !.listening = @ \cup {x}]
  IN  IF Known(c, x) THEN PostSnapshot(new, x, View(c, x)) ELSE new

(* getDocument, answered later by AnswerOnline or AnswerOffline.           *)
Get(c, x, then) == [c EXCEPT !.gets = Append(@, [doc |-> x, then |-> then])]

(* The backend's document arrives.  A listener that has raised nothing yet *)
(* is told even that the document does not exist.                          *)
Received(c, x) ==
  LET new == [c EXCEPT !.base[x] = server[x]]
  IN  IF x \in c.listening \ c.raised THEN PostSnapshot(new, x, View(new, x))
      ELSE Notify(c, new, x)

(* The application's process ends and starts again: listeners, getDocument *)
(* calls and queued callbacks are gone; pending writes and cached          *)
(* documents are persistent, but the writes have lost their completions.   *)
Restarted(c) ==
  [pending   |-> [i \in 1..Len(c.pending) |-> [c.pending[i] EXCEPT !.then = NoCallback]],
   base      |-> c.base,
   listening |-> {}, raised |-> {}, gets |-> << >>, inbox |-> << >>]

-----------------------------------------------------------------------------
(* The backend commits a device's oldest write, the client drops it from   *)
(* its queue and raises the completion handler.                            *)
Acknowledge(d) ==
  /\ client[d].pending # << >>
  /\ LET w     == Head(client[d].pending)
         acked == [client[d] EXCEPT !.pending = Tail(@), !.base[w.doc] = w.val]
     IN  /\ server' = [server EXCEPT ![w.doc] = w.val]
         /\ client' = [client EXCEPT ![d] =
              IF w.then = NoCallback THEN acked
              ELSE Post(acked, Event("done", w.doc, w.val, w.then))]

(* The backend refuses the oldest write: every completion handler of the   *)
(* application only logs the error, listeners see the write disappear.     *)
Reject(d) ==
  /\ MayReject
  /\ client[d].pending # << >>
  /\ LET c   == client[d]
         new == [c EXCEPT !.pending = Tail(@)]
     IN  client' = [client EXCEPT ![d] = Notify(c, new, Head(c.pending).doc)]
  /\ UNCHANGED server

(* The watch stream brings a listening device the committed document.      *)
Watch(d, x) ==
  /\ x \in client[d].listening
  /\ client[d].base[x] # server[x] \/ x \notin client[d].raised
  /\ client' = [client EXCEPT ![d] = Received(@, x)]
  /\ UNCHANGED server

(* Offline, a listener that has raised nothing is told that its document   *)
(* does not exist: that the client has no copy of it.                      *)
OfflineSnapshot(d, x) ==
  /\ x \in client[d].listening \ client[d].raised
  /\ client' = [client EXCEPT ![d] = PostSnapshot(@, x, View(@, x))]
  /\ UNCHANGED server

(* getDocument calls of one document are answered in their order.          *)
Answerable(c) ==
  {i \in 1..Len(c.gets) : \A j \in 1..(i - 1) : c.gets[j].doc # c.gets[i].doc}

(* The i-th getDocument of c is answered with v.                           *)
Answer(c, i, v) ==
  LET g    == c.gets[i]
      rest == [j \in 1..(Len(c.gets) - 1) |-> c.gets[IF j < i THEN j ELSE j + 1]]
  IN  Post([c EXCEPT !.gets = rest], Event("got", g.doc, v, g.then))

(* A getDocument is answered with the backend's document, under the        *)
(* device's own pending writes.                                            *)
AnswerOnline(d) ==
  /\ \E i \in Answerable(client[d]) :
       LET x   == client[d].gets[i].doc
           new == Received(client[d], x)
       IN  client' = [client EXCEPT ![d] = Answer(new, i, View(new, x))]
  /\ UNCHANGED server

(* Offline, or with a listener of the document up to date, it is answered  *)
(* from the cache; a document that is not cached is an error, which every  *)
(* handler treats as it treats a missing document.                         *)
AnswerOffline(d) ==
  /\ \E i \in Answerable(client[d]) :
       client' = [client EXCEPT ![d] = Answer(@, i, View(@, @.gets[i].doc))]
  /\ UNCHANGED server

(* Nothing is under way on device d, and it has the backend's copy of      *)
(* every document it listens to.                                           *)
Quiet(d) ==
  /\ client[d].pending = << >> /\ client[d].gets = << >> /\ client[d].inbox = << >>
  /\ client[d].listening \subseteq client[d].raised
  /\ \A x \in client[d].listening : client[d].base[x] = server[x]
=============================================================================
