----------------------- MODULE FirestoreManagerProofs -----------------------
(***************************************************************************)
(* Proofs about FirestoreManager, for any devices, papers, cards, titles   *)
(* and users: type correctness, and what the list of previews shows.       *)
(***************************************************************************)
EXTENDS FirestoreManager, QueueFacts, FiniteSetTheorems

-----------------------------------------------------------------------------
(* The newest write of a document                                          *)

(* LastPending is the newest position among the writes of x.               *)
LEMMA LastPendingIsNewest ==
  ASSUME NEW c, NEW x, c.pending \in Seq(WriteType), PendingOn(c, x) # {}
  PROVE  /\ LastPending(c, x) \in PendingOn(c, x)
         /\ \A j \in PendingOn(c, x) : j <= LastPending(c, x)
<1>1. PendingOn(c, x) \in SUBSET (1..Len(c.pending)) /\ Len(c.pending) \in Nat
  BY LenProperties DEF PendingOn
<1>2. \E i \in PendingOn(c, x) : \A j \in PendingOn(c, x) : j <= i
  BY <1>1, GreatestExists
<1> QED BY <1>2 DEF LastPending

(* The view of x is the value of its newest write, wherever that stands.   *)
LEMMA ViewIsNewestWrite ==
  ASSUME NEW c, NEW x, c.pending \in Seq(WriteType),
         NEW i \in PendingOn(c, x), \A j \in PendingOn(c, x) : j <= i
  PROVE  View(c, x) = c.pending[i].val
<1>1. /\ LastPending(c, x) \in PendingOn(c, x)
      /\ i <= LastPending(c, x) /\ LastPending(c, x) <= i
  BY LastPendingIsNewest
<1>2. PendingOn(c, x) \subseteq Int
  BY LenProperties DEF PendingOn
<1>3. LastPending(c, x) = i
  BY <1>1, <1>2
<1> QED BY <1>3 DEF View

(* A write appended to the queue is what is seen of its document, and      *)
(* changes nothing about the others.                                       *)
LEMMA ViewAfterAppend ==
  ASSUME NEW c, NEW n, NEW x, NEW w \in WriteType, c.pending \in Seq(WriteType),
         n.pending = Append(c.pending, w), n.base = c.base
  PROVE  View(n, x) = IF w.doc = x THEN w.val ELSE View(c, x)
<1> DEFINE k == Len(c.pending)
<1>1. /\ n.pending \in Seq(WriteType) /\ Len(n.pending) = k + 1 /\ k \in Nat
      /\ \A i \in 1..k : n.pending[i] = c.pending[i]
      /\ n.pending[k + 1] = w
  BY AppendProperties, LenProperties
<1>2. CASE w.doc = x
  <2>1. k + 1 \in PendingOn(n, x) /\ \A j \in PendingOn(n, x) : j <= k + 1
    BY <1>1, <1>2 DEF PendingOn
  <2> QED BY <1>1, <1>2, <2>1, ViewIsNewestWrite
<1>3. CASE w.doc # x
  <2>1. PendingOn(n, x) = PendingOn(c, x)
    BY <1>1, <1>3 DEF PendingOn
  <2>2. CASE PendingOn(c, x) = {}
    BY <1>3, <2>1, <2>2 DEF View
  <2>3. CASE PendingOn(c, x) # {}
    <3>1. /\ LastPending(c, x) \in PendingOn(n, x)
          /\ \A j \in PendingOn(n, x) : j <= LastPending(c, x)
      BY <2>1, <2>3, LastPendingIsNewest
    <3>2. View(n, x) = n.pending[LastPending(c, x)].val
      BY <1>1, <3>1, ViewIsNewestWrite
    <3>3. LastPending(c, x) \in 1..k
      BY <2>1, <3>1 DEF PendingOn
    <3> QED BY <1>1, <1>3, <2>3, <3>2, <3>3 DEF View
  <2> QED BY <2>2, <2>3
<1> QED BY <1>2, <1>3

(* What is seen of x once the oldest write has left the queue.             *)
LEMMA ViewAfterTail ==
  ASSUME NEW c, NEW n, NEW x, c.pending \in Seq(WriteType), c.pending # << >>,
         n.pending = Tail(c.pending)
  PROVE  /\ PendingOn(n, x) # {} => View(n, x) = View(c, x)
         /\ PendingOn(n, x) = {} =>
              /\ View(n, x) = n.base[x]
              /\ View(c, x) = IF Head(c.pending).doc = x THEN Head(c.pending).val
                              ELSE c.base[x]
<1> DEFINE k == Len(n.pending)
<1>1. /\ n.pending \in Seq(WriteType) /\ k \in Nat /\ Len(c.pending) = k + 1
      /\ \A i \in 1..k : n.pending[i] = c.pending[i + 1]
      /\ Head(c.pending) = c.pending[1]
  <2>1. Len(c.pending) \in Nat /\ Len(n.pending) = Len(c.pending) - 1
    BY HeadTailProperties, LenProperties
  <2>2. \A i \in 1..Len(n.pending) : n.pending[i] = c.pending[i + 1]
    BY HeadTailProperties
  <2>3. n.pending \in Seq(WriteType) /\ k \in Nat
    BY HeadTailProperties, LenProperties
  <2> QED BY <2>1, <2>2, <2>3
<1> HIDE DEF k
<1>2. CASE PendingOn(n, x) # {}
  <2> DEFINE i == LastPending(n, x)
  <2>1. i \in PendingOn(n, x) /\ \A j \in PendingOn(n, x) : j <= i
    BY <1>1, <1>2, LastPendingIsNewest
  <2>2. i \in 1..k /\ n.pending[i].doc = x
    BY <2>1 DEF PendingOn, k
  <2> HIDE DEF i
  <2>3. i + 1 \in PendingOn(c, x) /\ c.pending[i + 1] = n.pending[i]
    BY <1>1, <2>2 DEF PendingOn
  <2>4. ASSUME NEW j \in PendingOn(c, x) PROVE j <= i + 1
    <3>1. j \in 1..(k + 1) /\ c.pending[j].doc = x
      BY <1>1 DEF PendingOn
    <3>2. CASE j = 1
      BY <2>2, <3>2
    <3>3. CASE j # 1
      <4>1. j - 1 \in 1..k /\ n.pending[j - 1] = c.pending[(j - 1) + 1]
        BY <1>1, <3>1, <3>3
      <4>2. j - 1 \in PendingOn(n, x)
        BY <3>1, <4>1 DEF PendingOn, k
      <4> QED BY <2>1, <2>2, <3>1, <4>2
    <3> QED BY <3>2, <3>3
  <2>5. View(c, x) = c.pending[i + 1].val
    BY <2>3, <2>4, ViewIsNewestWrite
  <2>6. View(n, x) = n.pending[i].val
    BY <1>1, <2>1, ViewIsNewestWrite
  <2> QED BY <1>2, <2>3, <2>5, <2>6
<1>3. CASE PendingOn(n, x) = {}
  <2>1. ASSUME NEW j \in PendingOn(c, x) PROVE j = 1
    <3>1. j \in 1..(k + 1) /\ c.pending[j].doc = x
      BY <1>1 DEF PendingOn
    <3>2. SUFFICES ASSUME j # 1 PROVE FALSE
      OBVIOUS
    <3>3. j - 1 \in 1..k /\ n.pending[j - 1] = c.pending[(j - 1) + 1]
      BY <1>1, <3>1, <3>2
    <3>4. j - 1 \in PendingOn(n, x)
      BY <3>1, <3>3 DEF PendingOn, k
    <3> QED BY <1>3, <3>4
  <2>2. CASE Head(c.pending).doc = x
    <3>1. 1 \in PendingOn(c, x)
      BY <1>1, <2>2 DEF PendingOn
    <3>2. View(c, x) = c.pending[1].val
      BY <2>1, <3>1, ViewIsNewestWrite
    <3> QED BY <1>1, <1>3, <2>2, <3>2 DEF View
  <2>3. CASE Head(c.pending).doc # x
    <3>1. PendingOn(c, x) = {}
      BY <1>1, <2>1, <2>3 DEF PendingOn
    <3> QED BY <1>3, <2>3, <3>1 DEF View
  <2> QED BY <2>2, <2>3
<1> QED BY <1>2, <1>3

(* The view depends on the queue and on the copy of the document alone.    *)
LEMMA ViewFrame ==
  ASSUME NEW c, NEW n, NEW x, n.pending = c.pending, n.base[x] = c.base[x]
  PROVE  View(n, x) = View(c, x)
BY DEF View, PendingOn, LastPending

(* A view is a value of its document.                                      *)
LEMMA ViewType ==
  ASSUME NEW c, ClientOK(c), NEW x \in Docs
  PROVE  View(c, x) \in ValuesOf(x)
<1>1. CASE PendingOn(c, x) = {}
  BY <1>1 DEF View, ClientOK
<1>2. CASE PendingOn(c, x) # {}
  <2> DEFINE i == LastPending(c, x)
  <2>0. c.pending \in Seq(WriteType)
    BY DEF ClientOK, ClientType
  <2>1. i \in PendingOn(c, x)
    BY <1>2, <2>0, LastPendingIsNewest
  <2>2. c.pending[i] \in WriteType /\ c.pending[i].doc = x
    BY <2>0, <2>1, ElementOfSeq DEF PendingOn
  <2>3. c.pending[i].val \in ValuesOf(x)
    BY <2>2 DEF WriteType, Fits
  <2> QED BY <1>2, <2>3 DEF View
<1> QED BY <1>1, <1>2

-----------------------------------------------------------------------------
(* What the client's operators do to the record of a device                *)

LEMMA ValueKnown ==
  ASSUME NEW x \in Docs, NEW v \in ValuesOf(x)
  PROVE  v \in Value
BY DEF ValuesOf, Docs, PaperDocs, Paper, Preview, User, Value

(* A snapshot event that carries a value of its document is well typed.    *)
LEMMA SnapshotType ==
  ASSUME NEW x \in Docs, NEW v \in ValuesOf(x)
  PROVE  Event("snapshot", x, v, NoCallback) \in EventType
BY ValueKnown DEF Event, EventType, Fits, NoCallback, Then, ThenType, OpNames

(* Post changes the inbox only.                                            *)
LEMMA PostEffect ==
  ASSUME NEW c, ClientOK(c), NEW e \in EventType
  PROVE  LET n == Post(c, e)
         IN  /\ ClientOK(n)
             /\ n.pending = c.pending /\ n.base = c.base
             /\ n.listening = c.listening /\ n.gets = c.gets
             /\ n.inbox = Append(c.inbox, e)
<1> DEFINE n == Post(c, e)
<1>1. Append(c.inbox, e) \in Seq(EventType)
  BY AppendProperties DEF ClientOK, ClientType
<1>2. n \in ClientType
  BY <1>1 DEF ClientOK, ClientType, Post
<1>3. /\ n.pending = c.pending /\ n.base = c.base
      /\ n.listening = c.listening /\ n.gets = c.gets
      /\ n.inbox = Append(c.inbox, e)
  BY DEF ClientOK, ClientType, Post
<1>4. ClientOK(n)
  BY <1>2, <1>3 DEF ClientOK
<1> QED BY <1>3, <1>4

(* A change that leaves the inbox, the view and the listeners of x alone   *)
(* keeps x tracked; so does forgetting what was shown.                     *)
LEMMA TrackedKept ==
  ASSUME NEW c, NEW n, NEW x, NEW l, NEW m, Tracked(c, l, x), m \in {l, Absent},
         n.inbox = c.inbox, x \in n.listening => x \in c.listening, View(n, x) = View(c, x)
  PROVE  Tracked(n, m, x)
<1>1. NewsOf(n, x) = NewsOf(c, x)
  BY DEF NewsOf
<1> QED BY <1>1 DEF Tracked

(* An event that is no news of x is queued, and x stays tracked.           *)
LEMMA TrackedPast ==
  ASSUME NEW c, NEW n, NEW x, NEW l, NEW e \in EventType, c.inbox \in Seq(EventType),
         Tracked(c, l, x), n.inbox = Append(c.inbox, e),
         ~(e.type = "snapshot" /\ e.doc = x),
         x \in n.listening => x \in c.listening, View(n, x) = View(c, x)
  PROVE  Tracked(n, l, x)
<1> DEFINE k == Len(c.inbox)
<1>1. /\ k \in Nat /\ Len(n.inbox) = k + 1 /\ n.inbox[k + 1] = e
      /\ \A i \in 1..k : n.inbox[i] = c.inbox[i]
  BY AppendProperties, LenProperties
<1>2. NewsOf(n, x) = NewsOf(c, x)
  BY <1>1 DEF NewsOf
<1>3. \A i \in NewsOf(c, x) : n.inbox[i] = c.inbox[i]
  BY <1>1 DEF NewsOf
<1> QED BY <1>2, <1>3 DEF Tracked

(* The view of x itself is queued as news, and x is tracked whatever was   *)
(* shown and queued before.                                                *)
LEMMA TrackedNews ==
  ASSUME NEW c, NEW n, NEW x, NEW l, NEW e \in EventType, c.inbox \in Seq(EventType),
         n.inbox = Append(c.inbox, e),
         e.type = "snapshot", e.doc = x, e.val = View(n, x)
  PROVE  Tracked(n, l, x)
<1> DEFINE k == Len(c.inbox)
<1>1. k \in Nat /\ Len(n.inbox) = k + 1 /\ n.inbox[k + 1] = e
  BY AppendProperties, LenProperties
<1> HIDE DEF k
<1>2. k + 1 \in NewsOf(n, x) /\ NewsOf(n, x) \subseteq 1..(k + 1)
  BY <1>1 DEF NewsOf
<1>3. ASSUME NEW i \in NewsOf(n, x), \A j \in NewsOf(n, x) : j <= i
      PROVE  n.inbox[i].val = View(n, x)
  <2>1. i = k + 1
    BY <1>1, <1>2, <1>3
  <2> QED BY <1>1, <2>1
<1> QED BY <1>2, <1>3 DEF Tracked

-----------------------------------------------------------------------------
(* A device in good order: a well-typed client that tracks every preview   *)
(* of the list l.                                                          *)
InOrder(c, l) ==
  ClientOK(c) /\ \A p \in Papers : Tracked(c, l[p], Preview(p))

LEMMA InOrderTyped ==
  ASSUME NEW c, NEW l, InOrder(c, l)
  PROVE  /\ ClientOK(c) /\ c \in ClientType
         /\ c.pending \in Seq(WriteType) /\ c.inbox \in Seq(EventType)
         /\ c.gets \in Seq(GetType) /\ c.listening \subseteq Docs /\ c.raised \subseteq Docs
         /\ c.base \in [Docs -> Value]
BY DEF InOrder, ClientOK, ClientType

(* Completion handlers and answers keep a device in good order.            *)
LEMMA PostInOrder ==
  ASSUME NEW c, NEW l, InOrder(c, l), NEW e \in EventType, e.type # "snapshot"
  PROVE  InOrder(Post(c, e), l)
<1> DEFINE n == Post(c, e)
<1>1. /\ ClientOK(n)
      /\ n.pending = c.pending /\ n.base = c.base /\ n.listening = c.listening
      /\ n.inbox = Append(c.inbox, e) /\ c.inbox \in Seq(EventType)
  BY InOrderTyped, PostEffect
<1> HIDE DEF n
<1>2. ASSUME NEW p \in Papers PROVE Tracked(n, l[p], Preview(p))
  <2>1. View(n, Preview(p)) = View(c, Preview(p))
    BY <1>1, ViewFrame
  <2> QED BY <1>1, <2>1, TrackedPast DEF InOrder
<1> QED BY <1>1, <1>2 DEF InOrder, n

(* A turn of the client that changes the view of one document at most, and *)
(* tells its listeners, keeps the device in good order.                    *)
LEMMA PostSnapshotInOrder ==
  ASSUME NEW c, NEW l, InOrder(c, l), NEW m, ClientOK(m), NEW x \in Docs,
         m.listening \subseteq c.listening \cup {x}, m.inbox = c.inbox,
         \A y \in Docs : y # x => View(m, y) = View(c, y)
  PROVE  InOrder(PostSnapshot(m, x, View(m, x)), l)
<1> DEFINE r == [m EXCEPT !.raised = @ \cup {x}]
           e == Event("snapshot", x, View(m, x), NoCallback)
           n == Post(r, e)
<1>0. \A p \in Papers : Preview(p) \in Docs
  BY DEF Docs
<1>1. e \in EventType /\ e.type = "snapshot" /\ e.doc = x /\ e.val = View(m, x)
  BY ViewType, SnapshotType DEF Event
<1>2. /\ r \in ClientType
      /\ r.pending = m.pending /\ r.base = m.base /\ r.listening = m.listening
      /\ r.inbox = m.inbox
  BY DEF ClientOK, ClientType
<1> HIDE DEF r, e
<1>3. ClientOK(r)
  BY <1>2 DEF ClientOK
<1>4. /\ ClientOK(n)
      /\ n.pending = r.pending /\ n.base = r.base /\ n.listening = r.listening
      /\ n.inbox = Append(r.inbox, e) /\ c.inbox \in Seq(EventType)
  BY <1>1, <1>3, PostEffect, InOrderTyped
<1> HIDE DEF n
<1>5. ASSUME NEW p \in Papers PROVE Tracked(n, l[p], Preview(p))
  <2>1. View(n, Preview(p)) = View(m, Preview(p))
    BY <1>2, <1>4, ViewFrame
  <2>2. CASE Preview(p) = x
    BY <1>1, <1>2, <1>4, <2>1, <2>2, TrackedNews
  <2>3. CASE Preview(p) # x
    <3>1. View(n, Preview(p)) = View(c, Preview(p))
      BY <1>0, <2>1, <2>3
    <3>2. Tracked(c, l[p], Preview(p)) /\ (Preview(p) \in n.listening => Preview(p) \in c.listening)
      BY <1>2, <1>4, <2>3 DEF InOrder
    <3> QED BY <1>1, <1>2, <1>4, <2>3, <3>1, <3>2, TrackedPast
  <2> QED BY <2>2, <2>3
<1> QED BY <1>4, <1>5 DEF InOrder, PostSnapshot, n, r, e

LEMMA NotifyInOrder ==
  ASSUME NEW c, NEW l, InOrder(c, l), NEW m, ClientOK(m), NEW x \in Docs,
         m.listening = c.listening, m.inbox = c.inbox,
         \A y \in Docs : y # x => View(m, y) = View(c, y)
  PROVE  InOrder(Notify(c, m, x), l)
<1>0. \A p \in Papers : Preview(p) \in Docs
  BY DEF Docs
<1>1. CASE x \in m.listening /\ View(m, x) # View(c, x)
  BY <1>1, PostSnapshotInOrder DEF Notify
<1>2. CASE ~(x \in m.listening /\ View(m, x) # View(c, x))
  <2>1. Notify(c, m, x) = m
    BY <1>2 DEF Notify
  <2>2. ASSUME NEW p \in Papers PROVE Tracked(m, l[p], Preview(p))
    <3>1. CASE Preview(p) = x /\ x \notin c.listening
      BY <3>1 DEF Tracked
    <3>2. CASE View(m, Preview(p)) = View(c, Preview(p))
      BY <3>2, TrackedKept DEF InOrder
    <3> QED BY <1>0, <1>2, <3>1, <3>2
  <2> QED BY <2>1, <2>2 DEF InOrder
<1> QED BY <1>1, <1>2

-----------------------------------------------------------------------------
(* The client's operators keep a device in good order                      *)

LEMMA WriteInOrder ==
  ASSUME NEW c, NEW l, InOrder(c, l), NEW x \in Docs, NEW v \in ValuesOf(x),
         NEW t \in ThenType, Fits(x, v, t)
  PROVE  InOrder(Write(c, x, v, t), l)
<1> DEFINE w == [doc |-> x, val |-> v, then |-> t]
           m == [c EXCEPT !.pending = Append(@, w)]
<1>0. c \in ClientType
  BY InOrderTyped
<1>1. w \in WriteType /\ w.doc = x /\ w.val = v
  BY ValueKnown DEF WriteType
<1>2. Write(c, x, v, t) = Notify(c, m, x)
  BY DEF Write
<1> HIDE DEF w
<1>3. Append(c.pending, w) \in Seq(WriteType) /\ c.pending \in Seq(WriteType)
  BY <1>1, AppendProperties, InOrderTyped
<1>4. /\ m \in ClientType
      /\ m.pending = Append(c.pending, w) /\ m.base = c.base
      /\ m.listening = c.listening /\ m.inbox = c.inbox
  BY <1>0, <1>3 DEF ClientType
<1> HIDE DEF m
<1>5. ClientOK(m)
  BY <1>4 DEF ClientOK, InOrder
<1>6. View(m, x) = v /\ \A y : y # x => View(m, y) = View(c, y)
  BY <1>1, <1>3, <1>4, ViewAfterAppend
<1>7. InOrder(Notify(c, m, x), l)
  BY <1>4, <1>5, <1>6, NotifyInOrder
<1> QED BY <1>2, <1>7

LEMMA ReceivedInOrder ==
  ASSUME NEW c, NEW l, InOrder(c, l), NEW x \in Docs, server[x] \in ValuesOf(x)
  PROVE  InOrder(Received(c, x), l)
<1> DEFINE m == [c EXCEPT !.base[x] = server[x]]
<1>1. Received(c, x) = IF x \in c.listening \ c.raised THEN PostSnapshot(m, x, View(m, x))
                       ELSE Notify(c, m, x)
  BY DEF Received
<1>2. server[x] \in Value /\ c \in ClientType
  BY ValueKnown, InOrderTyped
<1>3. /\ m \in ClientType
      /\ m.pending = c.pending /\ m.base = [c.base EXCEPT ![x] = server[x]]
      /\ m.listening = c.listening /\ m.inbox = c.inbox
  BY <1>2 DEF ClientType
<1> HIDE DEF m
<1>4. ClientOK(m)
  BY <1>3, InOrderTyped DEF ClientOK
<1>5. ASSUME NEW y \in Docs, y # x PROVE View(m, y) = View(c, y)
  <2>1. m.base[y] = c.base[y]
    BY <1>3, <1>5, InOrderTyped
  <2> QED BY <1>3, <2>1, ViewFrame
<1>6. InOrder(Notify(c, m, x), l) /\ InOrder(PostSnapshot(m, x, View(m, x)), l)
  BY <1>3, <1>4, <1>5, NotifyInOrder, PostSnapshotInOrder
<1> QED BY <1>1, <1>6

LEMMA ReceivedGets ==
  ASSUME NEW c, NEW l, InOrder(c, l), NEW x
  PROVE  Received(c, x).gets = c.gets
<1> DEFINE m == [c EXCEPT !.base[x] = server[x]]
           e == Event("snapshot", x, View(m, x), NoCallback)
           n == [m EXCEPT !.raised = @ \cup {x}]
<1>1. Received(c, x) \in {m, Post(n, e)}
  BY Zenon DEF Received, Notify, PostSnapshot
<1> HIDE DEF e
<1>2. m.gets = c.gets /\ Post(n, e).gets = c.gets
  BY InOrderTyped DEF Post, ClientType
<1> QED BY <1>1, <1>2

LEMMA GetInOrder ==
  ASSUME NEW c, NEW l, InOrder(c, l), NEW x \in Docs, NEW t \in ThenType,
         \A v \in ValuesOf(x) : Fits(x, v, t)
  PROVE  InOrder(Get(c, x, t), l)
<1> DEFINE g == [doc |-> x, then |-> t]
           n == Get(c, x, t)
<1>0. c \in ClientType
  BY InOrderTyped
<1>1. Append(c.gets, g) \in Seq(GetType)
  <2>1. g \in GetType
    BY DEF GetType
  <2> QED BY <2>1, AppendProperties, InOrderTyped
<1>2. /\ n \in ClientType
      /\ n.pending = c.pending /\ n.base = c.base /\ n.listening = c.listening
      /\ n.inbox = c.inbox
  BY <1>0, <1>1 DEF ClientType, Get
<1> HIDE DEF n
<1>3. ClientOK(n)
  BY <1>2 DEF ClientOK, InOrder
<1>4. ASSUME NEW p \in Papers PROVE Tracked(n, l[p], Preview(p))
  <2>1. View(n, Preview(p)) = View(c, Preview(p))
    BY <1>2, ViewFrame
  <2> QED BY <1>2, <2>1, TrackedKept DEF InOrder
<1> QED BY <1>3, <1>4 DEF InOrder, n

(* A listener of a document that the client does not know to exist waits   *)
(* for its news; there is nothing to track before it comes.                *)
LEMMA ListenInOrder ==
  ASSUME NEW c, NEW l, InOrder(c, l), NEW x \in Docs
  PROVE  InOrder(Listen(c, x), l)
<1> DEFINE m == [c EXCEPT !.listening = @ \cup {x}]
<1>0. c \in ClientType
  BY InOrderTyped
<1>1. /\ m \in ClientType
      /\ m.pending = c.pending /\ m.base = c.base
      /\ m.listening = c.listening \cup {x} /\ m.inbox = c.inbox
  BY <1>0 DEF ClientType
<1>2. Listen(c, x) = IF Known(c, x) THEN PostSnapshot(m, x, View(c, x)) ELSE m
  BY DEF Listen
<1> HIDE DEF m
<1>3. ClientOK(m)
  BY <1>1 DEF ClientOK, InOrder
<1>4. \A y : View(m, y) = View(c, y)
  BY <1>1, ViewFrame
<1>5. CASE ~Known(c, x)
  <2>1. ASSUME NEW p \in Papers PROVE Tracked(m, l[p], Preview(p))
    <3>1. CASE Preview(p) = x
      BY <1>4, <1>5, <3>1 DEF Tracked, Known
    <3>2. CASE Preview(p) # x
      BY <1>1, <1>4, <3>2, TrackedKept DEF InOrder
    <3> QED BY <3>1, <3>2
  <2> QED BY <1>2, <1>3, <1>5, <2>1 DEF InOrder
<1>6. CASE Known(c, x)
  <2>1. InOrder(PostSnapshot(m, x, View(m, x)), l)
    BY <1>1, <1>3, <1>4, PostSnapshotInOrder
  <2> QED BY <1>2, <1>4, <1>6, <2>1
<1> QED BY <1>5, <1>6

-----------------------------------------------------------------------------
(* The steps of the network keep a device in good order                    *)

(* The oldest write is acknowledged: its value moves from the queue to the *)
(* copy, and no view changes.                                              *)
LEMMA AcknowledgedInOrder ==
  ASSUME NEW c, NEW l, InOrder(c, l), c.pending # << >>,
         NEW n, n = [c EXCEPT !.pending = Tail(@), !.base[Head(c.pending).doc] = Head(c.pending).val]
  PROVE  InOrder(n, l)
<1> DEFINE w == Head(c.pending)
<1>0. /\ c \in ClientType /\ c.pending \in Seq(WriteType)
      /\ c.base \in [Docs -> Value]
  BY InOrderTyped
<1>1. w \in WriteType /\ Tail(c.pending) \in Seq(WriteType)
  BY <1>0, HeadTailProperties
<1>2. /\ n \in ClientType
      /\ n.pending = Tail(c.pending) /\ n.base = [c.base EXCEPT ![w.doc] = w.val]
      /\ n.listening = c.listening /\ n.inbox = c.inbox
  BY <1>0, <1>1 DEF ClientType, WriteType
<1>3. ASSUME NEW y \in Docs
      PROVE  /\ n.base[y] = IF y = w.doc THEN w.val ELSE c.base[y]
             /\ n.base[y] \in ValuesOf(y)
  BY <1>0, <1>1, <1>2 DEF InOrder, ClientOK, WriteType, Fits
<1>4. ClientOK(n)
  BY <1>2, <1>3 DEF ClientOK
<1>5. ASSUME NEW y \in Docs PROVE View(n, y) = View(c, y)
  <2>0. c.pending \in Seq(WriteType) /\ n.pending = Tail(c.pending)
    BY <1>0, <1>2
  <2>1. /\ PendingOn(n, y) # {} => View(n, y) = View(c, y)
        /\ PendingOn(n, y) = {} =>
             /\ View(n, y) = n.base[y]
             /\ View(c, y) = IF Head(c.pending).doc = y THEN Head(c.pending).val
                             ELSE c.base[y]
    BY ONLY c.pending # << >>, <2>0, ViewAfterTail
  <2> QED BY <1>3, <2>1
<1>6. ASSUME NEW p \in Papers PROVE Tracked(n, l[p], Preview(p))
  <2>1. View(n, Preview(p)) = View(c, Preview(p))
    BY <1>5 DEF Docs
  <2> QED BY <1>2, <2>1, TrackedKept DEF InOrder
<1> QED BY <1>4, <1>6 DEF InOrder

(* The oldest write is refused: the view of its document falls back, and a *)
(* listener is told.                                                       *)
LEMMA RejectedInOrder ==
  ASSUME NEW c, NEW l, InOrder(c, l), c.pending # << >>,
         NEW x, x = Head(c.pending).doc,
         NEW m, m = [c EXCEPT !.pending = Tail(@)]
  PROVE  InOrder(Notify(c, m, x), l)
<1>0. c \in ClientType /\ c.pending \in Seq(WriteType)
  BY InOrderTyped
<1>1. x \in Docs /\ Tail(c.pending) \in Seq(WriteType)
  <2>1. Head(c.pending) \in WriteType /\ Tail(c.pending) \in Seq(WriteType)
    BY <1>0, HeadTailProperties
  <2> QED BY <2>1 DEF WriteType
<1>2. /\ m \in ClientType
      /\ m.pending = Tail(c.pending) /\ m.base = c.base
      /\ m.listening = c.listening /\ m.inbox = c.inbox
  BY <1>0, <1>1 DEF ClientType
<1>3. ClientOK(m)
  BY <1>2 DEF ClientOK, InOrder
<1>4. ASSUME NEW y \in Docs, y # x PROVE View(m, y) = View(c, y)
  <2>1. /\ PendingOn(m, y) # {} => View(m, y) = View(c, y)
        /\ PendingOn(m, y) = {} =>
             /\ View(m, y) = m.base[y]
             /\ View(c, y) = IF Head(c.pending).doc = y THEN Head(c.pending).val
                             ELSE c.base[y]
    BY ONLY c.pending # << >>, <1>0, <1>2, ViewAfterTail
  <2> QED BY <1>2, <1>4, <2>1
<1> QED BY <1>1, <1>2, <1>3, <1>4, NotifyInOrder

(* A listener learns, offline, that there is no copy of its document.      *)
LEMMA OfflineInOrder ==
  ASSUME NEW c, NEW l, InOrder(c, l), NEW x \in Docs
  PROVE  InOrder(PostSnapshot(c, x, View(c, x)), l)
BY PostSnapshotInOrder DEF InOrder

(* An answered call leaves the queue of getDocument calls.                 *)
LEMMA ShortenedInOrder ==
  ASSUME NEW c, NEW l, InOrder(c, l), NEW s \in Seq(GetType),
         NEW n, n = [c EXCEPT !.gets = s]
  PROVE  InOrder(n, l)
<1>0. c \in ClientType
  BY InOrderTyped
<1>1. /\ n \in ClientType
      /\ n.pending = c.pending /\ n.base = c.base
      /\ n.listening = c.listening /\ n.inbox = c.inbox
  BY <1>0 DEF ClientType
<1>2. ClientOK(n)
  BY <1>1 DEF ClientOK, InOrder
<1>3. ASSUME NEW p \in Papers PROVE Tracked(n, l[p], Preview(p))
  <2>1. View(n, Preview(p)) = View(c, Preview(p))
    BY <1>1, ViewFrame
  <2> QED BY <1>1, <2>1, TrackedKept DEF InOrder
<1> QED BY <1>2, <1>3 DEF InOrder

-----------------------------------------------------------------------------
(* What the main queue does to a device in good order                      *)

(* The event e reaches the list l of previews, which becomes m: entries    *)
(* may be dropped, or replaced by the preview that e brings, which a list  *)
(* must not ignore.                                                        *)
Absorbed(e, l, m) ==
  \A p \in Papers :
    IF e.type = "snapshot" /\ e.doc = Preview(p) /\ e.val # Absent
      THEN m[p] = e.val
      ELSE m[p] \in {l[p], Absent}

(* Popping the oldest callback and letting the list absorb it.             *)
LEMMA PoppedInOrder ==
  ASSUME NEW c, NEW l, InOrder(c, l), c.inbox # << >>, NEW m,
         Absorbed(Head(c.inbox), l, m),
         NEW n, n = [c EXCEPT !.inbox = Tail(@)]
  PROVE  InOrder(n, m)
<1> DEFINE e == Head(c.inbox)
           k == Len(n.inbox)
<1>0. c \in ClientType /\ c.inbox \in Seq(EventType)
  BY InOrderTyped
<1>1. /\ n \in ClientType
      /\ n.pending = c.pending /\ n.base = c.base
      /\ n.listening = c.listening /\ n.inbox = Tail(c.inbox)
  <2>1. Tail(c.inbox) \in Seq(EventType)
    BY <1>0, HeadTailProperties
  <2> QED BY <1>0, <2>1 DEF ClientType
<1>2. ClientOK(n)
  BY <1>1 DEF ClientOK, InOrder
<1>3. /\ k \in Nat /\ Len(c.inbox) = k + 1 /\ c.inbox[1] = e
      /\ \A i \in 1..k : n.inbox[i] = c.inbox[i + 1]
  <2>1. Len(c.inbox) \in Nat /\ Len(n.inbox) = Len(c.inbox) - 1
    BY <1>0, <1>1, HeadTailProperties, LenProperties
  <2>2. \A i \in 1..Len(n.inbox) : n.inbox[i] = c.inbox[i + 1]
    BY <1>0, <1>1, HeadTailProperties
  <2>3. Len(c.inbox) # 0 /\ e = c.inbox[1]
    BY <1>0, EmptySeq, HeadTailProperties
  <2> QED BY <2>1, <2>2, <2>3
<1> HIDE DEF e, k
<1>4. ASSUME NEW p \in Papers PROVE Tracked(n, m[p], Preview(p))
  <2> DEFINE x == Preview(p)
  <2>1. View(n, x) = View(c, x)
    BY <1>1, ViewFrame
  <2>2. SUFFICES ASSUME x \in c.listening, View(c, x) # Absent
                 PROVE  /\ \A i \in NewsOf(n, x) :
                             (\A j \in NewsOf(n, x) : j <= i) => n.inbox[i].val = View(c, x)
                        /\ NewsOf(n, x) = {} => m[p] \in {Absent, View(c, x)}
    BY <1>1, <2>1 DEF Tracked
  <2>3. /\ \A i \in NewsOf(c, x) :
             (\A j \in NewsOf(c, x) : j <= i) => c.inbox[i].val = View(c, x)
        /\ NewsOf(c, x) = {} => l[p] \in {Absent, View(c, x)}
    BY <2>2 DEF InOrder, Tracked
  <2> HIDE DEF x
  <2>4. \A i \in 1..k : i \in NewsOf(n, x) <=> i + 1 \in NewsOf(c, x)
    BY <1>3 DEF NewsOf, k
  <2>5. /\ NewsOf(n, x) \subseteq 1..k /\ NewsOf(c, x) \subseteq 1..(k + 1)
        /\ 1 \in NewsOf(c, x) <=> e.type = "snapshot" /\ e.doc = x
    BY <1>3 DEF NewsOf, k
  <2>6. ASSUME NEW i \in NewsOf(n, x), \A j \in NewsOf(n, x) : j <= i
        PROVE  n.inbox[i].val = View(c, x)
    <3>1. i \in 1..k /\ i + 1 \in NewsOf(c, x) /\ n.inbox[i] = c.inbox[i + 1]
      BY <1>3, <2>4, <2>5
    <3>2. ASSUME NEW j \in NewsOf(c, x) PROVE j <= i + 1
      <4>1. CASE j = 1
        BY <3>1, <4>1
      <4>2. CASE j # 1
        <5>1. j - 1 \in 1..k /\ (j - 1) + 1 = j
          BY <1>3, <2>5, <4>2
        <5>2. j - 1 \in NewsOf(n, x)
          BY <2>4, <5>1
        <5>3. j - 1 <= i
          BY <2>6, <5>2
        <5> QED BY <1>3, <2>5, <3>1, <5>3
      <4> QED BY <4>1, <4>2
    <3> QED BY <2>3, <3>1, <3>2
  <2>7. ASSUME NewsOf(n, x) = {} PROVE m[p] \in {Absent, View(c, x)}
    <3>1. NewsOf(c, x) \subseteq {1}
      <4>1. ASSUME NEW j \in NewsOf(c, x), j # 1 PROVE FALSE
        <5>1. j - 1 \in 1..k /\ (j - 1) + 1 = j
          BY <1>3, <2>5, <4>1
        <5> QED BY <2>4, <2>7, <5>1
      <4> QED BY <4>1
    <3>2. CASE 1 \in NewsOf(c, x)
      <4>1. e.type = "snapshot" /\ e.doc = x /\ e.val = View(c, x)
        BY <1>3, <2>3, <2>5, <3>1, <3>2
      <4> QED BY <2>2, <4>1 DEF Absorbed, e, x
    <3>3. CASE 1 \notin NewsOf(c, x)
      <4>1. ~(e.type = "snapshot" /\ e.doc = x) /\ l[p] \in {Absent, View(c, x)}
        BY <2>3, <2>5, <3>1, <3>3
      <4> QED BY <4>1 DEF Absorbed, e, x
    <3> QED BY <3>2, <3>3
  <2> QED BY <2>6, <2>7
<1> QED BY <1>2, <1>4 DEF InOrder

(* An event that brings no news of a preview leaves the list alone.        *)
LEMMA NothingAbsorbed ==
  ASSUME NEW e, NEW l, e.type # "snapshot" \/ \A p \in Papers : e.doc # Preview(p)
  PROVE  Absorbed(e, l, l)
BY DEF Absorbed

(* A list that is emptied, or loses an entry, keeps the device in order.   *)
LEMMA ForgottenInOrder ==
  ASSUME NEW c, NEW l, InOrder(c, l), NEW m, \A p \in Papers : m[p] \in {l[p], Absent}
  PROVE  InOrder(c, m)
<1>1. ASSUME NEW p \in Papers PROVE Tracked(c, m[p], Preview(p))
  BY TrackedKept DEF InOrder
<1> QED BY <1>1 DEF InOrder

(* After a restart nothing is listened to.                                 *)
LEMMA RestartedInOrder ==
  ASSUME NEW c, NEW l, InOrder(c, l)
  PROVE  InOrder(Restarted(c), NoPreviews)
<1> DEFINE n == Restarted(c)
           q == [i \in 1..Len(c.pending) |-> [c.pending[i] EXCEPT !.then = NoCallback]]
<1>0. /\ c.pending \in Seq(WriteType) /\ Len(c.pending) \in Nat
      /\ c.base \in [Docs -> Value]
  BY InOrderTyped, LenProperties
<1>1. q \in Seq(WriteType)
  <2>1. NoCallback \in ThenType
    BY DEF NoCallback, Then, ThenType, OpNames
  <2>2. ASSUME NEW w \in WriteType PROVE [w EXCEPT !.then = NoCallback] \in WriteType
    BY <2>1 DEF WriteType, Fits, NoCallback, Then
  <2>3. \A i \in 1..Len(c.pending) : [c.pending[i] EXCEPT !.then = NoCallback] \in WriteType
    BY <1>0, <2>2, ElementOfSeq
  <2> QED BY <1>0, <2>3, IsASeq
<1>2. n = [pending |-> q, base |-> c.base, listening |-> {}, raised |-> {},
           gets |-> << >>, inbox |-> << >>]
  BY DEF Restarted
<1> HIDE DEF q, n
<1>3. << >> \in Seq(GetType) /\ << >> \in Seq(EventType)
  OBVIOUS
<1>4. n \in ClientType /\ n.listening = {} /\ n.base = c.base
  BY <1>0, <1>1, <1>2, <1>3 DEF ClientType
<1>5. ClientOK(n)
  BY <1>4 DEF ClientOK, InOrder
<1> QED BY <1>4, <1>5 DEF InOrder, Tracked, n

(* The closure of loadPaperPreviews, from c to n: listeners for the        *)
(* previews of S, and the known ones, those of K, raised in the order f.   *)
Raising(c, n, S, K, f) ==
  LET k == Len(c.inbox)
      h == Len(f)
  IN  /\ ClientOK(n)
      /\ n.listening = c.listening \cup {Preview(p) : p \in S}
      /\ n.raised = c.raised \cup {Preview(f[i]) : i \in 1..h}
      /\ n.pending = c.pending /\ n.base = c.base /\ n.gets = c.gets
      /\ k \in Nat /\ h \in Nat
      /\ \A i \in 1..h : f[i] \in K
      /\ \A p \in K : \E i \in 1..h : f[i] = p
      /\ Len(n.inbox) = k + h
      /\ \A i \in 1..k : n.inbox[i] = c.inbox[i]
      /\ \A i \in (k + 1)..(k + h) :
           /\ n.inbox[i].type = "snapshot" /\ n.inbox[i].doc = Preview(f[i - k])
           /\ n.inbox[i].val = View(c, Preview(f[i - k]))

LEMMA RaisedEffect ==
  ASSUME NEW c, ClientOK(c), NEW S \in SUBSET Papers,
         NEW K, K = {p \in S : Known(c, Preview(p))},
         NEW f \in ListsOf(K), NEW n, n = FetchPaperPreviews(c, S, f)
  PROVE  Raising(c, n, S, K, f)
<1> DEFINE k == Len(c.inbox)
           h == Len(f)
           s == [i \in 1..h |->
                  Event("snapshot", Preview(f[i]), View(c, Preview(f[i])), NoCallback)]
<1>0. c \in ClientType /\ c.inbox \in Seq(EventType) /\ k \in Nat
  BY LenProperties DEF ClientOK, ClientType
<1>1. /\ h \in Nat /\ f \in [1..h -> K] /\ DOMAIN f = 1..h
      /\ \A p \in K : \E i \in 1..h : f[i] = p
  <2>1. IsFiniteSet(K)
    BY ManagerAssumption, FS_Subset
  <2>2. Cardinality(K) \in Nat
    BY <2>1, FS_CardinalityType
  <2>3. f \in [1..Cardinality(K) -> K] /\ \A p \in K : \E i \in DOMAIN f : f[i] = p
    BY DEF ListsOf
  <2>4. f \in Seq(K)
    BY ONLY <2>2, <2>3, SeqDef
  <2>5. h \in Nat /\ f \in [1..h -> K] /\ DOMAIN f = 1..h
    BY <2>4, LenProperties
  <2> QED BY <2>3, <2>5
<1> HIDE DEF h, k
<1>2. ASSUME NEW i \in 1..h
      PROVE  /\ s[i] \in EventType /\ f[i] \in K
             /\ s[i].type = "snapshot" /\ s[i].doc = Preview(f[i])
             /\ s[i].val = View(c, Preview(f[i]))
  <2>1. f[i] \in K /\ f[i] \in Papers /\ Preview(f[i]) \in Docs
    BY <1>1 DEF Docs
  <2>2. View(c, Preview(f[i])) \in ValuesOf(Preview(f[i]))
    BY <2>1, ViewType
  <2>3. s[i] = Event("snapshot", Preview(f[i]), View(c, Preview(f[i])), NoCallback)
    OBVIOUS
  <2>4. s[i] \in EventType
    BY <2>1, <2>2, <2>3, SnapshotType
  <2> QED BY <2>1, <2>3, <2>4 DEF Event
<1>3. s \in Seq(EventType) /\ Len(s) = h
  BY <1>1, <1>2, IsASeq, LenProperties
<1>4. /\ n.inbox = c.inbox \o s
      /\ n.listening = c.listening \cup {Preview(p) : p \in S}
      /\ n.raised = c.raised \cup {Preview(f[i]) : i \in 1..h}
      /\ n.pending = c.pending /\ n.base = c.base /\ n.gets = c.gets
      /\ n \in ClientType
  <2>1. c.inbox \o s \in Seq(EventType)
    BY <1>0, <1>3, ConcatProperties
  <2>2. {Preview(p) : p \in S} \subseteq Docs
    BY DEF Docs
  <2> DEFINE R == {Preview(f[i]) : i \in 1..h}
  <2>3. R \subseteq Docs
    BY <1>1 DEF Docs
  <2>4. n = [c EXCEPT !.listening = @ \cup {Preview(p) : p \in S}, !.raised = @ \cup R,
                      !.inbox = @ \o s]
    BY <1>1 DEF h, FetchPaperPreviews
  <2> HIDE DEF R
  <2>5. /\ n.inbox = c.inbox \o s /\ n.listening = c.listening \cup {Preview(p) : p \in S}
        /\ n.raised = c.raised \cup R
        /\ n.pending = c.pending /\ n.base = c.base /\ n.gets = c.gets /\ n \in ClientType
    BY ONLY <1>0, <2>1, <2>2, <2>3, <2>4 DEF ClientType
  <2> QED BY <2>5 DEF R
<1> HIDE DEF s
<1>5. /\ Len(n.inbox) = k + h
      /\ \A i \in 1..k : n.inbox[i] = c.inbox[i]
      /\ \A i \in (k + 1)..(k + h) : n.inbox[i] = s[i - k]
      /\ \A i \in (k + 1)..(k + h) : i - k \in 1..h
  <2>1. /\ Len(c.inbox \o s) = k + h
        /\ \A i \in 1..(k + h) :
             (c.inbox \o s)[i] = IF i <= k THEN c.inbox[i] ELSE s[i - k]
    BY ONLY <1>0, <1>3, ConcatProperties DEF k
  <2>2. \A i \in (k + 1)..(k + h) : i - k \in 1..h
    BY ONLY <1>0, <1>1
  <2> QED BY ONLY <1>0, <1>1, <1>4, <2>1, <2>2
<1>6. ClientOK(n)
  BY <1>4 DEF ClientOK
<1>7. /\ k \in Nat /\ h \in Nat /\ \A i \in 1..h : f[i] \in K
      /\ \A p \in K : \E i \in 1..h : f[i] = p
  BY <1>0, <1>1
<1>8. \A i \in (k + 1)..(k + h) :
        /\ n.inbox[i].type = "snapshot" /\ n.inbox[i].doc = Preview(f[i - k])
        /\ n.inbox[i].val = View(c, Preview(f[i - k]))
  BY <1>2, <1>5
<1> QED BY <1>4, <1>5, <1>6, <1>7, <1>8, Zenon DEF Raising, k, h

LEMMA RaisedInOrder ==
  ASSUME NEW c, NEW l, InOrder(c, l), NEW S \in SUBSET Papers,
         NEW K, K = {p \in S : Known(c, Preview(p))},
         NEW f \in ListsOf(K), NEW n, n = FetchPaperPreviews(c, S, f)
  PROVE  InOrder(n, l)
<1> DEFINE k == Len(c.inbox)
           h == Len(f)
<1>0. Raising(c, n, S, K, f)
  <2>1. ClientOK(c)
    BY InOrderTyped
  <2> QED BY <2>1, RaisedEffect
<1>1. /\ ClientOK(n) /\ k \in Nat /\ h \in Nat
      /\ n.listening = c.listening \cup {Preview(p) : p \in S}
      /\ n.pending = c.pending /\ n.base = c.base
      /\ \A i \in 1..h : f[i] \in K
      /\ \A p \in K : \E i \in 1..h : f[i] = p
      /\ Len(n.inbox) = k + h
      /\ \A i \in 1..k : n.inbox[i] = c.inbox[i]
      /\ \A i \in (k + 1)..(k + h) :
           /\ n.inbox[i].type = "snapshot" /\ n.inbox[i].doc = Preview(f[i - k])
           /\ n.inbox[i].val = View(c, Preview(f[i - k]))
  BY <1>0 DEF Raising
<1> HIDE DEF h, k
<1>2. ASSUME NEW p \in Papers PROVE Tracked(n, l[p], Preview(p))
  <2> DEFINE x == Preview(p)
  <2>1. \A y : View(n, y) = View(c, y)
    BY <1>1, ViewFrame
  <2>2. SUFFICES ASSUME x \in n.listening, View(c, x) # Absent
                 PROVE  /\ \A i \in NewsOf(n, x) :
                             (\A j \in NewsOf(n, x) : j <= i) => n.inbox[i].val = View(c, x)
                        /\ NewsOf(n, x) = {} => l[p] \in {Absent, View(c, x)}
    BY <2>1 DEF Tracked
  <2>3. \A q \in Papers : Preview(q) = x <=> q = p
    BY DEF Preview
  <2>4. Tracked(c, l[p], x)
    BY DEF InOrder
  <2> HIDE DEF x
  <2>5. NewsOf(c, x) \subseteq 1..k /\ NewsOf(n, x) \subseteq 1..(k + h)
    BY <1>1 DEF NewsOf, k
  <2>6. \A i \in 1..k : i \in NewsOf(n, x) <=> i \in NewsOf(c, x)
    BY <1>1 DEF NewsOf, k
  <2>7. ASSUME NEW i \in NewsOf(n, x), i \notin 1..k
        PROVE  p \in K /\ n.inbox[i].val = View(c, x)
    <3>1. i \in (k + 1)..(k + h) /\ i - k \in 1..h
      BY <1>1, <2>5, <2>7
    <3>2. f[i - k] \in K /\ x = Preview(f[i - k]) /\ n.inbox[i].val = View(c, x)
      BY <1>1, <3>1 DEF NewsOf
    <3> QED BY <2>3, <3>2
  <2>8. CASE p \in K
    <3>1. PICK i \in 1..h : f[i] = p
      BY <1>1, <2>8
    <3>2. k + i \in (k + 1)..(k + h) /\ (k + i) - k = i
      BY ONLY <1>1, i \in 1..h
    <3>3. k + i \in NewsOf(n, x)
      BY <1>1, <3>1, <3>2 DEF NewsOf, x
    <3>4. ASSUME NEW m \in NewsOf(n, x), \A j \in NewsOf(n, x) : j <= m
          PROVE  n.inbox[m].val = View(c, x)
      <4>1. k + i <= m
        BY <3>3, <3>4
      <4>2. m \notin 1..k
        BY <1>1, <4>1
      <4> QED BY <2>7, <4>2
    <3> QED BY <3>3, <3>4
  <2>9. CASE p \notin K
    <3>1. p \notin S
      BY <2>2, <2>9 DEF x, Known
    <3>2. x \in c.listening
      BY <1>1, <2>2, <2>3, <3>1
    <3>3. NewsOf(n, x) = NewsOf(c, x)
      BY <2>5, <2>6, <2>7, <2>9
    <3>4. \A i \in NewsOf(c, x) : n.inbox[i] = c.inbox[i]
      BY <1>1, <2>5
    <3> QED BY <2>2, <2>4, <3>2, <3>3, <3>4 DEF Tracked
  <2> QED BY <2>8, <2>9
<1> QED BY <1>1, <1>2 DEF InOrder

-----------------------------------------------------------------------------
(* The inductive invariant                                                 *)

IInv == TypeOK /\ ListingTracked

(* The part of TypeOK that is not about the client or the list.            *)
StateTyped ==
  /\ server \in [Docs -> Value]
  /\ \A x \in Docs : server[x] \in ValuesOf(x)
  /\ subject \in [Devices -> PaperModel \cup {Absent}]
  /\ dropped \in [Devices -> SUBSET Papers]
  /\ email \in [Devices -> Users \cup {Absent}]
  /\ paperObserver \in [Devices -> Papers \cup {Absent}]
  /\ profile \in [Devices -> Users \cup {Absent}]
  /\ owner \in [Papers -> Users \cup {Absent}]
  /\ created \subseteq Cards \cup Papers
  /\ ops \in 0..MaxOps

PreviewList == [Papers -> PaperPreviewModel \cup {Absent}]

LEMMA InvariantInOrder ==
  ASSUME IInv
  PROVE  /\ StateTyped
         /\ client \in [Devices -> ClientType] /\ papers \in [Devices -> PreviewList]
         /\ \A d \in Devices : InOrder(client[d], papers[d]) /\ papers[d] \in PreviewList
BY DEF IInv, TypeOK, ListingTracked, StateTyped, InOrder, PreviewList

(* A step of device d that leaves it in good order keeps the invariant.    *)
LEMMA DeviceStep ==
  ASSUME IInv, NEW d \in Devices, NEW c, NEW l \in PreviewList, InOrder(c, l),
         client' = [client EXCEPT ![d] = c], papers' = [papers EXCEPT ![d] = l],
         StateTyped'
  PROVE  IInv'
<1>1. /\ client \in [Devices -> ClientType] /\ papers \in [Devices -> PreviewList]
      /\ \A e \in Devices : InOrder(client[e], papers[e])
  BY InvariantInOrder
<1>2. c \in ClientType
  BY InOrderTyped
<1>3. client' \in [Devices -> ClientType] /\ papers' \in [Devices -> PreviewList]
  BY <1>1, <1>2
<1>4. ASSUME NEW e \in Devices
      PROVE  ClientOK(client'[e]) /\ \A p \in Papers : Tracked(client'[e], papers'[e][p], Preview(p))
  <2>1. CASE e = d
    BY <1>1, <2>1 DEF InOrder
  <2>2. CASE e # d
    BY <1>1, <2>2 DEF InOrder
  <2> QED BY <2>1, <2>2
<1>5. TypeOK'
  BY <1>3, <1>4 DEF TypeOK, StateTyped, PreviewList
<1>6. ListingTracked'
  BY <1>4 DEF ListingTracked
<1> QED BY <1>5, <1>6 DEF IInv

(* The same for a step that does not touch the list.                       *)
LEMMA ClientStep ==
  ASSUME IInv, NEW d \in Devices, NEW c, InOrder(c, papers[d]),
         client' = [client EXCEPT ![d] = c], UNCHANGED papers, StateTyped'
  PROVE  IInv'
<1>1. papers[d] \in PreviewList /\ papers' = [papers EXCEPT ![d] = papers[d]]
  BY InvariantInOrder
<1> QED BY <1>1, DeviceStep

(* The initial state: nothing is listened to and nothing is shown.         *)
LEMMA InitInvariant == Init => IInv
<1> SUFFICES ASSUME Init PROVE IInv
  OBVIOUS
<1>1. /\ \A p \in Papers : InitialOwner[p] \in Users \cup {Absent}
      /\ InitialTitle \in Titles
  BY ManagerAssumption
<1>2. \A x \in Docs : server[x] \in ValuesOf(x)
  <2>1. ASSUME NEW p \in Papers
        PROVE  server[Paper(p)] \in ValuesOf(Paper(p)) /\ server[Preview(p)] \in ValuesOf(Preview(p))
    <3>1. Paper(p) \in Docs /\ Preview(p) \in Docs
      BY DEF Docs, PaperDocs
    <3>2. /\ server[Paper(p)] \in {Absent, [id |-> p, cards |-> {}, title |-> InitialTitle]}
          /\ server[Preview(p)] \in {Absent, [title |-> InitialTitle]}
      BY <3>1 DEF Init, InitialDocument, Paper, Preview
    <3>3. [id |-> p, cards |-> {}, title |-> InitialTitle] \in {v \in PaperModel : v.id = p}
      BY <1>1 DEF PaperModel
    <3>4. [title |-> InitialTitle] \in PaperPreviewModel
      BY <1>1 DEF PaperPreviewModel
    <3> QED BY <3>2, <3>3, <3>4 DEF ValuesOf, Paper, Preview
  <2>2. ASSUME NEW u \in Users PROVE server[User(u)] \in ValuesOf(User(u))
    <3>1. User(u) \in Docs
      BY DEF Docs
    <3>2. server[User(u)] \in {Absent, [paperIds |-> {p \in Papers : InitialOwner[p] = u}]}
      BY <3>1 DEF Init, InitialDocument, User
    <3>3. [paperIds |-> {p \in Papers : InitialOwner[p] = u}] \in PaperIdList
      BY DEF PaperIdList
    <3> QED BY <3>2, <3>3 DEF ValuesOf, User
  <2> QED BY <2>1, <2>2 DEF Docs, PaperDocs
<1>3. server \in [Docs -> Value]
  <2>1. \A x \in Docs : server[x] \in Value
    BY <1>2, ValueKnown
  <2>2. server = [x \in Docs |-> server[x]]
    BY DEF Init
  <2> QED BY <2>1, <2>2
<1>4. FreshClient(Docs) \in ClientType /\ ClientOK(FreshClient(Docs))
  <2>1. << >> \in Seq(WriteType) /\ << >> \in Seq(GetType) /\ << >> \in Seq(EventType)
    OBVIOUS
  <2>2. Absent \in Value /\ \A x \in Docs : Absent \in ValuesOf(x)
    BY DEF Value, ValuesOf
  <2>3. FreshClient(Docs) \in ClientType
    BY <2>1, <2>2 DEF FreshClient, ClientType
  <2>4. \A x \in Docs : FreshClient(Docs).base[x] = Absent
    BY DEF FreshClient
  <2> QED BY <2>2, <2>3, <2>4 DEF ClientOK
<1>5. StateTyped
  <2>1. created \subseteq Cards \cup Papers /\ ops \in 0..MaxOps
    BY ManagerAssumption DEF Init
  <2>2. /\ subject \in [Devices -> PaperModel \cup {Absent}]
        /\ dropped \in [Devices -> SUBSET Papers]
        /\ email \in [Devices -> Users \cup {Absent}]
        /\ paperObserver \in [Devices -> Papers \cup {Absent}]
        /\ profile \in [Devices -> Users \cup {Absent}]
    BY DEF Init
  <2>3. owner \in [Papers -> Users \cup {Absent}]
    BY ManagerAssumption DEF Init
  <2> QED BY <1>2, <1>3, <2>1, <2>2, <2>3 DEF StateTyped
<1>6. /\ client \in [Devices -> ClientType]
      /\ \A d \in Devices : ClientOK(client[d]) /\ client[d].listening = {}
  BY <1>4 DEF Init, FreshClient
<1>7. papers \in [Devices -> [Papers -> PaperPreviewModel \cup {Absent}]]
  BY DEF Init, NoPreviews
<1>8. TypeOK
  BY <1>5, <1>6, <1>7 DEF TypeOK, StateTyped
<1>9. ListingTracked
  BY <1>6 DEF ListingTracked, Tracked
<1> QED BY <1>8, <1>9 DEF IInv

-----------------------------------------------------------------------------
(* The steps of the network preserve the invariant                         *)

LEMMA SameStateTyped ==
  ASSUME StateTyped,
         UNCHANGED <<server, subject, dropped, email, paperObserver, profile, owner, created, ops>>
  PROVE  StateTyped'
BY DEF StateTyped

(* An event that a completion handler or an answer puts on the queue.      *)
LEMMA EventTyped ==
  ASSUME NEW type \in {"done", "got"}, NEW x \in Docs, NEW v \in ValuesOf(x),
         NEW t \in ThenType, Fits(x, v, t)
  PROVE  /\ Event(type, x, v, t) \in EventType
         /\ Event(type, x, v, t).type # "snapshot"
BY ValueKnown DEF Event, EventType

LEMMA AcknowledgeStep ==
  ASSUME IInv, NEW d \in Devices, Acknowledge(d), UNCHANGED appVars
  PROVE  IInv'
<1> DEFINE c == client[d]
           w == Head(c.pending)
           acked == [c EXCEPT !.pending = Tail(@), !.base[w.doc] = w.val]
           e == Event("done", w.doc, w.val, w.then)
<1>1. InOrder(c, papers[d]) /\ StateTyped
  BY InvariantInOrder
<1>2. c.pending # << >> /\ c.pending \in Seq(WriteType)
  BY <1>1, InOrderTyped DEF Acknowledge
<1>3. w \in WriteType
  BY <1>2, HeadTailProperties
<1>4. /\ w.doc \in Docs /\ w.val \in ValuesOf(w.doc) /\ w.val \in Value
      /\ w.then \in ThenType /\ Fits(w.doc, w.val, w.then)
  BY <1>3 DEF WriteType, Fits
<1>5. InOrder(acked, papers[d])
  BY ONLY <1>1, <1>2, AcknowledgedInOrder
<1>6. /\ server' = [server EXCEPT ![w.doc] = w.val]
      /\ client' = [client EXCEPT ![d] = IF w.then = NoCallback THEN acked ELSE Post(acked, e)]
  BY DEF Acknowledge
<1> HIDE DEF acked, w, c
<1>7. e \in EventType /\ e.type # "snapshot"
  BY <1>4, EventTyped
<1> HIDE DEF e
<1>8. InOrder(Post(acked, e), papers[d])
  BY ONLY <1>5, <1>7, PostInOrder
<1>9. InOrder(IF w.then = NoCallback THEN acked ELSE Post(acked, e), papers[d])
  BY <1>5, <1>8
<1>10. StateTyped'
  <2>1. server' \in [Docs -> Value] /\ \A x \in Docs : server'[x] \in ValuesOf(x)
    BY <1>1, <1>4, <1>6 DEF StateTyped
  <2> QED BY <1>1, <2>1 DEF StateTyped, appVars
<1> QED BY <1>6, <1>9, <1>10, ClientStep DEF appVars

LEMMA RejectStep ==
  ASSUME IInv, NEW d \in Devices, Reject(d), UNCHANGED appVars
  PROVE  IInv'
<1> DEFINE c == client[d]
           x == Head(c.pending).doc
           m == [c EXCEPT !.pending = Tail(@)]
<1>1. InOrder(c, papers[d]) /\ StateTyped /\ c.pending # << >>
  BY InvariantInOrder DEF Reject
<1>2. InOrder(Notify(c, m, x), papers[d])
  BY ONLY <1>1, RejectedInOrder
<1>3. client' = [client EXCEPT ![d] = Notify(c, m, x)] /\ UNCHANGED server
  BY DEF Reject
<1> HIDE DEF m, x, c
<1>4. StateTyped'
  BY <1>1, <1>3, SameStateTyped DEF appVars
<1> QED BY <1>2, <1>3, <1>4, ClientStep DEF appVars

LEMMA WatchStep ==
  ASSUME IInv, NEW d \in Devices, NEW x \in Docs, Watch(d, x), UNCHANGED appVars
  PROVE  IInv'
<1>1. InOrder(client[d], papers[d]) /\ StateTyped
  BY InvariantInOrder
<1>2. InOrder(Received(client[d], x), papers[d])
  BY <1>1, ReceivedInOrder DEF StateTyped
<1>3. client' = [client EXCEPT ![d] = Received(client[d], x)] /\ UNCHANGED server
  BY DEF Watch
<1>4. StateTyped'
  BY <1>1, <1>3, SameStateTyped DEF appVars
<1> QED BY <1>2, <1>3, <1>4, ClientStep DEF appVars

LEMMA OfflineSnapshotStep ==
  ASSUME IInv, NEW d \in Devices, NEW x \in Docs, OfflineSnapshot(d, x), UNCHANGED appVars
  PROVE  IInv'
<1> DEFINE c == client[d]
<1>1. InOrder(c, papers[d]) /\ StateTyped
  BY InvariantInOrder
<1>2. InOrder(PostSnapshot(c, x, View(c, x)), papers[d])
  BY <1>1, OfflineInOrder
<1>3. client' = [client EXCEPT ![d] = PostSnapshot(c, x, View(c, x))] /\ UNCHANGED server
  BY DEF OfflineSnapshot
<1> HIDE DEF c
<1>4. StateTyped'
  BY <1>1, <1>3, SameStateTyped DEF appVars
<1> QED BY <1>2, <1>3, <1>4, ClientStep DEF appVars

(* A call in the queue is answered with a value of its document.           *)
LEMMA AnswerInOrder ==
  ASSUME NEW c, NEW l, InOrder(c, l), NEW i \in 1..Len(c.gets)
  PROVE  /\ c.gets[i].doc \in Docs
         /\ \A v \in ValuesOf(c.gets[i].doc) : InOrder(Answer(c, i, v), l)
<1> DEFINE g == c.gets[i]
           rest == [j \in 1..(Len(c.gets) - 1) |-> c.gets[IF j < i THEN j ELSE j + 1]]
           n == [c EXCEPT !.gets = rest]
<1>1. c.gets \in Seq(GetType) /\ Len(c.gets) \in Nat
  BY InOrderTyped, LenProperties
<1>2. \A j \in 1..Len(c.gets) : c.gets[j] \in GetType
  BY <1>1, ElementOfSeq
<1>3. rest \in Seq(GetType)
  <2>1. Len(c.gets) - 1 \in Nat
    BY <1>1
  <2>2. \A j \in 1..(Len(c.gets) - 1) : (IF j < i THEN j ELSE j + 1) \in 1..Len(c.gets)
    BY <1>1
  <2>3. \A j \in 1..(Len(c.gets) - 1) : c.gets[IF j < i THEN j ELSE j + 1] \in GetType
    BY <1>2, <2>2
  <2> QED BY <2>1, <2>3, IsASeq
<1>4. /\ g.doc \in Docs /\ g.then \in ThenType
      /\ \A u \in ValuesOf(g.doc) : Fits(g.doc, u, g.then)
  <2>1. g \in GetType
    BY <1>2
  <2> QED BY <2>1 DEF GetType
<1> HIDE DEF rest, g
<1>5. InOrder(n, l)
  BY <1>3, ShortenedInOrder
<1> HIDE DEF n
<1>6. ASSUME NEW v \in ValuesOf(g.doc) PROVE InOrder(Answer(c, i, v), l)
  <2> DEFINE e == Event("got", g.doc, v, g.then)
  <2>1. e \in EventType /\ e.type # "snapshot"
    BY <1>4, EventTyped
  <2> HIDE DEF e
  <2>2. InOrder(Post(n, e), l)
    BY <1>5, <2>1, PostInOrder
  <2> QED BY <2>2 DEF Answer, n, e, g, rest
<1> QED BY <1>4, <1>6 DEF g

LEMMA AnswerOnlineStep ==
  ASSUME IInv, NEW d \in Devices, AnswerOnline(d), UNCHANGED appVars
  PROVE  IInv'
<1> DEFINE c == client[d]
<1>1. InOrder(c, papers[d]) /\ StateTyped
  BY InvariantInOrder
<1>2. PICK i \in Answerable(c) :
        LET x   == c.gets[i].doc
            new == Received(c, x)
        IN  client' = [client EXCEPT ![d] = Answer(new, i, View(new, x))]
  BY DEF AnswerOnline
<1>3. UNCHANGED server
  BY DEF AnswerOnline
<1>4. i \in 1..Len(c.gets)
  BY DEF Answerable
<1> HIDE DEF c
<1> DEFINE x == c.gets[i].doc
           new == Received(c, x)
<1>5. x \in Docs
  BY <1>1, <1>4, AnswerInOrder
<1>6. client' = [client EXCEPT ![d] = Answer(new, i, View(new, x))]
  BY <1>2
<1> HIDE DEF x
<1>7. InOrder(new, papers[d]) /\ new.gets = c.gets
  BY <1>1, <1>5, ReceivedInOrder, ReceivedGets DEF StateTyped
<1> HIDE DEF new
<1>8. View(new, x) \in ValuesOf(new.gets[i].doc)
  BY <1>5, <1>7, ViewType DEF InOrder, x
<1>9. InOrder(Answer(new, i, View(new, x)), papers[d])
  BY <1>4, <1>7, <1>8, AnswerInOrder
<1>10. StateTyped'
  BY <1>1, <1>3, SameStateTyped DEF appVars
<1> QED BY <1>6, <1>9, <1>10, ClientStep DEF appVars

LEMMA AnswerOfflineStep ==
  ASSUME IInv, NEW d \in Devices, AnswerOffline(d), UNCHANGED appVars
  PROVE  IInv'
<1> DEFINE c == client[d]
<1>1. InOrder(c, papers[d]) /\ StateTyped
  BY InvariantInOrder
<1>2. PICK i \in Answerable(c) :
        client' = [client EXCEPT ![d] = Answer(c, i, View(c, c.gets[i].doc))]
  BY DEF AnswerOffline
<1>3. UNCHANGED server
  BY DEF AnswerOffline
<1>4. i \in 1..Len(c.gets)
  BY DEF Answerable
<1> HIDE DEF c
<1>5. View(c, c.gets[i].doc) \in ValuesOf(c.gets[i].doc)
  BY <1>1, <1>4, AnswerInOrder, ViewType DEF InOrder
<1>6. InOrder(Answer(c, i, View(c, c.gets[i].doc)), papers[d])
  BY <1>1, <1>4, <1>5, AnswerInOrder
<1>7. StateTyped'
  BY <1>1, <1>3, SameStateTyped DEF appVars
<1> QED BY <1>2, <1>6, <1>7, ClientStep DEF appVars

-----------------------------------------------------------------------------
(* What the manager asks of the client keeps a device in good order        *)

LEMMA PaperValue ==
  ASSUME NEW paper \in PaperModel
  PROVE  Paper(paper.id) \in Docs /\ paper \in ValuesOf(Paper(paper.id))
BY DEF PaperModel, Docs, PaperDocs, ValuesOf, Paper

LEMMA PaperNotAbsent == Absent \notin PaperModel
BY ManagerAssumption

LEMMA PreviewValue ==
  ASSUME NEW p \in Papers
  PROVE  /\ Preview(p) \in Docs
         /\ \A v \in PaperPreviewModel : v \in ValuesOf(Preview(p))
         /\ \A v \in ValuesOf(Preview(p)) : v # Absent => v \in PaperPreviewModel
BY DEF Docs, ValuesOf, Preview

LEMMA ListValue ==
  ASSUME NEW u \in Users
  PROVE  User(u) \in Docs /\ \A v \in PaperIdList : v \in ValuesOf(User(u))
BY DEF Docs, ValuesOf, User

LEMMA AbsentValue == ASSUME NEW x PROVE Absent \in ValuesOf(x)
BY DEF ValuesOf

LEMMA ThenTyped ==
  ASSUME NEW op \in OpNames, NEW arg \in Papers \cup Cards \cup {Absent}
  PROVE  Then(op, arg) \in ThenType
BY DEF Then, ThenType

LEMMA WritePaperInOrder ==
  ASSUME NEW c, NEW l, InOrder(c, l), NEW paper \in PaperModel,
         NEW op \in {"addPaper", "addCard", "updatePaper", "convertPaperToGift"}
  PROVE  InOrder(WritePaper(c, paper, op), l)
<1>1. Then(op, Absent) \in ThenType
  BY ThenTyped DEF OpNames
<1>2. Paper(paper.id) \in Docs /\ paper \in ValuesOf(Paper(paper.id))
  BY PaperValue
<1>3. paper # Absent
  BY PaperNotAbsent
<1>4. Fits(Paper(paper.id), paper, Then(op, Absent))
  BY <1>2, <1>3 DEF Fits, Then, Paper
<1> QED BY <1>1, <1>2, <1>4, WriteInOrder DEF WritePaper

LEMMA RemovePaperPreviewInOrder ==
  ASSUME NEW c, NEW l, InOrder(c, l), NEW p \in Papers
  PROVE  InOrder(RemovePaperPreview(c, p), l)
<1>1. Then("removePaperPreview", p) \in ThenType
  BY ThenTyped DEF OpNames
<1>2. Preview(p) \in Docs /\ Absent \in ValuesOf(Preview(p))
  BY PreviewValue, AbsentValue
<1>3. Fits(Preview(p), Absent, Then("removePaperPreview", p))
  BY <1>2 DEF Fits, Then, Preview
<1> QED BY <1>1, <1>2, <1>3, WriteInOrder DEF RemovePaperPreview

LEMMA SetPaperPreviewInOrder ==
  ASSUME NEW c, NEW l, InOrder(c, l), NEW paper \in PaperModel
  PROVE  InOrder(SetPaperPreview(c, paper), l)
<1> DEFINE n == Write(c, Preview(paper.id), [title |-> paper.title], NoCallback)
<1>1. paper.id \in Papers /\ [title |-> paper.title] \in PaperPreviewModel
  BY DEF PaperModel, PaperPreviewModel
<1>2. Preview(paper.id) \in Docs /\ [title |-> paper.title] \in ValuesOf(Preview(paper.id))
  BY <1>1, PreviewValue
<1>3. NoCallback \in ThenType
  BY ThenTyped DEF NoCallback, OpNames
<1>4. InOrder(n, l)
  <2>1. Fits(Preview(paper.id), [title |-> paper.title], NoCallback)
    BY <1>2 DEF Fits, NoCallback, Then
  <2> QED BY <1>2, <1>3, <2>1, WriteInOrder
<1> HIDE DEF n
<1>5. InOrder(Listen(n, Preview(paper.id)), l)
  BY <1>2, <1>4, ListenInOrder
<1> QED BY <1>5 DEF SetPaperPreview, n

LEMMA UsersPaperIdInOrder ==
  ASSUME NEW c, NEW l, InOrder(c, l), StateTyped, NEW d \in Devices, NEW p \in Papers
  PROVE  /\ InOrder(AddUsersPaperId(c, d, p), l)
         /\ InOrder(RemoveUsersPaperId(c, d, p), l)
<1>1. CASE email[d] = Absent
  BY <1>1 DEF AddUsersPaperId, RemoveUsersPaperId
<1>2. CASE email[d] # Absent
  <2>1. User(email[d]) \in Docs
    BY <1>2, ListValue DEF StateTyped
  <2>2. Then("addUsersPaperId", p) \in ThenType /\ Then("removeUsersPaperId", p) \in ThenType
    BY ThenTyped DEF OpNames
  <2>3. \A v \in ValuesOf(User(email[d])) :
          /\ Fits(User(email[d]), v, Then("addUsersPaperId", p))
          /\ Fits(User(email[d]), v, Then("removeUsersPaperId", p))
    BY DEF Fits, Then, User
  <2> QED BY <1>2, <2>1, <2>2, <2>3, GetInOrder DEF AddUsersPaperId, RemoveUsersPaperId
<1> QED BY <1>1, <1>2

-----------------------------------------------------------------------------
(* The operations preserve the invariant                                   *)

LEMMA OperationStep ==
  ASSUME IInv, NEW d \in Devices, Operation(d)
  PROVE  IInv'
<1> DEFINE c == client[d]
<1>0. /\ InOrder(c, papers[d]) /\ StateTyped /\ papers[d] \in PreviewList
      /\ client = [client EXCEPT ![d] = c] /\ MaxOps \in Nat
  BY InvariantInOrder, ManagerAssumption
<1>1. subject[d] # Absent => subject[d] \in PaperModel
  BY <1>0 DEF StateTyped
<1>2. ASSUME NEW op, Perform(op) PROVE ops' \in 0..MaxOps
  BY <1>0, <1>2 DEF Perform, StateTyped
<1>3. NoPreviews \in PreviewList /\ \A p \in Papers : NoPreviews[p] \in {papers[d][p], Absent}
  BY DEF NoPreviews, PreviewList
<1> HIDE DEF c
<1>4. ASSUME NEW p \in Papers, FetchPaper(d, p) PROVE IInv'
  <2>1. InOrder(Listen(c, Paper(p)), papers[d])
    BY <1>0, ListenInOrder DEF Docs, PaperDocs
  <2>2. StateTyped'
    BY <1>0, <1>2, <1>4 DEF FetchPaper, StateTyped
  <2> QED BY <1>4, <2>1, <2>2, ClientStep DEF FetchPaper, c
<1>5. ASSUME ResetPaper(d) PROVE IInv'
  <2>1. StateTyped'
    BY <1>0, <1>2, <1>5 DEF ResetPaper, StateTyped
  <2>2. client' = [client EXCEPT ![d] = c] /\ UNCHANGED papers
    BY <1>0, <1>5 DEF ResetPaper
  <2> QED BY <1>0, <2>1, <2>2, ClientStep
<1>6. ASSUME NEW p \in Papers, NEW cs \in SUBSET Cards, NEW t \in Titles, AddPaper(d, p, cs, t)
      PROVE  IInv'
  <2> DEFINE paper == [id |-> p, cards |-> cs, title |-> t]
  <2>1. paper \in PaperModel
    BY DEF PaperModel
  <2>2. /\ client' = [client EXCEPT ![d] =
             IF email[d] = Absent THEN c ELSE WritePaper(c, paper, "addPaper")]
        /\ UNCHANGED papers /\ subject' = [subject EXCEPT ![d] = paper]
    BY <1>6 DEF AddPaper, c
  <2> HIDE DEF paper
  <2>3. InOrder(IF email[d] = Absent THEN c ELSE WritePaper(c, paper, "addPaper"), papers[d])
    BY <1>0, <2>1, WritePaperInOrder
  <2>4. StateTyped'
    BY <1>0, <1>2, <1>6, <2>1, <2>2 DEF AddPaper, StateTyped
  <2> QED BY <2>2, <2>3, <2>4, ClientStep
<1>7. ASSUME NEW card \in Cards, AddCard(d, card) PROVE IInv'
  <2> DEFINE paper == [subject[d] EXCEPT !.cards = @ \cup {card}]
  <2>1. paper \in PaperModel
    BY <1>1, <1>7 DEF AddCard, PaperModel
  <2>2. client' = [client EXCEPT ![d] = WritePaper(c, paper, "addCard")] /\ UNCHANGED papers
    BY <1>7 DEF AddCard, c
  <2> HIDE DEF paper
  <2>3. InOrder(WritePaper(c, paper, "addCard"), papers[d])
    BY <1>0, <2>1, WritePaperInOrder
  <2>4. StateTyped'
    BY <1>0, <1>2, <1>7 DEF AddCard, StateTyped
  <2> QED BY <2>2, <2>3, <2>4, ClientStep
<1>8. ASSUME NEW card \in Cards, RemoveCard(d, card) PROVE IInv'
  <2>1. Paper(subject[d].id) \in Docs
    BY <1>1, <1>8, PaperValue DEF RemoveCard
  <2>2. Then("removeCard", card) \in ThenType
    BY ThenTyped DEF OpNames
  <2>3. InOrder(Get(c, Paper(subject[d].id), Then("removeCard", card)), papers[d])
    <3>1. \A v \in ValuesOf(Paper(subject[d].id)) : Fits(Paper(subject[d].id), v, Then("removeCard", card))
      BY DEF Fits, Then, Paper
    <3> QED BY <1>0, <2>1, <2>2, <3>1, GetInOrder
  <2>4. StateTyped'
    BY <1>0, <1>2, <1>8 DEF RemoveCard, StateTyped
  <2> QED BY <1>8, <2>3, <2>4, ClientStep DEF RemoveCard, c
<1>9. ASSUME NEW t \in Titles, UpdatePaper(d, t) PROVE IInv'
  <2> DEFINE paper == [subject[d] EXCEPT !.title = t]
  <2>1. paper \in PaperModel
    BY <1>1, <1>9 DEF UpdatePaper, PaperModel
  <2>2. client' = [client EXCEPT ![d] = WritePaper(c, paper, "updatePaper")] /\ UNCHANGED papers
    BY <1>9 DEF UpdatePaper, c
  <2> HIDE DEF paper
  <2>3. InOrder(WritePaper(c, paper, "updatePaper"), papers[d])
    BY <1>0, <2>1, WritePaperInOrder
  <2>4. StateTyped'
    BY <1>0, <1>2, <1>9 DEF UpdatePaper, StateTyped
  <2> QED BY <2>2, <2>3, <2>4, ClientStep
<1>10. ASSUME NEW card \in Cards, UpdateCard(d, card) PROVE IInv'
  <2>1. InOrder(WritePaper(c, subject[d], "updatePaper"), papers[d])
    BY <1>0, <1>1, <1>10, WritePaperInOrder DEF UpdateCard
  <2>2. StateTyped'
    BY <1>0, <1>2, <1>10 DEF UpdateCard, StateTyped
  <2> QED BY <1>10, <2>1, <2>2, ClientStep DEF UpdateCard, c
<1>11. ASSUME NEW p \in Papers, RemovePaper(d, p) PROVE IInv'
  <2>1. Then("removePaper", p) \in ThenType /\ Paper(p) \in Docs /\ Absent \in ValuesOf(Paper(p))
    BY ThenTyped, AbsentValue DEF OpNames, Docs, PaperDocs
  <2>2. InOrder(Write(c, Paper(p), Absent, Then("removePaper", p)), papers[d])
    <3>1. Fits(Paper(p), Absent, Then("removePaper", p))
      BY <2>1 DEF Fits, Then, Paper
    <3> QED BY <1>0, <2>1, <3>1, WriteInOrder
  <2>3. StateTyped'
    BY <1>0, <1>2, <1>11 DEF RemovePaper, StateTyped
  <2> QED BY <1>11, <2>2, <2>3, ClientStep DEF RemovePaper, c
<1>12. ASSUME NEW g \in Papers, ConvertPaperToGift(d, g) PROVE IInv'
  <2> DEFINE paper == [subject[d] EXCEPT !.id = g]
  <2>1. paper \in PaperModel
    BY <1>1, <1>12 DEF ConvertPaperToGift, PaperModel
  <2>2. /\ client' = [client EXCEPT ![d] = WritePaper(c, paper, "convertPaperToGift")]
        /\ UNCHANGED papers
    BY <1>12 DEF ConvertPaperToGift, c
  <2> HIDE DEF paper
  <2>3. InOrder(WritePaper(c, paper, "convertPaperToGift"), papers[d])
    BY <1>0, <2>1, WritePaperInOrder
  <2>4. StateTyped'
    BY <1>0, <1>2, <1>12 DEF ConvertPaperToGift, StateTyped
  <2> QED BY <2>2, <2>3, <2>4, ClientStep
<1>13. ASSUME NEW u \in Users, ProfileChanged(d, u) PROVE IInv'
  <2>1. InOrder(Listen(c, User(u)), papers[d])
    BY <1>0, ListValue, ListenInOrder
  <2>2. InOrder(Listen(c, User(u)), NoPreviews)
    BY <1>3, <2>1, ForgottenInOrder
  <2>3. StateTyped'
    BY <1>0, <1>2, <1>13 DEF ProfileChanged, StateTyped
  <2> QED BY <1>3, <1>13, <2>2, <2>3, DeviceStep DEF ProfileChanged, c
<1>14. ASSUME ProfileRemoved(d) PROVE IInv'
  <2>1. InOrder(c, NoPreviews)
    BY <1>0, <1>3, ForgottenInOrder
  <2>2. StateTyped'
    BY <1>0, <1>2, <1>14 DEF ProfileRemoved, StateTyped
  <2>3. client' = [client EXCEPT ![d] = c] /\ papers' = [papers EXCEPT ![d] = NoPreviews]
    BY <1>0, <1>14 DEF ProfileRemoved
  <2> QED BY <1>3, <2>1, <2>2, <2>3, DeviceStep
<1>15. ASSUME Restart(d) PROVE IInv'
  <2>1. InOrder(Restarted(c), NoPreviews)
    BY <1>0, RestartedInOrder
  <2>2. StateTyped'
    BY <1>0, <1>2, <1>15 DEF Restart, StateTyped
  <2> QED BY <1>3, <1>15, <2>1, <2>2, DeviceStep DEF Restart, c
<1> QED BY <1>4, <1>5, <1>6, <1>7, <1>8, <1>9, <1>10, <1>11, <1>12, <1>13, <1>14, <1>15
        DEF Operation

-----------------------------------------------------------------------------
(* The callbacks preserve the invariant                                    *)

(* The callback at the head of the queue is well typed.                    *)
LEMMA OldestTyped ==
  ASSUME IInv, NEW d \in Devices, client[d].inbox # << >>
  PROVE  /\ Oldest(d) \in EventType /\ Oldest(d).doc \in Docs
         /\ Oldest(d).val \in ValuesOf(Oldest(d).doc)
         /\ Oldest(d).then \in ThenType
         /\ Fits(Oldest(d).doc, Oldest(d).val, Oldest(d).then)
<1>1. client[d].inbox \in Seq(EventType)
  BY InvariantInOrder, InOrderTyped
<1>2. Oldest(d) \in EventType
  BY <1>1, HeadTailProperties DEF Oldest
<1> QED BY <1>2 DEF EventType, Fits

(* What a document is, by its collection.                                  *)
LEMMA DocumentKinds ==
  ASSUME NEW x \in Docs
  PROVE  /\ x.coll = "papers" =>
              /\ x.id \in Papers /\ x = Paper(x.id)
              /\ \A v \in ValuesOf(x) : v = Absent \/ (v \in PaperModel /\ v.id = x.id)
         /\ x.coll = "paperPreviews" =>
              /\ x.id \in Papers /\ x = Preview(x.id)
              /\ \A v \in ValuesOf(x) : v = Absent \/ v \in PaperPreviewModel
         /\ x.coll = "users" =>
              /\ x.id \in Users /\ x = User(x.id)
              /\ \A v \in ValuesOf(x) : v = Absent \/ v \in PaperIdList
<1>1. ASSUME NEW p \in Papers, x = Paper(p)
      PROVE  /\ x.coll = "papers" /\ x.id = p
             /\ ValuesOf(x) = {Absent} \cup {v \in PaperModel : v.id = p}
  BY <1>1 DEF Paper, ValuesOf
<1>2. ASSUME NEW p \in Papers, x = Preview(p)
      PROVE  /\ x.coll = "paperPreviews" /\ x.id = p
             /\ ValuesOf(x) = {Absent} \cup PaperPreviewModel
  BY <1>2 DEF Preview, ValuesOf
<1>3. ASSUME NEW u \in Users, x = User(u)
      PROVE  /\ x.coll = "users" /\ x.id = u
             /\ ValuesOf(x) = {Absent} \cup PaperIdList
  BY <1>3 DEF User, ValuesOf
<1>4. CASE \E p \in Papers : x = Paper(p)
  <2>1. PICK p \in Papers : x = Paper(p)
    BY <1>4
  <2>2. \A v \in ValuesOf(x) : v = Absent \/ (v \in PaperModel /\ v.id = p)
    <3>1. ValuesOf(x) = {Absent} \cup {v \in PaperModel : v.id = p}
      BY <1>1, <2>1
    <3> QED BY <3>1
  <2>3. x.coll = "papers" /\ x.id = p
    BY <1>1, <2>1
  <2> QED BY ONLY <2>1, <2>2, <2>3, p \in Papers
<1>5. CASE \E p \in Papers : x = Preview(p)
  <2>1. PICK p \in Papers : x = Preview(p)
    BY <1>5
  <2> QED BY <1>2, <2>1
<1>6. CASE \E u \in Users : x = User(u)
  <2>1. PICK u \in Users : x = User(u)
    BY <1>6
  <2> QED BY <1>3, <2>1
<1> QED BY <1>4, <1>5, <1>6 DEF Docs, PaperDocs

(* A callback that is no news of a preview leaves the list as it is.       *)
LEMMA PoppedPast ==
  ASSUME IInv, NEW d \in Devices, client[d].inbox # << >>,
         Oldest(d).type # "snapshot" \/ Oldest(d).doc.coll # "paperPreviews"
  PROVE  InOrder(Popped(d), papers[d])
<1>1. InOrder(client[d], papers[d])
  BY InvariantInOrder
<1>2. Oldest(d).type # "snapshot" \/ \A p \in Papers : Oldest(d).doc # Preview(p)
  BY DEF Preview
<1>3. Absorbed(Head(client[d].inbox), papers[d], papers[d])
  BY <1>2, NothingAbsorbed DEF Oldest
<1> QED BY <1>1, <1>3, PoppedInOrder DEF Popped

LEMMA PaperSnapshotStep ==
  ASSUME IInv, NEW d \in Devices, PaperSnapshot(d) PROVE IInv'
<1> DEFINE p == Oldest(d).doc.id
           v == Oldest(d).val
           gone == RemoveUsersPaperId(RemovePaperPreview(Popped(d), p), d, p)
<1>1. /\ client[d].inbox # << >> /\ Oldest(d).doc.coll = "papers" /\ StateTyped
  BY InvariantInOrder DEF PaperSnapshot, Snapshot, Arrived, Oldest
<1>2. p \in Papers /\ v \in PaperModel \cup {Absent}
  BY <1>1, OldestTyped, DocumentKinds
<1>3. InOrder(Popped(d), papers[d])
  BY <1>1, PoppedPast
<1>4. /\ client' = [client EXCEPT ![d] = IF v = Absent THEN gone ELSE Popped(d)]
      /\ subject' = [subject EXCEPT ![d] = v]
      /\ UNCHANGED <<server, papers, dropped, email, paperObserver, profile, owner, created, ops>>
  BY DEF PaperSnapshot
<1> HIDE DEF p, v
<1>5. InOrder(gone, papers[d])
  BY <1>1, <1>2, <1>3, RemovePaperPreviewInOrder, UsersPaperIdInOrder
<1> HIDE DEF gone
<1>6. InOrder(IF v = Absent THEN gone ELSE Popped(d), papers[d])
  BY <1>3, <1>5
<1>7. StateTyped'
  BY <1>1, <1>2, <1>4 DEF StateTyped
<1> QED BY <1>4, <1>6, <1>7, ClientStep

(* A preview that exists replaces its entry, one that does not is ignored. *)
LEMMA PreviewSnapshotStep ==
  ASSUME IInv, NEW d \in Devices, PreviewSnapshot(d) PROVE IInv'
<1> DEFINE p == Oldest(d).doc.id
           v == Oldest(d).val
           l == IF v = Absent THEN papers[d] ELSE [papers[d] EXCEPT ![p] = v]
           c == IF v = Absent THEN RemoveUsersPaperId(Popped(d), d, p) ELSE Popped(d)
<1>1. /\ client[d].inbox # << >> /\ Oldest(d).type = "snapshot"
      /\ Oldest(d).doc.coll = "paperPreviews" /\ StateTyped
      /\ InOrder(client[d], papers[d]) /\ papers[d] \in PreviewList
      /\ papers \in [Devices -> PreviewList]
  BY InvariantInOrder DEF PreviewSnapshot, Snapshot, Arrived, Oldest
<1>2. p \in Papers /\ v \in PaperPreviewModel \cup {Absent} /\ Oldest(d).doc = Preview(p)
  BY <1>1, OldestTyped, DocumentKinds
<1>3. /\ papers' = IF v = Absent THEN papers ELSE [papers EXCEPT ![d][p] = v]
      /\ client' = [client EXCEPT ![d] = c]
      /\ UNCHANGED <<server, subject, email, paperObserver, profile, owner, created, ops>>
      /\ dropped' = IF v = Absent THEN dropped ELSE [dropped EXCEPT ![d] = @ \ {p}]
  BY DEF PreviewSnapshot
<1>4. Absorbed(Head(client[d].inbox), papers[d], l)
  <2>1. ASSUME NEW q \in Papers
        PROVE  IF Oldest(d).type = "snapshot" /\ Oldest(d).doc = Preview(q) /\ Oldest(d).val # Absent
                 THEN l[q] = Oldest(d).val ELSE l[q] \in {papers[d][q], Absent}
    <3>1. Preview(q) = Preview(p) <=> q = p
      BY DEF Preview
    <3> QED BY <1>1, <1>2, <3>1 DEF PreviewList
  <2> QED BY <2>1 DEF Absorbed, Oldest
<1> HIDE DEF p, v
<1>5. l \in PreviewList /\ papers' = [papers EXCEPT ![d] = l]
  BY <1>1, <1>2, <1>3 DEF PreviewList
<1> HIDE DEF l
<1>6. InOrder(Popped(d), l)
  BY <1>1, <1>4, PoppedInOrder DEF Popped
<1>7. InOrder(c, l)
  BY <1>1, <1>2, <1>6, UsersPaperIdInOrder
<1> HIDE DEF c
<1>8. StateTyped'
  <2>1. dropped' \in [Devices -> SUBSET Papers]
    BY <1>1, <1>3 DEF StateTyped
  <2> QED BY <1>1, <1>3, <2>1 DEF StateTyped
<1> QED BY <1>3, <1>5, <1>7, <1>8, DeviceStep

LEMMA UserSnapshotStep ==
  ASSUME IInv, NEW d \in Devices, UserSnapshot(d) PROVE IInv'
<1> DEFINE ids == IF Oldest(d).val = Absent THEN {} ELSE Oldest(d).val.paperIds
           known == {p \in ids : Known(client[d], Preview(p))}
<1>1. /\ client[d].inbox # << >> /\ Oldest(d).doc.coll = "users" /\ StateTyped
  BY InvariantInOrder DEF UserSnapshot, Snapshot, Arrived, Oldest
<1>2. ids \in SUBSET Papers
  <2>1. Oldest(d).val = Absent \/ Oldest(d).val \in PaperIdList
    BY <1>1, OldestTyped, DocumentKinds
  <2> QED BY <2>1 DEF PaperIdList
<1>3. InOrder(Popped(d), papers[d])
  BY <1>1, PoppedPast
<1>4. PICK list \in ListsOf(known) :
        client' = [client EXCEPT ![d] = FetchPaperPreviews(Popped(d), ids, list)]
  BY DEF UserSnapshot
<1>5. UNCHANGED <<server, appVars>>
  BY DEF UserSnapshot
<1> HIDE DEF ids
<1>6. known = {p \in ids : Known(Popped(d), Preview(p))}
  <2>1. Popped(d).pending = client[d].pending /\ Popped(d).base = client[d].base
    <3>1. client[d] \in ClientType
      BY InvariantInOrder, InOrderTyped
    <3> QED BY <3>1 DEF Popped, ClientType
  <2>2. \A p : View(Popped(d), Preview(p)) = View(client[d], Preview(p))
    BY <2>1, ViewFrame
  <2>3. Popped(d).raised = client[d].raised
    <3>1. client[d] \in ClientType
      BY InvariantInOrder, InOrderTyped
    <3> QED BY <3>1 DEF Popped, ClientType
  <2>4. \A p : Known(Popped(d), Preview(p)) <=> Known(client[d], Preview(p))
    BY <2>2, <2>3 DEF Known
  <2> QED BY <2>4
<1> HIDE DEF known
<1>7. InOrder(FetchPaperPreviews(Popped(d), ids, list), papers[d])
  <2> DEFINE c == Popped(d)
  <2>1. InOrder(c, papers[d]) /\ known = {p \in ids : Known(c, Preview(p))}
    BY <1>3, <1>6
  <2> HIDE DEF c
  <2>2. InOrder(FetchPaperPreviews(c, ids, list), papers[d])
    BY ONLY <1>2, <2>1, list \in ListsOf(known), RaisedInOrder
  <2> QED BY <2>2 DEF c
<1>8. StateTyped'
  BY <1>1, <1>5, SameStateTyped DEF appVars
<1> QED BY <1>4, <1>5, <1>7, <1>8, ClientStep DEF appVars

(* The callbacks whose one effect on the state is on their device's client, *)
(* and those that set the open paper or drop an entry of the list.         *)
LEMMA HandlerStep ==
  ASSUME IInv, NEW d \in Devices,
         \/ AddPaperDone(d) \/ AddCardDone(d) \/ UpdatePaperDone(d)
         \/ ConvertPaperToGiftDone(d) \/ RemovePaperDone(d) \/ RemovePaperPreviewDone(d)
         \/ RemoveCardGot(d) \/ AddUsersPaperIdGot(d) \/ RemoveUsersPaperIdGot(d)
  PROVE  IInv'
<1> DEFINE e == Oldest(d)
           c == Popped(d)
<1>1. client[d].inbox # << >> /\ e.type # "snapshot"
  BY DEF AddPaperDone, AddCardDone, UpdatePaperDone, ConvertPaperToGiftDone,
         RemovePaperDone, RemovePaperPreviewDone, RemoveCardGot, AddUsersPaperIdGot,
         RemoveUsersPaperIdGot, Arrived, Oldest
<1>2. /\ e.doc \in Docs /\ e.val \in ValuesOf(e.doc) /\ e.then \in ThenType
      /\ Fits(e.doc, e.val, e.then)
  BY <1>1, OldestTyped
<1>3. InOrder(c, papers[d]) /\ StateTyped /\ papers[d] \in PreviewList
  BY <1>1, PoppedPast, InvariantInOrder
<1>4. ASSUME e.then.op \in {"addPaper", "addCard", "updatePaper", "convertPaperToGift"}
      PROVE  e.val \in PaperModel /\ e.doc.id \in Papers
  BY <1>2, <1>4, DocumentKinds DEF Fits
<1>5. ASSUME e.then.op \in {"addUsersPaperId", "removeUsersPaperId"}
      PROVE  e.val \in PaperIdList \cup {Absent} /\ e.then.arg \in Papers /\ e.doc.coll = "users"
  BY <1>2, <1>5, DocumentKinds DEF Fits
<1>6. NoCallback \in ThenType /\ \A v \in ValuesOf(e.doc) : Fits(e.doc, v, NoCallback)
  BY ThenTyped DEF NoCallback, OpNames, Fits, Then
<1> HIDE DEF c
<1>7. CASE AddPaperDone(d)
  <2>1. e.val \in PaperModel /\ e.doc.id \in Papers
    BY <1>4, <1>7 DEF AddPaperDone, Arrived, Oldest
  <2>2. InOrder(AddUsersPaperId(SetPaperPreview(c, e.val), d, e.doc.id), papers[d])
    BY <1>3, <2>1, SetPaperPreviewInOrder, UsersPaperIdInOrder
  <2>3. StateTyped'
    BY <1>3, <1>7, SameStateTyped DEF AddPaperDone, appVars
  <2> QED BY <1>7, <2>2, <2>3, ClientStep DEF AddPaperDone, appVars, c
<1>8. CASE AddCardDone(d)
  <2>1. e.val \in PaperModel
    BY <1>4, <1>8 DEF AddCardDone, Arrived, Oldest
  <2>2. StateTyped'
    BY <1>3, <1>8, <2>1 DEF AddCardDone, StateTyped
  <2> QED BY <1>3, <1>8, <2>2, ClientStep DEF AddCardDone, c
<1>9. CASE UpdatePaperDone(d)
  <2>1. e.val \in PaperModel
    BY <1>4, <1>9 DEF UpdatePaperDone, Arrived, Oldest
  <2>2. InOrder(SetPaperPreview(c, e.val), papers[d])
    BY <1>3, <2>1, SetPaperPreviewInOrder
  <2>3. StateTyped'
    BY <1>3, <1>9, SameStateTyped DEF UpdatePaperDone, appVars
  <2> QED BY <1>9, <2>2, <2>3, ClientStep DEF UpdatePaperDone, appVars, c
<1>10. CASE ConvertPaperToGiftDone(d)
  <2>1. e.val \in PaperModel
    BY <1>4, <1>10 DEF ConvertPaperToGiftDone, Arrived, Oldest
  <2>2. InOrder(SetPaperPreview(c, e.val), papers[d])
    BY <1>3, <2>1, SetPaperPreviewInOrder
  <2>3. StateTyped'
    BY <1>3, <1>10, SameStateTyped DEF ConvertPaperToGiftDone, appVars
  <2> QED BY <1>10, <2>2, <2>3, ClientStep DEF ConvertPaperToGiftDone, appVars, c
<1>11. CASE RemovePaperDone(d)
  <2> DEFINE p == e.doc.id
             n == RemoveUsersPaperId(RemovePaperPreview(c, p), d, p)
  <2>1. p \in Papers
    <3>1. e.then.op = "removePaper"
      BY <1>11 DEF RemovePaperDone, Arrived, Oldest
    <3> QED BY <1>2, <3>1, DocumentKinds DEF Fits
  <2>2. client' = [client EXCEPT ![d] = n] /\ UNCHANGED <<server, appVars>>
    BY <1>11 DEF RemovePaperDone, c
  <2> HIDE DEF p
  <2>3. InOrder(n, papers[d])
    BY <1>3, <2>1, RemovePaperPreviewInOrder, UsersPaperIdInOrder
  <2> HIDE DEF n
  <2>4. StateTyped'
    BY <1>3, <2>2, SameStateTyped DEF appVars
  <2> QED BY <2>2, <2>3, <2>4, ClientStep DEF appVars
<1>12. CASE RemovePaperPreviewDone(d)
  <2> DEFINE p == e.doc.id
             l == [papers[d] EXCEPT ![p] = Absent]
  <2>1. /\ papers' = [papers EXCEPT ![d][p] = Absent] /\ client' = [client EXCEPT ![d] = c]
        /\ UNCHANGED <<server, subject, email, paperObserver, profile, owner, created, ops>>
    BY <1>12 DEF RemovePaperPreviewDone, DropEntry, c
  <2>5. p \in Papers
    <3>1. e.then.op = "removePaperPreview"
      BY <1>12 DEF RemovePaperPreviewDone, Arrived, Oldest
    <3> QED BY <1>2, <3>1, DocumentKinds DEF Fits
  <2>6. dropped' \in [Devices -> SUBSET Papers]
    <3>1. dropped' = [dropped EXCEPT ![d] =
             IF View(client[d], Preview(p)) = Absent THEN @ \ {p} ELSE @ \cup {p}]
      BY <1>12 DEF RemovePaperPreviewDone, DropEntry
    <3> QED BY <1>3, <2>5, <3>1 DEF StateTyped
  <2> HIDE DEF p
  <2>2. /\ l \in PreviewList /\ \A q \in Papers : l[q] \in {papers[d][q], Absent}
        /\ papers' = [papers EXCEPT ![d] = l]
    BY <1>3, <2>1, InvariantInOrder DEF PreviewList
  <2> HIDE DEF l
  <2>3. InOrder(c, l)
    BY <1>3, <2>2, ForgottenInOrder
  <2>4. StateTyped'
    BY <1>3, <2>1, <2>6 DEF StateTyped
  <2> QED BY <2>1, <2>2, <2>3, <2>4, DeviceStep
<1>13. CASE RemoveCardGot(d)
  <2> DEFINE paper == [e.val EXCEPT !.cards = @ \ {e.then.arg}]
             n == IF e.val = Absent THEN c ELSE WritePaper(c, paper, "updatePaper")
  <2>1. client' = [client EXCEPT ![d] = n] /\ UNCHANGED <<server, appVars>>
    BY <1>13 DEF RemoveCardGot, c
  <2>2. ASSUME e.val # Absent PROVE paper \in PaperModel
    <3>1. e.then.op = "removeCard"
      BY <1>13 DEF RemoveCardGot, Arrived, Oldest
    <3>2. e.val \in PaperModel
      BY <1>2, <2>2, <3>1, DocumentKinds DEF Fits
    <3> QED BY <3>2 DEF PaperModel
  <2> HIDE DEF paper
  <2>3. InOrder(n, papers[d])
    BY <1>3, <2>2, WritePaperInOrder
  <2> HIDE DEF n
  <2>4. StateTyped'
    BY <1>3, <2>1, SameStateTyped DEF appVars
  <2> QED BY <2>1, <2>3, <2>4, ClientStep DEF appVars
<1>14. CASE AddUsersPaperIdGot(d)
  <2> DEFINE ids == IF e.val = Absent THEN {} ELSE e.val.paperIds
             v == [paperIds |-> ids \cup {e.then.arg}]
  <2>1. client' = [client EXCEPT ![d] = Write(c, e.doc, v, NoCallback)]
        /\ UNCHANGED <<server, appVars>>
    BY <1>14 DEF AddUsersPaperIdGot, c
  <2>2. /\ e.val \in PaperIdList \cup {Absent} /\ e.then.arg \in Papers
        /\ e.doc.coll = "users"
    BY <1>5, <1>14 DEF AddUsersPaperIdGot, Arrived, Oldest
  <2>3. v \in PaperIdList
    BY <2>2 DEF PaperIdList
  <2>4. v \in ValuesOf(e.doc)
    BY <1>2, <2>2, <2>3, DocumentKinds, ListValue
  <2> HIDE DEF v
  <2>5. InOrder(Write(c, e.doc, v, NoCallback), papers[d])
    BY <1>2, <1>3, <1>6, <2>4, WriteInOrder
  <2>6. StateTyped'
    BY <1>3, <2>1, SameStateTyped DEF appVars
  <2> QED BY <2>1, <2>5, <2>6, ClientStep DEF appVars
<1>15. CASE RemoveUsersPaperIdGot(d)
  <2> DEFINE v == [e.val EXCEPT !.paperIds = @ \ {e.then.arg}]
             n == IF e.val = Absent THEN c ELSE Write(c, e.doc, v, NoCallback)
  <2>1. client' = [client EXCEPT ![d] = n] /\ UNCHANGED <<server, appVars>>
    BY <1>15 DEF RemoveUsersPaperIdGot, c
  <2>2. e.val \in PaperIdList \cup {Absent} /\ e.doc.coll = "users"
    BY <1>5, <1>15 DEF RemoveUsersPaperIdGot, Arrived, Oldest
  <2>3. ASSUME e.val # Absent PROVE v \in ValuesOf(e.doc)
    <3>1. v \in PaperIdList
      BY <2>2, <2>3 DEF PaperIdList
    <3> QED BY <1>2, <2>2, <3>1, DocumentKinds, ListValue
  <2> HIDE DEF v
  <2>4. InOrder(n, papers[d])
    BY <1>2, <1>3, <1>6, <2>3, WriteInOrder
  <2> HIDE DEF n
  <2>5. StateTyped'
    BY <1>3, <2>1, SameStateTyped DEF appVars
  <2> QED BY <2>1, <2>4, <2>5, ClientStep DEF appVars
<1> QED BY <1>7, <1>8, <1>9, <1>10, <1>11, <1>12, <1>13, <1>14, <1>15

-----------------------------------------------------------------------------
(* The theorems                                                            *)

LEMMA NextInvariant == IInv /\ [Next]_vars => IInv'
<1> SUFFICES ASSUME IInv, [Next]_vars PROVE IInv'
  OBVIOUS
<1>1. ASSUME NEW d \in Devices, Operation(d) PROVE IInv'
  BY <1>1, OperationStep
<1>2. ASSUME NEW d \in Devices, Callback(d) PROVE IInv'
  BY <1>2, PaperSnapshotStep, PreviewSnapshotStep, UserSnapshotStep, HandlerStep DEF Callback
<1>3. ASSUME NEW d \in Devices, Network(d) PROVE IInv'
  BY <1>3, AcknowledgeStep, RejectStep, AnswerOnlineStep, AnswerOfflineStep, WatchStep,
     OfflineSnapshotStep DEF Network
<1>4. CASE UNCHANGED vars
  <2>1. /\ server' = server /\ client' = client /\ subject' = subject /\ papers' = papers
        /\ dropped' = dropped /\ email' = email /\ paperObserver' = paperObserver /\ profile' = profile
        /\ owner' = owner /\ created' = created /\ ops' = ops
    BY <1>4 DEF vars, appVars
  <2>2. TypeOK'
    BY <2>1, Zenon DEF IInv, TypeOK
  <2>3. ListingTracked'
    BY <2>1, Zenon DEF IInv, ListingTracked
  <2> QED BY <2>2, <2>3 DEF IInv
<1> QED BY <1>1, <1>2, <1>3, <1>4 DEF Next

THEOREM Invariant == Spec => []IInv
BY InitInvariant, NextInvariant, PTL DEF Spec

(* Every document, copy, write and callback holds a value of its document, *)
(* and each closure of FirestoreManager finds the kind of document and of  *)
(* value it was written for, for any number of devices, papers and users.  *)
THEOREM TypeCorrect == Spec => []TypeOK
<1>1. IInv => TypeOK
  BY DEF IInv
<1> QED BY <1>1, Invariant, PTL

(* No preview that a client has seen is lost on its way to the list of     *)
(* fetchPaperPreview, and none overtakes a newer one.                      *)
THEOREM ListingIsTracked == Spec => []ListingTracked
<1>1. IInv => ListingTracked
  BY DEF IInv
<1> QED BY <1>1, Invariant, PTL

(* Where nothing is under way for a preview, an entry of the list is the   *)
(* backend's preview: what fetchPaperPreview's listener is for.            *)
THEOREM ListingIsFresh == Spec => []ListingFresh
<1>1. IInv => ListingFresh
  <2> SUFFICES ASSUME IInv, NEW d \in Devices, NEW p \in Papers, PreviewSettled(d, p),
                      papers[d][p] # Absent, server[Preview(p)] # Absent
               PROVE  papers[d][p] = server[Preview(p)]
    BY DEF ListingFresh
  <2> DEFINE x == Preview(p)
             c == client[d]
  <2>1. Tracked(c, papers[d][p], x) /\ server[x] \in ValuesOf(x)
    BY PreviewValue DEF IInv, TypeOK, ListingTracked
  <2>2. View(c, x) = server[x] /\ x \in c.listening
    BY DEF PreviewSettled, View
  <2>3. server[x] # Absent
    BY <2>1, PreviewValue, ValueKnown
  <2>4. NewsOf(c, x) = {}
    BY DEF PreviewSettled, NewsOf
  <2> QED BY <2>1, <2>2, <2>3, <2>4 DEF Tracked
<1> QED BY <1>1, Invariant, PTL
=============================================================================
