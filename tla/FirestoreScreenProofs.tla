------------------------ MODULE FirestoreScreenProofs ------------------------
(***************************************************************************)
(* Proofs about what FirestoreManager's users see, for any devices,        *)
(* papers, cards, titles and users: the papers of the signed-in user's own *)
(* list are shown once a device is quiet, and the screen of an open paper  *)
(* shows the backend's paper once nothing is under way for it.             *)
(***************************************************************************)
EXTENDS FirestoreManagerProofs

-----------------------------------------------------------------------------
(* A turn of the client                                                    *)

(* The client n has news of y under way, the newest of them what it sees.  *)
Told(n, y) ==
  /\ y \in n.listening
  /\ \E i \in NewsOf(n, y) :
       n.inbox[i].val = View(n, y) /\ \A j \in NewsOf(n, y) : j <= i

(* From c to n, nothing happens to y that a listener of y could notice.    *)
Still(c, n, y) ==
  /\ NewsOf(n, y) = NewsOf(c, y)
  /\ \A i \in NewsOf(c, y) : n.inbox[i] = c.inbox[i]
  /\ y \in n.raised => y \in c.raised
  /\ y \in c.listening => y \in n.listening /\ View(n, y) = View(c, y)

Extends(r, q) == Len(q) <= Len(r) /\ \A i \in 1..Len(q) : r[i] = q[i]

(* Every listener is told what it sees anew, and no callback and no        *)
(* getDocument call is lost.                                               *)
Turn(c, n) ==
  /\ \A y \in Docs : Told(n, y) \/ Still(c, n, y)
  /\ Extends(n.inbox, c.inbox) /\ Extends(n.gets, c.gets)

(* OwnListTracked of one device, whose client is c and whose user is u, if *)
(* any, but for the papers of Q.                                           *)
Followed(c, shown, missing, u, Q) ==
  /\ \A x \in Docs : NewsInStep(c, x)
  /\ u # Absent =>
       /\ u \in Users /\ User(u) \in c.listening
       /\ View(c, User(u)) # Absent /\ NewsOf(c, User(u)) = {} =>
            \A p \in View(c, User(u)).paperIds \ Q :
              Preview(p) \in c.listening /\ Following(c, shown[p], missing, u, p)

LEMMA NewsArePositions ==
  ASSUME NEW c, ClientOK(c), NEW y
  PROVE  /\ Len(c.inbox) \in Nat /\ Len(c.gets) \in Nat
         /\ NewsOf(c, y) \subseteq 1..Len(c.inbox)
BY LenProperties DEF ClientOK, ClientType, NewsOf

(* What a client sees of a user's list names papers.                       *)
LEMMA ListedArePapers ==
  ASSUME NEW c, ClientOK(c), NEW u \in Users, View(c, User(u)) # Absent
  PROVE  View(c, User(u)).paperIds \subseteq Papers
<1>1. View(c, User(u)) \in ValuesOf(User(u))
  BY ListValue, ViewType
<1>2. ValuesOf(User(u)) = {Absent} \cup PaperIdList
  BY DEF User, ValuesOf
<1> QED BY <1>1, <1>2 DEF PaperIdList

(* News that are told or still are in step.                                *)
LEMMA NewsStayInStep ==
  ASSUME NEW c, NEW n, ClientOK(c), ClientOK(n), NEW y \in Docs,
         NewsInStep(c, y), Told(n, y) \/ Still(c, n, y)
  PROVE  NewsInStep(n, y)
<1>1. CASE Told(n, y)
  <2>1. PICK i \in NewsOf(n, y) :
          n.inbox[i].val = View(n, y) /\ \A j \in NewsOf(n, y) : j <= i
    BY <1>1 DEF Told
  <2>2. ASSUME NEW h \in NewsOf(n, y), \A j \in NewsOf(n, y) : j <= h
        PROVE  n.inbox[h].val = View(n, y)
    <3>1. h = i
      BY <2>1, <2>2, NewsArePositions
    <3> QED BY <2>1, <3>1
  <2> QED BY <1>1, <2>2 DEF Told, NewsInStep
<1>2. CASE Still(c, n, y)
  BY <1>2 DEF Still, NewsInStep
<1> QED BY <1>1, <1>2

(* A turn after which a removal of a paper from the list is still under    *)
(* way, if there is a list, keeps the user's papers followed.              *)
LEMMA StepFollowed ==
  ASSUME NEW c, NEW n, ClientOK(c), ClientOK(n), NEW l, NEW m, NEW u, NEW Q,
         Followed(c, l, m, u, Q),
         \A y \in Docs : Told(n, y) \/ Still(c, n, y),
         \A p \in Papers :
           RemovalUnderWay(c, u, p) => RemovalUnderWay(n, u, p) \/ View(n, User(u)) = Absent
  PROVE  Followed(n, l, m, u, Q)
<1>1. \A y \in Docs : NewsInStep(n, y)
  BY NewsStayInStep DEF Followed
<1>2. ASSUME u # Absent
      PROVE  /\ u \in Users /\ User(u) \in n.listening
             /\ View(n, User(u)) # Absent /\ NewsOf(n, User(u)) = {} =>
                  \A p \in View(n, User(u)).paperIds \ Q :
                    Preview(p) \in n.listening /\ Following(n, l[p], m, u, p)
  <2>1. u \in Users /\ User(u) \in c.listening /\ User(u) \in Docs
    BY <1>2, ListValue DEF Followed
  <2>2. User(u) \in n.listening
    BY <2>1 DEF Told, Still
  <2>3. ASSUME View(n, User(u)) # Absent, NewsOf(n, User(u)) = {},
               NEW p \in View(n, User(u)).paperIds \ Q
        PROVE  Preview(p) \in n.listening /\ Following(n, l[p], m, u, p)
    <3>1. Still(c, n, User(u))
      BY <2>1, <2>3 DEF Told
    <3>2. View(n, User(u)) = View(c, User(u)) /\ NewsOf(c, User(u)) = {}
      BY <2>1, <2>3, <3>1 DEF Still
    <3>3. p \in Papers /\ Preview(p) \in Docs
      BY <2>1, <2>3, ListedArePapers, PreviewValue
    <3>4. Preview(p) \in c.listening /\ Following(c, l[p], m, u, p)
      BY <1>2, <2>3, <3>2 DEF Followed
    <3>5. RemovalUnderWay(c, u, p) => RemovalUnderWay(n, u, p)
      BY <2>3, <3>3
    <3>6. CASE Told(n, Preview(p))
      BY <3>6 DEF Told, Following
    <3>7. CASE Still(c, n, Preview(p))
      BY <3>4, <3>5, <3>7 DEF Still, Following
    <3> QED BY <3>3, <3>6, <3>7
  <2> QED BY <2>1, <2>2, <2>3
<1> QED BY <1>1, <1>2 DEF Followed

(* Nothing that is under way is lost in a turn.                            *)
LEMMA TurnFollowed ==
  ASSUME NEW c, NEW n, ClientOK(c), ClientOK(n), NEW l, NEW m, NEW u, NEW Q,
         Followed(c, l, m, u, Q), Turn(c, n)
  PROVE  Followed(n, l, m, u, Q)
<1>1. ASSUME NEW p \in Papers, RemovalUnderWay(c, u, p)
      PROVE  RemovalUnderWay(n, u, p)
  <2>0. /\ Len(c.inbox) \in Nat /\ Len(c.gets) \in Nat
        /\ Len(n.inbox) \in Nat /\ Len(n.gets) \in Nat
    BY NewsArePositions
  <2>1. /\ \A i \in 1..Len(c.gets) : i \in 1..Len(n.gets) /\ n.gets[i] = c.gets[i]
        /\ \A i \in 1..Len(c.inbox) : i \in 1..Len(n.inbox) /\ n.inbox[i] = c.inbox[i]
    BY <2>0 DEF Turn, Extends
  <2> QED BY <1>1, <2>1, Zenon DEF RemovalUnderWay
<1> QED BY <1>1, StepFollowed DEF Turn

LEMMA ExtendsItself == ASSUME NEW q, Len(q) \in Nat PROVE Extends(q, q)
BY DEF Extends

LEMMA ExtendsAppended ==
  ASSUME NEW S, NEW q \in Seq(S), NEW e \in S
  PROVE  Extends(Append(q, e), q)
BY AppendProperties, LenProperties DEF Extends

(* A turn that puts no news on the queue, and changes no view that is      *)
(* listened to.                                                            *)
LEMMA SilentTurn ==
  ASSUME NEW c, NEW n, ClientOK(c), ClientOK(n),
         Extends(n.gets, c.gets), n.inbox = c.inbox, n.raised = c.raised,
         c.listening \subseteq n.listening,
         \A y \in Docs : y \in c.listening => View(n, y) = View(c, y)
  PROVE  Turn(c, n)
<1>1. \A y : NewsOf(n, y) = NewsOf(c, y)
  BY DEF NewsOf
<1>2. Extends(n.inbox, c.inbox)
  BY NewsArePositions, ExtendsItself
<1> QED BY <1>1, <1>2 DEF Turn, Still

(* An event that is no news is queued.                                     *)
LEMMA PostTurn ==
  ASSUME NEW c, ClientOK(c), NEW e \in EventType, e.type # "snapshot"
  PROVE  Turn(c, Post(c, e)) /\ Post(c, e).raised = c.raised
<1> DEFINE n == Post(c, e)
           k == Len(c.inbox)
<1>1. /\ ClientOK(n) /\ n.pending = c.pending /\ n.base = c.base
      /\ n.listening = c.listening /\ n.gets = c.gets /\ n.inbox = Append(c.inbox, e)
  BY PostEffect
<1>2. n.raised = c.raised
  BY DEF Post, ClientOK, ClientType
<1>3. c.inbox \in Seq(EventType)
  BY DEF ClientOK, ClientType
<1> HIDE DEF n
<1>4. /\ k \in Nat /\ Len(n.inbox) = k + 1 /\ n.inbox[k + 1] = e
      /\ \A i \in 1..k : n.inbox[i] = c.inbox[i]
  BY <1>1, <1>3, AppendProperties, LenProperties
<1>5. \A y : NewsOf(n, y) = NewsOf(c, y) /\ \A i \in NewsOf(c, y) : n.inbox[i] = c.inbox[i]
  BY <1>4 DEF NewsOf
<1>6. \A y : View(n, y) = View(c, y)
  BY <1>1, ViewFrame
<1>7. Extends(n.inbox, c.inbox) /\ Extends(n.gets, c.gets)
  BY <1>1, <1>3, ExtendsAppended, NewsArePositions, ExtendsItself
<1> QED BY <1>1, <1>2, <1>5, <1>6, <1>7 DEF Turn, Still, n

(* A change to m that only x's view may notice, followed by news of x.     *)
LEMMA PostSnapshotTurn ==
  ASSUME NEW c, NEW m, ClientOK(c), ClientOK(m), NEW x \in Docs,
         m.inbox = c.inbox, m.gets = c.gets, m.raised = c.raised,
         c.listening \subseteq m.listening, x \in m.listening,
         \A y \in Docs : y # x => View(m, y) = View(c, y)
  PROVE  /\ Turn(c, PostSnapshot(m, x, View(m, x)))
         /\ NewsOf(PostSnapshot(m, x, View(m, x)), x) # {}
         /\ PostSnapshot(m, x, View(m, x)).listening = m.listening
<1> DEFINE r == [m EXCEPT !.raised = @ \cup {x}]
           e == Event("snapshot", x, View(m, x), NoCallback)
           n == Post(r, e)
           k == Len(c.inbox)
<1>1. e \in EventType /\ e.type = "snapshot" /\ e.doc = x /\ e.val = View(m, x)
  BY ViewType, SnapshotType DEF Event
<1>2. /\ r \in ClientType
      /\ r.pending = m.pending /\ r.base = m.base /\ r.listening = m.listening
      /\ r.inbox = m.inbox /\ r.gets = m.gets /\ r.raised = m.raised \cup {x}
  BY DEF ClientOK, ClientType
<1> HIDE DEF r, e
<1>3. ClientOK(r)
  BY <1>2 DEF ClientOK
<1>4. /\ ClientOK(n) /\ n.pending = r.pending /\ n.base = r.base
      /\ n.listening = r.listening /\ n.gets = r.gets /\ n.inbox = Append(r.inbox, e)
  BY <1>1, <1>3, PostEffect
<1>5. n.raised = r.raised
  BY <1>2 DEF Post, ClientType
<1>6. c.inbox \in Seq(EventType)
  BY DEF ClientOK, ClientType
<1> HIDE DEF n
<1>7. /\ k \in Nat /\ Len(n.inbox) = k + 1 /\ n.inbox[k + 1] = e
      /\ \A i \in 1..k : n.inbox[i] = c.inbox[i]
  BY <1>1, <1>2, <1>4, <1>6, AppendProperties, LenProperties
<1> HIDE DEF k
<1>8. ASSUME NEW y \in Docs, y # x PROVE Still(c, n, y)
  <2>1. NewsOf(n, y) = NewsOf(c, y) /\ \A i \in NewsOf(c, y) : n.inbox[i] = c.inbox[i]
    BY <1>1, <1>7, <1>8 DEF NewsOf, k
  <2>2. View(n, y) = View(c, y)
    <3>1. View(n, y) = View(m, y)
      BY <1>2, <1>4, ViewFrame
    <3> QED BY <1>8, <3>1
  <2> QED BY <1>2, <1>4, <1>5, <1>8, <2>1, <2>2 DEF Still
<1>9. Told(n, x)
  <2>1. k + 1 \in NewsOf(n, x) /\ NewsOf(n, x) \subseteq 1..(k + 1)
    BY <1>1, <1>7 DEF NewsOf
  <2>2. \A j \in NewsOf(n, x) : j <= k + 1
    BY <1>7, <2>1
  <2>3. View(n, x) = View(m, x)
    BY <1>2, <1>4, ViewFrame
  <2> QED BY <1>1, <1>2, <1>4, <1>7, <2>1, <2>2, <2>3 DEF Told
<1>10. Extends(n.inbox, c.inbox) /\ Extends(n.gets, c.gets)
  BY <1>1, <1>2, <1>4, <1>6, ExtendsAppended, NewsArePositions, ExtendsItself
<1>11. Turn(c, n) /\ NewsOf(n, x) # {} /\ n.listening = m.listening
  BY <1>2, <1>4, <1>8, <1>9, <1>10 DEF Turn, Told
<1> QED BY <1>11 DEF PostSnapshot, n, r, e

LEMMA NotifyTurn ==
  ASSUME NEW c, NEW m, ClientOK(c), ClientOK(m), NEW x \in Docs,
         m.inbox = c.inbox, m.gets = c.gets, m.raised = c.raised,
         m.listening = c.listening,
         \A y \in Docs : y # x => View(m, y) = View(c, y)
  PROVE  Turn(c, Notify(c, m, x))
<1>1. CASE x \in m.listening /\ View(m, x) # View(c, x)
  BY <1>1, PostSnapshotTurn DEF Notify
<1>2. CASE ~(x \in m.listening /\ View(m, x) # View(c, x))
  <2>1. Notify(c, m, x) = m
    BY <1>2 DEF Notify
  <2>2. Extends(m.gets, c.gets)
    BY NewsArePositions, ExtendsItself
  <2> QED BY <1>2, <2>1, <2>2, SilentTurn
<1> QED BY <1>1, <1>2

-----------------------------------------------------------------------------
(* The client's operators are turns                                        *)

LEMMA WriteTurn ==
  ASSUME NEW c, ClientOK(c), NEW x \in Docs, NEW v \in ValuesOf(x),
         NEW t \in ThenType, Fits(x, v, t)
  PROVE  /\ Turn(c, Write(c, x, v, t))
         /\ View(Write(c, x, v, t), x) = v
<1> DEFINE w == [doc |-> x, val |-> v, then |-> t]
           m == [c EXCEPT !.pending = Append(@, w)]
<1>1. w \in WriteType /\ w.doc = x /\ w.val = v
  BY ValueKnown DEF WriteType
<1>2. Write(c, x, v, t) = Notify(c, m, x)
  BY DEF Write
<1> HIDE DEF w
<1>3. Append(c.pending, w) \in Seq(WriteType) /\ c.pending \in Seq(WriteType)
  BY <1>1, AppendProperties DEF ClientOK, ClientType
<1>4. /\ m \in ClientType
      /\ m.pending = Append(c.pending, w) /\ m.base = c.base /\ m.raised = c.raised
      /\ m.listening = c.listening /\ m.inbox = c.inbox /\ m.gets = c.gets
  BY <1>3 DEF ClientOK, ClientType
<1> HIDE DEF m
<1>5. ClientOK(m)
  BY <1>4 DEF ClientOK
<1>6. View(m, x) = v /\ \A y : y # x => View(m, y) = View(c, y)
  <2>1. \A y : View(m, y) = IF w.doc = y THEN w.val ELSE View(c, y)
    BY ONLY <1>1, <1>3, <1>4, ViewAfterAppend
  <2> QED BY <1>1, <2>1
<1>7. Turn(c, Notify(c, m, x))
  BY <1>4, <1>5, <1>6, NotifyTurn
<1>8. View(Notify(c, m, x), x) = View(m, x)
  <2> DEFINE e == Event("snapshot", x, View(m, x), NoCallback)
             r == [m EXCEPT !.raised = @ \cup {x}]
  <2>1. Notify(c, m, x) \in {m, Post(r, e)}
    BY DEF Notify, PostSnapshot
  <2> HIDE DEF e
  <2>2. Post(r, e).pending = m.pending /\ Post(r, e).base = m.base
    BY <1>4 DEF Post, ClientType
  <2> HIDE DEF r
  <2>3. View(Post(r, e), x) = View(m, x)
    BY <2>2, ViewFrame
  <2> QED BY <2>1, <2>3
<1> QED BY <1>2, <1>6, <1>7, <1>8

LEMMA ReceivedTurn ==
  ASSUME NEW c, ClientOK(c), NEW x \in Docs, server[x] \in ValuesOf(x)
  PROVE  Turn(c, Received(c, x))
<1> DEFINE m == [c EXCEPT !.base[x] = server[x]]
<1>1. Received(c, x) = IF x \in c.listening \ c.raised THEN PostSnapshot(m, x, View(m, x))
                       ELSE Notify(c, m, x)
  BY DEF Received
<1>2. server[x] \in Value /\ c \in ClientType /\ c.base \in [Docs -> Value]
  BY ValueKnown DEF ClientOK, ClientType
<1>3. /\ m \in ClientType /\ m.raised = c.raised /\ m.gets = c.gets
      /\ m.pending = c.pending /\ m.base = [c.base EXCEPT ![x] = server[x]]
      /\ m.listening = c.listening /\ m.inbox = c.inbox
  BY <1>2 DEF ClientType
<1> HIDE DEF m
<1>4. ClientOK(m)
  BY <1>2, <1>3 DEF ClientOK
<1>5. ASSUME NEW y \in Docs, y # x PROVE View(m, y) = View(c, y)
  <2>1. m.base[y] = c.base[y]
    BY <1>2, <1>3, <1>5
  <2> QED BY <1>3, <2>1, ViewFrame
<1>6. Turn(c, Notify(c, m, x))
  BY <1>3, <1>4, <1>5, NotifyTurn
<1>7. CASE x \in c.listening \ c.raised
  BY <1>1, <1>3, <1>4, <1>5, <1>7, PostSnapshotTurn
<1> QED BY <1>1, <1>6, <1>7

LEMMA GetTurn ==
  ASSUME NEW c, ClientOK(c), NEW x \in Docs, NEW t \in ThenType,
         \A v \in ValuesOf(x) : Fits(x, v, t)
  PROVE  LET n == Get(c, x, t)
         IN  /\ Turn(c, n)
             /\ n.pending = c.pending /\ n.base = c.base /\ n.listening = c.listening
             /\ n.inbox = c.inbox /\ n.raised = c.raised
             /\ \E i \in 1..Len(n.gets) : n.gets[i].doc = x /\ n.gets[i].then = t
<1> DEFINE g == [doc |-> x, then |-> t]
           n == Get(c, x, t)
<1>1. g \in GetType /\ g.doc = x /\ g.then = t
  BY DEF GetType
<1>2. c.gets \in Seq(GetType) /\ c \in ClientType
  BY DEF ClientOK, ClientType
<1>3. n = [c EXCEPT !.gets = Append(@, g)]
  BY DEF Get
<1> HIDE DEF g
<1>4. Append(c.gets, g) \in Seq(GetType)
  BY <1>1, <1>2, AppendProperties
<1>5. /\ n \in ClientType /\ n.gets = Append(c.gets, g)
      /\ n.pending = c.pending /\ n.base = c.base /\ n.listening = c.listening
      /\ n.inbox = c.inbox /\ n.raised = c.raised
  BY <1>2, <1>3, <1>4 DEF ClientType
<1> HIDE DEF n
<1>6. ClientOK(n)
  BY <1>5 DEF ClientOK
<1>7. Extends(n.gets, c.gets)
  BY <1>1, <1>2, <1>5, ExtendsAppended
<1>8. Turn(c, n)
  BY <1>5, <1>6, <1>7, ViewFrame, SilentTurn
<1>9. \E i \in 1..Len(n.gets) : n.gets[i].doc = x /\ n.gets[i].then = t
  <2>1. /\ Len(c.gets) \in Nat /\ Len(n.gets) = Len(c.gets) + 1
        /\ n.gets[Len(c.gets) + 1] = g
    BY <1>1, <1>2, <1>5, AppendProperties, LenProperties
  <2>2. Len(c.gets) + 1 \in 1..Len(n.gets)
    BY <2>1
  <2> QED BY <1>1, <2>1, <2>2
<1> QED BY <1>5, <1>8, <1>9 DEF n

(* A listener is registered, and told at once if the document is known.    *)
LEMMA ListenTurn ==
  ASSUME NEW c, ClientOK(c), NEW x \in Docs
  PROVE  LET n == Listen(c, x)
         IN  /\ Turn(c, n)
             /\ x \in n.listening
             /\ NewsOf(n, x) = {} => View(n, x) = Absent
<1> DEFINE m == [c EXCEPT !.listening = @ \cup {x}]
<1>1. /\ m \in ClientType /\ m.raised = c.raised /\ m.gets = c.gets
      /\ m.pending = c.pending /\ m.base = c.base
      /\ m.listening = c.listening \cup {x} /\ m.inbox = c.inbox
  BY DEF ClientOK, ClientType
<1>2. Listen(c, x) = IF Known(c, x) THEN PostSnapshot(m, x, View(c, x)) ELSE m
  BY DEF Listen
<1> HIDE DEF m
<1>3. ClientOK(m)
  BY <1>1 DEF ClientOK
<1>4. \A y : View(m, y) = View(c, y)
  BY <1>1, ViewFrame
<1>5. CASE ~Known(c, x)
  <2>1. Extends(m.gets, c.gets)
    BY <1>1, NewsArePositions, ExtendsItself
  <2>2. Turn(c, m)
    BY <1>1, <1>3, <1>4, <2>1, SilentTurn
  <2>3. Listen(c, x) = m /\ View(m, x) = Absent
    BY <1>2, <1>4, <1>5 DEF Known
  <2> QED BY <1>1, <2>2, <2>3
<1>6. CASE Known(c, x)
  <2> DEFINE n == PostSnapshot(m, x, View(m, x))
  <2>1. Turn(c, n) /\ NewsOf(n, x) # {} /\ n.listening = m.listening
    BY <1>1, <1>3, <1>4, PostSnapshotTurn
  <2>2. Listen(c, x) = n
    BY <1>2, <1>4, <1>6
  <2> HIDE DEF n
  <2> QED BY <1>1, <2>1, <2>2
<1> QED BY <1>5, <1>6

LEMMA AcknowledgedTurn ==
  ASSUME NEW c, ClientOK(c), c.pending # << >>,
         NEW n, n = [c EXCEPT !.pending = Tail(@), !.base[Head(c.pending).doc] = Head(c.pending).val]
  PROVE  Turn(c, n) /\ ClientOK(n)
<1> DEFINE w == Head(c.pending)
<1>0. /\ c \in ClientType /\ c.pending \in Seq(WriteType)
      /\ c.base \in [Docs -> Value]
  BY DEF ClientOK, ClientType
<1>1. w \in WriteType /\ Tail(c.pending) \in Seq(WriteType)
  BY <1>0, HeadTailProperties
<1>2. /\ n \in ClientType /\ n.raised = c.raised /\ n.gets = c.gets
      /\ n.pending = Tail(c.pending) /\ n.base = [c.base EXCEPT ![w.doc] = w.val]
      /\ n.listening = c.listening /\ n.inbox = c.inbox
  BY <1>0, <1>1 DEF ClientType, WriteType
<1>3. ASSUME NEW y \in Docs
      PROVE  /\ n.base[y] = IF y = w.doc THEN w.val ELSE c.base[y]
             /\ n.base[y] \in ValuesOf(y)
  BY <1>0, <1>1, <1>2 DEF ClientOK, WriteType, Fits
<1>4. ClientOK(n)
  BY <1>2, <1>3 DEF ClientOK
<1>5. ASSUME NEW y \in Docs PROVE View(n, y) = View(c, y)
  <2>0. c.pending \in Seq(WriteType) /\ n.pending = Tail(c.pending)
    BY <1>0, <1>2
  <2>1. /\ PendingOn(n, y) # {} => View(n, y) = View(c, y)
        /\ PendingOn(n, y) = {} =>
             /\ View(n, y) = n.base[y]
             /\ View(c, y) = IF Head(c.pending).doc = y THEN Head(c.pending).val
                             ELSE c.base[y]
    BY ONLY c.pending # << >>, <2>0, ViewAfterTail
  <2> QED BY <1>3, <2>1
<1>6. Extends(n.gets, c.gets)
  BY <1>2, NewsArePositions, ExtendsItself
<1> QED BY <1>2, <1>4, <1>5, <1>6, SilentTurn

LEMMA RejectedTurn ==
  ASSUME NEW c, ClientOK(c), c.pending # << >>,
         NEW x, x = Head(c.pending).doc, NEW m, m = [c EXCEPT !.pending = Tail(@)]
  PROVE  Turn(c, Notify(c, m, x))
<1>0. c \in ClientType /\ c.pending \in Seq(WriteType)
  BY DEF ClientOK, ClientType
<1>1. x \in Docs /\ Tail(c.pending) \in Seq(WriteType)
  <2>1. Head(c.pending) \in WriteType /\ Tail(c.pending) \in Seq(WriteType)
    BY <1>0, HeadTailProperties
  <2> QED BY <2>1 DEF WriteType
<1>2. /\ m \in ClientType /\ m.raised = c.raised /\ m.gets = c.gets
      /\ m.pending = Tail(c.pending) /\ m.base = c.base
      /\ m.listening = c.listening /\ m.inbox = c.inbox
  BY <1>0, <1>1 DEF ClientType
<1>3. ClientOK(m)
  BY <1>2 DEF ClientOK
<1>4. ASSUME NEW y \in Docs, y # x PROVE View(m, y) = View(c, y)
  <2>1. /\ PendingOn(m, y) # {} => View(m, y) = View(c, y)
        /\ PendingOn(m, y) = {} =>
             /\ View(m, y) = m.base[y]
             /\ View(c, y) = IF Head(c.pending).doc = y THEN Head(c.pending).val
                             ELSE c.base[y]
    BY ONLY c.pending # << >>, <1>0, <1>2, ViewAfterTail
  <2> QED BY <1>2, <1>4, <2>1
<1> QED BY <1>1, <1>2, <1>3, <1>4, NotifyTurn

(* A call that is answered with what the client sees stays a removal under *)
(* way, unless there is no list to remove anything from.                   *)
LEMMA AnswerFollowed ==
  ASSUME NEW c, NEW k, InOrder(c, k), NEW i \in 1..Len(c.gets),
         NEW v, v = View(c, c.gets[i].doc),
         NEW l, NEW m, NEW u, NEW Q, Followed(c, l, m, u, Q)
  PROVE  Followed(Answer(c, i, v), l, m, u, Q)
<1> DEFINE g == c.gets[i]
           rest == [j \in 1..(Len(c.gets) - 1) |-> c.gets[IF j < i THEN j ELSE j + 1]]
           r == [c EXCEPT !.gets = rest]
           e == Event("got", g.doc, v, g.then)
           n == Answer(c, i, v)
<1>0. ClientOK(c) /\ c \in ClientType /\ c.gets \in Seq(GetType) /\ Len(c.gets) \in Nat
  BY InOrderTyped, LenProperties
<1>1. /\ g.doc \in Docs /\ v \in ValuesOf(g.doc) /\ InOrder(n, k)
  BY <1>0, AnswerInOrder, ViewType
<1>2. ClientOK(n)
  BY <1>1, InOrderTyped
<1>3. \A j \in 1..Len(c.gets) : c.gets[j] \in GetType
  BY <1>0, ElementOfSeq
<1>4. rest \in Seq(GetType) /\ Len(rest) = Len(c.gets) - 1
  <2>1. Len(c.gets) - 1 \in Nat
    BY <1>0
  <2>2. \A j \in 1..(Len(c.gets) - 1) : (IF j < i THEN j ELSE j + 1) \in 1..Len(c.gets)
    BY <1>0
  <2>3. \A j \in 1..(Len(c.gets) - 1) : c.gets[IF j < i THEN j ELSE j + 1] \in GetType
    BY <1>3, <2>2
  <2> QED BY <2>1, <2>3, IsASeq, LenProperties
<1>5. g \in GetType
  BY <1>3
<1>6. /\ n = Post(r, e) /\ r.gets = rest /\ r.inbox = c.inbox /\ r.pending = c.pending
      /\ r.base = c.base /\ r.listening = c.listening /\ r.raised = c.raised
      /\ r \in ClientType
  BY <1>0, <1>4 DEF Answer, ClientType
<1>7. e \in EventType /\ e.type = "got" /\ e.doc = g.doc /\ e.val = v /\ e.then = g.then
  <2>1. g.then \in ThenType /\ Fits(g.doc, v, g.then)
    BY <1>1, <1>5 DEF GetType
  <2> QED BY <1>1, <2>1, EventTyped DEF Event
<1>8. \A j \in 1..Len(c.gets) : j # i => \E h \in 1..Len(rest) : rest[h] = c.gets[j]
  <2> SUFFICES ASSUME NEW j \in 1..Len(c.gets), j # i
               PROVE  \E h \in 1..Len(rest) : rest[h] = c.gets[j]
    OBVIOUS
  <2> DEFINE h == IF j < i THEN j ELSE j - 1
  <2>1. h \in 1..(Len(c.gets) - 1) /\ (IF h < i THEN h ELSE h + 1) = j
    BY <1>0
  <2>2. rest[h] = c.gets[j]
    BY <2>1
  <2> HIDE DEF h, rest
  <2> QED BY <1>4, <2>1, <2>2
<1> HIDE DEF g, rest, r, e, n
<1>9. ClientOK(r)
  BY <1>0, <1>6 DEF ClientOK
<1>10. /\ Turn(r, n) /\ n.gets = rest /\ n.inbox = Append(c.inbox, e)
       /\ n.pending = c.pending /\ n.base = c.base
  BY <1>6, <1>7, <1>9, PostTurn, PostEffect
<1>11. \A y : NewsOf(r, y) = NewsOf(c, y) /\ View(r, y) = View(c, y)
  BY <1>6, ViewFrame DEF NewsOf
<1>12. \A y \in Docs : Told(n, y) \/ Still(c, n, y)
  BY <1>6, <1>10, <1>11 DEF Turn, Still
<1>13. /\ Len(c.inbox) + 1 \in 1..Len(n.inbox) /\ n.inbox[Len(c.inbox) + 1] = e
       /\ \A j \in 1..Len(c.inbox) : j \in 1..Len(n.inbox) /\ n.inbox[j] = c.inbox[j]
  <2>1. c.inbox \in Seq(EventType)
    BY InOrderTyped
  <2>2. /\ Len(c.inbox) \in Nat /\ Len(n.inbox) = Len(c.inbox) + 1
        /\ n.inbox[Len(c.inbox) + 1] = e
        /\ \A j \in 1..Len(c.inbox) : n.inbox[j] = c.inbox[j]
    BY <1>7, <1>10, <2>1, AppendProperties, LenProperties
  <2> QED BY <2>2
<1>14. ASSUME NEW p \in Papers, RemovalUnderWay(c, u, p), View(n, User(u)) # Absent
       PROVE  RemovalUnderWay(n, u, p)
  <2> DEFINE t == Then("removeUsersPaperId", p)
  <2>1. CASE \E j \in 1..Len(c.gets) : c.gets[j].doc = User(u) /\ c.gets[j].then = t
    <3>1. PICK j \in 1..Len(c.gets) : c.gets[j].doc = User(u) /\ c.gets[j].then = t
      BY <2>1
    <3>2. CASE j = i
      <4>1. View(n, User(u)) = View(c, User(u))
        BY <1>10, ViewFrame
      <4>2. e.type = "got" /\ e.doc = User(u) /\ e.then = t /\ e.val # Absent
        BY <1>7, <1>14, <3>1, <3>2, <4>1 DEF g
      <4> QED BY <1>13, <4>2, Zenon DEF RemovalUnderWay
    <3>3. CASE j # i
      <4>1. \E h \in 1..Len(n.gets) : n.gets[h].doc = User(u) /\ n.gets[h].then = t
        BY <1>8, <1>10, <3>1, <3>3
      <4> QED BY <4>1, Zenon DEF RemovalUnderWay
    <3> QED BY <3>2, <3>3
  <2>2. CASE \E j \in 1..Len(c.inbox) :
               /\ c.inbox[j].type = "got" /\ c.inbox[j].doc = User(u)
               /\ c.inbox[j].then = t /\ c.inbox[j].val # Absent
    BY <1>13, <2>2, Zenon DEF RemovalUnderWay
  <2> QED BY <1>14, <2>1, <2>2 DEF RemovalUnderWay
<1> QED BY <1>0, <1>2, <1>12, <1>14, StepFollowed DEF n

(* In the turn from c to n, the previews of S are listened to, and what c  *)
(* knew of them is news.                                                   *)
Loaded(c, n, S) ==
  /\ ClientOK(n) /\ Turn(c, n)
  /\ \A p \in S : /\ Preview(p) \in n.listening
                  /\ NewsOf(n, Preview(p)) # {} \/ Preview(p) \notin n.raised
  /\ \A u \in Users : NewsOf(n, User(u)) = NewsOf(c, User(u))
  /\ \A y : View(n, y) = View(c, y)

(* The closure of loadPaperPreviews: each preview of S is listened to, and *)
(* there is news of it or none was raised yet.                             *)
LEMMA RaisedTurn ==
  ASSUME NEW c, ClientOK(c), NEW S \in SUBSET Papers,
         NEW K \in SUBSET S, \A p \in S : p \in K <=> Known(c, Preview(p)),
         NEW f \in ListsOf(K), NEW n, n = FetchPaperPreviews(c, S, f)
  PROVE  Loaded(c, n, S)
<1> DEFINE k == Len(c.inbox)
           h == Len(f)
<1>0. Raising(c, n, S, K, f)
  <2>1. K = {p \in S : Known(c, Preview(p))}
    OBVIOUS
  <2> QED BY <2>1, RaisedEffect
<1>1. /\ ClientOK(n) /\ k \in Nat /\ h \in Nat
      /\ n.listening = c.listening \cup {Preview(p) : p \in S}
      /\ n.raised = c.raised \cup {Preview(f[i]) : i \in 1..h}
      /\ n.pending = c.pending /\ n.base = c.base /\ n.gets = c.gets
      /\ \A i \in 1..h : f[i] \in K
      /\ \A p \in K : \E i \in 1..h : f[i] = p
      /\ Len(n.inbox) = k + h
      /\ \A i \in 1..k : n.inbox[i] = c.inbox[i]
      /\ \A i \in (k + 1)..(k + h) :
           /\ n.inbox[i].type = "snapshot" /\ n.inbox[i].doc = Preview(f[i - k])
           /\ n.inbox[i].val = View(c, Preview(f[i - k]))
  BY <1>0 DEF Raising
<1> HIDE DEF h
<1>2. \A y : View(n, y) = View(c, y)
  BY <1>1, ViewFrame
<1>3. \A y : NewsOf(c, y) \subseteq 1..k /\ NewsOf(n, y) \subseteq 1..(k + h)
  BY <1>1 DEF NewsOf
<1>4. \A y : \A i \in 1..k : i \in NewsOf(n, y) <=> i \in NewsOf(c, y)
  BY <1>1 DEF NewsOf
<1> HIDE DEF k
<1>5. ASSUME NEW y, NEW i \in NewsOf(n, y), i \notin 1..k
      PROVE  n.inbox[i].val = View(c, y) /\ \E p \in K : y = Preview(p)
  <2>1. i \in (k + 1)..(k + h) /\ i - k \in 1..h
    BY <1>1, <1>3, <1>5
  <2>2. f[i - k] \in K /\ y = Preview(f[i - k]) /\ n.inbox[i].val = View(c, y)
    BY <1>1, <2>1 DEF NewsOf
  <2> QED BY <2>2
<1>6. ASSUME NEW y, \A p \in K : y # Preview(p)
      PROVE  NewsOf(n, y) = NewsOf(c, y) /\ Still(c, n, y)
  <2>1. NewsOf(n, y) = NewsOf(c, y)
    BY <1>3, <1>4, <1>5, <1>6
  <2>2. \A i \in NewsOf(c, y) : n.inbox[i] = c.inbox[i]
    BY <1>1, <1>3
  <2>3. y \in n.raised => y \in c.raised
    BY <1>1, <1>6
  <2> QED BY <1>1, <1>2, <2>1, <2>2, <2>3 DEF Still
<1>7. ASSUME NEW p \in K PROVE Told(n, Preview(p)) /\ NewsOf(n, Preview(p)) # {}
  <2> DEFINE x == Preview(p)
  <2>1. PICK i \in 1..h : f[i] = p
    BY <1>1
  <2>2. k + i \in (k + 1)..(k + h) /\ (k + i) - k = i /\ k + i \in 1..(k + h)
    BY ONLY <1>1, i \in 1..h
  <2>3. k + i \in NewsOf(n, x)
    BY <1>1, <2>1, <2>2 DEF NewsOf
  <2>4. NewsOf(n, x) \in SUBSET (1..(k + h)) /\ k + h \in Nat
    BY <1>1, <1>3
  <2>5. PICK g \in NewsOf(n, x) : \A j \in NewsOf(n, x) : j <= g
    BY <2>3, <2>4, GreatestExists
  <2>6. k + i <= g /\ g \notin 1..k
    BY <1>1, <2>2, <2>3, <2>5
  <2>7. n.inbox[g].val = View(n, x)
    BY <1>2, <1>5, <2>6
  <2>8. x \in n.listening
    BY <1>1
  <2> QED BY <2>3, <2>5, <2>7, <2>8 DEF Told
<1>8. \A y \in Docs : Told(n, y) \/ Still(c, n, y)
  BY <1>6, <1>7
<1>9. Extends(n.inbox, c.inbox) /\ Extends(n.gets, c.gets)
  BY <1>1, NewsArePositions, ExtendsItself DEF Extends, k
<1>10. ASSUME NEW p \in S
       PROVE  /\ Preview(p) \in n.listening
              /\ NewsOf(n, Preview(p)) # {} \/ Preview(p) \notin n.raised
  <2>1. Preview(p) \in n.listening
    BY <1>1
  <2>2. CASE p \in K
    BY <1>7, <2>1, <2>2
  <2>3. CASE p \notin K
    <3>1. Preview(p) \notin c.raised
      BY <2>3 DEF Known
    <3>2. \A q \in K : Preview(p) # Preview(q)
      BY <2>3 DEF Preview
    <3>3. Still(c, n, Preview(p))
      BY <1>6, <3>2
    <3> QED BY <2>1, <3>1, <3>3 DEF Still
  <2> QED BY <2>2, <2>3
<1>11. ASSUME NEW u \in Users PROVE NewsOf(n, User(u)) = NewsOf(c, User(u))
  <2>1. \A p : User(u) # Preview(p)
    BY DEF User, Preview
  <2> QED BY <1>6, <2>1
<1> QED BY <1>1, <1>2, <1>8, <1>9, <1>10, <1>11 DEF Turn, Loaded

-----------------------------------------------------------------------------
(* What the main queue does                                                *)

(* The papers whose place the callback e, popped, leaves open.             *)
Touched(e, u) ==
  {p \in Papers :
     \/ e.type = "snapshot" /\ e.doc \in {Preview(p), User(u)}
     \/ /\ e.type = "got" /\ e.doc = User(u) /\ e.val # Absent
        /\ e.then = Then("removeUsersPaperId", p)}

(* The queue without its oldest callback.                                  *)
LEMMA PoppedNews ==
  ASSUME NEW c, ClientOK(c), c.inbox # << >>, NEW n, n = [c EXCEPT !.inbox = Tail(@)]
  PROVE  /\ ClientOK(n) /\ n.pending = c.pending /\ n.base = c.base /\ n.gets = c.gets
         /\ n.listening = c.listening /\ n.raised = c.raised
         /\ \A i \in 1..Len(c.inbox) :
              i = 1 \/ (i - 1 \in 1..Len(n.inbox) /\ n.inbox[i - 1] = c.inbox[i])
         /\ c.inbox[1] = Head(c.inbox) /\ 1 \in 1..Len(c.inbox)
         /\ \A y \in Docs : NewsInStep(c, y) =>
              /\ NewsInStep(n, y)
              /\ NewsOf(n, y) = {} /\ NewsOf(c, y) # {} =>
                   /\ Head(c.inbox).type = "snapshot" /\ Head(c.inbox).doc = y
                   /\ Head(c.inbox).val = View(c, y)
<1> DEFINE e == Head(c.inbox)
           k == Len(n.inbox)
<1>0. c \in ClientType /\ c.inbox \in Seq(EventType)
  BY DEF ClientOK, ClientType
<1>1. /\ n \in ClientType /\ n.gets = c.gets /\ n.raised = c.raised
      /\ n.pending = c.pending /\ n.base = c.base
      /\ n.listening = c.listening /\ n.inbox = Tail(c.inbox)
  <2>1. Tail(c.inbox) \in Seq(EventType)
    BY <1>0, HeadTailProperties
  <2> QED BY <1>0, <2>1 DEF ClientType
<1>2. ClientOK(n)
  BY <1>1 DEF ClientOK
<1>3. /\ k \in Nat /\ Len(c.inbox) = k + 1 /\ c.inbox[1] = e
      /\ \A i \in 1..k : n.inbox[i] = c.inbox[i + 1]
  BY <1>0, <1>1, TailFacts
<1> HIDE DEF e, k
<1>4. \A i \in 1..(k + 1) : i = 1 \/ (i - 1 \in 1..k /\ n.inbox[i - 1] = c.inbox[i])
  <2> SUFFICES ASSUME NEW i \in 1..(k + 1), i # 1
               PROVE  i - 1 \in 1..k /\ n.inbox[i - 1] = c.inbox[i]
    OBVIOUS
  <2>1. i - 1 \in 1..k /\ (i - 1) + 1 = i
    BY <1>3
  <2> QED BY <1>3, <2>1
<1>5. ASSUME NEW y \in Docs, NewsInStep(c, y)
      PROVE  /\ NewsInStep(n, y)
             /\ NewsOf(n, y) = {} /\ NewsOf(c, y) # {} =>
                  e.type = "snapshot" /\ e.doc = y /\ e.val = View(c, y)
  <2>1. \A i \in 1..k : i \in NewsOf(n, y) <=> i + 1 \in NewsOf(c, y)
    BY <1>3 DEF NewsOf, k
  <2>2. NewsOf(n, y) \subseteq 1..k /\ NewsOf(c, y) \subseteq 1..(k + 1)
    BY <1>3 DEF NewsOf, k
  <2>3. \A j \in NewsOf(c, y) : j = 1 \/ j - 1 \in NewsOf(n, y)
    <3> SUFFICES ASSUME NEW j \in NewsOf(c, y), j # 1 PROVE j - 1 \in NewsOf(n, y)
      OBVIOUS
    <3>1. j - 1 \in 1..k /\ (j - 1) + 1 = j
      BY <1>3, <2>2
    <3> QED BY <2>1, <3>1
  <2>4. View(n, y) = View(c, y)
    BY <1>1, ViewFrame
  <2>5. ASSUME NEW i \in NewsOf(n, y)
        PROVE  y \in n.listening /\ ((\A j \in NewsOf(n, y) : j <= i) => n.inbox[i].val = View(n, y))
    <3>1. i \in 1..k /\ i + 1 \in NewsOf(c, y) /\ n.inbox[i] = c.inbox[i + 1]
      BY <1>3, <2>1, <2>2
    <3>2. ASSUME \A j \in NewsOf(n, y) : j <= i PROVE \A j \in NewsOf(c, y) : j <= i + 1
      <4> SUFFICES ASSUME NEW j \in NewsOf(c, y) PROVE j <= i + 1
        OBVIOUS
      <4>1. j \in 1..(k + 1) /\ (j = 1 \/ j - 1 <= i)
        BY <2>2, <2>3, <3>2
      <4> QED BY <1>3, <3>1, <4>1
    <3> QED BY <1>1, <1>5, <2>4, <3>1, <3>2 DEF NewsInStep
  <2>6. ASSUME NewsOf(n, y) = {}, NewsOf(c, y) # {}
        PROVE  e.type = "snapshot" /\ e.doc = y /\ e.val = View(c, y)
    <3>1. NewsOf(c, y) = {1}
      BY <2>3, <2>6
    <3>2. \A j \in NewsOf(c, y) : j <= 1
      BY <3>1
    <3>3. 1 \in NewsOf(c, y)
      BY <3>1
    <3>4. c.inbox[1].val = View(c, y)
      BY <1>5, <3>2, <3>3 DEF NewsInStep
    <3> QED BY <1>3, <3>3, <3>4 DEF NewsOf
  <2> QED BY <2>5, <2>6 DEF NewsInStep
<1>6. /\ \A i \in 1..Len(c.inbox) :
           i = 1 \/ (i - 1 \in 1..Len(n.inbox) /\ n.inbox[i - 1] = c.inbox[i])
      /\ c.inbox[1] = Head(c.inbox) /\ 1 \in 1..Len(c.inbox)
  BY <1>3, <1>4 DEF e, k
<1> QED BY <1>1, <1>2, <1>5, <1>6, Zenon DEF e

(* Popping the oldest callback leaves the other papers followed.           *)
LEMMA PoppedFollowed ==
  ASSUME NEW c, ClientOK(c), c.inbox # << >>, NEW n, n = [c EXCEPT !.inbox = Tail(@)],
         NEW l, NEW m, NEW u, Followed(c, l, m, u, {})
  PROVE  Followed(n, l, m, u, Touched(Head(c.inbox), u))
<1> DEFINE e == Head(c.inbox)
<1>1. /\ ClientOK(n) /\ n.pending = c.pending /\ n.base = c.base /\ n.gets = c.gets
      /\ n.listening = c.listening /\ n.raised = c.raised
      /\ \A i \in 1..Len(c.inbox) :
           i = 1 \/ (i - 1 \in 1..Len(n.inbox) /\ n.inbox[i - 1] = c.inbox[i])
      /\ c.inbox[1] = e
      /\ \A y \in Docs : NewsInStep(c, y) =>
           /\ NewsInStep(n, y)
           /\ NewsOf(n, y) = {} /\ NewsOf(c, y) # {} =>
                e.type = "snapshot" /\ e.doc = y /\ e.val = View(c, y)
  BY PoppedNews
<1> HIDE DEF e
<1>2. \A y : View(n, y) = View(c, y)
  <2>1. n.pending = c.pending /\ n.base = c.base
    BY <1>1
  <2> QED BY ONLY <2>1, ViewFrame
<1>3. \A y \in Docs : NewsInStep(c, y)
  BY DEF Followed
<1>4. ASSUME u # Absent, View(n, User(u)) # Absent, NewsOf(n, User(u)) = {},
             NEW p \in View(n, User(u)).paperIds \ Touched(e, u)
      PROVE  Preview(p) \in n.listening /\ Following(n, l[p], m, u, p)
  <2>1. u \in Users /\ User(u) \in Docs
    BY <1>4, ListValue DEF Followed
  <2>2. p \in Papers /\ Preview(p) \in Docs
    BY <1>1, <1>4, <2>1, ListedArePapers, PreviewValue
  <2>3. NewsOf(c, User(u)) = {}
    BY <1>1, <1>3, <1>4, <2>1, <2>2 DEF Touched
  <2>4. Preview(p) \in c.listening /\ Following(c, l[p], m, u, p)
    BY <1>2, <1>4, <2>3 DEF Followed
  <2>5. NewsOf(c, Preview(p)) # {} => NewsOf(n, Preview(p)) # {}
    BY <1>1, <1>3, <1>4, <2>2 DEF Touched
  <2>6. ASSUME RemovalUnderWay(c, u, p) PROVE RemovalUnderWay(n, u, p)
    <3> DEFINE t == Then("removeUsersPaperId", p)
               Removes(a) == a.type = "got" /\ a.doc = User(u) /\ a.then = t /\ a.val # Absent
    <3>1. ~Removes(e)
      BY <1>4, <2>2 DEF Touched
    <3>2. \/ \E i \in 1..Len(c.gets) : c.gets[i].doc = User(u) /\ c.gets[i].then = t
          \/ \E i \in 1..Len(c.inbox) : Removes(c.inbox[i])
      BY <2>6, Zenon DEF RemovalUnderWay
    <3>3. ASSUME NEW i \in 1..Len(c.inbox), Removes(c.inbox[i])
          PROVE  \E j \in 1..Len(n.inbox) : Removes(n.inbox[j])
      <4>1. i # 1
        BY <1>1, <3>1, <3>3
      <4> HIDE DEF Removes
      <4> QED BY <1>1, <3>3, <4>1
    <3> QED BY <1>1, <3>2, <3>3, Zenon DEF RemovalUnderWay
  <2> QED BY <1>1, <1>2, <2>4, <2>5, <2>6 DEF Following
<1>5. ASSUME u # Absent PROVE u \in Users /\ User(u) \in n.listening
  BY <1>1, <1>5 DEF Followed
<1> QED BY <1>1, <1>3, <1>4, <1>5 DEF Followed, e

(* A callback that is neither news of a preview or a user nor a list to    *)
(* remove a paper from leaves no place open.                               *)
LEMMA PoppedUntouched ==
  ASSUME NEW c, ClientOK(c), c.inbox # << >>, NEW n, n = [c EXCEPT !.inbox = Tail(@)],
         NEW l, NEW m, NEW u, Followed(c, l, m, u, {}),
         \/ Head(c.inbox).type = "snapshot" /\ Head(c.inbox).doc.coll = "papers"
         \/ /\ Head(c.inbox).type # "snapshot"
            /\ Head(c.inbox).then.op # "removeUsersPaperId" \/ Head(c.inbox).val = Absent
  PROVE  Followed(n, l, m, u, {})
<1>1. Touched(Head(c.inbox), u) = {}
  BY DEF Touched, Preview, User, Then
<1> QED BY <1>1, PoppedFollowed

(* More papers may be left out.                                            *)
LEMMA FewerFollowed ==
  ASSUME NEW c, NEW l, NEW m, NEW u, NEW Q, Followed(c, l, m, u, Q), NEW R, Q \subseteq R
  PROVE  Followed(c, l, m, u, R)
BY DEF Followed

(* The entry of a paper that is left out may change, and be missed or not. *)
LEMMA OthersFollowed ==
  ASSUME NEW c, NEW l, NEW m, NEW u, NEW q, Followed(c, l, m, u, {q}),
         ClientOK(c), NEW a, NEW b, \A p \in Papers \ {q} : a[p] = l[p] /\ (p \in b <=> p \in m)
  PROVE  Followed(c, a, b, u, {q})
<1>1. ASSUME u # Absent, View(c, User(u)) # Absent, NewsOf(c, User(u)) = {},
             NEW p \in View(c, User(u)).paperIds \ {q}
      PROVE  Preview(p) \in c.listening /\ Following(c, a[p], b, u, p)
  <2>1. u \in Users
    BY <1>1 DEF Followed
  <2>2. p \in Papers \ {q}
    BY <1>1, <2>1, ListedArePapers
  <2>3. Preview(p) \in c.listening /\ Following(c, l[p], m, u, p)
    BY <1>1 DEF Followed
  <2> QED BY <2>2, <2>3 DEF Following
<1> QED BY <1>1 DEF Followed

(* The papers left out are followed too.                                   *)
LEMMA AllFollowed ==
  ASSUME NEW c, NEW l, NEW m, NEW u, NEW Q, Followed(c, l, m, u, Q),
         u # Absent /\ View(c, User(u)) # Absent /\ NewsOf(c, User(u)) = {} =>
           \A p \in View(c, User(u)).paperIds \cap Q :
             Preview(p) \in c.listening /\ Following(c, l[p], m, u, p)
  PROVE  Followed(c, l, m, u, {})
BY DEF Followed

-----------------------------------------------------------------------------
(* What the manager asks of the client keeps the user's papers followed    *)

LEMMA WriteFollowed ==
  ASSUME NEW c, NEW k, InOrder(c, k), NEW x \in Docs, NEW v \in ValuesOf(x),
         NEW t \in ThenType, Fits(x, v, t),
         NEW l, NEW m, NEW u, NEW Q, Followed(c, l, m, u, Q)
  PROVE  Followed(Write(c, x, v, t), l, m, u, Q)
<1> DEFINE n == Write(c, x, v, t)
<1>1. ClientOK(c)
  BY InOrderTyped
<1>2. Turn(c, n)
  BY <1>1, WriteTurn
<1>3. ClientOK(n)
  BY WriteInOrder, InOrderTyped
<1> HIDE DEF n
<1>4. Followed(n, l, m, u, Q)
  BY <1>1, <1>2, <1>3, TurnFollowed
<1> QED BY <1>4 DEF n

LEMMA ListenFollowed ==
  ASSUME NEW c, NEW k, InOrder(c, k), NEW x \in Docs,
         NEW l, NEW m, NEW u, NEW Q, Followed(c, l, m, u, Q)
  PROVE  Followed(Listen(c, x), l, m, u, Q)
<1> DEFINE n == Listen(c, x)
<1>1. ClientOK(c)
  BY InOrderTyped
<1>2. Turn(c, n)
  BY <1>1, ListenTurn
<1>3. ClientOK(n)
  BY ListenInOrder, InOrderTyped
<1> HIDE DEF n
<1>4. Followed(n, l, m, u, Q)
  BY <1>1, <1>2, <1>3, TurnFollowed
<1> QED BY <1>4 DEF n

LEMMA GetFollowed ==
  ASSUME NEW c, NEW k, InOrder(c, k), NEW x \in Docs, NEW t \in ThenType,
         \A v \in ValuesOf(x) : Fits(x, v, t),
         NEW l, NEW m, NEW u, NEW Q, Followed(c, l, m, u, Q)
  PROVE  Followed(Get(c, x, t), l, m, u, Q)
<1> DEFINE n == Get(c, x, t)
<1>1. ClientOK(c)
  BY InOrderTyped
<1>2. Turn(c, n)
  BY <1>1, GetTurn
<1>3. ClientOK(n)
  BY GetInOrder, InOrderTyped
<1> HIDE DEF n
<1>4. Followed(n, l, m, u, Q)
  BY <1>1, <1>2, <1>3, TurnFollowed
<1> QED BY <1>4 DEF n

LEMMA WritePaperFollowed ==
  ASSUME NEW c, NEW k, InOrder(c, k), NEW paper \in PaperModel,
         NEW op \in {"addPaper", "addCard", "updatePaper", "convertPaperToGift"},
         NEW l, NEW m, NEW u, NEW Q, Followed(c, l, m, u, Q)
  PROVE  Followed(WritePaper(c, paper, op), l, m, u, Q)
<1>1. Then(op, Absent) \in ThenType
  BY ThenTyped DEF OpNames
<1>2. Paper(paper.id) \in Docs /\ paper \in ValuesOf(Paper(paper.id))
  BY PaperValue
<1>3. paper # Absent
  BY PaperNotAbsent
<1>4. Fits(Paper(paper.id), paper, Then(op, Absent))
  BY <1>2, <1>3 DEF Fits, Then, Paper
<1> QED BY <1>1, <1>2, <1>4, WriteFollowed DEF WritePaper

LEMMA RemovePaperPreviewFollowed ==
  ASSUME NEW c, NEW k, InOrder(c, k), NEW p \in Papers,
         NEW l, NEW m, NEW u, NEW Q, Followed(c, l, m, u, Q)
  PROVE  Followed(RemovePaperPreview(c, p), l, m, u, Q)
<1>1. Then("removePaperPreview", p) \in ThenType
  BY ThenTyped DEF OpNames
<1>2. Preview(p) \in Docs /\ Absent \in ValuesOf(Preview(p))
  BY PreviewValue, AbsentValue
<1>3. Fits(Preview(p), Absent, Then("removePaperPreview", p))
  BY <1>2 DEF Fits, Then, Preview
<1> QED BY <1>1, <1>2, <1>3, WriteFollowed DEF RemovePaperPreview

LEMMA SetPaperPreviewFollowed ==
  ASSUME NEW c, NEW k, InOrder(c, k), NEW paper \in PaperModel,
         NEW l, NEW m, NEW u, NEW Q, Followed(c, l, m, u, Q)
  PROVE  Followed(SetPaperPreview(c, paper), l, m, u, Q)
<1> DEFINE n == Write(c, Preview(paper.id), [title |-> paper.title], NoCallback)
<1>1. paper.id \in Papers /\ [title |-> paper.title] \in PaperPreviewModel
  BY DEF PaperModel, PaperPreviewModel
<1>2. Preview(paper.id) \in Docs /\ [title |-> paper.title] \in ValuesOf(Preview(paper.id))
  BY <1>1, PreviewValue
<1>3. NoCallback \in ThenType
  BY ThenTyped DEF NoCallback, OpNames
<1>4. InOrder(n, k) /\ Followed(n, l, m, u, Q)
  <2>1. Fits(Preview(paper.id), [title |-> paper.title], NoCallback)
    BY <1>2 DEF Fits, NoCallback, Then
  <2> QED BY <1>2, <1>3, <2>1, WriteInOrder, WriteFollowed
<1> HIDE DEF n
<1>5. Followed(Listen(n, Preview(paper.id)), l, m, u, Q)
  BY <1>2, <1>4, ListenFollowed
<1> QED BY <1>5 DEF SetPaperPreview, n

LEMMA UsersPaperIdFollowed ==
  ASSUME NEW c, NEW k, InOrder(c, k), StateTyped, NEW d \in Devices, NEW p \in Papers,
         NEW l, NEW m, NEW u, NEW Q, Followed(c, l, m, u, Q)
  PROVE  /\ Followed(AddUsersPaperId(c, d, p), l, m, u, Q)
         /\ Followed(RemoveUsersPaperId(c, d, p), l, m, u, Q)
<1>1. CASE email[d] = Absent
  BY <1>1 DEF AddUsersPaperId, RemoveUsersPaperId
<1>2. CASE email[d] # Absent
  <2>1. User(email[d]) \in Docs
    BY <1>2, ListValue DEF StateTyped
  <2>2. Then("addUsersPaperId", p) \in ThenType /\ Then("removeUsersPaperId", p) \in ThenType
    BY ThenTyped DEF OpNames
  <2>3. \A v \in ValuesOf(User(email[d])) :
          /\ Fits(User(email[d]), v, Then("addUsersPaperId", p))
          /\ Fits(User(email[d]), v, Then("removeUsersPaperId", p))
    BY DEF Fits, Then, User
  <2> QED BY <1>2, <2>1, <2>2, <2>3, GetFollowed DEF AddUsersPaperId, RemoveUsersPaperId
<1> QED BY <1>1, <1>2

-----------------------------------------------------------------------------
(* The inductive invariant                                                 *)

ScreenIInv == IInv /\ OwnListTracked

LEMMA ScreenInvariant ==
  ASSUME ScreenIInv, NEW d \in Devices
  PROVE  /\ Followed(client[d], papers[d], dropped[d], profile[d], {})
         /\ profile[d] # Absent => email[d] = profile[d]
         /\ InOrder(client[d], papers[d]) /\ ClientOK(client[d]) /\ StateTyped
<1>1. InOrder(client[d], papers[d]) /\ ClientOK(client[d]) /\ StateTyped
  BY InvariantInOrder, InOrderTyped DEF ScreenIInv
<1>2. profile[d] # Absent => profile[d] \in Users
  BY <1>1 DEF StateTyped
<1> QED BY <1>1, <1>2 DEF ScreenIInv, OwnListTracked, Followed, ListFollowed

(* A step of device d after which its user's papers are followed.          *)
LEMMA ScreenStep ==
  ASSUME ScreenIInv, NEW d \in Devices, NEW c, NEW l, NEW m, NEW u, NEW e,
         client' = [client EXCEPT ![d] = c], papers' = [papers EXCEPT ![d] = l],
         dropped' = [dropped EXCEPT ![d] = m], profile' = [profile EXCEPT ![d] = u],
         email' = [email EXCEPT ![d] = e],
         Followed(c, l, m, u, {}), u # Absent => e = u
  PROVE  OwnListTracked'
<1>1. /\ client \in [Devices -> ClientType] /\ papers \in [Devices -> PreviewList]
      /\ StateTyped
  BY InvariantInOrder DEF ScreenIInv
<1>2. /\ client'[d] = c /\ papers'[d] = l /\ dropped'[d] = m /\ profile'[d] = u /\ email'[d] = e
      /\ \A f \in Devices : f # d =>
           /\ client'[f] = client[f] /\ papers'[f] = papers[f] /\ dropped'[f] = dropped[f]
           /\ profile'[f] = profile[f] /\ email'[f] = email[f]
  BY <1>1 DEF StateTyped
<1>3. ASSUME NEW f \in Devices
      PROVE  /\ Followed(client'[f], papers'[f], dropped'[f], profile'[f], {})
             /\ profile'[f] # Absent => email'[f] = profile'[f]
  <2>1. CASE f = d
    BY <1>2, <2>1
  <2>2. CASE f # d
    BY <1>2, <2>2, ScreenInvariant
  <2> QED BY <2>1, <2>2
<1> QED BY <1>3 DEF OwnListTracked, Followed, ListFollowed

(* The same for a step that touches neither the list nor the user.         *)
LEMMA ScreenClientStep ==
  ASSUME ScreenIInv, NEW d \in Devices, NEW c,
         client' = [client EXCEPT ![d] = c], UNCHANGED <<papers, dropped, profile, email>>,
         Followed(c, papers[d], dropped[d], profile[d], {})
  PROVE  OwnListTracked'
<1>1. /\ client \in [Devices -> ClientType] /\ papers \in [Devices -> PreviewList]
      /\ StateTyped
  BY InvariantInOrder DEF ScreenIInv
<1> DEFINE l == papers[d]
           m == dropped[d]
           u == profile[d]
           e == email[d]
<1>2. /\ papers' = [papers EXCEPT ![d] = l] /\ dropped' = [dropped EXCEPT ![d] = m]
      /\ profile' = [profile EXCEPT ![d] = u] /\ email' = [email EXCEPT ![d] = e]
  BY <1>1 DEF StateTyped
<1>3. (u # Absent => e = u) /\ Followed(c, l, m, u, {})
  BY ScreenInvariant
<1> HIDE DEF l, m, u, e
<1> QED BY <1>2, <1>3, ScreenStep

(* The initial state: nobody is signed in and no callback is queued.       *)
LEMMA ScreenInit == Init => ScreenIInv
<1> SUFFICES ASSUME Init PROVE ScreenIInv
  OBVIOUS
<1>1. \A d \in Devices : client[d].inbox = << >> /\ profile[d] = Absent
  BY DEF Init, FreshClient
<1>2. \A d \in Devices, x \in Docs : NewsOf(client[d], x) = {}
  BY <1>1 DEF NewsOf
<1> QED BY <1>1, <1>2, InitInvariant DEF ScreenIInv, OwnListTracked, NewsInStep

-----------------------------------------------------------------------------
(* The steps of the network                                                *)

LEMMA ScreenNetwork ==
  ASSUME ScreenIInv, NEW d \in Devices, Network(d)
  PROVE  OwnListTracked'
<1> DEFINE c == client[d]
           l == papers[d]
           m == dropped[d]
           u == profile[d]
<1>0. /\ Followed(c, l, m, u, {}) /\ InOrder(c, l) /\ ClientOK(c) /\ StateTyped
      /\ \A x \in Docs : server[x] \in ValuesOf(x)
  BY ScreenInvariant DEF StateTyped
<1>1. UNCHANGED <<papers, dropped, profile, email>>
  BY DEF Network, appVars
<1> HIDE DEF c, l, m, u
<1>2. ASSUME NEW n, client' = [client EXCEPT ![d] = n], Followed(n, l, m, u, {})
      PROVE  OwnListTracked'
  BY <1>1, <1>2, ScreenClientStep DEF l, m, u
<1>3. CASE Acknowledge(d)
  <2> DEFINE w == Head(c.pending)
             acked == [c EXCEPT !.pending = Tail(@), !.base[w.doc] = w.val]
             e == Event("done", w.doc, w.val, w.then)
  <2>1. /\ c.pending # << >>
        /\ client' = [client EXCEPT ![d] = IF w.then = NoCallback THEN acked ELSE Post(acked, e)]
    BY <1>3 DEF Acknowledge, c
  <2>2. c.pending \in Seq(WriteType)
    BY <1>0 DEF ClientOK, ClientType
  <2>3. Turn(c, acked) /\ ClientOK(acked)
    BY ONLY <1>0, <2>1, AcknowledgedTurn
  <2>4. w \in WriteType
    BY <2>1, <2>2, HeadTailProperties
  <2>5. e \in EventType /\ e.type # "snapshot"
    BY <2>4, EventTyped DEF WriteType, Fits
  <2> HIDE DEF acked, w, e
  <2>6. Followed(acked, l, m, u, {})
    BY <1>0, <2>3, TurnFollowed
  <2>7. Turn(acked, Post(acked, e)) /\ ClientOK(Post(acked, e))
    BY <2>3, <2>5, PostTurn, PostEffect
  <2>8. Followed(Post(acked, e), l, m, u, {})
    BY <2>3, <2>6, <2>7, TurnFollowed
  <2> QED BY <1>2, <2>1, <2>6, <2>8
<1>4. CASE Reject(d)
  <2> DEFINE x == Head(c.pending).doc
             n == Notify(c, [c EXCEPT !.pending = Tail(@)], x)
  <2>1. c.pending # << >> /\ client' = [client EXCEPT ![d] = n]
    BY <1>4 DEF Reject, c
  <2>2. Turn(c, n)
    BY ONLY <1>0, <2>1, RejectedTurn
  <2>3. ClientOK(n)
    BY <1>0, <2>1, RejectedInOrder, InOrderTyped
  <2> HIDE DEF n
  <2>4. Followed(n, l, m, u, {})
    BY <1>0, <2>2, <2>3, TurnFollowed
  <2> QED BY <1>2, <2>1, <2>4
<1>5. ASSUME NEW x \in Docs PROVE Followed(Received(c, x), l, m, u, {}) /\ InOrder(Received(c, x), l)
  <2>1. Turn(c, Received(c, x)) /\ InOrder(Received(c, x), l) /\ ClientOK(Received(c, x))
    BY <1>0, ReceivedTurn, ReceivedInOrder, InOrderTyped
  <2> QED BY <1>0, <2>1, TurnFollowed
<1>6. ASSUME NEW x \in Docs, Watch(d, x) PROVE OwnListTracked'
  BY <1>2, <1>5, <1>6 DEF Watch, c
<1>7. ASSUME NEW x \in Docs, OfflineSnapshot(d, x) PROVE OwnListTracked'
  <2> DEFINE n == PostSnapshot(c, x, View(c, x))
  <2>1. x \in c.listening /\ client' = [client EXCEPT ![d] = n]
    BY <1>7 DEF OfflineSnapshot, c
  <2>2. Turn(c, n)
    BY <1>0, <2>1, PostSnapshotTurn
  <2>3. ClientOK(n)
    BY <1>0, OfflineInOrder, InOrderTyped
  <2> HIDE DEF n
  <2>4. Followed(n, l, m, u, {})
    BY <1>0, <2>2, <2>3, TurnFollowed
  <2> QED BY <1>2, <2>1, <2>4
<1>8. CASE AnswerOnline(d)
  <2>1. PICK i \in Answerable(c) :
          LET x   == c.gets[i].doc
              new == Received(c, x)
          IN  client' = [client EXCEPT ![d] = Answer(new, i, View(new, x))]
    BY <1>8 DEF AnswerOnline, c
  <2> DEFINE x == c.gets[i].doc
             new == Received(c, x)
  <2>2. i \in 1..Len(c.gets) /\ client' = [client EXCEPT ![d] = Answer(new, i, View(new, x))]
    BY <2>1 DEF Answerable
  <2>3. x \in Docs
    BY <1>0, <2>2, AnswerInOrder
  <2>4. new.gets = c.gets
    BY <1>0, ReceivedGets
  <2>5. Followed(new, l, m, u, {}) /\ InOrder(new, l)
    BY <1>5, <2>3
  <2> HIDE DEF new
  <2>6. i \in 1..Len(new.gets) /\ new.gets[i].doc = x
    BY <2>2, <2>4
  <2> HIDE DEF x
  <2>7. Followed(Answer(new, i, View(new, x)), l, m, u, {})
    BY <2>5, <2>6, AnswerFollowed
  <2> QED BY <1>2, <2>2, <2>7
<1>9. CASE AnswerOffline(d)
  <2>1. PICK i \in Answerable(c) :
          client' = [client EXCEPT ![d] = Answer(c, i, View(c, c.gets[i].doc))]
    BY <1>9 DEF AnswerOffline, c
  <2>2. i \in 1..Len(c.gets)
    BY DEF Answerable
  <2>3. Followed(Answer(c, i, View(c, c.gets[i].doc)), l, m, u, {})
    BY <1>0, <2>2, AnswerFollowed
  <2> QED BY <1>2, <2>1, <2>3
<1> QED BY <1>3, <1>4, <1>6, <1>7, <1>8, <1>9 DEF Network

-----------------------------------------------------------------------------
(* The operations                                                          *)

LEMMA ScreenOperation ==
  ASSUME ScreenIInv, NEW d \in Devices, Operation(d)
  PROVE  OwnListTracked'
<1> DEFINE c == client[d]
           l == papers[d]
           m == dropped[d]
           u == profile[d]
<1>0. /\ Followed(c, l, m, u, {}) /\ InOrder(c, l) /\ ClientOK(c) /\ StateTyped
      /\ client = [client EXCEPT ![d] = c] /\ email = [email EXCEPT ![d] = email[d]]
  <2>1. client \in [Devices -> ClientType] /\ email \in [Devices -> Users \cup {Absent}]
    BY InvariantInOrder DEF ScreenIInv, StateTyped
  <2> QED BY <2>1, ScreenInvariant
<1>1. subject[d] # Absent => subject[d] \in PaperModel
  BY <1>0 DEF StateTyped
<1> HIDE DEF c, l, m, u
<1>2. ASSUME NEW n, client' = [client EXCEPT ![d] = n], Followed(n, l, m, u, {}),
             UNCHANGED <<papers, dropped, profile, email>>
      PROVE  OwnListTracked'
  BY <1>2, ScreenClientStep DEF l, m, u
<1>3. ASSUME NEW paper \in PaperModel,
             NEW op \in {"addPaper", "addCard", "updatePaper", "convertPaperToGift"}
      PROVE  Followed(WritePaper(c, paper, op), l, m, u, {})
  BY <1>0, WritePaperFollowed
<1>4. ASSUME NEW p \in Papers, FetchPaper(d, p) PROVE OwnListTracked'
  <2>1. Paper(p) \in Docs
    BY DEF Docs, PaperDocs
  <2>2. Followed(Listen(c, Paper(p)), l, m, u, {})
    BY <1>0, <2>1, ListenFollowed
  <2> QED BY <1>2, <1>4, <2>2 DEF FetchPaper, c
<1>5. ASSUME ResetPaper(d) PROVE OwnListTracked'
  BY <1>0, <1>2, <1>5 DEF ResetPaper
<1>6. ASSUME NEW p \in Papers, NEW cs \in SUBSET Cards, NEW t \in Titles, AddPaper(d, p, cs, t)
      PROVE  OwnListTracked'
  <2> DEFINE paper == [id |-> p, cards |-> cs, title |-> t]
             n == IF email[d] = Absent THEN c ELSE WritePaper(c, paper, "addPaper")
  <2>1. paper \in PaperModel
    BY DEF PaperModel
  <2>2. client' = [client EXCEPT ![d] = n] /\ UNCHANGED <<papers, dropped, profile, email>>
    BY <1>6 DEF AddPaper, c
  <2> HIDE DEF paper
  <2>3. Followed(n, l, m, u, {})
    BY <1>0, <1>3, <2>1
  <2> QED BY <1>2, <2>2, <2>3
<1>7. ASSUME NEW card \in Cards, AddCard(d, card) PROVE OwnListTracked'
  <2> DEFINE paper == [subject[d] EXCEPT !.cards = @ \cup {card}]
  <2>1. paper \in PaperModel
    BY <1>1, <1>7 DEF AddCard, PaperModel
  <2>2. /\ client' = [client EXCEPT ![d] = WritePaper(c, paper, "addCard")]
        /\ UNCHANGED <<papers, dropped, profile, email>>
    BY <1>7 DEF AddCard, c
  <2> HIDE DEF paper
  <2> QED BY <1>2, <1>3, <2>1, <2>2
<1>8. ASSUME NEW card \in Cards, RemoveCard(d, card) PROVE OwnListTracked'
  <2>1. Paper(subject[d].id) \in Docs
    BY <1>1, <1>8, PaperValue DEF RemoveCard
  <2>2. Then("removeCard", card) \in ThenType
    BY ThenTyped DEF OpNames
  <2>3. Followed(Get(c, Paper(subject[d].id), Then("removeCard", card)), l, m, u, {})
    <3>1. \A v \in ValuesOf(Paper(subject[d].id)) : Fits(Paper(subject[d].id), v, Then("removeCard", card))
      BY DEF Fits, Then, Paper
    <3> QED BY <1>0, <2>1, <2>2, <3>1, GetFollowed
  <2> QED BY <1>2, <1>8, <2>3 DEF RemoveCard, c
<1>9. ASSUME NEW t \in Titles, UpdatePaper(d, t) PROVE OwnListTracked'
  <2> DEFINE paper == [subject[d] EXCEPT !.title = t]
  <2>1. paper \in PaperModel
    BY <1>1, <1>9 DEF UpdatePaper, PaperModel
  <2>2. /\ client' = [client EXCEPT ![d] = WritePaper(c, paper, "updatePaper")]
        /\ UNCHANGED <<papers, dropped, profile, email>>
    BY <1>9 DEF UpdatePaper, c
  <2> HIDE DEF paper
  <2> QED BY <1>2, <1>3, <2>1, <2>2
<1>10. ASSUME NEW card \in Cards, UpdateCard(d, card) PROVE OwnListTracked'
  BY <1>1, <1>2, <1>3, <1>10 DEF UpdateCard, c
<1>11. ASSUME NEW p \in Papers, RemovePaper(d, p) PROVE OwnListTracked'
  <2>1. Then("removePaper", p) \in ThenType /\ Paper(p) \in Docs /\ Absent \in ValuesOf(Paper(p))
    BY ThenTyped, AbsentValue DEF OpNames, Docs, PaperDocs
  <2>2. Followed(Write(c, Paper(p), Absent, Then("removePaper", p)), l, m, u, {})
    <3>1. Fits(Paper(p), Absent, Then("removePaper", p))
      BY <2>1 DEF Fits, Then, Paper
    <3> QED BY <1>0, <2>1, <3>1, WriteFollowed
  <2> QED BY <1>2, <1>11, <2>2 DEF RemovePaper, c
<1>12. ASSUME NEW g \in Papers, ConvertPaperToGift(d, g) PROVE OwnListTracked'
  <2> DEFINE paper == [subject[d] EXCEPT !.id = g]
  <2>1. paper \in PaperModel
    BY <1>1, <1>12 DEF ConvertPaperToGift, PaperModel
  <2>2. /\ client' = [client EXCEPT ![d] = WritePaper(c, paper, "convertPaperToGift")]
        /\ UNCHANGED <<papers, dropped, profile, email>>
    BY <1>12 DEF ConvertPaperToGift, c
  <2> HIDE DEF paper
  <2> QED BY <1>2, <1>3, <2>1, <2>2
(* The new user's list is known, and news of it is queued, or it is not.   *)
<1>13. ASSUME NEW w \in Users, ProfileChanged(d, w) PROVE OwnListTracked'
  <2> DEFINE n == Listen(c, User(w))
  <2>1. User(w) \in Docs
    BY ListValue
  <2>2. Followed(n, l, m, u, {})
    BY <1>0, <2>1, ListenFollowed
  <2>3. User(w) \in n.listening /\ (NewsOf(n, User(w)) = {} => View(n, User(w)) = Absent)
    BY <1>0, <2>1, ListenTurn
  <2>4. /\ client' = [client EXCEPT ![d] = n] /\ papers' = [papers EXCEPT ![d] = NoPreviews]
        /\ dropped' = [dropped EXCEPT ![d] = {}] /\ profile' = [profile EXCEPT ![d] = w]
        /\ email' = [email EXCEPT ![d] = w]
    BY <1>13 DEF ProfileChanged, c
  <2> HIDE DEF n
  <2>5. Followed(n, NoPreviews, {}, w, {})
    BY <2>2, <2>3 DEF Followed
  <2> QED BY <2>4, <2>5, ScreenStep, Zenon
<1>14. ASSUME ProfileRemoved(d) PROVE OwnListTracked'
  <2>1. /\ papers' = [papers EXCEPT ![d] = NoPreviews]
        /\ dropped' = [dropped EXCEPT ![d] = {}] /\ profile' = [profile EXCEPT ![d] = Absent]
        /\ client' = [client EXCEPT ![d] = c] /\ email' = [email EXCEPT ![d] = email[d]]
    BY <1>0, <1>14 DEF ProfileRemoved
  <2>2. Followed(c, NoPreviews, {}, Absent, {})
    BY <1>0 DEF Followed
  <2> QED BY <2>1, <2>2, ScreenStep, Zenon
<1>15. ASSUME Restart(d) PROVE OwnListTracked'
  <2> DEFINE n == Restarted(c)
  <2>1. n.inbox = << >>
    BY DEF Restarted
  <2>2. /\ client' = [client EXCEPT ![d] = n] /\ papers' = [papers EXCEPT ![d] = NoPreviews]
        /\ dropped' = [dropped EXCEPT ![d] = {}] /\ profile' = [profile EXCEPT ![d] = Absent]
        /\ email' = [email EXCEPT ![d] = Absent]
    BY <1>15 DEF Restart, c
  <2> HIDE DEF n
  <2>3. \A x \in Docs : NewsOf(n, x) = {}
    BY <2>1 DEF NewsOf
  <2>4. Followed(n, NoPreviews, {}, Absent, {})
    BY <2>3 DEF Followed, NewsInStep
  <2> QED BY <2>2, <2>4, ScreenStep, Zenon
<1> QED BY <1>4, <1>5, <1>6, <1>7, <1>8, <1>9, <1>10, <1>11, <1>12, <1>13, <1>14, <1>15
        DEF Operation

-----------------------------------------------------------------------------
(* The callbacks                                                           *)

LEMMA ScreenPaperSnapshot ==
  ASSUME ScreenIInv, NEW d \in Devices, PaperSnapshot(d)
  PROVE  OwnListTracked'
<1> DEFINE p == Oldest(d).doc.id
           v == Oldest(d).val
           gone == RemoveUsersPaperId(RemovePaperPreview(Popped(d), p), d, p)
           l == papers[d]
           m == dropped[d]
           u == profile[d]
<1>1. /\ client[d].inbox # << >> /\ Oldest(d).type = "snapshot" /\ Oldest(d).doc.coll = "papers"
      /\ StateTyped /\ IInv
      /\ Followed(client[d], l, m, u, {}) /\ ClientOK(client[d])
  BY ScreenInvariant DEF PaperSnapshot, Snapshot, Arrived, Oldest, ScreenIInv
<1>2. p \in Papers
  BY <1>1, OldestTyped, DocumentKinds
<1>3. InOrder(Popped(d), l)
  BY <1>1, PoppedPast
<1>4. Followed(Popped(d), l, m, u, {})
  BY <1>1, PoppedUntouched DEF Oldest, Popped
<1>5. /\ client' = [client EXCEPT ![d] = IF v = Absent THEN gone ELSE Popped(d)]
      /\ UNCHANGED <<papers, dropped, profile, email>>
  BY DEF PaperSnapshot
<1> HIDE DEF p, v
<1>6. Followed(gone, l, m, u, {})
  BY <1>1, <1>2, <1>3, <1>4, RemovePaperPreviewInOrder, RemovePaperPreviewFollowed, UsersPaperIdFollowed
<1> HIDE DEF gone
<1>7. Followed(IF v = Absent THEN gone ELSE Popped(d), l, m, u, {})
  BY <1>4, <1>6
<1> QED BY <1>5, <1>7, ScreenClientStep

(* The preview of q arrived: it is shown, or, if it is gone, q is taken    *)
(* off the list of the user whose address the manager holds.               *)
LEMMA ScreenPreviewSnapshot ==
  ASSUME ScreenIInv, NEW d \in Devices, PreviewSnapshot(d)
  PROVE  OwnListTracked'
<1> DEFINE q == Oldest(d).doc.id
           v == Oldest(d).val
           l == papers[d]
           m == dropped[d]
           u == profile[d]
           c == client[d]
           n == Popped(d)
           x == Preview(q)
<1>1. /\ c.inbox # << >> /\ Oldest(d).type = "snapshot" /\ Oldest(d).doc.coll = "paperPreviews"
      /\ StateTyped /\ IInv /\ InOrder(c, l)
      /\ Followed(c, l, m, u, {}) /\ ClientOK(c) /\ (u # Absent => email[d] = u)
  BY ScreenInvariant DEF PreviewSnapshot, Snapshot, Arrived, Oldest, ScreenIInv
<1>2. q \in Papers /\ Oldest(d).doc = x /\ x \in Docs /\ v \in ValuesOf(x)
  BY <1>1, OldestTyped, DocumentKinds
<1>3. /\ papers' = IF v = Absent THEN papers ELSE [papers EXCEPT ![d][q] = v]
      /\ dropped' = IF v = Absent THEN dropped ELSE [dropped EXCEPT ![d] = @ \ {q}]
      /\ client' = [client EXCEPT ![d] = IF v = Absent THEN RemoveUsersPaperId(n, d, q) ELSE n]
      /\ UNCHANGED <<profile, email>>
  BY DEF PreviewSnapshot
<1>4. n = [c EXCEPT !.inbox = Tail(@)] /\ Head(c.inbox) = Oldest(d)
  BY DEF Popped, Oldest
<1>5. Touched(Oldest(d), u) \subseteq {q}
  BY <1>1, <1>2 DEF Touched, Preview, User
<1>6. Followed(n, l, m, u, {q})
  BY <1>1, <1>4, <1>5, PoppedFollowed, FewerFollowed
<1>7. /\ ClientOK(n) /\ x \in n.listening
      /\ NewsOf(n, x) = {} => View(n, x) = v
  <2>1. 1 \in NewsOf(c, x) /\ NewsInStep(c, x)
    <3>1. c.inbox[1] = Oldest(d) /\ 1 \in 1..Len(c.inbox)
      BY <1>1, <1>4, PoppedNews
    <3> QED BY <1>1, <1>2, <3>1 DEF NewsOf, Followed
  <2>2. /\ ClientOK(n) /\ n.pending = c.pending /\ n.base = c.base /\ n.listening = c.listening
        /\ NewsOf(n, x) = {} => v = View(c, x)
    BY <1>1, <1>2, <1>4, <2>1, PoppedNews
  <2>3. View(n, x) = View(c, x)
    BY <2>2, ViewFrame
  <2> QED BY <2>1, <2>2, <2>3 DEF NewsInStep
<1> HIDE DEF n, c, v, q
<1>8. CASE v # Absent
  <2> DEFINE a == [l EXCEPT ![q] = v]
             b == m \ {q}
  <2>1. l \in PreviewList /\ papers \in [Devices -> PreviewList]
    BY <1>1, InvariantInOrder
  <2>2. a[q] = v /\ \A p \in Papers \ {q} : a[p] = l[p] /\ (p \in b <=> p \in m)
    BY <1>2, <2>1 DEF PreviewList
  <2>3. /\ papers' = [papers EXCEPT ![d] = a] /\ dropped' = [dropped EXCEPT ![d] = b]
        /\ client' = [client EXCEPT ![d] = n]
        /\ profile' = [profile EXCEPT ![d] = u] /\ email' = [email EXCEPT ![d] = email[d]]
    <3>1. /\ profile \in [Devices -> Users \cup {Absent}] /\ email \in [Devices -> Users \cup {Absent}]
          /\ dropped \in [Devices -> SUBSET Papers]
      BY <1>1 DEF StateTyped
    <3> QED BY <1>3, <1>8, <2>1, <3>1 DEF PreviewList
  <2> HIDE DEF a, b
  <2>4. Followed(n, a, b, u, {q})
    BY <1>6, <1>7, <2>2, OthersFollowed
  <2>5. x \in n.listening /\ Following(n, a[q], b, u, q)
    BY <1>7, <2>2 DEF Following
  <2>6. Followed(n, a, b, u, {})
    BY <2>4, <2>5, AllFollowed
  <2> QED BY <1>1, <2>3, <2>6, ScreenStep, Zenon
<1>9. CASE v = Absent
  <2> DEFINE r == RemoveUsersPaperId(n, d, q)
  <2>1. client' = [client EXCEPT ![d] = r] /\ UNCHANGED <<papers, dropped, profile, email>>
    BY <1>3, <1>9
  <2>2. InOrder(n, l)
    <3>1. Absorbed(Oldest(d), l, l)
      BY <1>9 DEF Absorbed, v
    <3> QED BY <1>1, <1>4, <3>1, PoppedInOrder
  <2>3. Followed(r, l, m, u, {q})
    BY <1>1, <1>2, <1>6, <2>2, UsersPaperIdFollowed
  <2>4. ASSUME u # Absent PROVE Preview(q) \in r.listening /\ Following(r, l[q], m, u, q)
    <3> DEFINE t == Then("removeUsersPaperId", q)
    <3>1. email[d] = u /\ u # Absent /\ u \in Users
      BY <1>1, <2>4 DEF Followed
    <3>2. User(u) \in Docs /\ t \in ThenType /\ \A w \in ValuesOf(User(u)) : Fits(User(u), w, t)
      BY <1>2, <3>1, ListValue, ThenTyped DEF OpNames, Fits, Then, User
    <3>3. r = Get(n, User(u), t)
      BY <3>1 DEF RemoveUsersPaperId
    <3> HIDE DEF t, r
    <3>4. /\ r.pending = n.pending /\ r.base = n.base /\ r.listening = n.listening
          /\ r.inbox = n.inbox /\ r.raised = n.raised
          /\ \E i \in 1..Len(r.gets) : r.gets[i].doc = User(u) /\ r.gets[i].then = t
      BY <1>7, <3>2, <3>3, GetTurn
    <3>5. RemovalUnderWay(r, u, q)
      BY <3>4 DEF RemovalUnderWay, t
    <3>6. View(r, x) = View(n, x) /\ NewsOf(r, x) = NewsOf(n, x)
      BY <3>4, ViewFrame DEF NewsOf
    <3> QED BY <1>7, <1>9, <3>4, <3>5, <3>6 DEF Following
  <2> HIDE DEF r
  <2>5. Followed(r, l, m, u, {})
    BY <2>3, <2>4, AllFollowed
  <2> QED BY <2>1, <2>5, ScreenClientStep
<1> QED BY <1>8, <1>9

(* The list of a user arrived: the previews that it names are listened to  *)
(* anew, so that all of the user's papers are followed again.              *)
LEMMA ScreenUserSnapshot ==
  ASSUME ScreenIInv, NEW d \in Devices, UserSnapshot(d)
  PROVE  OwnListTracked'
<1> DEFINE v == Oldest(d).val
           ids == IF v = Absent THEN {} ELSE v.paperIds
           known == {p \in ids : Known(client[d], Preview(p))}
           l == papers[d]
           m == dropped[d]
           u == profile[d]
           c == client[d]
           n == Popped(d)
           Q == Touched(Oldest(d), u)
<1>1. /\ c.inbox # << >> /\ Oldest(d).type = "snapshot" /\ Oldest(d).doc.coll = "users"
      /\ IInv /\ Followed(c, l, m, u, {}) /\ ClientOK(c)
  BY ScreenInvariant DEF UserSnapshot, Snapshot, Arrived, Oldest, ScreenIInv
<1>2. /\ Oldest(d).doc.id \in Users /\ Oldest(d).doc = User(Oldest(d).doc.id) /\ Oldest(d).doc \in Docs
      /\ v = Absent \/ v \in PaperIdList
  BY <1>1, OldestTyped, DocumentKinds
<1>3. ids \in SUBSET Papers
  BY <1>2 DEF PaperIdList
<1>4. n = [c EXCEPT !.inbox = Tail(@)] /\ Head(c.inbox) = Oldest(d)
  BY DEF Popped, Oldest
<1>5. PICK list \in ListsOf(known) :
        client' = [client EXCEPT ![d] = FetchPaperPreviews(n, ids, list)]
  BY DEF UserSnapshot
<1>6. UNCHANGED <<papers, dropped, profile, email>>
  BY DEF UserSnapshot, appVars
<1>7. Followed(n, l, m, u, Q)
  BY <1>1, <1>4, PoppedFollowed
<1>8. /\ ClientOK(n) /\ n.pending = c.pending /\ n.base = c.base /\ n.raised = c.raised
      /\ NewsOf(n, Oldest(d).doc) = {} => v = View(c, Oldest(d).doc)
  <2>1. 1 \in NewsOf(c, Oldest(d).doc) /\ NewsInStep(c, Oldest(d).doc)
    <3>1. c.inbox[1] = Oldest(d) /\ 1 \in 1..Len(c.inbox)
      BY <1>1, <1>4, PoppedNews
    <3> QED BY <1>1, <1>2, <3>1 DEF NewsOf, Followed
  <2> DEFINE x == Oldest(d).doc
  <2>2. /\ ClientOK(n) /\ n.pending = c.pending /\ n.base = c.base /\ n.raised = c.raised
        /\ \A y \in Docs : NewsInStep(c, y) =>
             (NewsOf(n, y) = {} /\ NewsOf(c, y) # {} => Head(c.inbox).val = View(c, y))
    BY <1>1, <1>4, PoppedNews
  <2>3. x \in Docs /\ NewsInStep(c, x) /\ NewsOf(c, x) # {} /\ Head(c.inbox).val = v
    BY <1>2, <1>4, <2>1
  <2> HIDE DEF x, n, c, v
  <2>4. NewsOf(n, x) = {} => v = View(c, x)
    BY <2>2, <2>3
  <2> QED BY <2>2, <2>4 DEF x
<1>9. \A y : View(n, y) = View(c, y)
  BY <1>8, ViewFrame
<1>10. known = {p \in ids : Known(n, Preview(p))}
  BY <1>8, <1>9 DEF Known
<1>11. ASSUME u # Absent, Q # {} PROVE Oldest(d).doc = User(u)
  BY <1>1, <1>11 DEF Touched, Preview
<1> HIDE DEF v, c, n, Q
<1> DEFINE r == FetchPaperPreviews(n, ids, list)
<1>12. /\ ClientOK(r) /\ Turn(n, r)
       /\ \A p \in ids : /\ Preview(p) \in r.listening
                         /\ NewsOf(r, Preview(p)) # {} \/ Preview(p) \notin r.raised
       /\ \A w \in Users : NewsOf(r, User(w)) = NewsOf(n, User(w))
       /\ \A y : View(r, y) = View(n, y)
  <2>1. /\ known \in SUBSET ids /\ \A p \in ids : p \in known <=> Known(n, Preview(p))
        /\ list \in ListsOf(known)
    BY <1>5, <1>10
  <2>2. r = FetchPaperPreviews(n, ids, list)
    OBVIOUS
  <2> HIDE DEF known, ids, r
  <2>3. Loaded(n, r, ids)
    BY <1>3, <1>8, <2>1, <2>2, RaisedTurn
  <2> QED BY <2>3 DEF Loaded
<1> HIDE DEF r, known
<1>13. Followed(r, l, m, u, Q)
  BY <1>7, <1>8, <1>12, TurnFollowed
<1>14. ASSUME u # Absent, View(r, User(u)) # Absent, NewsOf(r, User(u)) = {},
              NEW p \in View(r, User(u)).paperIds \cap Q
       PROVE  Preview(p) \in r.listening /\ Following(r, l[p], m, u, p)
  <2>1. Oldest(d).doc = User(u) /\ u \in Users
    BY <1>7, <1>11, <1>14 DEF Followed
  <2>2. View(r, User(u)) = v
    BY <1>8, <1>9, <1>12, <1>14, <2>1
  <2>3. p \in ids
    BY <1>14, <2>2
  <2> QED BY <1>12, <2>3 DEF Following
<1>15. Followed(r, l, m, u, {})
  BY <1>13, <1>14, AllFollowed
<1> QED BY <1>5, <1>6, <1>15, ScreenClientStep DEF r

(* The completion handlers and the answers.                                *)
LEMMA ScreenHandler ==
  ASSUME ScreenIInv, NEW d \in Devices,
         \/ AddPaperDone(d) \/ AddCardDone(d) \/ UpdatePaperDone(d)
         \/ ConvertPaperToGiftDone(d) \/ RemovePaperDone(d) \/ RemovePaperPreviewDone(d)
         \/ RemoveCardGot(d) \/ AddUsersPaperIdGot(d) \/ RemoveUsersPaperIdGot(d)
  PROVE  OwnListTracked'
<1> DEFINE e == Oldest(d)
           c == Popped(d)
           l == papers[d]
           m == dropped[d]
           u == profile[d]
<1>1. client[d].inbox # << >> /\ e.type # "snapshot"
  BY DEF AddPaperDone, AddCardDone, UpdatePaperDone, ConvertPaperToGiftDone,
         RemovePaperDone, RemovePaperPreviewDone, RemoveCardGot, AddUsersPaperIdGot,
         RemoveUsersPaperIdGot, Arrived, Oldest
<1>0. IInv
  BY DEF ScreenIInv
<1>2. /\ e.doc \in Docs /\ e.val \in ValuesOf(e.doc) /\ e.then \in ThenType
      /\ Fits(e.doc, e.val, e.then)
  BY <1>0, <1>1, OldestTyped
<1>3. InOrder(c, l) /\ StateTyped /\ ClientOK(c) /\ ClientOK(client[d])
      /\ Followed(client[d], l, m, u, {})
  BY <1>0, <1>1, PoppedPast, ScreenInvariant, InOrderTyped
<1>4. ASSUME e.then.op \in {"addPaper", "addCard", "updatePaper", "convertPaperToGift"}
      PROVE  e.val \in PaperModel /\ e.doc.id \in Papers
  BY <1>2, <1>4, DocumentKinds DEF Fits
<1>5. ASSUME e.then.op \in {"addUsersPaperId", "removeUsersPaperId"}
      PROVE  /\ e.val \in PaperIdList \cup {Absent} /\ e.then.arg \in Papers
             /\ \E w \in Users : e.doc = User(w)
  BY <1>2, <1>5, DocumentKinds DEF Fits
<1>6. NoCallback \in ThenType /\ \A v \in ValuesOf(e.doc) : Fits(e.doc, v, NoCallback)
  BY ThenTyped DEF NoCallback, OpNames, Fits, Then
<1>7. e.then.op # "removeUsersPaperId" \/ e.val = Absent => Followed(c, l, m, u, {})
  BY <1>1, <1>3, PoppedUntouched DEF Oldest, Popped
<1>8. Followed(c, l, m, u, Touched(e, u))
  BY <1>1, <1>3, PoppedFollowed DEF Oldest, Popped
<1> HIDE DEF c, l, m, u
<1>9. ASSUME NEW n, client' = [client EXCEPT ![d] = n], Followed(n, l, m, u, {}),
             UNCHANGED <<papers, dropped, profile, email>>
      PROVE  OwnListTracked'
  BY <1>9, ScreenClientStep DEF l, m, u
<1>10. CASE AddPaperDone(d)
  <2> DEFINE s == SetPaperPreview(c, e.val)
             n == AddUsersPaperId(s, d, e.doc.id)
  <2>1. e.val \in PaperModel /\ e.doc.id \in Papers /\ Followed(c, l, m, u, {})
    BY <1>4, <1>7, <1>10 DEF AddPaperDone, Arrived, Oldest
  <2>2. InOrder(s, l) /\ Followed(s, l, m, u, {})
    BY <1>3, <2>1, SetPaperPreviewInOrder, SetPaperPreviewFollowed
  <2>3. client' = [client EXCEPT ![d] = n] /\ UNCHANGED <<papers, dropped, profile, email>>
    BY <1>10 DEF AddPaperDone, appVars, c
  <2> HIDE DEF s
  <2>4. Followed(n, l, m, u, {})
    BY <1>3, <2>1, <2>2, UsersPaperIdFollowed
  <2> QED BY <1>9, <2>3, <2>4
<1>11. CASE AddCardDone(d)
  <2>1. Followed(c, l, m, u, {})
    BY <1>7, <1>11 DEF AddCardDone, Arrived, Oldest
  <2> QED BY <1>9, <1>11, <2>1 DEF AddCardDone, c
<1>12. CASE UpdatePaperDone(d)
  <2>1. e.val \in PaperModel /\ Followed(c, l, m, u, {})
    BY <1>4, <1>7, <1>12 DEF UpdatePaperDone, Arrived, Oldest
  <2>2. Followed(SetPaperPreview(c, e.val), l, m, u, {})
    BY <1>3, <2>1, SetPaperPreviewFollowed
  <2> QED BY <1>9, <1>12, <2>2 DEF UpdatePaperDone, appVars, c
<1>13. CASE ConvertPaperToGiftDone(d)
  <2>1. e.val \in PaperModel /\ Followed(c, l, m, u, {})
    BY <1>4, <1>7, <1>13 DEF ConvertPaperToGiftDone, Arrived, Oldest
  <2>2. Followed(SetPaperPreview(c, e.val), l, m, u, {})
    BY <1>3, <2>1, SetPaperPreviewFollowed
  <2> QED BY <1>9, <1>13, <2>2 DEF ConvertPaperToGiftDone, appVars, c
<1>14. CASE RemovePaperDone(d)
  <2> DEFINE p == e.doc.id
             s == RemovePaperPreview(c, p)
             n == RemoveUsersPaperId(s, d, p)
  <2>0. e.then.op = "removePaper"
    BY <1>14 DEF RemovePaperDone, Arrived, Oldest
  <2>1. p \in Papers /\ Followed(c, l, m, u, {})
    BY <1>2, <1>7, <2>0, DocumentKinds DEF Fits
  <2>2. client' = [client EXCEPT ![d] = n] /\ UNCHANGED <<papers, dropped, profile, email>>
    BY <1>14 DEF RemovePaperDone, appVars, c
  <2> HIDE DEF p
  <2>3. InOrder(s, l) /\ Followed(s, l, m, u, {})
    BY <1>3, <2>1, RemovePaperPreviewInOrder, RemovePaperPreviewFollowed
  <2> HIDE DEF s
  <2>4. Followed(n, l, m, u, {})
    BY <1>3, <2>1, <2>3, UsersPaperIdFollowed
  <2> QED BY <1>9, <2>2, <2>4
(* The entry goes: there is no preview, or the entry is noted as missed.   *)
<1>15. CASE RemovePaperPreviewDone(d)
  <2> DEFINE q == e.doc.id
             a == [l EXCEPT ![q] = Absent]
             b == IF View(client[d], Preview(q)) = Absent THEN m \ {q} ELSE m \cup {q}
  <2>0. e.then.op = "removePaperPreview"
    BY <1>15 DEF RemovePaperPreviewDone, Arrived, Oldest
  <2>1. q \in Papers /\ Followed(c, l, m, u, {})
    BY <1>2, <1>7, <2>0, DocumentKinds DEF Fits
  <2>2. papers \in [Devices -> PreviewList] /\ l \in PreviewList
    BY <1>0, InvariantInOrder DEF l
  <2>3. /\ papers' = [papers EXCEPT ![d] = a] /\ dropped' = [dropped EXCEPT ![d] = b]
        /\ client' = [client EXCEPT ![d] = c]
        /\ profile' = [profile EXCEPT ![d] = u] /\ email' = [email EXCEPT ![d] = email[d]]
    <3>1. /\ profile \in [Devices -> Users \cup {Absent}] /\ email \in [Devices -> Users \cup {Absent}]
          /\ dropped \in [Devices -> SUBSET Papers]
      BY <1>3 DEF StateTyped
    <3>2. /\ papers' = [papers EXCEPT ![d][q] = Absent]
          /\ dropped' = [dropped EXCEPT ![d] =
               IF View(client[d], Preview(q)) = Absent THEN @ \ {q} ELSE @ \cup {q}]
          /\ client' = [client EXCEPT ![d] = c] /\ UNCHANGED <<profile, email>>
      BY <1>15 DEF RemovePaperPreviewDone, DropEntry, c
    <3> HIDE DEF q
    <3> QED BY <2>2, <3>1, <3>2 DEF PreviewList, l, m, u
  <2>4. View(client[d], Preview(q)) = View(c, Preview(q))
    <3>1. c.pending = client[d].pending /\ c.base = client[d].base
      BY <1>3 DEF c, Popped, ClientOK, ClientType
    <3> QED BY <3>1, ViewFrame
  <2> HIDE DEF q
  <2>5. /\ a[q] = Absent /\ \A p \in Papers \ {q} : a[p] = l[p] /\ (p \in b <=> p \in m)
        /\ View(c, Preview(q)) = Absent \/ q \in b
    BY <2>1, <2>2, <2>4 DEF PreviewList
  <2> HIDE DEF a, b
  <2>6. Followed(c, a, b, u, {q})
    <3>1. Followed(c, l, m, u, {q}) /\ ClientOK(c)
      BY <1>3, <2>1, FewerFollowed
    <3> HIDE DEF c, l, m, u
    <3> QED BY <2>5, <3>1, OthersFollowed
  <2>7. u # Absent /\ View(c, User(u)) # Absent /\ NewsOf(c, User(u)) = {} =>
          \A p \in View(c, User(u)).paperIds \cap {q} :
            Preview(p) \in c.listening /\ Following(c, a[p], b, u, p)
    BY <2>1, <2>5 DEF Followed, Following
  <2>8. Followed(c, a, b, u, {})
    BY <2>6, <2>7, AllFollowed
  <2>9. u # Absent => email[d] = u
    BY ScreenInvariant DEF u
  <2> QED BY <2>3, <2>8, <2>9, ScreenStep, Zenon
<1>16. CASE RemoveCardGot(d)
  <2> DEFINE paper == [e.val EXCEPT !.cards = @ \ {e.then.arg}]
             n == IF e.val = Absent THEN c ELSE WritePaper(c, paper, "updatePaper")
  <2>1. client' = [client EXCEPT ![d] = n] /\ UNCHANGED <<papers, dropped, profile, email>>
    BY <1>16 DEF RemoveCardGot, appVars, c
  <2>2. e.then.op = "removeCard"
    BY <1>16 DEF RemoveCardGot, Arrived, Oldest
  <2>3. ASSUME e.val # Absent PROVE paper \in PaperModel
    <3>1. e.val \in PaperModel
      BY <1>2, <2>2, <2>3, DocumentKinds DEF Fits
    <3> QED BY <3>1 DEF PaperModel
  <2>4. Followed(c, l, m, u, {})
    BY <1>7, <2>2
  <2> HIDE DEF paper
  <2>5. Followed(n, l, m, u, {})
    BY <1>3, <2>3, <2>4, WritePaperFollowed
  <2> QED BY <1>9, <2>1, <2>5
<1>17. CASE AddUsersPaperIdGot(d)
  <2> DEFINE ids == IF e.val = Absent THEN {} ELSE e.val.paperIds
             v == [paperIds |-> ids \cup {e.then.arg}]
             n == Write(c, e.doc, v, NoCallback)
  <2>1. client' = [client EXCEPT ![d] = n] /\ UNCHANGED <<papers, dropped, profile, email>>
    BY <1>17 DEF AddUsersPaperIdGot, appVars, c
  <2>2. e.then.op = "addUsersPaperId"
    BY <1>17 DEF AddUsersPaperIdGot, Arrived, Oldest
  <2>3. v \in PaperIdList
    BY <1>5, <2>2 DEF PaperIdList
  <2>4. v \in ValuesOf(e.doc) /\ Followed(c, l, m, u, {})
    BY <1>5, <1>7, <2>2, <2>3, ListValue
  <2> HIDE DEF v
  <2>5. Followed(n, l, m, u, {})
    BY <1>2, <1>3, <1>6, <2>4, WriteFollowed
  <2> QED BY <1>9, <2>1, <2>5
(* The paper goes from the list that the client sees from now on.          *)
<1>18. CASE RemoveUsersPaperIdGot(d)
  <2> DEFINE q == e.then.arg
             v == [e.val EXCEPT !.paperIds = @ \ {q}]
             n == Write(c, e.doc, v, NoCallback)
  <2>1. /\ client' = [client EXCEPT ![d] = IF e.val = Absent THEN c ELSE n]
        /\ UNCHANGED <<papers, dropped, profile, email>>
    BY <1>18 DEF RemoveUsersPaperIdGot, appVars, c
  <2>2. e.then.op = "removeUsersPaperId" /\ e.type = "got"
    BY <1>18 DEF RemoveUsersPaperIdGot, Arrived, Oldest
  <2>3. CASE e.val = Absent
    BY <1>7, <1>9, <2>1, <2>3
  <2>4. CASE e.val # Absent
    <3>1. v \in PaperIdList /\ q \notin v.paperIds
      BY <1>5, <2>2, <2>4 DEF PaperIdList
    <3>2. v \in ValuesOf(e.doc)
      BY <1>5, <2>2, <3>1, ListValue
    <3> HIDE DEF v
    <3>3. Followed(n, l, m, u, Touched(e, u))
      BY <1>2, <1>3, <1>6, <1>8, <3>2, WriteFollowed
    <3>4. View(n, e.doc) = v
      BY <1>2, <1>3, <1>6, <3>2, WriteTurn
    <3>5. ASSUME NEW p \in Touched(e, u) PROVE p = q /\ e.doc = User(u)
      BY <2>2, <3>5 DEF Touched, Then
    <3>6. Touched(e, u) \cap View(n, User(u)).paperIds = {}
      BY <3>1, <3>4, <3>5
    <3>7. Followed(n, l, m, u, {})
      BY <3>3, <3>6, AllFollowed
    <3> QED BY <1>9, <2>1, <2>4, <3>7
  <2> QED BY <2>3, <2>4
<1> QED BY <1>10, <1>11, <1>12, <1>13, <1>14, <1>15, <1>16, <1>17, <1>18

-----------------------------------------------------------------------------
(* The theorems                                                            *)

LEMMA ScreenNext == ScreenIInv /\ [Next]_vars => ScreenIInv'
<1> SUFFICES ASSUME ScreenIInv, [Next]_vars PROVE ScreenIInv'
  OBVIOUS
<1>1. IInv'
  BY NextInvariant DEF ScreenIInv
<1>2. ASSUME NEW d \in Devices, Operation(d) PROVE OwnListTracked'
  BY <1>2, ScreenOperation
<1>3. ASSUME NEW d \in Devices, Callback(d) PROVE OwnListTracked'
  BY <1>3, ScreenPaperSnapshot, ScreenPreviewSnapshot, ScreenUserSnapshot, ScreenHandler DEF Callback
<1>4. ASSUME NEW d \in Devices, Network(d) PROVE OwnListTracked'
  BY <1>4, ScreenNetwork
<1>5. ASSUME UNCHANGED vars PROVE OwnListTracked'
  <2>1. /\ client' = client /\ papers' = papers /\ dropped' = dropped
        /\ email' = email /\ profile' = profile
    BY <1>5 DEF vars, appVars
  <2>2. CASE Devices = {}
    BY <2>2 DEF OwnListTracked
  <2>3. ASSUME NEW d \in Devices PROVE OwnListTracked'
    <3>1. client' = [client EXCEPT ![d] = client[d]]
      BY <2>1, InvariantInOrder DEF ScreenIInv
    <3>2. Followed(client[d], papers[d], dropped[d], profile[d], {})
      BY ScreenInvariant
    <3> QED BY <2>1, <3>1, <3>2, ScreenClientStep
  <2> QED BY <2>2, <2>3
<1> QED BY <1>1, <1>2, <1>3, <1>4, <1>5 DEF Next, ScreenIInv

(* The signed-in user's list, the previews it names and the entries shown  *)
(* follow each other through every interleaving of writes, refusals, late  *)
(* answers and listener events that loadPaperPreviews and the closures of  *)
(* FirestoreManager meet.                                                  *)
THEOREM OwnListIsTracked == Spec => []OwnListTracked
<1>1. ScreenIInv => OwnListTracked
  BY DEF ScreenIInv
<1> QED BY <1>1, ScreenInit, ScreenNext, PTL DEF Spec

(* Once a device is quiet, every paper of its user's list that has a       *)
(* preview is shown, but for an entry that the late completion of a        *)
(* removal took away: what loadPaperPreviews is for.                       *)
THEOREM OwnPapersAreShown == Spec => []OwnPapersShown
<1>1. ScreenIInv => OwnPapersShown
  <2> SUFFICES ASSUME ScreenIInv, NEW d \in Devices, Quiet(d), profile[d] # Absent,
                      server[User(profile[d])] # Absent,
                      NEW p \in server[User(profile[d])].paperIds \ dropped[d]
               PROVE  papers[d][p] = server[Preview(p)]
    BY DEF OwnPapersShown
  <2> DEFINE c == client[d]
             u == profile[d]
  <2>1. Followed(c, papers[d], dropped[d], u, {}) /\ u \in Users /\ User(u) \in c.listening
    BY ScreenInvariant DEF Followed
  <2>2. \A y : NewsOf(c, y) = {} /\ ~RemovalUnderWay(c, u, p)
    BY DEF Quiet, NewsOf, RemovalUnderWay
  <2>3. \A y \in c.listening : View(c, y) = server[y] /\ y \in c.raised
    BY DEF Quiet, View, PendingOn
  <2>4. Preview(p) \in c.listening /\ Following(c, papers[d][p], dropped[d], u, p)
    BY <2>1, <2>2, <2>3 DEF Followed
  <2> QED BY <2>2, <2>3, <2>4 DEF Following
<1> QED BY <1>1, ScreenInit, ScreenNext, PTL DEF Spec

-----------------------------------------------------------------------------
(* The open paper                                                          *)

(* The operations that go together with addCard.                           *)
BoardOps == {"fetchPaper", "resetPaper", "addCard", "convertPaperToGift", "profile", "restart"}

(* Nobody publishes a paper; if cards are added, papers change in no other *)
(* way.                                                                    *)
OpsFit == "addPaper" \notin Ops /\ ("addCard" \in Ops => Ops \subseteq BoardOps)

(* A paper is read, to take a card off it, where others add cards.         *)
Reread(op) == op = "removeCard" /\ "addCard" \in Ops

CardsOf(v) == IF v = Absent THEN {} ELSE v.cards

(* The callbacks under way that will set the publisher of the open paper,  *)
(* and the writes of addCard.                                              *)
Setters(c) == {i \in 1..Len(c.inbox) : SetsSubject(c.inbox[i])}

Adding(c) == {i \in 1..Len(c.pending) : c.pending[i].then.op = "addCard"}

(* The publisher holds v, or will once the callbacks under way have run.   *)
Shows(c, shown, v) ==
  /\ Setters(c) = {} => shown = v
  /\ \A i \in Setters(c) : (\A j \in Setters(c) : j <= i) => c.inbox[i].val = v

(* With the paper x open, and no other since the start, what the client    *)
(* sees of it is or will be shown; a write of addCard yet to come would    *)
(* set it again.                                                           *)
BoardShown(c, shown, observer, x) ==
  /\ c.listening \cap PaperDocs = {x} /\ observer # Absent
  /\ PendingOn(c, x) \cap Adding(c) = {}
  => Shows(c, shown, View(c, x))

(* The cards that a device has anywhere.                                   *)
Carried(c, shown) ==
  {k \in Cards :
     \/ \E y \in PaperDocs : k \in CardsOf(c.base[y])
     \/ \E i \in 1..Len(c.pending) : c.pending[i].doc \in PaperDocs /\ k \in CardsOf(c.pending[i].val)
     \/ \E i \in Setters(c) : k \in CardsOf(c.inbox[i].val)
     \/ k \in CardsOf(shown)}

(* A write of addCard has a card that is not in K, nor in the copies that  *)
(* the client received, nor in an older write.                             *)
FreshWrites(c, K) ==
  \A i \in Adding(c) : \E k \in CardsOf(c.pending[i].val) :
    /\ k \notin K
    /\ \A y \in PaperDocs : k \notin CardsOf(c.base[y])
    /\ \A j \in 1..(i - 1) : c.pending[j].doc \in PaperDocs => k \notin CardsOf(c.pending[j].val)

(* The client c of a device that shows shown and opened observer: what     *)
(* sets the publisher is about a paper whose listener was heard, the       *)
(* writes of a paper end with those of addCard, and nobody reads a paper   *)
(* to write it back.                                                       *)
BoardInOrder(c, shown) ==
  /\ ClientOK(c) /\ shown \in PaperModel \cup {Absent}
  /\ "addCard" \notin Ops => Adding(c) = {}
  /\ \A i \in Setters(c) : c.inbox[i].doc \in c.raised
  /\ \A i \in Adding(c) : c.pending[i].doc \in c.raised
  /\ shown # Absent => Paper(shown.id) \in c.raised
  /\ \A y \in PaperDocs : y \in c.raised => y \in c.listening
  /\ \A i \in Adding(c), j \in 1..Len(c.pending) :
       i < j /\ c.pending[j].doc = c.pending[i].doc => j \in Adding(c)
  /\ \A i \in 1..Len(c.gets) : ~Reread(c.gets[i].then.op)
  /\ \A i \in 1..Len(c.inbox) : c.inbox[i].type # "got" \/ ~Reread(c.inbox[i].then.op)

(* Moreover its cards are of L, those of its writes not of K, and it       *)
(* listens to papers of M alone; it shows the open paper, unless that is   *)
(* in Q.                                                                   *)
Board(c, shown, observer, K, L, M, Q) ==
  /\ BoardInOrder(c, shown)
  /\ FreshWrites(c, K)
  /\ Carried(c, shown) \subseteq L
  /\ \A p \in Papers : Paper(p) \in c.listening => p \in M
  /\ \A x \in PaperDocs \ Q : BoardShown(c, shown, observer, x)

LEMMA ClientTyped ==
  ASSUME NEW c, ClientOK(c)
  PROVE  /\ c \in ClientType /\ c.pending \in Seq(WriteType) /\ c.gets \in Seq(GetType)
         /\ c.inbox \in Seq(EventType) /\ c.base \in [Docs -> Value]
         /\ c.listening \subseteq Docs /\ c.raised \subseteq Docs
         /\ Len(c.pending) \in Nat /\ Len(c.inbox) \in Nat /\ Len(c.gets) \in Nat
BY LenProperties DEF ClientOK, ClientType

LEMMA PaperDocsAre ==
  ASSUME NEW x \in Docs
  PROVE  /\ x \in PaperDocs <=> x.coll = "papers"
         /\ x \in PaperDocs => \A v \in ValuesOf(x) : v # Absent => v \in PaperModel /\ Paper(v.id) = x
<1>1. x \in PaperDocs => x.coll = "papers"
  BY DEF PaperDocs, Paper
<1>2. ASSUME x.coll = "papers"
      PROVE  /\ x \in PaperDocs
             /\ \A v \in ValuesOf(x) : v # Absent => v \in PaperModel /\ Paper(v.id) = x
  <2>1. /\ x.id \in Papers /\ x = Paper(x.id)
        /\ \A v \in ValuesOf(x) : v = Absent \/ (v \in PaperModel /\ v.id = x.id)
    BY <1>2, DocumentKinds
  <2> QED BY <2>1 DEF PaperDocs
<1> QED BY <1>1, <1>2

LEMMA CardsAre ==
  ASSUME NEW x \in PaperDocs, NEW v \in ValuesOf(x)
  PROVE  CardsOf(v) \subseteq Cards
<1>1. x \in Docs
  BY DEF Docs
<1>2. v # Absent => v \in PaperModel
  BY <1>1, PaperDocsAre
<1> QED BY <1>2 DEF CardsOf, PaperModel

(* Writes of addCard, and callbacks that set the publisher, are about      *)
(* papers.                                                                 *)
LEMMA SettersTyped ==
  ASSUME NEW e \in EventType, SetsSubject(e)
  PROVE  e.doc \in PaperDocs /\ e.val \in ValuesOf(e.doc)
<1>1. e.doc \in Docs /\ Fits(e.doc, e.val, e.then)
  BY DEF EventType
<1>2. e.doc.coll = "papers" /\ e.val \in ValuesOf(e.doc)
  BY <1>1 DEF Fits, SetsSubject
<1> QED BY <1>1, <1>2, PaperDocsAre

LEMMA AddingTyped ==
  ASSUME NEW c, ClientOK(c), NEW i \in Adding(c)
  PROVE  /\ i \in 1..Len(c.pending) /\ c.pending[i] \in WriteType
         /\ c.pending[i].doc \in PaperDocs /\ c.pending[i].val \in ValuesOf(c.pending[i].doc)
         /\ c.pending[i].val # Absent
<1>1. i \in 1..Len(c.pending) /\ c.pending \in Seq(WriteType) /\ c.pending[i].then.op = "addCard"
  BY ClientTyped DEF Adding
<1>2. c.pending[i] \in WriteType
  BY <1>1, ElementOfSeq
<1>3. c.pending[i].doc \in Docs /\ Fits(c.pending[i].doc, c.pending[i].val, c.pending[i].then)
  BY <1>2 DEF WriteType
<1>4. c.pending[i].doc.coll = "papers" /\ c.pending[i].val \in ValuesOf(c.pending[i].doc)
      /\ c.pending[i].val # Absent
  BY <1>1, <1>3 DEF Fits
<1> QED BY <1>1, <1>2, <1>3, <1>4, PaperDocsAre

(* What a client sees of a paper is among its cards.                       *)
LEMMA ViewCarried ==
  ASSUME NEW c, ClientOK(c), NEW s, NEW x \in PaperDocs
  PROVE  CardsOf(View(c, x)) \subseteq Carried(c, s)
<1>0. x \in Docs
  BY DEF Docs
<1>1. CardsOf(View(c, x)) \subseteq Cards
  BY <1>0, ViewType, CardsAre
<1>2. CASE PendingOn(c, x) = {}
  BY <1>1, <1>2 DEF View, Carried
<1>3. CASE PendingOn(c, x) # {}
  <2> DEFINE i == LastPending(c, x)
  <2>1. i \in PendingOn(c, x)
    BY <1>3, ClientTyped, LastPendingIsNewest
  <2>2. View(c, x) = c.pending[i].val
    BY <1>3 DEF View
  <2> HIDE DEF i
  <2>3. i \in 1..Len(c.pending) /\ c.pending[i].doc = x
    BY <2>1 DEF PendingOn
  <2> QED BY <1>1, <2>2, <2>3 DEF Carried
<1> QED BY <1>2, <1>3

-----------------------------------------------------------------------------
(* The client's operators keep the board in order                          *)

(* The paper alone is left out of what is shown.                           *)
LEMMA ExceptBoard ==
  ASSUME NEW c, NEW s, NEW o, NEW K, NEW L, NEW M, Board(c, s, o, K, L, M, {}),
         NEW Q
  PROVE  Board(c, s, o, K, L, M, Q)
BY DEF Board

LEMMA WholeBoard ==
  ASSUME NEW c, NEW s, NEW o, NEW K, NEW L, NEW M, NEW x, Board(c, s, o, K, L, M, {x}),
         x \in PaperDocs => BoardShown(c, s, o, x)
  PROVE  Board(c, s, o, K, L, M, {})
BY DEF Board

(* A change that the board does not notice.                                *)
LEMMA SameBoard ==
  ASSUME NEW c, NEW s, NEW o, NEW K, NEW L, NEW M, NEW Q, Board(c, s, o, K, L, M, Q),
         NEW n, ClientOK(n), n.pending = c.pending,
         \A y \in PaperDocs : /\ n.base[y] = c.base[y]
                              /\ y \in n.listening <=> y \in c.listening
                              /\ y \in c.raised => y \in n.raised
                              /\ y \in n.raised => y \in n.listening,
         Setters(n) = Setters(c), \A i \in Setters(c) : n.inbox[i] = c.inbox[i],
         \A i \in 1..Len(n.gets) : ~Reread(n.gets[i].then.op),
         \A i \in 1..Len(n.inbox) : n.inbox[i].type # "got" \/ ~Reread(n.inbox[i].then.op)
  PROVE  Board(n, s, o, K, L, M, Q)
<1>1. Adding(n) = Adding(c) /\ \A x : PendingOn(n, x) = PendingOn(c, x)
  BY DEF Adding, PendingOn
<1>2. /\ \A i \in Setters(c) : c.inbox[i].doc \in PaperDocs
      /\ \A i \in Adding(c) : c.pending[i].doc \in PaperDocs
      /\ s # Absent => Paper(s.id) \in PaperDocs
  <2>1. ClientOK(c) /\ s \in PaperModel \cup {Absent}
    BY DEF Board, BoardInOrder
  <2>2. ASSUME NEW i \in Setters(c) PROVE c.inbox[i].doc \in PaperDocs
    <3>1. c.inbox[i] \in EventType /\ SetsSubject(c.inbox[i])
      BY <2>1, ClientTyped, ElementOfSeq DEF Setters
    <3> QED BY <3>1, SettersTyped
  <2>3. s # Absent => Paper(s.id) \in PaperDocs
    BY <2>1 DEF PaperDocs, PaperModel
  <2> QED BY <2>1, <2>2, <2>3, AddingTyped
<1>3. BoardInOrder(n, s)
  BY <1>1, <1>2 DEF Board, BoardInOrder
<1>4. FreshWrites(n, K)
  BY <1>1 DEF Board, FreshWrites
<1>5. Carried(n, s) \subseteq L
  <2>1. Carried(n, s) = Carried(c, s)
    BY DEF Carried
  <2> QED BY <2>1 DEF Board
<1>6. \A p \in Papers : Paper(p) \in n.listening => p \in M
  BY DEF Board, PaperDocs
<1>7. ASSUME NEW x \in PaperDocs \ Q PROVE BoardShown(n, s, o, x)
  <2>1. View(n, x) = View(c, x)
    BY ViewFrame
  <2>2. n.listening \cap PaperDocs = c.listening \cap PaperDocs
    OBVIOUS
  <2>3. BoardShown(c, s, o, x)
    BY DEF Board
  <2>4. Shows(c, s, View(c, x)) => Shows(n, s, View(n, x))
    BY <2>1 DEF Shows
  <2> QED BY <1>1, <2>2, <2>3, <2>4 DEF BoardShown
<1> QED BY <1>3, <1>4, <1>5, <1>6, <1>7 DEF Board

(* A callback that does not set the publisher is queued.                   *)
LEMMA PostedBoard ==
  ASSUME NEW c, NEW s, NEW o, NEW K, NEW L, NEW M, NEW Q, Board(c, s, o, K, L, M, Q),
         NEW e \in EventType, ~SetsSubject(e), e.type # "got" \/ ~Reread(e.then.op)
  PROVE  Board(Post(c, e), s, o, K, L, M, Q)
<1> DEFINE n == Post(c, e)
           k == Len(c.inbox)
<1>0. ClientOK(c) /\ c.inbox \in Seq(EventType)
  BY ClientTyped DEF Board, BoardInOrder
<1>1. /\ ClientOK(n) /\ n.pending = c.pending /\ n.base = c.base
      /\ n.listening = c.listening /\ n.gets = c.gets /\ n.inbox = Append(c.inbox, e)
      /\ n.raised = c.raised
  BY <1>0, PostEffect DEF Post, ClientOK, ClientType
<1> HIDE DEF n
<1>2. /\ k \in Nat /\ Len(n.inbox) = k + 1 /\ n.inbox[k + 1] = e
      /\ \A i \in 1..k : n.inbox[i] = c.inbox[i]
  BY <1>0, <1>1, AppendProperties, LenProperties
<1> HIDE DEF k
<1>3. Setters(n) = Setters(c) /\ \A i \in Setters(c) : n.inbox[i] = c.inbox[i]
  <2>1. 1..Len(n.inbox) = 1..k \cup {k + 1} /\ Len(c.inbox) = k
    BY <1>2 DEF k
  <2> QED BY <1>2, <2>1 DEF Setters
<1>4. \A i \in 1..Len(n.inbox) : n.inbox[i].type # "got" \/ ~Reread(n.inbox[i].then.op)
  <2>1. \A i \in 1..k : c.inbox[i].type # "got" \/ ~Reread(c.inbox[i].then.op)
    BY DEF Board, BoardInOrder, k
  <2> QED BY <1>2, <2>1
<1>5. /\ \A i \in 1..Len(n.gets) : ~Reread(n.gets[i].then.op)
      /\ \A y \in PaperDocs : y \in n.raised => y \in n.listening
  BY <1>1 DEF Board, BoardInOrder
<1>6. Board(n, s, o, K, L, M, Q)
  BY <1>1, <1>3, <1>4, <1>5, SameBoard
<1> QED BY <1>6 DEF n

(* A callback that sets the publisher to what the client sees of the open  *)
(* paper.                                                                  *)
LEMMA SettingBoard ==
  ASSUME NEW c, NEW s, NEW o, NEW K, NEW L, NEW M, NEW x, Board(c, s, o, K, L, M, {x}),
         NEW e \in EventType, SetsSubject(e), e.type # "got" \/ ~Reread(e.then.op), e.doc = x,
         x \in c.raised, CardsOf(e.val) \subseteq L,
         PendingOn(c, x) \cap Adding(c) = {} => e.val = View(c, x)
  PROVE  Board(Post(c, e), s, o, K, L, M, {})
<1> DEFINE n == Post(c, e)
           k == Len(c.inbox)
<1>0. ClientOK(c) /\ c.inbox \in Seq(EventType) /\ BoardInOrder(c, s)
  BY ClientTyped DEF Board, BoardInOrder
<1>1. /\ ClientOK(n) /\ n.pending = c.pending /\ n.base = c.base
      /\ n.listening = c.listening /\ n.gets = c.gets /\ n.inbox = Append(c.inbox, e)
      /\ n.raised = c.raised
  BY <1>0, PostEffect DEF Post, ClientOK, ClientType
<1> HIDE DEF n
<1>2. /\ k \in Nat /\ Len(n.inbox) = k + 1 /\ n.inbox[k + 1] = e
      /\ \A i \in 1..k : n.inbox[i] = c.inbox[i]
  BY <1>0, <1>1, AppendProperties, LenProperties
<1> HIDE DEF k
<1>3. Setters(n) = Setters(c) \cup {k + 1} /\ Setters(c) \subseteq 1..k
  <2>1. 1..Len(n.inbox) = 1..k \cup {k + 1} /\ Len(c.inbox) = k
    BY <1>2 DEF k
  <2> QED BY <1>2, <2>1 DEF Setters
<1>4. Adding(n) = Adding(c) /\ \A y : PendingOn(n, y) = PendingOn(c, y)
  BY <1>1 DEF Adding, PendingOn
<1>5. x \in PaperDocs /\ x \in n.listening
  BY <1>0, <1>1, SettersTyped DEF BoardInOrder
<1>6. BoardInOrder(n, s)
  <2>1. \A i \in Setters(n) : n.inbox[i].doc \in n.raised
    BY <1>0, <1>1, <1>2, <1>3 DEF BoardInOrder
  <2>2. \A i \in 1..Len(n.inbox) : n.inbox[i].type # "got" \/ ~Reread(n.inbox[i].then.op)
    <3>1. \A i \in 1..k : c.inbox[i].type # "got" \/ ~Reread(c.inbox[i].then.op)
      BY <1>0 DEF BoardInOrder, k
    <3> QED BY <1>2, <3>1
  <2> QED BY <1>0, <1>1, <1>4, <2>1, <2>2 DEF BoardInOrder
<1>7. FreshWrites(n, K)
  BY <1>1, <1>4 DEF Board, FreshWrites
<1>8. Carried(n, s) \subseteq L
  <2>1. Carried(c, s) \subseteq L
    BY DEF Board
  <2>2. \A i \in Setters(n) : (i \in Setters(c) /\ n.inbox[i] = c.inbox[i]) \/ n.inbox[i] = e
    BY <1>2, <1>3
  <2>3. ASSUME NEW h \in Carried(n, s) PROVE h \in L
    <3>1. CASE \E i \in Setters(n) : h \in CardsOf(n.inbox[i].val)
      BY <2>1, <2>2, <2>3, <3>1 DEF Carried
    <3>2. CASE ~\E i \in Setters(n) : h \in CardsOf(n.inbox[i].val)
      BY <1>1, <2>1, <2>3, <3>2 DEF Carried
    <3> QED BY <3>1, <3>2
  <2> QED BY <2>3
<1>9. \A p \in Papers : Paper(p) \in n.listening => p \in M
  BY <1>1 DEF Board
<1>10. ASSUME NEW y \in PaperDocs PROVE BoardShown(n, s, o, y)
  <2>1. CASE y # x
    BY <1>5, <2>1 DEF BoardShown
  <2>2. CASE y = x
    <3>1. View(n, x) = View(c, x)
      BY <1>1, ViewFrame
    <3>2. ASSUME NEW i \in Setters(n), \A j \in Setters(n) : j <= i PROVE n.inbox[i] = e
      <4>1. k + 1 <= i /\ i \in 1..k \cup {k + 1}
        BY ONLY <1>2, <1>3, <3>2
      <4>2. i = k + 1
        BY <1>2, <4>1
      <4> QED BY <1>2, <4>2
    <3>3. Setters(n) # {}
      BY <1>3
    <3> QED BY <1>4, <2>2, <3>1, <3>2, <3>3 DEF BoardShown, Shows
  <2> QED BY <2>1, <2>2
<1>11. Board(n, s, o, K, L, M, {})
  BY <1>6, <1>7, <1>8, <1>9, <1>10 DEF Board
<1> QED BY <1>11 DEF n

(* A listener is told what the client sees.                                *)
LEMMA SnapshotBoard ==
  ASSUME NEW c, NEW s, NEW o, NEW K, NEW L, NEW M, NEW x \in Docs, Board(c, s, o, K, L, M, {x}),
         x \in c.listening
  PROVE  Board(PostSnapshot(c, x, View(c, x)), s, o, K, L, M, {})
<1> DEFINE r == [c EXCEPT !.raised = @ \cup {x}]
           e == Event("snapshot", x, View(c, x), NoCallback)
<1>0. ClientOK(c) /\ BoardInOrder(c, s)
  BY DEF Board, BoardInOrder
<1>1. /\ r \in ClientType
      /\ r.pending = c.pending /\ r.base = c.base /\ r.listening = c.listening
      /\ r.inbox = c.inbox /\ r.gets = c.gets /\ r.raised = c.raised \cup {x}
  BY <1>0 DEF ClientOK, ClientType
<1> HIDE DEF r
<1>2. ClientOK(r) /\ Setters(r) = Setters(c)
  BY <1>0, <1>1 DEF ClientOK, Setters
<1>3. Board(r, s, o, K, L, M, {x})
  <2>1. /\ \A y \in PaperDocs : y \in c.raised => y \in c.listening
        /\ \A i \in 1..Len(c.gets) : ~Reread(c.gets[i].then.op)
        /\ \A i \in 1..Len(c.inbox) : c.inbox[i].type # "got" \/ ~Reread(c.inbox[i].then.op)
    BY <1>0 DEF BoardInOrder
  <2> QED BY <1>1, <1>2, <2>1, SameBoard
<1>4. /\ e \in EventType /\ e.doc = x /\ e.val = View(c, x) /\ e.type = "snapshot"
      /\ e.then.op = "none"
  BY <1>0, ViewType, SnapshotType DEF Event, NoCallback, Then
<1>5. View(r, x) = View(c, x)
  BY <1>1, ViewFrame
<1> HIDE DEF e
<1>6. CASE x \notin PaperDocs
  <2>1. ~SetsSubject(e)
    BY <1>4, <1>6, SettersTyped
  <2> QED BY <1>3, <1>4, <1>6, <2>1, PostedBoard, WholeBoard DEF PostSnapshot, r, e
<1>7. CASE x \in PaperDocs
  <2>1. SetsSubject(e)
    BY <1>4, <1>7, PaperDocsAre DEF SetsSubject
  <2>2. CardsOf(e.val) \subseteq L
    BY <1>0, <1>4, <1>7, ViewCarried DEF Board
  <2>3. Board(Post(r, e), s, o, K, L, M, {})
    BY <1>1, <1>3, <1>4, <1>5, <2>1, <2>2, SettingBoard
  <2> QED BY <2>3 DEF PostSnapshot, r, e
<1> QED BY <1>6, <1>7

LEMMA NotifiedBoard ==
  ASSUME NEW c, NEW n, NEW s, NEW o, NEW K, NEW L, NEW M, NEW x \in Docs,
         Board(n, s, o, K, L, M, {x}),
         x \in PaperDocs /\ View(n, x) = View(c, x) => BoardShown(n, s, o, x)
  PROVE  Board(Notify(c, n, x), s, o, K, L, M, {})
<1>1. CASE x \in n.listening /\ View(n, x) # View(c, x)
  BY <1>1, SnapshotBoard DEF Notify
<1>2. CASE ~(x \in n.listening /\ View(n, x) # View(c, x))
  <2>1. x \in PaperDocs => BoardShown(n, s, o, x)
    BY <1>2 DEF BoardShown
  <2> QED BY <1>2, <2>1, WholeBoard DEF Notify
<1> QED BY <1>1, <1>2

(* The cards of the backend's papers.                                      *)
OnServer == {k \in Cards : \E y \in PaperDocs : k \in CardsOf(server[y])}

(* The backend's document arrives.                                         *)
LEMMA ReceivedBoard ==
  ASSUME NEW c, NEW s, NEW o, NEW K, NEW L, NEW M, Board(c, s, o, K, L, M, {}),
         NEW x \in Docs, server[x] \in ValuesOf(x), OnServer \subseteq K, OnServer \subseteq L
  PROVE  Board(Received(c, x), s, o, K, L, M, {})
<1> DEFINE n == [c EXCEPT !.base[x] = server[x]]
<1>0. /\ ClientOK(c) /\ c \in ClientType /\ c.base \in [Docs -> Value] /\ BoardInOrder(c, s)
      /\ server[x] \in Value
  BY ClientTyped, ValueKnown DEF Board, BoardInOrder
<1>1. Received(c, x) = IF x \in c.listening \ c.raised THEN PostSnapshot(n, x, View(n, x))
                       ELSE Notify(c, n, x)
  BY DEF Received
<1>2. /\ n \in ClientType /\ n.raised = c.raised /\ n.gets = c.gets
      /\ n.pending = c.pending /\ n.base = [c.base EXCEPT ![x] = server[x]]
      /\ n.listening = c.listening /\ n.inbox = c.inbox
  BY <1>0 DEF ClientType
<1>3. \A y \in PaperDocs : n.base[y] = IF y = x THEN server[x] ELSE c.base[y]
  BY <1>0, <1>2 DEF Docs
<1> HIDE DEF n
<1>4. /\ Adding(n) = Adding(c) /\ Setters(n) = Setters(c)
      /\ \A y : PendingOn(n, y) = PendingOn(c, y)
  BY <1>2 DEF Adding, Setters, PendingOn
<1>5. BoardInOrder(n, s)
  <2>1. ClientOK(n)
    BY <1>0, <1>2 DEF ClientOK
  <2> QED BY <1>0, <1>2, <1>4, <2>1 DEF BoardInOrder
<1>6. x \in PaperDocs => CardsOf(server[x]) \subseteq OnServer
  BY CardsAre DEF OnServer
<1>7. FreshWrites(n, K)
  BY <1>2, <1>3, <1>4, <1>6 DEF Board, FreshWrites
<1>8. Carried(n, s) \subseteq L
  <2>1. Carried(n, s) \subseteq Carried(c, s) \cup OnServer
    BY <1>2, <1>3, <1>4, <1>6 DEF Carried
  <2> QED BY <2>1 DEF Board
<1>9. ASSUME NEW y \in PaperDocs, View(n, y) = View(c, y) PROVE BoardShown(n, s, o, y)
  <2>1. BoardShown(c, s, o, y)
    BY DEF Board
  <2>2. Shows(c, s, View(c, y)) => Shows(n, s, View(n, y))
    BY <1>2, <1>4, <1>9 DEF Shows
  <2> QED BY <1>2, <1>4, <2>1, <2>2 DEF BoardShown
<1>10. Board(n, s, o, K, L, M, {x})
  <2>1. ASSUME NEW y \in PaperDocs \ {x} PROVE BoardShown(n, s, o, y)
    <3>1. View(n, y) = View(c, y)
      BY <1>2, <1>3, ViewFrame
    <3> QED BY <1>9, <3>1
  <2>2. \A p \in Papers : Paper(p) \in n.listening => p \in M
    BY <1>2 DEF Board
  <2> QED BY <1>5, <1>7, <1>8, <2>1, <2>2 DEF Board
<1>11. Board(Notify(c, n, x), s, o, K, L, M, {})
  BY <1>9, <1>10, NotifiedBoard
<1>12. CASE x \in c.listening \ c.raised
  BY <1>1, <1>2, <1>10, <1>12, SnapshotBoard
<1> QED BY <1>1, <1>11, <1>12

(* A document is written: a paper by addCard, with a card that is new to   *)
(* the device and to K, or else one that addCard does not write.           *)
LEMMA WriteBoard ==
  ASSUME NEW c, NEW s, NEW o, NEW K, NEW L, NEW M, Board(c, s, o, K, L, M, {}),
         NEW x \in Docs, NEW v \in ValuesOf(x), NEW t \in ThenType, Fits(x, v, t),
         x \in PaperDocs => CardsOf(v) \subseteq L,
         IF t.op = "addCard"
           THEN "addCard" \in Ops /\ x \in c.raised /\ \E k \in CardsOf(v) : k \notin K /\ k \notin Carried(c, s)
           ELSE \A i \in Adding(c) : c.pending[i].doc # x
  PROVE  Board(Write(c, x, v, t), s, o, K, L, M, {})
<1> DEFINE w == [doc |-> x, val |-> v, then |-> t]
           n == [c EXCEPT !.pending = Append(@, w)]
           k == Len(c.pending)
<1>0. /\ ClientOK(c) /\ c \in ClientType /\ c.pending \in Seq(WriteType) /\ BoardInOrder(c, s)
  BY ClientTyped DEF Board, BoardInOrder
<1>1. w \in WriteType /\ w.doc = x /\ w.val = v /\ w.then = t
  BY ValueKnown DEF WriteType
<1>2. Write(c, x, v, t) = Notify(c, n, x)
  BY DEF Write
<1> HIDE DEF w
<1>3. Append(c.pending, w) \in Seq(WriteType)
  BY <1>0, <1>1, AppendProperties
<1>4. /\ n \in ClientType
      /\ n.pending = Append(c.pending, w) /\ n.base = c.base /\ n.raised = c.raised
      /\ n.listening = c.listening /\ n.inbox = c.inbox /\ n.gets = c.gets
  BY <1>0, <1>3 DEF ClientType
<1> HIDE DEF n
<1>5. ClientOK(n) /\ Setters(n) = Setters(c)
  BY <1>0, <1>4 DEF ClientOK, Setters
<1>6. /\ k \in Nat /\ Len(n.pending) = k + 1 /\ n.pending[k + 1] = w
      /\ \A i \in 1..k : n.pending[i] = c.pending[i]
      /\ 1..Len(n.pending) = 1..k \cup {k + 1} /\ k + 1 \notin 1..k
  BY <1>0, <1>1, <1>4, AppendProperties, LenProperties
<1>7. /\ Adding(n) = Adding(c) \cup (IF t.op = "addCard" THEN {k + 1} ELSE {})
      /\ Adding(c) \subseteq 1..k
  BY <1>1, <1>6 DEF Adding
<1>8. \A y : PendingOn(n, y) = PendingOn(c, y) \cup (IF y = x THEN {k + 1} ELSE {})
  BY <1>1, <1>6 DEF PendingOn
<1> HIDE DEF k
<1>9. BoardInOrder(n, s)
  <2>1. \A i \in Adding(n) : n.pending[i].doc \in n.raised
    BY <1>0, <1>1, <1>4, <1>6, <1>7 DEF BoardInOrder
  <2>2. ASSUME NEW i \in Adding(n), NEW j \in 1..Len(n.pending),
               i < j, n.pending[j].doc = n.pending[i].doc
        PROVE  j \in Adding(n)
    <3>1. i \in Adding(c) /\ i \in 1..k
      BY <1>6, <1>7, <2>2
    <3>2. CASE j \in 1..k
      <4>1. j \in Adding(c)
        BY <1>0, <1>6, <2>2, <3>1, <3>2 DEF BoardInOrder, k
      <4> QED BY <1>7, <4>1
    <3>3. CASE j = k + 1
      <4>1. c.pending[i].doc = x
        BY <1>1, <1>6, <2>2, <3>1, <3>3
      <4> QED BY <1>7, <3>1, <3>3, <4>1
    <3> QED BY <1>6, <3>2, <3>3
  <2>3. "addCard" \notin Ops => Adding(n) = {}
    BY <1>0, <1>7 DEF BoardInOrder
  <2> QED BY <1>0, <1>4, <1>5, <2>1, <2>2, <2>3 DEF BoardInOrder
<1>10. FreshWrites(n, K)
  <2>1. ASSUME NEW i \in Adding(c)
        PROVE  \E h \in CardsOf(n.pending[i].val) :
                 /\ h \notin K
                 /\ \A y \in PaperDocs : h \notin CardsOf(n.base[y])
                 /\ \A j \in 1..(i - 1) : n.pending[j].doc \in PaperDocs => h \notin CardsOf(n.pending[j].val)
    <3>1. i \in 1..k /\ n.pending[i] = c.pending[i] /\ \A j \in 1..(i - 1) : n.pending[j] = c.pending[j]
      BY <1>6, <1>7
    <3> QED BY <1>4, <3>1 DEF Board, FreshWrites
  <2>2. ASSUME t.op = "addCard"
        PROVE  \E h \in CardsOf(n.pending[k + 1].val) :
                 /\ h \notin K
                 /\ \A y \in PaperDocs : h \notin CardsOf(n.base[y])
                 /\ \A j \in 1..k : n.pending[j].doc \in PaperDocs => h \notin CardsOf(n.pending[j].val)
    <3>1. PICK h \in CardsOf(v) : h \notin K /\ h \notin Carried(c, s)
      BY <2>2
    <3>2. h \in Cards
      <4>1. x \in PaperDocs
        BY <2>2, PaperDocsAre DEF Fits
      <4> QED BY <4>1, CardsAre
    <3> QED BY <1>1, <1>4, <1>6, <3>1, <3>2 DEF Carried, k
  <2>3. (k + 1) - 1 = k
    BY <1>6
  <2> QED BY <1>7, <2>1, <2>2, <2>3 DEF FreshWrites
<1>11. Carried(n, s) \subseteq L
  <2>1. ASSUME NEW h \in Carried(n, s)
        PROVE  h \in Carried(c, s) \/ (x \in PaperDocs /\ h \in CardsOf(v))
    <3>1. CASE \E i \in 1..Len(n.pending) : n.pending[i].doc \in PaperDocs /\ h \in CardsOf(n.pending[i].val)
      <4>1. PICK i \in 1..Len(n.pending) : n.pending[i].doc \in PaperDocs /\ h \in CardsOf(n.pending[i].val)
        BY <3>1
      <4>2. CASE i \in 1..k
        BY <1>6, <2>1, <4>1, <4>2 DEF Carried, k
      <4>3. CASE i = k + 1
        BY <1>1, <1>6, <4>1, <4>3
      <4> QED BY <1>6, <4>2, <4>3
    <3>2. CASE ~\E i \in 1..Len(n.pending) : n.pending[i].doc \in PaperDocs /\ h \in CardsOf(n.pending[i].val)
      BY <1>4, <1>5, <2>1, <3>2 DEF Carried
    <3> QED BY <3>1, <3>2
  <2> QED BY <2>1 DEF Board
<1>12. ASSUME NEW y \in PaperDocs, View(n, y) = View(c, y) PROVE BoardShown(n, s, o, y)
  <2>1. BoardShown(c, s, o, y)
    BY DEF Board
  <2>2. Shows(c, s, View(c, y)) => Shows(n, s, View(n, y))
    BY <1>4, <1>5, <1>12 DEF Shows
  <2>3. PendingOn(c, y) \cap Adding(c) \subseteq PendingOn(n, y) \cap Adding(n)
    BY <1>7, <1>8
  <2> QED BY <1>4, <2>1, <2>2, <2>3 DEF BoardShown
<1>13. Board(n, s, o, K, L, M, {x})
  <2>1. \A y : View(n, y) = IF w.doc = y THEN w.val ELSE View(c, y)
    <3>1. n.pending = Append(c.pending, w) /\ n.base = c.base /\ c.pending \in Seq(WriteType)
      BY <1>0, <1>4
    <3> QED BY ONLY <1>1, <3>1, ViewAfterAppend
  <2>2. \A y \in PaperDocs \ {x} : BoardShown(n, s, o, y)
    BY <1>1, <1>12, <2>1
  <2>3. \A p \in Papers : Paper(p) \in n.listening => p \in M
    BY <1>4 DEF Board
  <2> QED BY <1>9, <1>10, <1>11, <2>2, <2>3 DEF Board
<1> QED BY <1>2, <1>12, <1>13, NotifiedBoard

(* A listener is registered; where it is one for a paper, the observer may *)
(* be any.                                                                 *)
LEMMA ListenBoard ==
  ASSUME NEW c, NEW s, NEW q, NEW K, NEW L, NEW M, Board(c, s, q, K, L, M, {}),
         NEW x \in Docs, NEW o, o = q \/ x \in PaperDocs,
         \A p \in Papers : x = Paper(p) => p \in M
  PROVE  Board(Listen(c, x), s, o, K, L, M, {})
<1> DEFINE n == [c EXCEPT !.listening = @ \cup {x}]
<1>0. ClientOK(c) /\ c \in ClientType /\ c.inbox \in Seq(EventType) /\ BoardInOrder(c, s)
  BY ClientTyped DEF Board, BoardInOrder
<1>1. /\ n \in ClientType /\ n.raised = c.raised /\ n.gets = c.gets
      /\ n.pending = c.pending /\ n.base = c.base
      /\ n.listening = c.listening \cup {x} /\ n.inbox = c.inbox
  BY <1>0 DEF ClientType
<1>2. Listen(c, x) = IF Known(c, x) THEN PostSnapshot(n, x, View(c, x)) ELSE n
  BY DEF Listen
<1> HIDE DEF n
<1>3. /\ ClientOK(n) /\ Adding(n) = Adding(c) /\ Setters(n) = Setters(c)
      /\ \A y : PendingOn(n, y) = PendingOn(c, y) /\ View(n, y) = View(c, y)
  <2>1. ClientOK(n) /\ \A y : View(n, y) = View(c, y)
    BY <1>0, <1>1, ViewFrame DEF ClientOK
  <2> QED BY <1>1, <2>1 DEF Adding, Setters, PendingOn
<1>4. BoardInOrder(n, s)
  BY <1>0, <1>1, <1>3 DEF BoardInOrder
<1>5. FreshWrites(n, K) /\ Carried(n, s) \subseteq L
  BY <1>1, <1>3 DEF Board, FreshWrites, Carried
<1>6. \A p \in Papers : Paper(p) \in n.listening => p \in M
  BY <1>1 DEF Board
<1>7. ASSUME NEW y \in PaperDocs \ {x} PROVE BoardShown(n, s, o, y)
  <2> SUFFICES ASSUME n.listening \cap PaperDocs = {y}, o # Absent,
                      PendingOn(n, y) \cap Adding(n) = {}
               PROVE  Shows(n, s, View(n, y))
    BY DEF BoardShown
  <2>1. x \notin PaperDocs /\ c.listening \cap PaperDocs = {y}
    BY <1>1, <1>7
  <2>2. Shows(c, s, View(c, y))
    BY <1>3, <1>7, <2>1 DEF Board, BoardShown
  <2> QED BY <1>1, <1>3, <2>2 DEF Shows
<1>8. Board(n, s, o, K, L, M, {x})
  BY <1>4, <1>5, <1>6, <1>7 DEF Board
<1>9. CASE Known(c, x)
  <2>1. Listen(c, x) = PostSnapshot(n, x, View(n, x)) /\ x \in n.listening
    BY <1>1, <1>2, <1>3, <1>9
  <2> QED BY <1>8, <2>1, SnapshotBoard
<1>10. CASE ~Known(c, x)
  <2>1. x \notin c.raised /\ View(c, x) = Absent /\ Listen(c, x) = n
    BY <1>2, <1>10 DEF Known
  <2>2. ASSUME x \in PaperDocs PROVE BoardShown(n, s, o, x)
    <3> SUFFICES ASSUME n.listening \cap PaperDocs = {x} PROVE Shows(n, s, Absent)
      BY <1>3, <2>1 DEF BoardShown
    <3>1. c.raised \cap PaperDocs = {}
      BY <1>0, <1>1, <2>1 DEF BoardInOrder
    <3>2. Setters(c) = {}
      <4> SUFFICES ASSUME NEW i \in Setters(c) PROVE FALSE
        OBVIOUS
      <4>1. c.inbox[i] \in EventType /\ SetsSubject(c.inbox[i])
        BY <1>0, ElementOfSeq DEF Setters
      <4>2. c.inbox[i].doc \in PaperDocs
        BY <4>1, SettersTyped
      <4> QED BY <1>0, <3>1, <4>2 DEF BoardInOrder
    <3>3. s = Absent
      BY <1>0, <3>1 DEF BoardInOrder, PaperDocs, PaperModel
    <3> QED BY <1>3, <3>2, <3>3 DEF Shows
  <2> QED BY <1>8, <2>1, <2>2, WholeBoard
<1> QED BY <1>9, <1>10

(* A document is read, not to take a card off it.                          *)
LEMMA GetBoard ==
  ASSUME NEW c, NEW s, NEW o, NEW K, NEW L, NEW M, Board(c, s, o, K, L, M, {}),
         NEW x \in Docs, NEW t \in ThenType, \A v \in ValuesOf(x) : Fits(x, v, t),
         ~Reread(t.op)
  PROVE  Board(Get(c, x, t), s, o, K, L, M, {})
<1> DEFINE g == [doc |-> x, then |-> t]
           n == Get(c, x, t)
<1>0. ClientOK(c) /\ c \in ClientType /\ c.gets \in Seq(GetType) /\ BoardInOrder(c, s)
  BY ClientTyped DEF Board, BoardInOrder
<1>1. g \in GetType /\ g.then = t
  BY DEF GetType
<1>2. n = [c EXCEPT !.gets = Append(@, g)]
  BY DEF Get
<1> HIDE DEF g
<1>3. Append(c.gets, g) \in Seq(GetType)
  BY <1>0, <1>1, AppendProperties
<1>4. /\ n \in ClientType /\ n.gets = Append(c.gets, g)
      /\ n.pending = c.pending /\ n.base = c.base /\ n.listening = c.listening
      /\ n.inbox = c.inbox /\ n.raised = c.raised
  BY <1>0, <1>2, <1>3 DEF ClientType
<1> HIDE DEF n
<1>5. ClientOK(n) /\ Setters(n) = Setters(c)
  BY <1>0, <1>4 DEF ClientOK, Setters
<1>6. \A i \in 1..Len(n.gets) : ~Reread(n.gets[i].then.op)
  <2>1. /\ Len(c.gets) \in Nat /\ Len(n.gets) = Len(c.gets) + 1
        /\ n.gets[Len(c.gets) + 1] = g
        /\ \A i \in 1..Len(c.gets) : n.gets[i] = c.gets[i]
    BY <1>0, <1>1, <1>4, AppendProperties, LenProperties
  <2>2. \A i \in 1..Len(n.gets) : i \in 1..Len(c.gets) \/ i = Len(c.gets) + 1
    BY <2>1
  <2> QED BY <1>0, <1>1, <2>1, <2>2 DEF BoardInOrder
<1>7. /\ \A y \in PaperDocs : y \in c.raised => y \in c.listening
      /\ \A i \in 1..Len(c.inbox) : c.inbox[i].type # "got" \/ ~Reread(c.inbox[i].then.op)
  BY <1>0 DEF BoardInOrder
<1>8. Board(n, s, o, K, L, M, {})
  BY <1>4, <1>5, <1>6, <1>7, SameBoard
<1> QED BY <1>8 DEF n

(* The previews of a user's list are listened to.                          *)
LEMMA RaisedBoard ==
  ASSUME NEW c, NEW s, NEW o, NEW K, NEW L, NEW M, Board(c, s, o, K, L, M, {}),
         NEW S \in SUBSET Papers, NEW F, NEW f \in ListsOf(F), NEW n, Raising(c, n, S, F, f),
         F \subseteq Papers
  PROVE  Board(n, s, o, K, L, M, {})
<1> DEFINE k == Len(c.inbox)
           h == Len(f)
<1>1. /\ ClientOK(n) /\ k \in Nat /\ h \in Nat
      /\ n.listening = c.listening \cup {Preview(p) : p \in S}
      /\ n.raised = c.raised \cup {Preview(f[i]) : i \in 1..h}
      /\ n.pending = c.pending /\ n.base = c.base /\ n.gets = c.gets
      /\ \A i \in 1..h : f[i] \in F
      /\ Len(n.inbox) = k + h
      /\ \A i \in 1..k : n.inbox[i] = c.inbox[i]
      /\ \A i \in (k + 1)..(k + h) :
           n.inbox[i].type = "snapshot" /\ n.inbox[i].doc = Preview(f[i - k])
  BY DEF Raising
<1> HIDE DEF h
<1>2. BoardInOrder(c, s)
  BY DEF Board
<1>3. \A p : Preview(p) \notin PaperDocs /\ Preview(p).coll = "paperPreviews"
  BY DEF PaperDocs, Paper, Preview
<1>4. ASSUME NEW i \in (k + 1)..(k + h)
      PROVE  ~SetsSubject(n.inbox[i]) /\ ~Reread(n.inbox[i].then.op)
  <2>1. n.inbox[i].type = "snapshot" /\ n.inbox[i].doc.coll = "paperPreviews"
    BY <1>1, <1>3
  <2>2. i \in 1..Len(n.inbox)
    BY <1>1
  <2>3. n.inbox[i] \in EventType
    BY <1>1, <2>2, ClientTyped, ElementOfSeq
  <2>4. ~Reread(n.inbox[i].then.op)
    BY <2>1, <2>3 DEF EventType, Fits, Reread
  <2> QED BY <2>1, <2>4 DEF SetsSubject
<1>5. \A i \in 1..Len(n.inbox) : i \in 1..k \/ i \in (k + 1)..(k + h)
  BY <1>1
<1>6. 1..k \subseteq 1..Len(n.inbox)
  BY <1>1
<1>7. Setters(n) = Setters(c) /\ \A i \in Setters(c) : n.inbox[i] = c.inbox[i]
  BY <1>1, <1>4, <1>5, <1>6 DEF Setters
<1>8. \A i \in 1..Len(n.inbox) : n.inbox[i].type # "got" \/ ~Reread(n.inbox[i].then.op)
  BY <1>1, <1>2, <1>4, <1>5 DEF BoardInOrder
<1>9. \A y \in PaperDocs : /\ y \in n.listening <=> y \in c.listening
                           /\ y \in n.raised <=> y \in c.raised
  BY <1>1, <1>3
<1> QED BY <1>1, <1>2, <1>7, <1>8, <1>9, SameBoard DEF BoardInOrder

(* The client n is c without its oldest write, w; the copy of its document *)
(* may have become w.                                                      *)
Shortened(c, n, w) ==
  /\ c.pending # << >> /\ w = Head(c.pending)
  /\ ClientOK(n) /\ n.pending = Tail(c.pending) /\ n.inbox = c.inbox
  /\ n.raised = c.raised /\ n.listening = c.listening /\ n.gets = c.gets
  /\ \A y \in PaperDocs : n.base[y] = c.base[y] \/ (y = w.doc /\ n.base[y] = w.val)

(* Of N, the cards that are not in K are of the write w.                   *)
Spread(w, K, N) == \A h \in N : h \in K \/ (w.doc \in PaperDocs /\ h \in CardsOf(w.val))

LEMMA TailBoard ==
  ASSUME NEW c, NEW s, NEW o, NEW K, NEW L, NEW M, Board(c, s, o, K, L, M, {}),
         NEW w, NEW x, x = w.doc, NEW n, Shortened(c, n, w), NEW N, Spread(w, K, N)
  PROVE  /\ Board(n, s, o, N, L, M, {x})
         /\ 1 \notin Adding(c) /\ x \in PaperDocs /\ View(n, x) = View(c, x) => BoardShown(n, s, o, x)
         /\ 1 \in Adding(c) /\ PendingOn(n, x) \cap Adding(n) = {} => PendingOn(n, x) = {}
<1>a. /\ c.pending # << >> /\ w = Head(c.pending)
      /\ ClientOK(n) /\ n.pending = Tail(c.pending) /\ n.inbox = c.inbox
      /\ n.raised = c.raised /\ n.listening = c.listening /\ n.gets = c.gets
  BY DEF Shortened
<1>b. \A y \in PaperDocs : n.base[y] = c.base[y] \/ (y = x /\ n.base[y] = w.val)
  BY DEF Shortened
<1>c. \A h \in N : h \in K \/ (x \in PaperDocs /\ h \in CardsOf(w.val))
  BY DEF Spread
<1> USE <1>a, <1>b, <1>c
<1> DEFINE k == Len(n.pending)
<1>0. ClientOK(c) /\ c.pending \in Seq(WriteType) /\ BoardInOrder(c, s)
  BY ClientTyped DEF Board, BoardInOrder
<1>1. /\ k \in Nat /\ Len(c.pending) = k + 1 /\ c.pending[1] = w
      /\ \A i \in 1..k : n.pending[i] = c.pending[i + 1]
  <2>1. Len(c.pending) \in Nat /\ Len(Tail(c.pending)) + 1 = Len(c.pending)
    BY <1>0, TailFacts
  <2> QED BY <1>0, <2>1, TailFacts
<1>2. Setters(n) = Setters(c)
  BY DEF Setters
<1>3. /\ \A i \in 1..k : i \in Adding(n) <=> i + 1 \in Adding(c)
      /\ Adding(n) \subseteq 1..k /\ Adding(c) \subseteq 1..(k + 1)
      /\ \A y : \A i \in 1..k : i \in PendingOn(n, y) <=> i + 1 \in PendingOn(c, y)
      /\ \A y : PendingOn(n, y) \subseteq 1..k /\ PendingOn(c, y) \subseteq 1..(k + 1)
  <2>1. \A i \in 1..k : i + 1 \in 1..(k + 1)
    BY <1>1
  <2> QED BY <1>1, <2>1 DEF Adding, PendingOn
<1>4. 1 \in PendingOn(c, x) /\ \A y : y # x => 1 \notin PendingOn(c, y)
  BY <1>1 DEF PendingOn
<1> HIDE DEF k
<1>5. BoardInOrder(n, s)
  <2>1. ASSUME NEW i \in Adding(n) PROVE n.pending[i].doc \in n.raised
    <3>1. i + 1 \in Adding(c) /\ n.pending[i] = c.pending[i + 1]
      BY <1>1, <1>3
    <3> QED BY <1>0, <3>1 DEF BoardInOrder
  <2>2. ASSUME NEW i \in Adding(n), NEW j \in 1..Len(n.pending),
               i < j, n.pending[j].doc = n.pending[i].doc
        PROVE  j \in Adding(n)
    <3>1. /\ i + 1 \in Adding(c) /\ n.pending[i] = c.pending[i + 1] /\ i \in 1..k
          /\ j \in 1..k /\ n.pending[j] = c.pending[j + 1] /\ j + 1 \in 1..Len(c.pending)
      BY <1>1, <1>3, <2>2 DEF k
    <3>2. i + 1 < j + 1
      BY <1>1, <2>2, <3>1
    <3>3. j + 1 \in Adding(c)
      BY <1>0, <2>2, <3>1, <3>2 DEF BoardInOrder
    <3> QED BY <1>3, <3>1, <3>3
  <2>3. ASSUME "addCard" \notin Ops PROVE Adding(n) = {}
    <3>1. Adding(c) = {}
      BY <1>0, <2>3 DEF BoardInOrder
    <3> QED BY <1>3, <3>1
  <2> QED BY <1>0, <1>2, <2>1, <2>2, <2>3 DEF BoardInOrder
<1>6. FreshWrites(n, N)
  <2> SUFFICES ASSUME NEW i \in Adding(n)
               PROVE  \E h \in CardsOf(n.pending[i].val) :
                        /\ h \notin N
                        /\ \A y \in PaperDocs : h \notin CardsOf(n.base[y])
                        /\ \A j \in 1..(i - 1) :
                             n.pending[j].doc \in PaperDocs => h \notin CardsOf(n.pending[j].val)
    BY DEF FreshWrites
  <2>1. i \in 1..k /\ i + 1 \in Adding(c) /\ n.pending[i] = c.pending[i + 1] /\ (i + 1) - 1 = i
    BY <1>1, <1>3
  <2>2. PICK h \in CardsOf(c.pending[i + 1].val) :
          /\ h \notin K
          /\ \A y \in PaperDocs : h \notin CardsOf(c.base[y])
          /\ \A j \in 1..((i + 1) - 1) :
               c.pending[j].doc \in PaperDocs => h \notin CardsOf(c.pending[j].val)
    BY <2>1 DEF Board, FreshWrites
  <2>3. x \in PaperDocs => h \notin CardsOf(w.val)
    <3>1. 1 \in 1..((i + 1) - 1)
      BY <1>1, <2>1
    <3> QED BY <1>1, <2>2, <3>1
  <2>4. ASSUME NEW j \in 1..(i - 1), n.pending[j].doc \in PaperDocs
        PROVE  h \notin CardsOf(n.pending[j].val)
    <3>1. j \in 1..k /\ j + 1 \in 1..((i + 1) - 1)
      BY <1>1, <2>1
    <3> QED BY <1>1, <2>2, <2>4, <3>1
  <2> QED BY <2>1, <2>2, <2>3, <2>4
<1>7. Carried(n, s) \subseteq L
  <2>1. ASSUME NEW h \in Carried(n, s) PROVE h \in Carried(c, s)
    <3>0. x \in PaperDocs => \A g \in CardsOf(w.val) \cap Cards : g \in Carried(c, s)
      <4>1. 1 \in 1..Len(c.pending)
        BY <1>1
      <4> QED BY <1>1, <4>1 DEF Carried
    <3>1. CASE \E y \in PaperDocs : h \in CardsOf(n.base[y])
      BY <2>1, <3>0, <3>1 DEF Carried
    <3>2. CASE \E i \in 1..Len(n.pending) : n.pending[i].doc \in PaperDocs /\ h \in CardsOf(n.pending[i].val)
      <4>1. PICK i \in 1..k : n.pending[i].doc \in PaperDocs /\ h \in CardsOf(n.pending[i].val)
        BY <3>2 DEF k
      <4>2. i + 1 \in 1..Len(c.pending) /\ n.pending[i] = c.pending[i + 1]
        BY <1>1
      <4> QED BY <2>1, <4>1, <4>2 DEF Carried
    <3>3. CASE h \in CardsOf(s) \/ \E i \in Setters(n) : h \in CardsOf(n.inbox[i].val)
      BY <1>2, <2>1, <3>3 DEF Carried
    <3> QED BY <2>1, <3>1, <3>2, <3>3 DEF Carried
  <2> QED BY <2>1 DEF Board
<1>8. ASSUME NEW y \in PaperDocs, y # x \/ 1 \notin Adding(c), View(n, y) = View(c, y)
      PROVE  BoardShown(n, s, o, y)
  <2> SUFFICES ASSUME c.listening \cap PaperDocs = {y}, o # Absent,
                      PendingOn(n, y) \cap Adding(n) = {}
               PROVE  Shows(n, s, View(n, y))
    BY DEF BoardShown
  <2>1. PendingOn(c, y) \cap Adding(c) = {}
    <3> SUFFICES ASSUME NEW j \in PendingOn(c, y), j \in Adding(c) PROVE FALSE
      OBVIOUS
    <3>1. j # 1
      BY <1>4, <1>8
    <3>2. j - 1 \in 1..k /\ (j - 1) + 1 = j
      BY <1>1, <1>3, <3>1
    <3> QED BY <1>3, <3>2
  <2>2. Shows(c, s, View(c, y))
    BY <2>1 DEF Board, BoardShown
  <2> QED BY <1>2, <1>8, <2>2 DEF Shows
<1>9. Board(n, s, o, N, L, M, {x})
  <2>1. ASSUME NEW y \in PaperDocs \ {x} PROVE BoardShown(n, s, o, y)
    <3>1. View(n, y) = View(c, y)
      <4>1. n.base[y] = c.base[y] /\ Head(c.pending).doc # y
        BY <2>1
      <4>2. PendingOn(n, y) # {} => View(n, y) = View(c, y)
        BY <1>0, ViewAfterTail
      <4>3. ASSUME PendingOn(n, y) = {} PROVE View(n, y) = n.base[y] /\ View(c, y) = c.base[y]
        <5>1. /\ View(n, y) = n.base[y]
              /\ View(c, y) = IF Head(c.pending).doc = y THEN Head(c.pending).val ELSE c.base[y]
          BY ONLY <1>0, <4>3, c.pending # << >>, n.pending = Tail(c.pending), ViewAfterTail
        <5> QED BY <4>1, <5>1
      <4> QED BY <4>1, <4>2, <4>3
    <3> QED BY <1>8, <3>1
  <2>2. \A p \in Papers : Paper(p) \in n.listening => p \in M
    BY DEF Board
  <2> QED BY <1>5, <1>6, <1>7, <2>1, <2>2 DEF Board
<1>10. ASSUME 1 \in Adding(c), PendingOn(n, x) \cap Adding(n) = {}, NEW i \in PendingOn(n, x)
       PROVE  FALSE
  <2>1. /\ i \in 1..k /\ i + 1 \in 1..Len(c.pending) /\ 1 < i + 1
        /\ c.pending[i + 1].doc = c.pending[1].doc
    <3>1. i \in 1..k /\ i + 1 \in PendingOn(c, x)
      BY <1>3, <1>10
    <3> QED BY <1>1, <3>1 DEF PendingOn
  <2>2. i + 1 \in Adding(c)
    BY <1>0, <1>10, <2>1 DEF BoardInOrder
  <2> QED BY <1>3, <1>10, <2>1, <2>2
<1> QED BY <1>8, <1>9, <1>10

(* The backend commits the oldest write: of a paper, by addCard, then the  *)
(* completion handler will show it.                                        *)
LEMMA AcknowledgedBoard ==
  ASSUME NEW c, NEW s, NEW o, NEW K, NEW L, NEW M, Board(c, s, o, K, L, M, {}),
         c.pending # << >>, NEW w, w = Head(c.pending),
         NEW n, n = [c EXCEPT !.pending = Tail(@), !.base[w.doc] = w.val],
         NEW N, Spread(w, K, N)
  PROVE  Board(IF w.then = NoCallback THEN n ELSE Post(n, Event("done", w.doc, w.val, w.then)),
               s, o, N, L, M, {})
<1> DEFINE x == w.doc
           e == Event("done", w.doc, w.val, w.then)
<1>0. /\ ClientOK(c) /\ c \in ClientType /\ c.pending \in Seq(WriteType) /\ BoardInOrder(c, s)
      /\ c.base \in [Docs -> Value]
  BY ClientTyped DEF Board, BoardInOrder
<1>1. w \in WriteType /\ w = c.pending[1] /\ Tail(c.pending) \in Seq(WriteType)
      /\ 1 \in 1..Len(c.pending)
  BY <1>0, HeadTailProperties, EmptySeq, LenProperties
<1>2. /\ x \in Docs /\ w.val \in ValuesOf(x) /\ w.val \in Value
      /\ w.then \in ThenType /\ Fits(x, w.val, w.then)
  BY <1>1 DEF WriteType, Fits
<1>3. /\ n \in ClientType
      /\ n.pending = Tail(c.pending) /\ n.base = [c.base EXCEPT ![x] = w.val]
      /\ n.listening = c.listening /\ n.inbox = c.inbox /\ n.gets = c.gets /\ n.raised = c.raised
  BY <1>0, <1>1, <1>2 DEF ClientType
<1>4. e \in EventType /\ e.type = "done" /\ e.doc = x /\ e.val = w.val /\ e.then = w.then
  BY <1>2, EventTyped DEF Event
<1> HIDE DEF e
<1>5. /\ \A y \in Docs : n.base[y] = IF y = x THEN w.val ELSE c.base[y]
      /\ ClientOK(n)
  BY <1>0, <1>2, <1>3 DEF ClientOK
<1>6. \A y \in PaperDocs : n.base[y] = c.base[y] \/ (y = x /\ n.base[y] = w.val)
  BY <1>5 DEF Docs
<1> HIDE DEF x
<1>6a. Board(c, s, o, K, L, M, {}) /\ x = w.doc
  BY DEF x
<1>7. /\ Board(n, s, o, N, L, M, {x})
      /\ 1 \notin Adding(c) /\ x \in PaperDocs /\ View(n, x) = View(c, x) => BoardShown(n, s, o, x)
      /\ 1 \in Adding(c) /\ PendingOn(n, x) \cap Adding(n) = {} => PendingOn(n, x) = {}
  <2>1. Shortened(c, n, w) /\ Spread(w, K, N)
    BY <1>3, <1>5, <1>6 DEF Shortened, Spread, x
  <2> QED BY ONLY <1>6a, <2>1, TailBoard
<1>8. View(n, x) = View(c, x) /\ (PendingOn(n, x) = {} => View(n, x) = w.val)
  <2>0. c.pending \in Seq(WriteType) /\ c.pending # << >> /\ n.pending = Tail(c.pending)
    BY <1>0, <1>3
  <2>1. PendingOn(n, x) # {} => View(n, x) = View(c, x)
    BY ONLY <2>0, ViewAfterTail
  <2>2. ASSUME PendingOn(n, x) = {} PROVE View(n, x) = w.val /\ View(c, x) = w.val
    <3>1. /\ View(n, x) = n.base[x]
          /\ View(c, x) = IF Head(c.pending).doc = x THEN Head(c.pending).val ELSE c.base[x]
      BY ONLY <2>0, <2>2, ViewAfterTail
    <3>2. n.base[x] = w.val
      BY <1>2, <1>5 DEF x
    <3> QED BY <3>1, <3>2 DEF x
  <2> QED BY <2>1, <2>2
<1>9. CASE w.then.op = "addCard"
  <2>1. 1 \in Adding(c)
    BY <1>1, <1>9 DEF Adding
  <2>2. SetsSubject(e) /\ w.then # NoCallback
    BY <1>4, <1>9 DEF SetsSubject, NoCallback, Then
  <2>3. x \in n.raised
    BY <1>0, <1>1, <1>3, <2>1 DEF BoardInOrder, x
  <2>4. CardsOf(e.val) \subseteq L
    <3>1. x \in PaperDocs
      BY <1>4, <2>2, SettersTyped
    <3>2. CardsOf(w.val) \subseteq Cards
      BY <1>2, <3>1, CardsAre DEF x
    <3>3. CardsOf(w.val) \subseteq Carried(c, s)
      BY <1>1, <3>1, <3>2 DEF Carried, x
    <3> QED BY <1>4, <3>3 DEF Board
  <2>5. PendingOn(n, x) \cap Adding(n) = {} => e.val = View(n, x)
    BY <1>4, <1>7, <1>8, <2>1
  <2>6. Board(Post(n, e), s, o, N, L, M, {})
    BY <1>4, <1>7, <2>2, <2>3, <2>4, <2>5, SettingBoard
  <2> QED BY <2>2, <2>6 DEF e
<1>10. CASE w.then.op # "addCard"
  <2>1. 1 \notin Adding(c)
    BY <1>1, <1>10 DEF Adding
  <2>2. Board(n, s, o, N, L, M, {})
    BY <1>7, <1>8, <2>1, WholeBoard
  <2>3. ~SetsSubject(e) /\ e.type # "got"
    BY <1>4, <1>10 DEF SetsSubject
  <2> QED BY <1>4, <2>2, <2>3, PostedBoard DEF e
<1> QED BY <1>9, <1>10

(* The backend refuses the oldest write; that of addCard had a card that   *)
(* nothing else has, so the client notices.                                *)
LEMMA RejectedBoard ==
  ASSUME NEW c, NEW s, NEW o, NEW K, NEW L, NEW M, Board(c, s, o, K, L, M, {}),
         c.pending # << >>, NEW x, x = Head(c.pending).doc,
         NEW n, n = [c EXCEPT !.pending = Tail(@)]
  PROVE  Board(Notify(c, n, x), s, o, K, L, M, {})
<1> DEFINE w == Head(c.pending)
<1>0. /\ ClientOK(c) /\ c \in ClientType /\ c.pending \in Seq(WriteType)
  BY ClientTyped DEF Board, BoardInOrder
<1>1. w \in WriteType /\ w = c.pending[1] /\ Tail(c.pending) \in Seq(WriteType)
      /\ 1 \in 1..Len(c.pending)
  BY <1>0, HeadTailProperties, EmptySeq, LenProperties
<1>2. /\ x \in Docs /\ w.doc = x
  BY <1>1 DEF WriteType
<1>3. /\ n \in ClientType /\ n.pending = Tail(c.pending) /\ n.base = c.base
      /\ n.listening = c.listening /\ n.inbox = c.inbox /\ n.gets = c.gets /\ n.raised = c.raised
  BY <1>0, <1>1 DEF ClientType
<1>4. ClientOK(n)
  BY <1>0, <1>3 DEF ClientOK
<1> HIDE DEF w
<1>5. /\ Board(n, s, o, K, L, M, {x})
      /\ 1 \notin Adding(c) /\ x \in PaperDocs /\ View(n, x) = View(c, x) => BoardShown(n, s, o, x)
      /\ 1 \in Adding(c) /\ PendingOn(n, x) \cap Adding(n) = {} => PendingOn(n, x) = {}
  <2>1. Shortened(c, n, w) /\ Spread(w, K, K) /\ Board(c, s, o, K, L, M, {})
    BY <1>3, <1>4 DEF Shortened, Spread, w
  <2> QED BY ONLY <1>2, <2>1, TailBoard
<1>6. ASSUME x \in PaperDocs, View(n, x) = View(c, x), 1 \in Adding(c) PROVE BoardShown(n, s, o, x)
  <2> SUFFICES ASSUME PendingOn(n, x) \cap Adding(n) = {} PROVE FALSE
    BY DEF BoardShown
  <2>1. PendingOn(n, x) = {}
    BY <1>5, <1>6
  <2>0. c.pending \in Seq(WriteType) /\ c.pending # << >> /\ n.pending = Tail(c.pending)
    BY <1>0, <1>3
  <2>2. /\ View(n, x) = n.base[x]
        /\ View(c, x) = IF Head(c.pending).doc = x THEN Head(c.pending).val ELSE c.base[x]
    BY ONLY <2>0, <2>1, ViewAfterTail
  <2>3. c.base[x] = w.val
    BY <1>2, <1>3, <1>6, <2>2 DEF w
  <2> QED BY <1>1, <1>6, <2>3 DEF Board, FreshWrites
<1> QED BY <1>2, <1>5, <1>6, NotifiedBoard

(* After a restart nothing is listened to, and no write has a callback.    *)
LEMMA RestartedBoard ==
  ASSUME NEW c, NEW s, NEW o, NEW K, NEW L, NEW M, Board(c, s, o, K, L, M, {})
  PROVE  Board(Restarted(c), Absent, Absent, K, L, M, {})
<1> DEFINE n == Restarted(c)
           q == [i \in 1..Len(c.pending) |-> [c.pending[i] EXCEPT !.then = NoCallback]]
<1>0. /\ ClientOK(c) /\ c \in ClientType /\ c.pending \in Seq(WriteType) /\ Len(c.pending) \in Nat
      /\ c.base \in [Docs -> Value] /\ \A i \in 1..Len(c.pending) : c.pending[i] \in WriteType
  BY ClientTyped, ElementOfSeq DEF Board, BoardInOrder
<1>1. q \in Seq(WriteType)
  <2>1. NoCallback \in ThenType
    BY DEF NoCallback, Then, ThenType, OpNames
  <2>2. ASSUME NEW w \in WriteType PROVE [w EXCEPT !.then = NoCallback] \in WriteType
    BY <2>1 DEF WriteType, Fits, NoCallback, Then
  <2>3. \A i \in 1..Len(c.pending) : [c.pending[i] EXCEPT !.then = NoCallback] \in WriteType
    BY <1>0, <2>2, ElementOfSeq
  <2> QED BY <1>0, <2>3, IsASeq
<1>2. n = [pending |-> q, base |-> c.base, listening |-> {}, raised |-> {},
           gets |-> << >>, inbox |-> << >>]
  BY DEF Restarted
<1>3. /\ Len(q) = Len(c.pending)
      /\ \A i \in 1..Len(c.pending) :
           q[i].doc = c.pending[i].doc /\ q[i].val = c.pending[i].val /\ q[i].then.op = "none"
  <2>1. \A w \in WriteType : LET u == [w EXCEPT !.then = NoCallback]
                             IN  u.doc = w.doc /\ u.val = w.val /\ u.then.op = "none"
    BY DEF WriteType, NoCallback, Then
  <2>2. ASSUME NEW i \in 1..Len(c.pending)
        PROVE  LET u == [c.pending[i] EXCEPT !.then = NoCallback]
               IN  u.doc = c.pending[i].doc /\ u.val = c.pending[i].val /\ u.then.op = "none"
    BY ONLY <1>0, <2>1, <2>2
  <2>3. \A i \in 1..Len(c.pending) : q[i] = [c.pending[i] EXCEPT !.then = NoCallback]
    OBVIOUS
  <2>4. DOMAIN q = 1..Len(c.pending)
    OBVIOUS
  <2>5. Len(q) = Len(c.pending)
    BY <1>0, <1>1, <2>4, LenProperties
  <2> HIDE DEF q
  <2> QED BY ONLY <2>2, <2>3, <2>5
<1> HIDE DEF q, n
<1>4. << >> \in Seq(GetType) /\ << >> \in Seq(EventType) /\ Len(<< >>) = 0
  OBVIOUS
<1>5. /\ n \in ClientType /\ n.listening = {} /\ n.base = c.base /\ n.pending = q /\ n.raised = {}
      /\ Len(n.inbox) = 0 /\ Len(n.gets) = 0
  BY <1>0, <1>1, <1>2, <1>4 DEF ClientType
<1>6. ClientOK(n)
  BY <1>0, <1>5 DEF ClientOK
<1>7. Adding(n) = {} /\ Setters(n) = {}
  BY <1>3, <1>5 DEF Adding, Setters
<1>8. BoardInOrder(n, Absent)
  BY <1>5, <1>6, <1>7 DEF BoardInOrder
<1>9. Carried(n, Absent) \subseteq L
  <2>1. Carried(n, Absent) \subseteq Carried(c, s)
    BY <1>3, <1>5, <1>7 DEF Carried, CardsOf
  <2> QED BY <2>1 DEF Board
<1> QED BY <1>5, <1>7, <1>8, <1>9 DEF Board, FreshWrites, BoardShown, n

(* The oldest callback runs, and may set the publisher.                    *)
LEMMA PoppedBoard ==
  ASSUME NEW c, NEW s, NEW o, NEW K, NEW L, NEW M, Board(c, s, o, K, L, M, {}),
         c.inbox # << >>, NEW e, e = Head(c.inbox),
         NEW n, n = [c EXCEPT !.inbox = Tail(@)],
         NEW m, m = IF SetsSubject(e) THEN e.val ELSE s
  PROVE  Board(n, m, o, K, L, M, {})
<1> DEFINE k == Len(n.inbox)
<1>0. ClientOK(c) /\ c \in ClientType /\ c.inbox \in Seq(EventType) /\ BoardInOrder(c, s)
  BY ClientTyped DEF Board, BoardInOrder
<1>1. /\ n \in ClientType /\ n.pending = c.pending /\ n.base = c.base /\ n.gets = c.gets
      /\ n.listening = c.listening /\ n.raised = c.raised /\ n.inbox = Tail(c.inbox)
  <2>1. Tail(c.inbox) \in Seq(EventType)
    BY <1>0, TailFacts
  <2> QED BY <1>0, <2>1 DEF ClientType
<1>2. /\ k \in Nat /\ Len(c.inbox) = k + 1 /\ c.inbox[1] = e /\ e \in EventType
      /\ \A i \in 1..k : n.inbox[i] = c.inbox[i + 1]
  <2>1. /\ Len(c.inbox) \in Nat /\ Len(Tail(c.inbox)) + 1 = Len(c.inbox)
        /\ Head(c.inbox) = c.inbox[1] /\ Head(c.inbox) \in EventType
        /\ \A i \in 1..Len(Tail(c.inbox)) : Tail(c.inbox)[i] = c.inbox[i + 1]
    BY <1>0, TailFacts
  <2>2. Len(Tail(c.inbox)) \in Nat
    BY <1>0, TailFacts, LenProperties
  <2> QED BY <1>1, <2>1, <2>2
<1>3. /\ \A i \in 1..k : i \in Setters(n) <=> i + 1 \in Setters(c)
      /\ Setters(n) \subseteq 1..k /\ Setters(c) \subseteq 1..(k + 1)
      /\ 1 \in Setters(c) <=> SetsSubject(e)
  BY <1>2 DEF Setters
<1>4. ClientOK(n) /\ Adding(n) = Adding(c)
      /\ \A y : PendingOn(n, y) = PendingOn(c, y) /\ View(n, y) = View(c, y)
  <2>1. ClientOK(n) /\ \A y : View(n, y) = View(c, y)
    BY <1>0, <1>1, ViewFrame DEF ClientOK
  <2> QED BY <1>1, <2>1 DEF Adding, PendingOn
<1>5. /\ m \in PaperModel \cup {Absent}
      /\ m # Absent => Paper(m.id) \in c.raised
      /\ CardsOf(m) \cap Cards \subseteq Carried(c, s)
  <2>1. CASE SetsSubject(e)
    <3>1. e.doc \in PaperDocs /\ e.val \in ValuesOf(e.doc) /\ e.doc \in c.raised /\ m = e.val
      BY <1>0, <1>2, <1>3, <2>1, SettersTyped DEF BoardInOrder
    <3>2. e.doc \in Docs
      BY <3>1 DEF Docs
    <3>3. m # Absent => m \in PaperModel /\ Paper(m.id) = e.doc
      BY <3>1, <3>2, PaperDocsAre
    <3>4. 1 \in Setters(c) /\ c.inbox[1].val = m
      BY <1>2, <1>3, <2>1, <3>1
    <3> QED BY <3>1, <3>3, <3>4 DEF Carried
  <2>2. CASE ~SetsSubject(e)
    BY <1>0, <2>2 DEF BoardInOrder, Carried
  <2> QED BY <2>1, <2>2
<1> HIDE DEF k
<1>6. BoardInOrder(n, m)
  <2>1. ASSUME NEW i \in Setters(n) PROVE n.inbox[i].doc \in n.raised
    <3>1. i + 1 \in Setters(c) /\ n.inbox[i] = c.inbox[i + 1]
      BY <1>2, <1>3
    <3> QED BY <1>0, <1>1, <3>1 DEF BoardInOrder
  <2>2. ASSUME NEW i \in 1..Len(n.inbox)
        PROVE  n.inbox[i].type # "got" \/ ~Reread(n.inbox[i].then.op)
    <3>1. n.inbox[i] = c.inbox[i + 1] /\ i + 1 \in 1..Len(c.inbox)
      BY <1>2 DEF k
    <3> QED BY <1>0, <3>1 DEF BoardInOrder
  <2> QED BY <1>0, <1>1, <1>4, <1>5, <2>1, <2>2 DEF BoardInOrder
<1>7. FreshWrites(n, K)
  BY <1>1, <1>4 DEF Board, FreshWrites
<1>8. Carried(n, m) \subseteq L
  <2>1. \A i \in Setters(n) : i + 1 \in Setters(c) /\ n.inbox[i] = c.inbox[i + 1]
    BY <1>2, <1>3
  <2>2. Carried(n, m) \subseteq Carried(c, s)
    <3>1. ASSUME NEW h \in Carried(n, m) PROVE h \in Carried(c, s)
      <4>1. CASE \E i \in Setters(n) : h \in CardsOf(n.inbox[i].val)
        BY <2>1, <3>1, <4>1 DEF Carried
      <4>2. CASE h \in CardsOf(m)
        BY <1>5, <3>1, <4>2 DEF Carried
      <4>3. CASE h \notin CardsOf(m) /\ ~\E i \in Setters(n) : h \in CardsOf(n.inbox[i].val)
        BY <1>1, <3>1, <4>3 DEF Carried
      <4> QED BY <4>1, <4>2, <4>3
    <3> QED BY <3>1
  <2> QED BY <2>2 DEF Board
<1>9. \A p \in Papers : Paper(p) \in n.listening => p \in M
  BY <1>1 DEF Board
<1>10. ASSUME NEW y \in PaperDocs PROVE BoardShown(n, m, o, y)
  <2> SUFFICES ASSUME n.listening \cap PaperDocs = {y}, o # Absent,
                      PendingOn(n, y) \cap Adding(n) = {}
               PROVE  Shows(n, m, View(n, y))
    BY DEF BoardShown
  <2> DEFINE v == View(c, y)
  <2>1. Shows(c, s, v) /\ View(n, y) = v
    BY <1>1, <1>4 DEF Board, BoardShown
  <2> HIDE DEF v
  <2>2. ASSUME Setters(n) = {} PROVE m = v
    <3>1. \A j \in Setters(c) : j = 1
      <4>1. ASSUME NEW j \in Setters(c), j # 1 PROVE FALSE
        <5>1. j - 1 \in 1..k /\ (j - 1) + 1 = j
          BY <1>2, <1>3, <4>1
        <5> QED BY <1>3, <2>2, <5>1
      <4> QED BY <4>1
    <3>2. CASE SetsSubject(e)
      <4>1. 1 \in Setters(c) /\ \A j \in Setters(c) : j <= 1
        BY <1>3, <3>1, <3>2
      <4> QED BY <1>2, <2>1, <3>2, <4>1 DEF Shows
    <3>3. CASE ~SetsSubject(e)
      <4>1. Setters(c) = {}
        BY <1>3, <3>1, <3>3
      <4> QED BY <2>1, <3>3, <4>1 DEF Shows
    <3> QED BY <3>2, <3>3
  <2>3. ASSUME NEW i \in Setters(n), \A j \in Setters(n) : j <= i PROVE n.inbox[i].val = v
    <3>1. i \in 1..k /\ i + 1 \in Setters(c) /\ n.inbox[i] = c.inbox[i + 1]
      BY <1>2, <1>3
    <3>2. ASSUME NEW j \in Setters(c) PROVE j <= i + 1
      <4>1. CASE j = 1
        BY <3>1, <4>1
      <4>2. CASE j # 1
        <5>1. j - 1 \in 1..k /\ (j - 1) + 1 = j
          BY <1>2, <1>3, <4>2
        <5>2. j - 1 <= i
          BY <1>3, <2>3, <5>1
        <5> QED BY <1>2, <1>3, <3>1, <5>2
      <4> QED BY <4>1, <4>2
    <3> QED BY <2>1, <3>1, <3>2 DEF Shows
  <2> QED BY <2>1, <2>2, <2>3 DEF Shows
<1> QED BY <1>6, <1>7, <1>8, <1>9, <1>10 DEF Board

(* A getDocument call is answered.                                         *)
LEMMA AnswerBoard ==
  ASSUME NEW c, NEW s, NEW o, NEW K, NEW L, NEW M, Board(c, s, o, K, L, M, {}),
         NEW i \in 1..Len(c.gets)
  PROVE  /\ c.gets[i].doc \in Docs
         /\ \A v \in ValuesOf(c.gets[i].doc) : Board(Answer(c, i, v), s, o, K, L, M, {})
<1> DEFINE g == c.gets[i]
           rest == [j \in 1..(Len(c.gets) - 1) |-> c.gets[IF j < i THEN j ELSE j + 1]]
           n == [c EXCEPT !.gets = rest]
<1>1. /\ ClientOK(c) /\ c \in ClientType /\ c.gets \in Seq(GetType) /\ Len(c.gets) \in Nat
      /\ BoardInOrder(c, s) /\ \A j \in 1..Len(c.gets) : c.gets[j] \in GetType
  BY ClientTyped, ElementOfSeq DEF Board, BoardInOrder
<1>2. Len(c.gets) - 1 \in Nat
  BY <1>1
<1>3. \A j \in 1..(Len(c.gets) - 1) : (IF j < i THEN j ELSE j + 1) \in 1..Len(c.gets)
  BY <1>1
<1>4. rest \in Seq(GetType) /\ Len(rest) = Len(c.gets) - 1
  <2>1. \A j \in 1..(Len(c.gets) - 1) : c.gets[IF j < i THEN j ELSE j + 1] \in GetType
    BY <1>1, <1>3
  <2>2. rest \in Seq(GetType) /\ DOMAIN rest = 1..(Len(c.gets) - 1)
    BY <1>2, <2>1, IsASeq
  <2> QED BY <1>2, <2>2, LenProperties
<1>5. \A j \in 1..Len(rest) : ~Reread(rest[j].then.op)
  <2>1. \A j \in 1..Len(c.gets) : ~Reread(c.gets[j].then.op)
    BY <1>1 DEF BoardInOrder
  <2> QED BY <1>3, <1>4, <2>1
<1>6. /\ g.doc \in Docs /\ g.then \in ThenType /\ ~Reread(g.then.op)
      /\ \A u \in ValuesOf(g.doc) : Fits(g.doc, u, g.then)
  <2>1. g \in GetType
    BY <1>1
  <2> QED BY <1>1, <2>1 DEF GetType, BoardInOrder
<1> HIDE DEF rest, g
<1>7. /\ n \in ClientType /\ n.gets = rest
      /\ n.pending = c.pending /\ n.base = c.base /\ n.listening = c.listening
      /\ n.inbox = c.inbox /\ n.raised = c.raised
  BY <1>1, <1>4 DEF ClientType
<1> HIDE DEF n
<1>8. ClientOK(n) /\ Setters(n) = Setters(c)
  BY <1>1, <1>7 DEF ClientOK, Setters
<1>9. Board(n, s, o, K, L, M, {})
  <2>1. /\ \A y \in PaperDocs : y \in c.raised => y \in c.listening
        /\ \A j \in 1..Len(c.inbox) : c.inbox[j].type # "got" \/ ~Reread(c.inbox[j].then.op)
    BY <1>1 DEF BoardInOrder
  <2> QED BY <1>5, <1>7, <1>8, <2>1, SameBoard
<1>10. ASSUME NEW v \in ValuesOf(g.doc) PROVE Board(Answer(c, i, v), s, o, K, L, M, {})
  <2> DEFINE e == Event("got", g.doc, v, g.then)
  <2>1. e \in EventType /\ e.type = "got" /\ ~Reread(e.then.op)
    BY <1>6, EventTyped DEF Event
  <2>2. ~SetsSubject(e)
    BY <2>1 DEF SetsSubject
  <2> HIDE DEF e
  <2>3. Board(Post(n, e), s, o, K, L, M, {})
    BY <1>9, <2>1, <2>2, PostedBoard
  <2> QED BY <2>3 DEF Answer, n, e, g, rest
<1> QED BY <1>6, <1>10 DEF g

(* nil is published, and no paper observed.                                *)
LEMMA ResetBoard ==
  ASSUME NEW c, NEW s, NEW o, NEW K, NEW L, NEW M, Board(c, s, o, K, L, M, {})
  PROVE  Board(c, Absent, Absent, K, L, M, {})
<1>1. BoardInOrder(c, Absent)
  BY DEF Board, BoardInOrder
<1>2. Carried(c, Absent) \subseteq Carried(c, s)
  BY DEF Carried, CardsOf
<1> QED BY <1>1, <1>2 DEF Board, BoardShown

(* The bounds K, L and M may move: of the new K, what is not of the old    *)
(* one is no card of the device.                                           *)
LEMMA WiderBoard ==
  ASSUME NEW c, NEW s, NEW o, NEW K, NEW L, NEW M, Board(c, s, o, K, L, M, {}),
         NEW N, \A k \in N : k \in K \/ k \notin L,
         NEW L2, L \subseteq L2, NEW M2, M \subseteq M2
  PROVE  Board(c, s, o, N, L2, M2, {})
<1>1. ClientOK(c)
  BY DEF Board, BoardInOrder
<1>2. ASSUME NEW i \in Adding(c), NEW k \in CardsOf(c.pending[i].val) PROVE k \in L
  <2>1. c.pending[i].doc \in PaperDocs /\ i \in 1..Len(c.pending) /\ k \in Cards
    BY <1>1, AddingTyped, CardsAre
  <2> QED BY <2>1 DEF Board, Carried
<1>3. FreshWrites(c, N)
  BY <1>2 DEF Board, FreshWrites
<1> QED BY <1>3 DEF Board

-----------------------------------------------------------------------------
(* What the manager asks of the client keeps the board in order            *)

(* No other document is written by addCard.                                *)
(* Where no card is added, any paper may be written.                       *)
LEMMA PaperWriteBoard ==
  ASSUME "addCard" \notin Ops,
         NEW c, NEW s, NEW o, NEW K, NEW M, Board(c, s, o, K, Cards, M, {}),
         NEW x \in PaperDocs, NEW v \in ValuesOf(x), NEW t \in ThenType, Fits(x, v, t),
         t.op # "addCard"
  PROVE  Board(Write(c, x, v, t), s, o, K, Cards, M, {})
<1>1. Adding(c) = {}
  BY DEF Board, BoardInOrder
<1>2. x \in Docs /\ CardsOf(v) \subseteq Cards
  BY CardsAre DEF Docs
<1> QED BY <1>1, <1>2, WriteBoard

LEMMA OtherWriteBoard ==
  ASSUME NEW c, NEW s, NEW o, NEW K, NEW L, NEW M, Board(c, s, o, K, L, M, {}),
         NEW x \in Docs, x \notin PaperDocs, NEW v \in ValuesOf(x), NEW t \in ThenType, Fits(x, v, t)
  PROVE  Board(Write(c, x, v, t), s, o, K, L, M, {})
<1>1. t.op # "addCard"
  BY PaperDocsAre DEF Fits
<1>2. ASSUME NEW i \in Adding(c) PROVE c.pending[i].doc # x
  BY AddingTyped DEF Board, BoardInOrder
<1> QED BY <1>1, <1>2, WriteBoard

LEMMA RemovePaperPreviewBoard ==
  ASSUME NEW c, NEW s, NEW o, NEW K, NEW L, NEW M, Board(c, s, o, K, L, M, {}), NEW p \in Papers
  PROVE  Board(RemovePaperPreview(c, p), s, o, K, L, M, {})
<1>1. Then("removePaperPreview", p) \in ThenType
  BY ThenTyped DEF OpNames
<1>2. Preview(p) \in Docs /\ Absent \in ValuesOf(Preview(p)) /\ Preview(p) \notin PaperDocs
  BY PreviewValue, AbsentValue DEF Preview, PaperDocs, Paper
<1>3. Fits(Preview(p), Absent, Then("removePaperPreview", p))
  BY <1>2 DEF Fits, Then, Preview
<1> QED BY <1>1, <1>2, <1>3, OtherWriteBoard DEF RemovePaperPreview

LEMMA SetPaperPreviewBoard ==
  ASSUME NEW c, NEW s, NEW o, NEW K, NEW L, NEW M, Board(c, s, o, K, L, M, {}),
         NEW paper \in PaperModel
  PROVE  Board(SetPaperPreview(c, paper), s, o, K, L, M, {})
<1> DEFINE x == Preview(paper.id)
           v == [title |-> paper.title]
           n == Write(c, x, v, NoCallback)
<1>1. paper.id \in Papers /\ v \in PaperPreviewModel
  BY DEF PaperModel, PaperPreviewModel
<1>2. x \in Docs /\ v \in ValuesOf(x) /\ x \notin PaperDocs /\ \A p \in Papers : x # Paper(p)
  BY <1>1, PreviewValue DEF Preview, PaperDocs, Paper
<1>3. NoCallback \in ThenType /\ Fits(x, v, NoCallback)
  BY <1>2, ThenTyped DEF NoCallback, OpNames, Fits, Then
<1> HIDE DEF x, v
<1>4. Board(n, s, o, K, L, M, {})
  BY <1>2, <1>3, OtherWriteBoard
<1> HIDE DEF n
<1>5. Board(Listen(n, x), s, o, K, L, M, {})
  BY <1>2, <1>4, ListenBoard
<1> QED BY <1>5 DEF SetPaperPreview, n, x, v

LEMMA UsersPaperIdBoard ==
  ASSUME NEW c, NEW s, NEW o, NEW K, NEW L, NEW M, Board(c, s, o, K, L, M, {}),
         StateTyped, NEW d \in Devices, NEW p \in Papers
  PROVE  /\ Board(AddUsersPaperId(c, d, p), s, o, K, L, M, {})
         /\ Board(RemoveUsersPaperId(c, d, p), s, o, K, L, M, {})
<1>1. CASE email[d] = Absent
  BY <1>1 DEF AddUsersPaperId, RemoveUsersPaperId
<1>2. CASE email[d] # Absent
  <2> DEFINE x == User(email[d])
  <2>1. x \in Docs
    BY <1>2, ListValue DEF StateTyped
  <2>2. ASSUME NEW op \in {"addUsersPaperId", "removeUsersPaperId"}
        PROVE  /\ Then(op, p) \in ThenType /\ ~Reread(Then(op, p).op)
               /\ \A v \in ValuesOf(x) : Fits(x, v, Then(op, p))
    BY ThenTyped DEF OpNames, Fits, Then, User, Reread
  <2> HIDE DEF x
  <2>3. ASSUME NEW op \in {"addUsersPaperId", "removeUsersPaperId"}
        PROVE  Board(Get(c, x, Then(op, p)), s, o, K, L, M, {})
    BY <2>1, <2>2, GetBoard
  <2> QED BY <1>2, <2>3 DEF AddUsersPaperId, RemoveUsersPaperId, x
<1> QED BY <1>1, <1>2

-----------------------------------------------------------------------------
(* The boards of all devices                                               *)

(* The cards of the backend and of the other devices.                      *)
Elsewhere(d) ==
  {k \in Cards : k \in OnServer \/ \E e \in Devices \ {d} : k \in Carried(client[e], subject[e])}

(* Where cards are added, those that device d can come by without adding   *)
(* one.                                                                    *)
Within(d) ==
  IF "addCard" \in Ops THEN Carried(client[d], subject[d]) \cup OnServer ELSE Cards

InUse == IF "addCard" \in Ops THEN created ELSE Cards

BoardInv ==
  /\ OnServer \subseteq InUse
  /\ \A d \in Devices :
       Board(client[d], subject[d], paperObserver[d], Elsewhere(d), InUse, created, {})

LEMMA DeviceBoard ==
  ASSUME StateTyped, BoardInv, NEW d \in Devices
  PROVE  /\ Board(client[d], subject[d], paperObserver[d], Elsewhere(d), Within(d), created, {})
         /\ OnServer \subseteq Elsewhere(d) /\ OnServer \subseteq Within(d)
         /\ Carried(client[d], subject[d]) \subseteq Within(d)
         /\ Within(d) \subseteq InUse /\ Elsewhere(d) \subseteq InUse
         /\ client[d].pending \in Seq(WriteType) /\ client[d].inbox \in Seq(EventType)
<1>1. Carried(client[d], subject[d]) \subseteq Within(d) /\ OnServer \subseteq Within(d)
  BY DEF Within, Carried, OnServer
<1>2. Board(client[d], subject[d], paperObserver[d], Elsewhere(d), Within(d), created, {})
  BY <1>1 DEF BoardInv, Board
<1>3. OnServer \subseteq Elsewhere(d)
  BY DEF Elsewhere, OnServer
<1>4. \A e \in Devices : Carried(client[e], subject[e]) \subseteq InUse
  BY DEF BoardInv, Board
<1>5. Within(d) \subseteq InUse /\ Elsewhere(d) \subseteq InUse
  BY <1>4 DEF BoardInv, Within, Elsewhere, InUse
<1>6. client[d].pending \in Seq(WriteType) /\ client[d].inbox \in Seq(EventType)
  BY ClientTyped DEF BoardInv, Board, BoardInOrder
<1> QED BY <1>1, <1>2, <1>3, <1>5, <1>6

(* A step of device d that brings the cards of X into use.                 *)
LEMMA BoardStep ==
  ASSUME StateTyped, BoardInv, NEW d \in Devices, client \in [Devices -> ClientType],
         NEW n, NEW s, NEW o, NEW X, X \cap InUse = {},
         client' = [client EXCEPT ![d] = n], subject' = [subject EXCEPT ![d] = s],
         paperObserver' = [paperObserver EXCEPT ![d] = o],
         created \subseteq created', X \subseteq InUse',
         OnServer' \subseteq Within(d),
         Board(n, s, o, Elsewhere(d)', Within(d) \cup X, created', {})
  PROVE  BoardInv'
<1>1. \A e \in Devices : /\ client'[e] = IF e = d THEN n ELSE client[e]
                         /\ subject'[e] = IF e = d THEN s ELSE subject[e]
                         /\ paperObserver'[e] = IF e = d THEN o ELSE paperObserver[e]
  BY DEF StateTyped
<1>2. Carried(n, s) \subseteq Within(d) \cup X
  BY DEF Board
<1>3. Within(d) \subseteq InUse' /\ InUse \subseteq InUse'
  <2>1. InUse \subseteq InUse'
    BY DEF InUse
  <2> QED BY <2>1, DeviceBoard
<1>4. ASSUME NEW e \in Devices
      PROVE  Board(client'[e], subject'[e], paperObserver'[e], Elsewhere(e)', InUse', created', {})
  <2>1. CASE e = d
    <3>1. Board(n, s, o, Elsewhere(d)', InUse', created', {})
      BY <1>3, WiderBoard
    <3> QED BY <1>1, <2>1, <3>1
  <2>2. CASE e # d
    <3>1. Board(client[e], subject[e], paperObserver[e], Elsewhere(e), InUse, created, {})
      BY DEF BoardInv
    <3>2. CASE "addCard" \in Ops
      <4>1. Within(d) \cap Cards \subseteq Elsewhere(e)
        BY <2>2, <3>2 DEF Within, Elsewhere
      <4>2. ASSUME NEW k \in Elsewhere(e)' PROVE k \in Elsewhere(e) \/ k \notin InUse
        <5>1. /\ k \in Cards
              /\ k \in OnServer' \/ \E g \in Devices \ {e} : k \in Carried(client'[g], subject'[g])
          BY <4>2 DEF Elsewhere
        <5>2. CASE k \in OnServer'
          BY <4>1, <5>1, <5>2
        <5>3. CASE \E g \in Devices \ {e} : k \in Carried(client'[g], subject'[g])
          <6>1. PICK g \in Devices \ {e} : k \in Carried(client'[g], subject'[g])
            BY <5>3
          <6>2. CASE g = d
            BY <1>1, <1>2, <4>1, <5>1, <6>1, <6>2
          <6>3. CASE g # d
            BY <1>1, <5>1, <6>1, <6>3 DEF Elsewhere
          <6> QED BY <6>2, <6>3
        <5> QED BY <5>1, <5>2, <5>3
      <4>3. Board(client[e], subject[e], paperObserver[e], Elsewhere(e)', InUse', created', {})
        BY <1>3, <3>1, <4>2, WiderBoard
      <4> QED BY <1>1, <2>2, <4>3
    <3>3. CASE "addCard" \notin Ops
      <4>1. Adding(client[e]) = {}
        BY <3>1, <3>3 DEF Board, BoardInOrder
      <4>2. Board(client[e], subject[e], paperObserver[e], Elsewhere(e)', InUse', created', {})
        BY <1>3, <3>1, <4>1 DEF Board, FreshWrites
      <4> QED BY <1>1, <2>2, <4>2
    <3> QED BY <3>2, <3>3
  <2> QED BY <2>1, <2>2
<1>5. OnServer' \subseteq InUse'
  BY <1>3
<1> QED BY <1>4, <1>5 DEF BoardInv

(* What is elsewhere does not depend on the device.                        *)
LEMMA ElsewhereSame ==
  ASSUME NEW d \in Devices, NEW n, NEW s, client \in [Devices -> ClientType], StateTyped,
         client' = [client EXCEPT ![d] = n], subject' = [subject EXCEPT ![d] = s], UNCHANGED server
  PROVE  Elsewhere(d)' = Elsewhere(d) /\ OnServer' = OnServer
<1>1. OnServer' = OnServer
  BY DEF OnServer
<1>2. \A e \in Devices \ {d} : client'[e] = client[e] /\ subject'[e] = subject[e]
  BY DEF StateTyped
<1> QED BY <1>1, <1>2 DEF Elsewhere

(* A step of device d that leaves the backend alone.                       *)
LEMMA LocalStep ==
  ASSUME StateTyped, BoardInv, NEW d \in Devices, client \in [Devices -> ClientType],
         NEW n, NEW s, NEW o,
         client' = [client EXCEPT ![d] = n], subject' = [subject EXCEPT ![d] = s],
         paperObserver' = [paperObserver EXCEPT ![d] = o], UNCHANGED server,
         created \subseteq created',
         Board(n, s, o, Elsewhere(d), Within(d), created, {})
  PROVE  BoardInv'
<1>1. Elsewhere(d)' = Elsewhere(d) /\ OnServer' = OnServer
  BY ElsewhereSame
<1>2. Board(n, s, o, Elsewhere(d)', Within(d) \cup {}, created', {})
  BY <1>1, WiderBoard
<1>3. OnServer' \subseteq Within(d)
  BY <1>1, DeviceBoard
<1> DEFINE X == {}
<1>4. X \cap InUse = {} /\ X \subseteq InUse' /\ Board(n, s, o, Elsewhere(d)', Within(d) \cup X, created', {})
  BY <1>2
<1> HIDE DEF X
<1> QED BY <1>3, <1>4, BoardStep

(* The same for a step that does not touch the publisher.                  *)
LEMMA ClientBoardStep ==
  ASSUME StateTyped, BoardInv, NEW d \in Devices, client \in [Devices -> ClientType], NEW n,
         client' = [client EXCEPT ![d] = n], UNCHANGED <<server, subject, paperObserver>>,
         created \subseteq created',
         Board(n, subject[d], paperObserver[d], Elsewhere(d), Within(d), created, {})
  PROVE  BoardInv'
<1> DEFINE s == subject[d]
           o == paperObserver[d]
<1>1. /\ subject' = [subject EXCEPT ![d] = s]
      /\ paperObserver' = [paperObserver EXCEPT ![d] = o]
  BY DEF StateTyped
<1>2. UNCHANGED server /\ Board(n, s, o, Elsewhere(d), Within(d), created, {})
  OBVIOUS
<1>3. /\ StateTyped /\ BoardInv /\ client \in [Devices -> ClientType]
      /\ client' = [client EXCEPT ![d] = n] /\ created \subseteq created'
  OBVIOUS
<1> HIDE DEF s, o
<1> QED BY ONLY <1>1, <1>2, <1>3, d \in Devices, LocalStep

-----------------------------------------------------------------------------
(* The steps keep the boards in order                                      *)

LEMMA NetworkBoard ==
  ASSUME IInv, BoardInv, NEW d \in Devices, Network(d)
  PROVE  BoardInv'
<1> DEFINE c == client[d]
           s == subject[d]
           o == paperObserver[d]
           K == Elsewhere(d)
           L == Within(d)
<1>0. /\ StateTyped /\ client \in [Devices -> ClientType] /\ UNCHANGED appVars
      /\ UNCHANGED <<subject, paperObserver, created>> /\ created \subseteq created'
  BY InvariantInOrder DEF Network, appVars
<1>1. /\ Board(c, s, o, K, L, created, {}) /\ OnServer \subseteq K /\ OnServer \subseteq L
      /\ c.pending \in Seq(WriteType) /\ Carried(c, s) \subseteq L
  BY <1>0, DeviceBoard
<1>2. \A x \in Docs : server[x] \in ValuesOf(x)
  BY <1>0 DEF StateTyped
<1> HIDE DEF K, L
<1>3. ASSUME NEW n, client' = [client EXCEPT ![d] = n], UNCHANGED server,
             Board(n, s, o, K, L, created, {})
      PROVE  BoardInv'
  BY <1>0, <1>3, ClientBoardStep DEF K, L
<1> HIDE DEF s, o
<1>4. CASE Acknowledge(d)
  <2> DEFINE w == Head(c.pending)
             acked == [c EXCEPT !.pending = Tail(@), !.base[w.doc] = w.val]
             n == IF w.then = NoCallback THEN acked ELSE Post(acked, Event("done", w.doc, w.val, w.then))
             N == Elsewhere(d)'
  <2>1. /\ c.pending # << >> /\ server' = [server EXCEPT ![w.doc] = w.val]
        /\ client' = [client EXCEPT ![d] = n]
    BY <1>4 DEF Acknowledge
  <2>2. /\ w \in WriteType /\ w = c.pending[1] /\ 1 \in 1..Len(c.pending)
    BY <1>1, <2>1, HeadTailProperties, EmptySeq, LenProperties
  <2>3. w.doc \in Docs /\ w.val \in ValuesOf(w.doc)
    BY <2>2 DEF WriteType, Fits
  <2> HIDE DEF w
  <2>4. \A k \in OnServer' : k \in OnServer \/ (w.doc \in PaperDocs /\ k \in CardsOf(w.val))
    <3>1. \A y \in PaperDocs : server'[y] = server[y] \/ (y = w.doc /\ server'[y] = w.val)
      BY <1>0, <2>1 DEF StateTyped, Docs
    <3> QED BY <3>1 DEF OnServer
  <2>5. Spread(w, K, N)
    <3>1. \A e \in Devices \ {d} : client'[e] = client[e] /\ subject'[e] = subject[e]
      BY <1>0, <2>1
    <3>2. ASSUME NEW k \in N PROVE k \in K \/ (w.doc \in PaperDocs /\ k \in CardsOf(w.val))
      <4>1. k \in OnServer' \/ \E e \in Devices \ {d} : k \in Carried(client[e], subject[e])
        BY <3>1, <3>2 DEF Elsewhere
      <4>2. k \in Cards
        BY <3>2 DEF Elsewhere
      <4> QED BY <1>1, <2>4, <4>1, <4>2 DEF Elsewhere, K
    <3> QED BY <3>2 DEF Spread
  <2> HIDE DEF N
  <2>6. Board(n, s, o, N, L, created, {})
    BY <1>1, <2>1, <2>5, AcknowledgedBoard DEF w
  <2>7. OnServer' \subseteq L
    <3>1. w.doc \in PaperDocs => CardsOf(w.val) \cap Cards \subseteq Carried(c, s)
      BY <2>2 DEF Carried
    <3> QED BY <1>1, <2>4, <3>1 DEF L, s, OnServer
  <2> HIDE DEF n
  <2> DEFINE X == {}
  <2>8. X \cap InUse = {} /\ X \subseteq InUse' /\ Board(n, s, o, N, L \cup X, created', {})
    BY <1>0, <2>6
  <2> HIDE DEF X
  <2>9. subject' = [subject EXCEPT ![d] = s] /\ paperObserver' = [paperObserver EXCEPT ![d] = o]
    BY <1>0 DEF s, o, StateTyped
  <2> QED BY <1>0, <2>1, <2>7, <2>8, <2>9, BoardStep DEF N, L
<1>5. CASE Reject(d)
  <2> DEFINE x == Head(c.pending).doc
             m == [c EXCEPT !.pending = Tail(@)]
  <2>1. c.pending # << >> /\ client' = [client EXCEPT ![d] = Notify(c, m, x)] /\ UNCHANGED server
    BY <1>5 DEF Reject
  <2>2. Board(Notify(c, m, x), s, o, K, L, created, {})
    BY <1>1, <2>1, RejectedBoard
  <2> QED BY <1>3, <2>1, <2>2
<1>6. ASSUME NEW x \in Docs, Watch(d, x) PROVE BoardInv'
  <2>1. client' = [client EXCEPT ![d] = Received(c, x)] /\ UNCHANGED server
    BY <1>6 DEF Watch
  <2>2. Board(Received(c, x), s, o, K, L, created, {})
    BY <1>1, <1>2, ReceivedBoard
  <2> QED BY <1>3, <2>1, <2>2
<1>7. ASSUME NEW x \in Docs, OfflineSnapshot(d, x) PROVE BoardInv'
  <2>1. /\ client' = [client EXCEPT ![d] = PostSnapshot(c, x, View(c, x))] /\ UNCHANGED server
        /\ x \in c.listening
    BY <1>7 DEF OfflineSnapshot
  <2>2. Board(PostSnapshot(c, x, View(c, x)), s, o, K, L, created, {})
    BY <1>1, <2>1, ExceptBoard, SnapshotBoard
  <2> QED BY <1>3, <2>1, <2>2
<1>8. CASE AnswerOnline(d)
  <2>1. PICK i \in Answerable(c) :
          LET x   == c.gets[i].doc
              new == Received(c, x)
          IN  client' = [client EXCEPT ![d] = Answer(new, i, View(new, x))]
    BY <1>8 DEF AnswerOnline
  <2>2. UNCHANGED server
    BY <1>8 DEF AnswerOnline
  <2>3. i \in 1..Len(c.gets)
    BY DEF Answerable
  <2> DEFINE x == c.gets[i].doc
             new == Received(c, x)
  <2>4. x \in Docs
    BY <1>1, <2>3, AnswerBoard
  <2>5. client' = [client EXCEPT ![d] = Answer(new, i, View(new, x))]
    BY <2>1
  <2> HIDE DEF x
  <2>6. Board(new, s, o, K, L, created, {}) /\ new.gets = c.gets
    <3>1. InOrder(c, papers[d])
      BY InvariantInOrder
    <3> QED BY <1>1, <1>2, <2>4, <3>1, ReceivedBoard, ReceivedGets
  <2> HIDE DEF new
  <2>7. View(new, x) \in ValuesOf(new.gets[i].doc)
    BY <2>4, <2>6, ViewType DEF Board, BoardInOrder, x
  <2>8. Board(Answer(new, i, View(new, x)), s, o, K, L, created, {})
    BY <2>3, <2>6, <2>7, AnswerBoard
  <2> QED BY <1>3, <2>2, <2>5, <2>8
<1>9. CASE AnswerOffline(d)
  <2>1. PICK i \in Answerable(c) : client' = [client EXCEPT ![d] = Answer(c, i, View(c, c.gets[i].doc))]
    BY <1>9 DEF AnswerOffline
  <2>2. UNCHANGED server
    BY <1>9 DEF AnswerOffline
  <2>3. i \in 1..Len(c.gets)
    BY DEF Answerable
  <2>4. View(c, c.gets[i].doc) \in ValuesOf(c.gets[i].doc)
    BY <1>1, <2>3, AnswerBoard, ViewType DEF Board, BoardInOrder
  <2>5. Board(Answer(c, i, View(c, c.gets[i].doc)), s, o, K, L, created, {})
    BY <1>1, <2>3, <2>4, AnswerBoard
  <2> QED BY <1>3, <2>1, <2>2, <2>5
<1> QED BY <1>4, <1>5, <1>6, <1>7, <1>8, <1>9 DEF Network

(* The operations keep the boards in order.                                *)
LEMMA OperationBoard ==
  ASSUME IInv, BoardInv, OpsFit, NEW d \in Devices, Operation(d)
  PROVE  BoardInv'
<1> DEFINE c == client[d]
           s == subject[d]
           o == paperObserver[d]
           K == Elsewhere(d)
           L == Within(d)
<1>0. /\ StateTyped /\ client \in [Devices -> ClientType]
      /\ client = [client EXCEPT ![d] = c] /\ subject = [subject EXCEPT ![d] = s]
      /\ paperObserver = [paperObserver EXCEPT ![d] = o]
  BY InvariantInOrder DEF StateTyped
<1>1. /\ Board(c, s, o, K, L, created, {}) /\ OnServer \subseteq L
      /\ L \subseteq InUse /\ K \subseteq InUse /\ BoardInOrder(c, s) /\ ClientOK(c)
  BY <1>0, DeviceBoard DEF Board, BoardInOrder
<1>2. s # Absent => s \in PaperModel /\ s.id \in Papers /\ Paper(s.id) \in c.raised
                    /\ s.cards \subseteq Carried(c, s)
  BY <1>0, <1>1 DEF StateTyped, BoardInOrder, PaperModel, Carried, CardsOf
<1>3. Carried(c, s) \subseteq L
  BY <1>1 DEF Board
<1>4. ASSUME NEW op, Perform(op)
      PROVE  op \in Ops /\ op # "addPaper" /\ ("addCard" \in Ops => op \in BoardOps)
  BY <1>4 DEF Perform, OpsFit
<1> HIDE DEF K, L
<1>5. ASSUME NEW n, NEW m, NEW q, client' = [client EXCEPT ![d] = n],
             subject' = [subject EXCEPT ![d] = m], paperObserver' = [paperObserver EXCEPT ![d] = q],
             UNCHANGED server, created \subseteq created', Board(n, m, q, K, L, created, {})
      PROVE  BoardInv'
  BY <1>0, <1>5, LocalStep DEF K, L
<1> HIDE DEF c, s, o
<1>6. ASSUME NEW p \in Papers, FetchPaper(d, p) PROVE BoardInv'
  <2>1. /\ client' = [client EXCEPT ![d] = Listen(c, Paper(p))] /\ p \in created
        /\ subject' = [subject EXCEPT ![d] = s] /\ paperObserver' = [paperObserver EXCEPT ![d] = p]
        /\ UNCHANGED <<server, created>>
    BY <1>0, <1>6 DEF FetchPaper, c, s
  <2>2. Paper(p) \in Docs /\ Paper(p) \in PaperDocs /\ \A r \in Papers : Paper(p) = Paper(r) => r \in created
    BY <2>1 DEF Docs, PaperDocs, Paper
  <2>3. Board(Listen(c, Paper(p)), s, p, K, L, created, {})
    BY <1>1, <2>2, ListenBoard
  <2> QED BY <1>5, <2>1, <2>3
<1>7. ASSUME ResetPaper(d) PROVE BoardInv'
  <2>1. /\ client' = [client EXCEPT ![d] = c]
        /\ subject' = [subject EXCEPT ![d] = Absent] /\ paperObserver' = [paperObserver EXCEPT ![d] = Absent]
        /\ UNCHANGED <<server, created>>
    BY <1>0, <1>7 DEF ResetPaper
  <2>2. Board(c, Absent, Absent, K, L, created, {})
    BY <1>1, ResetBoard
  <2> QED BY <1>5, <2>1, <2>2
<1>8. ASSUME NEW card \in Cards, AddCard(d, card) PROVE BoardInv'
  <2> DEFINE paper == [s EXCEPT !.cards = @ \cup {card}]
             x == Paper(paper.id)
             t == Then("addCard", Absent)
             n == Write(c, x, paper, t)
             X == {card}
  <2>1. /\ client' = [client EXCEPT ![d] = n]
        /\ subject' = [subject EXCEPT ![d] = s] /\ paperObserver' = [paperObserver EXCEPT ![d] = o]
        /\ UNCHANGED server /\ s # Absent /\ card \notin created /\ created' = created \cup {card}
        /\ "addCard" \in Ops
    BY <1>0, <1>4, <1>8 DEF AddCard, WritePaper, c, s
  <2>2. /\ paper \in PaperModel /\ paper.id = s.id /\ paper.cards = s.cards \cup {card}
        /\ paper # Absent
    <3>1. paper \in PaperModel /\ paper.id = s.id /\ paper.cards = s.cards \cup {card}
      BY <1>2, <2>1 DEF PaperModel
    <3> QED BY <3>1, PaperNotAbsent
  <2> HIDE DEF paper
  <2>3. x \in Docs /\ paper \in ValuesOf(x) /\ x \in c.raised
    BY <1>2, <2>1, <2>2, PaperValue
  <2>4. t \in ThenType /\ Fits(x, paper, t) /\ t.op = "addCard"
    BY <2>2, <2>3, ThenTyped DEF OpNames, Fits, Then, Paper
  <2>5. CardsOf(paper) \subseteq L \cup X /\ card \in CardsOf(paper)
    BY <1>2, <1>3, <2>1, <2>2 DEF CardsOf
  <2>6. card \notin K /\ card \notin Carried(c, s)
    BY <1>1, <1>3, <2>1 DEF InUse
  <2>7. Board(c, s, o, K, L \cup X, created, {})
    BY <1>1 DEF Board
  <2> HIDE DEF x, t, X
  <2>8. Board(n, s, o, K, L \cup X, created, {})
    BY <2>1, <2>3, <2>4, <2>5, <2>6, <2>7, WriteBoard
  <2> HIDE DEF n
  <2>9. Elsewhere(d)' = K /\ OnServer' \subseteq L
    BY <1>0, <1>1, <2>1, ElsewhereSame DEF K
  <2>10. Board(n, s, o, Elsewhere(d)', L \cup X, created', {})
    BY <2>1, <2>8, <2>9 DEF Board
  <2>11. X \cap InUse = {} /\ created \subseteq created' /\ X \subseteq InUse'
    BY <2>1 DEF X, InUse
  <2> QED BY <1>0, <2>1, <2>9, <2>10, <2>11, BoardStep DEF L
<1>9. ASSUME NEW g \in Papers, ConvertPaperToGift(d, g) PROVE BoardInv'
  <2> DEFINE paper == [s EXCEPT !.id = g]
             x == Paper(g)
             t == Then("convertPaperToGift", Absent)
             n == Write(c, x, paper, t)
  <2>1. /\ client' = [client EXCEPT ![d] = WritePaper(c, paper, "convertPaperToGift")]
        /\ subject' = [subject EXCEPT ![d] = s] /\ paperObserver' = [paperObserver EXCEPT ![d] = o]
        /\ UNCHANGED server /\ s # Absent /\ g \notin created /\ created \subseteq created'
    BY <1>0, <1>9 DEF ConvertPaperToGift, c, s
  <2>2. /\ paper \in PaperModel /\ paper.id = g /\ paper.cards = s.cards /\ paper # Absent
    <3>1. paper \in PaperModel /\ paper.id = g /\ paper.cards = s.cards
      BY <1>2, <2>1 DEF PaperModel
    <3> QED BY <3>1, PaperNotAbsent
  <2>3. client' = [client EXCEPT ![d] = n]
    BY <2>1, <2>2 DEF WritePaper
  <2> HIDE DEF paper
  <2>4. x \in Docs /\ paper \in ValuesOf(x) /\ x \in PaperDocs
    BY <2>2, PaperValue DEF PaperDocs
  <2>5. t \in ThenType /\ Fits(x, paper, t) /\ t.op # "addCard"
    BY <2>2, <2>4, ThenTyped DEF OpNames, Fits, Then, Paper
  <2>6. CardsOf(paper) \subseteq L
    BY <1>2, <1>3, <2>1, <2>2 DEF CardsOf
  <2>7. ASSUME NEW i \in Adding(c) PROVE c.pending[i].doc # x
    <3>1. x \notin c.listening
      BY <1>1, <2>1 DEF Board
    <3> QED BY <1>1, <2>4, <3>1 DEF BoardInOrder
  <2> HIDE DEF x, t
  <2>8. Board(n, s, o, K, L, created, {})
    BY <1>1, <2>4, <2>5, <2>6, <2>7, WriteBoard
  <2> HIDE DEF n
  <2> QED BY <1>5, <2>1, <2>3, <2>8
<1>10. ASSUME NEW u \in Users, ProfileChanged(d, u) PROVE BoardInv'
  <2>1. /\ client' = [client EXCEPT ![d] = Listen(c, User(u))]
        /\ subject' = [subject EXCEPT ![d] = s] /\ paperObserver' = [paperObserver EXCEPT ![d] = o]
        /\ UNCHANGED <<server, created>>
    BY <1>0, <1>10 DEF ProfileChanged, c
  <2>2. User(u) \in Docs /\ \A r \in Papers : User(u) # Paper(r)
    BY ListValue DEF User, Paper
  <2>3. Board(Listen(c, User(u)), s, o, K, L, created, {})
    BY <1>1, <2>2, ListenBoard
  <2> QED BY <1>5, <2>1, <2>3
<1>11. ASSUME ProfileRemoved(d) PROVE BoardInv'
  <2>1. /\ client' = [client EXCEPT ![d] = c]
        /\ subject' = [subject EXCEPT ![d] = s] /\ paperObserver' = [paperObserver EXCEPT ![d] = o]
        /\ UNCHANGED <<server, created>>
    BY <1>0, <1>11 DEF ProfileRemoved
  <2> QED BY <1>1, <1>5, <2>1
<1>12. ASSUME Restart(d) PROVE BoardInv'
  <2>1. /\ client' = [client EXCEPT ![d] = Restarted(c)]
        /\ subject' = [subject EXCEPT ![d] = Absent] /\ paperObserver' = [paperObserver EXCEPT ![d] = Absent]
        /\ UNCHANGED <<server, created>>
    BY <1>0, <1>12 DEF Restart, c
  <2>2. Board(Restarted(c), Absent, Absent, K, L, created, {})
    BY <1>1, RestartedBoard
  <2> QED BY <1>5, <2>1, <2>2
<1>13. ASSUME "addCard" \notin Ops, NEW x \in PaperDocs, NEW v \in ValuesOf(x), NEW t \in ThenType,
               Fits(x, v, t), t.op # "addCard", client' = [client EXCEPT ![d] = Write(c, x, v, t)],
               UNCHANGED <<server, subject, paperObserver, created>>
       PROVE  BoardInv'
  <2>1. L = Cards
    BY <1>13 DEF L, Within
  <2>2. Board(Write(c, x, v, t), s, o, K, L, created, {})
    BY <1>1, <1>13, <2>1, PaperWriteBoard
  <2>3. /\ subject' = [subject EXCEPT ![d] = s] /\ paperObserver' = [paperObserver EXCEPT ![d] = o]
        /\ UNCHANGED server /\ created \subseteq created'
    BY <1>0, <1>13
  <2> DEFINE n == Write(c, x, v, t)
  <2>4. client' = [client EXCEPT ![d] = n]
    BY <1>13
  <2> HIDE DEF n
  <2> QED BY <1>5, <2>2, <2>3, <2>4 DEF n
<1>14. ASSUME NEW card \in Cards, RemoveCard(d, card) PROVE BoardInv'
  <2> DEFINE x == Paper(s.id)
             t == Then("removeCard", card)
             n == Get(c, x, t)
  <2>1. /\ client' = [client EXCEPT ![d] = n]
        /\ subject' = [subject EXCEPT ![d] = s] /\ paperObserver' = [paperObserver EXCEPT ![d] = o]
        /\ UNCHANGED <<server, created>> /\ s # Absent
    BY <1>0, <1>14 DEF RemoveCard, c, s
  <2>2. x \in Docs /\ "addCard" \notin Ops
    BY <1>2, <1>4, <1>14, <2>1, PaperValue DEF RemoveCard, BoardOps
  <2>3. t \in ThenType /\ (\A v \in ValuesOf(x) : Fits(x, v, t)) /\ ~Reread(t.op)
    BY <2>2, ThenTyped DEF OpNames, Fits, Then, Paper, Reread
  <2> HIDE DEF x, t
  <2>4. Board(n, s, o, K, L, created, {})
    BY <1>1, <2>2, <2>3, GetBoard
  <2> HIDE DEF n
  <2> QED BY <1>5, <2>1, <2>4
<1>15. ASSUME NEW paper \in PaperModel, "addCard" \notin Ops,
              client' = [client EXCEPT ![d] = WritePaper(c, paper, "updatePaper")],
              UNCHANGED <<server, subject, paperObserver, created>>
       PROVE  BoardInv'
  <2> DEFINE x == Paper(paper.id)
             t == Then("updatePaper", Absent)
  <2>1. x \in PaperDocs /\ paper \in ValuesOf(x) /\ paper # Absent
    BY PaperValue, PaperNotAbsent DEF PaperModel, PaperDocs
  <2>2. t \in ThenType /\ Fits(x, paper, t) /\ t.op # "addCard"
    BY <2>1, ThenTyped DEF OpNames, Fits, Then, Paper
  <2>3. client' = [client EXCEPT ![d] = Write(c, x, paper, t)]
    BY <1>15 DEF WritePaper
  <2> HIDE DEF x, t
  <2> QED BY <1>13, <1>15, <2>1, <2>2, <2>3
<1>16. ASSUME NEW t \in Titles, UpdatePaper(d, t) PROVE BoardInv'
  <2> DEFINE paper == [s EXCEPT !.title = t]
  <2>1. /\ client' = [client EXCEPT ![d] = WritePaper(c, paper, "updatePaper")]
        /\ UNCHANGED <<server, subject, paperObserver, created>> /\ s # Absent
        /\ "addCard" \notin Ops
    BY <1>0, <1>4, <1>16 DEF UpdatePaper, BoardOps, c, s
  <2>2. paper \in PaperModel
    BY <1>2, <2>1 DEF PaperModel
  <2> HIDE DEF paper
  <2> QED BY <1>15, <2>1, <2>2
<1>17. ASSUME NEW card \in Cards, UpdateCard(d, card) PROVE BoardInv'
  <2>1. /\ client' = [client EXCEPT ![d] = WritePaper(c, s, "updatePaper")]
        /\ UNCHANGED <<server, subject, paperObserver, created>> /\ s # Absent
        /\ "addCard" \notin Ops
    BY <1>0, <1>4, <1>17 DEF UpdateCard, BoardOps, c, s
  <2> QED BY <1>2, <1>15, <2>1
<1>18. ASSUME NEW p \in Papers, RemovePaper(d, p) PROVE BoardInv'
  <2> DEFINE x == Paper(p)
             t == Then("removePaper", p)
  <2>1. /\ client' = [client EXCEPT ![d] = Write(c, x, Absent, t)]
        /\ UNCHANGED <<server, subject, paperObserver, created>> /\ "addCard" \notin Ops
    BY <1>0, <1>4, <1>18 DEF RemovePaper, BoardOps, c
  <2>2. x \in PaperDocs /\ Absent \in ValuesOf(x)
    BY AbsentValue DEF PaperDocs
  <2>3. t \in ThenType /\ Fits(x, Absent, t) /\ t.op # "addCard"
    BY <2>2, ThenTyped DEF OpNames, Fits, Then, Paper
  <2> HIDE DEF x, t
  <2> QED BY <1>13, <2>1, <2>2, <2>3
<1>19. \A p \in Papers, cs \in SUBSET Cards, t \in Titles : ~AddPaper(d, p, cs, t)
  BY <1>4 DEF AddPaper
<1> QED BY <1>6, <1>7, <1>8, <1>9, <1>10, <1>11, <1>12, <1>14, <1>16, <1>17, <1>18, <1>19 DEF Operation

(* The callbacks keep the boards in order.                                 *)
LEMMA CallbackBoard ==
  ASSUME IInv, BoardInv, NEW d \in Devices, Callback(d)
  PROVE  BoardInv'
<1> DEFINE e == Oldest(d)
           c == Popped(d)
           m == IF SetsSubject(e) THEN e.val ELSE subject[d]
           o == paperObserver[d]
           K == Elsewhere(d)
           L == Within(d)
<1>0. /\ StateTyped /\ client \in [Devices -> ClientType] /\ client[d].inbox # << >>
      /\ paperObserver = [paperObserver EXCEPT ![d] = o]
      /\ subject = [subject EXCEPT ![d] = subject[d]]
  BY InvariantInOrder DEF StateTyped, Callback, Arrived, Snapshot, PaperSnapshot, PreviewSnapshot,
     UserSnapshot, AddPaperDone, AddCardDone, UpdatePaperDone, ConvertPaperToGiftDone,
     RemovePaperDone, RemovePaperPreviewDone, RemoveCardGot, AddUsersPaperIdGot, RemoveUsersPaperIdGot
<1>1. /\ Board(c, m, o, K, L, created, {})
      /\ e.type # "got" \/ ~Reread(e.then.op)
  <2>1. Board(client[d], subject[d], o, K, L, created, {}) /\ client[d].inbox \in Seq(EventType)
    BY <1>0, DeviceBoard
  <2>2. Board(c, m, o, K, L, created, {})
    <3> DEFINE b == client[d]
               s == subject[d]
    <3>1. /\ b.inbox # << >> /\ e = Head(b.inbox) /\ c = [b EXCEPT !.inbox = Tail(@)]
          /\ m = IF SetsSubject(e) THEN e.val ELSE s
      BY <1>0 DEF Oldest, Popped
    <3>2. Board(b, s, o, K, L, created, {})
      BY <2>1
    <3> HIDE DEF e, c, m, o, K, L, b, s
    <3> QED BY ONLY <3>1, <3>2, PoppedBoard
  <2>3. e = client[d].inbox[1] /\ 1 \in 1..Len(client[d].inbox)
    BY <1>0, <2>1, HeadTailProperties, EmptySeq, LenProperties DEF Oldest
  <2> QED BY <2>1, <2>2, <2>3 DEF Board, BoardInOrder
<1>2. /\ e.doc \in Docs /\ e.val \in ValuesOf(e.doc) /\ e.then \in ThenType
      /\ Fits(e.doc, e.val, e.then)
  BY <1>0, OldestTyped
<1>3. ASSUME e.then.op \in {"addPaper", "addCard", "updatePaper", "convertPaperToGift"}
      PROVE  e.val \in PaperModel /\ e.doc.id \in Papers
  BY <1>2, <1>3, DocumentKinds DEF Fits
<1> HIDE DEF K, L
<1>4. ASSUME NEW n, client' = [client EXCEPT ![d] = n], subject' = [subject EXCEPT ![d] = m],
             UNCHANGED <<server, paperObserver, created>>, Board(n, m, o, K, L, created, {})
      PROVE  BoardInv'
  <2>1. /\ paperObserver' = [paperObserver EXCEPT ![d] = o] /\ created \subseteq created'
        /\ UNCHANGED server
    BY <1>0, <1>4
  <2> HIDE DEF m, o
  <2> QED BY <1>0, <1>4, <2>1, LocalStep DEF K, L
<1>5. ASSUME ~SetsSubject(e), NEW n, client' = [client EXCEPT ![d] = n],
             UNCHANGED <<server, subject, paperObserver, created>>, Board(n, m, o, K, L, created, {})
      PROVE  BoardInv'
  <2>1. subject' = [subject EXCEPT ![d] = m]
    BY <1>0, <1>5
  <2> HIDE DEF m, o
  <2> QED BY <1>4, <1>5, <2>1
<1>6. NoCallback \in ThenType /\ \A v \in ValuesOf(e.doc) : Fits(e.doc, v, NoCallback)
  BY ThenTyped DEF NoCallback, OpNames, Fits, Then
<1>7. ASSUME e.doc.coll = "users" PROVE e.doc \notin PaperDocs
  BY <1>7 DEF PaperDocs, Paper
<1> HIDE DEF c, o
<1>8. CASE PaperSnapshot(d)
  <2> DEFINE p == e.doc.id
             gone == RemoveUsersPaperId(RemovePaperPreview(c, p), d, p)
             n == IF e.val = Absent THEN gone ELSE c
  <2>1. /\ client' = [client EXCEPT ![d] = n] /\ subject' = [subject EXCEPT ![d] = e.val]
        /\ UNCHANGED <<server, paperObserver, created>> /\ e.type = "snapshot" /\ e.doc.coll = "papers"
    BY <1>8 DEF PaperSnapshot, Snapshot, Arrived, Oldest, c
  <2>2. p \in Papers /\ m = e.val
    BY <1>2, <2>1, DocumentKinds DEF SetsSubject
  <2> HIDE DEF m, p
  <2>3. Board(RemovePaperPreview(c, p), m, o, K, L, created, {})
    BY <1>1, <2>2, RemovePaperPreviewBoard
  <2>4. Board(n, m, o, K, L, created, {})
    BY <1>0, <1>1, <2>2, <2>3, UsersPaperIdBoard
  <2> HIDE DEF n
  <2> QED BY <1>4, <2>1, <2>2, <2>4
<1>9. CASE PreviewSnapshot(d)
  <2> DEFINE p == e.doc.id
             n == IF e.val = Absent THEN RemoveUsersPaperId(c, d, p) ELSE c
  <2>1. /\ client' = [client EXCEPT ![d] = n]
        /\ UNCHANGED <<server, subject, paperObserver, created>>
        /\ e.type = "snapshot" /\ e.doc.coll = "paperPreviews"
    BY <1>9 DEF PreviewSnapshot, Snapshot, Arrived, Oldest, c
  <2>2. p \in Papers /\ ~SetsSubject(e)
    BY <1>2, <2>1, DocumentKinds DEF SetsSubject
  <2> HIDE DEF m, p
  <2>3. Board(n, m, o, K, L, created, {})
    BY <1>0, <1>1, <2>2, UsersPaperIdBoard
  <2> HIDE DEF n
  <2> QED BY <1>5, <2>1, <2>2, <2>3
<1>10. CASE UserSnapshot(d)
  <2> DEFINE ids == IF e.val = Absent THEN {} ELSE e.val.paperIds
             known == {p \in ids : Known(client[d], Preview(p))}
  <2>1. /\ e.type = "snapshot" /\ e.doc.coll = "users" /\ ~SetsSubject(e)
        /\ UNCHANGED <<server, subject, paperObserver, created>>
    BY <1>10 DEF UserSnapshot, Snapshot, Arrived, Oldest, SetsSubject, appVars
  <2>2. PICK list \in ListsOf(known) :
          client' = [client EXCEPT ![d] = FetchPaperPreviews(c, ids, list)]
    BY <1>10 DEF UserSnapshot, c
  <2>3. ids \in SUBSET Papers
    BY <1>2, <2>1, DocumentKinds DEF PaperIdList
  <2> HIDE DEF ids
  <2>4. known = {p \in ids : Known(c, Preview(p))}
    <3>1. /\ c.pending = client[d].pending /\ c.base = client[d].base /\ c.raised = client[d].raised
      BY <1>0 DEF Popped, ClientType, c
    <3>2. \A p : Known(c, Preview(p)) <=> Known(client[d], Preview(p))
      BY <3>1, ViewFrame DEF Known
    <3> QED BY <3>2
  <2> DEFINE n == FetchPaperPreviews(c, ids, list)
  <2> HIDE DEF known, m
  <2>5. Raising(c, n, ids, known, list)
    BY <1>1, <2>3, <2>4, RaisedEffect DEF Board, BoardInOrder
  <2>6. known \subseteq Papers
    BY <2>3, <2>4
  <2> HIDE DEF n
  <2>7. Board(n, m, o, K, L, created, {})
    BY <1>1, <2>3, <2>5, <2>6, RaisedBoard
  <2> QED BY <1>5, <2>1, <2>2, <2>7 DEF n
<1>11. CASE AddPaperDone(d)
  <2> DEFINE p == e.doc.id
             n == AddUsersPaperId(SetPaperPreview(c, e.val), d, p)
  <2>1. /\ client' = [client EXCEPT ![d] = n] /\ UNCHANGED <<server, subject, paperObserver, created>>
        /\ e.type = "done" /\ e.then.op = "addPaper"
    BY <1>11 DEF AddPaperDone, Arrived, Oldest, c, appVars
  <2>2. e.val \in PaperModel /\ p \in Papers /\ ~SetsSubject(e)
    BY <1>3, <2>1 DEF SetsSubject
  <2> HIDE DEF m, p
  <2>3. Board(SetPaperPreview(c, e.val), m, o, K, L, created, {})
    BY <1>1, <2>2, SetPaperPreviewBoard
  <2>4. Board(n, m, o, K, L, created, {})
    BY <1>0, <2>2, <2>3, UsersPaperIdBoard
  <2> HIDE DEF n
  <2> QED BY <1>5, <2>1, <2>2, <2>4
<1>12. CASE AddCardDone(d)
  <2>1. /\ client' = [client EXCEPT ![d] = c] /\ subject' = [subject EXCEPT ![d] = e.val]
        /\ UNCHANGED <<server, paperObserver, created>> /\ e.type = "done" /\ e.then.op = "addCard"
    BY <1>12 DEF AddCardDone, Arrived, Oldest, c
  <2>2. m = e.val
    BY <2>1 DEF SetsSubject
  <2> HIDE DEF m
  <2> QED BY <1>1, <1>4, <2>1, <2>2
<1>13. CASE UpdatePaperDone(d) \/ ConvertPaperToGiftDone(d)
  <2> DEFINE n == SetPaperPreview(c, e.val)
  <2>1. /\ client' = [client EXCEPT ![d] = n] /\ UNCHANGED <<server, subject, paperObserver, created>>
        /\ e.type = "done" /\ e.then.op \in {"updatePaper", "convertPaperToGift"}
    BY <1>13 DEF UpdatePaperDone, ConvertPaperToGiftDone, Arrived, Oldest, c, appVars
  <2>2. e.val \in PaperModel /\ ~SetsSubject(e)
    BY <1>3, <2>1 DEF SetsSubject
  <2> HIDE DEF m
  <2>3. Board(n, m, o, K, L, created, {})
    BY <1>1, <2>2, SetPaperPreviewBoard
  <2> HIDE DEF n
  <2> QED BY <1>5, <2>1, <2>2, <2>3
<1>14. CASE RemovePaperDone(d)
  <2> DEFINE p == e.doc.id
             n == RemoveUsersPaperId(RemovePaperPreview(c, p), d, p)
  <2>1. /\ client' = [client EXCEPT ![d] = n] /\ UNCHANGED <<server, subject, paperObserver, created>>
        /\ e.type = "done" /\ e.then.op = "removePaper"
    BY <1>14 DEF RemovePaperDone, Arrived, Oldest, c, appVars
  <2>2. p \in Papers /\ ~SetsSubject(e)
    BY <1>2, <2>1, DocumentKinds DEF SetsSubject, Fits
  <2> HIDE DEF m, p
  <2>3. Board(RemovePaperPreview(c, p), m, o, K, L, created, {})
    BY <1>1, <2>2, RemovePaperPreviewBoard
  <2>4. Board(n, m, o, K, L, created, {})
    BY <1>0, <2>2, <2>3, UsersPaperIdBoard
  <2> HIDE DEF n
  <2> QED BY <1>5, <2>1, <2>2, <2>4
<1>15. CASE RemovePaperPreviewDone(d)
  <2>1. /\ client' = [client EXCEPT ![d] = c] /\ UNCHANGED <<server, subject, paperObserver, created>>
        /\ ~SetsSubject(e)
    BY <1>15 DEF RemovePaperPreviewDone, Arrived, Oldest, c, SetsSubject
  <2> HIDE DEF m
  <2> QED BY <1>1, <1>5, <2>1
<1>16. CASE RemoveCardGot(d)
  <2> DEFINE paper == [e.val EXCEPT !.cards = @ \ {e.then.arg}]
             x == Paper(paper.id)
             t == Then("updatePaper", Absent)
             n == IF e.val = Absent THEN c ELSE Write(c, x, paper, t)
  <2>1. /\ client' = [client EXCEPT ![d] = IF e.val = Absent THEN c ELSE WritePaper(c, paper, "updatePaper")]
        /\ UNCHANGED <<server, subject, paperObserver, created>>
        /\ e.type = "got" /\ e.then.op = "removeCard" /\ ~SetsSubject(e)
    BY <1>16 DEF RemoveCardGot, Arrived, Oldest, c, appVars, SetsSubject
  <2>2. "addCard" \notin Ops
    BY <1>1, <2>1 DEF Reread
  <2>3. L = Cards
    BY <2>2 DEF L, Within
  <2>4. client' = [client EXCEPT ![d] = n]
    BY <2>1 DEF WritePaper
  <2>5. ASSUME e.val # Absent
        PROVE  /\ x \in PaperDocs /\ paper \in ValuesOf(x)
               /\ t \in ThenType /\ Fits(x, paper, t) /\ t.op # "addCard"
    <3>1. e.val \in PaperModel
      BY <1>2, <2>1, <2>5, DocumentKinds DEF Fits
    <3>2. paper \in PaperModel
      BY <3>1 DEF PaperModel
    <3> HIDE DEF paper
    <3>3. x \in PaperDocs /\ paper \in ValuesOf(x) /\ paper # Absent
      BY <3>2, PaperValue, PaperNotAbsent DEF PaperModel, PaperDocs
    <3> QED BY <3>3, ThenTyped DEF OpNames, Fits, Then, Paper
  <2> HIDE DEF m, paper, x, t
  <2>6. Board(n, m, o, K, L, created, {})
    BY <1>1, <2>2, <2>3, <2>5, PaperWriteBoard
  <2> HIDE DEF n
  <2> QED BY <1>5, <2>1, <2>4, <2>6
<1>17. CASE AddUsersPaperIdGot(d)
  <2> DEFINE ids == IF e.val = Absent THEN {} ELSE e.val.paperIds
             v == [paperIds |-> ids \cup {e.then.arg}]
             n == Write(c, e.doc, v, NoCallback)
  <2>1. /\ client' = [client EXCEPT ![d] = n] /\ UNCHANGED <<server, subject, paperObserver, created>>
        /\ e.type = "got" /\ e.then.op = "addUsersPaperId" /\ ~SetsSubject(e)
    BY <1>17 DEF AddUsersPaperIdGot, Arrived, Oldest, c, appVars, SetsSubject
  <2>2. e.doc.coll = "users" /\ e.then.arg \in Papers
    BY <1>2, <2>1 DEF Fits
  <2>3. v \in ValuesOf(e.doc)
    <3>1. v \in PaperIdList
      BY <1>2, <2>2, DocumentKinds DEF PaperIdList
    <3> QED BY <1>2, <2>2, <3>1, DocumentKinds, ListValue
  <2> HIDE DEF v, m
  <2>4. Board(n, m, o, K, L, created, {})
    BY <1>1, <1>2, <1>6, <1>7, <2>2, <2>3, OtherWriteBoard
  <2> HIDE DEF n
  <2> QED BY <1>5, <2>1, <2>4
<1>18. CASE RemoveUsersPaperIdGot(d)
  <2> DEFINE v == [e.val EXCEPT !.paperIds = @ \ {e.then.arg}]
             n == IF e.val = Absent THEN c ELSE Write(c, e.doc, v, NoCallback)
  <2>1. /\ client' = [client EXCEPT ![d] = n] /\ UNCHANGED <<server, subject, paperObserver, created>>
        /\ e.type = "got" /\ e.then.op = "removeUsersPaperId" /\ ~SetsSubject(e)
    BY <1>18 DEF RemoveUsersPaperIdGot, Arrived, Oldest, c, appVars, SetsSubject
  <2>2. e.doc.coll = "users"
    BY <1>2, <2>1 DEF Fits
  <2>3. ASSUME e.val # Absent PROVE v \in ValuesOf(e.doc)
    <3>1. v \in PaperIdList
      BY <1>2, <2>2, <2>3, DocumentKinds DEF PaperIdList
    <3> QED BY <1>2, <2>2, <3>1, DocumentKinds, ListValue
  <2> HIDE DEF v, m
  <2>4. Board(n, m, o, K, L, created, {})
    BY <1>1, <1>2, <1>6, <1>7, <2>2, <2>3, OtherWriteBoard
  <2> HIDE DEF n
  <2> QED BY <1>5, <2>1, <2>4
<1> QED BY <1>8, <1>9, <1>10, <1>11, <1>12, <1>13, <1>14, <1>15, <1>16, <1>17, <1>18 DEF Callback

(* At first there is no card anywhere.                                     *)
LEMMA InitBoard == Init /\ IInv => BoardInv
<1> SUFFICES ASSUME Init, IInv PROVE BoardInv
  OBVIOUS
<1>1. OnServer = {}
  <2>1. ASSUME NEW p \in Papers PROVE CardsOf(server[Paper(p)]) = {}
    <3>1. Paper(p) \in Docs
      BY DEF Docs, PaperDocs
    <3>2. server[Paper(p)] \in {Absent, [id |-> p, cards |-> {}, title |-> InitialTitle]}
      BY <3>1 DEF Init, InitialDocument, Paper
    <3> QED BY <3>2 DEF CardsOf
  <2> QED BY <2>1 DEF OnServer, PaperDocs
<1>2. ASSUME NEW d \in Devices PROVE Board(client[d], Absent, Absent, Elsewhere(d), InUse, created, {})
  <2> DEFINE c == client[d]
  <2>1. /\ ClientOK(c) /\ c = FreshClient(Docs)
    BY DEF IInv, TypeOK, Init
  <2>2. /\ c.listening = {} /\ c.raised = {} /\ c.pending = << >> /\ c.inbox = << >> /\ c.gets = << >>
        /\ \A y \in PaperDocs : c.base[y] = Absent
    BY <2>1 DEF FreshClient, Docs
  <2> HIDE DEF c
  <2>3. Len(c.pending) = 0 /\ Len(c.inbox) = 0 /\ Len(c.gets) = 0
    BY <2>2
  <2>4. Adding(c) = {} /\ Setters(c) = {}
    BY <2>3 DEF Adding, Setters
  <2>5. BoardInOrder(c, Absent)
    BY <2>1, <2>2, <2>3, <2>4 DEF BoardInOrder
  <2>6. Carried(c, Absent) = {}
    BY <2>2, <2>3, <2>4 DEF Carried, CardsOf
  <2> QED BY <2>2, <2>4, <2>5, <2>6 DEF Board, FreshWrites, BoardShown, c
<1>3. \A d \in Devices : subject[d] = Absent /\ paperObserver[d] = Absent
  BY DEF Init
<1> QED BY <1>1, <1>2, <1>3 DEF BoardInv, InUse

LEMMA NextBoard ==
  ASSUME OpsFit, IInv, BoardInv, [Next]_vars
  PROVE  BoardInv'
<1>1. ASSUME NEW d \in Devices, Operation(d) PROVE BoardInv'
  BY <1>1, OperationBoard
<1>2. ASSUME NEW d \in Devices, Callback(d) PROVE BoardInv'
  BY <1>2, CallbackBoard
<1>3. ASSUME NEW d \in Devices, Network(d) PROVE BoardInv'
  BY <1>3, NetworkBoard
<1>4. CASE UNCHANGED vars
  <2>1. UNCHANGED <<server, client, subject, paperObserver, created>>
    BY <1>4 DEF vars, appVars
  <2>2. OnServer' = OnServer
    BY <2>1 DEF OnServer
  <2>3. \A d \in Devices : Elsewhere(d)' = Elsewhere(d)
    BY <2>1, <2>2 DEF Elsewhere
  <2> QED BY <2>1, <2>2, <2>3 DEF BoardInv, InUse
<1> QED BY <1>1, <1>2, <1>3, <1>4 DEF Next

(* With nothing under way for the open paper, its device's view of it is   *)
(* the backend's document, and the publisher has caught up with the view.  *)
LEMMA BoardIsFresh ==
  ASSUME IInv, BoardInv PROVE OpenPaperFresh
<1> SUFFICES ASSUME NEW d \in Devices, NEW p \in Papers, paperObserver[d] = p,
                    client[d].listening \cap PaperDocs = {Paper(p)}, PaperSettled(d, p)
             PROVE  subject[d] = server[Paper(p)]
  BY DEF OpenPaperFresh
<1> DEFINE c == client[d]
           x == Paper(p)
<1>1. PendingOn(c, x) = {} /\ Setters(c) = {} /\ View(c, x) = server[x]
  BY DEF PaperSettled, Setters, View
<1>2. x \in PaperDocs /\ paperObserver[d] # Absent
  BY ManagerAssumption DEF PaperDocs
<1>3. BoardShown(c, subject[d], paperObserver[d], x)
  BY <1>2 DEF BoardInv, Board
<1> QED BY <1>1, <1>2, <1>3 DEF BoardShown, Shows

(* While a paper is the only one that a device has opened since its start  *)
(* and nothing is under way for it, the screen shows the backend's paper:  *)
(* whoever adds cards to it at the same time, is refused, goes offline or  *)
(* restarts. Each operation that OpsFit leaves out breaks it: addPaper     *)
(* sets the publisher before anything is known of its write, and a change  *)
(* made by another operation is undone on the screen by the completion of  *)
(* an addCard before it.                                                   *)
(* fetchPaper, addCard: FirestoreManager.swift:53-70, 124-144              *)
THEOREM OpenPaperIsFresh ==
  ASSUME OpsFit
  PROVE  Spec => []OpenPaperFresh
<1>1. Init => IInv /\ BoardInv
  BY InitInvariant, InitBoard
<1>2. (IInv /\ BoardInv) /\ [Next]_vars => (IInv /\ BoardInv)'
  BY NextInvariant, NextBoard
<1>3. IInv /\ BoardInv => OpenPaperFresh
  BY BoardIsFresh
<1> QED BY <1>1, <1>2, <1>3, PTL DEF Spec
=============================================================================
