------------------------ MODULE WrittenPaperProofs ------------------------
(***************************************************************************)
(* Proofs about WrittenPaper, for any boards, cards, titles and users:     *)
(* what the variables hold, what is on the screen, and what of a board     *)
(* stays on the device or goes to the server.                              *)
(***************************************************************************)
EXTENDS WrittenPaper, QueueFacts, FiniteSetTheorems

-----------------------------------------------------------------------------
(* The inductive invariant                                                 *)

(* What the document of p may hold when pub are the boards that have been  *)
(* on the server; no other is written to.                                  *)
At(p, pub) == {Absent} \cup {b \in PaperModel : b.id = p /\ p \in pub}

(* A board on the device; one that has a link is known to the server.      *)
DeviceBoards(pub) == {b \in PaperModel : b.link => b.id \in pub}

ServerBoards(pub) == {b \in PaperModel : b.id \in pub}

ThenType == [op : {"none", "addCard"}, arg : {Absent}]

WriteType(pub) ==
  {w \in [doc : pub, val : Boards, then : ThenType] : w.val \in At(w.doc, pub)}

EventType(pub) ==
  {e \in [type : {"snapshot", "done"}, doc : Papers, val : Boards, then : ThenType] :
     e.val \in At(e.doc, pub)}

ClientType(pub) ==
  [pending : Seq(WriteType(pub)), base : [Papers -> Boards], listening : SUBSET Papers,
   raised : SUBSET Papers, gets : {<< >>}, inbox : Seq(EventType(pub))]

ClientOK(c, pub) == c \in ClientType(pub) /\ \A p \in Papers : c.base[p] \in At(p, pub)

(* The server, and what the client keeps of it, only have boards that were *)
(* published.                                                              *)
Remote ==
  /\ published \subseteq Papers
  /\ server \in [Papers -> Boards] /\ \A p \in Papers : server[p] \in At(p, published)
  /\ client \in [Devices -> ClientType(published)] /\ ClientOK(client[here], published)

Files ==
  /\ file \in [Papers -> Boards]
  /\ \A p \in Papers : file[p] # Absent => file[p] \in DeviceBoards(published) /\ file[p].id = p

Held ==
  /\ localPaper \in DeviceBoards(published) \cup {Absent}
  /\ current \in DeviceBoards(published) \cup {Absent}
  /\ serverPaper \in ServerBoards(published) \cup {Absent}

(* A board on its way to the server; only with all its cards uploaded is a *)
(* link made.                                                              *)
Publications(pub) ==
  {n \in [own : BOOLEAN, kind : {"share", "gift"}, paper : DeviceBoards(pub),
          uploaded : SUBSET Cards, linking : BOOLEAN] :
     /\ n.uploaded \subseteq n.paper.cards
     /\ n.linking => n.kind = "share" /\ n.uploaded = n.paper.cards}

Flags ==
  /\ screen \in {"closed", "loading", "board", "covered", "deleted", "popping", "leaving"}
  /\ paperFrom \in {"none", "local", "server"} /\ editor \in {"none", "local", "server"}
  /\ buttons \in {"none", "guest", "owner", "stopped"}
  /\ isPaperLinkMade \in BOOLEAN /\ signInWithModal \in BOOLEAN
  /\ asked \in [from : {"none", "local", "server", "link"}, id : Papers \cup {Absent}]
  /\ uploading \in Cards \cup {Absent}
  /\ publishing \in Seq(Publications(published))
  /\ user \in Users \cup {Absent} /\ currentUser \in Users \cup {Absent}
  /\ created \subseteq Papers \cup Cards
  /\ ops \in 0..MaxOps

(* Once the link of its board was made, a screen has only published boards.*)
Linked ==
  isPaperLinkMade =>
    /\ localPaper # Absent => localPaper.id \in published
    /\ current # Absent => current.id \in published

Drawn == {"board", "covered", "deleted", "popping"}

(* What is asked for is fetched before the board is drawn, and a screen    *)
(* publishes nothing of its own before.                                    *)
Loading ==
  /\ screen = "loading" => ~isPaperLinkMade
  /\ \A i \in DOMAIN publishing : publishing[i].own => screen \in Drawn
  /\ asked # NoRequest => screen = "loading" /\ asked.id \in Papers

IInv == Remote /\ Files /\ Held /\ Flags /\ Linked /\ Loading

-----------------------------------------------------------------------------
(* What the client's operators keep                                        *)

LEMMA AbsentIsNoBoard == Absent \notin PaperModel /\ Absent \notin Papers
BY WrittenPaperAssumption

LEMMA ValueIsBoard ==
  ASSUME NEW pub, NEW x, NEW v \in At(x, pub)
  PROVE  v \in Boards
BY DEF At, Boards

LEMMA ClientTyped ==
  ASSUME NEW c, NEW pub, ClientOK(c, pub)
  PROVE  /\ c \in ClientType(pub)
         /\ c.pending \in Seq(WriteType(pub)) /\ c.inbox \in Seq(EventType(pub))
         /\ c.base \in [Papers -> Boards] /\ \A p \in Papers : c.base[p] \in At(p, pub)
         /\ c.listening \subseteq Papers /\ c.raised \subseteq Papers
BY DEF ClientOK, ClientType

(* A client's view of a document is one of its boards.                     *)
LEMMA ViewOK ==
  ASSUME NEW c, NEW pub, ClientOK(c, pub), NEW x \in Papers
  PROVE  View(c, x) \in At(x, pub)
<1>0. c.pending \in Seq(WriteType(pub)) /\ c.base[x] \in At(x, pub)
  BY ClientTyped
<1>1. CASE PendingOn(c, x) = {}
  BY <1>0, <1>1 DEF View
<1>2. CASE PendingOn(c, x) # {}
  <2>1. PendingOn(c, x) \in SUBSET (1..Len(c.pending)) /\ Len(c.pending) \in Nat
    BY <1>0, LenProperties DEF PendingOn
  <2>2. \E i \in PendingOn(c, x) : \A j \in PendingOn(c, x) : j <= i
    BY <1>2, <2>1, GreatestExists
  <2> DEFINE i == LastPending(c, x)
  <2>3. i \in PendingOn(c, x)
    BY <2>2 DEF LastPending
  <2>4. c.pending[i] \in WriteType(pub) /\ c.pending[i].doc = x
    BY <1>0, <2>3, ElementOfSeq DEF PendingOn
  <2>5. c.pending[i].val \in At(x, pub)
    BY <2>4 DEF WriteType
  <2> QED BY <1>2, <2>5 DEF View
<1> QED BY <1>1, <1>2

LEMMA PostOK ==
  ASSUME NEW c, NEW pub, ClientOK(c, pub), NEW e \in EventType(pub)
  PROVE  ClientOK(Post(c, e), pub)
<1>1. c \in ClientType(pub) /\ Append(c.inbox, e) \in Seq(EventType(pub))
  BY ClientTyped, AppendProperties
<1>2. /\ [c EXCEPT !.inbox = Append(c.inbox, e)] \in ClientType(pub)
      /\ [c EXCEPT !.inbox = Append(c.inbox, e)].base = c.base
  BY <1>1 DEF ClientType
<1> QED BY <1>2 DEF ClientOK, Post

LEMMA EventOK ==
  ASSUME NEW pub, NEW type \in {"snapshot", "done"}, NEW x \in Papers, NEW v \in At(x, pub),
         NEW t \in ThenType
  PROVE  Event(type, x, v, t) \in EventType(pub)
BY ValueIsBoard DEF Event, EventType

LEMMA ThenOK == NoCallback \in ThenType /\ Then("addCard", Absent) \in ThenType
BY DEF NoCallback, Then, ThenType

LEMMA PostSnapshotOK ==
  ASSUME NEW c, NEW pub, ClientOK(c, pub), NEW x \in Papers, NEW v \in At(x, pub)
  PROVE  ClientOK(PostSnapshot(c, x, v), pub)
<1> DEFINE n == [c EXCEPT !.raised = c.raised \cup {x}]
<1>1. n \in ClientType(pub) /\ n.base = c.base
  BY ClientTyped DEF ClientType
<1>2. ClientOK(n, pub)
  BY <1>1 DEF ClientOK
<1>3. Event("snapshot", x, v, NoCallback) \in EventType(pub)
  BY EventOK, ThenOK
<1> HIDE DEF n
<1>4. ClientOK(Post(n, Event("snapshot", x, v, NoCallback)), pub)
  BY <1>2, <1>3, PostOK
<1> QED BY <1>4 DEF PostSnapshot, n

LEMMA NotifyOK ==
  ASSUME NEW c, NEW n, NEW pub, ClientOK(n, pub), NEW x \in Papers
  PROVE  ClientOK(Notify(c, n, x), pub)
<1>1. ClientOK(PostSnapshot(n, x, View(n, x)), pub)
  BY ViewOK, PostSnapshotOK
<1> QED BY <1>1 DEF Notify

LEMMA WriteOK ==
  ASSUME NEW c, NEW pub, pub \subseteq Papers, ClientOK(c, pub), NEW x \in pub,
         NEW v \in At(x, pub), NEW t \in ThenType
  PROVE  ClientOK(Write(c, x, v, t), pub)
<1> DEFINE w == [doc |-> x, val |-> v, then |-> t]
           n == [c EXCEPT !.pending = Append(c.pending, w)]
<1>1. w \in WriteType(pub)
  BY ValueIsBoard DEF WriteType
<1> HIDE DEF w
<1>2. c \in ClientType(pub) /\ Append(c.pending, w) \in Seq(WriteType(pub))
  BY <1>1, ClientTyped, AppendProperties
<1>3. n \in ClientType(pub) /\ n.base = c.base
  BY <1>2 DEF ClientType
<1>4. ClientOK(n, pub)
  BY <1>3 DEF ClientOK
<1> HIDE DEF n
<1>5. ClientOK(Notify(c, n, x), pub)
  BY <1>4, NotifyOK
<1> QED BY <1>5 DEF Write, n, w

LEMMA PutOK ==
  ASSUME NEW c, NEW pub, pub \subseteq Papers, ClientOK(c, pub), NEW paper \in PaperModel,
         paper.id \in pub
  PROVE  ClientOK(Put(c, paper), pub)
<1>1. paper \in At(paper.id, pub)
  BY DEF PaperModel, At
<1> QED BY <1>1, WriteOK, ThenOK DEF Put

LEMMA ListenOK ==
  ASSUME NEW c, NEW pub, ClientOK(c, pub), NEW x \in Papers
  PROVE  ClientOK(Listen(c, x), pub)
<1> DEFINE n == [c EXCEPT !.listening = c.listening \cup {x}]
<1>1. n \in ClientType(pub) /\ n.base = c.base
  BY ClientTyped DEF ClientType
<1>2. ClientOK(n, pub)
  BY <1>1 DEF ClientOK
<1> HIDE DEF n
<1>3. ClientOK(PostSnapshot(n, x, View(c, x)), pub)
  BY <1>2, ViewOK, PostSnapshotOK
<1> QED BY <1>2, <1>3 DEF Listen, n

LEMMA RestartedOK ==
  ASSUME NEW c, NEW pub, ClientOK(c, pub)
  PROVE  ClientOK(Restarted(c), pub)
<1> DEFINE n == Restarted(c)
           q == [i \in 1..Len(c.pending) |-> [c.pending[i] EXCEPT !.then = NoCallback]]
<1>0. /\ c.pending \in Seq(WriteType(pub)) /\ Len(c.pending) \in Nat
      /\ c.base \in [Papers -> Boards]
  BY ClientTyped, LenProperties
<1>1. q \in Seq(WriteType(pub))
  <2>1. ASSUME NEW w \in WriteType(pub)
        PROVE  [w EXCEPT !.then = NoCallback] \in WriteType(pub)
    BY ThenOK DEF WriteType
  <2>2. \A i \in 1..Len(c.pending) : [c.pending[i] EXCEPT !.then = NoCallback] \in WriteType(pub)
    BY <1>0, <2>1, ElementOfSeq
  <2> QED BY <1>0, <2>2, IsASeq
<1>2. n = [pending |-> q, base |-> c.base, listening |-> {}, raised |-> {},
           gets |-> << >>, inbox |-> << >>]
  BY DEF Restarted
<1> HIDE DEF q, n
<1>3. << >> \in Seq(EventType(pub))
  OBVIOUS
<1>4. n \in ClientType(pub) /\ n.base = c.base
  BY <1>0, <1>1, <1>2, <1>3 DEF ClientType
<1> QED BY <1>4 DEF ClientOK, n

LEMMA PoppedOK ==
  ASSUME NEW c, NEW pub, ClientOK(c, pub), c.inbox # << >>
  PROVE  /\ ClientOK([c EXCEPT !.inbox = Tail(@)], pub)
         /\ Head(c.inbox) \in EventType(pub)
<1>1. /\ c \in ClientType(pub)
      /\ Tail(c.inbox) \in Seq(EventType(pub)) /\ Head(c.inbox) \in EventType(pub)
  BY ClientTyped, HeadTailProperties
<1>2. /\ [c EXCEPT !.inbox = Tail(c.inbox)] \in ClientType(pub)
      /\ [c EXCEPT !.inbox = Tail(c.inbox)].base = c.base
  BY <1>1 DEF ClientType
<1> QED BY <1>1, <1>2 DEF ClientOK

(* A copy of document x from the backend, and the oldest write gone.       *)
LEMMA BaseOK ==
  ASSUME NEW c, NEW pub, ClientOK(c, pub), NEW x \in Papers, NEW v \in At(x, pub)
  PROVE  ClientOK([c EXCEPT !.base[x] = v], pub)
<1>1. c \in ClientType(pub) /\ c.base \in [Papers -> Boards] /\ v \in Boards
  BY ClientTyped, ValueIsBoard
<1>2. /\ [c EXCEPT !.base[x] = v] \in ClientType(pub)
      /\ [c EXCEPT !.base[x] = v].base = [c.base EXCEPT ![x] = v]
  BY <1>1 DEF ClientType
<1>3. \A p \in Papers : [c.base EXCEPT ![x] = v][p] \in At(p, pub)
  BY <1>1, ClientTyped
<1> QED BY <1>2, <1>3 DEF ClientOK

LEMMA ShiftedOK ==
  ASSUME NEW c, NEW pub, ClientOK(c, pub), c.pending # << >>
  PROVE  /\ ClientOK([c EXCEPT !.pending = Tail(@)], pub)
         /\ Head(c.pending) \in WriteType(pub)
<1>1. /\ c \in ClientType(pub)
      /\ Tail(c.pending) \in Seq(WriteType(pub)) /\ Head(c.pending) \in WriteType(pub)
  BY ClientTyped, HeadTailProperties
<1>2. /\ [c EXCEPT !.pending = Tail(c.pending)] \in ClientType(pub)
      /\ [c EXCEPT !.pending = Tail(c.pending)].base = c.base
  BY <1>1 DEF ClientType
<1> QED BY <1>1, <1>2 DEF ClientOK

(* What was published stays so.                                            *)
LEMMA MorePublished ==
  ASSUME NEW pub, NEW more, pub \subseteq more
  PROVE  /\ \A x : At(x, pub) \subseteq At(x, more)
         /\ DeviceBoards(pub) \subseteq DeviceBoards(more)
         /\ Publications(pub) \subseteq Publications(more)
         /\ \A c : ClientOK(c, pub) => ClientOK(c, more)
<1>1. \A x : At(x, pub) \subseteq At(x, more)
  BY DEF At
<1>2. DeviceBoards(pub) \subseteq DeviceBoards(more)
  BY DEF DeviceBoards
<1>3. Publications(pub) \subseteq Publications(more)
  BY <1>2 DEF Publications
<1>4. ASSUME NEW c, ClientOK(c, pub) PROVE ClientOK(c, more)
  <2>1. WriteType(pub) \subseteq WriteType(more)
    BY <1>1 DEF WriteType
  <2>2. EventType(pub) \subseteq EventType(more)
    BY <1>1 DEF EventType
  <2>3. c.pending \in Seq(WriteType(more)) /\ c.inbox \in Seq(EventType(more))
    BY <1>4, <2>1, <2>2, ClientTyped, SeqMonotonic
  <2>4. c \in ClientType(more)
    BY <1>4, <2>3 DEF ClientOK, ClientType
  <2> QED BY <1>1, <1>4, <2>4 DEF ClientOK
<1> QED BY <1>1, <1>2, <1>3, <1>4

-----------------------------------------------------------------------------
(* What parts of the state keep                                            *)

LEMMA BoardsHeld ==
  ASSUME NEW pub
  PROVE  /\ DeviceBoards(pub) \subseteq PaperModel
         /\ ServerBoards(pub) \subseteq DeviceBoards(pub)
         /\ Absent \notin DeviceBoards(pub) /\ Absent \notin ServerBoards(pub)
         /\ \A b \in ServerBoards(pub) : b.id \in pub
         /\ \A b \in DeviceBoards(pub) : b.id \in Papers /\ (b.link => b.id \in pub)
         /\ \A b \in DeviceBoards(pub) : b.id \in pub => b \in ServerBoards(pub)
<1>1. /\ DeviceBoards(pub) \subseteq PaperModel
      /\ ServerBoards(pub) \subseteq DeviceBoards(pub)
      /\ \A b \in ServerBoards(pub) : b.id \in pub
  BY DEF DeviceBoards, ServerBoards
<1>2. Absent \notin DeviceBoards(pub) /\ Absent \notin ServerBoards(pub)
  BY <1>1, AbsentIsNoBoard
<1>3. \A b \in DeviceBoards(pub) : b.id \in Papers /\ (b.link => b.id \in pub)
  BY DEF DeviceBoards, PaperModel
<1>4. \A b \in DeviceBoards(pub) : b.id \in pub => b \in ServerBoards(pub)
  BY DEF DeviceBoards, ServerBoards
<1> QED BY <1>1, <1>2, <1>3, <1>4

(* A board of a document, and of a publisher.                              *)
LEMMA ServerBoardAt ==
  ASSUME NEW pub
  PROVE  /\ \A b \in ServerBoards(pub) : b \in At(b.id, pub)
         /\ \A x, v : v \in At(x, pub) => v \in ServerBoards(pub) \cup {Absent}
BY DEF At, ServerBoards

(* Editing a board keeps its identifier and its link.                      *)
LEMMA EditedBoard ==
  ASSUME NEW pub, NEW b \in DeviceBoards(pub)
  PROVE  /\ \A S \in SUBSET Cards :
              /\ [b EXCEPT !.cards = S] \in DeviceBoards(pub)
              /\ [b EXCEPT !.cards = S].id = b.id
         /\ \A t \in Titles :
              /\ [b EXCEPT !.title = t] \in DeviceBoards(pub)
              /\ [b EXCEPT !.title = t].id = b.id
         /\ \A u \in Users \cup {Absent} :
              /\ [b EXCEPT !.creator = u] \in DeviceBoards(pub)
              /\ [b EXCEPT !.creator = u].id = b.id
         /\ [b EXCEPT !.ended = TRUE] \in DeviceBoards(pub)
         /\ [b EXCEPT !.ended = TRUE].id = b.id
<1>1. b \in PaperModel /\ (b.link => b.id \in pub)
  BY DEF DeviceBoards
<1>2. ASSUME NEW S \in SUBSET Cards
      PROVE  /\ [b EXCEPT !.cards = S] \in DeviceBoards(pub)
             /\ [b EXCEPT !.cards = S].id = b.id
  BY <1>1 DEF DeviceBoards, PaperModel
<1>3. ASSUME NEW t \in Titles
      PROVE  /\ [b EXCEPT !.title = t] \in DeviceBoards(pub)
             /\ [b EXCEPT !.title = t].id = b.id
  BY <1>1 DEF DeviceBoards, PaperModel
<1>4. ASSUME NEW u \in Users \cup {Absent}
      PROVE  /\ [b EXCEPT !.creator = u] \in DeviceBoards(pub)
             /\ [b EXCEPT !.creator = u].id = b.id
  BY <1>1 DEF DeviceBoards, PaperModel
<1>5. /\ [b EXCEPT !.ended = TRUE] \in DeviceBoards(pub)
      /\ [b EXCEPT !.ended = TRUE].id = b.id
  BY <1>1 DEF DeviceBoards, PaperModel
<1> QED BY <1>2, <1>3, <1>4, <1>5

LEMMA CardsOfBoard ==
  ASSUME NEW pub, NEW b \in DeviceBoards(pub)
  PROVE  b.cards \subseteq Cards
BY DEF DeviceBoards, PaperModel

(* The device's client, also when more has been published meanwhile.       *)
LEMMA HereOK ==
  ASSUME Remote, NEW more, published \subseteq more
  PROVE  ClientOK(client[here], more)
BY MorePublished DEF Remote

LEMMA ClientStep ==
  ASSUME Remote, published \subseteq published', published' \subseteq Papers,
         server' = server, NEW c, ClientOK(c, published'),
         client' = [client EXCEPT ![here] = c]
  PROVE  Remote'
<1>1. /\ client' \in [Devices -> ClientType(published')] /\ client'[here] = c
  BY WrittenPaperAssumption DEF Remote, ClientOK
<1>2. \A p \in Papers : server'[p] \in At(p, published')
  BY MorePublished DEF Remote
<1> QED BY <1>1, <1>2 DEF Remote

LEMMA RemoteKept ==
  ASSUME Remote, UNCHANGED <<server, client, published>>
  PROVE  Remote'
BY DEF Remote

LEMMA FilesKept ==
  ASSUME Files, published \subseteq published', file' = file
  PROVE  Files'
BY MorePublished DEF Files

LEMMA SavedOK ==
  ASSUME Files, published' = published, NEW b \in DeviceBoards(published), file' = Saved(b)
  PROVE  Files'
<1>1. b.id \in Papers /\ b \in Boards
  BY BoardsHeld DEF Boards
<1>2. file' = [file EXCEPT ![b.id] = b]
  BY DEF Saved
<1> QED BY <1>1, <1>2 DEF Files

LEMMA LoadedOK ==
  ASSUME Files, Held, NEW p \in Papers
  PROVE  /\ Loaded(p, localPaper) \in DeviceBoards(published) \cup {Absent}
         /\ Loaded(p, localPaper) = localPaper \/ Loaded(p, localPaper).id = p
BY DEF Files, Held, Loaded

LEMMA HeldKept ==
  ASSUME Held, UNCHANGED <<localPaper, serverPaper, current, published>>
  PROVE  Held'
BY DEF Held

LEMMA LinkedKept ==
  ASSUME Linked, UNCHANGED <<localPaper, current, isPaperLinkMade, published>>
  PROVE  Linked'
BY DEF Linked

LEMMA Performed ==
  ASSUME Flags, NEW op, Perform(op)
  PROVE  ops' \in 0..MaxOps
BY WrittenPaperAssumption DEF Flags, Perform

(* What the publishers publish comes on the screen.                        *)
LEMMA PublishHeld ==
  ASSUME Held, published' = published, NEW l \in DeviceBoards(published) \cup {Absent},
         NEW s \in ServerBoards(published) \cup {Absent}, Publish(l, s)
  PROVE  /\ Held' /\ localPaper' = l
         /\ current' \in {current, l, s}
         /\ paperFrom' \in {paperFrom, "local", "server"}
<1>1. /\ localPaper' = l /\ serverPaper' = s
      /\ current' \in {current, l, s}
      /\ paperFrom' \in {paperFrom, "local", "server"}
  BY DEF Publish, Latest, Source, shown
<1>2. s \in DeviceBoards(published) \cup {Absent}
  BY BoardsHeld
<1> QED BY <1>1, <1>2 DEF Held

(* So it does on a screen whose link was made.                             *)
LEMMA PublishLinked ==
  ASSUME Held, Linked, UNCHANGED <<published, isPaperLinkMade>>,
         NEW l \in DeviceBoards(published) \cup {Absent},
         NEW s \in ServerBoards(published) \cup {Absent}, Publish(l, s),
         isPaperLinkMade => l = Absent \/ l.id \in published
  PROVE  Linked'
<1>1. localPaper' = l /\ current' \in {current, l, s}
  BY PublishHeld
<1>2. s # Absent => s.id \in published
  BY BoardsHeld
<1> QED BY <1>1, <1>2 DEF Linked

LEMMA NewScreenOK ==
  ASSUME Held, published' = published, NEW l \in DeviceBoards(published) \cup {Absent},
         NewScreen(l)
  PROVE  Held' /\ Linked'
<1>1. /\ localPaper' = l /\ serverPaper' = serverPaper /\ current' \in {l, serverPaper}
      /\ ~isPaperLinkMade'
  BY DEF NewScreen, Latest
<1>2. Held'
  BY <1>1, BoardsHeld DEF Held
<1> QED BY <1>1, <1>2 DEF Linked

LEMMA DisownedOK ==
  ASSUME NEW pub, NEW q \in Seq(Publications(pub))
  PROVE  /\ Disowned(q) \in Seq(Publications(pub))
         /\ \A i \in DOMAIN Disowned(q) : ~Disowned(q)[i].own
<1>1. DOMAIN q = 1..Len(q) /\ Len(q) \in Nat
  BY LenProperties
<1>2. ASSUME NEW i \in 1..Len(q)
      PROVE  /\ [q[i] EXCEPT !.own = FALSE] \in Publications(pub)
             /\ ~[q[i] EXCEPT !.own = FALSE].own
  <2>1. q[i] \in Publications(pub)
    BY ElementOfSeq
  <2> QED BY <2>1 DEF Publications
<1> DEFINE d == [i \in 1..Len(q) |-> [q[i] EXCEPT !.own = FALSE]]
<1>3. d \in Seq(Publications(pub))
  BY <1>1, <1>2, IsASeq
<1>4. Disowned(q) = d
  BY <1>1 DEF Disowned
<1> QED BY <1>2, <1>3, <1>4

LEMMA NewScreenFlags ==
  ASSUME Flags, NEW l, NewScreen(l), published' = published
  PROVE  /\ screen' = "loading" /\ paperFrom' \in {"none", "local", "server"}
         /\ editor' = "none" /\ buttons' = "none" /\ isPaperLinkMade' = FALSE
         /\ signInWithModal' = FALSE /\ uploading' = Absent /\ currentUser' = Absent
         /\ publishing' \in Seq(Publications(published'))
         /\ \A i \in DOMAIN publishing' : ~publishing'[i].own
<1>1. publishing' = Disowned(publishing) /\ publishing \in Seq(Publications(published))
  BY DEF NewScreen, Flags
<1>2. /\ publishing' \in Seq(Publications(published'))
      /\ \A i \in DOMAIN publishing' : ~publishing'[i].own
  BY <1>1, DisownedOK
<1> QED BY <1>2 DEF NewScreen, Flags

LEMMA DroppedOK ==
  ASSUME NEW S, publishing \in Seq(S), NEW i \in DOMAIN publishing
  PROVE  Dropped(i) \in Seq(S)
<1>1. Len(publishing) \in Nat /\ i \in 1..Len(publishing)
  BY LenProperties
<1>2. Len(publishing) - 1 \in Nat
  BY <1>1
<1>3. ASSUME NEW j \in 1..(Len(publishing) - 1)
      PROVE  publishing[IF j < i THEN j ELSE j + 1] \in S
  <2>1. (IF j < i THEN j ELSE j + 1) \in 1..Len(publishing)
    BY <1>1
  <2> QED BY <2>1, ElementOfSeq
<1>4. [j \in 1..(Len(publishing) - 1) |-> publishing[IF j < i THEN j ELSE j + 1]] \in Seq(S)
  BY <1>2, <1>3, IsASeq
<1> QED BY <1>4 DEF Dropped

LEMMA DroppedOwn ==
  ASSUME NEW S, publishing \in Seq(S), NEW i \in DOMAIN publishing,
         NEW j \in DOMAIN Dropped(i)
  PROVE  \E k \in DOMAIN publishing : Dropped(i)[j] = publishing[k]
<1>1. DOMAIN publishing = 1..Len(publishing) /\ Len(publishing) \in Nat
  BY LenProperties
<1>2. j \in 1..(Len(publishing) - 1)
  BY DEF Dropped
<1>3. Dropped(i)[j] = publishing[IF j < i THEN j ELSE j + 1]
  BY <1>2 DEF Dropped
<1>4. (IF j < i THEN j ELSE j + 1) \in DOMAIN publishing
  BY <1>1, <1>2
<1> QED BY <1>3, <1>4

LEMMA UnsubscribedOK ==
  ASSUME NEW pub, publishing \in Seq(Publications(pub)), Unsubscribed
  PROVE  /\ publishing' \in Seq(Publications(pub))
         /\ \A i \in DOMAIN publishing' : ~publishing'[i].own
<1> DEFINE linking == {i \in DOMAIN publishing : publishing[i].linking}
           n == Cardinality(linking)
<1>1. PICK f \in [1..n -> linking] :
        publishing' = Disowned([i \in 1..n |-> publishing[f[i]]])
  BY DEF Unsubscribed
<1>2. DOMAIN publishing = 1..Len(publishing) /\ Len(publishing) \in Nat
  BY LenProperties
<1>3. n \in Nat
  <2>1. IsFiniteSet(1..Len(publishing))
    BY <1>2, FS_Interval
  <2>2. IsFiniteSet(linking)
    BY <1>2, <2>1, FS_Subset
  <2> QED BY <2>2, FS_CardinalityType
<1>4. \A i \in 1..n : publishing[f[i]] \in Publications(pub)
  <2>1. ASSUME NEW i \in 1..n PROVE publishing[f[i]] \in Publications(pub)
    <3>1. f[i] \in 1..Len(publishing)
      BY <1>2
    <3> QED BY <3>1, ElementOfSeq
  <2> QED BY <2>1
<1> HIDE DEF n, linking
<1>5. [i \in 1..n |-> publishing[f[i]]] \in Seq(Publications(pub))
  BY <1>3, <1>4, IsASeq
<1> QED BY <1>1, <1>5, DisownedOK

-----------------------------------------------------------------------------
(* Every action keeps the invariant: opening a board                       *)

LEMMA CreateStep ==
  ASSUME IInv, NEW p \in Papers, NEW t \in Titles, Create(p, t)
  PROVE  IInv'
<1> DEFINE paper == [id |-> p, cards |-> {}, title |-> t, ended |-> FALSE,
                     link |-> FALSE, creator |-> user]
<1>0. /\ Remote /\ Files /\ Held /\ Flags /\ Linked /\ Loading
      /\ UNCHANGED <<server, client, asked, user, published>>
      /\ file' = Saved(paper) /\ NewScreen(paper) /\ created' = created \cup {p}
      /\ screen # "loading" /\ Perform("create")
  BY DEF IInv, Create, OnOtherScreen
<1>1. paper \in DeviceBoards(published)
  BY <1>0 DEF DeviceBoards, PaperModel, Flags
<1> HIDE DEF paper
<1>2. Remote' /\ Files'
  BY <1>0, <1>1, RemoteKept, SavedOK
<1>3. Held' /\ Linked'
  BY <1>0, <1>1, NewScreenOK
<1>4. Flags'
  BY <1>0, Performed, NewScreenFlags DEF Flags
<1>5. Loading'
  BY <1>0, NewScreenFlags DEF Loading
<1> QED BY <1>2, <1>3, <1>4, <1>5 DEF IInv

LEMMA OpenStep ==
  ASSUME IInv, NEW p \in Papers, NEW from \in {"local", "server"}, Open(p, from)
  PROVE  IInv'
<1>0. /\ Remote /\ Files /\ Held /\ Flags /\ Linked /\ Loading
      /\ UNCHANGED <<server, client, file, user, created, published>>
      /\ NewScreen(localPaper) /\ asked' = [from |-> from, id |-> p]
      /\ Perform("open")
  BY DEF IInv, Open, history
<1>1. localPaper \in DeviceBoards(published) \cup {Absent}
  BY <1>0 DEF Held
<1>2. Remote' /\ Files'
  BY <1>0, RemoteKept, FilesKept
<1>3. Held' /\ Linked'
  BY <1>0, <1>1, NewScreenOK
<1>4. Flags'
  BY <1>0, Performed, NewScreenFlags DEF Flags
<1>5. Loading'
  BY <1>0, NewScreenFlags DEF Loading
<1> QED BY <1>2, <1>3, <1>4, <1>5 DEF IInv

LEMMA FetchStep ==
  ASSUME IInv, Fetch
  PROVE  IInv'
<1>0. /\ Remote /\ Files /\ Held /\ Flags /\ Linked /\ Loading
      /\ asked # NoRequest /\ asked' = NoRequest
      /\ UNCHANGED <<server, file, screen, isPaperLinkMade, signInWithModal, buttons,
                     editor, uploading, publishing, user, currentUser, created, published,
                     ops>>
  BY DEF IInv, Fetch, flags, card, people, history
<1>1. screen = "loading" /\ asked.id \in Papers /\ ~isPaperLinkMade
  BY <1>0 DEF Loading
<1>2. Files'
  BY <1>0, FilesKept
<1>3. NoRequest \in [from : {"none", "local", "server", "link"}, id : Papers \cup {Absent}]
  BY DEF NoRequest
<1>4. Loading'
  BY <1>0 DEF Loading
<1>5. Remote'
  <2>1. client' = [client EXCEPT ![here] =
          IF asked.from = "local" THEN client[here] ELSE Listen(client[here], asked.id)]
    BY DEF Fetch
  <2>2. /\ ClientOK(client[here], published')
        /\ ClientOK(Listen(client[here], asked.id), published')
    BY <1>0, <1>1, HereOK, ListenOK
  <2>3. published' \subseteq Papers
    BY <1>0 DEF Remote
  <2> QED BY <1>0, <2>1, <2>2, <2>3, ClientStep
<1>6. CASE asked.from = "server"
  <2>1. UNCHANGED <<localPaper, serverPaper, current, paperFrom>>
    BY <1>6 DEF Fetch, shown
  <2>2. Held' /\ Linked'
    BY <1>0, <2>1, HeldKept, LinkedKept
  <2>3. Flags'
    BY <1>0, <1>3, <2>1 DEF Flags
  <2> QED BY <1>2, <1>4, <1>5, <2>2, <2>3 DEF IInv
<1>7. CASE asked.from # "server"
  <2>1. Publish(Loaded(asked.id, localPaper), serverPaper)
    BY <1>7 DEF Fetch
  <2>2. /\ Loaded(asked.id, localPaper) \in DeviceBoards(published) \cup {Absent}
        /\ serverPaper \in ServerBoards(published) \cup {Absent}
    BY <1>0, <1>1, LoadedOK DEF Held
  <2>3. Held' /\ paperFrom' \in {paperFrom, "local", "server"}
    BY <1>0, <2>1, <2>2, PublishHeld
  <2>4. Linked'
    BY <1>0, <1>1, <2>1, <2>2, PublishLinked
  <2>5. Flags'
    BY <1>0, <1>3, <2>3 DEF Flags
  <2> QED BY <1>2, <1>4, <1>5, <2>3, <2>4, <2>5 DEF IInv
<1> QED BY <1>6, <1>7

LEMMA DeepLinkStep ==
  ASSUME IInv, NEW p \in Papers, DeepLink(p)
  PROVE  IInv'
<1>0. /\ Remote /\ Files /\ Held /\ Flags /\ Linked /\ Loading
      /\ UNCHANGED <<server, client, file, user, created, published>>
      /\ NewScreen(localPaper) /\ asked' = [from |-> "link", id |-> p]
      /\ Perform("deepLink")
  BY DEF IInv, DeepLink, history
<1>1. localPaper \in DeviceBoards(published) \cup {Absent}
  BY <1>0 DEF Held
<1>2. Remote' /\ Files'
  BY <1>0, RemoteKept, FilesKept
<1>3. Held' /\ Linked'
  BY <1>0, <1>1, NewScreenOK
<1>4. Flags'
  BY <1>0, Performed, NewScreenFlags DEF Flags
<1>5. Loading'
  BY <1>0, NewScreenFlags DEF Loading
<1> QED BY <1>2, <1>3, <1>4, <1>5 DEF IInv

(* Steps that touch no board.                                              *)
LEMMA ScreenStep ==
  ASSUME IInv,
         UserSeen \/ Draw \/ Tick \/ OpenEditor \/ CloseEditor \/ UploadFailed
           \/ ProfileRemoved \/ Cover \/ Uncover
  PROVE  IInv'
<1>0. /\ Remote /\ Files /\ Held /\ Flags /\ Linked /\ Loading
      /\ UNCHANGED <<server, client, file, localPaper, serverPaper, current, paperFrom,
                     isPaperLinkMade, asked, publishing, created, published,
                     signInWithModal>>
  BY DEF IInv, UserSeen, Draw, Tick, OpenEditor, CloseEditor, UploadFailed, ProfileRemoved,
         Cover, Uncover, managers, shown, other, flags, card, history
<1>1. Remote' /\ Files' /\ Held' /\ Linked'
  BY <1>0, RemoteKept, FilesKept, HeldKept, LinkedKept
<1>2. CASE UserSeen
  <2>1. Flags' /\ Loading'
    BY <1>0, <1>2 DEF Flags, Loading, UserSeen, other, card
  <2> QED BY <1>1, <2>1 DEF IInv
<1>3. CASE Draw
  <2>1. Flags' /\ Loading'
    BY <1>0, <1>3 DEF Flags, Loading, Drawn, Draw, ButtonsFor, card, people
  <2> QED BY <1>1, <2>1 DEF IInv
<1>4. CASE Tick
  <2>1. Flags' /\ Loading'
    BY <1>0, <1>4 DEF Flags, Loading, Tick, card, people
  <2> QED BY <1>1, <2>1 DEF IInv
<1>5. CASE OpenEditor
  <2>1. Flags' /\ Loading'
    BY <1>0, <1>5 DEF Flags, Loading, OpenEditor, people
  <2> QED BY <1>1, <2>1 DEF IInv
<1>6. CASE CloseEditor
  <2>1. Flags' /\ Loading'
    BY <1>0, <1>6 DEF Flags, Loading, CloseEditor, people
  <2> QED BY <1>1, <2>1 DEF IInv
<1>7. CASE UploadFailed
  <2>1. Flags' /\ Loading'
    BY <1>0, <1>7 DEF Flags, Loading, UploadFailed, people
  <2> QED BY <1>1, <2>1 DEF IInv
<1>8. CASE ProfileRemoved
  <2>1. Flags' /\ Loading'
    BY <1>0, <1>8, Performed DEF Flags, Loading, ProfileRemoved, other, card
  <2> QED BY <1>1, <2>1 DEF IInv
<1>9. CASE Cover \/ Uncover
  <2>1. ops' \in 0..MaxOps
    BY <1>0, <1>9, Performed DEF Flags, Cover, Uncover
  <2>2. Flags' /\ Loading'
    BY <1>0, <1>9, <2>1 DEF Flags, Loading, Drawn, Cover, Uncover, other, card, people
  <2> QED BY <1>1, <2>2 DEF IInv
<1> QED BY <1>2, <1>3, <1>4, <1>5, <1>6, <1>7, <1>8, <1>9

-----------------------------------------------------------------------------
(* Cards                                                                   *)

(* A card comes on the device's board or goes from it.                     *)
LEMMA CardsPublished ==
  ASSUME IInv, localPaper # Absent, NEW S \in SUBSET Cards,
         Publish([localPaper EXCEPT !.cards = S], serverPaper),
         UNCHANGED <<published, isPaperLinkMade>>
  PROVE  Held' /\ Linked' /\ paperFrom' \in {paperFrom, "local", "server"}
<1>1. Held /\ Linked
  BY DEF IInv
<1>2. /\ localPaper \in DeviceBoards(published)
      /\ serverPaper \in ServerBoards(published) \cup {Absent}
  BY <1>1 DEF Held
<1>3. /\ [localPaper EXCEPT !.cards = S] \in DeviceBoards(published)
      /\ [localPaper EXCEPT !.cards = S].id = localPaper.id
  BY <1>2, EditedBoard
<1>4. isPaperLinkMade => [localPaper EXCEPT !.cards = S].id \in published
  BY <1>1, <1>3 DEF Linked
<1> DEFINE l == [localPaper EXCEPT !.cards = S]
<1>5. l \in DeviceBoards(published) \cup {Absent} /\ Publish(l, serverPaper)
  BY <1>3
<1>6. isPaperLinkMade => l = Absent \/ l.id \in published
  BY <1>4
<1> HIDE DEF l
<1>7. Held' /\ paperFrom' \in {paperFrom, "local", "server"}
  BY <1>1, <1>2, <1>5, PublishHeld
<1>8. Linked'
  BY <1>1, <1>2, <1>5, <1>6, PublishLinked
<1> QED BY <1>7, <1>8

LEMMA CreateCardStep ==
  ASSUME IInv, NEW c \in Cards, CreateCard(c)
  PROVE  IInv'
<1>0. /\ Remote /\ Files /\ Held /\ Flags /\ Linked /\ Loading
      /\ UNCHANGED <<server, client, file, screen, isPaperLinkMade, signInWithModal, buttons,
                     asked, publishing, user, currentUser, published>>
      /\ created' = created \cup {c} /\ Perform("card")
  BY DEF IInv, CreateCard, flags, people
<1>1. Remote' /\ Files'
  BY <1>0, RemoteKept, FilesKept
<1>2. Loading'
  BY <1>0 DEF Loading
<1>3. CASE /\ editor = "local" /\ localPaper # Absent
           /\ Publish([localPaper EXCEPT !.cards = @ \cup {c}], serverPaper)
           /\ editor' = "none" /\ UNCHANGED uploading
  <2>1. localPaper.cards \cup {c} \in SUBSET Cards
    BY <1>0, <1>3, CardsOfBoard DEF Held
  <2>2. Held' /\ Linked' /\ paperFrom' \in {paperFrom, "local", "server"}
    BY <1>0, <1>3, <2>1, CardsPublished
  <2>3. Flags'
    BY <1>0, <1>3, <2>2, Performed DEF Flags
  <2> QED BY <1>1, <1>2, <2>2, <2>3 DEF IInv
<1>4. CASE /\ editor = "server"
           /\ uploading' = c
           /\ UNCHANGED <<localPaper, serverPaper, shown, editor>>
  <2>1. UNCHANGED <<localPaper, serverPaper, current, paperFrom, editor>> /\ uploading' = c
    BY <1>4 DEF shown
  <2>2. Held' /\ Linked'
    BY <1>0, <2>1, HeldKept, LinkedKept
  <2>3. Flags'
    BY <1>0, <2>1, Performed DEF Flags
  <2> QED BY <1>1, <1>2, <2>2, <2>3 DEF IInv
<1> QED BY <1>3, <1>4 DEF CreateCard

LEMMA CardUploadedStep ==
  ASSUME IInv, CardUploaded
  PROVE  IInv'
<1> DEFINE paper == [serverPaper EXCEPT !.cards = @ \cup {uploading}]
           c == IF serverPaper = Absent THEN client[here]
                ELSE Write(client[here], serverPaper.id, paper, Then("addCard", Absent))
<1>0. /\ Remote /\ Files /\ Held /\ Flags /\ Linked /\ Loading
      /\ UNCHANGED <<server, file, localPaper, serverPaper, screen, current, paperFrom,
                     isPaperLinkMade, signInWithModal, buttons, asked, publishing, user,
                     currentUser, created, published, ops>>
      /\ uploading # Absent /\ uploading' = Absent /\ editor' = "none"
      /\ client' = [client EXCEPT ![here] = c]
  BY DEF IInv, CardUploaded, managers, shown, flags, people, history
<1>1. published \subseteq Papers
  BY <1>0 DEF Remote
<1>2. ClientOK(c, published)
  <2>1. CASE serverPaper = Absent
    BY <1>0, <2>1, HereOK
  <2>2. CASE serverPaper # Absent
    <3>1. serverPaper \in ServerBoards(published) /\ uploading \in Cards
      BY <1>0, <2>2 DEF Held, Flags
    <3>2. paper \in PaperModel /\ paper.id = serverPaper.id
      BY <3>1 DEF ServerBoards, PaperModel
    <3>3. serverPaper.id \in published /\ paper \in At(serverPaper.id, published)
      BY <3>1, <3>2 DEF ServerBoards, At
    <3>4. ClientOK(client[here], published)
      BY <1>0, HereOK
    <3> HIDE DEF paper
    <3>5. ClientOK(Write(client[here], serverPaper.id, paper, Then("addCard", Absent)),
                   published)
      BY <1>1, <3>3, <3>4, WriteOK, ThenOK
    <3> QED BY <2>2, <3>5
  <2> QED BY <2>1, <2>2
<1> HIDE DEF c
<1>3. Remote' /\ Files' /\ Held' /\ Linked'
  BY <1>0, <1>1, <1>2, ClientStep, FilesKept, HeldKept, LinkedKept
<1>4. Flags' /\ Loading'
  BY <1>0 DEF Flags, Loading
<1> QED BY <1>3, <1>4 DEF IInv

LEMMA EndedStep ==
  ASSUME IInv, Ended, ops' \in 0..MaxOps
  PROVE  IInv'
<1>0. /\ Remote /\ Files /\ Held /\ Flags
      /\ UNCHANGED <<server, file, created, published>>
      /\ client' = [client EXCEPT ![here] = Restarted(client[here])]
      /\ localPaper' = Absent /\ serverPaper' = Absent /\ current' = Absent
      /\ screen' = "closed" /\ paperFrom' = "none"
      /\ isPaperLinkMade' = FALSE /\ buttons' = "none" /\ signInWithModal' = FALSE
      /\ asked' = NoRequest /\ editor' = "none" /\ uploading' = Absent
      /\ publishing' = << >> /\ user' = Absent /\ currentUser' = Absent
  BY DEF IInv, Ended, history
<1>1. ClientOK(Restarted(client[here]), published)
  BY <1>0, HereOK, RestartedOK
<1>2. published \subseteq Papers
  BY <1>0 DEF Remote
<1>3. Remote' /\ Files'
  BY <1>0, <1>1, <1>2, ClientStep, FilesKept
<1>4. Held' /\ Linked' /\ Loading'
  BY <1>0 DEF Held, Linked, Loading
<1>a. << >> \in Seq(Publications(published')) /\ NoRequest' = NoRequest
  BY DEF NoRequest
<1>b. NoRequest \in [from : {"none", "local", "server", "link"}, id : Papers \cup {Absent}]
  BY DEF NoRequest
<1>5. Flags'
  BY <1>0, <1>a, <1>b DEF Flags
<1> QED BY <1>3, <1>4, <1>5 DEF IInv

LEMMA DeleteCardStep ==
  ASSUME IInv, NEW c \in Cards, DeleteCard(c)
  PROVE  IInv'
<1>0. /\ Remote /\ Files /\ Held /\ Flags /\ Linked /\ Loading /\ ops' \in 0..MaxOps
  BY Performed DEF IInv, DeleteCard
<1>1. CASE Ended
  BY <1>0, <1>1, EndedStep
<1>2. CASE /\ paperFrom = "local" /\ localPaper # Absent
           /\ Publish([localPaper EXCEPT !.cards = @ \ {c}], serverPaper)
           /\ UNCHANGED <<server, client, file, screen, other, people, history>>
  <2>1. localPaper.cards \ {c} \in SUBSET Cards
    BY <1>0, <1>2, CardsOfBoard DEF Held
  <2>2. UNCHANGED <<server, client, file, screen, isPaperLinkMade, signInWithModal, buttons,
                    asked, editor, uploading, publishing, user, currentUser, created,
                    published>>
    BY <1>2 DEF other, flags, card, people, history
  <2>3. Held' /\ Linked' /\ paperFrom' \in {paperFrom, "local", "server"}
    BY <1>2, <2>1, <2>2, CardsPublished
  <2>4. Remote' /\ Files'
    BY <1>0, <2>2, RemoteKept, FilesKept
  <2>5. Flags' /\ Loading'
    BY <1>0, <2>2, <2>3 DEF Flags, Loading
  <2> QED BY <2>3, <2>4, <2>5 DEF IInv
<1> QED BY <1>1, <1>2 DEF DeleteCard

-----------------------------------------------------------------------------
(* Managing the board                                                      *)

(* A board of the screen is written to the server only if it is known      *)
(* there.                                                                  *)
LEMMA PutIfOK ==
  ASSUME Remote, NEW c, ClientOK(c, published), NEW b \in DeviceBoards(published),
         NEW condition \in BOOLEAN, condition => b.id \in published
  PROVE  ClientOK(PutIf(condition, c, b), published)
<1>1. published \subseteq Papers /\ b \in PaperModel
  BY BoardsHeld DEF Remote
<1>2. condition => ClientOK(Put(c, b), published)
  BY <1>1, PutOK
<1> QED BY <1>2 DEF PutIf

(* The title of the board is changed, or its end.                          *)
LEMMA EditedStep ==
  ASSUME IInv, current # Absent, NEW b \in DeviceBoards(published), b.id = current.id,
         current' = b,
         client' = [client EXCEPT ![here] = PutIf(isPaperLinkMade, client[here], b)],
         file' \in {file, Saved(b)},
         UNCHANGED <<server, localPaper, serverPaper, isPaperLinkMade, published>>
  PROVE  Remote' /\ Files' /\ Held' /\ Linked'
<1>0. Remote /\ Files /\ Held /\ Linked /\ isPaperLinkMade \in BOOLEAN
  BY DEF IInv, Flags
<1>1. isPaperLinkMade => b.id \in published
  BY <1>0 DEF Linked
<1>2. ClientOK(PutIf(isPaperLinkMade, client[here], b), published)
  BY <1>0, <1>1, HereOK, PutIfOK
<1>3. published \subseteq Papers
  BY <1>0 DEF Remote
<1>4. Remote' /\ Files'
  BY <1>0, <1>2, <1>3, ClientStep, FilesKept, SavedOK
<1>5. Held' /\ Linked'
  BY <1>0, <1>1 DEF Held, Linked
<1> QED BY <1>4, <1>5

LEMMA ChangePaperTitleStep ==
  ASSUME IInv, NEW t \in Titles, ChangePaperTitle(t)
  PROVE  IInv'
<1> DEFINE b == [current EXCEPT !.title = t]
<1>0. /\ Flags /\ Loading /\ current # Absent
      /\ UNCHANGED <<server, localPaper, serverPaper, screen, paperFrom, isPaperLinkMade,
                     signInWithModal, buttons, asked, editor, uploading, publishing, user,
                     currentUser, created, published>>
      /\ Perform("title") /\ current' = b
      /\ client' = [client EXCEPT ![here] = PutIf(isPaperLinkMade, client[here], b)]
      /\ file' \in {file, Saved(b)}
  BY DEF IInv, ChangePaperTitle, other, flags, card, people, history
<1>1. b \in DeviceBoards(published) /\ b.id = current.id
  BY <1>0, EditedBoard DEF IInv, Held
<1> HIDE DEF b
<1>2. Remote' /\ Files' /\ Held' /\ Linked'
  BY <1>0, <1>1, EditedStep
<1>3. Flags' /\ Loading'
  BY <1>0, Performed DEF Flags, Loading
<1> QED BY <1>2, <1>3 DEF IInv

LEMMA StopPaperStep ==
  ASSUME IInv, StopPaper
  PROVE  IInv'
<1> DEFINE b == [current EXCEPT !.ended = TRUE]
<1>0. /\ Flags /\ Loading /\ current # Absent
      /\ UNCHANGED <<server, localPaper, serverPaper, screen, paperFrom, isPaperLinkMade,
                     signInWithModal, asked, editor, uploading, publishing, user,
                     currentUser, created, published>>
      /\ Perform("stop") /\ current' = b /\ buttons' = "stopped"
      /\ client' = [client EXCEPT ![here] = PutIf(isPaperLinkMade, client[here], b)]
      /\ file' \in {file, Saved(b)}
  BY DEF IInv, StopPaper, flags, card, people, history
<1>1. b \in DeviceBoards(published) /\ b.id = current.id
  BY <1>0, EditedBoard DEF IInv, Held
<1> HIDE DEF b
<1>2. Remote' /\ Files' /\ Held' /\ Linked'
  BY <1>0, <1>1, EditedStep
<1>3. Flags' /\ Loading'
  BY <1>0, Performed DEF Flags, Loading
<1> QED BY <1>2, <1>3 DEF IInv

LEMMA DeletePaperStep ==
  ASSUME IInv, DeletePaper
  PROVE  IInv'
<1> DEFINE c == IF isPaperLinkMade THEN Write(client[here], current.id, Absent, NoCallback)
                ELSE client[here]
<1>0. /\ Remote /\ Files /\ Held /\ Flags /\ Linked /\ Loading /\ current # Absent
      /\ UNCHANGED <<server, paperFrom, isPaperLinkMade, signInWithModal, buttons, asked,
                     editor, uploading, publishing, user, currentUser, created, published>>
      /\ Perform("delete") /\ screen = "board" /\ screen' = "deleted"
      /\ file' = [file EXCEPT ![current.id] = Absent]
      /\ localPaper' = Absent /\ current' = Absent /\ serverPaper' \in {serverPaper, Absent}
      /\ client' = [client EXCEPT ![here] = c]
  BY DEF IInv, DeletePaper, Idle, other, flags, card, people, history
<1>1. published \subseteq Papers
  BY <1>0 DEF Remote
<1>2. ClientOK(c, published)
  <2>1. ClientOK(client[here], published)
    BY <1>0, HereOK
  <2>2. Absent \in At(current.id, published)
    BY DEF At
  <2>3. isPaperLinkMade => current.id \in published
    BY <1>0 DEF Linked
  <2>4. isPaperLinkMade
          => ClientOK(Write(client[here], current.id, Absent, NoCallback), published)
    BY <1>1, <2>1, <2>2, <2>3, WriteOK, ThenOK
  <2> QED BY <2>1, <2>4
<1> HIDE DEF c
<1>3. Remote'
  BY <1>0, <1>1, <1>2, ClientStep
<1>4. Files'
  BY <1>0 DEF Files, Boards
<1>5. Held' /\ Linked'
  BY <1>0 DEF Held, Linked
<1>6. Flags' /\ Loading'
  BY <1>0, Performed DEF Flags, Loading, Drawn
<1> QED BY <1>3, <1>4, <1>5, <1>6 DEF IInv

(* Cleaning up after the board.                                            *)
LEMMA CleanedStep ==
  ASSUME IInv, current # Absent, Clean, UNCHANGED <<server, published>>,
         NEW c, ClientOK(c, published), client' = [client EXCEPT ![here] = Cleaned(c)],
         file' \in {file, Saved(current)}
  PROVE  /\ Remote' /\ Files' /\ Held' /\ Linked'
         /\ screen' = "leaving" /\ paperFrom' = paperFrom
         /\ publishing' \in Seq(Publications(published'))
         /\ \A i \in DOMAIN publishing' : ~publishing'[i].own
<1>0. Remote /\ Files /\ Held /\ Linked /\ publishing \in Seq(Publications(published))
  BY DEF IInv, Flags
<1>1. /\ current \in DeviceBoards(published) /\ current.link \in BOOLEAN
      /\ current.link => current.id \in published
  BY <1>0 DEF Held, DeviceBoards, PaperModel
<1>2. ClientOK(Cleaned(c), published)
  BY <1>0, <1>1, PutIfOK DEF Cleaned
<1>3. published \subseteq Papers
  BY <1>0 DEF Remote
<1>4. Remote' /\ Files'
  BY <1>0, <1>1, <1>2, <1>3, ClientStep, FilesKept, SavedOK
<1>5. /\ localPaper' = Absent /\ serverPaper' = Absent /\ current' = Absent
      /\ screen' = "leaving" /\ paperFrom' = paperFrom /\ Unsubscribed
  BY DEF Clean
<1>6. Held' /\ Linked'
  BY <1>5 DEF Held, Linked
<1> QED BY <1>0, <1>4, <1>5, <1>6, UnsubscribedOK

(* The screen goes with nothing on it.                                     *)
LEMMA PopStep ==
  ASSUME IInv, Pop, screen \in Drawn, UNCHANGED <<server, isPaperLinkMade, published>>
  PROVE  /\ Remote' /\ Files' /\ Held' /\ Linked'
         /\ screen' = "popping" /\ paperFrom' = paperFrom
         /\ publishing' \in Seq(Publications(published'))
         /\ \A i \in DOMAIN publishing' : publishing'[i].own => screen' \in Drawn
<1>0. Remote /\ Files /\ Held /\ Linked /\ Flags
  BY DEF IInv
<1>1. /\ UNCHANGED <<client, file, localPaper, serverPaper, current, paperFrom, publishing>>
      /\ screen' = "popping"
  BY DEF Pop, managers, shown
<1> QED BY <1>0, <1>1, RemoteKept, FilesKept, HeldKept, LinkedKept DEF Flags, Drawn

LEMMA PaperDeletedStep ==
  ASSUME IInv, PaperDeleted
  PROVE  IInv'
<1>0. /\ Remote /\ Files /\ Held /\ Flags /\ Linked /\ Loading /\ screen = "deleted"
      /\ UNCHANGED <<server, isPaperLinkMade, signInWithModal, buttons, asked, editor,
                     uploading, user, currentUser, created, published, ops>>
  BY DEF IInv, PaperDeleted, flags, card, people, history
<1>1. CASE current = Absent
  <2>1. Pop
    BY <1>1 DEF PaperDeleted
  <2>2. /\ Remote' /\ Files' /\ Held' /\ Linked' /\ screen' = "popping"
        /\ paperFrom' = paperFrom /\ publishing' \in Seq(Publications(published'))
        /\ \A i \in DOMAIN publishing' : publishing'[i].own => screen' \in Drawn
    BY <1>0, <2>1, PopStep DEF Drawn
  <2>3. Flags' /\ Loading'
    BY <1>0, <2>2 DEF Flags, Loading
  <2> QED BY <2>2, <2>3 DEF IInv
<1>2. CASE current # Absent
  <2>1. /\ client' = [client EXCEPT ![here] = Cleaned(client[here])]
        /\ file' \in {file, Saved(current)} /\ Clean
    BY <1>2 DEF PaperDeleted
  <2>2. ClientOK(client[here], published)
    BY <1>0, HereOK
  <2>3. /\ Remote' /\ Files' /\ Held' /\ Linked' /\ screen' = "leaving"
        /\ paperFrom' = paperFrom /\ publishing' \in Seq(Publications(published'))
        /\ \A i \in DOMAIN publishing' : ~publishing'[i].own
    BY <1>0, <1>2, <2>1, <2>2, CleanedStep
  <2>4. Flags' /\ Loading'
    BY <1>0, <2>3 DEF Flags, Loading
  <2> QED BY <2>3, <2>4 DEF IInv
<1> QED BY <1>1, <1>2

LEMMA LeaveStep ==
  ASSUME IInv, Leave
  PROVE  IInv'
<1>0. /\ Remote /\ Files /\ Held /\ Flags /\ Linked /\ Loading
      /\ screen = "board" /\ signInWithModal' = FALSE
      /\ UNCHANGED <<server, isPaperLinkMade, buttons, asked, editor, uploading, user,
                     currentUser, created, published, ops>>
  BY DEF IInv, Leave, Idle, card, people, history
<1>1. CASE current = Absent
  <2>1. Pop
    BY <1>1 DEF Leave
  <2>2. /\ Remote' /\ Files' /\ Held' /\ Linked' /\ screen' = "popping"
        /\ paperFrom' = paperFrom /\ publishing' \in Seq(Publications(published'))
        /\ \A i \in DOMAIN publishing' : publishing'[i].own => screen' \in Drawn
    BY <1>0, <2>1, PopStep DEF Drawn
  <2>3. Flags' /\ Loading'
    <3>1. Flags'
      BY <1>0, <2>2 DEF Flags
    <3>2. Loading'
      BY <1>0, <2>2 DEF Loading
    <3> QED BY <3>1, <3>2
  <2> QED BY <2>2, <2>3 DEF IInv
<1>2. CASE current # Absent
  <2> DEFINE c == PutIf(isPaperLinkMade, client[here], current)
  <2>1. /\ client' = [client EXCEPT ![here] = Cleaned(c)]
        /\ file' = Saved(current) /\ Clean
    BY <1>2 DEF Leave
  <2>2. ClientOK(c, published)
    <3>1. current \in DeviceBoards(published) /\ isPaperLinkMade \in BOOLEAN
      BY <1>0, <1>2 DEF Held, Flags
    <3>2. isPaperLinkMade => current.id \in published
      BY <1>0, <1>2 DEF Linked
    <3> QED BY <1>0, <3>1, <3>2, HereOK, PutIfOK
  <2> HIDE DEF c
  <2>3. /\ Remote' /\ Files' /\ Held' /\ Linked' /\ screen' = "leaving"
        /\ paperFrom' = paperFrom /\ publishing' \in Seq(Publications(published'))
        /\ \A i \in DOMAIN publishing' : ~publishing'[i].own
    BY <1>0, <1>2, <2>1, <2>2, CleanedStep
  <2>4. Flags' /\ Loading'
    <3>1. Flags'
      BY <1>0, <2>3 DEF Flags
    <3>2. Loading'
      BY <1>0, <2>3 DEF Loading
    <3> QED BY <3>1, <3>2
  <2> QED BY <2>3, <2>4 DEF IInv
<1> QED BY <1>1, <1>2

LEMMA LeftStep ==
  ASSUME IInv, Left
  PROVE  IInv'
<1>0. /\ Remote /\ Files /\ Held /\ Flags /\ Linked /\ Loading
      /\ screen \in {"leaving", "popping"} /\ screen' = "closed"
      /\ current' = Absent /\ paperFrom' = "none" /\ buttons' = "none"
      /\ UNCHANGED <<server, client, file, localPaper, serverPaper, isPaperLinkMade,
                     signInWithModal, asked, editor, uploading, user, currentUser, created,
                     published, ops>>
  BY DEF IInv, Left, managers, flags, card, people, history
<1>1. Remote' /\ Files'
  BY <1>0, RemoteKept, FilesKept
<1>2. Held' /\ Linked'
  BY <1>0 DEF Held, Linked
<1>3. /\ publishing' \in Seq(Publications(published'))
      /\ \A i \in DOMAIN publishing' : ~publishing'[i].own
  <2>1. publishing \in Seq(Publications(published))
    BY <1>0 DEF Flags
  <2>2. CASE screen = "popping"
    <3>1. Unsubscribed
      BY <2>2 DEF Left
    <3> QED BY <1>0, <2>1, <3>1, UnsubscribedOK
  <2>3. CASE screen = "leaving"
    <3>1. publishing' = publishing
      BY <2>3 DEF Left
    <3>2. \A i \in DOMAIN publishing : ~publishing[i].own
      BY <1>0, <2>3 DEF Loading, Drawn
    <3> QED BY <1>0, <2>1, <3>1, <3>2
  <2> QED BY <1>0, <2>2, <2>3
<1>4. Flags' /\ Loading'
  BY <1>0, <1>3 DEF Flags, Loading
<1> QED BY <1>1, <1>2, <1>4 DEF IInv

-----------------------------------------------------------------------------
(* Publishing the board                                                    *)

LEMMA PublicationTyped ==
  ASSUME NEW pub, NEW n \in Publications(pub)
  PROVE  /\ n.paper \in DeviceBoards(pub) /\ n.uploaded \subseteq n.paper.cards
         /\ n.uploaded \subseteq Cards /\ n.kind \in {"share", "gift"} /\ n.linking \in BOOLEAN
         /\ n.linking => n.kind = "share" /\ n.uploaded = n.paper.cards
BY DEF Publications

LEMMA NewPublication ==
  ASSUME Held, current # Absent, NEW kind \in {"share", "gift"}
  PROVE  Publication(kind) \in Publications(published)
<1>1. current \in DeviceBoards(published) /\ current.cards \subseteq Cards
  BY CardsOfBoard DEF Held
<1> QED BY <1>1 DEF Publication, Publications

(* What a screen publishes itself was put there from its drawn board.      *)
LEMMA UnderWay ==
  ASSUME IInv, NEW i \in DOMAIN publishing
  PROVE  /\ i \in 1..Len(publishing) /\ Len(publishing) \in Nat
         /\ publishing[i] \in Publications(published)
         /\ publishing[i].own => screen \in Drawn
<1>1. publishing \in Seq(Publications(published))
  BY DEF IInv, Flags
<1>2. i \in 1..Len(publishing) /\ Len(publishing) \in Nat
  BY <1>1, LenProperties
<1> QED BY <1>1, <1>2, ElementOfSeq DEF IInv, Loading

LEMMA PaperShareStep ==
  ASSUME IInv, PaperShare
  PROVE  IInv'
<1>0. /\ Remote /\ Files /\ Held /\ Flags /\ Linked /\ Loading
      /\ current # Absent /\ screen = "board" /\ Perform("share")
      /\ signInWithModal' = (signInWithModal \/ buttons = "guest")
      /\ publishing' \in {Append(publishing, Publication("share")), publishing}
      /\ UNCHANGED <<server, client, file, localPaper, serverPaper, screen, current, paperFrom,
                     isPaperLinkMade, buttons, asked, editor, uploading, user, currentUser,
                     created, published>>
  BY DEF IInv, PaperShare, Idle, managers, shown, card, people, history
<1>1. Publication("share") \in Publications(published)
  BY <1>0, NewPublication
<1>2. publishing' \in Seq(Publications(published'))
  BY <1>0, <1>1, AppendProperties DEF Flags
<1>3. Remote' /\ Files' /\ Held' /\ Linked'
  BY <1>0, RemoteKept, FilesKept, HeldKept, LinkedKept
<1>4. signInWithModal' \in BOOLEAN
  BY <1>0
<1>5. Flags' /\ Loading'
  BY <1>0, <1>2, <1>4, Performed DEF Flags, Loading, Drawn
<1> QED BY <1>3, <1>5 DEF IInv

LEMMA CardPublishedStep ==
  ASSUME IInv, NEW i \in DOMAIN publishing, NEW c \in Cards, CardPublished(i, c)
  PROVE  IInv'
<1> DEFINE uploaded == publishing[i].uploaded \cup {c}
           linking  == publishing[i].kind = "share" /\ uploaded = publishing[i].paper.cards
           n == [publishing[i] EXCEPT !.uploaded = uploaded, !.linking = linking]
<1>0. /\ Remote /\ Files /\ Held /\ Flags /\ Linked /\ Loading
      /\ UNCHANGED <<server, client, file, localPaper, serverPaper, screen, current, paperFrom,
                     isPaperLinkMade, signInWithModal, buttons, asked, editor, uploading,
                     user, currentUser, created, published, ops>>
      /\ publishing' = [publishing EXCEPT ![i].uploaded = uploaded, ![i].linking = linking]
      /\ c \in publishing[i].paper.cards
  BY DEF IInv, CardPublished, managers, shown, flags, card, people, history
<1>1. /\ i \in 1..Len(publishing)
      /\ publishing[i] \in Publications(published)
      /\ publishing \in Seq(Publications(published))
  BY <1>0, UnderWay DEF Flags
<1>2. n \in Publications(published)
  <2>1. uploaded \subseteq publishing[i].paper.cards /\ uploaded \subseteq Cards
    BY <1>0, <1>1, PublicationTyped
  <2>2. linking \in BOOLEAN
        /\ (linking => publishing[i].kind = "share" /\ uploaded = publishing[i].paper.cards)
    OBVIOUS
  <2> HIDE DEF linking, uploaded
  <2> QED BY <1>1, <2>1, <2>2 DEF Publications
<1>b. n.own = publishing[i].own
  BY <1>1 DEF Publications
<1> HIDE DEF uploaded, linking
<1>3. [publishing EXCEPT ![i].uploaded = uploaded, ![i].linking = linking]
        = [publishing EXCEPT ![i] = n]
  <2>1. DOMAIN publishing = 1..Len(publishing) /\ publishing[i] = publishing[i]
    BY <1>1, LenProperties
  <2> QED BY <2>1
<1> HIDE DEF n
<1>a. [publishing EXCEPT ![i] = n] \in Seq(Publications(published))
  BY <1>1, <1>2, ExceptSeq
<1>4. publishing' \in Seq(Publications(published'))
  <2>1. publishing' = [publishing EXCEPT ![i] = n] /\ published' = published
    BY <1>0, <1>3
  <2> QED BY <1>a, <2>1
<1>5. Remote' /\ Files' /\ Held' /\ Linked'
  BY <1>0, RemoteKept, FilesKept, HeldKept, LinkedKept
<1>6. ASSUME NEW j \in DOMAIN publishing', publishing'[j].own PROVE screen' \in Drawn
  <2>1. publishing' = [publishing EXCEPT ![i] = n]
    BY <1>0, <1>3
  <2>2. j \in DOMAIN publishing /\ publishing[j].own
    BY <1>6, <1>b, <2>1
  <2> QED BY <1>0, <2>2 DEF Loading
<1>7. Flags' /\ Loading'
  BY <1>0, <1>4, <1>6 DEF Flags, Loading
<1> QED BY <1>5, <1>7 DEF IInv

LEMMA LinkFailedStep ==
  ASSUME IInv, NEW i \in DOMAIN publishing, LinkFailed(i)
  PROVE  IInv'
<1>0. /\ Remote /\ Files /\ Held /\ Flags /\ Linked /\ Loading
      /\ UNCHANGED <<server, client, file, localPaper, serverPaper, screen, current, paperFrom,
                     isPaperLinkMade, signInWithModal, buttons, asked, editor, uploading,
                     user, currentUser, created, published, ops>>
      /\ publishing' = Dropped(i)
  BY DEF IInv, LinkFailed, managers, shown, flags, card, people, history
<1>1. \A j \in DOMAIN publishing' : publishing'[j].own => screen' \in Drawn
  BY <1>0, DroppedOwn DEF Flags, Loading
<1>2. publishing' \in Seq(Publications(published'))
  BY <1>0, DroppedOK DEF Flags
<1>3. Remote' /\ Files' /\ Held' /\ Linked'
  BY <1>0, RemoteKept, FilesKept, HeldKept, LinkedKept
<1>4. Flags' /\ Loading'
  BY <1>0, <1>1, <1>2 DEF Flags, Loading
<1> QED BY <1>3, <1>4 DEF IInv

(* A board with its cards on the server, and maybe a link.                 *)
LEMMA UploadedBoard ==
  ASSUME NEW pub, NEW n \in Publications(pub), NEW more, n.paper.id \in more
  PROVE  /\ [n.paper EXCEPT !.cards = n.uploaded] \in ServerBoards(more)
         /\ [n.paper EXCEPT !.cards = n.uploaded].id = n.paper.id
         /\ [n.paper EXCEPT !.cards = n.uploaded].cards = n.uploaded
         /\ [n.paper EXCEPT !.cards = n.uploaded, !.link = TRUE] \in ServerBoards(more)
         /\ [n.paper EXCEPT !.cards = n.uploaded, !.link = TRUE].id = n.paper.id
         /\ [n.paper EXCEPT !.cards = n.uploaded, !.link = TRUE].cards = n.uploaded
<1>1. n.paper \in PaperModel /\ n.uploaded \subseteq Cards
  BY PublicationTyped, BoardsHeld
<1> QED BY <1>1 DEF PaperModel, ServerBoards

(* The server manager gets a board, and has it on the server from now on.  *)
LEMMA AddPaperStep ==
  ASSUME IInv, NEW i \in DOMAIN publishing, NEW paper, NEW ids \in SUBSET Papers,
         paper \in ServerBoards(published \cup ids),
         AddPaper(i, paper, ids), server' = server, file' = file, screen' = screen,
         isPaperLinkMade' \in {isPaperLinkMade, isPaperLinkMade \/ publishing[i].own},
         UNCHANGED asked,
         NEW c, ClientOK(c, published \cup ids), client' = [client EXCEPT ![here] = c]
  PROVE  /\ Remote' /\ Files' /\ Held' /\ Linked' /\ Loading'
         /\ publishing' \in Seq(Publications(published'))
         /\ paperFrom' \in {"none", "local", "server"} /\ isPaperLinkMade' \in BOOLEAN
<1>0. /\ Remote /\ Files /\ Held /\ Linked /\ Loading
      /\ publishing \in Seq(Publications(published))
      /\ isPaperLinkMade \in BOOLEAN /\ paperFrom \in {"none", "local", "server"}
      /\ Publish(Absent, paper) /\ published' = published \cup ids
      /\ publishing' = Dropped(i)
  BY DEF IInv, Flags, AddPaper
<1>a. /\ localPaper' = Absent /\ serverPaper' = paper
      /\ current' \in {current, Absent, paper} /\ paperFrom' \in {paperFrom, "local", "server"}
      /\ Attached => current' = paper
      /\ ~Attached => current' = current
  <2>1. paper # Absent
    BY BoardsHeld
  <2> QED BY <1>0, <2>1 DEF Publish, Latest, Source, shown
<1>b. /\ publishing[i].own => screen \in Drawn
      /\ publishing[i].own \in BOOLEAN
  BY UnderWay DEF Publications
<1>1. published' \subseteq Papers /\ published \subseteq published'
  BY <1>0 DEF Remote
<1>2. ClientOK(c, published')
  BY <1>0
<1>3. Remote' /\ Files'
  BY <1>0, <1>1, <1>2, ClientStep, FilesKept
<1>4. paper \in ServerBoards(published') /\ paper \in DeviceBoards(published')
      /\ paper.id \in published'
  BY <1>0, BoardsHeld
<1>5. Held'
  <2>1. current \in DeviceBoards(published') \cup {Absent}
    BY <1>0, <1>1, MorePublished DEF Held
  <2> QED BY <1>a, <1>4, <2>1 DEF Held
<1>c. Linked'
  <2>1. CASE Attached
    BY <1>a, <1>4, <2>1 DEF Linked
  <2>2. CASE ~Attached
    <3>1. ~publishing[i].own
      BY <1>b, <2>2 DEF Drawn, Attached
    <3>2. isPaperLinkMade' = isPaperLinkMade
      BY <1>0, <3>1
    <3> QED BY <1>0, <1>1, <1>a, <2>2, <3>2 DEF Linked
  <2> QED BY <2>1, <2>2
<1>d. Loading'
  <2>1. \A j \in DOMAIN publishing' : publishing'[j].own => screen' \in Drawn
    BY <1>0, DroppedOwn DEF Loading
  <2>2. screen' = "loading" => ~isPaperLinkMade'
    BY <1>0, <1>b DEF Loading, Drawn
  <2> QED BY <1>0, <2>1, <2>2 DEF Loading
<1>6. Publications(published) \subseteq Publications(published')
  BY <1>1, MorePublished
<1>7. publishing \in Seq(Publications(published'))
  BY <1>0, <1>6, SeqMonotonic
<1>8. publishing' \in Seq(Publications(published'))
  BY <1>0, <1>7, DroppedOK
<1>9. isPaperLinkMade' \in BOOLEAN /\ paperFrom' \in {"none", "local", "server"}
  BY <1>0, <1>a, <1>b
<1> QED BY <1>3, <1>5, <1>c, <1>d, <1>8, <1>9

LEMMA LinkMadeStep ==
  ASSUME IInv, NEW i \in DOMAIN publishing, LinkMade(i)
  PROVE  IInv'
<1> DEFINE n == publishing[i]
           paper == [n.paper EXCEPT !.cards = n.uploaded, !.link = TRUE]
           c == Listen(Put(client[here], paper), paper.id)
<1>0. /\ Remote /\ Flags /\ Loading
      /\ AddPaper(i, paper, {paper.id})
      /\ isPaperLinkMade' = (isPaperLinkMade \/ publishing[i].own)
      /\ client' = [client EXCEPT ![here] = c]
      /\ UNCHANGED <<server, file, screen, signInWithModal, buttons, asked, editor, uploading,
                     user, currentUser, created, ops>>
  BY DEF IInv, LinkMade, card, people
<1>1. n \in Publications(published)
  BY UnderWay
<1> HIDE DEF n
<1>2. n.paper.id \in Papers
  BY <1>1, PublicationTyped, BoardsHeld
<1> DEFINE ids == {n.paper.id}
<1>3. paper \in ServerBoards(published \cup ids) /\ paper.id = n.paper.id
  BY <1>1, UploadedBoard
<1>4. ids \in SUBSET Papers /\ published \cup ids \subseteq Papers
  BY <1>0, <1>2 DEF Remote
<1>5. paper \in PaperModel /\ paper.id \in published \cup ids /\ paper.id \in Papers
  BY <1>2, <1>3 DEF ServerBoards
<1>6. AddPaper(i, paper, ids)
  BY <1>0, <1>3
<1> HIDE DEF paper
<1>7. ClientOK(c, published \cup ids)
  <2>1. ClientOK(client[here], published \cup ids)
    BY <1>0, HereOK
  <2> HIDE DEF ids
  <2>2. ClientOK(Put(client[here], paper), published \cup ids)
    BY <1>4, <1>5, <2>1, PutOK
  <2> QED BY <1>5, <2>2, ListenOK
<1> HIDE DEF c, ids
<1>8. /\ Remote' /\ Files' /\ Held' /\ Linked' /\ Loading'
      /\ publishing' \in Seq(Publications(published'))
      /\ paperFrom' \in {"none", "local", "server"} /\ isPaperLinkMade' \in BOOLEAN
  BY <1>0, <1>3, <1>4, <1>6, <1>7, AddPaperStep
<1>9. Flags'
  BY <1>0, <1>8 DEF Flags
<1> QED BY <1>8, <1>9 DEF IInv

(* A copy of a board, under an identifier of its own, is no other board.   *)
LEMMA GiftOK ==
  ASSUME NEW pub, pub \subseteq Papers, NEW c, ClientOK(c, pub), NEW g \in pub,
         NEW b \in PaperModel
  PROVE  ClientOK(Gift(g, b, c), pub)
<1>1. /\ [b EXCEPT !.id = g, !.link = FALSE] \in PaperModel
      /\ [b EXCEPT !.id = g, !.link = FALSE].id = g
  BY DEF PaperModel
<1> QED BY <1>1, PutOK DEF Gift

LEMMA GiftTappedStep ==
  ASSUME IInv, NEW g \in Papers, GiftTapped(g)
  PROVE  IInv'
<1>0. /\ Remote /\ Files /\ Held /\ Flags /\ Linked /\ Loading
      /\ UNCHANGED <<server, file, localPaper, serverPaper, screen, current, paperFrom,
                     isPaperLinkMade, buttons, asked, editor, uploading, user, currentUser>>
      /\ Perform("gift") /\ current # Absent /\ screen = "board"
  BY DEF IInv, GiftTapped, Idle, managers, shown, card, people
<1>1. CASE current.creator # Absent /\ paperFrom = "server"
  <2>1. /\ client' = [client EXCEPT ![here] = Gift(g, current, client[here])]
        /\ created' = created \cup {g} /\ published' = published \cup {g}
        /\ UNCHANGED <<signInWithModal, publishing>>
    BY <1>1 DEF GiftTapped
  <2>2. published' \subseteq Papers /\ published \subseteq published' /\ g \in published'
    BY <1>0, <2>1 DEF Remote
  <2>3. ClientOK(client[here], published')
    BY <1>0, <2>2, HereOK
  <2>4. current \in PaperModel
    BY <1>0, BoardsHeld DEF Held
  <2>5. ClientOK(Gift(g, current, client[here]), published')
    BY <2>2, <2>3, <2>4, GiftOK
  <2>6. Remote' /\ Files'
    BY <1>0, <2>1, <2>2, <2>5, ClientStep, FilesKept
  <2>7. Held'
    <3>1. ServerBoards(published) \subseteq ServerBoards(published')
      BY <2>2 DEF ServerBoards
    <3> QED BY <1>0, <2>2, <3>1, MorePublished DEF Held
  <2>8. Linked'
    BY <1>0, <2>2 DEF Linked
  <2>9. publishing' \in Seq(Publications(published'))
    <3>1. Publications(published) \subseteq Publications(published')
      BY <2>2, MorePublished
    <3> QED BY <1>0, <2>1, <3>1, SeqMonotonic DEF Flags
  <2>10. Flags' /\ Loading'
    BY <1>0, <2>1, <2>9, Performed DEF Flags, Loading, Drawn
  <2> QED BY <2>6, <2>7, <2>8, <2>10 DEF IInv
<1>2. CASE ~(current.creator # Absent /\ paperFrom = "server")
  <2>1. /\ signInWithModal' = (signInWithModal \/ current.creator = Absent)
        /\ publishing' \in {publishing, Append(publishing, Publication("gift"))}
        /\ UNCHANGED <<client, created, published>>
    BY <1>2 DEF GiftTapped, history
  <2>2. Publication("gift") \in Publications(published)
    BY <1>0, NewPublication
  <2>3. publishing' \in Seq(Publications(published'))
    BY <1>0, <2>1, <2>2, AppendProperties DEF Flags
  <2>4. Remote' /\ Files' /\ Held' /\ Linked'
    BY <1>0, <2>1, RemoteKept, FilesKept, HeldKept, LinkedKept
  <2>5. signInWithModal' \in BOOLEAN
    BY <2>1
  <2>6. Flags' /\ Loading'
    BY <1>0, <2>1, <2>3, <2>5, Performed DEF Flags, Loading, Drawn
  <2> QED BY <2>4, <2>6 DEF IInv
<1> QED BY <1>1, <1>2

LEMMA GiftPublishedStep ==
  ASSUME IInv, NEW i \in DOMAIN publishing, NEW g \in Papers, GiftPublished(i, g)
  PROVE  IInv'
<1> DEFINE n == publishing[i]
           paper == [n.paper EXCEPT !.cards = n.uploaded]
           c == Gift(g, paper, Put(client[here], paper))
<1>0. /\ Remote /\ Flags /\ Linked /\ Loading
      /\ AddPaper(i, paper, {paper.id, g}) /\ created' = created \cup {g}
      /\ client' = [client EXCEPT ![here] = c]
      /\ UNCHANGED <<server, file, screen, isPaperLinkMade, signInWithModal, buttons, asked,
                     editor, uploading, user, currentUser, ops>>
  BY DEF IInv, GiftPublished, flags, card, people
<1>1. n \in Publications(published)
  BY UnderWay
<1> HIDE DEF n
<1>2. n.paper.id \in Papers
  BY <1>1, PublicationTyped, BoardsHeld
<1> DEFINE ids == {n.paper.id, g}
<1>3. paper \in ServerBoards(published \cup ids) /\ paper.id = n.paper.id
  BY <1>1, UploadedBoard
<1>4. ids \in SUBSET Papers /\ published \cup ids \subseteq Papers /\ g \in published \cup ids
  BY <1>0, <1>2 DEF Remote
<1>5. paper \in PaperModel /\ paper.id \in published \cup ids /\ paper.id \in Papers
  BY <1>2, <1>3 DEF ServerBoards
<1>6. AddPaper(i, paper, ids)
  BY <1>0, <1>3
<1> HIDE DEF paper
<1>7. ClientOK(c, published \cup ids)
  <2>1. ClientOK(client[here], published \cup ids)
    BY <1>0, HereOK
  <2> HIDE DEF ids
  <2>2. ClientOK(Put(client[here], paper), published \cup ids)
    BY <1>4, <1>5, <2>1, PutOK
  <2> QED BY <1>4, <1>5, <2>2, GiftOK
<1> HIDE DEF c, ids
<1>8. /\ Remote' /\ Files' /\ Held' /\ Linked' /\ Loading'
      /\ publishing' \in Seq(Publications(published'))
      /\ paperFrom' \in {"none", "local", "server"} /\ isPaperLinkMade' \in BOOLEAN
  BY <1>0, <1>3, <1>4, <1>6, <1>7, AddPaperStep
<1>9. Flags'
  BY <1>0, <1>8 DEF Flags
<1> QED BY <1>8, <1>9 DEF IInv

-----------------------------------------------------------------------------
(* The user's profile, the main queue, the network and other devices       *)

LEMMA ProfileChangedStep ==
  ASSUME IInv, NEW u \in Users, ProfileChanged(u)
  PROVE  IInv'
<1> DEFINE claimed == [current EXCEPT !.creator = u]
           local   == IF signInWithModal /\ current.creator = Absent THEN claimed
                      ELSE Loaded(current.id, localPaper)
<1>0. /\ Remote /\ Files /\ Held /\ Flags /\ Linked /\ Loading
      /\ user' = u /\ Perform("profile")
      /\ UNCHANGED <<server, client, screen, isPaperLinkMade, signInWithModal, asked, editor,
                     uploading, publishing, currentUser, created, published>>
  BY DEF IInv, ProfileChanged, flags, card, history
<1>1. Remote'
  BY <1>0, RemoteKept
<1>2. Loading'
  BY <1>0 DEF Loading
<1>3. CASE Attached /\ current # Absent
  <2>1. /\ Publish(local, serverPaper)
        /\ file' = IF local = claimed THEN Saved(claimed) ELSE file
        /\ buttons' = ButtonsFor(Latest(local, serverPaper))
    BY <1>3 DEF ProfileChanged
  <2>2. current \in DeviceBoards(published) /\ current.id \in Papers
    BY <1>0, <1>3, BoardsHeld DEF Held
  <2>3. claimed \in DeviceBoards(published) /\ claimed.id = current.id
    BY <2>2, EditedBoard
  <2>4. /\ local \in DeviceBoards(published) \cup {Absent}
        /\ local = localPaper \/ local.id = current.id
    BY <1>0, <2>2, <2>3, LoadedOK
  <2> HIDE DEF local, claimed
  <2>5. serverPaper \in ServerBoards(published) \cup {Absent}
    BY <1>0 DEF Held
  <2>6. isPaperLinkMade => local = Absent \/ local.id \in published
    BY <1>0, <1>3, <2>4 DEF Linked
  <2>7. Held' /\ paperFrom' \in {paperFrom, "local", "server"}
    BY <1>0, <2>1, <2>4, <2>5, PublishHeld
  <2>8. Linked'
    BY <1>0, <2>1, <2>4, <2>5, <2>6, PublishLinked
  <2>9. Files'
    BY <1>0, <2>1, <2>3, SavedOK, FilesKept
  <2>10. buttons' \in {"none", "guest", "owner", "stopped"}
    BY <1>0, <2>1 DEF ButtonsFor, Flags
  <2>11. Flags'
    BY <1>0, <2>7, <2>10, Performed DEF Flags
  <2> QED BY <1>1, <1>2, <2>7, <2>8, <2>9, <2>11 DEF IInv
<1>4. CASE ~(Attached /\ current # Absent)
  <2>1. UNCHANGED <<file, localPaper, serverPaper, current, paperFrom, buttons>>
    BY <1>4 DEF ProfileChanged, managers, shown
  <2>2. Files' /\ Held' /\ Linked'
    BY <1>0, <2>1, FilesKept, HeldKept, LinkedKept
  <2>3. Flags'
    BY <1>0, <2>1, Performed DEF Flags
  <2> QED BY <1>1, <1>2, <2>2, <2>3 DEF IInv
<1> QED BY <1>3, <1>4

LEMMA CallbackStep ==
  ASSUME IInv, Callback
  PROVE  IInv'
<1> DEFINE c == [client[here] EXCEPT !.inbox = Tail(@)]
<1>0. /\ Remote /\ Files /\ Held /\ Flags /\ Linked /\ Loading
      /\ client[here].inbox # << >>
      /\ client' = [client EXCEPT ![here] = c]
      /\ Publish(localPaper, Oldest.val)
      /\ UNCHANGED <<server, file, screen, isPaperLinkMade, signInWithModal, buttons, asked,
                     editor, uploading, publishing, user, currentUser, created, published,
                     ops>>
  BY DEF IInv, Callback, other, flags, card, people, history
<1>1. ClientOK(client[here], published) /\ published \subseteq Papers
  BY <1>0, HereOK DEF Remote
<1>2. ClientOK(c, published) /\ Oldest \in EventType(published)
  BY <1>0, <1>1, PoppedOK DEF Oldest
<1>3. Oldest.val \in ServerBoards(published) \cup {Absent}
  <2>1. Oldest.val \in At(Oldest.doc, published)
    BY <1>2 DEF EventType
  <2> QED BY <2>1, ServerBoardAt
<1> HIDE DEF c
<1>4. localPaper \in DeviceBoards(published) \cup {Absent}
  BY <1>0 DEF Held
<1>5. Remote' /\ Files'
  BY <1>0, <1>1, <1>2, ClientStep, FilesKept
<1>6. Held' /\ paperFrom' \in {paperFrom, "local", "server"}
  BY <1>0, <1>3, <1>4, PublishHeld
<1>7. Linked'
  BY <1>0, <1>3, <1>4, PublishLinked DEF Linked
<1>8. Flags' /\ Loading'
  BY <1>0, <1>6 DEF Flags, Loading
<1> QED BY <1>5, <1>6, <1>7, <1>8 DEF IInv

(* The backend has another board, and the device may have heard of it.     *)
LEMMA RemoteStep ==
  ASSUME Remote, published' = published, NEW x \in Papers, NEW v \in At(x, published),
         server' \in {server, [server EXCEPT ![x] = v]},
         NEW c, ClientOK(c, published), client' = [client EXCEPT ![here] = c]
  PROVE  Remote'
<1>1. client' \in [Devices -> ClientType(published')] /\ client'[here] = c
  BY WrittenPaperAssumption DEF Remote, ClientOK
<1>2. /\ server' \in [Papers -> Boards]
      /\ \A p \in Papers : server'[p] \in At(p, published')
  BY ValueIsBoard DEF Remote
<1> QED BY <1>1, <1>2 DEF Remote

LEMMA AcknowledgeStep ==
  ASSUME Remote, published' = published, Acknowledge(here)
  PROVE  Remote'
<1> DEFINE c == client[here]
           w == Head(c.pending)
           shifted == [c EXCEPT !.pending = Tail(@)]
           acked == [shifted EXCEPT !.base[w.doc] = w.val]
           e == Event("done", w.doc, w.val, w.then)
<1>1. ClientOK(c, published) /\ c.pending # << >> /\ published \subseteq Papers
  BY HereOK DEF Acknowledge, Remote
<1>2. ClientOK(shifted, published) /\ w \in WriteType(published)
  BY <1>1, ShiftedOK
<1>3. w.doc \in Papers /\ w.val \in At(w.doc, published) /\ w.then \in ThenType
  BY <1>1, <1>2 DEF WriteType
<1>4. /\ server' = [server EXCEPT ![w.doc] = w.val]
      /\ client' = [client EXCEPT ![here] = IF w.then = NoCallback THEN acked ELSE Post(acked, e)]
  BY <1>1, <1>2 DEF Acknowledge, ClientOK, ClientType
<1> HIDE DEF w, shifted, c
<1>5. ClientOK(acked, published)
  BY <1>2, <1>3, BaseOK
<1>6. e \in EventType(published)
  BY <1>3, EventOK
<1> HIDE DEF acked, e
<1>7. ClientOK(Post(acked, e), published)
  BY <1>5, <1>6, PostOK
<1> DEFINE n == IF w.then = NoCallback THEN acked ELSE Post(acked, e)
<1>8. ClientOK(n, published)
  BY <1>5, <1>7
<1>9. client' = [client EXCEPT ![here] = n]
  BY <1>4
<1> HIDE DEF n
<1> QED BY <1>3, <1>4, <1>8, <1>9, RemoteStep

LEMMA RejectStep ==
  ASSUME Remote, published' = published, Reject(here)
  PROVE  Remote'
<1> DEFINE c == client[here]
           new == [c EXCEPT !.pending = Tail(@)]
           n == Notify(c, new, Head(c.pending).doc)
<1>1. ClientOK(c, published) /\ c.pending # << >> /\ published \subseteq Papers
  BY HereOK DEF Reject, Remote
<1>2. ClientOK(new, published) /\ Head(c.pending) \in WriteType(published)
  BY <1>1, ShiftedOK
<1>3. Head(c.pending).doc \in Papers
  BY <1>1, <1>2 DEF WriteType
<1>4. client' = [client EXCEPT ![here] = n] /\ server' = server
  BY DEF Reject
<1> HIDE DEF new, c
<1>5. ClientOK(n, published)
  BY <1>2, <1>3, NotifyOK
<1> HIDE DEF n
<1> QED BY <1>1, <1>4, <1>5, ClientStep

LEMMA WatchStep ==
  ASSUME Remote, published' = published, NEW p \in Papers, Watch(here, p)
  PROVE  Remote'
<1> DEFINE c == client[here]
           new == [c EXCEPT !.base[p] = server[p]]
           n == Received(c, p)
<1>1. /\ ClientOK(c, published) /\ published \subseteq Papers
      /\ server[p] \in At(p, published)
      /\ client' = [client EXCEPT ![here] = n] /\ server' = server
  BY HereOK DEF Watch, Remote
<1>2. ClientOK(new, published)
  BY <1>1, BaseOK
<1>3. n = IF p \in c.listening \ c.raised THEN PostSnapshot(new, p, View(new, p))
          ELSE Notify(c, new, p)
  BY DEF Received
<1> HIDE DEF n, new, c
<1>4. ClientOK(n, published)
  BY <1>2, <1>3, ViewOK, PostSnapshotOK, NotifyOK
<1> QED BY <1>1, <1>4, ClientStep

LEMMA OfflineSnapshotStep ==
  ASSUME Remote, published' = published, NEW p \in Papers, OfflineSnapshot(here, p)
  PROVE  Remote'
<1> DEFINE n == PostSnapshot(client[here], p, View(client[here], p))
<1>1. /\ ClientOK(client[here], published) /\ published \subseteq Papers
      /\ client' = [client EXCEPT ![here] = n] /\ server' = server
  BY HereOK DEF OfflineSnapshot, Remote
<1>2. ClientOK(n, published)
  BY <1>1, ViewOK, PostSnapshotOK
<1> HIDE DEF n
<1> QED BY <1>1, <1>2, ClientStep

LEMMA NetworkStep ==
  ASSUME IInv, Network
  PROVE  IInv'
<1>0. /\ Remote /\ Files /\ Held /\ Flags /\ Linked /\ Loading
      /\ UNCHANGED <<file, localPaper, serverPaper, screen, current, paperFrom,
                     isPaperLinkMade, signInWithModal, buttons, asked, editor, uploading,
                     publishing, user, currentUser, created, published, ops>>
  BY DEF IInv, Network, managers, shown, other, flags, card, people, history
<1>1. Remote'
  BY <1>0, AcknowledgeStep, RejectStep, WatchStep, OfflineSnapshotStep DEF Network
<1>2. Files' /\ Held' /\ Linked'
  BY <1>0, FilesKept, HeldKept, LinkedKept
<1>3. Flags' /\ Loading'
  BY <1>0 DEF Flags, Loading
<1> QED BY <1>1, <1>2, <1>3 DEF IInv

LEMMA ElsewhereStep ==
  ASSUME IInv, NEW p \in Papers, Elsewhere(p)
  PROVE  IInv'
<1>0. /\ Remote /\ Files /\ Held /\ Flags /\ Linked /\ Loading
      /\ server[p] # Absent /\ Perform("elsewhere")
      /\ UNCHANGED <<client, file, localPaper, serverPaper, screen, current, paperFrom,
                     isPaperLinkMade, signInWithModal, buttons, asked, editor, uploading,
                     publishing, user, currentUser, published>>
  BY DEF IInv, Elsewhere, managers, shown, other, flags, card, people
<1>1. Files' /\ Held' /\ Linked'
  BY <1>0, FilesKept, HeldKept, LinkedKept
<1>2. PICK v \in At(p, published), n \in SUBSET Cards :
        server' = [server EXCEPT ![p] = v] /\ created' = created \cup n
  <2>1. server[p] \in PaperModel /\ server[p].id = p /\ p \in published
    BY <1>0 DEF Remote, At
  <2>2. CASE \E c \in Cards \ created :
               /\ created' = created \cup {c}
               /\ server' = [server EXCEPT ![p].cards = @ \cup {c}]
    <3>1. PICK c \in Cards : /\ created' = created \cup {c}
                             /\ server' = [server EXCEPT ![p].cards = @ \cup {c}]
      BY <2>2
    <3> DEFINE v == [server[p] EXCEPT !.cards = @ \cup {c}]
    <3>2. v \in At(p, published)
      BY <2>1 DEF PaperModel, At
    <3>3. server' = [server EXCEPT ![p] = v]
      BY <3>1
    <3>4. {c} \in SUBSET Cards
      OBVIOUS
    <3> HIDE DEF v
    <3> QED BY <3>1, <3>2, <3>3, <3>4
  <2>3. CASE server' = [server EXCEPT ![p] = Absent] /\ UNCHANGED created
    <3>1. Absent \in At(p, published) /\ {} \in SUBSET Cards /\ created' = created \cup {}
      BY <2>3 DEF At
    <3> QED BY <2>3, <3>1
  <2> QED BY <2>2, <2>3 DEF Elsewhere
<1>3. Remote'
  <2>1. /\ server' \in [Papers -> Boards]
        /\ \A q \in Papers : server'[q] \in At(q, published')
    BY <1>0, <1>2, ValueIsBoard DEF Remote
  <2> QED BY <1>0, <2>1 DEF Remote
<1>4. Flags' /\ Loading'
  BY <1>0, <1>2, Performed DEF Flags, Loading
<1> QED BY <1>1, <1>3, <1>4 DEF IInv

-----------------------------------------------------------------------------
(* The invariant, and what follows from it                                 *)

LEMMA InitInvariant == Init => IInv
<1> SUFFICES ASSUME Init PROVE IInv
  OBVIOUS
<1>1. published \subseteq Papers /\ server = InitialServer
      /\ published = {p \in Papers : server[p] # Absent}
  BY DEF Init
<1>2. /\ server \in [Papers -> Boards] /\ \A p \in Papers : server[p] \in At(p, published)
  BY <1>1, WrittenPaperAssumption DEF Boards, At
<1>3. /\ client \in [Devices -> ClientType(published)]
      /\ ClientOK(client[here], published)
  <2>1. FreshClient(Papers) \in ClientType(published)
    <3>1. << >> \in Seq(WriteType(published)) /\ << >> \in Seq(EventType(published))
      OBVIOUS
    <3> QED BY <3>1 DEF FreshClient, ClientType, Boards
  <2>2. \A p \in Papers : FreshClient(Papers).base[p] \in At(p, published)
    BY DEF FreshClient, At
  <2>3. client = [d \in Devices |-> FreshClient(Papers)] /\ here \in Devices
    BY WrittenPaperAssumption DEF Init
  <2> QED BY <2>1, <2>2, <2>3 DEF ClientOK
<1>4. Remote
  BY <1>1, <1>2, <1>3 DEF Remote
<1>5. Files /\ Held /\ Linked /\ Loading
  BY DEF Init, Files, Held, Linked, Loading, Boards
<1>6. created \subseteq Papers \cup Cards
  <2>1. ASSUME NEW p \in published PROVE server[p].cards \subseteq Cards
    BY <1>1, <1>2 DEF At, PaperModel
  <2>2. created = published \cup UNION {server[p].cards : p \in published}
    BY DEF Init
  <2> QED BY <1>1, <2>1, <2>2
<1>7. << >> \in Seq(Publications(published))
  OBVIOUS
<1>8. NoRequest \in [from : {"none", "local", "server", "link"}, id : Papers \cup {Absent}]
  BY DEF NoRequest
<1>a. /\ screen = "closed" /\ paperFrom = "none" /\ isPaperLinkMade = FALSE
      /\ buttons = "none" /\ signInWithModal = FALSE /\ asked = NoRequest
      /\ editor = "none" /\ uploading = Absent /\ publishing = << >>
      /\ user \in Users \cup {Absent} /\ currentUser = Absent
  BY DEF Init
<1>b. ops \in 0..MaxOps
  BY WrittenPaperAssumption DEF Init
<1>9. Flags
  BY <1>6, <1>7, <1>8, <1>a, <1>b DEF Flags
<1> QED BY <1>4, <1>5, <1>9 DEF IInv

LEMMA NextInvariant == IInv /\ [Next]_vars => IInv'
<1> SUFFICES ASSUME IInv, [Next]_vars PROVE IInv'
  OBVIOUS
<1>1. CASE Opening
  BY <1>1, CreateStep, OpenStep, DeepLinkStep, FetchStep, ScreenStep DEF Opening
<1>2. CASE Editing
  BY <1>2, CreateCardStep, DeleteCardStep, CardUploadedStep, ScreenStep DEF Editing
<1>3. CASE Managing
  BY <1>3, ChangePaperTitleStep, StopPaperStep, DeletePaperStep, PaperDeletedStep, LeaveStep,
     LeftStep DEF Managing
<1>4. CASE Publishing
  BY <1>4, PaperShareStep, GiftTappedStep, LinkMadeStep, LinkFailedStep, CardPublishedStep,
     GiftPublishedStep DEF Publishing
<1>5. CASE \E u \in Users : ProfileChanged(u)
  BY <1>5, ProfileChangedStep
<1>6. CASE ProfileRemoved
  BY <1>6, ScreenStep
<1>7. CASE Restart
  <2>1. Ended /\ ops' \in 0..MaxOps
    BY <1>7, Performed DEF Restart, IInv
  <2> QED BY <2>1, EndedStep
<1>8. CASE Callback
  BY <1>8, CallbackStep
<1>9. CASE Network
  BY <1>9, NetworkStep
<1>10. CASE \E p \in Papers : Elsewhere(p)
  BY <1>10, ElsewhereStep
<1>11. CASE UNCHANGED vars
  <2>1. UNCHANGED <<server, client, file, localPaper, serverPaper, screen, current, paperFrom,
                    isPaperLinkMade, signInWithModal, buttons, asked, editor, uploading,
                    publishing, user, currentUser, created, published, ops>>
    BY <1>11 DEF vars, managers, shown, other, flags, card, people, history
  <2>2. Remote' /\ Files' /\ Held' /\ Linked'
    BY <2>1, RemoteKept, FilesKept, HeldKept, LinkedKept DEF IInv
  <2>3. Flags' /\ Loading'
    BY <2>1 DEF IInv, Flags, Loading
  <2> QED BY <2>2, <2>3 DEF IInv
<1> QED BY <1>1, <1>2, <1>3, <1>4, <1>5, <1>6, <1>7, <1>8, <1>9, <1>10, <1>11 DEF Next

(* What the server, the files, the publishers and the screen hold is       *)
(* consistent with what has been published, in every reachable state.      *)
THEOREM Invariant == Spec => []IInv
<1>1. IInv /\ [Next]_vars => IInv'
  BY NextInvariant
<1> QED BY InitInvariant, <1>1, PTL DEF Spec

(* Every place that holds a board of an identifier holds that board, for   *)
(* any boards, cards, titles and users: addPaper and setPaper of both      *)
(* managers, and what the view model writes to them.                       *)
THEOREM TypeCorrect == Spec => []TypeOK
<1>1. IInv => TypeOK
  <2> SUFFICES ASSUME IInv PROVE TypeOK
    OBVIOUS
  <2>0. Remote /\ Files /\ Held /\ Flags
    BY DEF IInv
  <2> DEFINE c == client[here]
  <2>1. /\ server \in [Papers -> Boards] /\ file \in [Papers -> Boards]
        /\ c.base \in [Papers -> Boards] /\ published \subseteq Papers
        /\ ClientOK(c, published)
    BY <2>0, HereOK, ClientTyped DEF Remote, Files
  <2>2. ASSUME NEW p \in Papers
        PROVE  {server[p], file[p]} \subseteq {Absent} \cup {b \in PaperModel : b.id = p}
    <3>1. server[p] \in {Absent} \cup {b \in PaperModel : b.id = p}
      BY <2>0 DEF Remote, At
    <3>2. file[p] \in {Absent} \cup {b \in PaperModel : b.id = p}
      BY <2>0, BoardsHeld DEF Files
    <3> QED BY <3>1, <3>2
  <2>3. ASSUME NEW i \in DOMAIN c.pending
        PROVE  /\ c.pending[i].doc \in Papers
               /\ c.pending[i].val # Absent
                    => c.pending[i].val \in PaperModel /\ c.pending[i].val.id = c.pending[i].doc
    <3>1. c.pending \in Seq(WriteType(published))
      BY <2>1, ClientTyped
    <3>2. c.pending[i] \in WriteType(published)
      BY <3>1, LenProperties, ElementOfSeq
    <3> QED BY <2>1, <3>2 DEF WriteType, At
  <2>4. ASSUME NEW i \in DOMAIN c.inbox
        PROVE  c.inbox[i].val \in Boards
    <3>1. c.inbox \in Seq(EventType(published))
      BY <2>1, ClientTyped
    <3>2. c.inbox[i] \in EventType(published)
      BY <3>1, LenProperties, ElementOfSeq
    <3> QED BY <3>2 DEF EventType
  <2>5. {localPaper, serverPaper, current} \subseteq Boards
    BY <2>0, BoardsHeld DEF Held, Boards
  <2>6. publishing \in Seq([own : BOOLEAN, kind : {"share", "gift"}, paper : PaperModel,
                            uploaded : SUBSET Cards, linking : BOOLEAN])
    <3>1. Publications(published)
            \subseteq [own : BOOLEAN, kind : {"share", "gift"}, paper : PaperModel,
                       uploaded : SUBSET Cards, linking : BOOLEAN]
      BY BoardsHeld DEF Publications
    <3> QED BY <2>0, <3>1, SeqMonotonic DEF Flags
  <2> HIDE DEF c
  <2>7. \A w \in {c.pending[i] : i \in DOMAIN c.pending} :
          w.doc \in Papers /\ (w.val # Absent => w.val \in PaperModel /\ w.val.id = w.doc)
    BY <2>3
  <2>8. \A i \in DOMAIN c.inbox : c.inbox[i].val \in Boards
    BY <2>4
  <2>9. \A p \in Papers : {server[p], file[p]} \subseteq {Absent} \cup {b \in PaperModel : b.id = p}
    BY <2>2
  <2>10. /\ \A w \in {client[here].pending[i] : i \in DOMAIN client[here].pending} :
              w.doc \in Papers /\ (w.val # Absent => w.val \in PaperModel /\ w.val.id = w.doc)
         /\ \A i \in DOMAIN client[here].inbox : client[here].inbox[i].val \in Boards
         /\ client[here].base \in [Papers -> Boards]
    BY <2>1, <2>7, <2>8 DEF c
  <2>11. /\ screen \in {"closed", "loading", "board", "covered", "deleted", "popping", "leaving"}
         /\ paperFrom \in {"none", "local", "server"} /\ editor \in {"none", "local", "server"}
         /\ buttons \in {"none", "guest", "owner", "stopped"}
         /\ isPaperLinkMade \in BOOLEAN /\ signInWithModal \in BOOLEAN
         /\ asked \in [from : {"none", "local", "server", "link"}, id : Papers \cup {Absent}]
         /\ uploading \in Cards \cup {Absent}
         /\ user \in Users \cup {Absent} /\ currentUser \in Users \cup {Absent}
         /\ created \subseteq Papers \cup Cards /\ ops \in 0..MaxOps
    BY <2>0 DEF Flags
  <2> QED BY <2>1, <2>5, <2>6, <2>9, <2>10, <2>11, Zenon DEF TypeOK
<1> QED BY <1>1, Invariant, PTL

(* A board that nobody has published or made a gift of is on the device    *)
(* only, whatever was published from the same screen or the one before:    *)
(* isPaperLinkMade, WrittenPaperViewModel.swift:26, 265, 276, 307.         *)
THEOREM UnsharedIsHere == Spec => []UnsharedStaysHere
<1>1. IInv => UnsharedStaysHere
  <2> SUFFICES ASSUME IInv, NEW p \in Papers \ published
               PROVE  server[p] = Absent /\ PendingOn(client[here], p) = {}
    BY DEF UnsharedStaysHere
  <2>1. Remote
    BY DEF IInv
  <2>2. server[p] = Absent
    BY <2>1 DEF Remote, At
  <2>3. client[here].pending \in Seq(WriteType(published))
    BY <2>1, HereOK, ClientTyped
  <2>4. \A i \in 1..Len(client[here].pending) : client[here].pending[i].doc \in published
    BY <2>3, ElementOfSeq DEF WriteType
  <2> QED BY <2>2, <2>4 DEF PendingOn
<1> QED BY <1>1, Invariant, PTL

(* A board goes to the server with all the cards that it had when its      *)
(* button was tapped, whichever order its uploads are answered in:         *)
(* getServerSidePaper, WrittenPaperViewModel.swift:368-406.                *)
THEOREM IsPublishedWhole == Spec => PublishedWhole
<1>1. ASSUME IInv, NEW i \in DOMAIN publishing,
             LinkMade(i) \/ \E g \in Papers : GiftPublished(i, g)
      PROVE  serverPaper'.cards = publishing[i].paper.cards
  <2> DEFINE n == publishing[i]
  <2>1. n \in Publications(published)
    BY <1>1, UnderWay
  <2>2. n.uploaded = n.paper.cards
    BY <1>1, <2>1, PublicationTyped DEF LinkMade, GiftPublished
  <2>3. serverPaper' \in {[n.paper EXCEPT !.cards = n.uploaded],
                          [n.paper EXCEPT !.cards = n.uploaded, !.link = TRUE]}
    BY <1>1 DEF LinkMade, GiftPublished, AddPaper, Publish
  <2> HIDE DEF n
  <2>4. n.paper.id \in {n.paper.id}
    OBVIOUS
  <2>5. serverPaper'.cards = n.uploaded
    BY <2>1, <2>3, <2>4, UploadedBoard
  <2> QED BY <2>2, <2>5 DEF n
<1>2. IInv /\ [Next]_vars =>
        [\A i \in DOMAIN publishing :
           (LinkMade(i) \/ \E g \in Papers : GiftPublished(i, g))
             => serverPaper'.cards = publishing[i].paper.cards]_vars
  BY <1>1
<1> QED BY <1>2, Invariant, PTL DEF Spec, PublishedWhole

-----------------------------------------------------------------------------
(* What is on the screen                                                   *)

LEMMA PublishFollows ==
  ASSUME NEW l, NEW s, Publish(l, s), screen' = screen
  PROVE  ScreenFollows'
BY DEF Publish, ScreenFollows, Latest, Source, Attached

LEMMA NewScreenFollows ==
  ASSUME NEW l, NewScreen(l)
  PROVE  ScreenFollows'
<1>1. /\ screen' = "loading" /\ localPaper' = l
      /\ current' = Latest(l, serverPaper)
      /\ paperFrom' = IF serverPaper # Absent THEN "server" ELSE IF l # Absent THEN "local" ELSE "none"
      /\ serverPaper' = serverPaper
  BY DEF NewScreen
<1> QED BY <1>1 DEF ScreenFollows, Latest

(* A screen that stays attached, or is detached, to what it has.           *)
LEMMA FollowsKept ==
  ASSUME ScreenFollows, UNCHANGED <<localPaper, serverPaper, current, paperFrom>>,
         Attached' => Attached
  PROVE  ScreenFollows'
BY DEF ScreenFollows, Latest

LEMMA EmptyFollows ==
  ASSUME current' = Absent
  PROVE  ScreenFollows'
BY DEF ScreenFollows

LEMMA PublishingFollows ==
  ASSUME IInv, ScreenFollows, Publishing
  PROVE  ScreenFollows'
<1>1. ASSUME NEW i \in DOMAIN publishing, LinkMade(i) PROVE ScreenFollows'
  BY <1>1, PublishFollows DEF LinkMade, AddPaper
<1>2. ASSUME NEW i \in DOMAIN publishing, NEW g \in Papers, GiftPublished(i, g) PROVE ScreenFollows'
  BY <1>2, PublishFollows DEF GiftPublished, AddPaper
<1>3. CASE \/ PaperShare
           \/ \E g \in Papers : GiftTapped(g)
           \/ \E i \in DOMAIN publishing : LinkFailed(i)
           \/ \E i \in DOMAIN publishing, c \in Cards : CardPublished(i, c)
  <2>1. UNCHANGED <<localPaper, serverPaper, current, paperFrom, screen>>
    BY <1>3 DEF PaperShare, GiftTapped, LinkFailed, CardPublished, managers, shown
  <2> QED BY <2>1, FollowsKept DEF Attached
<1> QED BY <1>1, <1>2, <1>3 DEF Publishing

LEMMA OpeningFollows ==
  ASSUME IInv, ScreenFollows, Opening
  PROVE  ScreenFollows'
<1>1. ASSUME NEW p \in Papers, DeepLink(p) PROVE ScreenFollows'
  BY <1>1, NewScreenFollows DEF DeepLink
<1>2. ASSUME NEW p \in Papers, NEW from \in {"local", "server"}, Open(p, from) PROVE ScreenFollows'
  BY <1>2, NewScreenFollows DEF Open
<1>3. ASSUME NEW p \in Papers, NEW t \in Titles, Create(p, t) PROVE ScreenFollows'
  BY <1>3, NewScreenFollows DEF Create
<1>4. CASE Fetch
  <2>1. screen = "loading" /\ screen' = screen
    BY <1>4 DEF Fetch, IInv, Loading
  <2>2. CASE asked.from = "server"
    <3>1. UNCHANGED <<localPaper, serverPaper, current, paperFrom>>
      BY <1>4, <2>2 DEF Fetch, shown
    <3> QED BY <2>1, <3>1, FollowsKept DEF Attached
  <2>3. CASE asked.from # "server"
    <3>1. Publish(Loaded(asked.id, localPaper), serverPaper)
      BY <1>4, <2>3 DEF Fetch
    <3> QED BY <2>1, <3>1, PublishFollows
  <2> QED BY <2>2, <2>3
<1>5. CASE UserSeen \/ Draw \/ Tick \/ Cover \/ Uncover
  <2>1. UNCHANGED <<localPaper, serverPaper, current, paperFrom>> /\ (Attached' => Attached)
    BY <1>5 DEF UserSeen, Draw, Tick, Cover, Uncover, managers, shown, Attached
  <2> QED BY <2>1, FollowsKept DEF Attached
<1> QED BY <1>1, <1>2, <1>3, <1>4, <1>5 DEF Opening

LEMMA EndedFollows ==
  ASSUME Ended
  PROVE  ScreenFollows'
BY EmptyFollows DEF Ended

LEMMA EditingFollows ==
  ASSUME IInv, ScreenFollows, Editing
  PROVE  ScreenFollows'
<1>1. CASE OpenEditor \/ CloseEditor \/ CardUploaded \/ UploadFailed
  <2>1. UNCHANGED <<localPaper, serverPaper, current, paperFrom, screen>>
    BY <1>1 DEF OpenEditor, CloseEditor, CardUploaded, UploadFailed, managers, shown
  <2> QED BY <2>1, FollowsKept DEF Attached
<1>2. ASSUME NEW c \in Cards, CreateCard(c) PROVE ScreenFollows'
  <2>0. screen' = screen
    BY <1>2 DEF CreateCard
  <2>1. CASE localPaper # Absent
             /\ Publish([localPaper EXCEPT !.cards = @ \cup {c}], serverPaper)
    BY <2>0, <2>1, PublishFollows
  <2>2. CASE UNCHANGED <<localPaper, serverPaper, shown>>
    BY <2>0, <2>2, FollowsKept DEF shown, Attached
  <2> QED BY <1>2, <2>1, <2>2 DEF CreateCard
<1>3. ASSUME NEW c \in Cards, DeleteCard(c) PROVE ScreenFollows'
  <2>1. CASE Ended
    BY <2>1, EndedFollows
  <2>2. CASE Publish([localPaper EXCEPT !.cards = @ \ {c}], serverPaper) /\ screen' = screen
    BY <2>2, PublishFollows
  <2> QED BY <1>3, <2>1, <2>2 DEF DeleteCard
<1> QED BY <1>1, <1>2, <1>3 DEF Editing

(* A new title, or the end of the board, is of the board on the screen.    *)
LEMMA EditedFollows ==
  ASSUME ScreenFollows, Attached, current # Absent, current' # Absent,
         current'.id = current.id, current'.cards = current.cards,
         UNCHANGED <<localPaper, serverPaper, paperFrom, screen>>
  PROVE  ScreenFollows'
BY DEF ScreenFollows, Attached, Latest

LEMMA ManagingFollows ==
  ASSUME IInv, ScreenFollows, Managing
  PROVE  ScreenFollows'
<1>0. current # Absent => current \in DeviceBoards(published)
  BY DEF IInv, Held
<1>1. ASSUME NEW t \in Titles, ChangePaperTitle(t) PROVE ScreenFollows'
  <2> DEFINE b == [current EXCEPT !.title = t]
  <2>1. /\ current # Absent /\ Attached /\ current' = b
        /\ UNCHANGED <<localPaper, serverPaper, paperFrom, screen>>
    BY <1>1 DEF ChangePaperTitle, Idle, Attached
  <2>2. b \in DeviceBoards(published) /\ b.id = current.id
    BY <1>0, <2>1, EditedBoard
  <2>3. b.cards = current.cards
    BY <1>0, <2>1 DEF DeviceBoards, PaperModel
  <2> HIDE DEF b
  <2>4. b # Absent
    BY <2>2, BoardsHeld
  <2> QED BY <2>1, <2>2, <2>3, <2>4, EditedFollows
<1>2. CASE StopPaper
  <2> DEFINE b == [current EXCEPT !.ended = TRUE]
  <2>1. /\ current # Absent /\ Attached /\ current' = b
        /\ UNCHANGED <<localPaper, serverPaper, paperFrom, screen>>
    BY <1>2 DEF StopPaper, Idle, Attached
  <2>2. b \in DeviceBoards(published) /\ b.id = current.id
    BY <1>0, <2>1, EditedBoard
  <2>3. b.cards = current.cards
    BY <1>0, <2>1 DEF DeviceBoards, PaperModel
  <2> HIDE DEF b
  <2>4. b # Absent
    BY <2>2, BoardsHeld
  <2> QED BY <2>1, <2>2, <2>3, <2>4, EditedFollows
<1>3. CASE DeletePaper
  BY <1>3, EmptyFollows DEF DeletePaper
<1>4. CASE PaperDeleted
  <2>1. CASE current = Absent
    BY <1>4, <2>1, EmptyFollows DEF PaperDeleted, Pop, shown
  <2>2. CASE current # Absent
    BY <1>4, <2>2, EmptyFollows DEF PaperDeleted, Clean
  <2> QED BY <2>1, <2>2
<1>5. CASE Leave
  <2>1. CASE current = Absent
    BY <1>5, <2>1, EmptyFollows DEF Leave, Pop, shown
  <2>2. CASE current # Absent
    BY <1>5, <2>2, EmptyFollows DEF Leave, Clean
  <2> QED BY <2>1, <2>2
<1>6. CASE Left
  BY <1>6, EmptyFollows DEF Left
<1> QED BY <1>1, <1>2, <1>3, <1>4, <1>5, <1>6 DEF Managing

LEMMA ProfileChangedFollows ==
  ASSUME IInv, ScreenFollows, NEW u \in Users, ProfileChanged(u)
  PROVE  ScreenFollows'
<1> DEFINE local == IF signInWithModal /\ current.creator = Absent
                      THEN [current EXCEPT !.creator = u] ELSE Loaded(current.id, localPaper)
<1>1. screen' = screen
  BY DEF ProfileChanged
<1>2. CASE Attached /\ current # Absent
  <2>1. Publish(local, serverPaper)
    BY <1>2 DEF ProfileChanged
  <2> HIDE DEF local
  <2> QED BY <1>1, <2>1, PublishFollows
<1>3. CASE ~(Attached /\ current # Absent)
  BY <1>1, <1>3, FollowsKept DEF ProfileChanged, managers, shown, Attached
<1> QED BY <1>2, <1>3

LEMMA NextFollows == IInv /\ ScreenFollows /\ [Next]_vars => ScreenFollows'
<1> SUFFICES ASSUME IInv, ScreenFollows, [Next]_vars PROVE ScreenFollows'
  OBVIOUS
<1>1. CASE Opening
  BY <1>1, OpeningFollows
<1>2. CASE Editing
  BY <1>2, EditingFollows
<1>3. CASE Managing
  BY <1>3, ManagingFollows
<1>4. CASE Publishing
  BY <1>4, PublishingFollows
<1>5. CASE \E u \in Users : ProfileChanged(u)
  BY <1>5, ProfileChangedFollows
<1>6. CASE Restart
  BY <1>6, EndedFollows DEF Restart
<1>7. CASE Callback
  BY <1>7, PublishFollows DEF Callback
<1>8. CASE ProfileRemoved \/ Network \/ (\E p \in Papers : Elsewhere(p)) \/ UNCHANGED vars
  <2>1. UNCHANGED <<localPaper, serverPaper, current, paperFrom, screen>>
    BY <1>8 DEF ProfileRemoved, Network, Elsewhere, vars, managers, shown
  <2> QED BY <2>1, FollowsKept DEF Attached
<1> QED BY <1>1, <1>2, <1>3, <1>4, <1>5, <1>6, <1>7, <1>8 DEF Next

LEMMA InitFollows == Init => ScreenFollows
BY DEF Init, ScreenFollows

(* The board on the screen is the one that the next card will be added to, *)
(* by the manager that the editor will be told, and has its cards:         *)
(* setCurrentPaper, WrittenPaperViewModel.swift:72-93, against the other   *)
(* places that set the board or a publisher.                               *)
THEOREM ScreenIsFollowing == Spec => []ScreenFollows
<1>1. IInv /\ ScreenFollows /\ [Next]_vars => ScreenFollows'
  BY NextFollows
<1> QED BY InitFollows, <1>1, Invariant, PTL DEF Spec
=============================================================================
