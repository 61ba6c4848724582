---------------------------- MODULE WrittenPaper ----------------------------
(***************************************************************************)
(* One board on the screen of one device, between the two database         *)
(* managers: the view model and controller of the board, the editor of a   *)
(* new card above it, and how boards are opened, left, published, turned   *)
(* into gifts and deleted.                                                 *)
(*                                                                         *)
(* The server manager is here what the board sees of it: its publisher and *)
(* its calls of the Firestore client, whose documents are the boards; the  *)
(* previews and the users' lists, which FirestoreManager has, change       *)
(* nothing on this screen.  The local manager is its publisher and a file  *)
(* for each board.  Other devices change the backend's boards at any time. *)
(*                                                                         *)
(* The taps of the user come after what the tap before put on a queue of   *)
(* this device; answers of the network come whenever they do.              *)
(***************************************************************************)
EXTENDS FirestoreClient, FiniteSets

CONSTANTS
  here,           \* the device
  Papers, Cards, Titles, Users,
  InitialServer,  \* the boards on the server at first
  Ops,            \* the operations that are performed
  MaxOps          \* bound: how many operations are performed in all

AllOps == {"create", "open", "deepLink", "card", "removeCard", "title", "stop",
           "delete", "share", "gift", "profile", "sidebar", "elsewhere", "restart"}

(* A board; stopPaper ends one, and a published one may have a link.       *)
PaperModel == [id : Papers, cards : SUBSET Cards, title : Titles, ended : BOOLEAN,
               link : BOOLEAN, creator : Users \cup {Absent}]

ASSUME WrittenPaperAssumption ==
  /\ Devices = {here}
  /\ Absent \notin Papers \cup Users \cup PaperModel
  /\ InitialServer \in [Papers -> PaperModel \cup {Absent}]
  /\ \A p \in Papers : InitialServer[p] # Absent => InitialServer[p].id = p
  /\ Ops \subseteq AllOps /\ MaxOps \in Nat

VARIABLES
  file,         \* file[p]: the board p in the files of the device
  localPaper,   \* localDatabaseManager.paperSubject.value
  serverPaper,  \* serverDatabaseManager.paperSubject.value
  screen,       \* see Attached: "closed", "loading", "board", "covered", ...
  current,      \* currentPaperPublisher.value
  paperFrom,    \* "none", "local" or "server"
  isPaperLinkMade,
  buttons,      \* those drawn last: "none", "guest", "owner" or "stopped"
  signInWithModal,
  asked,        \* the board selected in the list that is yet to be fetched
  editor,       \* "none", or for which manager its card is
  uploading,    \* the card whose image is on its way, or Absent
  publishing,   \* the boards on their way to the server
  user,         \* userProfileSubject.value
  currentUser,  \* what the view model knows of it
  created,      \* history: the identifiers in use
  published,    \* history: the boards that have been on the server
  ops           \* operations performed so far

managers == <<file, localPaper, serverPaper>>
shown    == <<current, paperFrom>>
flags    == <<isPaperLinkMade, signInWithModal>>
card     == <<editor, uploading>>
people   == <<user, currentUser>>
history  == <<created, published>>
other    == <<flags, buttons, asked, card, publishing>>
vars == <<server, client, managers, screen, shown, other, people, history, ops>>

NoRequest == [from |-> "none", id |-> Absent]

Init ==
  /\ server = InitialServer
  /\ client = [d \in Devices |-> FreshClient(Papers)]
  /\ file = [p \in Papers |-> Absent]
  /\ localPaper = Absent /\ serverPaper = Absent
  /\ screen = "closed" /\ current = Absent /\ paperFrom = "none"
  /\ isPaperLinkMade = FALSE /\ buttons = "none" /\ signInWithModal = FALSE
  /\ asked = NoRequest /\ editor = "none" /\ uploading = Absent /\ publishing = << >>
  /\ user \in Users \cup {Absent} /\ currentUser = Absent
  /\ published = {p \in Papers : server[p] # Absent}
  /\ created = published \cup UNION {server[p].cards : p \in published}
  /\ ops = 0

Perform(op) ==
  /\ op \in Ops
  /\ ops < MaxOps
  /\ ops' = ops + 1

(* Bound: a step that only prepares another operation takes place while    *)
(* one may follow.                                                         *)
MayFollow == ops < MaxOps

-----------------------------------------------------------------------------
(* The board on the screen when the publishers hold local and srv.         *)
Latest(local, srv) == IF srv # Absent THEN srv ELSE local

Source(local, srv) ==
  IF srv # Absent THEN "server" ELSE IF local # Absent THEN "local" ELSE paperFrom

(* setCurrentPaper's closure runs with every change of either publisher,   *)
(* from the controller's first load to the cleaning of the publishers. The *)
(* board may be covered by another section of the sidebar, and where there *)
(* was nothing to clean it stays attached while the screen is popping.     *)
Attached == screen \in {"loading", "board", "covered", "deleted", "popping"}

(* Mutant: each publisher puts its board on the screen when it changes, as *)
(* in GiftPaperViewModel.                                                  *)
PublishEach(local, srv) ==
  /\ localPaper' = local
  /\ serverPaper' = srv
  /\ IF ~Attached THEN UNCHANGED shown
     ELSE IF local # localPaper /\ local # Absent
       THEN current' = local /\ paperFrom' = "local"
     ELSE current' = Latest(local, srv) /\ paperFrom' = Source(local, srv)

Publish(local, srv) ==
  /\ localPaper' = local
  /\ serverPaper' = srv
  /\ IF Attached THEN current' = Latest(local, srv) /\ paperFrom' = Source(local, srv)
                 ELSE UNCHANGED shown

(* fetchPaper of the local manager: a board without a file is an error.    *)
Loaded(p, otherwise) == IF file[p] # Absent THEN file[p] ELSE otherwise

Put(c, paper) == Write(c, paper.id, paper, NoCallback)

PutIf(condition, c, paper) == IF condition THEN Put(c, paper) ELSE c

Saved(paper) == [file EXCEPT ![paper.id] = paper]

(* The buttons for a board.                                                *)
ButtonsFor(paper) ==
  IF paper = Absent THEN buttons
  ELSE IF paper.ended THEN "stopped"
  ELSE IF paper.creator # Absent /\ paper.creator = currentUser THEN "owner" ELSE "guest"

(* Publications that are no longer of the screen in front: a controller    *)
(* that was shown is kept by its list of cards, and goes on publishing.    *)
Disowned(list) == [i \in DOMAIN list |-> [list[i] EXCEPT !.own = FALSE]]

(* Mutant: the view model of the last board is used again.                 *)
NewScreenReusing(local) ==
  /\ screen' = "loading"
  /\ localPaper' = local
  /\ current' = Latest(local, serverPaper)
  /\ paperFrom' = IF serverPaper # Absent THEN "server" ELSE IF local # Absent THEN "local" ELSE "none"
  /\ buttons' = "none" /\ signInWithModal' = FALSE
  /\ editor' = "none" /\ uploading' = Absent /\ publishing' = Disowned(publishing)
  /\ currentUser' = Absent
  /\ UNCHANGED <<serverPaper, isPaperLinkMade>>

(* A new view model and controller.  What the publishers hold is on screen *)
(* at once, whichever board that is.                                       *)
NewScreen(local) ==
  /\ screen' = "loading"
  /\ localPaper' = local
  /\ current' = Latest(local, serverPaper)
  /\ paperFrom' = IF serverPaper # Absent THEN "server" ELSE IF local # Absent THEN "local" ELSE "none"
  /\ isPaperLinkMade' = FALSE /\ buttons' = "none" /\ signInWithModal' = FALSE
  /\ editor' = "none" /\ uploading' = Absent /\ publishing' = Disowned(publishing)
  /\ currentUser' = Absent
  /\ UNCHANGED serverPaper

-----------------------------------------------------------------------------
(* Opening a board                                                         *)

(* Another screen is in front, with no board or with one in its section.   *)
OnOtherScreen == screen = "closed" \/ (screen = "covered" /\ editor = "none")

(* A board that is covered stays below the new one.                        *)
Create(p, title) ==
  LET paper == [id |-> p, cards |-> {}, title |-> title, ended |-> FALSE,
                link |-> FALSE, creator |-> user]
  IN  /\ OnOtherScreen /\ Perform("create")
      /\ p \notin created
      /\ created' = created \cup {p}
      /\ file' = Saved(paper)
      /\ NewScreen(paper)
      /\ UNCHANGED <<server, client, asked, user, published>>

(* A board is selected in the list, where it is the server's or the        *)
(* device's, for the list may not have the server's preview yet.           *)
Open(p, from) ==
  /\ screen = "closed" /\ Perform("open")
  /\ \/ from = "server" /\ server[p] # Absent /\ server[p].creator = user
     \/ from = "local" /\ file[p] # Absent /\ file[p].creator \in {Absent, user}
  /\ asked' = [from |-> from, id |-> p]
  /\ NewScreen(localPaper)
  /\ UNCHANGED <<server, client, file, user, history>>

(* A link opens a board from anywhere; the board that was on the screen is *)
(* dropped as it is.                                                       *)
DeepLink(p) ==
  /\ OnOtherScreen \/ screen = "board"
  /\ Perform("deepLink")
  /\ server[p] # Absent
  /\ asked' = [from |-> "link", id |-> p]
  /\ NewScreen(localPaper)
  /\ UNCHANGED <<server, client, file, user, history>>

(* By the list, or by the link, from both databases, once the new screen   *)
(* has been pushed.                                                        *)
Fetch ==
  /\ asked # NoRequest
  /\ asked' = NoRequest
  /\ IF asked.from = "server" THEN UNCHANGED <<localPaper, serverPaper, shown>>
     ELSE Publish(Loaded(asked.id, localPaper), serverPaper)
  /\ client' = [client EXCEPT ![here] =
       IF asked.from = "local" THEN @ ELSE Listen(@, asked.id)]
  /\ UNCHANGED <<server, file, screen, flags, buttons, card, publishing, people, history, ops>>

(* The view model learns of the user on a background queue.                *)
UserSeen ==
  /\ Attached /\ currentUser # user
  /\ currentUser' = user
  /\ UNCHANGED <<server, client, managers, screen, shown, other, user, history, ops>>

(* The board is drawn half a second after it has arrived.                  *)
Draw ==
  /\ screen = "loading" /\ current # Absent
  /\ asked = NoRequest /\ currentUser = user
  /\ screen' = "board"
  /\ buttons' = ButtonsFor(current)
  /\ UNCHANGED <<server, client, managers, shown, flags, asked, card, publishing, people,
                 history, ops>>

(* The timer redraws the buttons of a board that has ended.                *)
Tick ==
  /\ screen = "board" /\ editor = "none"
  /\ current # Absent /\ current.ended
  /\ buttons # "stopped" /\ buttons' = "stopped"
  /\ UNCHANGED <<server, client, managers, screen, shown, flags, asked, card, publishing,
                 people, history, ops>>

(* The sidebar shows another section, and the board's again.               *)
Cover ==
  /\ screen = "board" /\ Perform("sidebar")
  /\ screen' = "covered"
  /\ UNCHANGED <<server, client, managers, shown, other, people, history>>

Uncover ==
  /\ screen = "covered" /\ screen' = "board"
  /\ UNCHANGED <<server, client, managers, shown, other, people, history, ops>>

-----------------------------------------------------------------------------
(* Cards                                                                   *)

Idle == screen = "board" /\ editor = "none"

OpenEditor ==
  /\ Idle /\ current # Absent /\ buttons \in {"guest", "owner"}
  /\ "card" \in Ops /\ MayFollow
  /\ editor' = paperFrom
  /\ UNCHANGED <<server, client, managers, screen, shown, flags, buttons, asked, uploading,
                 publishing, people, history, ops>>

(* The user goes back: a card whose image is on its way is dropped.        *)
CloseEditor ==
  /\ screen = "board" /\ editor # "none"
  /\ editor' = "none" /\ uploading' = Absent
  /\ UNCHANGED <<server, client, managers, screen, shown, flags, buttons, asked,
                 publishing, people, history, ops>>

(* With the device's board gone, the editor just stays.                    *)
CreateCard(c) ==
  /\ screen = "board" /\ editor # "none" /\ uploading = Absent /\ Perform("card")
  /\ c \notin created
  /\ created' = created \cup {c}
  /\ \/ /\ editor = "local" /\ localPaper # Absent
        /\ Publish([localPaper EXCEPT !.cards = @ \cup {c}], serverPaper)
        /\ editor' = "none" /\ UNCHANGED uploading
     \/ /\ editor = "server"
        /\ uploading' = c
        /\ UNCHANGED <<localPaper, serverPaper, shown, editor>>
  /\ UNCHANGED <<server, client, file, screen, flags, buttons, asked, publishing, people,
                 published>>

(* Its image uploaded, the card goes to the board that is open by now.     *)
CardUploaded ==
  /\ uploading # Absent
  /\ uploading' = Absent /\ editor' = "none"
  /\ client' = [client EXCEPT ![here] =
       IF serverPaper = Absent THEN @
       ELSE Write(@, serverPaper.id, [serverPaper EXCEPT !.cards = @ \cup {uploading}],
                  Then("addCard", Absent))]
  /\ UNCHANGED <<server, managers, screen, shown, flags, buttons, asked, publishing,
                 people, history, ops>>

UploadFailed ==
  /\ uploading # Absent
  /\ uploading' = Absent
  /\ UNCHANGED <<server, client, managers, screen, shown, flags, buttons, asked, editor,
                 publishing, people, history, ops>>

(* The process ends, and with it all that is in no file and no document.   *)
Ended ==
  /\ client' = [client EXCEPT ![here] = Restarted(@)]
  /\ localPaper' = Absent /\ serverPaper' = Absent
  /\ screen' = "closed" /\ current' = Absent /\ paperFrom' = "none"
  /\ isPaperLinkMade' = FALSE /\ buttons' = "none" /\ signInWithModal' = FALSE
  /\ asked' = NoRequest /\ editor' = "none" /\ uploading' = Absent /\ publishing' = << >>
  /\ user' = Absent /\ currentUser' = Absent
  /\ UNCHANGED <<server, file, history>>

Restart == Perform("restart") /\ Ended

(* The identifier that is passed on is always empty: the local manager     *)
(* ignores it, for the server's the client raises an exception.            *)
DeleteCard(c) ==
  /\ Idle /\ current # Absent /\ c \in current.cards /\ Perform("removeCard")
  /\ \/ paperFrom = "server" /\ Ended
     \/ /\ paperFrom = "local" /\ localPaper # Absent
        /\ Publish([localPaper EXCEPT !.cards = @ \ {c}], serverPaper)
        /\ UNCHANGED <<server, client, file, screen, other, people, history>>

-----------------------------------------------------------------------------
(* Managing the board                                                      *)

ChangePaperTitle(t) ==
  LET paper == [current EXCEPT !.title = t]
  IN  /\ Idle /\ buttons = "owner" /\ current # Absent /\ Perform("title")
      /\ current' = paper
      /\ client' = [client EXCEPT ![here] = PutIf(isPaperLinkMade, @, paper)]
      /\ file' = IF isPaperLinkMade THEN file ELSE Saved(paper)
      /\ UNCHANGED <<server, localPaper, serverPaper, screen, paperFrom, other, people,
                     history>>

StopPaper ==
  LET paper == [current EXCEPT !.ended = TRUE]
  IN  /\ Idle /\ buttons = "owner" /\ current # Absent /\ Perform("stop")
      /\ current' = paper
      /\ client' = [client EXCEPT ![here] = PutIf(isPaperLinkMade, @, paper)]
      /\ file' = Saved(paper)
      /\ buttons' = "stopped"
      /\ UNCHANGED <<server, localPaper, serverPaper, screen, paperFrom, flags, asked,
                     card, publishing, people, history>>

(* A board that is on the server is removed from it only if its link was   *)
(* made on this very screen; the screen is left by a later event.          *)
DeletePaper ==
  /\ Idle /\ buttons = "owner" /\ current # Absent /\ Perform("delete")
  /\ file' = [file EXCEPT ![current.id] = Absent]
  /\ localPaper' = Absent
  /\ serverPaper' = IF isPaperLinkMade THEN Absent ELSE serverPaper
  /\ client' = [client EXCEPT ![here] =
       IF isPaperLinkMade THEN Write(@, current.id, Absent, NoCallback) ELSE @]
  /\ current' = Absent
  /\ screen' = "deleted"
  /\ UNCHANGED <<server, paperFrom, other, people, history>>

(* cleanPaperPublisher on a client and the files: the board that is left,  *)
(* if it has a link, is written to the server and to the device.           *)
Cleaned(c) == PutIf(current.link, c, current)

(* With the subscriptions of the view model gone, of what is being         *)
(* published only the boards whose link is being made go on.               *)
Unsubscribed ==
  LET linking == {i \in DOMAIN publishing : publishing[i].linking}
      n       == Cardinality(linking)
  IN  \E f \in [1..n -> linking] :
        /\ \A i, j \in 1..n : i < j => f[i] < f[j]
        /\ publishing' = Disowned([i \in 1..n |-> publishing[f[i]]])

(* Leaving with a board on the screen.                                     *)
Clean ==
  /\ screen' = "leaving"
  /\ localPaper' = Absent /\ serverPaper' = Absent /\ current' = Absent
  /\ UNCHANGED paperFrom
  /\ Unsubscribed

(* Without one the publishers are not cleaned, nor are the subscriptions.  *)
Pop == screen' = "popping" /\ UNCHANGED <<client, managers, shown, publishing>>

PaperDeleted ==
  /\ screen = "deleted"
  /\ IF current = Absent THEN Pop
     ELSE /\ client' = [client EXCEPT ![here] = Cleaned(@)]
          /\ file' = IF current.link THEN Saved(current) ELSE file
          /\ Clean
  /\ UNCHANGED <<server, flags, buttons, asked, card, people, history, ops>>

(* moveToPaperStorageView, then cleanPaperPublisher.                       *)
Leave ==
  /\ Idle
  /\ signInWithModal' = FALSE
  /\ IF current = Absent THEN Pop
     ELSE /\ client' = [client EXCEPT ![here] = Cleaned(PutIf(isPaperLinkMade, @, current))]
          /\ file' = Saved(current)
          /\ Clean
  /\ UNCHANGED <<server, isPaperLinkMade, buttons, asked, card, people, history, ops>>

(* The transition ends, and with it the last subscriptions.  What came on  *)
(* the screen meanwhile stays with the publishers.                         *)
Left ==
  /\ screen \in {"leaving", "popping"} /\ MayFollow
  /\ screen' = "closed"
  /\ current' = Absent /\ paperFrom' = "none" /\ buttons' = "none"
  /\ IF screen = "popping" THEN Unsubscribed ELSE UNCHANGED publishing
  /\ UNCHANGED <<server, client, managers, flags, asked, card, people, history, ops>>

-----------------------------------------------------------------------------
(* Publishing the board                                                    *)

(* The images of the cards are uploaded one by one; a board without cards  *)
(* is through at once.                                                     *)
Publication(kind) ==
  [own |-> TRUE, kind |-> kind, paper |-> current, uploaded |-> {},
   linking |-> current.cards = {} /\ kind = "share"]

(* The share button; who is not the board's creator is asked to sign in.   *)
PaperShare ==
  /\ Idle /\ current # Absent /\ buttons \in {"guest", "owner"} /\ Perform("share")
  /\ signInWithModal' = (signInWithModal \/ buttons = "guest")
  /\ publishing' = IF buttons = "owner" /\ ~current.link /\ paperFrom = "local"
                     THEN Append(publishing, Publication("share")) ELSE publishing
  /\ UNCHANGED <<server, client, managers, screen, shown, isPaperLinkMade, buttons, asked,
                 card, people, history>>

Dropped(i) == [j \in 1..(Len(publishing) - 1) |-> publishing[IF j < i THEN j ELSE j + 1]]

(* Mutant: the board is through with the first answer.                     *)
CardPublishedFirst(i, c) ==
  /\ ~publishing[i].linking
  /\ c \in publishing[i].paper.cards \ publishing[i].uploaded
  /\ publishing' = [publishing EXCEPT ![i].uploaded = @ \cup {c},
                                      ![i].linking = publishing[i].kind = "share"]
  /\ UNCHANGED <<server, client, managers, screen, shown, flags, buttons, asked, card,
                 people, history, ops>>

(* An upload is answered, in any order; one that fails never is.  After    *)
(* the last a link is asked for.                                           *)
CardPublished(i, c) ==
  LET uploaded == publishing[i].uploaded \cup {c}
  IN  /\ ~publishing[i].linking
      /\ c \in publishing[i].paper.cards \ publishing[i].uploaded
      /\ publishing' = [publishing EXCEPT ![i].uploaded = uploaded,
           ![i].linking = publishing[i].kind = "share" /\ uploaded = publishing[i].paper.cards]
      /\ UNCHANGED <<server, client, managers, screen, shown, flags, buttons, asked, card,
                     people, history, ops>>

(* addPaper of the server manager, with the device's board closed, comes   *)
(* on whatever screen is in front by now.                                  *)
AddPaper(i, paper, ids) ==
  /\ Publish(Absent, paper)
  /\ published' = published \cup ids
  /\ publishing' = Dropped(i)

(* The link is made: the board goes to the server and is listened to.      *)
LinkMade(i) ==
  LET paper == [publishing[i].paper EXCEPT !.cards = publishing[i].uploaded, !.link = TRUE]
  IN  /\ publishing[i].linking
      /\ AddPaper(i, paper, {paper.id})
      /\ isPaperLinkMade' = (isPaperLinkMade \/ publishing[i].own)
      /\ client' = [client EXCEPT ![here] = Listen(Put(@, paper), paper.id)]
      /\ UNCHANGED <<server, file, screen, signInWithModal, buttons, asked, card, people,
                     created, ops>>

LinkFailed(i) ==
  /\ publishing[i].linking
  /\ publishing' = Dropped(i)
  /\ UNCHANGED <<server, client, managers, screen, shown, flags, buttons, asked, card,
                 people, history, ops>>

(* Mutant: the copy keeps the identifier of the board.                     *)
GiftOfOldId(g, paper, c) == Write(c, g, [paper EXCEPT !.link = FALSE], NoCallback)

(* A copy of the board, under an identifier of its own, is the gift.       *)
Gift(g, paper, c) == Put(c, [paper EXCEPT !.id = g, !.link = FALSE])

GiftTapped(g) ==
  /\ Idle /\ current # Absent /\ buttons = "stopped" /\ Perform("gift")
  /\ g \notin created
  /\ IF current.creator # Absent /\ paperFrom = "server"
       THEN /\ client' = [client EXCEPT ![here] = Gift(g, current, @)]
            /\ created' = created \cup {g} /\ published' = published \cup {g}
            /\ UNCHANGED <<signInWithModal, publishing>>
       ELSE /\ signInWithModal' = (signInWithModal \/ current.creator = Absent)
            /\ publishing' = IF current.creator = Absent THEN publishing
                             ELSE Append(publishing, Publication("gift"))
            /\ UNCHANGED <<client, history>>
  /\ UNCHANGED <<server, managers, screen, shown, isPaperLinkMade, buttons, asked, card,
                 people>>

(* All cards uploaded, a board of the device goes to the server - without  *)
(* link or listener - and from there into the gift.                        *)
GiftPublished(i, g) ==
  LET paper == [publishing[i].paper EXCEPT !.cards = publishing[i].uploaded]
  IN  /\ publishing[i].kind = "gift"
      /\ publishing[i].uploaded = publishing[i].paper.cards
      /\ g \notin created
      /\ AddPaper(i, paper, {paper.id, g})
      /\ created' = created \cup {g}
      /\ client' = [client EXCEPT ![here] = Gift(g, paper, Put(@, paper))]
      /\ UNCHANGED <<server, file, screen, flags, buttons, asked, card, people, ops>>

-----------------------------------------------------------------------------
(* The user's profile                                                      *)

(* A profile is published: the controller, to redraw its buttons, loads    *)
(* the board's file; a guest who has just signed in becomes its creator.   *)
ProfileChanged(u) ==
  LET claimed == [current EXCEPT !.creator = u]
      local   == IF signInWithModal /\ current.creator = Absent THEN claimed
                 ELSE Loaded(current.id, localPaper)
  IN  /\ Perform("profile")
      /\ user' = u
      /\ IF Attached /\ current # Absent
           THEN /\ Publish(local, serverPaper)
                /\ file' = IF local = claimed THEN Saved(claimed) ELSE file
                /\ buttons' = ButtonsFor(Latest(local, serverPaper))
           ELSE UNCHANGED <<managers, shown, buttons>>
      /\ UNCHANGED <<server, client, screen, flags, asked, card, publishing, currentUser,
                     history>>

(* Signing out takes place on another screen.                              *)
ProfileRemoved ==
  /\ screen \in {"closed", "covered"} /\ user # Absent /\ Perform("profile")
  /\ user' = Absent
  /\ UNCHANGED <<server, client, managers, screen, shown, other, currentUser, history>>

-----------------------------------------------------------------------------
(* The server manager's closures on the main queue                         *)

Oldest == Head(client[here].inbox)

(* The snapshot of any board that was ever fetched, and addCard's handler  *)
(* with the board it captured.                                             *)
Callback ==
  /\ client[here].inbox # << >>
  /\ client' = [client EXCEPT ![here].inbox = Tail(@)]
  /\ Publish(localPaper, Oldest.val)
  /\ UNCHANGED <<server, file, screen, other, people, history, ops>>

-----------------------------------------------------------------------------
(* The network, and other devices                                          *)

Network ==
  /\ \/ Acknowledge(here) \/ Reject(here)
     \/ \E p \in Papers : Watch(here, p) \/ OfflineSnapshot(here, p)
  /\ UNCHANGED <<managers, screen, shown, other, people, history, ops>>

(* Another device with the newest copy of a board adds a card or removes   *)
(* the board.                                                              *)
Elsewhere(p) ==
  /\ server[p] # Absent /\ Perform("elsewhere")
  /\ \/ \E c \in Cards \ created :
          /\ created' = created \cup {c}
          /\ server' = [server EXCEPT ![p].cards = @ \cup {c}]
     \/ server' = [server EXCEPT ![p] = Absent] /\ UNCHANGED created
  /\ UNCHANGED <<client, managers, screen, shown, other, people, published>>

-----------------------------------------------------------------------------
Opening ==
  \/ \E p \in Papers : DeepLink(p) \/ \E from \in {"local", "server"} : Open(p, from)
  \/ \E p \in Papers, t \in Titles : Create(p, t)
  \/ Fetch \/ UserSeen \/ Draw \/ Tick \/ Cover \/ Uncover

Editing ==
  \/ OpenEditor \/ CloseEditor \/ CardUploaded \/ UploadFailed
  \/ \E c \in Cards : CreateCard(c) \/ DeleteCard(c)

Managing ==
  \/ \E t \in Titles : ChangePaperTitle(t)
  \/ StopPaper \/ DeletePaper \/ PaperDeleted \/ Leave \/ Left

Publishing ==
  \/ PaperShare
  \/ \E g \in Papers : GiftTapped(g)
  \/ \E i \in DOMAIN publishing : LinkMade(i) \/ LinkFailed(i)
  \/ \E i \in DOMAIN publishing, c \in Cards : CardPublished(i, c)
  \/ \E i \in DOMAIN publishing, g \in Papers : GiftPublished(i, g)

Next ==
  \/ Opening \/ Editing \/ Managing \/ Publishing
  \/ \E u \in Users : ProfileChanged(u)
  \/ ProfileRemoved \/ Restart \/ Callback \/ Network
  \/ \E p \in Papers : Elsewhere(p)

Spec == Init /\ [][Next]_vars

-----------------------------------------------------------------------------
Boards == PaperModel \cup {Absent}

(* Every place that holds a board of an identifier holds that board.       *)
TypeOK ==
  /\ server \in [Papers -> Boards] /\ file \in [Papers -> Boards]
  /\ \A p \in Papers : {server[p], file[p]} \subseteq {Absent} \cup {b \in PaperModel : b.id = p}
  /\ client[here].base \in [Papers -> Boards]
  /\ \A w \in {client[here].pending[i] : i \in DOMAIN client[here].pending} :
       w.doc \in Papers /\ (w.val # Absent => w.val \in PaperModel /\ w.val.id = w.doc)
  /\ \A i \in DOMAIN client[here].inbox : client[here].inbox[i].val \in Boards
  /\ {localPaper, serverPaper, current} \subseteq Boards
  /\ screen \in {"closed", "loading", "board", "covered", "deleted", "popping", "leaving"}
  /\ paperFrom \in {"none", "local", "server"} /\ editor \in {"none", "local", "server"}
  /\ buttons \in {"none", "guest", "owner", "stopped"}
  /\ isPaperLinkMade \in BOOLEAN /\ signInWithModal \in BOOLEAN
  /\ asked \in [from : {"none", "local", "server", "link"}, id : Papers \cup {Absent}]
  /\ uploading \in Cards \cup {Absent}
  /\ publishing \in Seq([own : BOOLEAN, kind : {"share", "gift"}, paper : PaperModel,
                         uploaded : SUBSET Cards, linking : BOOLEAN])
  /\ user \in Users \cup {Absent} /\ currentUser \in Users \cup {Absent}
  /\ created \subseteq Papers \cup Cards /\ published \subseteq Papers
  /\ ops \in 0..MaxOps

(* The board on the screen is the one that the next card will be added to, *)
(* by the manager that the editor will be told, and has its cards:         *)
(* setCurrentPaper, WrittenPaperViewModel.swift:72-93, against the other   *)
(* places that set the board or a publisher.                               *)
ScreenFollows ==
  Attached /\ current # Absent =>
    /\ Latest(localPaper, serverPaper) # Absent
    /\ current.id = Latest(localPaper, serverPaper).id
    /\ current.cards = Latest(localPaper, serverPaper).cards
    /\ paperFrom = IF serverPaper # Absent THEN "server" ELSE "local"

(* A board that nobody has published or made a gift of is on this device   *)
(* only, whatever was published from the same screen or the one before:    *)
(* isPaperLinkMade, WrittenPaperViewModel.swift:26, 265, 276, 307 and      *)
(* WrittenPaperViewController.swift:390, 490.                              *)
UnsharedStaysHere ==
  \A p \in Papers \ published :
    server[p] = Absent /\ PendingOn(client[here], p) = {}

(* A board goes to the server with all the cards that it had when its      *)
(* button was tapped, whichever order its uploads are answered in.         *)
(* getServerSidePaper: WrittenPaperViewModel.swift:368-406                 *)
PublishedWhole ==
  [][\A i \in DOMAIN publishing :
       (LinkMade(i) \/ \E g \in Papers : GiftPublished(i, g))
         => serverPaper'.cards = publishing[i].paper.cards]_vars

-----------------------------------------------------------------------------
(* What comments of the code say, and the code does not do                 *)

(* Leaving a board takes no card off the server's copy of it.              *)
(* cleanPaperPublisher: WrittenPaperViewModel.swift:228                    *)
SharedCardsKept ==
  [][\A p \in Papers :
       server[p] # Absent /\ server'[p] # Absent => server[p].cards \subseteq server'[p].cards]_vars

(* What its user did to the board on the screen stays: that it has ended,  *)
(* and on a board of the device the title and the cards.                   *)
(* updatePaper: LocalDatabaseFileManager.swift:167; stopPaper:             *)
(* WrittenPaperViewModel.swift:261 and WrittenPaperViewController.swift:408*)
EditsKept ==
  [][(/\ screen = "board" /\ screen' = "board"
      /\ current # Absent /\ current' # Absent /\ current.id = current'.id) =>
       /\ current.ended => current'.ended
       /\ (paperFrom = "local" /\ paperFrom' = "local") =>
            /\ current'.title = current.title \/ \E t \in Titles : ChangePaperTitle(t)
            /\ current.cards \subseteq current'.cards \/ \E c \in Cards : DeleteCard(c)]_vars
=============================================================================
