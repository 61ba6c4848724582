-------------------------- MODULE FirestoreManager --------------------------
(***************************************************************************)
(* The server database manager of the app on every device, over the        *)
(* Firestore client: the paper that is open, the list of paper previews,   *)
(* and the three documents each operation keeps in step - the paper, its   *)
(* preview and the user's list of paper identifiers.                       *)
(*                                                                         *)
(* A paper is its identifier, its set of cards and its title; the title    *)
(* stands for all that is neither identifier nor cards (title, end time,   *)
(* link, creator, thumbnail), and a preview is that title alone.           *)
(* nil is Absent.                                                          *)
(***************************************************************************)
EXTENDS FirestoreClient, FiniteSets

CONSTANTS
  Papers, Cards, Titles, Users,
  InitialOwner,   \* who owns each paper that is on the server at first
  InitialTitle,   \* the title of those papers
  Ops,            \* the operations the devices' users perform
  MaxOps          \* bound: how many operations are performed in all

AllOps == {"fetchPaper", "resetPaper", "addPaper", "addCard", "removeCard",
           "updateCard", "updatePaper", "removePaper", "convertPaperToGift",
           "profile", "restart"}

PaperModel        == [id : Papers, cards : SUBSET Cards, title : Titles]
PaperPreviewModel == [title : Titles]
PaperIdList       == [paperIds : SUBSET Papers]

Value == PaperModel \cup PaperPreviewModel \cup PaperIdList \cup {Absent}

ASSUME ManagerAssumption ==
  /\ IsFiniteSet(Papers)
  /\ InitialOwner \in [Papers -> Users \cup {Absent}]
  /\ InitialTitle \in Titles
  /\ Absent \notin Papers \cup Users \cup Titles
  /\ Absent \notin PaperModel \cup PaperPreviewModel \cup PaperIdList
  /\ Ops \subseteq AllOps /\ MaxOps \in Nat

VARIABLES
  subject,        \* subject[d]: paperSubject.value
  papers,         \* papers[d]: papersSubject.value, by paper identifier
  dropped,        \* dropped[d]: history, the papers whose entry the completion
                  \* of a removal took away although there is a preview again
  email,          \* email[d]: currentUserEmail
  paperObserver,  \* paperObserver[d]: the paper of the last registration
  profile,        \* profile[d]: the user of FirebaseAuthManager's profile
  owner,          \* owner[p]: history, the user whose addPaper made p
  created,        \* created: history, the card and paper identifiers in use
  ops             \* ops: operations performed so far

appVars ==
  <<subject, papers, dropped, email, paperObserver, profile, owner, created, ops>>
vars == <<server, client, appVars>>

Paper(p)   == [coll |-> "papers", id |-> p]
Preview(p) == [coll |-> "paperPreviews", id |-> p]
User(u)    == [coll |-> "users", id |-> u]

PaperDocs == {Paper(p) : p \in Papers}
Docs == PaperDocs \cup {Preview(p) : p \in Papers} \cup {User(u) : u \in Users}

ValuesOf(x) ==
  {Absent} \cup
    CASE x.coll = "papers"        -> {v \in PaperModel : v.id = x.id}
      [] x.coll = "paperPreviews" -> PaperPreviewModel
      [] x.coll = "users"         -> PaperIdList

NoPreviews == [p \in Papers |-> Absent]

(* The backend's documents at first.                                       *)
InitialDocument(x) ==
  CASE x.coll = "papers" ->
         IF InitialOwner[x.id] = Absent THEN Absent
         ELSE [id |-> x.id, cards |-> {}, title |-> InitialTitle]
    [] x.coll = "paperPreviews" ->
         IF InitialOwner[x.id] = Absent THEN Absent ELSE [title |-> InitialTitle]
    [] x.coll = "users" ->
         IF \A p \in Papers : InitialOwner[p] # x.id THEN Absent
         ELSE [paperIds |-> {p \in Papers : InitialOwner[p] = x.id}]

Init ==
  /\ server = [x \in Docs |-> InitialDocument(x)]
  /\ client = [d \in Devices |-> FreshClient(Docs)]
  /\ subject = [d \in Devices |-> Absent]
  /\ papers = [d \in Devices |-> NoPreviews]
  /\ dropped = [d \in Devices |-> {}]
  /\ email = [d \in Devices |-> Absent]
  /\ paperObserver = [d \in Devices |-> Absent]
  /\ profile = [d \in Devices |-> Absent]
  /\ owner = InitialOwner
  /\ created = {p \in Papers : InitialOwner[p] # Absent}
  /\ ops = 0

-----------------------------------------------------------------------------
(* What the manager's operations and completion handlers ask of the client *)

RemovePaperPreview(c, p) == Write(c, Preview(p), Absent, Then("removePaperPreview", p))

SetPaperPreview(c, paper) ==
  Listen(Write(c, Preview(paper.id), [title |-> paper.title], NoCallback), Preview(paper.id))

AddUsersPaperId(c, d, p) ==
  IF email[d] = Absent THEN c ELSE Get(c, User(email[d]), Then("addUsersPaperId", p))

RemoveUsersPaperId(c, d, p) ==
  IF email[d] = Absent THEN c ELSE Get(c, User(email[d]), Then("removeUsersPaperId", p))

(* Mutant: the paper is written under the path of the previews.            *)
WritePaperToPreviews(c, paper, op) == Write(c, Preview(paper.id), paper, Then(op, Absent))

WritePaper(c, paper, op) == Write(c, Paper(paper.id), paper, Then(op, Absent))

Perform(op) ==
  /\ op \in Ops
  /\ ops < MaxOps
  /\ ops' = ops + 1

-----------------------------------------------------------------------------
(* The operations of the database manager                                  *)

(* p is the identifier of some paper, from the list or from a link.        *)
FetchPaper(d, p) ==
  /\ Perform("fetchPaper")
  /\ p \in created
  /\ client' = [client EXCEPT ![d] = Listen(@, Paper(p))]
  /\ paperObserver' = [paperObserver EXCEPT ![d] = p]
  /\ UNCHANGED <<server, subject, papers, dropped, email, profile, owner, created>>

ResetPaper(d) ==
  /\ Perform("resetPaper")
  /\ subject' = [subject EXCEPT ![d] = Absent]
  /\ paperObserver' = [paperObserver EXCEPT ![d] = Absent]
  /\ UNCHANGED <<server, client, papers, dropped, email, profile, owner, created>>

(* A paper that so far is on no server, with the cards it has, is          *)
(* published; without a user only the publisher learns of it.              *)
AddPaper(d, p, cs, t) ==
  LET paper == [id |-> p, cards |-> cs, title |-> t]
  IN  /\ Perform("addPaper")
      /\ created \cap ({p} \cup cs) = {}
      /\ created' = created \cup {p} \cup cs
      /\ subject' = [subject EXCEPT ![d] = paper]
      /\ owner' = [owner EXCEPT ![p] = email[d]]
      /\ client' = [client EXCEPT ![d] =
           IF email[d] = Absent THEN @ ELSE WritePaper(@, paper, "addPaper")]
      /\ UNCHANGED <<server, papers, dropped, email, paperObserver, profile>>

(* The card joins the cached paper, and the whole paper is written.        *)
AddCard(d, c) ==
  /\ Perform("addCard")
  /\ subject[d] # Absent
  /\ c \notin created
  /\ created' = created \cup {c}
  /\ LET currentPaper == [subject[d] EXCEPT !.cards = @ \cup {c}]
     IN  client' = [client EXCEPT ![d] = WritePaper(@, currentPaper, "addCard")]
  /\ UNCHANGED <<server, subject, papers, dropped, email, paperObserver, profile, owner>>

(* The stored paper is read first, the write follows in RemoveCardGot.     *)
(* The paper is the open one: what the manager's callers mean to pass.     *)
RemoveCard(d, c) ==
  /\ Perform("removeCard")
  /\ subject[d] # Absent
  /\ c \in subject[d].cards
  /\ client' = [client EXCEPT ![d] = Get(@, Paper(subject[d].id), Then("removeCard", c))]
  /\ UNCHANGED <<server, subject, papers, dropped, email, paperObserver, profile, owner, created>>

(* The caller changes its copy of the open paper and hands it over.        *)
UpdatePaper(d, t) ==
  /\ Perform("updatePaper")
  /\ subject[d] # Absent
  /\ client' = [client EXCEPT ![d] =
       WritePaper(@, [subject[d] EXCEPT !.title = t], "updatePaper")]
  /\ UNCHANGED <<server, subject, papers, dropped, email, paperObserver, profile, owner, created>>

(* A card keeps its identifier when its content changes.                   *)
UpdateCard(d, c) ==
  /\ Perform("updateCard")
  /\ subject[d] # Absent
  /\ c \in subject[d].cards
  /\ client' = [client EXCEPT ![d] = WritePaper(@, subject[d], "updatePaper")]
  /\ UNCHANGED <<server, subject, papers, dropped, email, paperObserver, profile, owner, created>>

RemovePaper(d, p) ==
  /\ Perform("removePaper")
  /\ p \in created
  /\ client' = [client EXCEPT ![d] = Write(@, Paper(p), Absent, Then("removePaper", p))]
  /\ UNCHANGED <<server, subject, papers, dropped, email, paperObserver, profile, owner, created>>

(* A copy of the open paper under a new identifier g.                      *)
ConvertPaperToGift(d, g) ==
  /\ Perform("convertPaperToGift")
  /\ subject[d] # Absent
  /\ g \notin created
  /\ created' = created \cup {g}
  /\ client' = [client EXCEPT ![d] =
       WritePaper(@, [subject[d] EXCEPT !.id = g], "convertPaperToGift")]
  /\ UNCHANGED <<server, subject, papers, dropped, email, paperObserver, profile, owner>>

(* FirebaseAuthManager publishes the profile of user u.                    *)
ProfileChanged(d, u) ==
  /\ Perform("profile")
  /\ profile' = [profile EXCEPT ![d] = u]
  /\ papers' = [papers EXCEPT ![d] = NoPreviews]
  /\ dropped' = [dropped EXCEPT ![d] = {}]
  /\ email' = [email EXCEPT ![d] = u]
  /\ client' = [client EXCEPT ![d] = Listen(@, User(u))]
  /\ UNCHANGED <<server, subject, paperObserver, owner, created>>

(* It publishes nil: the list is emptied, the address is kept.             *)
ProfileRemoved(d) ==
  /\ Perform("profile")
  /\ profile[d] # Absent
  /\ profile' = [profile EXCEPT ![d] = Absent]
  /\ papers' = [papers EXCEPT ![d] = NoPreviews]
  /\ dropped' = [dropped EXCEPT ![d] = {}]
  /\ UNCHANGED <<server, client, subject, email, paperObserver, owner, created>>

Restart(d) ==
  /\ Perform("restart")
  /\ client' = [client EXCEPT ![d] = Restarted(@)]
  /\ subject' = [subject EXCEPT ![d] = Absent]
  /\ papers' = [papers EXCEPT ![d] = NoPreviews]
  /\ dropped' = [dropped EXCEPT ![d] = {}]
  /\ email' = [email EXCEPT ![d] = Absent]
  /\ paperObserver' = [paperObserver EXCEPT ![d] = Absent]
  /\ profile' = [profile EXCEPT ![d] = Absent]
  /\ UNCHANGED <<server, owner, created>>

-----------------------------------------------------------------------------
(* The callbacks on the main queue, one action per closure                 *)

(* The oldest callback of device d has this type and completion handler.   *)
Arrived(d, type, op) ==
  /\ client[d].inbox # << >>
  /\ Head(client[d].inbox).type = type
  /\ Head(client[d].inbox).then.op = op

Snapshot(d, coll) ==
  Arrived(d, "snapshot", "none") /\ Head(client[d].inbox).doc.coll = coll

Oldest(d) == Head(client[d].inbox)

Popped(d) == [client[d] EXCEPT !.inbox = Tail(@)]

(* Mutant: the closure of fetchPaper keeps the cards already on screen.    *)
PaperSnapshotMerging(d) ==
  /\ Snapshot(d, "papers")
  /\ LET v == Oldest(d).val
     IN  subject' = [subject EXCEPT ![d] =
           IF v = Absent \/ @ = Absent \/ @.id # v.id THEN v
           ELSE [v EXCEPT !.cards = v.cards \cup subject[d].cards]]
  /\ client' = [client EXCEPT ![d] = Popped(d)]
  /\ UNCHANGED <<server, papers, dropped, email, paperObserver, profile, owner, created, ops>>

(* The closure of fetchPaper: a paper that does not exist takes its        *)
(* preview and its place in the user's list with it.                       *)
PaperSnapshot(d) ==
  /\ Snapshot(d, "papers")
  /\ LET p == Oldest(d).doc.id
         v == Oldest(d).val
     IN  /\ subject' = [subject EXCEPT ![d] = v]
         /\ client' = [client EXCEPT ![d] =
              IF v = Absent
                THEN RemoveUsersPaperId(RemovePaperPreview(Popped(d), p), d, p)
                ELSE Popped(d)]
  /\ UNCHANGED <<server, papers, dropped, email, paperObserver, profile, owner, created, ops>>

(* Mutant: an entry that is in the list already is not replaced.           *)
PreviewSnapshotAppending(d) ==
  /\ Snapshot(d, "paperPreviews")
  /\ papers' = [papers EXCEPT ![d][Oldest(d).doc.id] = IF @ = Absent THEN Oldest(d).val ELSE @]
  /\ UNCHANGED dropped
  /\ client' = [client EXCEPT ![d] = Popped(d)]
  /\ UNCHANGED <<server, subject, email, paperObserver, profile, owner, created, ops>>

(* The closure of fetchPaperPreview.                                       *)
PreviewSnapshot(d) ==
  /\ Snapshot(d, "paperPreviews")
  /\ LET p == Oldest(d).doc.id
         v == Oldest(d).val
     IN  /\ papers' = IF v = Absent THEN papers ELSE [papers EXCEPT ![d][p] = v]
         /\ dropped' = IF v = Absent THEN dropped ELSE [dropped EXCEPT ![d] = @ \ {p}]
         /\ client' = [client EXCEPT ![d] =
              IF v = Absent THEN RemoveUsersPaperId(Popped(d), d, p) ELSE Popped(d)]
  /\ UNCHANGED <<server, subject, email, paperObserver, profile, owner, created, ops>>

(* The orders in which the identifiers of a user's list may stand.         *)
ListsOf(S) ==
  {f \in [1..Cardinality(S) -> S] : \A p \in S : \E i \in DOMAIN f : f[i] = p}

(* A listener for every preview of ids; those in list are known to the     *)
(* client and raised at once, in its order.                                *)
FetchPaperPreviews(c, ids, list) ==
  [c EXCEPT
     !.listening = @ \cup {Preview(p) : p \in ids},
     !.raised = @ \cup {Preview(list[i]) : i \in DOMAIN list},
     !.inbox = @ \o [i \in 1..Len(list) |->
        Event("snapshot", Preview(list[i]), View(c, Preview(list[i])), NoCallback)]]

(* Mutant: no second listener is registered for a preview that has one.    *)
UserSnapshotOnce(d) ==
  /\ Snapshot(d, "users")
  /\ LET ids  == IF Oldest(d).val = Absent THEN {} ELSE Oldest(d).val.paperIds
         new   == {p \in ids : Preview(p) \notin client[d].listening}
         known == {p \in new : Known(client[d], Preview(p))}
     IN  \E list \in ListsOf(known) :
           client' = [client EXCEPT ![d] = FetchPaperPreviews(Popped(d), new, list)]
  /\ UNCHANGED <<server, appVars>>

(* The closure of loadPaperPreviews: fetchPaperPreview for each identifier *)
(* of the user's list, in its order.                                       *)
UserSnapshot(d) ==
  /\ Snapshot(d, "users")
  /\ LET ids   == IF Oldest(d).val = Absent THEN {} ELSE Oldest(d).val.paperIds
         known == {p \in ids : Known(client[d], Preview(p))}
     IN  \E list \in ListsOf(known) :
           client' = [client EXCEPT ![d] = FetchPaperPreviews(Popped(d), ids, list)]
  /\ UNCHANGED <<server, appVars>>

AddPaperDone(d) ==
  /\ Arrived(d, "done", "addPaper")
  /\ client' = [client EXCEPT ![d] =
       AddUsersPaperId(SetPaperPreview(Popped(d), Oldest(d).val), d, Oldest(d).doc.id)]
  /\ UNCHANGED <<server, appVars>>

(* The publisher is set to the paper as it was when the card was added.    *)
AddCardDone(d) ==
  /\ Arrived(d, "done", "addCard")
  /\ subject' = [subject EXCEPT ![d] = Oldest(d).val]
  /\ client' = [client EXCEPT ![d] = Popped(d)]
  /\ UNCHANGED <<server, papers, dropped, email, paperObserver, profile, owner, created, ops>>

UpdatePaperDone(d) ==
  /\ Arrived(d, "done", "updatePaper")
  /\ client' = [client EXCEPT ![d] = SetPaperPreview(Popped(d), Oldest(d).val)]
  /\ UNCHANGED <<server, appVars>>

ConvertPaperToGiftDone(d) ==
  /\ Arrived(d, "done", "convertPaperToGift")
  /\ client' = [client EXCEPT ![d] = SetPaperPreview(Popped(d), Oldest(d).val)]
  /\ UNCHANGED <<server, appVars>>

RemovePaperDone(d) ==
  /\ Arrived(d, "done", "removePaper")
  /\ LET p == Oldest(d).doc.id
     IN  client' = [client EXCEPT ![d] =
           RemoveUsersPaperId(RemovePaperPreview(Popped(d), p), d, p)]
  /\ UNCHANGED <<server, appVars>>

(* The entry of p goes; it is missed if d sees a preview of p.             *)
DropEntry(d, p) ==
  /\ papers' = [papers EXCEPT ![d][p] = Absent]
  /\ dropped' = [dropped EXCEPT ![d] =
       IF View(client[d], Preview(p)) = Absent THEN @ \ {p} ELSE @ \cup {p}]

(* Mutant: the paper is fetched again once its preview is removed.         *)
RemovePaperPreviewDoneRefetching(d) ==
  /\ Arrived(d, "done", "removePaperPreview")
  /\ DropEntry(d, Oldest(d).doc.id)
  /\ client' = [client EXCEPT ![d] = Listen(Popped(d), Paper(Oldest(d).doc.id))]
  /\ UNCHANGED <<server, subject, email, paperObserver, profile, owner, created, ops>>

RemovePaperPreviewDone(d) ==
  /\ Arrived(d, "done", "removePaperPreview")
  /\ DropEntry(d, Oldest(d).doc.id)
  /\ client' = [client EXCEPT ![d] = Popped(d)]
  /\ UNCHANGED <<server, subject, email, paperObserver, profile, owner, created, ops>>

(* The paper just read, without the card, goes to updatePaper.             *)
RemoveCardGot(d) ==
  /\ Arrived(d, "got", "removeCard")
  /\ LET v     == Oldest(d).val
         paper == [v EXCEPT !.cards = @ \ {Oldest(d).then.arg}]
     IN  client' = [client EXCEPT ![d] =
           IF v = Absent THEN Popped(d) ELSE WritePaper(Popped(d), paper, "updatePaper")]
  /\ UNCHANGED <<server, appVars>>

(* A list that could not be read is taken to be empty.                     *)
AddUsersPaperIdGot(d) ==
  /\ Arrived(d, "got", "addUsersPaperId")
  /\ LET e   == Oldest(d)
         ids == IF e.val = Absent THEN {} ELSE e.val.paperIds
     IN  client' = [client EXCEPT ![d] =
           Write(Popped(d), e.doc, [paperIds |-> ids \cup {e.then.arg}], NoCallback)]
  /\ UNCHANGED <<server, appVars>>

RemoveUsersPaperIdGot(d) ==
  /\ Arrived(d, "got", "removeUsersPaperId")
  /\ LET e          == Oldest(d)
         dictionary == [e.val EXCEPT !.paperIds = @ \ {e.then.arg}]
     IN  client' = [client EXCEPT ![d] =
           IF e.val = Absent THEN Popped(d)
           ELSE Write(Popped(d), e.doc, dictionary, NoCallback)]
  /\ UNCHANGED <<server, appVars>>

-----------------------------------------------------------------------------
Operation(d) ==
  \/ \E p \in Papers : FetchPaper(d, p) \/ RemovePaper(d, p) \/ ConvertPaperToGift(d, p)
  \/ \E p \in Papers, cs \in SUBSET Cards, t \in Titles : AddPaper(d, p, cs, t)
  \/ \E c \in Cards : AddCard(d, c) \/ RemoveCard(d, c) \/ UpdateCard(d, c)
  \/ \E t \in Titles : UpdatePaper(d, t)
  \/ \E u \in Users : ProfileChanged(d, u)
  \/ ResetPaper(d) \/ ProfileRemoved(d) \/ Restart(d)

Callback(d) ==
  \/ PaperSnapshot(d) \/ PreviewSnapshot(d) \/ UserSnapshot(d)
  \/ AddPaperDone(d) \/ AddCardDone(d) \/ UpdatePaperDone(d)
  \/ ConvertPaperToGiftDone(d) \/ RemovePaperDone(d) \/ RemovePaperPreviewDone(d)
  \/ RemoveCardGot(d) \/ AddUsersPaperIdGot(d) \/ RemoveUsersPaperIdGot(d)

Network(d) ==
  /\ \/ Acknowledge(d) \/ Reject(d) \/ AnswerOnline(d) \/ AnswerOffline(d)
     \/ \E x \in Docs : Watch(d, x) \/ OfflineSnapshot(d, x)
  /\ UNCHANGED appVars

Next == \E d \in Devices : Operation(d) \/ Callback(d) \/ Network(d)

Spec == Init /\ [][Next]_vars

(* The main queue runs; a device is online long enough, again and again,   *)
(* for its oldest write and read to be answered and its listeners served.  *)
Fairness ==
  \A d \in Devices :
    /\ WF_vars(Callback(d))
    /\ WF_vars(Acknowledge(d) /\ UNCHANGED appVars)
    /\ WF_vars(AnswerOnline(d) /\ UNCHANGED appVars)
    /\ \A x \in Docs : WF_vars(Watch(d, x) /\ UNCHANGED appVars)

FairSpec == Spec /\ Fairness

-----------------------------------------------------------------------------
OpNames == {"none", "addPaper", "addCard", "updatePaper", "removePaper",
            "convertPaperToGift", "removePaperPreview", "removeCard",
            "addUsersPaperId", "removeUsersPaperId"}

ThenType  == [op : OpNames, arg : Papers \cup Cards \cup {Absent}]

(* What a completion handler finds: the kind of document and of value that *)
(* it was written for.                                                     *)
Fits(x, v, then) ==
  /\ v \in ValuesOf(x)
  /\ then.op \in {"addPaper", "addCard", "updatePaper", "convertPaperToGift"} =>
       x.coll = "papers" /\ v # Absent
  /\ then.op \in {"removePaper", "removeCard"} => x.coll = "papers"
  /\ then.op = "removePaperPreview" => x.coll = "paperPreviews"
  /\ then.op \in {"addUsersPaperId", "removeUsersPaperId"} =>
       x.coll = "users" /\ then.arg \in Papers

WriteType == {w \in [doc : Docs, val : Value, then : ThenType] : Fits(w.doc, w.val, w.then)}
GetType   == {g \in [doc : Docs, then : ThenType] : \A v \in ValuesOf(g.doc) : Fits(g.doc, v, g.then)}
EventType == {e \in [type : {"snapshot", "done", "got"}, doc : Docs, val : Value, then : ThenType] :
                Fits(e.doc, e.val, e.then)}

ClientType == [pending : Seq(WriteType), base : [Docs -> Value],
               listening : SUBSET Docs, raised : SUBSET Docs, gets : Seq(GetType), inbox : Seq(EventType)]

ClientOK(c) ==
  /\ c \in ClientType
  /\ \A x \in Docs : c.base[x] \in ValuesOf(x)

(* Every document, copy, write and callback holds a value of its document, *)
(* and each closure finds the kind of document and of value that it was    *)
(* written for, however late it runs.                                      *)
TypeOK ==
  /\ server \in [Docs -> Value]
  /\ \A x \in Docs : server[x] \in ValuesOf(x)
  /\ client \in [Devices -> ClientType]
  /\ \A d \in Devices : ClientOK(client[d])
  /\ subject \in [Devices -> PaperModel \cup {Absent}]
  /\ papers \in [Devices -> [Papers -> PaperPreviewModel \cup {Absent}]]
  /\ dropped \in [Devices -> SUBSET Papers]
  /\ email \in [Devices -> Users \cup {Absent}]
  /\ paperObserver \in [Devices -> Papers \cup {Absent}]
  /\ profile \in [Devices -> Users \cup {Absent}]
  /\ owner \in [Papers -> Users \cup {Absent}]
  /\ created \subseteq Cards \cup Papers
  /\ ops \in 0..MaxOps

(* The callback e sets the publisher of the open paper.                    *)
SetsSubject(e) ==
  \/ e.type = "snapshot" /\ e.doc.coll = "papers"
  \/ e.type = "done" /\ e.then.op = "addCard"

(* Device d has nothing under way for the paper p, and the backend's copy. *)
PaperSettled(d, p) ==
  /\ PendingOn(client[d], Paper(p)) = {}
  /\ \A i \in 1..Len(client[d].inbox) : ~SetsSubject(client[d].inbox[i])
  /\ client[d].base[Paper(p)] = server[Paper(p)]

(* While p is the only paper device d has opened since its start, and      *)
(* nothing is under way for it, the screen shows the backend's paper.      *)
(* fetchPaper, addCard: FirestoreManager.swift:53-70, 124-144              *)
OpenPaperFresh ==
  \A d \in Devices, p \in Papers :
    (/\ paperObserver[d] = p
     /\ client[d].listening \cap PaperDocs = {Paper(p)}
     /\ PaperSettled(d, p)) => subject[d] = server[Paper(p)]

PreviewSettled(d, p) ==
  /\ Preview(p) \in client[d].listening
  /\ PendingOn(client[d], Preview(p)) = {}
  /\ \A i \in 1..Len(client[d].inbox) :
       ~(client[d].inbox[i].type = "snapshot" /\ client[d].inbox[i].doc = Preview(p))
  /\ client[d].base[Preview(p)] = server[Preview(p)]

(* A preview in the list of a device that has nothing under way for it is  *)
(* the backend's preview, whatever was written, refused, removed, reloaded *)
(* or answered late before.  fetchPaperPreview: FirestoreManager.swift:210 *)
ListingFresh ==
  \A d \in Devices, p \in Papers :
    PreviewSettled(d, p) /\ papers[d][p] # Absent /\ server[Preview(p)] # Absent
      => papers[d][p] = server[Preview(p)]

(* The callbacks of d that bring news of document x.                       *)
NewsOf(c, x) == {i \in 1..Len(c.inbox) : c.inbox[i].type = "snapshot" /\ c.inbox[i].doc = x}

(* What the application holds of a document it listens to, shown, is or    *)
(* will be what its client sees: the newest news under way is the view,    *)
(* and with no news under way the view is on screen, if anything is.       *)
Tracked(c, shown, x) ==
  x \in c.listening /\ View(c, x) # Absent =>
    /\ \A i \in NewsOf(c, x) :
         (\A j \in NewsOf(c, x) : j <= i) => c.inbox[i].val = View(c, x)
    /\ NewsOf(c, x) = {} => shown \in {Absent, View(c, x)}

(* No preview the client has seen is lost on its way to the list, and none *)
(* overtakes a newer one: the reason why ListingFresh holds.               *)
(* fetchPaperPreview: FirestoreManager.swift:210-231                       *)
ListingTracked ==
  \A d \in Devices, p \in Papers : Tracked(client[d], papers[d][p], Preview(p))

(* The newest news of document x under way is what the client sees of x.   *)
NewsInStep(c, x) ==
  \A i \in NewsOf(c, x) :
    x \in c.listening /\ ((\A j \in NewsOf(c, x) : j <= i) => c.inbox[i].val = View(c, x))

(* The client is asked, or was asked and has a list to change, to take p   *)
(* off the list of user u.                                                 *)
RemovalUnderWay(c, u, p) ==
  LET removal == Then("removeUsersPaperId", p)
  IN  \/ \E i \in 1..Len(c.gets) : c.gets[i].doc = User(u) /\ c.gets[i].then = removal
      \/ \E i \in 1..Len(c.inbox) :
           /\ c.inbox[i].type = "got" /\ c.inbox[i].doc = User(u)
           /\ c.inbox[i].then = removal /\ c.inbox[i].val # Absent

(* The entry shown for p, a paper of user u, is what the client sees of    *)
(* its preview, or will be: there is news of it, or none was raised yet;   *)
(* a preview that is gone has p taken off the list.                        *)
Following(c, shown, missing, u, p) ==
  \/ NewsOf(c, Preview(p)) # {}
  \/ Preview(p) \notin c.raised
  \/ shown = View(c, Preview(p))
  \/ shown = Absent /\ p \in missing
  \/ View(c, Preview(p)) = Absent /\ RemovalUnderWay(c, u, p)

(* What the client c of user u sees of the user's list has reached the     *)
(* application, or has not: then there is news of it.                      *)
ListFollowed(c, shown, missing, u) ==
  /\ User(u) \in c.listening
  /\ View(c, User(u)) # Absent /\ NewsOf(c, User(u)) = {} =>
       \A p \in View(c, User(u)).paperIds :
         Preview(p) \in c.listening /\ Following(c, shown[p], missing, u, p)

(* The signed-in user's list, the previews it names and the entries shown  *)
(* follow each other, whatever is written, refused or read late in the     *)
(* meantime: the reason why OwnPapersShown holds.                          *)
(* loadPaperPreviews: FirestoreManager.swift:332-347                       *)
OwnListTracked ==
  \A d \in Devices :
    /\ \A x \in Docs : NewsInStep(client[d], x)
    /\ profile[d] # Absent =>
         email[d] = profile[d] /\ ListFollowed(client[d], papers[d], dropped[d], profile[d])

(* Once a device is quiet, its user's list of papers shows, of the papers  *)
(* that the user's document names, the previews that exist and no others,  *)
(* but for an entry that the late completion of a removal took away.       *)
(* loadPaperPreviews: FirestoreManager.swift:332-347, 238-245              *)
OwnPapersShown ==
  \A d \in Devices :
    Quiet(d) /\ profile[d] # Absent /\ server[User(profile[d])] # Absent
      => \A p \in server[User(profile[d])].paperIds \ dropped[d] :
           papers[d][p] = server[Preview(p)]

(* When the users stop, the cascade of writes, answers and listener events *)
(* that their operations started comes to an end on every device: no pair  *)
(* of closures keeps feeding each other.  FirestoreManager.swift:53-347    *)
CascadesEnd == <>[](\A d \in Devices : Quiet(d))

-----------------------------------------------------------------------------
(* What comments of the code say, and the code does not do                 *)

(* With nothing under way, the publisher holds the paper that was fetched  *)
(* last, or nil.  fetchPaper: FirestoreManager.swift:53                    *)
ShowsFetchedPaper ==
  \A d \in Devices :
    Quiet(d) /\ subject[d] # Absent => subject[d].id = paperObserver[d]

(* A preview disappears only after its paper.  fetchPaper:                 *)
(* FirestoreManager.swift:53                                               *)
PreviewOutlivesPaper ==
  [][\A p \in Papers :
       server[Preview(p)] # Absent /\ server'[Preview(p)] = Absent
         => server[Paper(p)] = Absent]_vars

(* Once everything has settled, a paper a user has published is in the     *)
(* user's list.  addPaper: FirestoreManager.swift:99                       *)
PublishedPapersListed ==
  (\A d \in Devices : Quiet(d)) =>
    \A p \in Papers :
      owner[p] # Absent /\ server[Paper(p)] # Absent =>
        server[User(owner[p])] # Absent /\ p \in server[User(owner[p])].paperIds
=============================================================================
