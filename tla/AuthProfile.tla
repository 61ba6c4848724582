---------------------------- MODULE AuthProfile ----------------------------
(***************************************************************************)
(* The signed-in user of a device: FirebaseAuthManager, which publishes    *)
(* the user's profile from the document of the user's address, and the     *)
(* settings screen that changes it.  Sign-in, the check whether a name is  *)
(* taken, uploads and reads are answered whenever they are, in any order.  *)
(*                                                                         *)
(* Documents are written with merge: a write sets the name, and the photo  *)
(* if it has one.  What the Firestore client does with them is modelled    *)
(* here as in FirestoreClient, whose writes are of whole documents: a      *)
(* pending write is visible locally at once, a listener hears of a changed *)
(* view, and whatever the application is told comes through one queue.     *)
(*                                                                         *)
(* currentUserSubject of the settings screen follows userProfileSubject in *)
(* the same call, and is one with it here.                                 *)
(***************************************************************************)
EXTENDS Naturals, Sequences

CONSTANTS
  Emails, Names, Photos,
  YOLO,       \* the name of who signs in with Apple for the first time
  Absent,     \* no document, no address, no photo, nobody
  InitialUsers,
  MayReject,  \* whether the backend may refuse a write
  Ops,        \* the operations that are performed
  MaxOps      \* bound: how many operations are performed in all

AllOps == {"signIn", "appleSignIn", "signUp", "signOut", "deleteUser", "image",
           "name", "profile", "elsewhere", "restart"}

UserDoc == [name : Names, profileUrl : Photos \cup {Absent}]

UserModel ==
  [email : Emails, name : Names, profileUrl : Photos \cup {Absent}]

ASSUME AuthProfileAssumption ==
  /\ YOLO \in Names /\ Absent \notin Emails \cup Names \cup Photos \cup UserDoc \cup UserModel
  /\ InitialUsers \in [Emails -> UserDoc \cup {Absent}]
  /\ MayReject \in BOOLEAN /\ Ops \subseteq AllOps /\ MaxOps \in Nat

VARIABLES
  server,     \* the users' documents
  base,       \* the copies that the device received last
  pending,    \* its writes that are not acknowledged, oldest first
  silent,     \* how many of them, the oldest, are from before a restart
  listening,  \* the documents it listens to; no listener is ever removed
  inbox,      \* what the application is yet to be told
  calls,      \* the calls that wait for an answer
  stored,     \* "currentUserEmail" in the user defaults
  profile,    \* userProfileSubject.value
  ops

client == <<base, pending, silent, listening, inbox>>
vars == <<server, client, calls, stored, profile, ops>>

Model(email, name, url) == [email |-> email, name |-> name, profileUrl |-> url]

Doc(user) == [name |-> user.name, profileUrl |-> user.profileUrl]

Call(op, user) == [op |-> op, user |-> user]

(* A document of which only the address matters yet.                       *)
Of(email) == Model(email, YOLO, Absent)

Init ==
  /\ server = InitialUsers
  /\ base = [e \in Emails |-> Absent]
  /\ pending = << >> /\ silent = 0
  /\ listening = {} /\ inbox = << >> /\ calls = << >>
  /\ stored = Absent /\ profile = Absent
  /\ ops = 0

Perform(op) ==
  /\ op \in Ops
  /\ ops < MaxOps
  /\ ops' = ops + 1

Without(s, i) == SubSeq(s, 1, i - 1) \o SubSeq(s, i + 1, Len(s))

-----------------------------------------------------------------------------
(* The client of the users' documents                                      *)

(* Mutant: setData without merge.                                          *)
PatchedWhole(old, new) == new

(* setData with merge: a photo that is not given stays.                    *)
Patched(old, new) ==
  IF old = Absent \/ new.profileUrl # Absent THEN new
  ELSE [new EXCEPT !.profileUrl = old.profileUrl]

(* The positions of the pending writes of e, and the newest of some.       *)
WritesOf(e, writes) == {i \in DOMAIN writes : writes[i].email = e}

Newest(positions) == CHOOSE i \in positions : \A j \in positions : j <= i

(* What the device sees: its copy under its pending writes, of which the   *)
(* newest has the name and the newest with a photo has the photo.          *)
View(copies, writes, e) ==
  LET mine   == WritesOf(e, writes)
      photos == {i \in mine : writes[i].profileUrl # Absent}
  IN  IF mine = {} THEN copies[e]
      ELSE IF photos = {} THEN Patched(copies[e], Doc(writes[Newest(mine)]))
      ELSE [name |-> writes[Newest(mine)].name,
            profileUrl |-> writes[Newest(photos)].profileUrl]

News(type, e, v) == [type |-> type, email |-> e, val |-> v]

(* The client's copies and pending writes change: a listener hears if the  *)
(* view of its document does, and then comes what else is told.            *)
Turn(copies, writes, e, told) ==
  LET new   == View(copies, writes, e)
      heard == IF e \in listening /\ new # View(base, pending, e)
                 THEN <<News("snapshot", e, new)>> ELSE << >>
  IN  /\ base' = copies
      /\ pending' = writes
      /\ inbox' = inbox \o heard \o told
      /\ UNCHANGED listening

(* The oldest write is through.                                            *)
Settled == silent' = IF silent = 0 THEN 0 ELSE silent - 1

(* The completion of a write is told, unless the process that made the     *)
(* write has ended.                                                        *)
Acknowledge ==
  /\ pending # << >>
  /\ LET w   == Head(pending)
         new == Patched(server[w.email], Doc(w))
     IN  /\ server' = [server EXCEPT ![w.email] = new]
         /\ Turn([base EXCEPT ![w.email] = new], Tail(pending), w.email,
                 IF silent = 0 THEN <<News("done", w.email, Absent)>> ELSE << >>)
  /\ Settled
  /\ UNCHANGED <<calls, stored, profile, ops>>

(* An error is only printed.                                               *)
Reject ==
  /\ MayReject
  /\ pending # << >>
  /\ Turn(base, Tail(pending), Head(pending).email, << >>)
  /\ Settled
  /\ UNCHANGED <<server, calls, stored, profile, ops>>

Watch(e) ==
  /\ e \in listening
  /\ base[e] # server[e]
  /\ Turn([base EXCEPT ![e] = server[e]], pending, e, << >>)
  /\ UNCHANGED <<server, silent, calls, stored, profile, ops>>

(* getDocument is answered by the backend, or offline with the copy; no    *)
(* document at all is an answer that its closure ignores.                  *)
AnswerGet(i) ==
  /\ calls[i].op = "getDocument"
  /\ LET e == calls[i].user.email
     IN  \E copy \in {server[e], base[e]} :
           LET copies == [base EXCEPT ![e] = copy]
           IN  Turn(copies, pending, e, <<News("answer", e, View(copies, pending, e))>>)
  /\ calls' = Without(calls, i)
  /\ UNCHANGED <<server, silent, stored, profile, ops>>

-----------------------------------------------------------------------------
(* What the manager's methods do, called with the outstanding calls        *)

(* Mutant: fetchUserProfile without its guard.                             *)
FetchUserProfileOfAnybody(email, waiting) ==
  /\ calls' = Append(waiting, Call("getDocument", Of(email)))
  /\ UNCHANGED profile

(* fetchUserProfile when email is stored.                                  *)
FetchUserProfile(email, waiting) ==
  IF email = Absent THEN profile' = Absent /\ calls' = waiting
  ELSE /\ calls' = Append(waiting, Call("getDocument", Of(email)))
       /\ UNCHANGED profile

SetUserProfile(user) ==
  Turn(base, Append(pending, user), user.email, << >>) /\ UNCHANGED silent

(* addSnapshotListener when email is stored, after the client's documents  *)
(* are as given: a document that is there is told at once.                 *)
Listened(email, writes) ==
  /\ listening' = listening \cup {email}
  /\ pending' = writes
  /\ inbox' = IF View(base, writes, email) = Absent THEN inbox
              ELSE Append(inbox, News("snapshot", email, View(base, writes, email)))
  /\ UNCHANGED <<base, silent>>

-----------------------------------------------------------------------------
(* The closures                                                            *)

Told(type) == inbox # << >> /\ Head(inbox).type = type

Popped == inbox' = Tail(inbox) /\ UNCHANGED <<base, pending, silent, listening>>

(* Mutant: only another name has the profile fetched again.                *)
ProfileSnapshotOfName ==
  /\ Told("snapshot")
  /\ Popped
  /\ LET v == Head(inbox).val
     IN  IF v # Absent /\ profile # Absent /\ v.name # profile.name
           THEN FetchUserProfile(stored, calls)
           ELSE UNCHANGED <<calls, profile>>
  /\ UNCHANGED <<server, stored, ops>>

(* The closure of addSnapshotListener, whoever's profile is published.     *)
ProfileSnapshot ==
  /\ Told("snapshot")
  /\ Popped
  /\ LET v == Head(inbox).val
     IN  IF /\ v # Absent /\ profile # Absent
            /\ \/ v.name # profile.name
               \/ v.profileUrl \notin {Absent, profile.profileUrl}
           THEN FetchUserProfile(stored, calls)
           ELSE UNCHANGED <<calls, profile>>
  /\ UNCHANGED <<server, stored, ops>>

(* The closure of fetchUserProfile: the address is that of the call.       *)
ProfileAnswered ==
  /\ Told("answer")
  /\ Popped
  /\ LET v == Head(inbox).val
     IN  profile' = IF v = Absent THEN profile
                    ELSE Model(Head(inbox).email, v.name, v.profileUrl)
  /\ UNCHANGED <<server, calls, stored, ops>>

(* The closure of setUserProfile.                                          *)
ProfileSet ==
  /\ Told("done")
  /\ Popped
  /\ FetchUserProfile(stored, calls)
  /\ UNCHANGED <<server, stored, ops>>

-----------------------------------------------------------------------------
(* Signing in and out                                                      *)

(* The closure of auth.signIn, without an error.                           *)
SignIn ==
  /\ Perform("signIn")
  /\ stored = Absent
  /\ \E e \in Emails :
       /\ stored' = e
       /\ FetchUserProfile(e, calls)
       /\ Listened(e, pending)
  /\ UNCHANGED server

(* The closure of the sign-in with Apple: only the first time does the     *)
(* credential hold the address, and then the profile is set.               *)
AppleSignIn ==
  /\ Perform("appleSignIn")
  /\ stored = Absent
  /\ \E e \in Emails :
       /\ stored' = e
       /\ \/ FetchUserProfile(e, calls) /\ Listened(e, pending)
          \/ Listened(e, Append(pending, Of(e))) /\ UNCHANGED <<calls, profile>>
  /\ UNCHANGED server

SignUp ==
  /\ Perform("signUp")
  /\ stored = Absent
  /\ \E e \in Emails, n \in Names :
       calls' = Append(calls, Call("isValidNewName", Model(e, n, Absent)))
  /\ UNCHANGED <<server, client, stored, profile>>

(* createUser: the address is in use already, or the profile is set.  It   *)
(* is not stored: the user is to sign in next.                             *)
UserCreated(i) ==
  /\ calls[i].op = "createUser"
  /\ calls' = Without(calls, i)
  /\ \/ UNCHANGED client
     \/ SetUserProfile(calls[i].user)
  /\ UNCHANGED <<server, stored, profile, ops>>

SignOut ==
  /\ Perform("signOut")
  /\ stored # Absent
  /\ stored' = Absent
  /\ FetchUserProfile(Absent, calls)
  /\ UNCHANGED <<server, client>>

DeleteUser ==
  /\ Perform("deleteUser")
  /\ stored # Absent
  /\ calls' = Append(calls, Call("delete", Of(stored)))
  /\ UNCHANGED <<server, client, stored, profile>>

(* The document of a deleted user stays.                                   *)
UserDeleted(i) ==
  /\ calls[i].op = "delete"
  /\ \/ stored' = Absent /\ FetchUserProfile(Absent, Without(calls, i))
     \/ calls' = Without(calls, i) /\ UNCHANGED <<stored, profile>>
  /\ UNCHANGED <<server, client, ops>>

-----------------------------------------------------------------------------
(* The settings screen                                                     *)

(* userImageSet: the profile is that of the tap, not of the upload's end.  *)
UserImageSet ==
  /\ Perform("image")
  /\ profile # Absent
  /\ \E photo \in Photos :
       calls' = Append(calls, Call("upload", [profile EXCEPT !.profileUrl = photo]))
  /\ UNCHANGED <<server, client, stored, profile>>

UserNameSet ==
  /\ Perform("name")
  /\ stored # Absent
  /\ \E n \in Names :
       /\ profile # Absent => n # profile.name
       /\ calls' = Append(calls, Call("isValidUserName", Model(stored, n, Absent)))
  /\ UNCHANGED <<server, client, stored, profile>>

(* userProfileSet does nothing if only the photo is another.               *)
UserProfileSet ==
  /\ Perform("profile")
  /\ stored # Absent /\ profile # Absent
  /\ \E n \in Names, photo \in Photos :
       /\ n # profile.name
       /\ calls' = Append(calls, Call("isValidProfile", Model(stored, n, photo)))
  /\ UNCHANGED <<server, client, stored, profile>>

(* Whether a user has the name, in the documents and what the device       *)
(* writes.                                                                 *)
IsTaken(name, documents) ==
  \E e \in Emails : LET v == View(documents, pending, e) IN v # Absent /\ v.name = name

(* isValidUserName is answered by the backend, offline from the copies, or *)
(* with an error, after which the name counts as taken.                    *)
Answers(name) == {IsTaken(name, server), IsTaken(name, base), TRUE}

NameChecked(i) ==
  /\ LET user == calls[i].user
         rest == Without(calls, i)
     IN  \E taken \in Answers(user.name) :
           \/ /\ calls[i].op = "isValidNewName"
              /\ calls' = IF taken THEN rest ELSE Append(rest, Call("createUser", user))
              /\ UNCHANGED client
           \/ /\ calls[i].op = "isValidUserName"
              /\ calls' = rest
              /\ IF taken THEN UNCHANGED client ELSE SetUserProfile(user)
           \/ /\ calls[i].op = "isValidProfile"
              /\ calls' = IF taken \/ profile = Absent THEN rest
                          ELSE Append(rest, Call("upload", [user EXCEPT !.email = profile.email]))
              /\ UNCHANGED client
  /\ UNCHANGED <<server, stored, profile, ops>>

Uploaded(i) ==
  /\ calls[i].op = "upload"
  /\ calls' = Without(calls, i)
  /\ \/ UNCHANGED client
     \/ SetUserProfile(calls[i].user)
  /\ UNCHANGED <<server, stored, profile, ops>>

-----------------------------------------------------------------------------
(* Another device of the user changes the profile.                         *)
ChangeElsewhere ==
  /\ Perform("elsewhere")
  /\ \E e \in Emails, v \in UserDoc :
       server' = [server EXCEPT ![e] = Patched(server[e], v)]
  /\ UNCHANGED <<client, calls, stored, profile>>

(* The process ends and starts again: the pending writes have lost their   *)
(* closures, init fetches the profile and listens.                         *)
Restart ==
  /\ Perform("restart")
  /\ calls' = IF stored = Absent THEN << >> ELSE <<Call("getDocument", Of(stored))>>
  /\ listening' = IF stored = Absent THEN {} ELSE {stored}
  /\ inbox' = IF stored = Absent \/ View(base, pending, stored) = Absent THEN << >>
              ELSE <<News("snapshot", stored, View(base, pending, stored))>>
  /\ profile' = Absent
  /\ silent' = Len(pending)
  /\ UNCHANGED <<server, base, pending, stored>>

Answered == \E i \in 1..Len(calls) :
  AnswerGet(i) \/ UserCreated(i) \/ UserDeleted(i) \/ NameChecked(i) \/ Uploaded(i)

Closures == ProfileSnapshot \/ ProfileAnswered \/ ProfileSet

Network == Acknowledge \/ Reject \/ \E e \in Emails : Watch(e)

Users ==
  \/ SignIn \/ AppleSignIn \/ SignUp \/ SignOut \/ DeleteUser
  \/ UserImageSet \/ UserNameSet \/ UserProfileSet \/ ChangeElsewhere \/ Restart

Next == Users \/ Answered \/ Closures \/ Network

Spec == Init /\ [][Next]_vars

-----------------------------------------------------------------------------
CallOps == {"getDocument", "isValidNewName", "isValidUserName", "isValidProfile",
            "createUser", "delete", "upload"}

NewsOf == [type : {"snapshot", "answer", "done"}, email : Emails, val : UserDoc \cup {Absent}]

(* The variables hold what the declarations of the code allow; no call is  *)
(* ever made for the address of nobody.  FirebaseAuthManager.swift:186-190 *)
TypeOK ==
  /\ server \in [Emails -> UserDoc \cup {Absent}]
  /\ base \in [Emails -> UserDoc \cup {Absent}]
  /\ pending \in Seq(UserModel) /\ silent \in 0..Len(pending)
  /\ listening \subseteq Emails
  /\ inbox \in Seq(NewsOf)
  /\ calls \in Seq([op : CallOps, user : UserModel])
  /\ stored \in Emails \cup {Absent}
  /\ profile \in UserModel \cup {Absent}
  /\ ops \in 0..MaxOps

Quiet ==
  /\ calls = << >> /\ pending = << >> /\ inbox = << >>
  /\ \A e \in listening : base[e] = server[e]

(* With nothing under way, the published profile of the signed-in user has *)
(* the name and the photo of the user's document, whichever device wrote   *)
(* it and in whatever order answers, listeners and refusals came.  (A      *)
(* photo whose write was refused stays if the document has none.)          *)
(* FirebaseAuthManager.swift:141-208                                       *)
ProfileFresh ==
  (Quiet /\ stored # Absent /\ profile # Absent) =>
    (profile.email = stored /\ server[stored] # Absent =>
       /\ profile.name = server[stored].name
       /\ server[stored].profileUrl \in {Absent, profile.profileUrl})

(* A user who has a photo never loses it: signing up, signing in with      *)
(* Apple and a new name write no photo, and leave the one there is.        *)
(* FirebaseAuthManager.swift:210-225                                       *)
PhotoKept ==
  [][\A e \in Emails :
       server[e] # Absent /\ server[e].profileUrl # Absent
         => server'[e] # Absent /\ server'[e].profileUrl # Absent]_vars
=============================================================================
