------------------------- MODULE AuthProfileProofs -------------------------
(***************************************************************************)
(* Proofs about AuthProfile, for any users, names and photos: type         *)
(* correctness, that no photo is lost, and that the published profile is   *)
(* the document's when nothing is under way.                               *)
(***************************************************************************)
EXTENDS AuthProfile, QueueFacts

-----------------------------------------------------------------------------
(* What a device sees of a document                                        *)

Docs == UserDoc \cup {Absent}

Copies == [Emails -> Docs]

LEMMA NewestIs ==
  ASSUME NEW n \in Nat, NEW T \in SUBSET (1..n), T # {}
  PROVE  Newest(T) \in T /\ \A j \in T : j <= Newest(T)
<1>1. \E i \in T : \A j \in T : j <= i
  BY GreatestExists
<1> QED BY <1>1 DEF Newest

LEMMA NewestUnique ==
  ASSUME NEW n \in Nat, NEW T \in SUBSET (1..n), NEW i \in T, \A j \in T : j <= i
  PROVE  Newest(T) = i
<1>1. Newest(T) \in T /\ i <= Newest(T) /\ Newest(T) <= i
  BY NewestIs
<1>2. T \subseteq Int
  OBVIOUS
<1>3. Newest(T) \in Int /\ i \in Int
  BY <1>1, <1>2
<1> QED BY <1>1, <1>3

LEMMA UserFields ==
  ASSUME NEW u \in UserModel
  PROVE  u.email \in Emails /\ u.name \in Names /\ u.profileUrl \in Photos \cup {Absent}
BY DEF UserModel

LEMMA ModelTyped ==
  ASSUME NEW e \in Emails, NEW n \in Names, NEW f \in Photos \cup {Absent}
  PROVE  Model(e, n, f) \in UserModel
BY DEF Model, UserModel

LEMMA OfTyped ==
  ASSUME NEW e \in Emails
  PROVE  Of(e) \in UserModel
BY AuthProfileAssumption, ModelTyped DEF Of

LEMMA DocTyped ==
  ASSUME NEW u \in UserModel
  PROVE  Doc(u) \in UserDoc
BY UserFields DEF Doc, UserDoc

(* A merged document is a document, and has a photo if the old one had.    *)
LEMMA PatchedTyped ==
  ASSUME NEW old \in Docs, NEW new \in UserDoc
  PROVE  /\ Patched(old, new) \in UserDoc
         /\ old # Absent /\ old.profileUrl # Absent => Patched(old, new).profileUrl # Absent
<1>1. CASE old = Absent \/ new.profileUrl # Absent
  BY <1>1 DEF Patched
<1>2. CASE ~(old = Absent \/ new.profileUrl # Absent)
  <2>1. old \in UserDoc
    BY <1>2 DEF Docs
  <2>2. Patched(old, new) = [new EXCEPT !.profileUrl = old.profileUrl]
    BY <1>2 DEF Patched
  <2> QED BY <2>1, <2>2 DEF UserDoc
<1> QED BY <1>1, <1>2

LEMMA AbsentIsNoDoc == \A v \in UserDoc : v # Absent
BY AuthProfileAssumption

LEMMA WritesAre ==
  ASSUME NEW writes \in Seq(UserModel), NEW e
  PROVE  /\ Len(writes) \in Nat /\ DOMAIN writes = 1..Len(writes)
         /\ \A i \in 1..Len(writes) : writes[i] \in UserModel
         /\ WritesOf(e, writes) \in SUBSET (1..Len(writes))
BY LenProperties, ElementOfSeq DEF WritesOf

LEMMA ViewTyped ==
  ASSUME NEW copies \in Copies, NEW writes \in Seq(UserModel), NEW e \in Emails
  PROVE  /\ View(copies, writes, e) \in Docs
         /\ WritesOf(e, writes) # {} => View(copies, writes, e) \in UserDoc
<1> DEFINE mine   == WritesOf(e, writes)
           photos == {i \in mine : writes[i].profileUrl # Absent}
<1>1. CASE mine = {}
  BY <1>1 DEF View, Copies
<1>2. CASE mine # {}
  <2>1. writes[Newest(mine)] \in UserModel
    BY <1>2, WritesAre, NewestIs
  <2>2. CASE photos = {}
    <3>1. View(copies, writes, e) = Patched(copies[e], Doc(writes[Newest(mine)]))
      BY <1>2, <2>2 DEF View
    <3>2. copies[e] \in Docs
      BY DEF Copies
    <3> QED BY <2>1, <3>1, <3>2, DocTyped, PatchedTyped DEF Docs
  <2>3. CASE photos # {}
    <3>1. photos \in SUBSET (1..Len(writes)) /\ Len(writes) \in Nat
      BY WritesAre
    <3>2. writes[Newest(photos)] \in UserModel
      BY <2>3, <3>1, WritesAre, NewestIs
    <3>3. View(copies, writes, e) = [name |-> writes[Newest(mine)].name,
                                     profileUrl |-> writes[Newest(photos)].profileUrl]
      BY <1>2, <2>3 DEF View
    <3>4. View(copies, writes, e) \in UserDoc
      BY <2>1, <3>2, <3>3, UserFields DEF UserDoc
    <3> QED BY <3>4 DEF Docs
  <2> QED BY <2>2, <2>3
<1> QED BY <1>1, <1>2

-----------------------------------------------------------------------------
(* Type correctness                                                        *)

Calls == [op : CallOps, user : UserModel]

LEMMA CallTyped ==
  ASSUME NEW op \in CallOps, NEW u \in UserModel
  PROVE  Call(op, u) \in Calls
BY DEF Call, Calls

LEMMA NewsTyped ==
  ASSUME NEW type \in {"snapshot", "answer", "done"}, NEW e \in Emails, NEW v \in Docs
  PROVE  News(type, e, v) \in NewsOf
BY DEF News, NewsOf, Docs

ClientType ==
  /\ base \in Copies /\ pending \in Seq(UserModel)
  /\ listening \subseteq Emails /\ inbox \in Seq(NewsOf)

LEMMA TurnTyped ==
  ASSUME ClientType, NEW copies \in Copies, NEW writes \in Seq(UserModel), NEW e \in Emails,
         NEW told \in Seq(NewsOf), Turn(copies, writes, e, told)
  PROVE  ClientType'
<1> DEFINE v == View(copies, writes, e)
           heard == IF e \in listening /\ v # View(base, pending, e)
                      THEN <<News("snapshot", e, v)>> ELSE << >>
<1>1. /\ base' = copies /\ pending' = writes /\ listening' = listening
      /\ inbox' = inbox \o heard \o told
  BY DEF Turn
<1>2. News("snapshot", e, v) \in NewsOf
  BY ViewTyped, NewsTyped
<1> HIDE DEF v
<1>3. heard \in Seq(NewsOf)
  BY <1>2
<1> HIDE DEF heard
<1>4. inbox \o heard \in Seq(NewsOf)
  BY <1>3, ConcatProperties DEF ClientType
<1>5. inbox' \in Seq(NewsOf)
  BY <1>1, <1>4, ConcatProperties
<1> QED BY <1>1, <1>5 DEF ClientType

LEMMA ListenedTyped ==
  ASSUME ClientType, NEW e \in Emails, NEW writes \in Seq(UserModel), Listened(e, writes)
  PROVE  ClientType'
<1> DEFINE v == View(base, writes, e)
<1>1. News("snapshot", e, v) \in NewsOf
  BY ViewTyped, NewsTyped DEF ClientType
<1>2. inbox' \in Seq(NewsOf)
  <2>1. inbox' = inbox \/ inbox' = Append(inbox, News("snapshot", e, v))
    BY DEF Listened
  <2> HIDE DEF v
  <2> QED BY <1>1, <2>1, AppendProperties DEF ClientType
<1> QED BY <1>2 DEF ClientType, Listened

LEMMA PoppedTyped ==
  ASSUME ClientType, inbox # << >>, Popped
  PROVE  ClientType' /\ Head(inbox) \in NewsOf
BY TailFacts DEF ClientType, Popped

LEMMA FetchTyped ==
  ASSUME NEW e \in Emails \cup {Absent}, NEW waiting \in Seq(Calls),
         profile \in UserModel \cup {Absent}, FetchUserProfile(e, waiting)
  PROVE  calls' \in Seq(Calls) /\ profile' \in UserModel \cup {Absent}
<1>1. CASE e = Absent
  BY <1>1 DEF FetchUserProfile
<1>2. CASE e # Absent
  <2>1. Call("getDocument", Of(e)) \in Calls
    BY <1>2, OfTyped, CallTyped DEF CallOps
  <2> QED BY <1>2, <2>1, AppendProperties DEF FetchUserProfile
<1> QED BY <1>1, <1>2

LEMMA WithoutTyped ==
  ASSUME calls \in Seq(Calls), NEW i \in 1..Len(calls)
  PROVE  /\ Without(calls, i) \in Seq(Calls) /\ calls[i] \in Calls
         /\ calls[i].user \in UserModel /\ calls[i].op \in CallOps
<1>1. calls[i] \in Calls
  BY ElementOfSeq
<1>2. Without(calls, i) \in Seq(Calls)
  BY WithoutFacts DEF Without
<1> QED BY <1>1, <1>2 DEF Calls

(* TypeOK in the parts that a step changes together; how many writes are   *)
(* from before a restart is a part of its own.                             *)
Typed ==
  /\ server \in Copies /\ ClientType
  /\ calls \in Seq(Calls)
  /\ stored \in Emails \cup {Absent}
  /\ profile \in UserModel \cup {Absent}
  /\ ops \in 0..MaxOps

LEMMA TypeParts ==
  TypeOK <=> /\ server \in Copies /\ ClientType
             /\ calls \in Seq(Calls)
             /\ stored \in Emails \cup {Absent}
             /\ profile \in UserModel \cup {Absent}
             /\ ops \in 0..MaxOps
             /\ silent \in 0..Len(pending)
BY DEF TypeOK, ClientType, Copies, Docs, Calls

LEMMA InitTyped == Init => TypeOK
<1> SUFFICES ASSUME Init PROVE TypeOK
  OBVIOUS
<1>1. ClientType /\ server \in Copies /\ calls \in Seq(Calls)
  BY AuthProfileAssumption DEF Init, ClientType, Copies, Docs
<1>2. 0 \in 0..MaxOps
  BY AuthProfileAssumption
<1> QED BY <1>1, <1>2, TypeParts DEF Init

LEMMA PerformTyped ==
  ASSUME ops \in 0..MaxOps, NEW op, Perform(op)
  PROVE  ops' \in 0..MaxOps
BY AuthProfileAssumption DEF Perform

(* A step that leaves the documents and the client alone.                  *)
LEMMA ClientFrame ==
  ASSUME ClientType, UNCHANGED client
  PROVE  ClientType'
BY DEF ClientType, client

LEMMA TypeParts2 ==
  Typed' <=> /\ server' \in Copies /\ ClientType'
             /\ calls' \in Seq(Calls)
             /\ stored' \in Emails \cup {Absent}
             /\ profile' \in UserModel \cup {Absent}
             /\ ops' \in 0..MaxOps
BY DEF Typed, ClientType

(* A document is replaced by what is merged into it.                       *)
LEMMA MergedTyped ==
  ASSUME NEW copies \in Copies, NEW e \in Emails, NEW v \in UserDoc
  PROVE  /\ Patched(copies[e], v) \in UserDoc
         /\ [copies EXCEPT ![e] = Patched(copies[e], v)] \in Copies
<1>1. copies[e] \in Docs
  BY DEF Copies
<1>2. Patched(copies[e], v) \in UserDoc
  BY <1>1, PatchedTyped
<1> QED BY <1>2 DEF Copies, Docs

(* What the oldest write is, and what is left without it.                  *)
LEMMA OldestTyped ==
  ASSUME ClientType, pending # << >>
  PROVE  /\ Head(pending) \in UserModel /\ Head(pending).email \in Emails
         /\ Doc(Head(pending)) \in UserDoc /\ Tail(pending) \in Seq(UserModel)
BY TailFacts, UserFields, DocTyped DEF ClientType

LEMMA SetTyped ==
  ASSUME ClientType, NEW u \in UserModel, SetUserProfile(u)
  PROVE  ClientType'
<1>1. Append(pending, u) \in Seq(UserModel) /\ u.email \in Emails /\ base \in Copies
  BY AppendProperties, UserFields DEF ClientType
<1>2. Turn(base, Append(pending, u), u.email, << >>)
  BY DEF SetUserProfile
<1> QED BY <1>1, <1>2, TurnTyped, EmptySeq

LEMMA NetworkTyped ==
  ASSUME TypeOK, Network
  PROVE  Typed'
<1>1. ASSUME Acknowledge PROVE Typed'
  <2> DEFINE w   == Head(pending)
             new == Patched(server[w.email], Doc(w))
  <2>1. /\ w.email \in Emails /\ Doc(w) \in UserDoc /\ Tail(pending) \in Seq(UserModel)
        /\ server \in Copies /\ base \in Copies /\ ClientType
    BY <1>1, OldestTyped, TypeParts DEF Acknowledge, ClientType
  <2>2. /\ server' = [server EXCEPT ![w.email] = new]
        /\ Turn([base EXCEPT ![w.email] = new], Tail(pending), w.email,
                IF silent = 0 THEN <<News("done", w.email, Absent)>> ELSE << >>)
    BY <1>1 DEF Acknowledge
  <2>3. News("done", w.email, Absent) \in NewsOf
    BY <2>1, NewsTyped DEF Docs
  <2> HIDE DEF w
  <2>4. new \in UserDoc /\ server' \in Copies
    BY <2>1, <2>2, MergedTyped
  <2> HIDE DEF new
  <2>5. [base EXCEPT ![w.email] = new] \in Copies
    BY <2>1, <2>4 DEF Copies, Docs
  <2>6. <<News("done", w.email, Absent)>> \in Seq(NewsOf) /\ << >> \in Seq(NewsOf)
    BY <2>3, EmptySeq
  <2>7. ClientType'
    BY <2>1, <2>2, <2>5, <2>6, TurnTyped
  <2> QED BY <1>1, <2>4, <2>7, TypeParts, TypeParts2 DEF Acknowledge
<1>2. ASSUME Reject PROVE Typed'
  <2>1. ClientType /\ base \in Copies
    BY TypeParts DEF ClientType
  <2>2. ClientType'
    BY <1>2, <2>1, OldestTyped, TurnTyped, EmptySeq DEF Reject
  <2> QED BY <1>2, <2>2, TypeParts, TypeParts2 DEF Reject
<1>3. ASSUME NEW e \in Emails, Watch(e) PROVE Typed'
  <2>1. ClientType /\ base \in Copies /\ server \in Copies /\ pending \in Seq(UserModel)
    BY TypeParts DEF ClientType
  <2>2. [base EXCEPT ![e] = server[e]] \in Copies
    BY <2>1 DEF Copies
  <2>3. ClientType'
    BY <1>3, <2>1, <2>2, TurnTyped, EmptySeq DEF Watch
  <2> QED BY <1>3, <2>3, TypeParts, TypeParts2 DEF Watch
<1> QED BY <1>1, <1>2, <1>3 DEF Network

LEMMA ClosuresTyped ==
  ASSUME TypeOK, Closures
  PROVE  Typed'
<1>1. /\ ClientType /\ calls \in Seq(Calls) /\ stored \in Emails \cup {Absent}
      /\ profile \in UserModel \cup {Absent}
  BY TypeParts
<1>2. inbox # << >> /\ Popped
  BY DEF Closures, ProfileSnapshot, ProfileAnswered, ProfileSet, Told
<1>3. ClientType' /\ Head(inbox) \in NewsOf
  BY <1>1, <1>2, PoppedTyped
<1>4. calls' \in Seq(Calls) /\ profile' \in UserModel \cup {Absent}
  <2>1. CASE FetchUserProfile(stored, calls)
    BY <1>1, <2>1, FetchTyped
  <2>2. CASE UNCHANGED <<calls, profile>>
    BY <1>1, <2>2
  <2>3. CASE ProfileAnswered
    <3> DEFINE h == Head(inbox)
    <3>1. h.email \in Emails /\ h.val \in UserDoc \cup {Absent}
      BY <1>3 DEF NewsOf
    <3>2. /\ calls' = calls
          /\ profile' = IF h.val = Absent THEN profile ELSE Model(h.email, h.val.name, h.val.profileUrl)
      BY <2>3 DEF ProfileAnswered
    <3> HIDE DEF h
    <3>3. CASE h.val = Absent
      BY <1>1, <3>2, <3>3
    <3>4. CASE h.val # Absent
      <4>1. h.val.name \in Names /\ h.val.profileUrl \in Photos \cup {Absent}
        BY <3>1, <3>4 DEF UserDoc
      <4> QED BY <1>1, <3>1, <3>2, <3>4, <4>1, ModelTyped
    <3> QED BY <3>3, <3>4
  <2> QED BY <2>1, <2>2, <2>3 DEF Closures, ProfileSnapshot, ProfileSet
<1>5. UNCHANGED <<server, stored, ops>>
  BY DEF Closures, ProfileSnapshot, ProfileAnswered, ProfileSet
<1> QED BY <1>3, <1>4, <1>5, TypeParts, TypeParts2

LEMMA AnsweredTyped ==
  ASSUME TypeOK, Answered
  PROVE  Typed'
<1>1. /\ ClientType /\ server \in Copies /\ base \in Copies /\ pending \in Seq(UserModel)
      /\ calls \in Seq(Calls) /\ stored \in Emails \cup {Absent}
      /\ profile \in UserModel \cup {Absent} /\ ops \in 0..MaxOps
  BY TypeParts DEF ClientType
<1>2. PICK i \in 1..Len(calls) :
        AnswerGet(i) \/ UserCreated(i) \/ UserDeleted(i) \/ NameChecked(i) \/ Uploaded(i)
  BY DEF Answered
<1> DEFINE user == calls[i].user
           rest == Without(calls, i)
<1>3. rest \in Seq(Calls) /\ user \in UserModel /\ user.email \in Emails
  BY <1>1, WithoutTyped, UserFields
<1> HIDE DEF rest
<1>4. ASSUME AnswerGet(i) PROVE Typed'
  <2>1. PICK copy \in {server[user.email], base[user.email]} :
          LET copies == [base EXCEPT ![user.email] = copy]
          IN  Turn(copies, pending, user.email,
                   <<News("answer", user.email, View(copies, pending, user.email))>>)
    BY <1>4 DEF AnswerGet
  <2> DEFINE copies == [base EXCEPT ![user.email] = copy]
             told   == <<News("answer", user.email, View(copies, pending, user.email))>>
  <2>2. copies \in Copies
    BY <1>1, <1>3 DEF Copies
  <2>3. Turn(copies, pending, user.email, told)
    BY <2>1
  <2> HIDE DEF copies
  <2>4. News("answer", user.email, View(copies, pending, user.email)) \in NewsOf
    BY <1>1, <1>3, <2>2, ViewTyped, NewsTyped
  <2>5. told \in Seq(NewsOf)
    BY <2>4
  <2> HIDE DEF told
  <2>6. ClientType'
    BY <1>1, <1>3, <2>2, <2>3, <2>5, TurnTyped
  <2>7. calls' = rest /\ UNCHANGED <<server, stored, profile, ops>>
    BY <1>4 DEF AnswerGet, rest
  <2> QED BY <1>1, <1>3, <2>6, <2>7, TypeParts2
<1>5. ASSUME UserCreated(i) \/ Uploaded(i) PROVE Typed'
  <2>1. calls' = rest /\ UNCHANGED <<server, stored, profile, ops>>
    BY <1>5 DEF UserCreated, Uploaded, rest
  <2>2. UNCHANGED client \/ SetUserProfile(user)
    BY <1>5 DEF UserCreated, Uploaded
  <2>3. ClientType'
    BY <1>1, <1>3, <2>2, SetTyped, ClientFrame
  <2> QED BY <1>1, <1>3, <2>1, <2>3, TypeParts2
<1>6. ASSUME UserDeleted(i) PROVE Typed'
  <2>1. \/ stored' = Absent /\ FetchUserProfile(Absent, rest)
        \/ calls' = rest /\ UNCHANGED <<stored, profile>>
    BY <1>6 DEF UserDeleted, rest
  <2>2. /\ calls' \in Seq(Calls) /\ profile' \in UserModel \cup {Absent}
        /\ stored' \in Emails \cup {Absent}
    BY <1>1, <1>3, <2>1, FetchTyped
  <2>3. UNCHANGED <<server, client, ops>>
    BY <1>6 DEF UserDeleted
  <2> QED BY <1>1, <2>2, <2>3, ClientFrame, TypeParts2
<1>7. ASSUME NameChecked(i) PROVE Typed'
  <2>1. /\ UNCHANGED <<server, stored, profile, ops>>
        /\ \/ /\ calls' \in {rest, Append(rest, Call("createUser", user))}
              /\ UNCHANGED client
           \/ /\ calls' = rest
              /\ UNCHANGED client \/ SetUserProfile(user)
           \/ /\ \/ calls' = rest
                 \/ /\ profile # Absent
                    /\ calls' = Append(rest, Call("upload", [user EXCEPT !.email = profile.email]))
              /\ UNCHANGED client
    BY <1>7 DEF NameChecked, rest
  <2>2. Call("createUser", user) \in Calls
    BY <1>3, CallTyped DEF CallOps
  <2>3. profile # Absent => Call("upload", [user EXCEPT !.email = profile.email]) \in Calls
    <3> SUFFICES ASSUME profile # Absent
                 PROVE  Call("upload", [user EXCEPT !.email = profile.email]) \in Calls
      OBVIOUS
    <3>1. profile.email \in Emails
      BY <1>1, UserFields
    <3>2. [user EXCEPT !.email = profile.email] \in UserModel
      BY <1>3, <3>1 DEF UserModel
    <3> QED BY <3>2, CallTyped DEF CallOps
  <2> HIDE DEF user
  <2>4. calls' \in Seq(Calls)
    BY <1>3, <2>1, <2>2, <2>3, AppendProperties
  <2>5. ClientType'
    BY <1>1, <1>3, <2>1, SetTyped, ClientFrame
  <2> QED BY <1>1, <2>1, <2>4, <2>5, TypeParts2
<1> QED BY <1>2, <1>4, <1>5, <1>6, <1>7

LEMMA UsersTyped ==
  ASSUME TypeOK, Users
  PROVE  Typed'
<1>1. /\ ClientType /\ server \in Copies /\ base \in Copies /\ pending \in Seq(UserModel)
      /\ calls \in Seq(Calls) /\ stored \in Emails \cup {Absent}
      /\ profile \in UserModel \cup {Absent} /\ ops \in 0..MaxOps
  BY TypeParts DEF ClientType
<1>2. ops' \in 0..MaxOps
  <2>1. CASE Restart
    BY <1>1, <2>1, PerformTyped DEF Restart
  <2>2. CASE ~Restart
    BY <1>1, <2>2, PerformTyped
       DEF Users, SignIn, AppleSignIn, SignUp, SignOut, DeleteUser, UserImageSet, UserNameSet,
           UserProfileSet, ChangeElsewhere
  <2> QED BY <2>1, <2>2
<1>3. ASSUME NEW op \in CallOps, NEW u \in UserModel
      PROVE  Append(calls, Call(op, u)) \in Seq(Calls)
  BY <1>1, CallTyped, AppendProperties
<1>4. ASSUME SignIn \/ AppleSignIn PROVE Typed'
  <2>1. PICK e \in Emails :
          /\ stored' = e
          /\ \/ FetchUserProfile(e, calls) /\ Listened(e, pending)
             \/ Listened(e, Append(pending, Of(e))) /\ UNCHANGED <<calls, profile>>
    BY <1>4 DEF SignIn, AppleSignIn
  <2>2. Append(pending, Of(e)) \in Seq(UserModel)
    BY <1>1, OfTyped, AppendProperties
  <2>3. calls' \in Seq(Calls) /\ profile' \in UserModel \cup {Absent}
    BY <1>1, <2>1, FetchTyped
  <2>4. ClientType'
    BY <1>1, <2>1, <2>2, ListenedTyped
  <2>5. server' = server
    BY <1>4 DEF SignIn, AppleSignIn
  <2> QED BY <1>1, <1>2, <2>1, <2>3, <2>4, <2>5, TypeParts2
<1>5. ASSUME SignOut PROVE Typed'
  <2>1. calls' \in Seq(Calls) /\ profile' \in UserModel \cup {Absent}
    BY <1>1, <1>5, FetchTyped DEF SignOut
  <2> QED BY <1>1, <1>2, <1>5, <2>1, ClientFrame, TypeParts2 DEF SignOut
<1>6. ASSUME SignUp \/ DeleteUser \/ UserImageSet \/ UserNameSet \/ UserProfileSet PROVE Typed'
  <2>1. UNCHANGED <<server, client, stored, profile>>
    BY <1>6 DEF SignUp, DeleteUser, UserImageSet, UserNameSet, UserProfileSet
  <2>2. \E op \in CallOps, u \in UserModel : calls' = Append(calls, Call(op, u))
    <3>1. CASE SignUp
      BY <3>1, ModelTyped DEF SignUp, CallOps
    <3>2. CASE DeleteUser
      BY <1>1, <3>2, OfTyped DEF DeleteUser, CallOps
    <3>3. CASE UserImageSet
      <4>1. PICK photo \in Photos :
              calls' = Append(calls, Call("upload", [profile EXCEPT !.profileUrl = photo]))
        BY <3>3 DEF UserImageSet
      <4>2. [profile EXCEPT !.profileUrl = photo] \in UserModel
        BY <1>1, <3>3 DEF UserModel, UserImageSet
      <4> QED BY <4>1, <4>2 DEF CallOps
    <3>4. CASE UserNameSet
      BY <1>1, <3>4, ModelTyped DEF UserNameSet, CallOps
    <3>5. CASE UserProfileSet
      BY <1>1, <3>5, ModelTyped DEF UserProfileSet, CallOps
    <3> QED BY <1>6, <3>1, <3>2, <3>3, <3>4, <3>5
  <2> QED BY <1>1, <1>2, <1>3, <2>1, <2>2, ClientFrame, TypeParts2
<1>7. ASSUME ChangeElsewhere PROVE Typed'
  <2>1. server' \in Copies
    BY <1>1, <1>7, MergedTyped DEF ChangeElsewhere
  <2> QED BY <1>1, <1>2, <1>7, <2>1, ClientFrame, TypeParts2 DEF ChangeElsewhere
<1>8. ASSUME Restart PROVE Typed'
  <2>1. calls' \in Seq(Calls)
    BY <1>1, <1>8, OfTyped, CallTyped, EmptySeq DEF Restart, CallOps
  <2>2. inbox' \in Seq(NewsOf)
    <3>1. stored # Absent => News("snapshot", stored, View(base, pending, stored)) \in NewsOf
      BY <1>1, ViewTyped, NewsTyped
    <3> QED BY <1>8, <3>1, EmptySeq DEF Restart
  <2>3. ClientType'
    BY <1>1, <1>8, <2>2 DEF Restart, ClientType
  <2> QED BY <1>1, <1>2, <1>8, <2>1, <2>3, TypeParts2 DEF Restart
<1> QED BY <1>4, <1>5, <1>6, <1>7, <1>8 DEF Users

(* The writes from before a restart are the oldest of the queue.           *)
LEMMA SilentTyped ==
  ASSUME TypeOK, [Next]_vars
  PROVE  silent' \in 0..Len(pending')
<1>1. /\ pending \in Seq(UserModel) /\ silent \in 0..Len(pending) /\ Len(pending) \in Nat
      /\ calls \in Seq(Calls)
  BY TypeParts, LenProperties DEF ClientType
<1>2. CASE Acknowledge \/ Reject
  <2>1. pending # << >> /\ pending' = Tail(pending) /\ Settled
    BY <1>2 DEF Acknowledge, Reject, Turn
  <2>2. Len(pending') = Len(pending) - 1
    BY <1>1, <2>1, TailFacts
  <2> QED BY <1>1, <2>1, <2>2 DEF Settled
<1>3. CASE Restart
  BY <1>1, <1>3 DEF Restart
<1>4. CASE silent' = silent /\ (pending' = pending \/ \E u \in UserModel : pending' = Append(pending, u))
  <2>1. CASE pending' = pending
    BY <1>1, <1>4, <2>1
  <2>2. ASSUME NEW u \in UserModel, pending' = Append(pending, u) PROVE silent' \in 0..Len(pending')
    <3>1. Len(pending') = Len(pending) + 1
      BY <1>1, <2>2, AppendProperties
    <3> QED BY <1>1, <1>4, <3>1
  <2> QED BY <1>4, <2>1, <2>2
<1>5. ASSUME NEW u \in UserModel, UNCHANGED client \/ SetUserProfile(u)
      PROVE  silent' = silent /\ (pending' = pending \/ \E w \in UserModel : pending' = Append(pending, w))
  BY <1>5 DEF client, SetUserProfile, Turn
<1>6. CASE \/ UNCHANGED client
           \/ Closures
           \/ \E e \in Emails : Watch(e)
           \/ \E i \in 1..Len(calls) : AnswerGet(i)
  BY <1>4, <1>6 DEF client, Closures, ProfileSnapshot, ProfileAnswered, ProfileSet, Popped, Watch, AnswerGet, Turn
<1>7. CASE SignIn \/ AppleSignIn
  <2>1. PICK e \in Emails : Listened(e, pending) \/ Listened(e, Append(pending, Of(e)))
    BY <1>7 DEF SignIn, AppleSignIn
  <2> QED BY <1>4, <2>1, OfTyped DEF Listened
<1>8. ASSUME NEW i \in 1..Len(calls), UserCreated(i) \/ UserDeleted(i) \/ NameChecked(i) \/ Uploaded(i)
      PROVE  silent' \in 0..Len(pending')
  <2>1. calls[i].user \in UserModel
    BY <1>1, WithoutTyped
  <2>2. UNCHANGED client \/ SetUserProfile(calls[i].user)
    BY <1>8 DEF UserCreated, UserDeleted, NameChecked, Uploaded
  <2> QED BY <1>4, <1>5, <2>1, <2>2
<1>9. CASE SignUp \/ SignOut \/ DeleteUser \/ UserImageSet \/ UserNameSet \/ UserProfileSet \/ ChangeElsewhere
  <2>1. UNCHANGED client
    BY <1>9 DEF SignUp, SignOut, DeleteUser, UserImageSet, UserNameSet, UserProfileSet, ChangeElsewhere
  <2> QED BY <1>6, <2>1
<1>10. CASE UNCHANGED vars
  BY <1>6, <1>10 DEF vars
<1> QED BY <1>2, <1>3, <1>6, <1>7, <1>8, <1>9, <1>10 DEF Next, Users, Answered, Network

(* The variables of every reachable state hold what their declarations     *)
(* allow; no call of FirebaseAuthManager is ever made for the address of   *)
(* nobody.                                                                 *)
THEOREM TypeCorrect == Spec => []TypeOK
<1>1. TypeOK /\ [Next]_vars => TypeOK'
  <2> SUFFICES ASSUME TypeOK, [Next]_vars PROVE TypeOK'
    OBVIOUS
  <2>1. Typed' => TypeOK'
    BY SilentTyped DEF Typed, TypeOK, ClientType, Copies, Docs, Calls
  <2>2. CASE UNCHANGED vars
    <3>1. Typed'
      BY <2>2, ClientFrame, TypeParts, TypeParts2 DEF vars
    <3> QED BY <2>1, <3>1
  <2> QED BY <2>1, <2>2, UsersTyped, AnsweredTyped, ClosuresTyped, NetworkTyped DEF Next
<1> QED BY <1>1, InitTyped, PTL DEF Spec

(* No write, from this device or another, takes a user's photo away:       *)
(* setUserProfile merges, FirebaseAuthManager.swift:210-225.               *)
THEOREM PhotoIsKept == Spec => PhotoKept
<1> DEFINE Kept == \A e \in Emails :
             server[e] # Absent /\ server[e].profileUrl # Absent
               => server'[e] # Absent /\ server'[e].profileUrl # Absent
<1>1. ASSUME TypeOK, [Next]_vars PROVE Kept
  <2>1. server \in Copies /\ ClientType
    BY <1>1, TypeParts
  <2>2. ASSUME NEW e \in Emails, NEW v \in UserDoc,
               server' = [server EXCEPT ![e] = Patched(server[e], v)]
        PROVE  Kept
    <3>1. server[e] \in Docs
      BY <2>1 DEF Copies
    <3>2. /\ Patched(server[e], v) # Absent
          /\ server[e] # Absent /\ server[e].profileUrl # Absent
               => Patched(server[e], v).profileUrl # Absent
      BY <3>1, PatchedTyped, AbsentIsNoDoc
    <3> QED BY <2>1, <2>2, <3>2 DEF Copies
  <2>3. CASE Acknowledge
    <3>1. pending # << >>
      BY <2>3 DEF Acknowledge
    <3> QED BY <2>1, <2>2, <2>3, <3>1, OldestTyped DEF Acknowledge
  <2>4. CASE ChangeElsewhere
    BY <2>2, <2>4 DEF ChangeElsewhere
  <2>5. CASE server' = server
    BY <2>5
  <2>6. ASSUME NEW i \in 1..Len(calls) PROVE
          AnswerGet(i) \/ UserCreated(i) \/ UserDeleted(i) \/ NameChecked(i) \/ Uploaded(i)
            => server' = server
    BY DEF AnswerGet, UserCreated, UserDeleted, NameChecked, Uploaded
  <2>7. Answered => server' = server
    BY <2>6 DEF Answered
  <2>8. Closures => server' = server
    BY DEF Closures, ProfileSnapshot, ProfileAnswered, ProfileSet
  <2>9. Network => Acknowledge \/ server' = server
    BY DEF Network, Reject, Watch
  <2>10. Users => ChangeElsewhere \/ server' = server
    BY DEF Users, SignIn, AppleSignIn, SignUp, SignOut, DeleteUser, UserImageSet, UserNameSet,
           UserProfileSet, Restart
  <2>11. UNCHANGED vars => server' = server
    BY DEF vars
  <2> QED BY <1>1, <2>3, <2>4, <2>5, <2>7, <2>8, <2>9, <2>10, <2>11 DEF Next
<1>2. TypeOK /\ [Next]_vars => [Kept]_vars
  BY <1>1
<1>3. Spec => [][Kept]_vars
  BY <1>2, TypeCorrect, PTL DEF Spec
<1> QED BY <1>3 DEF PhotoKept

-----------------------------------------------------------------------------
(* Why the published profile is fresh                                      *)

(* What the application is to be told of e's document.                     *)
IsNews(n, e) == n.type # "done" /\ n.email = e

NewsIn(q, e) == {i \in DOMAIN q : IsNews(q[i], e)}

(* The last that it is told of e, if anything, is v.                       *)
LastIs(q, e, v) ==
  \A i \in NewsIn(q, e) : (\A j \in NewsIn(q, e) : j <= i) => q[i].val = v

Fetching(q, e) == \E i \in DOMAIN q : q[i].op = "getDocument" /\ q[i].user.email = e

Matches(p, v) == p.name = v.name /\ v.profileUrl \in {Absent, p.profileUrl}

(* Whoever is asked about or told of is listened to.                       *)
Heard ==
  /\ stored # Absent => stored \in listening
  /\ \A e \in Emails : Fetching(calls, e) \/ NewsIn(inbox, e) # {} => e \in listening

(* News of a document ends with what the device sees of it.                *)
NewsUpToDate == \A e \in listening : LastIs(inbox, e, View(base, pending, e))

(* The published profile is what the device sees, or news of it, or a      *)
(* fetch, is under way.                                                    *)
ProfileTracked ==
  LET v == View(base, pending, stored)
  IN  stored # Absent /\ profile # Absent /\ profile.email = stored /\ v # Absent
        => Matches(profile, v) \/ NewsIn(inbox, stored) # {} \/ Fetching(calls, stored)

(* A view depends on the copy and on the writes of its own document, not   *)
(* on where they stand in the queue.                                       *)
LEMMA ViewShifted ==
  ASSUME NEW c1 \in Copies, NEW c2 \in Copies, NEW x \in Emails,
         NEW w1 \in Seq(UserModel), NEW w2 \in Seq(UserModel), NEW k \in Nat,
         c2[x] = c1[x],
         \A i \in Int : i \in WritesOf(x, w2) <=> i + k \in WritesOf(x, w1),
         \A i \in WritesOf(x, w2) : w2[i] = w1[i + k]
  PROVE  View(c2, w2, x) = View(c1, w1, x)
<1> DEFINE m1 == WritesOf(x, w1)
           m2 == WritesOf(x, w2)
           f1 == {i \in m1 : w1[i].profileUrl # Absent}
           f2 == {i \in m2 : w2[i].profileUrl # Absent}
<1>1. /\ m1 \in SUBSET (1..Len(w1)) /\ Len(w1) \in Nat
      /\ m2 \in SUBSET (1..Len(w2)) /\ Len(w2) \in Nat
  BY WritesAre
<1>a. /\ \A i \in Int : i \in m2 <=> i + k \in m1
      /\ \A i \in m2 : w2[i] = w1[i + k]
  OBVIOUS
<1>b. View(c2, w2, x) = View(c1, w1, x) <=>
        (IF m2 = {} THEN c1[x]
         ELSE IF f2 = {} THEN Patched(c1[x], Doc(w2[Newest(m2)]))
         ELSE [name |-> w2[Newest(m2)].name, profileUrl |-> w2[Newest(f2)].profileUrl])
        = (IF m1 = {} THEN c1[x]
           ELSE IF f1 = {} THEN Patched(c1[x], Doc(w1[Newest(m1)]))
           ELSE [name |-> w1[Newest(m1)].name, profileUrl |-> w1[Newest(f1)].profileUrl])
  BY DEF View
<1> HIDE DEF m1, m2
<1>2. m1 \subseteq Int /\ m2 \subseteq Int
  BY <1>1
<1>3. ASSUME NEW i \in m1 PROVE i - k \in m2 /\ w2[i - k] = w1[i]
  <2>1. i - k \in Int /\ (i - k) + k = i
    BY <1>2
  <2> QED BY <1>a, <2>1
<1>4. ASSUME NEW t1 \in SUBSET m1, NEW t2 \in SUBSET m2, t1 # {}, t2 # {},
             \A i \in m2 : i \in t2 <=> i + k \in t1
      PROVE  w2[Newest(t2)] = w1[Newest(t1)]
  <2> DEFINE n == Newest(t2)
  <2>1. n \in t2 /\ \A j \in t2 : j <= n
    BY <1>1, <1>4, NewestIs
  <2> HIDE DEF n
  <2>2. n + k \in t1
    BY <1>4, <2>1
  <2>3. ASSUME NEW j \in t1 PROVE j <= n + k
    <3>1. j \in Int /\ n \in Int /\ j - k \in m2 /\ (j - k) + k = j
      BY <1>2, <1>3, <2>1
    <3>2. j - k \in t2
      BY <1>4, <3>1
    <3>3. j - k <= n
      BY <2>1, <3>2
    <3> QED BY <3>1, <3>3
  <2>4. Newest(t1) = n + k
    BY <1>1, <2>2, <2>3, NewestUnique
  <2> QED BY <1>a, <2>1, <2>4 DEF n
<1>5. m1 = {} <=> m2 = {}
  BY <1>a, <1>2, <1>3
<1>6. \A i \in m2 : i \in f2 <=> i + k \in f1
  BY <1>a, <1>2
<1>7. f1 = {} <=> f2 = {}
  <2>1. ASSUME NEW i \in f1 PROVE i - k \in f2
    BY <1>3
  <2>2. ASSUME NEW i \in f2 PROVE i + k \in f1
    BY <1>6
  <2> QED BY <2>1, <2>2
<1>8. m1 # {} => w2[Newest(m2)] = w1[Newest(m1)]
  BY <1>a, <1>2, <1>4, <1>5
<1>9. f1 # {} => w2[Newest(f2)] = w1[Newest(f1)]
  BY <1>4, <1>6, <1>7
<1> HIDE DEF f1, f2
<1> QED BY <1>b, <1>5, <1>7, <1>8, <1>9

(* A write at the end of the queue is not seen in other documents, and its *)
(* own has a view with it.                                                 *)
LEMMA ViewAppended ==
  ASSUME NEW c \in Copies, NEW w \in Seq(UserModel), NEW u \in UserModel, NEW x \in Emails
  PROVE  /\ Append(w, u) \in Seq(UserModel)
         /\ x # u.email => View(c, Append(w, u), x) = View(c, w, x)
         /\ x = u.email => View(c, Append(w, u), x) # Absent
<1> DEFINE n == Append(w, u)
<1>1. /\ n \in Seq(UserModel) /\ Len(n) = Len(w) + 1 /\ Len(w) \in Nat
      /\ \A i \in 1..Len(w) : n[i] = w[i]
      /\ n[Len(w) + 1] = u
  BY AppendProperties, LenProperties
<1> HIDE DEF n
<1>2. DOMAIN w = 1..Len(w) /\ DOMAIN n = 1..(Len(w) + 1)
  BY <1>1, WritesAre
<1>3. CASE x # u.email
  <2>1. \A i \in Int : i \in WritesOf(x, n) <=> i + 0 \in WritesOf(x, w)
    BY <1>1, <1>2, <1>3 DEF WritesOf
  <2>2. \A i \in WritesOf(x, n) : n[i] = w[i + 0]
    <3>1. \A i \in WritesOf(x, n) : i \in 1..Len(w)
      BY <1>1, <1>2, <1>3 DEF WritesOf
    <3> QED BY <1>1, <3>1
  <2>3. View(c, n, x) = View(c, w, x)
    BY <1>1, <2>1, <2>2, ViewShifted
  <2> QED BY <1>1, <1>3, <2>3 DEF n
<1>4. CASE x = u.email
  <2>1. Len(w) + 1 \in WritesOf(x, n)
    BY <1>1, <1>2, <1>4 DEF WritesOf
  <2> QED BY <1>1, <1>4, <2>1, ViewTyped, AbsentIsNoDoc DEF n
<1> QED BY <1>3, <1>4

(* Neither is the oldest write's leaving the queue.                        *)
LEMMA ViewTail ==
  ASSUME NEW c \in Copies, NEW n \in Copies, NEW w \in Seq(UserModel), w # << >>,
         NEW x \in Emails, x # Head(w).email, n[x] = c[x]
  PROVE  View(n, Tail(w), x) = View(c, w, x)
<1> DEFINE t == Tail(w)
<1>1. /\ t \in Seq(UserModel) /\ Head(w) = w[1]
      /\ Len(w) \in Nat /\ Len(t) \in Nat /\ Len(t) + 1 = Len(w)
      /\ \A i \in 1..Len(t) : t[i] = w[i + 1]
  BY TailFacts, LenProperties
<1> HIDE DEF t
<1>2. DOMAIN w = 1..Len(w) /\ DOMAIN t = 1..Len(t)
  BY <1>1, WritesAre
<1>3. \A i \in Int : i \in 1..Len(t) <=> i + 1 \in 1..Len(w) /\ i + 1 # 1
  BY <1>1
<1>4. w[1].email # x
  BY <1>1
<1>5. \A i \in Int : i \in WritesOf(x, t) <=> i + 1 \in WritesOf(x, w)
  <2> SUFFICES ASSUME NEW i \in Int
               PROVE  i \in WritesOf(x, t) <=> i + 1 \in WritesOf(x, w)
    OBVIOUS
  <2>1. CASE i \in 1..Len(t)
    BY <1>1, <1>2, <1>3, <2>1 DEF WritesOf
  <2>2. CASE i \notin 1..Len(t)
    <3>1. i + 1 \notin 1..Len(w) \/ i + 1 = 1
      BY <1>3, <2>2
    <3>2. i \notin WritesOf(x, t)
      BY <1>2, <2>2 DEF WritesOf
    <3>3. i + 1 \notin WritesOf(x, w)
      BY <1>2, <1>4, <3>1 DEF WritesOf
    <3> QED BY <3>2, <3>3
  <2> QED BY <2>1, <2>2
<1>6. \A i \in WritesOf(x, t) : t[i] = w[i + 1]
  BY <1>1, <1>2 DEF WritesOf
<1>7. t \in Seq(UserModel)
  BY <1>1
<1>8. View(n, t, x) = View(c, w, x)
  BY <1>5, <1>6, <1>7, ViewShifted
<1> QED BY <1>8 DEF t

LEMMA ViewOfCopies ==
  ASSUME NEW c, NEW n, NEW w, NEW x, n[x] = c[x]
  PROVE  View(n, w, x) = View(c, w, x)
BY DEF View

-----------------------------------------------------------------------------
(* News at either end of the inbox                                         *)

LEMMA NewsDomain ==
  ASSUME NEW q \in Seq(NewsOf), NEW e
  PROVE  /\ Len(q) \in Nat /\ DOMAIN q = 1..Len(q)
         /\ NewsIn(q, e) \in SUBSET (1..Len(q))
         /\ \A i \in NewsIn(q, e) : i \in Int /\ q[i] \in NewsOf /\ e \in Emails
<1>1. Len(q) \in Nat /\ DOMAIN q = 1..Len(q)
  BY LenProperties
<1>2. NewsIn(q, e) \subseteq 1..Len(q)
  BY <1>1 DEF NewsIn
<1>3. ASSUME NEW i \in NewsIn(q, e) PROVE i \in Int /\ q[i] \in NewsOf /\ e \in Emails
  <2>1. i \in 1..Len(q) /\ IsNews(q[i], e)
    BY <1>1 DEF NewsIn
  <2>2. q[i] \in NewsOf
    BY <2>1, ElementOfSeq
  <2> QED BY <1>1, <2>1, <2>2 DEF IsNews, NewsOf
<1> QED BY <1>1, <1>2, <1>3

LEMMA NewsAppended ==
  ASSUME NEW q \in Seq(NewsOf), NEW n \in NewsOf, NEW e
  PROVE  /\ Append(q, n) \in Seq(NewsOf)
         /\ IsNews(n, e) => NewsIn(Append(q, n), e) # {} /\ LastIs(Append(q, n), e, n.val)
         /\ ~IsNews(n, e) => /\ NewsIn(Append(q, n), e) = NewsIn(q, e)
                             /\ \A v : LastIs(q, e, v) => LastIs(Append(q, n), e, v)
<1> DEFINE a == Append(q, n)
<1>1. /\ a \in Seq(NewsOf) /\ Len(a) = Len(q) + 1 /\ Len(q) \in Nat
      /\ \A i \in 1..Len(q) : a[i] = q[i]
      /\ a[Len(q) + 1] = n
  BY AppendProperties, LenProperties
<1> HIDE DEF a
<1>2. DOMAIN q = 1..Len(q) /\ DOMAIN a = 1..(Len(q) + 1)
  BY <1>1, NewsDomain
<1>3. ASSUME IsNews(n, e) PROVE NewsIn(a, e) # {} /\ LastIs(a, e, n.val)
  <2>1. Len(q) + 1 \in NewsIn(a, e)
    BY <1>1, <1>2, <1>3 DEF NewsIn
  <2>2. ASSUME NEW i \in NewsIn(a, e), \A j \in NewsIn(a, e) : j <= i
        PROVE  a[i].val = n.val
    <3>1. i \in 1..(Len(q) + 1) /\ Len(q) + 1 <= i
      BY <1>2, <2>1, <2>2 DEF NewsIn
    <3>2. i = Len(q) + 1
      BY <1>1, <3>1
    <3> QED BY <1>1, <3>2
  <2> QED BY <2>1, <2>2 DEF LastIs
<1>4. ASSUME ~IsNews(n, e)
      PROVE  /\ NewsIn(a, e) = NewsIn(q, e)
             /\ \A v : LastIs(q, e, v) => LastIs(a, e, v)
  <2>1. NewsIn(a, e) = NewsIn(q, e)
    BY <1>1, <1>2, <1>4 DEF NewsIn
  <2>2. \A i \in NewsIn(q, e) : a[i] = q[i]
    BY <1>1, <1>2 DEF NewsIn
  <2> QED BY <2>1, <2>2 DEF LastIs
<1> QED BY <1>1, <1>3, <1>4 DEF a

LEMMA NewsPopped ==
  ASSUME NEW q \in Seq(NewsOf), q # << >>, NEW e
  PROVE  /\ \A v : LastIs(q, e, v) => LastIs(Tail(q), e, v)
         /\ NewsIn(Tail(q), e) # {} => NewsIn(q, e) # {}
         /\ ~IsNews(Head(q), e) /\ NewsIn(q, e) # {} => NewsIn(Tail(q), e) # {}
         /\ \A v : IsNews(Head(q), e) /\ NewsIn(Tail(q), e) = {} /\ LastIs(q, e, v)
                     => Head(q).val = v
<1> DEFINE t == Tail(q)
<1>1. /\ t \in Seq(NewsOf) /\ Head(q) = q[1]
      /\ Len(q) \in Nat /\ Len(t) \in Nat /\ Len(t) + 1 = Len(q)
      /\ \A i \in 1..Len(t) : t[i] = q[i + 1]
  BY TailFacts, LenProperties
<1> HIDE DEF t
<1>2. DOMAIN q = 1..Len(q) /\ DOMAIN t = 1..Len(t)
  BY <1>1, NewsDomain
<1>3. ASSUME NEW i \in NewsIn(t, e) PROVE i \in Int /\ i + 1 \in NewsIn(q, e) /\ q[i + 1] = t[i]
  <2>1. i \in 1..Len(t) /\ IsNews(t[i], e)
    BY <1>2 DEF NewsIn
  <2>2. i + 1 \in 1..Len(q) /\ q[i + 1] = t[i]
    BY <1>1, <2>1
  <2> QED BY <1>2, <2>1, <2>2 DEF NewsIn
<1>4. ASSUME NEW i \in NewsIn(q, e), i # 1 PROVE i - 1 \in NewsIn(t, e) /\ i \in Int
  <2>1. i \in 1..Len(q) /\ IsNews(q[i], e)
    BY <1>2 DEF NewsIn
  <2>2. i - 1 \in 1..Len(t) /\ (i - 1) + 1 = i
    BY <1>1, <1>4, <2>1
  <2>3. t[i - 1] = q[i]
    BY <1>1, <2>2
  <2> QED BY <1>2, <2>1, <2>2, <2>3 DEF NewsIn
<1>5. ASSUME NEW v, LastIs(q, e, v) PROVE LastIs(t, e, v)
  <2> SUFFICES ASSUME NEW i \in NewsIn(t, e), \A j \in NewsIn(t, e) : j <= i
               PROVE  t[i].val = v
    BY DEF LastIs
  <2>1. i \in Int /\ i + 1 \in NewsIn(q, e) /\ q[i + 1] = t[i]
    BY <1>3
  <2>2. ASSUME NEW j \in NewsIn(q, e) PROVE j <= i + 1
    <3>1. CASE j = 1
      <4>1. i \in 1..Len(t)
        BY <1>2 DEF NewsIn
      <4> QED BY <1>1, <3>1, <4>1
    <3>2. CASE j # 1
      <4>1. j - 1 \in NewsIn(t, e) /\ j \in Int
        BY <1>4, <3>2
      <4>2. j - 1 <= i
        BY <4>1
      <4> QED BY <2>1, <4>1, <4>2
    <3> QED BY <3>1, <3>2
  <2> QED BY <1>5, <2>1, <2>2 DEF LastIs
<1>6. NewsIn(t, e) # {} => NewsIn(q, e) # {}
  BY <1>3
<1>7. ASSUME ~IsNews(Head(q), e), NewsIn(q, e) # {} PROVE NewsIn(t, e) # {}
  <2>1. PICK i \in NewsIn(q, e) : TRUE
    BY <1>7
  <2>2. i # 1
    BY <1>1, <1>7, <2>1 DEF NewsIn
  <2> QED BY <1>4, <2>1, <2>2
<1>8. ASSUME NEW v, IsNews(Head(q), e), NewsIn(t, e) = {}, LastIs(q, e, v)
      PROVE  Head(q).val = v
  <2>1. 1 \in NewsIn(q, e)
    <3>1. 1 \in 1..Len(q)
      BY <1>1
    <3> QED BY <1>1, <1>2, <1>8, <3>1 DEF NewsIn
  <2>2. \A j \in NewsIn(q, e) : j = 1
    BY <1>4, <1>8
  <2>3. q[1].val = v
    BY <1>8, <2>1, <2>2 DEF LastIs
  <2> QED BY <1>1, <2>3
<1> QED BY <1>5, <1>6, <1>7, <1>8 DEF t

-----------------------------------------------------------------------------
(* What the client's steps do to the news                                  *)

(* News that are told keep up with the views, if only e's may change.      *)
NewsKept ==
  /\ listening \subseteq listening'
  /\ \A x \in Emails : NewsIn(inbox', x) # {} => x \in listening'
  /\ \A x \in listening' : LastIs(inbox', x, View(base', pending', x))
  /\ \A x \in Emails : NewsIn(inbox, x) # {} => NewsIn(inbox', x) # {}
  /\ \A x \in listening :
       View(base', pending', x) # View(base, pending, x) => NewsIn(inbox', x) # {}

LEMMA TurnNews ==
  ASSUME ClientType, NewsUpToDate, \A x \in Emails : NewsIn(inbox, x) # {} => x \in listening,
         NEW copies \in Copies, NEW writes \in Seq(UserModel), NEW e \in Emails, NEW told,
         Turn(copies, writes, e, told),
         \A x \in Emails : x # e => View(copies, writes, x) = View(base, pending, x),
         \/ told = << >>
         \/ told = <<News("done", e, Absent)>>
         \/ e \in listening /\ told = <<News("answer", e, View(copies, writes, e))>>
  PROVE  NewsKept /\ (told = <<News("answer", e, View(copies, writes, e))>> => NewsIn(inbox', e) # {})
<1> DEFINE v     == View(copies, writes, e)
           raise == e \in listening /\ v # View(base, pending, e)
           mid   == IF raise THEN Append(inbox, News("snapshot", e, v)) ELSE inbox
<1>1. /\ base' = copies /\ pending' = writes /\ listening' = listening
      /\ inbox' = inbox \o (IF raise THEN <<News("snapshot", e, v)>> ELSE << >>) \o told
  BY DEF Turn
<1>2. v \in Docs /\ inbox \in Seq(NewsOf) /\ listening \subseteq Emails
  BY ViewTyped DEF ClientType
<1>3. v = View(base', pending', e)
  BY <1>1
<1>4. \A x \in Emails : x # e => View(base', pending', x) = View(base, pending, x)
  BY <1>1
<1> HIDE DEF v
<1>5. /\ News("snapshot", e, v) \in NewsOf /\ News("answer", e, v) \in NewsOf
      /\ News("done", e, Absent) \in NewsOf
  BY <1>2, NewsTyped DEF Docs
<1>6. /\ IsNews(News("snapshot", e, v), e) /\ News("snapshot", e, v).val = v
      /\ IsNews(News("answer", e, v), e) /\ News("answer", e, v).val = v
      /\ \A x : ~IsNews(News("done", e, Absent), x)
      /\ \A x : x # e => ~IsNews(News("snapshot", e, v), x) /\ ~IsNews(News("answer", e, v), x)
  BY DEF IsNews, News
<1>7. inbox' = mid \o told
  <2>1. inbox \o << >> = inbox
    BY <1>2, ConcatEmptySeq
  <2>2. inbox \o <<News("snapshot", e, v)>> = Append(inbox, News("snapshot", e, v))
    BY <1>2, <1>5, AppendIsConcat
  <2> QED BY <1>1, <2>1, <2>2
<1>8. /\ mid \in Seq(NewsOf)
      /\ \A x \in Emails : NewsIn(mid, x) # {} => x \in listening
      /\ \A x \in Emails : NewsIn(inbox, x) # {} => NewsIn(mid, x) # {}
      /\ \A x \in listening : LastIs(mid, x, View(base', pending', x))
      /\ raise => NewsIn(mid, e) # {}
  <2>1. CASE raise
    <3>1. mid = Append(inbox, News("snapshot", e, v))
      BY <2>1
    <3>2. mid \in Seq(NewsOf) /\ NewsIn(mid, e) # {} /\ LastIs(mid, e, v)
      BY <1>2, <1>5, <1>6, <3>1, NewsAppended
    <3>3. ASSUME NEW x \in Emails, x # e
          PROVE  /\ NewsIn(mid, x) = NewsIn(inbox, x)
                 /\ \A u : LastIs(inbox, x, u) => LastIs(mid, x, u)
      BY <1>2, <1>5, <1>6, <3>1, <3>3, NewsAppended
    <3> HIDE DEF mid
    <3>4. \A x \in Emails : NewsIn(mid, x) # {} => x \in listening
      BY <2>1, <3>3
    <3>5. \A x \in Emails : NewsIn(inbox, x) # {} => NewsIn(mid, x) # {}
      BY <3>2, <3>3
    <3>6. \A x \in listening : LastIs(mid, x, View(base', pending', x))
      BY <1>2, <1>3, <1>4, <3>2, <3>3 DEF NewsUpToDate
    <3> QED BY <3>2, <3>4, <3>5, <3>6
  <2>2. CASE ~raise
    <3>1. mid = inbox
      BY <2>2
    <3>2. \A x \in listening : View(base', pending', x) = View(base, pending, x)
      BY <1>2, <1>3, <1>4, <2>2
    <3> HIDE DEF mid, raise
    <3> QED BY <1>2, <2>2, <3>1, <3>2 DEF NewsUpToDate
  <2> QED BY <2>1, <2>2
<1>9. \A x \in listening :
        View(base', pending', x) # View(base, pending, x) => NewsIn(mid, x) # {}
  BY <1>2, <1>3, <1>4, <1>8
<1> HIDE DEF mid, raise
<1>10. CASE told = << >>
  <2>1. inbox' = mid
    BY <1>7, <1>8, <1>10, ConcatEmptySeq
  <2>2. told # <<News("answer", e, View(copies, writes, e))>>
    BY <1>10
  <2> QED BY <1>1, <1>8, <1>9, <2>1, <2>2 DEF NewsKept
<1>11. CASE told = <<News("done", e, Absent)>>
  <2>1. inbox' = Append(mid, News("done", e, Absent))
    BY <1>5, <1>7, <1>8, <1>11, AppendIsConcat
  <2>2. ASSUME NEW x PROVE /\ NewsIn(inbox', x) = NewsIn(mid, x)
                           /\ \A u : LastIs(mid, x, u) => LastIs(inbox', x, u)
    BY <1>5, <1>6, <1>8, <2>1, NewsAppended
  <2>3. told # <<News("answer", e, View(copies, writes, e))>>
    BY <1>11 DEF News
  <2> QED BY <1>1, <1>8, <1>9, <2>2, <2>3 DEF NewsKept
<1>12. CASE e \in listening /\ told = <<News("answer", e, View(copies, writes, e))>>
  <2>1. inbox' = Append(mid, News("answer", e, v))
    BY <1>5, <1>7, <1>8, <1>12, AppendIsConcat DEF v
  <2>2. NewsIn(inbox', e) # {} /\ LastIs(inbox', e, v)
    BY <1>5, <1>6, <1>8, <2>1, NewsAppended
  <2>3. ASSUME NEW x \in Emails, x # e
        PROVE  /\ NewsIn(inbox', x) = NewsIn(mid, x)
               /\ \A u : LastIs(mid, x, u) => LastIs(inbox', x, u)
    BY <1>5, <1>6, <1>8, <2>1, <2>3, NewsAppended
  <2>4. \A x \in listening : LastIs(inbox', x, View(base', pending', x))
    BY <1>2, <1>3, <1>8, <2>2, <2>3
  <2>5. \A x \in Emails : NewsIn(inbox', x) # {} => x \in listening
    BY <1>8, <1>12, <2>3
  <2>6. \A x \in Emails : NewsIn(mid, x) # {} => NewsIn(inbox', x) # {}
    BY <2>2, <2>3
  <2> QED BY <1>1, <1>2, <1>8, <1>9, <2>2, <2>4, <2>5, <2>6 DEF NewsKept
<1> QED BY <1>10, <1>11, <1>12

(* A listener that is registered is told of a document that is there.      *)
LEMMA ListenedNews ==
  ASSUME ClientType, NewsUpToDate, \A x \in Emails : NewsIn(inbox, x) # {} => x \in listening,
         NEW writes \in Seq(UserModel), NEW e \in Emails, Listened(e, writes),
         \A x \in Emails : x # e => View(base, writes, x) = View(base, pending, x),
         writes = pending \/ View(base, writes, e) # Absent
  PROVE  NewsKept /\ (View(base', pending', e) # Absent => NewsIn(inbox', e) # {})
<1> DEFINE v == View(base, writes, e)
<1>1. /\ base' = base /\ pending' = writes /\ listening' = listening \cup {e}
      /\ inbox' = IF v = Absent THEN inbox ELSE Append(inbox, News("snapshot", e, v))
  BY DEF Listened
<1>2. v \in Docs /\ inbox \in Seq(NewsOf) /\ listening \subseteq Emails
  BY ViewTyped DEF ClientType
<1>3. v = View(base', pending', e)
  BY <1>1
<1>4. \A x \in Emails : x # e => View(base', pending', x) = View(base, pending, x)
  BY <1>1
<1>5. v # Absent \/ v = View(base, pending, e)
  OBVIOUS
<1> HIDE DEF v
<1>6. News("snapshot", e, v) \in NewsOf
  BY <1>2, NewsTyped
<1>7. /\ IsNews(News("snapshot", e, v), e) /\ News("snapshot", e, v).val = v
      /\ \A x : x # e => ~IsNews(News("snapshot", e, v), x)
  BY DEF IsNews, News
<1>8. CASE v # Absent
  <2>1. inbox' = Append(inbox, News("snapshot", e, v))
    BY <1>1, <1>8
  <2>2. NewsIn(inbox', e) # {} /\ LastIs(inbox', e, v)
    BY <1>2, <1>6, <1>7, <2>1, NewsAppended
  <2>3. ASSUME NEW x \in Emails, x # e
        PROVE  /\ NewsIn(inbox', x) = NewsIn(inbox, x)
               /\ \A u : LastIs(inbox, x, u) => LastIs(inbox', x, u)
    BY <1>2, <1>6, <1>7, <2>1, <2>3, NewsAppended
  <2>4. \A x \in listening' : LastIs(inbox', x, View(base', pending', x))
    BY <1>1, <1>2, <1>3, <1>4, <2>2, <2>3 DEF NewsUpToDate
  <2>5. \A x \in Emails : NewsIn(inbox', x) # {} => x \in listening'
    BY <1>1, <2>3
  <2>6. \A x \in Emails : NewsIn(inbox, x) # {} => NewsIn(inbox', x) # {}
    BY <2>2, <2>3
  <2>7. \A x \in listening :
          View(base', pending', x) # View(base, pending, x) => NewsIn(inbox', x) # {}
    BY <1>2, <1>4, <2>2
  <2> QED BY <1>1, <2>2, <2>4, <2>5, <2>6, <2>7 DEF NewsKept
<1>9. CASE v = Absent
  <2>1. inbox' = inbox
    BY <1>1, <1>9
  <2>2. \A x \in Emails : View(base', pending', x) = View(base, pending, x)
    BY <1>3, <1>4, <1>5, <1>9
  <2>3. ASSUME NEW x \in listening' PROVE LastIs(inbox', x, View(base', pending', x))
    <3>1. CASE x \in listening
      BY <1>2, <2>1, <2>2, <3>1 DEF NewsUpToDate
    <3>2. CASE x \notin listening
      <4>1. NewsIn(inbox, x) = {}
        BY <1>1, <2>3, <3>2
      <4> QED BY <2>1, <4>1 DEF LastIs
    <3> QED BY <3>1, <3>2
  <2> QED BY <1>1, <1>2, <1>3, <1>9, <2>1, <2>2, <2>3 DEF NewsKept
<1> QED BY <1>8, <1>9

-----------------------------------------------------------------------------
(* The calls that wait                                                     *)

IsFetch(c, e) == c.op = "getDocument" /\ c.user.email = e

LEMMA FetchAppended ==
  ASSUME NEW q \in Seq(Calls), NEW c \in Calls, NEW e
  PROVE  Fetching(Append(q, c), e) <=> Fetching(q, e) \/ IsFetch(c, e)
<1> DEFINE a == Append(q, c)
<1>1. /\ a \in Seq(Calls) /\ Len(a) = Len(q) + 1 /\ Len(q) \in Nat
      /\ \A i \in 1..Len(q) : a[i] = q[i]
      /\ a[Len(q) + 1] = c
  BY AppendProperties, LenProperties
<1> HIDE DEF a
<1>2. DOMAIN q = 1..Len(q) /\ DOMAIN a = 1..Len(a)
  BY <1>1, LenProperties
<1>3. Fetching(q, e) \/ IsFetch(c, e) => Fetching(a, e)
  <2>1. CASE Fetching(q, e)
    BY <1>1, <1>2, <2>1 DEF Fetching
  <2>2. CASE IsFetch(c, e)
    <3>1. Len(q) + 1 \in DOMAIN a
      BY <1>1, <1>2
    <3> QED BY <1>1, <2>2, <3>1 DEF Fetching, IsFetch
  <2> QED BY <2>1, <2>2
<1>4. ASSUME Fetching(a, e) PROVE Fetching(q, e) \/ IsFetch(c, e)
  <2>1. PICK i \in DOMAIN a : a[i].op = "getDocument" /\ a[i].user.email = e
    BY <1>4 DEF Fetching
  <2>2. i \in 1..Len(q) \/ i = Len(q) + 1
    BY <1>1, <1>2
  <2> QED BY <1>1, <1>2, <2>1, <2>2 DEF Fetching, IsFetch
<1> QED BY <1>3, <1>4 DEF a

LEMMA FetchWithout ==
  ASSUME NEW q \in Seq(Calls), NEW i \in 1..Len(q), NEW e
  PROVE  /\ Fetching(Without(q, i), e) => Fetching(q, e)
         /\ Fetching(q, e) => Fetching(Without(q, i), e) \/ IsFetch(q[i], e)
<1> DEFINE w == Without(q, i)
<1>1. /\ w \in Seq(Calls) /\ Len(q) \in Nat /\ Len(w) + 1 = Len(q)
      /\ \A j \in 1..Len(w) : w[j] = q[IF j < i THEN j ELSE j + 1]
  BY WithoutFacts DEF Without
<1> HIDE DEF w
<1>2. /\ DOMAIN q = 1..Len(q) /\ DOMAIN w = 1..Len(w) /\ Len(w) \in Nat
      /\ i \in Nat /\ 1 <= i /\ i <= Len(q)
  BY <1>1, LenProperties
<1>3. ASSUME Fetching(w, e) PROVE Fetching(q, e)
  <2>1. PICK j \in 1..Len(w) : w[j].op = "getDocument" /\ w[j].user.email = e
    BY <1>2, <1>3 DEF Fetching
  <2>2. (IF j < i THEN j ELSE j + 1) \in 1..Len(q)
    BY <1>1, <1>2
  <2> QED BY <1>1, <1>2, <2>1, <2>2 DEF Fetching
<1>4. ASSUME Fetching(q, e), ~IsFetch(q[i], e) PROVE Fetching(w, e)
  <2>1. PICK j \in 1..Len(q) : q[j].op = "getDocument" /\ q[j].user.email = e
    BY <1>2, <1>4 DEF Fetching
  <2>2. j # i
    BY <1>4, <2>1 DEF IsFetch
  <2>3. CASE j < i
    <3>1. j \in 1..Len(w) /\ w[j] = q[j]
      BY <1>1, <1>2, <2>3
    <3> QED BY <1>2, <2>1, <3>1 DEF Fetching
  <2>4. CASE ~(j < i)
    <3>1. j - 1 \in 1..Len(w) /\ ~(j - 1 < i) /\ (j - 1) + 1 = j
      BY <1>1, <1>2, <2>2, <2>4
    <3>2. w[j - 1] = q[j]
      BY <1>1, <3>1
    <3> QED BY <1>2, <2>1, <3>1, <3>2 DEF Fetching
  <2> QED BY <2>3, <2>4
<1> QED BY <1>3, <1>4 DEF w

-----------------------------------------------------------------------------
(* The invariant of freshness                                              *)

Fresh == Heard /\ NewsUpToDate /\ ProfileTracked

LEMMA NewsFrame ==
  ASSUME Heard, NewsUpToDate, UNCHANGED client
  PROVE  NewsKept
BY DEF Heard, NewsUpToDate, NewsKept, client

(* A step that leaves the user and the profile alone, keeps the news going *)
(* and ends no fetch of the user's document without news.                  *)
LEMMA FreshAcross ==
  ASSUME TypeOK, Fresh, NewsKept, stored' = stored, profile' = profile,
         \A e \in Emails : Fetching(calls', e) => Fetching(calls, e) \/ e \in listening',
         stored # Absent /\ Fetching(calls, stored)
           => Fetching(calls', stored) \/ NewsIn(inbox', stored) # {}
  PROVE  Fresh'
<1>1. Heard'
  BY DEF Fresh, Heard, NewsKept
<1>2. NewsUpToDate'
  BY DEF NewsKept, NewsUpToDate
<1>3. ASSUME stored # Absent PROVE stored \in Emails /\ stored \in listening
  BY <1>3, TypeParts DEF Fresh, Heard
<1>4. ProfileTracked'
  <2> DEFINE v == View(base, pending, stored)
             w == View(base', pending', stored)
  <2> SUFFICES ASSUME stored # Absent, profile # Absent, profile.email = stored, w # Absent
               PROVE  Matches(profile, w) \/ NewsIn(inbox', stored) # {} \/ Fetching(calls', stored)
    BY DEF ProfileTracked
  <2>1. CASE w # v
    BY <1>3, <2>1 DEF NewsKept
  <2>2. CASE w = v
    <3>1. Matches(profile, v) \/ NewsIn(inbox, stored) # {} \/ Fetching(calls, stored)
      BY <2>2 DEF Fresh, ProfileTracked
    <3> QED BY <1>3, <2>2, <3>1 DEF NewsKept
  <2> QED BY <2>1, <2>2
<1> QED BY <1>1, <1>2, <1>4 DEF Fresh

LEMMA NetworkFresh ==
  ASSUME TypeOK, Fresh, Network
  PROVE  Fresh'
<1>1. /\ ClientType /\ base \in Copies /\ server \in Copies /\ pending \in Seq(UserModel)
      /\ NewsUpToDate /\ \A x \in Emails : NewsIn(inbox, x) # {} => x \in listening
  BY TypeParts DEF ClientType, Fresh, Heard
<1>2. UNCHANGED <<calls, stored, profile>>
  BY DEF Network, Acknowledge, Reject, Watch
<1>3. ASSUME NewsKept PROVE Fresh'
  BY <1>2, <1>3, FreshAcross
<1>4. CASE Acknowledge
  <2> DEFINE e      == Head(pending).email
             copies == [base EXCEPT ![e] = Patched(server[e], Doc(Head(pending)))]
  <2>1. pending # << >> /\ e \in Emails /\ Doc(Head(pending)) \in UserDoc /\ Tail(pending) \in Seq(UserModel)
    BY <1>1, <1>4, OldestTyped DEF Acknowledge
  <2>2. Patched(server[e], Doc(Head(pending))) \in Docs
    BY <1>1, <2>1, MergedTyped DEF Docs
  <2>3. copies \in Copies /\ \A x \in Emails : x # e => copies[x] = base[x]
    BY <1>1, <2>2 DEF Copies
  <2>4. \/ Turn(copies, Tail(pending), e, <<News("done", e, Absent)>>)
        \/ Turn(copies, Tail(pending), e, << >>)
    BY <1>4 DEF Acknowledge
  <2> HIDE DEF copies
  <2>5. \A x \in Emails : x # e => View(copies, Tail(pending), x) = View(base, pending, x)
    BY <1>1, <2>1, <2>3, ViewTail
  <2>6. NewsKept
    BY <1>1, <2>1, <2>3, <2>4, <2>5, TurnNews
  <2> QED BY <1>3, <2>6
<1>5. CASE Reject
  <2> DEFINE e == Head(pending).email
  <2>1. pending # << >> /\ e \in Emails /\ Tail(pending) \in Seq(UserModel)
    BY <1>1, <1>5, OldestTyped DEF Reject
  <2>2. Turn(base, Tail(pending), e, << >>)
    BY <1>5 DEF Reject
  <2>3. \A x \in Emails : x # e => View(base, Tail(pending), x) = View(base, pending, x)
    BY <1>1, <2>1, ViewTail
  <2>4. NewsKept
    BY <1>1, <2>1, <2>2, <2>3, TurnNews
  <2> QED BY <1>3, <2>4
<1>6. ASSUME NEW e \in Emails, Watch(e) PROVE Fresh'
  <2> DEFINE copies == [base EXCEPT ![e] = server[e]]
  <2>1. copies \in Copies /\ \A x \in Emails : x # e => copies[x] = base[x]
    BY <1>1 DEF Copies
  <2>2. Turn(copies, pending, e, << >>)
    BY <1>6 DEF Watch
  <2> HIDE DEF copies
  <2>3. \A x \in Emails : x # e => View(copies, pending, x) = View(base, pending, x)
    BY <2>1, ViewOfCopies
  <2>4. NewsKept
    BY <1>1, <2>1, <2>2, <2>3, TurnNews
  <2> QED BY <1>3, <2>4
<1> QED BY <1>4, <1>5, <1>6 DEF Network

LEMMA SetNews ==
  ASSUME TypeOK, Fresh, NEW u \in UserModel, SetUserProfile(u)
  PROVE  NewsKept
<1>1. /\ ClientType /\ base \in Copies /\ pending \in Seq(UserModel) /\ u.email \in Emails
      /\ NewsUpToDate /\ \A x \in Emails : NewsIn(inbox, x) # {} => x \in listening
  BY TypeParts, UserFields DEF ClientType, Fresh, Heard
<1>2. Turn(base, Append(pending, u), u.email, << >>) /\ Append(pending, u) \in Seq(UserModel)
  BY <1>1, AppendProperties DEF SetUserProfile
<1>3. \A x \in Emails : x # u.email => View(base, Append(pending, u), x) = View(base, pending, x)
  BY <1>1, ViewAppended
<1> QED BY <1>1, <1>2, <1>3, TurnNews

(* Calls other than of getDocument come and go.                            *)
LEMMA OtherCalls ==
  ASSUME calls \in Seq(Calls), NEW i \in 1..Len(calls), NEW e,
         calls[i].op # "getDocument"
  PROVE  Fetching(Without(calls, i), e) <=> Fetching(calls, e)
BY FetchWithout DEF IsFetch

LEMMA OtherCallAppended ==
  ASSUME NEW q \in Seq(Calls), NEW op \in CallOps, NEW u \in UserModel, op # "getDocument", NEW e
  PROVE  Fetching(Append(q, Call(op, u)), e) <=> Fetching(q, e)
<1>1. Call(op, u) \in Calls /\ Call(op, u).op = op
  BY CallTyped DEF Call
<1> QED BY <1>1, FetchAppended DEF IsFetch

LEMMA AnsweredFresh ==
  ASSUME TypeOK, Fresh, Answered
  PROVE  Fresh'
<1>1. /\ ClientType /\ base \in Copies /\ server \in Copies /\ pending \in Seq(UserModel)
      /\ calls \in Seq(Calls) /\ Heard
      /\ NewsUpToDate /\ \A x \in Emails : NewsIn(inbox, x) # {} => x \in listening
  BY TypeParts DEF ClientType, Fresh, Heard
<1>2. PICK i \in 1..Len(calls) :
        AnswerGet(i) \/ UserCreated(i) \/ UserDeleted(i) \/ NameChecked(i) \/ Uploaded(i)
  BY DEF Answered
<1> DEFINE user == calls[i].user
           rest == Without(calls, i)
<1>3. rest \in Seq(Calls) /\ user \in UserModel /\ user.email \in Emails
  BY <1>1, WithoutTyped, UserFields
<1>4. ASSUME AnswerGet(i) PROVE Fresh'
  <2> DEFINE e == user.email
  <2>1. PICK copy \in {server[e], base[e]} :
          LET copies == [base EXCEPT ![e] = copy]
          IN  Turn(copies, pending, e, <<News("answer", e, View(copies, pending, e))>>)
    BY <1>4 DEF AnswerGet
  <2> DEFINE copies == [base EXCEPT ![e] = copy]
             told   == <<News("answer", e, View(copies, pending, e))>>
  <2>2. copies \in Copies /\ \A x \in Emails : x # e => copies[x] = base[x]
    BY <1>1, <1>3 DEF Copies
  <2>3. Turn(copies, pending, e, told)
    BY <2>1
  <2> HIDE DEF copies
  <2>4. \A x \in Emails : x # e => View(copies, pending, x) = View(base, pending, x)
    BY <2>2, ViewOfCopies
  <2>5. Fetching(calls, e)
    BY <1>1, <1>4, LenProperties DEF AnswerGet, Fetching
  <2>6. e \in listening
    BY <1>1, <1>3, <2>5 DEF Heard
  <2>7. NewsKept /\ NewsIn(inbox', e) # {}
    BY <1>1, <1>3, <2>2, <2>3, <2>4, <2>6, TurnNews
  <2>8. calls' = rest /\ UNCHANGED <<stored, profile>>
    BY <1>4 DEF AnswerGet
  <2>9. \A x : /\ Fetching(rest, x) => Fetching(calls, x)
               /\ Fetching(calls, x) => Fetching(rest, x) \/ x = e
    BY <1>1, FetchWithout DEF IsFetch
  <2> QED BY <2>7, <2>8, <2>9, FreshAcross
<1>5. ASSUME UserCreated(i) \/ Uploaded(i) PROVE Fresh'
  <2>1. /\ calls' = rest /\ UNCHANGED <<stored, profile>> /\ calls[i].op # "getDocument"
        /\ UNCHANGED client \/ SetUserProfile(user)
    BY <1>5 DEF UserCreated, Uploaded
  <2>2. NewsKept
    BY <1>1, <1>3, <2>1, NewsFrame, SetNews
  <2>3. \A e : Fetching(rest, e) <=> Fetching(calls, e)
    BY <1>1, <2>1, OtherCalls
  <2> QED BY <2>1, <2>2, <2>3, FreshAcross
<1>6. ASSUME UserDeleted(i) PROVE Fresh'
  <2>1. /\ calls[i].op # "getDocument" /\ UNCHANGED client
        /\ \/ stored' = Absent /\ FetchUserProfile(Absent, rest)
           \/ calls' = rest /\ UNCHANGED <<stored, profile>>
    BY <1>6 DEF UserDeleted
  <2>2. NewsKept
    BY <1>1, <2>1, NewsFrame
  <2>3. \A e : Fetching(rest, e) <=> Fetching(calls, e)
    BY <1>1, <2>1, OtherCalls
  <2>4. calls' = rest
    BY <2>1 DEF FetchUserProfile
  <2>5. CASE stored' = Absent
    <3>1. Heard' /\ NewsUpToDate'
      BY <1>1, <2>2, <2>3, <2>4, <2>5 DEF Heard, NewsKept, NewsUpToDate
    <3> QED BY <2>5, <3>1 DEF Fresh, ProfileTracked
  <2>6. CASE stored' # Absent
    BY <2>1, <2>2, <2>3, <2>4, <2>6, FreshAcross
  <2> QED BY <2>5, <2>6
<1>7. ASSUME NameChecked(i) PROVE Fresh'
  <2>1. /\ UNCHANGED <<stored, profile>> /\ calls[i].op # "getDocument"
        /\ UNCHANGED client \/ SetUserProfile(user)
        /\ \/ calls' = rest
           \/ calls' = Append(rest, Call("createUser", user))
           \/ /\ profile # Absent
              /\ calls' = Append(rest, Call("upload", [user EXCEPT !.email = profile.email]))
    BY <1>7 DEF NameChecked
  <2>2. NewsKept
    BY <1>1, <1>3, <2>1, NewsFrame, SetNews
  <2>3. \A e : Fetching(rest, e) <=> Fetching(calls, e)
    BY <1>1, <2>1, OtherCalls
  <2>4. profile # Absent => [user EXCEPT !.email = profile.email] \in UserModel
    <3>1. profile # Absent => profile.email \in Emails
      BY TypeParts, UserFields
    <3> HIDE DEF user
    <3> QED BY <1>3, <3>1 DEF UserModel
  <2> HIDE DEF rest, user
  <2>5. \A e : Fetching(calls', e) <=> Fetching(rest, e)
    <3> DEFINE moved == [user EXCEPT !.email = profile.email]
    <3>1. moved \in UserModel \/ profile = Absent
      BY <2>4
    <3>2. \/ calls' = rest
          \/ calls' = Append(rest, Call("createUser", user))
          \/ profile # Absent /\ calls' = Append(rest, Call("upload", moved))
      BY <2>1
    <3> HIDE DEF moved
    <3>3. {"createUser", "upload"} \subseteq CallOps
      BY DEF CallOps
    <3>4. \A e : Fetching(Append(rest, Call("createUser", user)), e) <=> Fetching(rest, e)
      BY <1>3, <3>3, OtherCallAppended
    <3>5. profile # Absent =>
            \A e : Fetching(Append(rest, Call("upload", moved)), e) <=> Fetching(rest, e)
      BY <1>3, <3>1, <3>3, OtherCallAppended
    <3> QED BY <3>2, <3>4, <3>5
  <2> QED BY <2>1, <2>2, <2>3, <2>5, FreshAcross
<1> QED BY <1>2, <1>4, <1>5, <1>6, <1>7

LEMMA ClosuresFresh ==
  ASSUME TypeOK, Fresh, Closures
  PROVE  Fresh'
<1> DEFINE h == Head(inbox)
           v == View(base, pending, stored)
<1>1. /\ ClientType /\ inbox \in Seq(NewsOf) /\ listening \subseteq Emails
      /\ base \in Copies /\ pending \in Seq(UserModel)
      /\ calls \in Seq(Calls) /\ stored \in Emails \cup {Absent}
      /\ profile \in UserModel \cup {Absent} /\ Heard /\ NewsUpToDate
  BY TypeParts DEF ClientType, Fresh
<1>2. inbox # << >> /\ Popped /\ stored' = stored
  BY DEF Closures, ProfileSnapshot, ProfileAnswered, ProfileSet, Told
<1>3. h \in NewsOf
  BY <1>1, <1>2, TailFacts
<1>4. inbox' = Tail(inbox) /\ UNCHANGED <<base, pending, listening>>
  BY <1>2 DEF Popped
<1>5. /\ \A x \in Emails : NewsIn(inbox', x) # {} => x \in listening
      /\ NewsUpToDate'
      /\ ~IsNews(h, stored) /\ NewsIn(inbox, stored) # {} => NewsIn(inbox', stored) # {}
  BY <1>1, <1>2, <1>4, NewsPopped DEF Heard, NewsUpToDate
<1>6. stored # Absent /\ IsNews(h, stored) /\ NewsIn(inbox', stored) = {} => h.val = v
  BY <1>1, <1>2, <1>4, NewsPopped DEF Heard, NewsUpToDate
<1>7. \/ FetchUserProfile(stored, calls)
      \/ UNCHANGED <<calls, profile>>
      \/ calls' = calls /\ h.val # Absent
         /\ profile' = Model(h.email, h.val.name, h.val.profileUrl)
  BY DEF Closures, ProfileSnapshot, ProfileAnswered, ProfileSet
<1>8. CASE FetchUserProfile(stored, calls)
  <2>1. CASE stored = Absent
    BY <1>1, <1>2, <1>4, <1>5, <1>8, <2>1
       DEF FetchUserProfile, Fresh, Heard, ProfileTracked
  <2>2. CASE stored # Absent
    <3> DEFINE c == Call("getDocument", Of(stored))
    <3>1. calls' = Append(calls, c) /\ profile' = profile
      BY <1>8, <2>2 DEF FetchUserProfile
    <3>2. c \in Calls /\ IsFetch(c, stored) /\ \A e : IsFetch(c, e) => e = stored
      BY <1>1, <2>2, OfTyped, CallTyped DEF CallOps, IsFetch, Call, Of, Model
    <3> HIDE DEF c
    <3>3. \A e : Fetching(calls', e) <=> Fetching(calls, e) \/ IsFetch(c, e)
      BY <1>1, <3>1, <3>2, FetchAppended
    <3>4. Heard'
      BY <1>1, <1>2, <1>4, <1>5, <2>2, <3>2, <3>3 DEF Heard
    <3>5. Fetching(calls', stored')
      BY <1>2, <3>2, <3>3
    <3> QED BY <1>5, <3>4, <3>5 DEF Fresh, ProfileTracked
  <2> QED BY <2>1, <2>2
<1>9. ASSUME calls' = calls PROVE Heard'
  BY <1>1, <1>2, <1>4, <1>5, <1>9 DEF Heard
<1>10. CASE calls' = calls /\ h.val # Absent
            /\ profile' = Model(h.email, h.val.name, h.val.profileUrl)
  <2>1. ProfileTracked'
    <3> SUFFICES ASSUME stored # Absent, profile'.email = stored, v # Absent,
                        NewsIn(inbox', stored) = {}
                 PROVE  Matches(profile', v)
      BY <1>2, <1>4 DEF ProfileTracked
    <3>1. h.email = stored /\ profile'.name = h.val.name /\ profile'.profileUrl = h.val.profileUrl
      BY <1>10 DEF Model
    <3>2. CASE IsNews(h, stored)
      BY <1>6, <3>1, <3>2 DEF Matches
    <3>3. CASE ~IsNews(h, stored)
      <4>1. h.type = "done"
        BY <3>1, <3>3 DEF IsNews
      <4>2. ProfileSet
        BY <4>1 DEF Closures, ProfileSnapshot, ProfileAnswered, Told
      <4>3. FetchUserProfile(stored, calls)
        BY <4>2 DEF ProfileSet
      <4>4. calls' = Append(calls, Call("getDocument", Of(stored)))
        BY <4>3 DEF FetchUserProfile
      <4>5. Call("getDocument", Of(stored)) \in Calls
        BY <1>1, OfTyped, CallTyped DEF CallOps
      <4>6. Len(calls') = Len(calls) + 1 /\ Len(calls) \in Nat
        BY <1>1, <4>4, <4>5, AppendProperties, LenProperties
      <4> QED BY <1>10, <4>6
    <3> QED BY <3>2, <3>3
  <2> QED BY <1>5, <1>9, <1>10, <2>1 DEF Fresh
<1>11. CASE UNCHANGED <<calls, profile>>
  <2>1. ProfileTracked'
    <3> SUFFICES ASSUME stored # Absent, profile # Absent, profile.email = stored, v # Absent,
                        NewsIn(inbox', stored) = {}
                 PROVE  Matches(profile, v) \/ Fetching(calls, stored)
      BY <1>2, <1>4, <1>11 DEF ProfileTracked
    <3>1. CASE ~IsNews(h, stored)
      BY <1>5, <3>1 DEF Fresh, ProfileTracked
    <3>2. CASE IsNews(h, stored)
      <4>1. h.val = v
        BY <1>6, <3>2
      <4>2. CASE ProfileSnapshot
        <5>1. CASE Matches(profile, v)
          BY <5>1
        <5>2. CASE ~Matches(profile, v)
          <6>1. FetchUserProfile(stored, calls)
            BY <4>1, <4>2, <5>2 DEF ProfileSnapshot, Matches
          <6> QED BY <1>8, <1>2, <1>4, <1>11, <6>1 DEF Fresh, ProfileTracked
        <5> QED BY <5>1, <5>2
      <4>3. CASE ProfileAnswered
        <5>1. profile = Model(h.email, v.name, v.profileUrl)
          BY <1>11, <4>1, <4>3 DEF ProfileAnswered
        <5>2. profile.name = v.name /\ profile.profileUrl = v.profileUrl
          BY <5>1 DEF Model
        <5> QED BY <5>2 DEF Matches
      <4>4. ~ProfileSet
        BY <3>2 DEF ProfileSet, Told, IsNews
      <4> QED BY <4>2, <4>3, <4>4 DEF Closures
    <3> QED BY <3>1, <3>2
  <2> QED BY <1>5, <1>9, <1>11, <2>1 DEF Fresh
<1> QED BY <1>7, <1>8, <1>10, <1>11

LEMMA UsersFresh ==
  ASSUME TypeOK, Fresh, Users
  PROVE  Fresh'
<1>1. /\ ClientType /\ base \in Copies /\ pending \in Seq(UserModel)
      /\ calls \in Seq(Calls) /\ stored \in Emails \cup {Absent}
      /\ profile \in UserModel \cup {Absent} /\ Heard /\ NewsUpToDate
      /\ \A x \in Emails : NewsIn(inbox, x) # {} => x \in listening
  BY TypeParts DEF ClientType, Fresh, Heard
<1>2. ASSUME NEW op \in CallOps, NEW u \in UserModel, op # "getDocument",
             calls' = Append(calls, Call(op, u)), UNCHANGED <<client, stored, profile>>
      PROVE  Fresh'
  <2>1. \A e : Fetching(calls', e) <=> Fetching(calls, e)
    BY <1>1, <1>2, OtherCallAppended
  <2>2. NewsKept
    BY <1>1, <1>2, NewsFrame
  <2> QED BY <1>2, <2>1, <2>2, FreshAcross
<1>3. CASE SignIn \/ AppleSignIn
  <2>1. PICK e \in Emails :
          /\ stored' = e
          /\ \/ FetchUserProfile(e, calls) /\ Listened(e, pending)
             \/ Listened(e, Append(pending, Of(e))) /\ UNCHANGED <<calls, profile>>
    BY <1>3 DEF SignIn, AppleSignIn
  <2>2. e \in listening'
    BY <2>1 DEF Listened
  <2>3. CASE FetchUserProfile(e, calls) /\ Listened(e, pending)
    <3> DEFINE c == Call("getDocument", Of(e))
    <3>1. NewsKept
      BY <1>1, <2>3, ListenedNews
    <3>2. calls' = Append(calls, c) /\ c \in Calls /\ IsFetch(c, e) /\ \A x : IsFetch(c, x) => x = e
      <4>1. e # Absent
        BY AuthProfileAssumption
      <4> QED BY <2>3, <4>1, OfTyped, CallTyped
              DEF FetchUserProfile, CallOps, IsFetch, Call, Of, Model
    <3> HIDE DEF c
    <3>3. \A x : Fetching(calls', x) <=> Fetching(calls, x) \/ IsFetch(c, x)
      BY <1>1, <3>2, FetchAppended
    <3>4. Heard'
      BY <1>1, <2>1, <2>2, <3>1, <3>2, <3>3 DEF Heard, NewsKept
    <3>5. Fetching(calls', stored')
      BY <2>1, <3>2, <3>3
    <3> QED BY <3>1, <3>4, <3>5 DEF Fresh, NewsKept, NewsUpToDate, ProfileTracked
  <2>4. CASE Listened(e, Append(pending, Of(e))) /\ UNCHANGED <<calls, profile>>
    <3>1. Of(e) \in UserModel /\ Of(e).email = e
      BY OfTyped DEF Of, Model
    <3>2. /\ Append(pending, Of(e)) \in Seq(UserModel)
          /\ \A x \in Emails : x # e => View(base, Append(pending, Of(e)), x) = View(base, pending, x)
          /\ View(base, Append(pending, Of(e)), e) # Absent
      BY <1>1, <3>1, ViewAppended
    <3>3. NewsKept /\ (View(base', pending', e) # Absent => NewsIn(inbox', e) # {})
      BY <1>1, <2>4, <3>2, ListenedNews
    <3>4. Heard'
      BY <1>1, <2>1, <2>2, <2>4, <3>3 DEF Heard, NewsKept
    <3>5. ProfileTracked'
      BY <2>1, <3>3 DEF ProfileTracked
    <3> QED BY <3>3, <3>4, <3>5 DEF Fresh, NewsKept, NewsUpToDate
  <2> QED BY <2>1, <2>3, <2>4
<1>4. CASE SignOut
  <2>1. stored' = Absent /\ calls' = calls /\ UNCHANGED client
    BY <1>4 DEF SignOut, FetchUserProfile
  <2>2. NewsKept
    BY <1>1, <2>1, NewsFrame
  <2> QED BY <1>1, <2>1, <2>2 DEF Fresh, Heard, NewsKept, NewsUpToDate, ProfileTracked
<1>5. CASE SignUp
  BY <1>2, <1>5, ModelTyped DEF SignUp, CallOps
<1>6. CASE DeleteUser
  BY <1>1, <1>2, <1>6, OfTyped DEF DeleteUser, CallOps
<1>7. CASE UserImageSet
  <2>1. PICK photo \in Photos :
          calls' = Append(calls, Call("upload", [profile EXCEPT !.profileUrl = photo]))
    BY <1>7 DEF UserImageSet
  <2>2. [profile EXCEPT !.profileUrl = photo] \in UserModel
    BY <1>1, <1>7 DEF UserModel, UserImageSet
  <2>3. UNCHANGED <<client, stored, profile>> /\ "upload" \in CallOps
    BY <1>7 DEF UserImageSet, CallOps
  <2> QED BY <1>2, <2>1, <2>2, <2>3
<1>8. CASE UserNameSet
  BY <1>1, <1>2, <1>8, ModelTyped DEF UserNameSet, CallOps
<1>9. CASE UserProfileSet
  BY <1>1, <1>2, <1>9, ModelTyped DEF UserProfileSet, CallOps
<1>10. CASE ChangeElsewhere
  <2>1. UNCHANGED <<client, calls, stored, profile>>
    BY <1>10 DEF ChangeElsewhere
  <2>2. NewsKept
    BY <1>1, <2>1, NewsFrame
  <2> QED BY <2>1, <2>2, FreshAcross
<1>11. CASE Restart
  <2> DEFINE v == View(base, pending, stored)
             n == News("snapshot", stored, v)
  <2>1. /\ stored' = stored /\ profile' = Absent /\ base' = base /\ pending' = pending
        /\ calls' = IF stored = Absent THEN << >> ELSE <<Call("getDocument", Of(stored))>>
        /\ listening' = IF stored = Absent THEN {} ELSE {stored}
        /\ inbox' = IF stored = Absent \/ v = Absent THEN << >> ELSE <<n>>
    BY <1>11 DEF Restart
  <2>2. \A x : IsNews(n, x) => x = stored
    BY DEF IsNews, News
  <2>3. n.val = v
    BY DEF News
  <2>4. Call("getDocument", Of(stored)).user.email = stored
    BY DEF Call, Of, Model
  <2> HIDE DEF n, v
  <2>5. ASSUME NEW x, Fetching(calls', x) PROVE x \in listening'
    <3>1. stored # Absent
      BY <2>1, <2>5 DEF Fetching
    <3>2. calls' = <<Call("getDocument", Of(stored))>>
      BY <2>1, <3>1
    <3>3. x = stored
      BY <2>4, <2>5, <3>2 DEF Fetching
    <3> QED BY <2>1, <3>1, <3>3
  <2>6. ASSUME NEW x, NewsIn(inbox', x) # {} PROVE x \in listening'
    <3>1. stored # Absent /\ inbox' = <<n>>
      BY <2>1, <2>6 DEF NewsIn
    <3>2. x = stored
      BY <2>2, <2>6, <3>1 DEF NewsIn
    <3> QED BY <2>1, <3>1, <3>2
  <2>7. NewsUpToDate'
    <3>1. ASSUME NEW x \in listening' PROVE LastIs(inbox', x, View(base', pending', x))
      <4>1. x = stored
        BY <2>1, <3>1
      <4>2. inbox' = << >> \/ inbox' = <<n>>
        BY <2>1
      <4>3. View(base', pending', x) = v
        BY <2>1, <4>1 DEF v
      <4> QED BY <2>3, <4>2, <4>3 DEF LastIs, NewsIn
    <3> QED BY <3>1 DEF NewsUpToDate
  <2>8. Heard'
    BY <2>1, <2>5, <2>6 DEF Heard
  <2>9. ProfileTracked'
    BY <2>1 DEF ProfileTracked
  <2> QED BY <2>7, <2>8, <2>9 DEF Fresh
<1> QED BY <1>3, <1>4, <1>5, <1>6, <1>7, <1>8, <1>9, <1>10, <1>11 DEF Users

LEMMA InitFresh == Init => Fresh
<1> SUFFICES ASSUME Init PROVE Fresh
  OBVIOUS
<1>1. inbox = << >> /\ calls = << >> /\ stored = Absent /\ listening = {}
  BY DEF Init
<1>2. \A e : NewsIn(inbox, e) = {} /\ ~Fetching(calls, e)
  BY <1>1 DEF NewsIn, Fetching
<1> QED BY <1>1, <1>2 DEF Fresh, Heard, NewsUpToDate, ProfileTracked

(* With nothing under way, the published profile of the signed-in user has *)
(* the name and the photo of the user's document: the listener and the     *)
(* fetches of FirebaseAuthManager.swift:141-208.                           *)
THEOREM ProfileIsFresh == Spec => []ProfileFresh
<1>1. TypeOK /\ Fresh /\ [Next]_vars => Fresh'
  <2> SUFFICES ASSUME TypeOK, Fresh, [Next]_vars PROVE Fresh'
    OBVIOUS
  <2>1. CASE UNCHANGED vars
    <3>1. NewsKept
      BY <2>1, NewsFrame DEF vars, Fresh
    <3> QED BY <2>1, <3>1, FreshAcross DEF vars
  <2> QED BY <2>1, UsersFresh, AnsweredFresh, ClosuresFresh, NetworkFresh DEF Next
<1>2. Fresh => ProfileFresh
  <2> SUFFICES ASSUME Fresh, Quiet, stored # Absent, profile # Absent,
                      profile.email = stored, server[stored] # Absent
               PROVE  /\ profile.name = server[stored].name
                      /\ server[stored].profileUrl \in {Absent, profile.profileUrl}
    BY DEF ProfileFresh
  <2>1. /\ calls = << >> /\ inbox = << >> /\ pending = << >>
        /\ base[stored] = server[stored]
    BY DEF Quiet, Fresh, Heard
  <2>2. View(base, pending, stored) = server[stored]
    BY <2>1 DEF View, WritesOf
  <2>3. NewsIn(inbox, stored) = {} /\ ~Fetching(calls, stored)
    BY <2>1 DEF NewsIn, Fetching
  <2> QED BY <2>2, <2>3 DEF Fresh, ProfileTracked, Matches
<1> QED BY <1>1, <1>2, InitFresh, TypeCorrect, PTL DEF Spec
=============================================================================
