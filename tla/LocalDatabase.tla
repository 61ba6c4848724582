---------------------------- MODULE LocalDatabase ----------------------------
(***************************************************************************)
(* The local database manager: every paper in a file, its preview in       *)
(* another, the list of previews and the open paper in memory.             *)
(*                                                                         *)
(* The manager runs on the main thread, so its operations do not overlap;  *)
(* but each writes (or removes) several files one after the other, an      *)
(* error ends it between two of them, and so does the end of the process.  *)
(* A file itself is written as a whole (option atomic).                    *)
(*                                                                         *)
(* Of a paper the fields that a preview repeats are kept one by one, for   *)
(* updatePaper compares and writes them one by one.  Left out are the date *)
(* and the template, which never change, the link, which no preview has,   *)
(* isGift, which is FALSE in every paper of this manager's list (a gift is *)
(* a new paper of the server's), and the contents of cards: nothing in the *)
(* app sets a card's creator, so filterPaper's test of it is never true.   *)
(***************************************************************************)
EXTENDS Naturals, Sequences, FiniteSets

CONSTANTS
  Papers, Cards, Titles, Users,
  Absent,       \* nil: no file, no user, no thumbnail
  Faults,       \* what may go wrong: see AllFaults
  MaxOps        \* bound: how many operations are performed in all

AllFaults == {"writeError", "removeError", "crash"}

EndTimes == {"planned", "stopped"}

PaperModel ==
  [paperId : Papers, creator : Users \cup {Absent}, cards : SUBSET Cards,
   title : Titles, thumbnailURLString : Cards \cup {Absent}, endTime : EndTimes]

PaperPreviewModel ==
  [paperId : Papers, title : Titles, thumbnailURLString : Cards \cup {Absent},
   endTime : EndTimes]

ASSUME LocalAssumption ==
  /\ IsFiniteSet(Papers)
  /\ Absent \notin PaperModel \cup PaperPreviewModel
  /\ Faults \subseteq AllFaults
  /\ MaxOps \in Nat

VARIABLES
  paperFile,    \* paperFile[p]: the file of p in downloaded_papers
  previewFile,  \* previewFile[p]: its file in downloaded_previews
  running,      \* whether the app's process runs
  papers,       \* papersSubject.value
  subject,      \* paperSubject.value
  profile,      \* the user of FirebaseAuthManager's profile
  created,      \* history: the identifiers in use
  behind,       \* history: papers whose last save did not reach the preview
  ops           \* operations performed so far

files == <<paperFile, previewFile>>
memory == <<running, papers, subject, profile>>
vars == <<files, memory, created, behind, ops>>

(* Mutant: the paper itself is taken for its preview.                      *)
PreviewOfWhole(paper) == paper

PreviewOf(paper) ==
  [paperId |-> paper.paperId, title |-> paper.title,
   thumbnailURLString |-> paper.thumbnailURLString, endTime |-> paper.endTime]

Entries(p) == {i \in DOMAIN papers : papers[i].paperId = p}

FirstIndex(p) == CHOOSE i \in Entries(p) : \A j \in Entries(p) : i <= j

NoFiles == [p \in Papers |-> Absent]

Init ==
  /\ paperFile = NoFiles /\ previewFile = NoFiles
  /\ running = FALSE
  /\ papers = << >> /\ subject = Absent /\ profile = Absent
  /\ created = {} /\ behind = {} /\ ops = 0

-----------------------------------------------------------------------------
(* Loading the list                                                        *)

Visible(paper, user) ==
  paper.creator = Absent \/ (user # Absent /\ paper.creator = user)

(* Mutant: the previews are read from their own directory, unfiltered.     *)
LoadableFromPreviews(user) == {p \in Papers : previewFile[p] # Absent}

(* Papers with both files that the profile's user may see.                 *)
Loadable(user) ==
  {p \in Papers : /\ paperFile[p] # Absent /\ previewFile[p] # Absent
                  /\ Visible(paperFile[p], user)}

(* The orders in which the directory may list the papers of S.             *)
Listings(S) ==
  {f \in [1..Cardinality(S) -> S] :
     /\ \A p \in S : \E i \in DOMAIN f : f[i] = p
     /\ \A i, j \in DOMAIN f : f[i] = f[j] => i = j}

(* Mutant: the list is not emptied before.                                 *)
LoadPaperPreviewsAfter(user) ==
  \E f \in Listings(Loadable(user)) :
    papers' = papers \o [i \in 1..Len(f) |-> previewFile[f[i]]]

LoadPaperPreviews(user) ==
  \E f \in Listings(Loadable(user)) : papers' = [i \in 1..Len(f) |-> previewFile[f[i]]]

-----------------------------------------------------------------------------
(* How an operation ends: it returns when all its file accesses are done,  *)
(* or at an error; or the process is killed before it can.                 *)
Outcomes(complete, error) ==
  {o \in {"returns", error, "crash"} :
     /\ o = "returns" => complete
     /\ o = error => ~complete
     /\ o # "returns" => o \in Faults}

(* What is in memory afterwards: nothing, if the process was killed.       *)
Ends(outcome, list) ==
  IF outcome = "crash"
    THEN /\ running' = FALSE /\ papers' = << >>
         /\ subject' = Absent /\ profile' = Absent
    ELSE papers' = list /\ UNCHANGED <<running, subject, profile>>

Perform ==
  /\ running
  /\ ops < MaxOps
  /\ ops' = ops + 1

-----------------------------------------------------------------------------
(* The process starts: the manager loads the list for the profile so far.  *)
Launch ==
  /\ ~running
  /\ running' = TRUE
  /\ LoadPaperPreviews(profile)
  /\ UNCHANGED <<files, subject, profile, created, behind, ops>>

(* The process is ended, in no operation.                                  *)
Terminate ==
  /\ running
  /\ "crash" \in Faults
  /\ Ends("crash", papers)
  /\ UNCHANGED <<files, created, behind, ops>>

(* bind: FirebaseAuthManager publishes a profile, or nil.                  *)
ProfileChanged(user) ==
  /\ Perform
  /\ profile' = user
  /\ LoadPaperPreviews(user)
  /\ UNCHANGED <<files, running, subject, created, behind>>

(* What createPaper of PaperSettingViewModel makes.  Its copy of the user   *)
(* comes over another queue than the profile, and may differ from it.      *)
NewPaper(p, creator, title) ==
  [paperId |-> p, creator |-> creator, cards |-> {}, title |-> title,
   thumbnailURLString |-> Absent, endTime |-> "planned"]

(* Mutant: the list is sent before the preview is written.                 *)
AddPaperListedFirst(paper) ==
  /\ Perform
  /\ paper.paperId \notin created
  /\ created' = created \cup {paper.paperId}
  /\ \E n \in 0..2 : \E outcome \in Outcomes(n = 2, "writeError") :
       LET p == paper.paperId
       IN  /\ paperFile' = IF n >= 1 THEN [paperFile EXCEPT ![p] = paper] ELSE paperFile
           /\ previewFile' =
                IF n = 2 THEN [previewFile EXCEPT ![p] = PreviewOf(paper)] ELSE previewFile
           /\ behind' = IF n = 1 THEN behind \cup {p} ELSE behind
           /\ Ends(outcome, IF n >= 1 THEN Append(papers, PreviewOf(paper)) ELSE papers)

(* A new paper: its file, its preview's file, then the list.  n accesses   *)
(* are made.                                                               *)
AddPaper(paper) ==
  /\ Perform
  /\ paper.paperId \notin created
  /\ created' = created \cup {paper.paperId}
  /\ \E n \in 0..2 : \E outcome \in Outcomes(n = 2, "writeError") :
       LET p == paper.paperId
       IN  /\ paperFile' = IF n >= 1 THEN [paperFile EXCEPT ![p] = paper] ELSE paperFile
           /\ previewFile' =
                IF n = 2 THEN [previewFile EXCEPT ![p] = PreviewOf(paper)] ELSE previewFile
           /\ behind' = IF n = 1 THEN behind \cup {p} ELSE behind
           /\ Ends(outcome, IF n = 2 THEN Append(papers, PreviewOf(paper)) ELSE papers)

Without(list, i) == [j \in 1..(Len(list) - 1) |-> IF j < i THEN list[j] ELSE list[j + 1]]

(* Both files are removed, then the entry of the list.  To remove a file   *)
(* that does not exist is an error, of which the operation ends.           *)
RemovePaper(p) ==
  /\ Perform
  /\ p \in created
  /\ \E n \in 0..2 :
       LET missing == \/ n = 0 /\ paperFile[p] = Absent
                      \/ n = 1 /\ previewFile[p] = Absent
       IN  /\ n >= 1 => paperFile[p] # Absent
           /\ n = 2 => previewFile[p] # Absent
           /\ paperFile' = IF n >= 1 THEN [paperFile EXCEPT ![p] = Absent] ELSE paperFile
           /\ previewFile' = IF n = 2 THEN [previewFile EXCEPT ![p] = Absent] ELSE previewFile
           /\ \E outcome \in Outcomes(n = 2 \/ missing, "removeError") :
                Ends(outcome, IF n = 2 /\ Entries(p) # {} THEN Without(papers, FirstIndex(p))
                              ELSE papers)
  /\ UNCHANGED <<created, behind>>

-----------------------------------------------------------------------------
(* Saving a paper                                                          *)

Fields == {"title", "thumbnailURLString", "endTime"}

(* The order in which updatePaper compares the fields.                     *)
Rank(field) ==
  CASE field = "title" -> 1 [] field = "thumbnailURLString" -> 2 [] field = "endTime" -> 3

(* Mutant: the fields are compared with those of the paper's file.         *)
DifferingFromFile(entry, paper) ==
  LET old == paperFile[paper.paperId]
  IN  {f \in Fields : old = Absent \/ old[f] # paper[f]}

(* The fields of the listed preview that the paper no longer has.          *)
Differing(entry, paper) ==
  (IF entry.title # paper.title THEN {"title"} ELSE {})
    \cup (IF entry.thumbnailURLString # paper.thumbnailURLString
            THEN {"thumbnailURLString"} ELSE {})
    \cup (IF entry.endTime # paper.endTime THEN {"endTime"} ELSE {})

(* The preview is written, and sent, once for each differing field: D can  *)
(* have been dealt with up to any field.                                   *)
Prefixes(D) == {S \in SUBSET D : \A f \in S, g \in D : Rank(g) < Rank(f) => g \in S}

Merged(entry, paper, S) ==
  [paperId |-> entry.paperId,
   title |-> IF "title" \in S THEN paper.title ELSE entry.title,
   thumbnailURLString |->
     IF "thumbnailURLString" \in S THEN paper.thumbnailURLString ELSE entry.thumbnailURLString,
   endTime |-> IF "endTime" \in S THEN paper.endTime ELSE entry.endTime]

(* Mutant: the whole entry is sent before the first write.                 *)
SavePreviewSentFirst(paper) ==
  LET p == paper.paperId
      i == FirstIndex(p)
      D == Differing(papers[i], paper)
  IN  \E S \in Prefixes(D) : \E outcome \in Outcomes(S = D, "writeError") :
        /\ previewFile' = IF S = {} THEN previewFile
                          ELSE [previewFile EXCEPT ![p] = Merged(papers[i], paper, S)]
        /\ behind' = IF S = D THEN behind \ {p} ELSE behind \cup {p}
        /\ Ends(outcome, [papers EXCEPT ![i] = Merged(@, paper, D)])

(* The listed preview of the paper follows, field by field.                *)
SavePreview(paper) ==
  LET p == paper.paperId
      i == FirstIndex(p)
      D == Differing(papers[i], paper)
  IN  \E S \in Prefixes(D) : \E outcome \in Outcomes(S = D, "writeError") :
        /\ previewFile' = IF S = {} THEN previewFile
                          ELSE [previewFile EXCEPT ![p] = Merged(papers[i], paper, S)]
        /\ behind' = IF S = D THEN behind \ {p} ELSE behind \cup {p}
        /\ Ends(outcome, [papers EXCEPT ![i] = Merged(@, paper, S)])

(* A paper that is not in the list has no preview to follow.               *)
SaveUnlisted(paper) ==
  /\ behind' = behind \cup {paper.paperId}
  /\ UNCHANGED <<previewFile, memory>>

(* paper is the caller's copy: of the open paper, changed, or of a paper   *)
(* of the server's, which need not be on this device so far.               *)
UpdatePaper(paper) ==
  /\ Perform
  /\ created' = created \cup {paper.paperId}
  /\ paperFile' = [paperFile EXCEPT ![paper.paperId] = paper]
  /\ \/ Entries(paper.paperId) = {} /\ SaveUnlisted(paper)
     \/ Entries(paper.paperId) # {} /\ SavePreview(paper)

(* Its first write fails.                                                  *)
UpdatePaperFails(paper) ==
  /\ Perform
  /\ "writeError" \in Faults
  /\ created' = created \cup {paper.paperId}
  /\ UNCHANGED <<files, memory, behind>>

-----------------------------------------------------------------------------
(* The open paper                                                          *)

(* A paper without a file leaves the open paper as it is.                  *)
FetchPaper(p) ==
  /\ Perform
  /\ p \in created
  /\ subject' = IF paperFile[p] = Absent THEN subject ELSE paperFile[p]
  /\ UNCHANGED <<files, running, papers, profile, created, behind>>

ResetPaper ==
  /\ Perform
  /\ subject' = Absent
  /\ UNCHANGED <<files, running, papers, profile, created, behind>>

(* Cards are changed in memory only; the thumbnail is a card at random.    *)
AddCard(c, thumbnail) ==
  /\ Perform
  /\ subject # Absent
  /\ thumbnail \in subject.cards \cup {c}
  /\ subject' = [subject EXCEPT !.cards = @ \cup {c}, !.thumbnailURLString = thumbnail]
  /\ UNCHANGED <<files, running, papers, profile, created, behind>>

RemoveCard(c) ==
  /\ Perform
  /\ subject # Absent
  /\ subject' = [subject EXCEPT !.cards = @ \ {c}]
  /\ UNCHANGED <<files, running, papers, profile, created, behind>>

(* The content of a card of the open paper is replaced.                    *)
UpdateCard(c) ==
  /\ Perform
  /\ subject # Absent
  /\ c \in subject.cards
  /\ UNCHANGED <<files, memory, created, behind>>

Next ==
  \/ Launch \/ Terminate \/ ResetPaper
  \/ \E user \in Users \cup {Absent} : ProfileChanged(user)
  \/ \E p \in Papers, creator \in Users \cup {Absent}, title \in Titles :
       AddPaper(NewPaper(p, creator, title))
  \/ \E paper \in PaperModel : UpdatePaper(paper) \/ UpdatePaperFails(paper)
  \/ \E p \in Papers : RemovePaper(p) \/ FetchPaper(p)
  \/ \E c \in Cards : RemoveCard(c) \/ UpdateCard(c) \/ \E t \in Cards : AddCard(c, t)

Spec == Init /\ [][Next]_vars

-----------------------------------------------------------------------------
(* Every file, entry and paper in memory has its type, and every file and  *)
(* entry is that of its paper.                                             *)
TypeOK ==
  /\ paperFile \in [Papers -> PaperModel \cup {Absent}]
  /\ previewFile \in [Papers -> PaperPreviewModel \cup {Absent}]
  /\ \A p \in Papers : paperFile[p] # Absent => paperFile[p].paperId = p
  /\ \A p \in Papers : previewFile[p] # Absent => previewFile[p].paperId = p
  /\ running \in BOOLEAN
  /\ papers \in Seq(PaperPreviewModel)
  /\ subject \in PaperModel \cup {Absent}
  /\ profile \in Users \cup {Absent}
  /\ created \subseteq Papers /\ behind \subseteq Papers
  /\ ops \in 0..MaxOps

(* What the list shows of a paper is what its preview file holds, however  *)
(* an operation on it ended: a restart shows nothing else.                 *)
(* addPaper, updatePaper, removePaper: LocalDatabaseFileManager.swift:118  *)
ListMatchesFiles ==
  \A i \in DOMAIN papers : papers[i] = previewFile[papers[i].paperId]

(* No paper is in the list twice, through creations, saves, reloads and    *)
(* restarts.  bind: LocalDatabaseFileManager.swift:92                      *)
ListedOnce ==
  \A i, j \in DOMAIN papers : papers[i].paperId = papers[j].paperId => i = j

(* A paper of the list can be opened, provided that no file access of a    *)
(* removal fails.  loadPaperPreviews: LocalDatabaseFileManager.swift:103   *)
ListedOpens ==
  \A i \in DOMAIN papers : paperFile[papers[i].paperId] # Absent

(* Of a paper whose last save reached the preview, file and preview agree: *)
(* a save makes good what earlier ones left out, by an error, by a crash,  *)
(* or because the profile of the moment did not list the paper.            *)
(* updatePaper: LocalDatabaseFileManager.swift:168                         *)
PreviewInStep ==
  \A p \in Papers \ behind :
    paperFile[p] # Absent /\ previewFile[p] # Absent => previewFile[p] = PreviewOf(paperFile[p])

-----------------------------------------------------------------------------
(* A paper is on the shelf when its next load can list it: with both its   *)
(* files.                                                                  *)
OnDevice(p) ==
  IF paperFile[p] # Absent /\ previewFile[p] # Absent THEN paperFile[p] ELSE Absent

Shelf == INSTANCE PaperShelf WITH
  Copies <- PaperModel, Nothing <- Absent,
  kept <- [p \in Papers |-> OnDevice(p)],
  shown <- {papers[i].paperId : i \in DOMAIN papers},
  given <- created

(* Two files, a list and operations that are cut off anywhere are such a   *)
(* shelf, provided that no file access of a removal fails.                 *)
(* LocalDatabaseFileManager.swift:92-204                                   *)
KeepsAShelf == Shelf!Spec
=============================================================================
