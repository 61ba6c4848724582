-------------------------- MODULE LocalDatabaseShelf --------------------------
(* The local database manager implements the shelf of papers.              *)
EXTENDS LocalDatabaseProofs

(* What the files and the list are as a shelf.                             *)
Kept == [p \in Papers |-> OnDevice(p)]
Shown == {papers[i].paperId : i \in DOMAIN papers}

(* The inductive invariant of the proof: lists are good and can be opened. *)
SInv == IInv /\ ListedOpens

-----------------------------------------------------------------------------
(* What a change of the files of one paper does to the shelf.              *)
LEMMA KeptOfOne ==
  ASSUME NEW p \in Papers,
         \A q \in Papers : q # p => /\ paperFile'[q] = paperFile[q]
                                    /\ previewFile'[q] = previewFile[q]
  PROVE  Kept' = [Kept EXCEPT ![p] = OnDevice(p)']
BY DEF Kept, OnDevice

(* Without a change of files the shelf stays as it is.                     *)
LEMMA KeptSame == UNCHANGED files => Kept' = Kept
BY DEF Kept, OnDevice, files

(* The list stays, or is gone with the process.                            *)
LEMMA ShownSame ==
  ASSUME papers' = papers \/ papers' = << >>
  PROVE  Shown' = Shown \/ Shown' = {}
BY DEF Shown

(* Listed papers are on the shelf.                                         *)
LEMMA ShownOnShelf ==
  ASSUME PaperFilesOK(paperFile), PreviewFilesOK(previewFile), NEW list,
         GoodList(list, previewFile),
         \A i \in DOMAIN list : paperFile[list[i].paperId] # Absent
  PROVE  \A i \in DOMAIN list : list[i].paperId \in Papers /\ Kept[list[i].paperId] # Absent
<1> TAKE i \in DOMAIN list
<1>1. list[i] \in PaperPreviewModel /\ list[i].paperId \in Papers
  BY EntryType
<1>2. previewFile[list[i].paperId] # Absent
  BY <1>1, LocalAssumption DEF GoodList, LocalAssumption
<1> QED BY <1>1, <1>2 DEF Kept, OnDevice

(* The entry of a paper that is listed once is taken out of the list.      *)
LEMMA ShownWithout ==
  ASSUME GoodList(papers, previewFile), PreviewFilesOK(previewFile),
         NEW i \in DOMAIN papers, papers' = Without(papers, i)
  PROVE  Shown' = Shown \ {papers[i].paperId}
<1>1. \A j \in DOMAIN papers' : /\ papers'[j].paperId # papers[i].paperId
                                /\ \E k \in DOMAIN papers : papers'[j] = papers[k]
  <2>1. /\ GoodList(Without(papers, i), [previewFile EXCEPT ![papers[i].paperId] = Absent])
        /\ \A j \in DOMAIN Without(papers, i) :
             /\ Without(papers, i)[j].paperId # papers[i].paperId
             /\ \E k \in DOMAIN papers : Without(papers, i)[j] = papers[k]
    BY WithoutGood
  <2> QED BY <2>1
<1>2. \A k \in DOMAIN papers : k # i => \E j \in DOMAIN papers' : papers'[j] = papers[k]
  <2> TAKE k \in DOMAIN papers
  <2> HAVE k # i
  <2>1. DOMAIN papers = 1..Len(papers) /\ Len(papers) \in Nat
    BY DEF GoodList
  <2> DEFINE j == IF k < i THEN k ELSE k - 1
  <2>2. /\ j \in 1..(Len(papers) - 1)
        /\ (IF j < i THEN papers[j] ELSE papers[j + 1]) = papers[k]
    BY <2>1
  <2> HIDE DEF j
  <2>3. j \in DOMAIN papers' /\ papers'[j] = papers[k]
    BY <2>2 DEF Without
  <2> QED BY <2>3
<1>3. \A k \in DOMAIN papers : k # i => papers[k].paperId # papers[i].paperId
  BY DEF GoodList
<1> QED BY <1>1, <1>2, <1>3 DEF Shown

-----------------------------------------------------------------------------
(* The operations as steps of the shelf                                    *)

LEMMA LoadIsLook ==
  ASSUME SInv, NEW user, LoadPaperPreviews(user), UNCHANGED <<files, created>>
  PROVE  Shelf!Next
<1>1. /\ GoodList(papers', previewFile)
      /\ \A i \in DOMAIN papers' : paperFile[papers'[i].paperId] # Absent
  BY LoadedGood DEF SInv, IInv
<1>2. \A i \in DOMAIN papers' :
        papers'[i].paperId \in Papers /\ Kept[papers'[i].paperId] # Absent
  BY <1>1, ShownOnShelf DEF SInv, IInv
<1>3. Kept' = Kept
  BY KeptSame
<1>4. Shelf!LookAgain
  BY <1>2, <1>3 DEF Shelf!LookAgain, Shelf!OnShelf, Kept
<1> QED BY <1>4 DEF Shelf!Next

LEMMA EndIsLook ==
  ASSUME UNCHANGED <<files, created>>, papers' = << >>
  PROVE  Shelf!Next
<1>1. Shelf!LookAgain
  BY KeptSame DEF Shelf!LookAgain, Kept
<1> QED BY <1>1 DEF Shelf!Next

LEMMA IdleIsStutter ==
  ASSUME UNCHANGED <<files, created, papers>>
  PROVE  UNCHANGED Shelf!vars
BY KeptSame DEF Shelf!vars, Kept

LEMMA FailsIsAttempt ==
  ASSUME NEW p \in Papers, Kept' = Kept, created' = created \cup {p},
         papers' = papers \/ papers' = << >>
  PROVE  Shelf!Next
<1>1. Shelf!Attempt(p)
  BY ShownSame DEF Shelf!Attempt, Shelf!Show, Kept, Shown
<1> QED BY <1>1 DEF Shelf!Next

(* A new paper is put on the shelf with its second file.                   *)
LEMMA AddIsPut ==
  ASSUME SInv, NEW paper \in PaperModel, AddPaper(paper)
  PROVE  Shelf!Next
<1> DEFINE p == paper.paperId
<1>1. PICK n, outcome :
        /\ n \in 0..2
        /\ paperFile' = IF n >= 1 THEN [paperFile EXCEPT ![p] = paper] ELSE paperFile
        /\ previewFile' =
             IF n = 2 THEN [previewFile EXCEPT ![p] = PreviewOf(paper)] ELSE previewFile
        /\ Ends(outcome, IF n = 2 THEN Append(papers, PreviewOf(paper)) ELSE papers)
  BY DEF AddPaper
<1>2. /\ p \in Papers /\ PreviewOf(paper).paperId = p
      /\ paper # Absent /\ PreviewOf(paper) # Absent
      /\ papers \in Seq(PaperPreviewModel)
      /\ PaperFilesOK(paperFile) /\ PreviewFilesOK(previewFile)
  BY PreviewOfType, LocalAssumption DEF SInv, IInv, GoodList, LocalAssumption
<1>3. p \notin created /\ created' = created \cup {p}
  BY DEF AddPaper
<1>4. paperFile[p] = Absent /\ previewFile[p] = Absent
  BY <1>2, <1>3 DEF SInv, IInv, FilesUsed
<1>5. Kept' = [Kept EXCEPT ![p] = OnDevice(p)']
  BY <1>1, <1>2, KeptOfOne DEF PaperFilesOK, PreviewFilesOK
<1>6. CASE n # 2
  <2>1. Kept' = Kept
    BY <1>1, <1>2, <1>4, <1>5, <1>6 DEF Kept, OnDevice
  <2>2. papers' = papers \/ papers' = << >>
    BY <1>1, <1>6, EndsList
  <2> QED BY <1>2, <1>3, <2>1, <2>2, FailsIsAttempt
<1>7. CASE n = 2
  <2>1. OnDevice(p)' = paper
    BY <1>1, <1>2, <1>7 DEF OnDevice, PaperFilesOK, PreviewFilesOK
  <2>2. papers' = Append(papers, PreviewOf(paper)) \/ papers' = << >>
    BY <1>1, <1>7, EndsList
  <2>3. Shown' = Shown \cup {p} \/ Shown' = {}
    <3>1. CASE papers' = Append(papers, PreviewOf(paper))
      <4>1. DOMAIN papers' = DOMAIN papers \cup {Len(papers) + 1}
        BY <1>2, <3>1
      <4>2. papers'[Len(papers) + 1].paperId = p
        BY <1>2, <3>1
      <4>3. \A i \in DOMAIN papers : papers'[i] = papers[i]
        BY <1>2, <3>1
      <4> QED BY <4>1, <4>2, <4>3 DEF Shown
    <3>2. CASE papers' = << >>
      BY <3>2 DEF Shown
    <3> QED BY <2>2, <3>1, <3>2
  <2>4. Kept' = [Kept EXCEPT ![p] = Kept'[p]] /\ Kept'[p] \in PaperModel
    BY <1>2, <1>5, <2>1 DEF Kept
  <2>5. Shelf!Put(p)
    BY <1>3, <2>3, <2>4 DEF Shelf!Put, Shelf!Keeps, Shelf!Show, Kept, Shown
  <2> QED BY <1>2, <2>5 DEF Shelf!Next
<1> QED BY <1>6, <1>7

(* A removal takes the paper off the shelf with its first file.            *)
LEMMA RemoveIsTakeOff ==
  ASSUME SInv, "removeError" \notin Faults, NEW p \in Papers, RemovePaper(p)
  PROVE  Shelf!Next \/ UNCHANGED Shelf!vars
<1>1. PICK n, outcome :
        /\ n \in 0..2
        /\ n >= 1 => paperFile[p] # Absent
        /\ n = 2 => previewFile[p] # Absent
        /\ paperFile' = IF n >= 1 THEN [paperFile EXCEPT ![p] = Absent] ELSE paperFile
        /\ previewFile' = IF n = 2 THEN [previewFile EXCEPT ![p] = Absent] ELSE previewFile
        /\ outcome \in Outcomes(n = 2 \/ (n = 0 /\ paperFile[p] = Absent)
                                      \/ (n = 1 /\ previewFile[p] = Absent), "removeError")
        /\ Ends(outcome, IF n = 2 /\ Entries(p) # {} THEN Without(papers, FirstIndex(p))
                         ELSE papers)
  BY DEF RemovePaper
<1>2. /\ PaperFilesOK(paperFile) /\ PreviewFilesOK(previewFile)
      /\ GoodList(papers, previewFile) /\ created' = created
  BY DEF SInv, IInv, RemovePaper
<1>3. /\ Kept' = [Kept EXCEPT ![p] = OnDevice(p)']
      /\ OnDevice(p)' = IF n >= 1 THEN Absent ELSE OnDevice(p)
  <2>1. Kept' = [Kept EXCEPT ![p] = OnDevice(p)']
    BY <1>1, <1>2, KeptOfOne DEF PaperFilesOK, PreviewFilesOK
  <2>2. OnDevice(p)' = IF n >= 1 THEN Absent ELSE OnDevice(p)
    BY <1>1, <1>2 DEF OnDevice, PaperFilesOK, PreviewFilesOK
  <2> QED BY <2>1, <2>2
<1>4. Kept[p] = OnDevice(p) /\ Kept = [Kept EXCEPT ![p] = Kept[p]]
  BY DEF Kept
<1>5. CASE outcome = "crash"
  <2>1. Shown' = {}
    BY <1>1, <1>5 DEF Ends, Shown
  <2>2. CASE n >= 1 /\ Kept[p] # Absent
    <3>1. Shelf!TakeOff(p)
      BY <1>2, <1>3, <2>1, <2>2 DEF Shelf!TakeOff, Shelf!Show, Kept, Shown
    <3> QED BY <3>1 DEF Shelf!Next
  <2>3. CASE ~(n >= 1 /\ Kept[p] # Absent)
    <3>1. Kept' = Kept
      BY <1>3, <1>4, <2>3
    <3>2. Shelf!LookAgain
      BY <1>2, <2>1, <3>1 DEF Shelf!LookAgain, Kept, Shown
    <3> QED BY <3>2 DEF Shelf!Next
  <2> QED BY <2>2, <2>3
<1>6. CASE outcome # "crash"
  <2>1. outcome = "returns"
    BY <1>1, <1>6 DEF Outcomes
  <2>2. CASE n = 2
    <3>1. Kept[p] # Absent
      BY <1>1, <1>4, <2>2 DEF OnDevice
    <3>2. Shown' = Shown \ {p}
      <4>1. CASE Entries(p) # {}
        <5> DEFINE i == FirstIndex(p)
        <5>1. i \in DOMAIN papers /\ papers[i].paperId = p
          BY <1>2, <4>1, FirstIndexEntry
        <5>2. papers' = Without(papers, i)
          BY <1>1, <1>6, <2>2, <4>1 DEF Ends
        <5> HIDE DEF i
        <5> QED BY <1>2, <5>1, <5>2, ShownWithout
      <4>2. CASE Entries(p) = {}
        BY <1>1, <1>6, <4>2 DEF Ends, Entries, Shown
      <4> QED BY <4>1, <4>2
    <3>3. Shelf!TakeOff(p)
      BY <1>2, <1>3, <2>2, <3>1, <3>2 DEF Shelf!TakeOff, Shelf!Show, Kept, Shown
    <3> QED BY <3>3 DEF Shelf!Next
  <2>3. CASE n # 2
    <3>1. OnDevice(p) = Absent
      BY <1>1, <2>1, <2>3 DEF Outcomes, OnDevice
    <3>2. Kept' = Kept
      BY <1>3, <1>4, <3>1
    <3>3. papers' = papers
      BY <1>1, <1>6, <2>3 DEF Ends
    <3> QED BY <1>2, <3>2, <3>3 DEF Shelf!vars, Kept
  <2> QED BY <2>2, <2>3
<1> QED BY <1>5, <1>6

(* A save of the file of p, whose preview may follow.                      *)
LEMMA SavedIsExchange ==
  ASSUME SInv, NEW paper \in PaperModel, NEW p \in Papers, paper # Absent,
         paperFile' = [paperFile EXCEPT ![p] = paper], created' = created \cup {p},
         \/ previewFile' = previewFile
         \/ previewFile[p] # Absent /\ \E e : e # Absent /\ previewFile' = [previewFile EXCEPT ![p] = e],
         papers' = papers \/ Shown' = Shown \/ Shown' = {}
  PROVE  Shelf!Next
<1>1. PaperFilesOK(paperFile) /\ PreviewFilesOK(previewFile)
  BY DEF SInv, IInv
<1>2. Kept' = [Kept EXCEPT ![p] = OnDevice(p)']
  BY <1>1, KeptOfOne DEF PaperFilesOK, PreviewFilesOK
<1>3. previewFile'[p] = Absent <=> previewFile[p] = Absent
  BY <1>1 DEF PreviewFilesOK
<1>4. Shown' = Shown \/ Shown' = {}
  BY DEF Shown
<1>5. CASE previewFile[p] = Absent
  <2>1. OnDevice(p)' = Absent /\ Kept[p] = Absent
    BY <1>3, <1>5 DEF OnDevice, Kept
  <2>2. Kept' = Kept
    BY <1>2, <2>1 DEF Kept
  <2>3. Shelf!Attempt(p)
    BY <1>4, <2>2 DEF Shelf!Attempt, Shelf!Show, Kept, Shown
  <2> QED BY <2>3 DEF Shelf!Next
<1>6. CASE previewFile[p] # Absent
  <2>1. OnDevice(p)' = paper
    BY <1>1, <1>3, <1>6 DEF OnDevice, PaperFilesOK
  <2>2. Kept' = [Kept EXCEPT ![p] = Kept'[p]] /\ Kept'[p] \in PaperModel
    BY <1>2, <2>1 DEF Kept
  <2>3. p \in created /\ created' = created
    BY <1>6 DEF SInv, IInv, FilesUsed
  <2>4. Shelf!Exchange(p)
    BY <1>4, <2>2, <2>3 DEF Shelf!Exchange, Shelf!Keeps, Shelf!Show, Kept, Shown
  <2> QED BY <2>4 DEF Shelf!Next
<1> QED BY <1>5, <1>6

(* A save exchanges the copy of a paper with both files; any other paper   *)
(* stays off the shelf.                                                    *)
LEMMA UpdateIsExchange ==
  ASSUME SInv, NEW paper \in PaperModel, UpdatePaper(paper)
  PROVE  Shelf!Next
<1> DEFINE p == paper.paperId
<1>1. /\ p \in Papers /\ paper # Absent
      /\ PaperFilesOK(paperFile) /\ PreviewFilesOK(previewFile)
      /\ GoodList(papers, previewFile)
  BY PreviewOfType, LocalAssumption DEF SInv, IInv, LocalAssumption
<1>2. /\ paperFile' = [paperFile EXCEPT ![p] = paper]
      /\ created' = created \cup {p}
  BY DEF UpdatePaper
<1>3. CASE SaveUnlisted(paper)
  <2>1. UNCHANGED <<previewFile, papers>>
    BY <1>3 DEF SaveUnlisted, memory
  <2> QED BY <1>1, <1>2, <2>1, SavedIsExchange
<1>4. CASE Entries(p) # {} /\ SavePreview(paper)
  <2> DEFINE i == FirstIndex(p)
             D == Differing(papers[i], paper)
  <2>1. i \in DOMAIN papers /\ papers[i].paperId = p /\ papers[i] \in PaperPreviewModel
    BY <1>1, <1>4, FirstIndexEntry, EntryType
  <2>2. PICK S, outcome :
          /\ S \in Prefixes(D)
          /\ previewFile' = IF S = {} THEN previewFile
                            ELSE [previewFile EXCEPT ![p] = Merged(papers[i], paper, S)]
          /\ Ends(outcome, [papers EXCEPT ![i] = Merged(papers[i], paper, S)])
    BY <1>4 DEF SavePreview
  <2> DEFINE new == Merged(papers[i], paper, S)
  <2>3. new \in PaperPreviewModel /\ new.paperId = papers[i].paperId
    BY <2>1, <2>2, MergedFacts
  <2>4. papers' = << >> \/ papers' = [papers EXCEPT ![i] = new]
    BY <2>2, EndsList
  <2>5. /\ previewFile' = previewFile \/ previewFile' = [previewFile EXCEPT ![p] = new]
        /\ previewFile[p] # Absent /\ new # Absent
    BY <1>1, <2>1, <2>2, <2>3, LocalAssumption DEF GoodList, LocalAssumption
  <2> HIDE DEF new, D, i
  <2>6. Shown' = Shown \/ Shown' = {}
    <3>1. CASE papers' = << >>
      BY <3>1 DEF Shown
    <3>2. CASE papers' = [papers EXCEPT ![i] = new]
      <4>1. /\ DOMAIN papers' = DOMAIN papers
            /\ \A j \in DOMAIN papers : papers'[j].paperId = papers[j].paperId
        BY <1>1, <2>1, <2>3, <3>2, ReplaceGood
      <4> QED BY <4>1 DEF Shown
    <3> QED BY <2>4, <3>1, <3>2
  <2> QED BY <1>1, <1>2, <2>5, <2>6, SavedIsExchange
<1> QED BY <1>3, <1>4 DEF UpdatePaper

-----------------------------------------------------------------------------
(* LocalDatabaseFileManager keeps papers as a shelf would, through every    *)
(* crash and failed write between its file accesses:                       *)
(* LocalDatabaseFileManager.swift:92-204.                                  *)
THEOREM ImplementsShelf ==
  ASSUME "removeError" \notin Faults
  PROVE  Spec => KeepsAShelf
<1>1. Init => Shelf!Init
  BY DEF Init, NoFiles, Shelf!Init, OnDevice
<1>2. SInv /\ [Next]_vars => [Shelf!Next]_(Shelf!vars)
  <2> SUFFICES ASSUME SInv, [Next]_vars PROVE Shelf!Next \/ UNCHANGED Shelf!vars
    OBVIOUS
  <2>1. CASE Launch \/ \E user \in Users \cup {Absent} : ProfileChanged(user)
    BY <2>1, LoadIsLook DEF Launch, ProfileChanged
  <2>2. CASE Terminate
    BY <2>2, EndIsLook DEF Terminate, Ends
  <2>3. CASE ResetPaper
    BY <2>3, IdleIsStutter DEF ResetPaper
  <2>4. ASSUME NEW p \in Papers, NEW creator \in Users \cup {Absent}, NEW title \in Titles,
               AddPaper(NewPaper(p, creator, title))
        PROVE  Shelf!Next
    BY <2>4, NewPaperType, AddIsPut
  <2>5. ASSUME NEW paper \in PaperModel, UpdatePaper(paper) PROVE Shelf!Next
    BY <2>5, UpdateIsExchange
  <2>6. ASSUME NEW paper \in PaperModel, UpdatePaperFails(paper) PROVE Shelf!Next
    <3>1. /\ paper.paperId \in Papers /\ UNCHANGED <<files, papers>>
          /\ created' = created \cup {paper.paperId}
      BY <2>6, PreviewOfType DEF UpdatePaperFails, memory
    <3> QED BY <3>1, KeptSame, FailsIsAttempt
  <2>7. ASSUME NEW p \in Papers, RemovePaper(p) PROVE Shelf!Next \/ UNCHANGED Shelf!vars
    BY <2>7, RemoveIsTakeOff
  <2>8. ASSUME NEW p \in Papers, FetchPaper(p) PROVE UNCHANGED Shelf!vars
    BY <2>8, IdleIsStutter DEF FetchPaper
  <2>9. ASSUME NEW c \in Cards, RemoveCard(c) \/ UpdateCard(c) \/ \E t \in Cards : AddCard(c, t)
        PROVE  UNCHANGED Shelf!vars
    BY <2>9, IdleIsStutter DEF RemoveCard, UpdateCard, AddCard, memory
  <2>10. CASE UNCHANGED vars
    BY <2>10, IdleIsStutter DEF vars, memory
  <2> QED BY <2>1, <2>2, <2>3, <2>4, <2>5, <2>6, <2>7, <2>8, <2>9, <2>10 DEF Next
<1> QED BY <1>1, <1>2, Invariant, ListedPapersOpen, PTL DEF Spec, SInv, KeepsAShelf, Shelf!Spec
=============================================================================
