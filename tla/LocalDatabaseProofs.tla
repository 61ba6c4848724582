------------------------- MODULE LocalDatabaseProofs -------------------------
(***************************************************************************)
(* Theorems about LocalDatabase: whatever errors and crashes cut short,    *)
(* the list shows what the preview files hold, no paper twice, and every   *)
(* save that ends brings file and preview together again.                  *)
(***************************************************************************)
EXTENDS LocalDatabase, FiniteSetTheorems, TLAPS

(* What the list has to be, beside the preview files.                      *)
GoodList(list, preview) ==
  /\ list \in Seq(PaperPreviewModel)
  /\ \A i \in DOMAIN list : list[i] = preview[list[i].paperId]
  /\ \A i, j \in DOMAIN list : list[i].paperId = list[j].paperId => i = j

(* The type of the files.                                                  *)
PaperFilesOK(file) ==
  /\ file \in [Papers -> PaperModel \cup {Absent}]
  /\ \A p \in Papers : file[p] # Absent => file[p].paperId = p

PreviewFilesOK(preview) ==
  /\ preview \in [Papers -> PaperPreviewModel \cup {Absent}]
  /\ \A p \in Papers : preview[p] # Absent => preview[p].paperId = p

(* Preview and paper agree for every paper that is not behind.             *)
InStep(file, preview, late) ==
  \A p \in Papers \ late :
    file[p] # Absent /\ preview[p] # Absent => preview[p] = PreviewOf(file[p])

(* A paper with a file has a used identifier: a new one has none.          *)
FilesUsed(file, preview, used) ==
  \A p \in Papers : file[p] # Absent \/ preview[p] # Absent => p \in used

(* The rest of the state.                                                  *)
RestOK ==
  /\ running \in BOOLEAN
  /\ subject \in PaperModel \cup {Absent}
  /\ profile \in Users \cup {Absent}
  /\ created \subseteq Papers /\ behind \subseteq Papers
  /\ ops \in 0..MaxOps

IInv ==
  /\ PaperFilesOK(paperFile) /\ PreviewFilesOK(previewFile)
  /\ GoodList(papers, previewFile)
  /\ InStep(paperFile, previewFile, behind)
  /\ FilesUsed(paperFile, previewFile, created)
  /\ RestOK

(* The inductive invariant implies the properties.                         *)
LEMMA IInvParts == IInv => TypeOK /\ ListMatchesFiles /\ ListedOnce /\ PreviewInStep
BY DEF IInv, TypeOK, ListMatchesFiles, ListedOnce, PreviewInStep, PaperFilesOK,
       PreviewFilesOK, GoodList, InStep, RestOK

-----------------------------------------------------------------------------
(* Previews and lists                                                      *)

(* The preview of a paper is a preview, of that paper.                     *)
LEMMA PreviewOfType ==
  ASSUME NEW paper \in PaperModel
  PROVE  /\ PreviewOf(paper) \in PaperPreviewModel
         /\ PreviewOf(paper).paperId = paper.paperId
         /\ paper.paperId \in Papers
BY DEF PreviewOf, PaperModel, PaperPreviewModel

(* The empty list is good for any files.                                   *)
LEMMA EmptyGood == ASSUME NEW preview PROVE GoodList(<< >>, preview)
BY DEF GoodList

(* The entries of a good list are previews.                                *)
LEMMA EntryType ==
  ASSUME NEW list, NEW preview, GoodList(list, preview), NEW i \in DOMAIN list
  PROVE  list[i] \in PaperPreviewModel /\ list[i].paperId \in Papers
<1>1. list[i] \in PaperPreviewModel
  BY DEF GoodList
<1> QED BY <1>1 DEF PaperPreviewModel

(* What a reload finds is good.                                            *)
LEMMA LoadedGood ==
  ASSUME PaperFilesOK(paperFile), PreviewFilesOK(previewFile), NEW user,
         LoadPaperPreviews(user)
  PROVE  /\ GoodList(papers', previewFile)
         /\ \A i \in DOMAIN papers' : paperFile[papers'[i].paperId] # Absent
<1> DEFINE S == Loadable(user)
<1>1. PICK f \in Listings(S) : papers' = [i \in 1..Len(f) |-> previewFile[f[i]]]
  BY DEF LoadPaperPreviews
<1>2. S \subseteq Papers /\ IsFiniteSet(S)
  BY LocalAssumption, FS_Subset DEF LocalAssumption, Loadable
<1>3. Cardinality(S) \in Nat
  BY <1>2, FS_CardinalityType
<1>4. /\ f \in [1..Cardinality(S) -> S]
      /\ \A i, j \in DOMAIN f : f[i] = f[j] => i = j
  BY DEF Listings
<1> HIDE DEF S
<1>5. f \in Seq(S) /\ Len(f) = Cardinality(S) /\ DOMAIN f = 1..Len(f)
  BY <1>3, <1>4
<1>6. \A p \in S : /\ p \in Papers /\ paperFile[p] # Absent
                   /\ previewFile[p] \in PaperPreviewModel /\ previewFile[p].paperId = p
  BY <1>2 DEF S, Loadable, PreviewFilesOK
<1>7. DOMAIN papers' = 1..Len(f) /\ papers' \in Seq(PaperPreviewModel)
  <2>1. \A i \in 1..Len(f) : previewFile[f[i]] \in PaperPreviewModel
    BY <1>5, <1>6
  <2> QED BY <1>1, <1>3, <1>5, <2>1
<1>8. \A i \in 1..Len(f) : f[i] \in S /\ papers'[i] = previewFile[f[i]]
  BY <1>1, <1>5
<1>9. \A i \in DOMAIN papers' : papers'[i].paperId = f[i] /\ papers'[i] = previewFile[f[i]]
  BY <1>6, <1>7, <1>8
<1> QED BY <1>4, <1>5, <1>6, <1>7, <1>8, <1>9 DEF GoodList

(* A new paper's preview at the end of the list.                           *)
LEMMA AppendGood ==
  ASSUME NEW list, NEW preview, GoodList(list, preview), PreviewFilesOK(preview),
         NEW e \in PaperPreviewModel, \A i \in DOMAIN list : list[i].paperId # e.paperId
  PROVE  GoodList(Append(list, e), [preview EXCEPT ![e.paperId] = e])
<1> DEFINE l == Append(list, e)
           v == [preview EXCEPT ![e.paperId] = e]
<1>1. list \in Seq(PaperPreviewModel) /\ DOMAIN list = 1..Len(list) /\ Len(list) \in Nat
  BY DEF GoodList
<1>2. l \in Seq(PaperPreviewModel) /\ DOMAIN l = 1..(Len(list) + 1)
  BY <1>1
<1>3. \A i \in DOMAIN l : l[i] = IF i \in DOMAIN list THEN list[i] ELSE e
  BY <1>1
<1>4. \A i \in DOMAIN l : i \notin DOMAIN list => i = Len(list) + 1
  BY <1>1, <1>2
<1>5. e.paperId \in Papers /\ \A i \in DOMAIN list : list[i].paperId \in Papers
  BY EntryType DEF PaperPreviewModel
<1>6. /\ v[e.paperId] = e
      /\ \A i \in DOMAIN list : v[list[i].paperId] = list[i]
  BY <1>5 DEF GoodList, PreviewFilesOK
<1>7. \A i \in DOMAIN l : l[i] = v[l[i].paperId]
  BY <1>3, <1>6
<1>8. \A i, j \in DOMAIN l : l[i].paperId = l[j].paperId => i = j
  BY <1>3, <1>4 DEF GoodList
<1> HIDE DEF l, v
<1>9. GoodList(l, v)
  BY <1>2, <1>7, <1>8 DEF GoodList
<1> QED BY <1>9 DEF l, v

(* An entry is removed, and its preview's file with it.                    *)
LEMMA WithoutGood ==
  ASSUME NEW list, NEW preview, GoodList(list, preview), PreviewFilesOK(preview),
         NEW i \in DOMAIN list, NEW val
  PROVE  /\ GoodList(Without(list, i), [preview EXCEPT ![list[i].paperId] = val])
         /\ \A j \in DOMAIN Without(list, i) :
              /\ Without(list, i)[j].paperId # list[i].paperId
              /\ \E k \in DOMAIN list : Without(list, i)[j] = list[k]
<1> DEFINE l == Without(list, i)
           v == [preview EXCEPT ![list[i].paperId] = val]
           Old(j) == IF j < i THEN j ELSE j + 1
<1>1. /\ list \in Seq(PaperPreviewModel) /\ DOMAIN list = 1..Len(list)
      /\ Len(list) \in Nat /\ i \in 1..Len(list)
  BY DEF GoodList
<1>2. /\ DOMAIN l = 1..(Len(list) - 1)
      /\ \A j \in DOMAIN l : l[j] = list[Old(j)]
  BY <1>1 DEF Without
<1>3. \A j \in DOMAIN l : Old(j) \in DOMAIN list /\ Old(j) # i
  BY <1>1, <1>2
<1>4. \A j, k \in DOMAIN l : Old(j) = Old(k) => j = k
  BY <1>1, <1>2
<1>5. l \in Seq(PaperPreviewModel)
  <2>1. \A j \in 1..(Len(list) - 1) :
          (IF j < i THEN list[j] ELSE list[j + 1]) \in PaperPreviewModel
    BY <1>1
  <2> QED BY <1>1, <2>1 DEF Without
<1>6. \A j \in DOMAIN l : l[j].paperId # list[i].paperId /\ l[j].paperId \in Papers
  <2> TAKE j \in DOMAIN l
  <2>1. l[j] = list[Old(j)] /\ Old(j) \in DOMAIN list /\ Old(j) # i
    BY <1>2, <1>3
  <2>2. l[j] \in PaperPreviewModel
    BY <1>1, <2>1
  <2> HIDE DEF l, Old
  <2>3. l[j].paperId \in Papers
    BY <2>2 DEF PaperPreviewModel
  <2> QED BY <2>1, <2>3 DEF GoodList
<1>7. \A j \in DOMAIN l : l[j] = v[l[j].paperId]
  <2> TAKE j \in DOMAIN l
  <2>1. l[j] = list[Old(j)] /\ Old(j) \in DOMAIN list
    BY <1>2, <1>3
  <2>2. l[j].paperId # list[i].paperId /\ l[j].paperId \in Papers
    BY <1>6
  <2> HIDE DEF l, Old
  <2>3. l[j] = preview[l[j].paperId]
    BY <2>1 DEF GoodList
  <2> QED BY <2>2, <2>3 DEF PreviewFilesOK
<1>8. \A j, k \in DOMAIN l : l[j].paperId = l[k].paperId => j = k
  <2> TAKE j, k \in DOMAIN l
  <2>1. /\ l[j] = list[Old(j)] /\ Old(j) \in DOMAIN list
        /\ l[k] = list[Old(k)] /\ Old(k) \in DOMAIN list
        /\ Old(j) = Old(k) => j = k
    BY <1>2, <1>3, <1>4
  <2> HIDE DEF l, Old
  <2> QED BY <2>1 DEF GoodList
<1>9. \A j \in DOMAIN l : \E k \in DOMAIN list : l[j] = list[k]
  BY <1>2, <1>3
<1> HIDE DEF l, v
<1>10. GoodList(l, v)
  BY <1>5, <1>7, <1>8 DEF GoodList
<1> QED BY <1>6, <1>9, <1>10 DEF l, v

(* An entry and its preview's file are replaced by the same preview.       *)
LEMMA ReplaceGood ==
  ASSUME NEW list, NEW preview, GoodList(list, preview), PreviewFilesOK(preview),
         NEW i \in DOMAIN list, NEW e \in PaperPreviewModel, e.paperId = list[i].paperId
  PROVE  /\ GoodList([list EXCEPT ![i] = e], [preview EXCEPT ![e.paperId] = e])
         /\ DOMAIN [list EXCEPT ![i] = e] = DOMAIN list
         /\ \A j \in DOMAIN list : [list EXCEPT ![i] = e][j].paperId = list[j].paperId
<1> DEFINE l == [list EXCEPT ![i] = e]
           v == [preview EXCEPT ![e.paperId] = e]
<1>1. list \in Seq(PaperPreviewModel) /\ DOMAIN list = 1..Len(list) /\ Len(list) \in Nat
  BY DEF GoodList
<1>2. l \in Seq(PaperPreviewModel) /\ DOMAIN l = DOMAIN list
  BY <1>1
<1>3. \A j \in DOMAIN list : l[j] = IF j = i THEN e ELSE list[j]
  BY <1>1
<1>4. e.paperId \in Papers /\ \A j \in DOMAIN list : list[j].paperId \in Papers
  BY EntryType DEF PaperPreviewModel
<1>5. \A j \in DOMAIN list : l[j].paperId = list[j].paperId
  BY <1>3
<1>6. \A j \in DOMAIN list : l[j] = v[l[j].paperId]
  <2> TAKE j \in DOMAIN list
  <2>1. CASE j = i
    BY <1>3, <1>4, <2>1 DEF PreviewFilesOK
  <2>2. CASE j # i
    <3>1. list[j].paperId # e.paperId
      BY <2>2 DEF GoodList
    <3>2. v[list[j].paperId] = preview[list[j].paperId]
      BY <1>4, <3>1 DEF PreviewFilesOK
    <3>3. list[j] = preview[list[j].paperId]
      BY DEF GoodList
    <3>4. l[j] = list[j]
      BY <1>3, <2>2
    <3> QED BY <3>2, <3>3, <3>4
  <2> QED BY <2>1, <2>2
<1>7. \A j, k \in DOMAIN list : l[j].paperId = l[k].paperId => j = k
  BY <1>5 DEF GoodList
<1> HIDE DEF l, v
<1>8. GoodList(l, v)
  BY <1>2, <1>6, <1>7 DEF GoodList
<1> QED BY <1>2, <1>5, <1>8 DEF l, v

-----------------------------------------------------------------------------
(* How operations end                                                      *)

(* Whatever the outcome, the list is the operation's or empty.             *)
LEMMA EndsRest ==
  ASSUME RestOK, NEW outcome, NEW list, NEW preview, GoodList(list, preview),
         Ends(outcome, list)
  PROVE  /\ GoodList(papers', preview)
         /\ papers' \in {list, << >>}
         /\ running' \in BOOLEAN
         /\ subject' \in PaperModel \cup {Absent}
         /\ profile' \in Users \cup {Absent}
<1>1. CASE outcome = "crash"
  BY <1>1, EmptyGood DEF Ends
<1>2. CASE outcome # "crash"
  BY <1>2 DEF Ends, RestOK
<1> QED BY <1>1, <1>2

LEMMA PerformOps ==
  ASSUME RestOK, Perform
  PROVE  ops' \in 0..MaxOps
BY LocalAssumption DEF RestOK, Perform, LocalAssumption

(* The first entry of a listed paper is its only one.                      *)
LEMMA FirstIndexEntry ==
  ASSUME GoodList(papers, previewFile), NEW p, Entries(p) # {}
  PROVE  FirstIndex(p) \in DOMAIN papers /\ papers[FirstIndex(p)].paperId = p
<1>1. DOMAIN papers \subseteq Nat
  BY DEF GoodList
<1>2. PICK i \in DOMAIN papers : papers[i].paperId = p
  BY DEF Entries
<1>3. \A j \in Entries(p) : j = i
  BY <1>2 DEF Entries, GoodList
<1>4. i \in Entries(p) /\ \A j \in Entries(p) : i <= j
  BY <1>1, <1>2, <1>3 DEF Entries
<1>5. FirstIndex(p) \in Entries(p)
  BY <1>4 DEF FirstIndex
<1> QED BY <1>5 DEF Entries

-----------------------------------------------------------------------------
(* One lemma per operation on files                                        *)

LEMMA AddPaperPreserves ==
  ASSUME IInv, NEW paper \in PaperModel, AddPaper(paper)
  PROVE  IInv'
<1> DEFINE p == paper.paperId
<1> USE DEF IInv
<1>1. PICK n, outcome :
        /\ n \in 0..2
        /\ paperFile' = IF n >= 1 THEN [paperFile EXCEPT ![p] = paper] ELSE paperFile
        /\ previewFile' =
             IF n = 2 THEN [previewFile EXCEPT ![p] = PreviewOf(paper)] ELSE previewFile
        /\ behind' = IF n = 1 THEN behind \cup {p} ELSE behind
        /\ Ends(outcome, IF n = 2 THEN Append(papers, PreviewOf(paper)) ELSE papers)
  BY DEF AddPaper
<1>2. /\ p \in Papers /\ PreviewOf(paper) \in PaperPreviewModel
      /\ PreviewOf(paper).paperId = p
  BY PreviewOfType
<1>3. PaperFilesOK(paperFile') /\ PreviewFilesOK(previewFile')
  BY <1>1, <1>2 DEF PaperFilesOK, PreviewFilesOK
<1>4. created' \subseteq Papers /\ behind' \subseteq Papers /\ ops' \in 0..MaxOps
  BY <1>1, <1>2, PerformOps DEF AddPaper, RestOK
<1>7. FilesUsed(paperFile', previewFile', created')
  BY <1>1, <1>2 DEF AddPaper, FilesUsed, PaperFilesOK, PreviewFilesOK
<1>8. \A i \in DOMAIN papers : papers[i].paperId # p
  <2> TAKE i \in DOMAIN papers
  <2>1. papers[i] \in PaperPreviewModel /\ papers[i].paperId \in Papers
    BY EntryType
  <2>2. papers[i] # Absent
    BY <2>1, LocalAssumption DEF LocalAssumption
  <2>3. papers[i].paperId \in created
    BY <2>1, <2>2 DEF GoodList, FilesUsed
  <2> QED BY <2>3 DEF AddPaper
<1>5. CASE n = 2
  <2>1. GoodList(Append(papers, PreviewOf(paper)), previewFile')
    BY <1>1, <1>2, <1>5, <1>8, AppendGood
  <2>2. InStep(paperFile', previewFile', behind')
    BY <1>1, <1>2, <1>5 DEF InStep, PaperFilesOK, PreviewFilesOK
  <2> QED BY <1>1, <1>3, <1>4, <1>5, <1>7, <2>1, <2>2, EndsRest DEF RestOK
<1>6. CASE n # 2
  <2>1. GoodList(papers, previewFile')
    BY <1>1, <1>6
  <2>2. InStep(paperFile', previewFile', behind')
    BY <1>1, <1>2, <1>6 DEF InStep, PaperFilesOK, PreviewFilesOK
  <2> QED BY <1>1, <1>3, <1>4, <1>6, <1>7, <2>1, <2>2, EndsRest DEF RestOK
<1> QED BY <1>5, <1>6

LEMMA RemovePaperPreserves ==
  ASSUME IInv, NEW p \in Papers, RemovePaper(p)
  PROVE  IInv'
<1> USE DEF IInv
<1>1. PICK n, outcome :
        /\ n \in 0..2
        /\ n >= 1 => paperFile[p] # Absent
        /\ n = 2 => previewFile[p] # Absent
        /\ paperFile' = IF n >= 1 THEN [paperFile EXCEPT ![p] = Absent] ELSE paperFile
        /\ previewFile' = IF n = 2 THEN [previewFile EXCEPT ![p] = Absent] ELSE previewFile
        /\ Ends(outcome, IF n = 2 /\ Entries(p) # {} THEN Without(papers, FirstIndex(p))
                         ELSE papers)
  BY DEF RemovePaper
<1>2. PaperFilesOK(paperFile') /\ PreviewFilesOK(previewFile')
  BY <1>1 DEF PaperFilesOK, PreviewFilesOK
<1>3. /\ created' = created /\ behind' = behind /\ ops' \in 0..MaxOps
      /\ created' \subseteq Papers /\ behind' \subseteq Papers
  BY PerformOps DEF RemovePaper, RestOK
<1>4. InStep(paperFile', previewFile', behind') /\ FilesUsed(paperFile', previewFile', created')
  BY <1>1, <1>3 DEF InStep, FilesUsed, PaperFilesOK, PreviewFilesOK
<1> DEFINE list == IF n = 2 /\ Entries(p) # {} THEN Without(papers, FirstIndex(p)) ELSE papers
<1>5. GoodList(list, previewFile')
  <2>1. CASE n = 2 /\ Entries(p) # {}
    <3> DEFINE i == FirstIndex(p)
    <3>1. i \in DOMAIN papers /\ papers[i].paperId = p
      BY <2>1, FirstIndexEntry
    <3>2. previewFile' = [previewFile EXCEPT ![papers[i].paperId] = Absent]
      BY <1>1, <2>1, <3>1
    <3>3. list = Without(papers, i)
      BY <2>1
    <3> HIDE DEF list, i
    <3>4. GoodList(Without(papers, i), previewFile')
      BY <3>1, <3>2, WithoutGood
    <3> QED BY <3>3, <3>4
  <2>2. CASE n # 2
    BY <1>1, <2>2
  <2>3. CASE n = 2 /\ Entries(p) = {}
    <3>1. \A i \in DOMAIN papers : papers[i].paperId # p /\ papers[i].paperId \in Papers
      BY <2>3, EntryType DEF Entries
    <3>2. previewFile' = [previewFile EXCEPT ![p] = Absent]
      BY <1>1, <2>3
    <3>3. \A i \in DOMAIN papers : papers[i] = previewFile'[papers[i].paperId]
      BY <3>1, <3>2 DEF GoodList, PreviewFilesOK
    <3> QED BY <2>3, <3>3 DEF GoodList
  <2> QED BY <1>1, <2>1, <2>2, <2>3
<1> HIDE DEF list
<1>6. Ends(outcome, list)
  BY <1>1 DEF list
<1> QED BY <1>2, <1>3, <1>4, <1>5, <1>6, EndsRest DEF RestOK

(* What a save of a paper does to its listed preview.                      *)
LEMMA MergedFacts ==
  ASSUME NEW paper \in PaperModel, NEW entry \in PaperPreviewModel,
         entry.paperId = paper.paperId, NEW S \in Prefixes(Differing(entry, paper))
  PROVE  /\ Merged(entry, paper, S) \in PaperPreviewModel
         /\ Merged(entry, paper, S).paperId = paper.paperId
         /\ S = Differing(entry, paper) => Merged(entry, paper, S) = PreviewOf(paper)
         /\ S = {} => Merged(entry, paper, S) = entry
<1>1. /\ paper.paperId \in Papers /\ paper.title \in Titles
      /\ paper.thumbnailURLString \in Cards \cup {Absent} /\ paper.endTime \in EndTimes
  BY DEF PaperModel
<1>2. /\ entry.title \in Titles
      /\ entry.thumbnailURLString \in Cards \cup {Absent} /\ entry.endTime \in EndTimes
      /\ entry = [paperId |-> entry.paperId, title |-> entry.title,
                  thumbnailURLString |-> entry.thumbnailURLString, endTime |-> entry.endTime]
  BY DEF PaperPreviewModel
<1>3. Merged(entry, paper, S) \in PaperPreviewModel
  BY <1>1, <1>2 DEF Merged, PaperPreviewModel
<1>4. ASSUME S = Differing(entry, paper) PROVE Merged(entry, paper, S) = PreviewOf(paper)
  <2>1. /\ "title" \notin S => entry.title = paper.title
        /\ "thumbnailURLString" \notin S => entry.thumbnailURLString = paper.thumbnailURLString
        /\ "endTime" \notin S => entry.endTime = paper.endTime
    BY <1>4 DEF Differing
  <2> QED BY <2>1 DEF Merged, PreviewOf
<1>5. ASSUME S = {} PROVE Merged(entry, paper, S) = entry
  BY <1>2, <1>5 DEF Merged
<1> QED BY <1>3, <1>4, <1>5 DEF Merged

LEMMA UpdatePaperPreserves ==
  ASSUME IInv, NEW paper \in PaperModel, UpdatePaper(paper)
  PROVE  IInv'
<1> DEFINE p == paper.paperId
<1> USE DEF IInv
<1>1. p \in Papers /\ paperFile' = [paperFile EXCEPT ![p] = paper]
  BY PreviewOfType DEF UpdatePaper
<1>2. PaperFilesOK(paperFile')
  BY <1>1 DEF PaperFilesOK
<1>3. created' = created \cup {p} /\ created' \subseteq Papers /\ ops' \in 0..MaxOps
  BY <1>1, PerformOps DEF UpdatePaper, RestOK
<1>4. CASE Entries(p) = {} /\ SaveUnlisted(paper)
  <2>1. /\ behind' = behind \cup {p} /\ previewFile' = previewFile
        /\ UNCHANGED memory
    BY <1>4 DEF SaveUnlisted
  <2>2. InStep(paperFile', previewFile', behind')
    BY <1>1, <2>1 DEF InStep, PaperFilesOK
  <2>3. FilesUsed(paperFile', previewFile', created')
    BY <1>1, <1>3, <2>1 DEF FilesUsed, PaperFilesOK
  <2>4. GoodList(papers', previewFile') /\ PreviewFilesOK(previewFile')
    BY <2>1 DEF memory
  <2>5. RestOK'
    BY <1>1, <1>3, <2>1 DEF RestOK, memory
  <2> QED BY <1>2, <2>2, <2>3, <2>4, <2>5
<1>5. CASE Entries(p) # {} /\ SavePreview(paper)
  <2> DEFINE i == FirstIndex(p)
             D == Differing(papers[i], paper)
             entry == papers[i]
  <2>1. PICK S, outcome :
          /\ S \in Prefixes(D)
          /\ previewFile' = IF S = {} THEN previewFile
                            ELSE [previewFile EXCEPT ![p] = Merged(entry, paper, S)]
          /\ behind' = IF S = D THEN behind \ {p} ELSE behind \cup {p}
          /\ Ends(outcome, [papers EXCEPT ![i] = Merged(@, paper, S)])
    BY <1>5 DEF SavePreview
  <2>2. i \in DOMAIN papers /\ entry.paperId = p /\ entry \in PaperPreviewModel
    BY <1>5, FirstIndexEntry, EntryType
  <2>3. previewFile[p] = entry
    BY <2>2 DEF GoodList
  <2> DEFINE new == Merged(entry, paper, S)
  <2>4. /\ new \in PaperPreviewModel /\ new.paperId = p
        /\ S = D => new = PreviewOf(paper)
        /\ S = {} => new = entry
    BY <2>1, <2>2, MergedFacts
  <2>5. Ends(outcome, [papers EXCEPT ![i] = new])
    BY <2>1
  <2> HIDE DEF new, D, i
  <2>6. previewFile' = [previewFile EXCEPT ![p] = new]
    BY <1>1, <2>1, <2>3, <2>4 DEF new, PreviewFilesOK
  <2>7. PreviewFilesOK(previewFile')
    BY <1>1, <2>4, <2>6 DEF PreviewFilesOK
  <2>8. GoodList([papers EXCEPT ![i] = new], previewFile')
    BY <2>2, <2>4, <2>6, ReplaceGood
  <2>9. InStep(paperFile', previewFile', behind')
    BY <1>1, <2>1, <2>4, <2>6 DEF InStep, PaperFilesOK, PreviewFilesOK
  <2>10. FilesUsed(paperFile', previewFile', created')
    BY <1>1, <1>3, <2>6 DEF FilesUsed, PaperFilesOK, PreviewFilesOK
  <2>11. behind' \subseteq Papers
    BY <1>1, <2>1 DEF RestOK
  <2> QED BY <1>2, <1>3, <2>5, <2>7, <2>8, <2>9, <2>10, <2>11, EndsRest DEF RestOK
<1> QED BY <1>4, <1>5 DEF UpdatePaper

-----------------------------------------------------------------------------
(* The inductive invariant                                                 *)

LEMMA InitEstablishes == Init => IInv
<1> SUFFICES ASSUME Init PROVE IInv
  OBVIOUS
<1>1. GoodList(papers, previewFile)
  BY EmptyGood DEF Init
<1>2. RestOK
  <2>1. running \in BOOLEAN /\ subject \in PaperModel \cup {Absent}
        /\ profile \in Users \cup {Absent}
    BY Zenon DEF Init
  <2>2. created \subseteq Papers /\ behind \subseteq Papers /\ ops \in 0..MaxOps
    BY LocalAssumption DEF Init, LocalAssumption
  <2> QED BY <2>1, <2>2 DEF RestOK
<1>3. /\ paperFile = [p \in Papers |-> Absent]
      /\ previewFile = [p \in Papers |-> Absent]
  BY DEF Init, NoFiles
<1>4. PaperFilesOK(paperFile) /\ PreviewFilesOK(previewFile)
  BY <1>3 DEF PaperFilesOK, PreviewFilesOK
<1>5. InStep(paperFile, previewFile, behind) /\ FilesUsed(paperFile, previewFile, created)
  BY <1>3 DEF InStep, FilesUsed
<1> QED BY <1>1, <1>2, <1>4, <1>5 DEF IInv

(* Steps that leave the files alone and the list good.                     *)
LEMMA FilesKept ==
  ASSUME IInv, UNCHANGED <<files, created, behind>>, GoodList(papers', previewFile),
         running' \in BOOLEAN, subject' \in PaperModel \cup {Absent},
         profile' \in Users \cup {Absent}, ops' \in 0..MaxOps
  PROVE  IInv'
BY DEF IInv, files, RestOK

LEMMA NewPaperType ==
  ASSUME NEW p \in Papers, NEW creator \in Users \cup {Absent}, NEW title \in Titles
  PROVE  NewPaper(p, creator, title) \in PaperModel
BY DEF NewPaper, PaperModel, EndTimes

LEMMA FetchPaperPreserves ==
  ASSUME IInv, NEW p \in Papers, FetchPaper(p)
  PROVE  IInv'
<1>1. subject' \in PaperModel \cup {Absent}
  BY DEF FetchPaper, IInv, PaperFilesOK, RestOK
<1>2. ops' \in 0..MaxOps
  BY PerformOps DEF FetchPaper, IInv
<1> QED BY <1>1, <1>2, FilesKept DEF FetchPaper, IInv, RestOK

(* A card in memory is added, removed or replaced.                         *)
LEMMA CardsPreserve ==
  ASSUME IInv, NEW c \in Cards,
         RemoveCard(c) \/ UpdateCard(c) \/ \E t \in Cards : AddCard(c, t)
  PROVE  IInv'
<1>1. subject # Absent => subject \in PaperModel
  BY DEF IInv, RestOK
<1>2. CASE RemoveCard(c)
  <2>1. subject' \in PaperModel
    BY <1>1, <1>2 DEF RemoveCard, PaperModel
  <2> QED BY <1>2, <2>1, FilesKept, PerformOps DEF RemoveCard, IInv, RestOK
<1>3. CASE UpdateCard(c)
  BY <1>3, FilesKept, PerformOps DEF UpdateCard, IInv, RestOK, memory
<1>4. ASSUME NEW t \in Cards, AddCard(c, t) PROVE IInv'
  <2>1. subject' \in PaperModel
    BY <1>1, <1>4 DEF AddCard, PaperModel
  <2> QED BY <1>4, <2>1, FilesKept, PerformOps DEF AddCard, IInv, RestOK
<1> QED BY <1>2, <1>3, <1>4

LEMMA ReloadsPreserve ==
  ASSUME IInv, Launch \/ \E user \in Users \cup {Absent} : ProfileChanged(user)
  PROVE  IInv'
<1>1. CASE Launch
  <2>1. GoodList(papers', previewFile)
    BY <1>1, LoadedGood DEF Launch, IInv
  <2> QED BY <1>1, <2>1, FilesKept DEF Launch, IInv, RestOK
<1>2. ASSUME NEW user \in Users \cup {Absent}, ProfileChanged(user) PROVE IInv'
  <2>1. GoodList(papers', previewFile)
    BY <1>2, LoadedGood DEF ProfileChanged, IInv
  <2> QED BY <1>2, <2>1, FilesKept, PerformOps DEF ProfileChanged, IInv, RestOK
<1> QED BY <1>1, <1>2

LEMMA StepPreserves == IInv /\ [Next]_vars => IInv'
<1> SUFFICES ASSUME IInv, [Next]_vars PROVE IInv'
  OBVIOUS
<1>1. CASE Launch \/ \E user \in Users \cup {Absent} : ProfileChanged(user)
  BY <1>1, ReloadsPreserve
<1>2. CASE Terminate
  <2>1. GoodList(papers, previewFile) /\ RestOK
    BY DEF IInv
  <2>2. Ends("crash", papers)
    BY <1>2 DEF Terminate
  <2>3. /\ GoodList(papers', previewFile) /\ running' \in BOOLEAN
        /\ subject' \in PaperModel \cup {Absent} /\ profile' \in Users \cup {Absent}
    BY <2>1, <2>2, EndsRest
  <2> QED BY <1>2, <2>1, <2>3, FilesKept DEF Terminate, RestOK
<1>3. CASE ResetPaper
  BY <1>3, FilesKept, PerformOps DEF ResetPaper, IInv, RestOK
<1>4. ASSUME NEW p \in Papers, NEW creator \in Users \cup {Absent}, NEW title \in Titles,
             AddPaper(NewPaper(p, creator, title))
      PROVE  IInv'
  BY <1>4, NewPaperType, AddPaperPreserves
<1>5. ASSUME NEW paper \in PaperModel, UpdatePaper(paper) PROVE IInv'
  BY <1>5, UpdatePaperPreserves
<1>6. ASSUME NEW paper \in PaperModel, UpdatePaperFails(paper) PROVE IInv'
  <2>1. created' = created \cup {paper.paperId} /\ paper.paperId \in Papers
    BY <1>6, PreviewOfType DEF UpdatePaperFails
  <2>2. FilesUsed(paperFile', previewFile', created')
    BY <1>6, <2>1 DEF UpdatePaperFails, FilesUsed, IInv, files
  <2>3. RestOK'
    BY <1>6, <2>1, PerformOps DEF UpdatePaperFails, IInv, RestOK, memory
  <2> QED BY <1>6, <2>2, <2>3 DEF UpdatePaperFails, IInv, files, memory
<1>7. ASSUME NEW p \in Papers, RemovePaper(p) PROVE IInv'
  BY <1>7, RemovePaperPreserves
<1>8. ASSUME NEW p \in Papers, FetchPaper(p) PROVE IInv'
  BY <1>8, FetchPaperPreserves
<1>9. ASSUME NEW c \in Cards,
             RemoveCard(c) \/ UpdateCard(c) \/ \E t \in Cards : AddCard(c, t)
      PROVE  IInv'
  BY <1>9, CardsPreserve
<1>10. CASE UNCHANGED vars
  BY <1>10 DEF vars, files, memory, IInv, RestOK
<1> QED BY <1>1, <1>2, <1>3, <1>4, <1>5, <1>6, <1>7, <1>8, <1>9, <1>10 DEF Next

(* The list is good, the files have their types, and preview and paper     *)
(* agree where no save was cut short, in every reachable state:            *)
(* LocalDatabaseFileManager.swift:92-243.                                  *)
THEOREM Invariant == Spec => []IInv
<1>1. Init => IInv
  BY InitEstablishes
<1>2. IInv /\ [Next]_vars => IInv'
  BY StepPreserves
<1> QED BY <1>1, <1>2, PTL DEF Spec

(* Files, list and open paper have their types, through all errors and     *)
(* crashes: LocalDatabaseFileManager.swift:92-243.                         *)
THEOREM TypeCorrect == Spec => []TypeOK
<1>1. IInv => TypeOK
  BY IInvParts
<1> QED BY <1>1, Invariant, PTL

(* The list shows what the preview files hold, however an operation ended: *)
(* addPaper, removePaper, updatePaper: LocalDatabaseFileManager.swift:118. *)
THEOREM ListMatches == Spec => []ListMatchesFiles
<1>1. IInv => ListMatchesFiles
  BY IInvParts
<1> QED BY <1>1, Invariant, PTL

(* No paper is listed twice: bind, LocalDatabaseFileManager.swift:92.      *)
THEOREM NeverTwice == Spec => []ListedOnce
<1>1. IInv => ListedOnce
  BY IInvParts
<1> QED BY <1>1, Invariant, PTL

(* A save that reaches the preview makes good what earlier errors and      *)
(* crashes left out: updatePaper, LocalDatabaseFileManager.swift:168.      *)
THEOREM SavesHeal == Spec => []PreviewInStep
<1>1. IInv => PreviewInStep
  BY IInvParts
<1> QED BY <1>1, Invariant, PTL

-----------------------------------------------------------------------------
(* Papers of the list can be opened                                        *)

(* However an operation ends, the list has no more than it was to have.    *)
LEMMA EndsList ==
  ASSUME NEW outcome, NEW list, Ends(outcome, list)
  PROVE  papers' = list \/ papers' = << >>
BY DEF Ends

LEMMA RemoveKeepsOpens ==
  ASSUME IInv, ListedOpens, "removeError" \notin Faults, NEW p \in Papers, RemovePaper(p)
  PROVE  ListedOpens'
<1>1. PICK n \in 0..2 :
        /\ n >= 1 => paperFile[p] # Absent
        /\ n = 2 => previewFile[p] # Absent
        /\ paperFile' = IF n >= 1 THEN [paperFile EXCEPT ![p] = Absent] ELSE paperFile
        /\ \E outcome \in Outcomes(n = 2 \/ (n = 0 /\ paperFile[p] = Absent)
                                          \/ (n = 1 /\ previewFile[p] = Absent),
                                    "removeError") :
             Ends(outcome, IF n = 2 /\ Entries(p) # {} THEN Without(papers, FirstIndex(p))
                           ELSE papers)
  BY DEF RemovePaper
<1>2. PICK outcome \in Outcomes(n = 2 \/ (n = 0 /\ paperFile[p] = Absent)
                                    \/ (n = 1 /\ previewFile[p] = Absent), "removeError") :
        Ends(outcome, IF n = 2 /\ Entries(p) # {} THEN Without(papers, FirstIndex(p))
                      ELSE papers)
  BY <1>1
<1>3. GoodList(papers, previewFile) /\ PreviewFilesOK(previewFile) /\ PaperFilesOK(paperFile)
  BY DEF IInv
<1>4. \A i \in DOMAIN papers : /\ papers[i].paperId \in Papers
                                /\ previewFile[papers[i].paperId] # Absent
  BY <1>3, EntryType, LocalAssumption DEF GoodList, LocalAssumption
<1>5. CASE outcome = "crash"
  BY <1>2, <1>5 DEF Ends, ListedOpens
<1>6. CASE outcome # "crash"
  <2>1. outcome = "returns"
    BY <1>2, <1>6 DEF Outcomes
  <2>2. CASE n = 2 /\ Entries(p) # {}
    <3> DEFINE i == FirstIndex(p)
    <3>1. i \in DOMAIN papers /\ papers[i].paperId = p
      BY <1>3, <2>2, FirstIndexEntry
    <3>2. papers' = Without(papers, i)
      BY <1>2, <1>6, <2>2 DEF Ends
    <3> HIDE DEF i
    <3> DEFINE l == Without(papers, i)
    <3>5. /\ GoodList(l, [previewFile EXCEPT ![papers[i].paperId] = Absent])
          /\ \A j \in DOMAIN l : /\ l[j].paperId # papers[i].paperId
                                 /\ \E k \in DOMAIN papers : l[j] = papers[k]
      BY <1>3, <3>1, WithoutGood
    <3> HIDE DEF l
    <3>3. \A j \in DOMAIN papers' : /\ papers'[j].paperId # p
                                    /\ \E k \in DOMAIN papers : papers'[j] = papers[k]
      BY <3>1, <3>2, <3>5 DEF l
    <3>4. \A j \in DOMAIN papers' : paperFile'[papers'[j].paperId] = paperFile[papers'[j].paperId]
      BY <1>1, <1>3, <3>3 DEF PaperFilesOK
    <3> QED BY <3>3, <3>4 DEF ListedOpens
  <2>3. CASE ~(n = 2 /\ Entries(p) # {})
    <3>1. papers' = papers
      BY <1>2, <1>6, <2>3 DEF Ends
    <3>2. n >= 1 => \A i \in DOMAIN papers : papers[i].paperId # p
      BY <1>2, <1>4, <2>1, <2>3 DEF Outcomes, Entries
    <3>3. \A i \in DOMAIN papers : paperFile'[papers[i].paperId] = paperFile[papers[i].paperId]
      BY <1>1, <1>3, <3>2 DEF PaperFilesOK
    <3> QED BY <3>1, <3>3 DEF ListedOpens
  <2> QED BY <2>2, <2>3
<1> QED BY <1>5, <1>6

LEMMA AddKeepsOpens ==
  ASSUME IInv, ListedOpens, NEW paper \in PaperModel, AddPaper(paper)
  PROVE  ListedOpens'
<1> DEFINE p == paper.paperId
<1>1. PICK n, outcome :
        /\ n \in 0..2
        /\ paperFile' = IF n >= 1 THEN [paperFile EXCEPT ![p] = paper] ELSE paperFile
        /\ Ends(outcome, IF n = 2 THEN Append(papers, PreviewOf(paper)) ELSE papers)
  BY DEF AddPaper
<1>2. /\ p \in Papers /\ PreviewOf(paper).paperId = p /\ paper # Absent
      /\ papers \in Seq(PaperPreviewModel) /\ PaperFilesOK(paperFile)
      /\ \A i \in DOMAIN papers : papers[i].paperId \in Papers
  BY PreviewOfType, EntryType, LocalAssumption DEF IInv, GoodList, LocalAssumption
<1>3. \A q \in Papers : paperFile[q] # Absent => paperFile'[q] # Absent
  BY <1>1, <1>2 DEF PaperFilesOK
<1>4. CASE papers' = << >>
  BY <1>4 DEF ListedOpens
<1>5. CASE papers' = papers
  BY <1>2, <1>3, <1>5 DEF ListedOpens
<1>6. CASE n = 2 /\ papers' = Append(papers, PreviewOf(paper))
  <2>1. \A i \in DOMAIN papers' :
          papers'[i] = PreviewOf(paper) \/ \E j \in DOMAIN papers : papers'[i] = papers[j]
    BY <1>2, <1>6
  <2>2. paperFile'[p] # Absent
    BY <1>1, <1>2, <1>6 DEF PaperFilesOK
  <2> QED BY <1>2, <1>3, <2>1, <2>2 DEF ListedOpens
<1> QED BY <1>1, <1>4, <1>5, <1>6, EndsList

LEMMA UpdateKeepsOpens ==
  ASSUME IInv, ListedOpens, NEW paper \in PaperModel, UpdatePaper(paper)
  PROVE  ListedOpens'
<1> DEFINE p == paper.paperId
<1>1. /\ p \in Papers /\ paper # Absent /\ PaperFilesOK(paperFile)
      /\ \A i \in DOMAIN papers : papers[i].paperId \in Papers
      /\ GoodList(papers, previewFile) /\ PreviewFilesOK(previewFile)
  BY PreviewOfType, EntryType, LocalAssumption DEF IInv, LocalAssumption
<1>2. \A q \in Papers : paperFile[q] # Absent => paperFile'[q] # Absent
  BY <1>1 DEF UpdatePaper, PaperFilesOK
<1>3. CASE SaveUnlisted(paper)
  BY <1>1, <1>2, <1>3 DEF SaveUnlisted, memory, ListedOpens
<1>4. CASE Entries(p) # {} /\ SavePreview(paper)
  <2> DEFINE i == FirstIndex(p)
             D == Differing(papers[i], paper)
  <2>1. i \in DOMAIN papers /\ papers[i].paperId = p /\ papers[i] \in PaperPreviewModel
    BY <1>1, <1>4, FirstIndexEntry, EntryType
  <2>2. PICK S, outcome :
          /\ S \in Prefixes(D)
          /\ Ends(outcome, [papers EXCEPT ![i] = Merged(papers[i], paper, S)])
    BY <1>4 DEF SavePreview
  <2> DEFINE new == Merged(papers[i], paper, S)
  <2>3. new \in PaperPreviewModel /\ new.paperId = papers[i].paperId
    BY <2>1, <2>2, MergedFacts
  <2>4. papers' = << >> \/ papers' = [papers EXCEPT ![i] = new]
    BY <2>2, EndsList
  <2> HIDE DEF new, D, i
  <2>5. CASE papers' = << >>
    BY <2>5 DEF ListedOpens
  <2>6. CASE papers' = [papers EXCEPT ![i] = new]
    <3>1. /\ DOMAIN papers' = DOMAIN papers
          /\ \A j \in DOMAIN papers : papers'[j].paperId = papers[j].paperId
      BY <1>1, <2>1, <2>3, <2>6, ReplaceGood
    <3> QED BY <1>1, <1>2, <3>1 DEF ListedOpens
  <2> QED BY <2>4, <2>5, <2>6
<1> QED BY <1>3, <1>4 DEF UpdatePaper

(* As long as no file access of a removal fails, every paper of the list   *)
(* has its file: LocalDatabaseFileManager.swift:103-158.                   *)
THEOREM ListedPapersOpen ==
  ASSUME "removeError" \notin Faults
  PROVE  Spec => []ListedOpens
<1>1. Init => ListedOpens
  BY DEF Init, ListedOpens
<1>2. IInv /\ ListedOpens /\ [Next]_vars => ListedOpens'
  <2> SUFFICES ASSUME IInv, ListedOpens, [Next]_vars PROVE ListedOpens'
    OBVIOUS
  <2>1. ASSUME NEW user, LoadPaperPreviews(user), UNCHANGED files PROVE ListedOpens'
    BY <2>1, LoadedGood DEF IInv, files, ListedOpens
  <2>2. ASSUME UNCHANGED <<papers, paperFile>> PROVE ListedOpens'
    BY <2>2 DEF ListedOpens
  <2>3. CASE Launch \/ \E user \in Users \cup {Absent} : ProfileChanged(user)
    BY <2>1, <2>3 DEF Launch, ProfileChanged
  <2>4. CASE Terminate
    BY <2>4 DEF Terminate, Ends, ListedOpens
  <2>5. CASE ResetPaper
    BY <2>2, <2>5 DEF ResetPaper, files
  <2>6. ASSUME NEW p \in Papers, NEW creator \in Users \cup {Absent}, NEW title \in Titles,
               AddPaper(NewPaper(p, creator, title))
        PROVE  ListedOpens'
    BY <2>6, NewPaperType, AddKeepsOpens
  <2>7. ASSUME NEW paper \in PaperModel, UpdatePaper(paper) \/ UpdatePaperFails(paper)
        PROVE  ListedOpens'
    BY <2>2, <2>7, UpdateKeepsOpens DEF UpdatePaperFails, files, memory
  <2>8. ASSUME NEW p \in Papers, RemovePaper(p) PROVE ListedOpens'
    BY <2>8, RemoveKeepsOpens
  <2>9. ASSUME NEW p \in Papers, FetchPaper(p) PROVE ListedOpens'
    BY <2>2, <2>9 DEF FetchPaper, files
  <2>10. ASSUME NEW c \in Cards,
                RemoveCard(c) \/ UpdateCard(c) \/ \E t \in Cards : AddCard(c, t)
         PROVE  ListedOpens'
    BY <2>2, <2>10 DEF RemoveCard, UpdateCard, AddCard, files, memory
  <2>11. CASE UNCHANGED vars
    BY <2>2, <2>11 DEF vars, files, memory
  <2> QED BY <2>3, <2>4, <2>5, <2>6, <2>7, <2>8, <2>9, <2>10, <2>11 DEF Next
<1> QED BY <1>1, <1>2, Invariant, PTL DEF Spec
=============================================================================
