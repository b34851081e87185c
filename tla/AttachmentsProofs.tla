-------------------------- MODULE AttachmentsProofs --------------------------
(***************************************************************************)
(* Proofs about Attachments, for any kinds of parts and any bounds.        *)
(***************************************************************************)
EXTENDS Attachments, FiniteSetTheorems, WellFoundedInduction, TLAPS

-----------------------------------------------------------------------------
(* _dedupe_filename                                                        *)

LEMMA NumberedIsInjective ==
  ASSUME NEW f \in Names, NEW k \in Nat, NEW n \in Nat,
         Numbered(f, k) = Numbered(f, n)
  PROVE  k = n
  <1>1. f.nums \in Seq(Nat)
    BY DEF Names
  <1>2. Append(f.nums, k) = Append(f.nums, n)
    BY DEF Numbered, Names
  <1>3. /\ Append(f.nums, k)[Len(f.nums) + 1] = k
        /\ Append(f.nums, n)[Len(f.nums) + 1] = n
    BY <1>1
  <1> QED BY <1>2, <1>3

LEMMA NumberedIsName ==
  ASSUME NEW f \in Names, NEW n \in Nat
  PROVE  Numbered(f, n) \in Names /\ Numbered(f, n).nums # << >>
  <1> DEFINE nums == Append(f.nums, n)
  <1>1. f.nums \in Seq(Nat)
    BY DEF Names
  <1>2. nums \in Seq(Nat) /\ Len(nums) = Len(f.nums) + 1 /\ Len(nums) # 0
    BY <1>1
  <1>3. Numbered(f, n).nums = nums /\ Numbered(f, n) \in Names
    BY <1>2 DEF Numbered, Names
  <1>4. nums # << >>
    <2> HIDE DEF nums
    <2> QED BY <1>2
  <1> QED BY <1>3, <1>4

\* Of Cardinality(used) + 1 numbers one is free.
LEMMA SomeNumberIsFree ==
  ASSUME NEW f \in Names, NEW used, IsFiniteSet(used)
  PROVE  FreeNumbers(f, used) # {}
  <1> DEFINE c == Cardinality(used)
             S == 2..(c + 2)
             g == [n \in S |-> Numbered(f, n)]
  <1>1. c \in Nat
    BY FS_CardinalityType
  <1>2. IsFiniteSet(S) /\ Cardinality(used) < Cardinality(S)
    BY <1>1, FS_Interval
  <1>3. SUFFICES ASSUME \A n \in S : Numbered(f, n) \in used
                 PROVE  FALSE
    BY DEF FreeNumbers
  <1>4. g \in [S -> used]
    BY <1>3
  <1>5. PICK k, n \in S : k # n /\ g[k] = g[n]
    <2> HIDE DEF S, g
    <2> QED BY <1>2, <1>4, FS_PigeonHole
  <1>6. k \in Nat /\ n \in Nat
    BY <1>1
  <1> QED BY <1>5, <1>6, NumberedIsInjective

LEMMA LeastExists ==
  ASSUME NEW S, S \subseteq Nat, S # {}
  PROVE  \E n \in S : \A k \in S : n <= k
  <1>1. PICK n \in S : \A k \in S : ~ (<<k, n>> \in OpToRel(<, Nat))
    BY WFMin, NatLessThanWellFounded
  <1>2. ASSUME NEW k \in S PROVE n <= k
    <2>1. <<k, n>> \in Nat \X Nat
      BY <1>2
    <2>2. ~ (k < n)
      BY <1>1, <1>2, <2>1, Zenon DEF OpToRel
    <2> QED BY <2>1, <2>2
  <1> QED BY <1>2

\* The name is not used yet, and is the one asked for if that is free.
LEMMA DedupeIsFree ==
  ASSUME NEW f \in Names, NEW used, IsFiniteSet(used)
  PROVE  /\ Dedupe(f, used) \in Names
         /\ Dedupe(f, used) \notin used
         /\ f \notin used => Dedupe(f, used) = f
         /\ Dedupe(f, used) # f => Dedupe(f, used).nums # << >>
         /\ Dedupe(f, used).ext = f.ext
  <1>1. CASE f \notin used
    BY <1>1 DEF Dedupe
  <1>2. CASE f \in used
    <2> DEFINE free == FreeNumbers(f, used)
               n == CHOOSE n \in free : \A k \in free : n <= k
    <2>1. free \subseteq Nat
      BY FS_CardinalityType DEF FreeNumbers
    <2>2. free # {}
      BY SomeNumberIsFree
    <2>3. n \in free
      <3> HIDE DEF free
      <3> QED BY <2>1, <2>2, LeastExists
    <2>4. n \in Nat /\ Numbered(f, n) \notin used
      BY <2>1, <2>3 DEF FreeNumbers
    <2>5. Dedupe(f, used) = Numbered(f, n)
      BY <1>2 DEF Dedupe
    <2>6. Numbered(f, n).ext = f.ext
      BY DEF Numbered, Names
    <2> QED BY <1>2, <2>4, <2>5, <2>6, NumberedIsName
  <1> QED BY <1>1, <1>2

-----------------------------------------------------------------------------
(* The invariant                                                           *)

Working == pc \in {"write", "render"}
Written == pc \in {"metadata", "stored"}

\* What att_dir and thumbnails hold under a name is the part of that name.
FilesInv ==
  /\ \A f \in DOMAIN files : names[files[f]] = f
  /\ \A f \in DOMAIN thumbs : names[thumbs[f]] = f

\* The parts before the i-th have been described, and are where they are
\* looked for.
DescribedInv ==
  Working \/ Written =>
    /\ Len(names) = Len(parts)
    /\ Len(meta) = i - 1
    /\ \A j \in 1..(i - 1) :
         /\ meta[j].filename = names[j]
         /\ names[j] \in DOMAIN files \ {Empty, DotDot}
         /\ meta[j].has_thumbnail => names[j] \in DOMAIN thumbs

PcInv ==
  /\ pc = "collect" => i = 1 /\ files = NoFiles /\ thumbs = NoFiles
  /\ pc \in {"collect", "mkdir"} => meta = << >>
  /\ pc = "mkdir" => i = 1 /\ names # << >> /\ Len(names) = Len(parts)
  /\ Working => i <= Len(names)
  /\ pc = "render" => names[i] \in DOMAIN files \ {Empty, DotDot}
  /\ Written => i = Len(names) + 1

AttachmentsInv ==
  TypeOK /\ NamesDistinct /\ FilesInv /\ DescribedInv /\ PcInv

\* What TypeOK says of two tables, one at a time.
FileTable(f) ==
  /\ DOMAIN f \subseteq Used
  /\ \A x \in DOMAIN f : f[x] \in DOMAIN parts /\ names[f[x]] = x

-----------------------------------------------------------------------------
(* Helpers                                                                 *)

LEMMA FileNameType ==
  ASSUME NEW p \in Parts, NEW n \in Nat
  PROVE  FileName(p, n) \in Names
  <1>1. CASE p.given = << >>
    <2> DEFINE nums == <<n>>
    <2>1. nums \in Seq(Nat)
      OBVIOUS
    <2>2. FileName(p, n) =
            [stem |-> "attachment", nums |-> nums, ext |-> Nothing]
      BY <1>1 DEF FileName
    <2>3. "attachment" \in Stems /\ Nothing \in Exts
      BY AttachmentsAssumption
    <2> HIDE DEF nums
    <2>4. [stem |-> "attachment", nums |-> nums, ext |-> Nothing] \in Names
      BY <2>1, <2>3 DEF Names
    <2> QED BY <2>2, <2>4
  <1>2. CASE p.given # << >>
    <2>1. p.given \in Seq(Names)
      BY DEF Parts
    <2>2. p.given[Len(p.given)] \in Names
      BY <1>2, <2>1
    <2> QED BY <1>2, <2>2 DEF FileName
  <1> QED BY <1>1, <1>2

LEMMA UsedIsFinite ==
  ASSUME names \in Seq(Names)
  PROVE  IsFiniteSet(Used)
  <1> DEFINE g == [j \in DOMAIN names |-> names[j]]
  <1>1. DOMAIN names = 1..Len(names) /\ Len(names) \in Nat
    OBVIOUS
  <1>2. IsFiniteSet(DOMAIN names)
    BY <1>1, FS_Interval
  <1>3. g \in Surjection(DOMAIN names, Used)
    BY DEF Surjection, Used
  <1> QED
    <2> HIDE DEF g
    <2> QED BY <1>2, <1>3, FS_Surjection, Zenon

LEMMA PutTable ==
  ASSUME NEW f, FileTable(f), NEW k \in DOMAIN names, k \in DOMAIN parts
  PROVE  FileTable(Put(f, names[k], k))
  BY DEF FileTable, Put, Used

LEMMA Tables ==
  ASSUME AttachmentsInv
  PROVE  FileTable(files) /\ FileTable(thumbs)
  BY DEF AttachmentsInv, TypeOK, FilesInv, FileTable

LEMMA NoFilesTable == FileTable(NoFiles)
  BY DEF FileTable, NoFiles

\* While attachments are written there is an i-th one.
LEMMA WorkingIsAt ==
  ASSUME AttachmentsInv, Working
  PROVE  /\ i \in DOMAIN names /\ i \in DOMAIN parts
         /\ names[i] \in Names
         /\ names \in Seq(Names) /\ Len(names) \in Nat /\ i \in Nat
         /\ meta \in Seq([filename : Names, has_thumbnail : BOOLEAN])
         /\ Len(meta) = i - 1
  <1>1. /\ names \in Seq(Names) /\ parts \in Seq(Kinds)
        /\ i \in 1..(Len(names) + 1) /\ i <= Len(names)
        /\ Len(names) = Len(parts)
        /\ meta \in Seq([filename : Names, has_thumbnail : BOOLEAN])
        /\ Len(meta) = i - 1
    BY DEF AttachmentsInv, TypeOK, PcInv, DescribedInv
  <1> QED BY <1>1

-----------------------------------------------------------------------------
(* The steps                                                               *)

LEMMA InitInv == Init => AttachmentsInv
  <1> SUFFICES ASSUME Init PROVE AttachmentsInv
    OBVIOUS
  <1>1. PICK n \in 0..MaxParts : parts \in [1..n -> Kinds]
    BY DEF Init
  <1>2. parts \in Seq(Kinds) /\ Len(parts) = n
    BY <1>1, AttachmentsAssumption
  <1>3. TypeOK
    <2>1. /\ names = << >> /\ names \in Seq(Names) /\ Len(names) = 0
          /\ meta = << >>
          /\ meta \in Seq([filename : Names, has_thumbnail : BOOLEAN])
      BY DEF Init
    <2>2. DOMAIN files = {} /\ DOMAIN thumbs = {}
      BY DEF Init, NoFiles
    <2>3. /\ parts \in Seq(Kinds) /\ Len(parts) <= MaxParts
          /\ Len(names) <= Len(parts) /\ i \in 1..(Len(names) + 1)
      BY <1>1, <1>2, <2>1, AttachmentsAssumption DEF Init
    <2>4. made \in BOOLEAN /\ thumbDir \in BOOLEAN
      BY DEF Init
    <2>5. pc = "collect" /\ copy = 1
      BY DEF Init
    <2> QED BY <2>1, <2>2, <2>3, <2>4, <2>5 DEF TypeOK
  <1> QED BY <1>3 DEF Init, AttachmentsInv, NamesDistinct, FilesInv,
                      DescribedInv, PcInv, Working, Written, NoFiles

LEMMA CollectInv ==
  ASSUME AttachmentsInv, Collect
  PROVE  AttachmentsInv'
  <1> DEFINE n == Len(names) + 1
             new == Dedupe(FileName(parts[n], n), Used)
  <1>1. /\ names \in Seq(Names) /\ parts \in Seq(Kinds)
        /\ n \in DOMAIN parts /\ n \in Nat
        /\ files = NoFiles /\ thumbs = NoFiles /\ meta = << >> /\ i = 1
        /\ pc' = "collect"
    BY DEF AttachmentsInv, TypeOK, PcInv, Collect
  <1>2. new \in Names /\ new \notin Used
    <2>1. parts[n] \in Parts
      BY <1>1, AttachmentsAssumption
    <2> QED BY <1>1, <2>1, FileNameType, UsedIsFinite, DedupeIsFree
  <1>3. /\ names' = Append(names, new)
        /\ names' \in Seq(Names) /\ Len(names') = n
        /\ names'[n] = new /\ \A j \in DOMAIN names : names'[j] = names[j]
        /\ DOMAIN names' = DOMAIN names \cup {n}
        /\ UNCHANGED <<parts, pc, copy, i, made, files, thumbDir, thumbs,
                       meta>>
    <2>1. names' = Append(names, new)
      BY DEF Collect
    <2> HIDE DEF new
    <2> QED BY <1>1, <1>2, <2>1 DEF Collect
  <1> HIDE DEF new
  <1>4. TypeOK'
    BY <1>1, <1>3 DEF AttachmentsInv, TypeOK, NoFiles
  <1>5. NamesDistinct'
    <2> SUFFICES ASSUME NEW j \in DOMAIN names', NEW k \in DOMAIN names',
                        names'[j] = names'[k]
                 PROVE  j = k
      BY DEF NamesDistinct
    <2>1. \A x \in DOMAIN names : names'[x] # new
      BY <1>2, <1>3 DEF Used
    <2> QED BY <1>3, <2>1 DEF AttachmentsInv, NamesDistinct
  <1>6. FilesInv' /\ DescribedInv' /\ PcInv'
    BY <1>1, <1>3
    DEF FilesInv, DescribedInv, PcInv, Working, Written, NoFiles
  <1> QED BY <1>4, <1>5, <1>6 DEF AttachmentsInv

LEMMA CollectedInv ==
  ASSUME AttachmentsInv, CollectRaises \/ Collected
  PROVE  AttachmentsInv'
  <1>1. /\ pc = "collect" /\ pc' \in {"refused", "metadata", "mkdir"}
        /\ pc' \in {"metadata", "mkdir"} => Len(names) = Len(parts)
        /\ pc' = "metadata" => names = << >>
        /\ pc' = "mkdir" => names # << >>
        /\ UNCHANGED <<parts, names, copy, i, made, files, thumbDir, thumbs,
                       meta>>
    BY DEF CollectRaises, Collected
  <1>2. i = 1 /\ meta = << >>
    BY <1>1 DEF AttachmentsInv, PcInv
  <1>3. TypeOK'
    BY <1>1 DEF AttachmentsInv, TypeOK, Used
  <1>4. NamesDistinct' /\ FilesInv'
    BY <1>1 DEF AttachmentsInv, NamesDistinct, FilesInv
  <1>5. DescribedInv'
    BY <1>1, <1>2 DEF DescribedInv, Working, Written
  <1>6. PcInv'
    BY <1>1, <1>2 DEF PcInv, Working, Written
  <1> QED BY <1>3, <1>4, <1>5, <1>6 DEF AttachmentsInv

LEMMA MakeAttDirInv ==
  ASSUME AttachmentsInv, MakeAttDir
  PROVE  AttachmentsInv'
  <1>1. /\ i = 1 /\ meta = << >> /\ names # << >>
        /\ Len(names) = Len(parts) /\ names \in Seq(Names)
        /\ pc' = "write" /\ made' = TRUE
        /\ UNCHANGED <<parts, names, copy, i, files, thumbDir, thumbs, meta>>
    BY DEF MakeAttDir, AttachmentsInv, TypeOK, PcInv
  <1>2. TypeOK'
    BY <1>1 DEF AttachmentsInv, TypeOK, Used
  <1>3. NamesDistinct' /\ FilesInv'
    BY <1>1 DEF AttachmentsInv, NamesDistinct, FilesInv
  <1>4. DescribedInv'
    BY <1>1 DEF DescribedInv, Working, Written
  <1>5. PcInv'
    BY <1>1 DEF PcInv, Working, Written
  <1> QED BY <1>2, <1>3, <1>4, <1>5 DEF AttachmentsInv

\* Describing the i-th part, when it is where the routes will look for it,
\* preserves what concerns progress.
LEMMA DescribeInv ==
  ASSUME AttachmentsInv, Working, NEW has \in BOOLEAN, Describe(has),
         UNCHANGED <<parts, names>>,
         DOMAIN files \subseteq DOMAIN files',
         DOMAIN thumbs \subseteq DOMAIN thumbs',
         names[i] \in DOMAIN files' \ {Empty, DotDot},
         has => names[i] \in DOMAIN thumbs'
  PROVE  /\ DescribedInv' /\ PcInv'
         /\ meta' \in Seq([filename : Names, has_thumbnail : BOOLEAN])
         /\ i' \in 1..(Len(names) + 1)
         /\ pc' \in {"write", "metadata"}
  <1> DEFINE entry == [filename |-> names[i], has_thumbnail |-> has]
  <1>1. /\ i \in DOMAIN names /\ names[i] \in Names
        /\ names \in Seq(Names) /\ Len(names) \in Nat /\ i \in Nat
        /\ i \in 1..Len(names)
        /\ meta \in Seq([filename : Names, has_thumbnail : BOOLEAN])
        /\ Len(meta) = i - 1 /\ Len(names) = Len(parts)
    BY WorkingIsAt DEF AttachmentsInv, DescribedInv
  <1>2. entry \in [filename : Names, has_thumbnail : BOOLEAN]
    BY <1>1
  <1>3. meta' = Append(meta, entry)
    BY DEF Describe
  <1>4. entry.filename = names[i] /\ entry.has_thumbnail = has
    OBVIOUS
  <1> HIDE DEF entry
  <1>5. /\ meta' \in Seq([filename : Names, has_thumbnail : BOOLEAN])
        /\ Len(meta') = i /\ meta'[i] = entry
        /\ \A j \in 1..(i - 1) : meta'[j] = meta[j]
    BY <1>1, <1>2, <1>3
  <1>6. /\ i' = i + 1
        /\ pc' = IF i < Len(names) THEN "write" ELSE "metadata"
    BY DEF Describe
  <1>7. DescribedInv'
    <2> SUFFICES ASSUME NEW j \in 1..i
                 PROVE  /\ meta'[j].filename = names[j]
                        /\ names[j] \in DOMAIN files' \ {Empty, DotDot}
                        /\ meta'[j].has_thumbnail
                              => names[j] \in DOMAIN thumbs'
      BY <1>1, <1>5, <1>6 DEF DescribedInv
    <2>1. CASE j = i
      BY <1>4, <1>5, <2>1
    <2>2. CASE j # i
      <3>1. j \in 1..(i - 1)
        BY <1>1, <2>2
      <3> QED BY <1>5, <3>1 DEF AttachmentsInv, DescribedInv
    <2> QED BY <2>1, <2>2
  <1>8. PcInv'
    BY <1>1, <1>6 DEF PcInv, Working, Written
  <1> QED BY <1>1, <1>5, <1>6, <1>7, <1>8

\* Tables that say what they hold make up the rest of the invariant.
LEMMA TablesSuffice ==
  ASSUME AttachmentsInv, UNCHANGED <<parts, names>>,
         FileTable(files'), FileTable(thumbs'),
         pc' \in {"collect", "mkdir", "write", "render", "metadata", "stored",
                  "refused", "failed"},
         copy' \in Nat, i' \in 1..(Len(names) + 1),
         made' \in BOOLEAN, thumbDir' \in BOOLEAN,
         meta' \in Seq([filename : Names, has_thumbnail : BOOLEAN])
  PROVE  TypeOK' /\ NamesDistinct' /\ FilesInv'
  BY DEF AttachmentsInv, TypeOK, NamesDistinct, FilesInv, FileTable, Used

LEMMA WriteAttachmentInv ==
  ASSUME AttachmentsInv, WriteAttachment
  PROVE  AttachmentsInv'
  <1>1. /\ Working /\ pc = "write"
        /\ i \in DOMAIN names /\ i \in DOMAIN parts /\ i \in Nat
        /\ names[i] \notin {Empty, DotDot}
        /\ files' = Put(files, names[i], i)
        /\ UNCHANGED <<parts, names, copy, made, thumbDir, thumbs>>
    BY WorkingIsAt DEF WriteAttachment, Working, Writable, IsDirectory
  <1>2. /\ DOMAIN files' = DOMAIN files \cup {names[i]}
        /\ FileTable(files') /\ FileTable(thumbs')
    BY <1>1, Tables, PutTable DEF Put
  <1>3. CASE IsPdf(names[i])
    <2>1. pc' = "render" /\ UNCHANGED <<i, meta>>
      BY <1>3 DEF WriteAttachment
    <2>2. TypeOK' /\ NamesDistinct' /\ FilesInv'
      BY <1>1, <1>2, <2>1, TablesSuffice DEF AttachmentsInv, TypeOK
    <2>3. DescribedInv'
      BY <1>1, <1>2, <2>1 DEF AttachmentsInv, DescribedInv, Working, Written
    <2>4. PcInv'
      BY <1>1, <1>2, <2>1 DEF AttachmentsInv, PcInv, Working, Written
    <2> QED BY <2>2, <2>3, <2>4 DEF AttachmentsInv
  <1>4. CASE ~IsPdf(names[i])
    <2>1. Describe(FALSE)
      BY <1>4 DEF WriteAttachment
    <2>2. /\ DescribedInv' /\ PcInv'
          /\ meta' \in Seq([filename : Names, has_thumbnail : BOOLEAN])
          /\ i' \in 1..(Len(names) + 1)
          /\ pc' \in {"write", "metadata"}
      BY <1>1, <1>2, <2>1, DescribeInv
    <2>3. TypeOK' /\ NamesDistinct' /\ FilesInv'
      BY <1>1, <1>2, <2>2, TablesSuffice DEF AttachmentsInv, TypeOK
    <2> QED BY <2>2, <2>3 DEF AttachmentsInv
  <1> QED BY <1>3, <1>4

\* Whatever of the thumbnail was made, it is only promised if it is there.
LEMMA RenderInv ==
  ASSUME AttachmentsInv, Render \/ RenderFails
  PROVE  AttachmentsInv'
  <1>1. /\ Working /\ pc = "render"
        /\ i \in DOMAIN names /\ i \in DOMAIN parts
        /\ names[i] \in DOMAIN files \ {Empty, DotDot}
        /\ UNCHANGED <<parts, names, copy, made, files>>
    BY WorkingIsAt DEF Render, RenderFails, Working, AttachmentsInv, PcInv
  <1>2. /\ thumbs' \in {thumbs, Put(thumbs, names[i], i)}
        /\ thumbDir' \in BOOLEAN
    BY DEF Render, RenderFails, AttachmentsInv, TypeOK
  <1>3. /\ DOMAIN thumbs \subseteq DOMAIN thumbs'
        /\ FileTable(files') /\ FileTable(thumbs')
    BY <1>1, <1>2, Tables, PutTable DEF Put, FileTable, Used
  <1>4. PICK has \in BOOLEAN :
          Describe(has) /\ (has => names[i] \in DOMAIN thumbs')
    <2>1. CASE Render
      BY <2>1 DEF Render, Put
    <2>2. CASE RenderFails
      BY <2>2 DEF RenderFails
    <2> QED BY <2>1, <2>2
  <1>5. /\ DescribedInv' /\ PcInv'
        /\ meta' \in Seq([filename : Names, has_thumbnail : BOOLEAN])
        /\ i' \in 1..(Len(names) + 1)
        /\ pc' \in {"write", "metadata"}
    BY <1>1, <1>3, <1>4, DescribeInv
  <1>6. TypeOK' /\ NamesDistinct' /\ FilesInv'
    BY <1>1, <1>2, <1>3, <1>5, TablesSuffice DEF AttachmentsInv, TypeOK
  <1> QED BY <1>5, <1>6 DEF AttachmentsInv

LEMMA StopInv ==
  ASSUME AttachmentsInv, WriteRaises \/ WriteMetadata \/ DiskFull
  PROVE  AttachmentsInv'
  <1>1. /\ \/ pc' \in {"refused", "failed"}
           \/ pc = "metadata" /\ pc' = "stored"
        /\ UNCHANGED <<parts, names, copy, i, made, files, thumbDir, thumbs,
                       meta>>
    BY DEF WriteRaises, WriteMetadata, DiskFull
  <1>2. TypeOK'
    BY <1>1 DEF AttachmentsInv, TypeOK, Used
  <1>3. NamesDistinct' /\ FilesInv'
    BY <1>1 DEF AttachmentsInv, NamesDistinct, FilesInv
  <1>4. DescribedInv'
    BY <1>1 DEF AttachmentsInv, DescribedInv, Working, Written
  <1>5. PcInv'
    BY <1>1 DEF AttachmentsInv, PcInv, Working, Written
  <1> QED BY <1>2, <1>3, <1>4, <1>5 DEF AttachmentsInv

LEMMA NextCopyInv ==
  ASSUME AttachmentsInv, NextCopy
  PROVE  AttachmentsInv'
  <1>1. /\ UNCHANGED <<parts, names>> /\ i' = 1 /\ meta' = << >>
        /\ pc' = IF names = << >> THEN "metadata" ELSE "mkdir"
        /\ names \in Seq(Names) /\ Len(names) \in Nat
        /\ Len(names) = Len(parts)
    BY DEF NextCopy, AttachmentsInv, TypeOK, DescribedInv, Written
  <1>2. FileTable(files') /\ FileTable(thumbs')
    BY <1>1, Tables, NoFilesTable DEF NextCopy, FileTable, Used
  <1>3. /\ made' \in BOOLEAN /\ thumbDir' \in BOOLEAN /\ copy' \in Nat
        /\ meta' \in Seq([filename : Names, has_thumbnail : BOOLEAN])
    <2>1. made' \in BOOLEAN /\ thumbDir' \in BOOLEAN
      BY DEF NextCopy, AttachmentsInv, TypeOK
    <2>2. copy' \in Nat
      BY DEF NextCopy, AttachmentsInv, TypeOK
    <2>3. meta' \in Seq([filename : Names, has_thumbnail : BOOLEAN])
      BY <1>1
    <2> QED BY <2>1, <2>2, <2>3
  <1>4. TypeOK' /\ NamesDistinct' /\ FilesInv'
    BY <1>1, <1>2, <1>3, TablesSuffice
  <1>5. DescribedInv' /\ PcInv'
    BY <1>1 DEF DescribedInv, PcInv, Working, Written
  <1> QED BY <1>4, <1>5 DEF AttachmentsInv

LEMMA UnchangedInv ==
  ASSUME AttachmentsInv, UNCHANGED vars
  PROVE  AttachmentsInv'
  BY DEF vars, AttachmentsInv, TypeOK, Used, NamesDistinct, FilesInv,
         DescribedInv, PcInv, Working, Written

LEMMA StepInv == AttachmentsInv /\ [Next]_vars => AttachmentsInv'
  BY CollectInv, CollectedInv, MakeAttDirInv, WriteAttachmentInv, RenderInv,
     StopInv, NextCopyInv, UnchangedInv DEF Next, SaveStep

-----------------------------------------------------------------------------
(* Theorems                                                                *)

\* The inductive invariant of the module.
THEOREM SpecAttachmentsInv == Spec => []AttachmentsInv
  BY InitInv, StepInv, PTL DEF Spec

\* The state of a save stays within its types.
THEOREM TypeCorrect == Spec => []TypeOK
  <1>1. AttachmentsInv => TypeOK
    BY DEF AttachmentsInv
  <1> QED BY <1>1, SpecAttachmentsInv, PTL

\* No two attachments of a message share a name, however many there are and
\* whatever they are called (storage.py:151-161).
THEOREM NamesAreDistinct == Spec => []NamesDistinct
  <1>1. AttachmentsInv => NamesDistinct
    BY DEF AttachmentsInv
  <1> QED BY <1>1, SpecAttachmentsInv, PTL

\* What metadata.json lists is what the routes send (storage.py:110-117,
\* app.py:171-215).
THEOREM PartsAreAlwaysFound == Spec => []PartsAreFound
  <1>1. ASSUME AttachmentsInv, pc = "stored"
        PROVE  /\ Len(meta) = Len(parts)
               /\ \A j \in DOMAIN meta :
                    /\ SentFor(meta[j].filename) = j
                    /\ meta[j].has_thumbnail
                         => ThumbnailFor(meta[j].filename) = j
    <2>1. /\ i = Len(names) + 1 /\ Len(names) = Len(parts)
          /\ Len(names) \in Nat /\ Len(meta) = Len(names)
          /\ DOMAIN meta = 1..Len(names) /\ DOMAIN names = 1..Len(names)
      BY <1>1 DEF AttachmentsInv, TypeOK, PcInv, DescribedInv, Written
    <2>2. ASSUME NEW j \in DOMAIN meta
          PROVE  /\ SentFor(meta[j].filename) = j
                 /\ meta[j].has_thumbnail
                      => ThumbnailFor(meta[j].filename) = j
      <3>1. /\ j \in 1..(i - 1) /\ j \in DOMAIN names
            /\ DOMAIN parts = DOMAIN names
        BY <2>1, <2>2, <1>1 DEF AttachmentsInv, TypeOK
      <3>2. /\ meta[j].filename = names[j]
            /\ names[j] \in DOMAIN files \ {Empty, DotDot}
            /\ meta[j].has_thumbnail => names[j] \in DOMAIN thumbs
        BY <1>1, <3>1 DEF AttachmentsInv, DescribedInv, Written
      <3>3. /\ files[names[j]] = j
            /\ names[j] \in DOMAIN thumbs => thumbs[names[j]] = j
        BY <1>1, <3>1, <3>2
        DEF AttachmentsInv, TypeOK, FilesInv, NamesDistinct
      <3> QED BY <3>2, <3>3 DEF SentFor, ThumbnailFor
    <2> QED BY <2>1, <2>2
  <1>2. AttachmentsInv => PartsAreFound
    BY <1>1 DEF PartsAreFound
  <1> QED BY <1>2, SpecAttachmentsInv, PTL

-----------------------------------------------------------------------------
(* What is refused                                                         *)

Asked(j) == FileName(parts[j], j)

\* A name is the one asked for, or that one with a number.
AskedInv ==
  \A j \in DOMAIN names :
    /\ names[j] = Asked(j) \/ names[j].nums # << >>
    /\ names[j].ext = Asked(j).ext

\* Where a PDF made the directory for thumbnails, no attachment is to be
\* written in its place: in a later copy neither.
ThumbDirInv ==
  /\ pc = "collect" => ~thumbDir
  /\ pc = "render" => IsPdf(names[i])
  /\ Storable /\ thumbDir => \A j \in DOMAIN names : names[j] # Thumbnails

RefusedInv == AskedInv /\ ThumbDirInv /\ StorableIsNotRefused

LEMMA InitRefused == Init => RefusedInv
  BY DEF Init, RefusedInv, AskedInv, ThumbDirInv, StorableIsNotRefused

\* No step changes the message.
LEMMA StorableKept ==
  ASSUME [Next]_vars
  PROVE  parts' = parts /\ Storable' = Storable
  <1>1. parts' = parts
    BY DEF Next, SaveStep, Collect, CollectRaises, Collected, MakeAttDir,
           WriteAttachment, WriteRaises, Render, RenderFails, WriteMetadata,
           NextCopy, DiskFull, vars
  <1> QED BY <1>1 DEF Storable

LEMMA CollectRefused ==
  ASSUME AttachmentsInv, RefusedInv, Collect
  PROVE  RefusedInv'
  <1> DEFINE n == Len(names) + 1
             new == Dedupe(FileName(parts[n], n), Used)
  <1>1. /\ names \in Seq(Names) /\ parts \in Seq(Kinds)
        /\ n \in DOMAIN parts /\ n \in Nat
        /\ pc = "collect" /\ UNCHANGED <<parts, pc, thumbDir>>
    BY DEF AttachmentsInv, TypeOK, Collect
  <1>2. /\ new \in Names
        /\ new = Asked(n) \/ new.nums # << >>
        /\ new.ext = Asked(n).ext
    <2>1. parts[n] \in Parts
      BY <1>1, AttachmentsAssumption
    <2>2. Asked(n) \in Names /\ Asked(n) = FileName(parts[n], n)
      BY <1>1, <2>1, FileNameType DEF Asked
    <2> QED BY <1>1, <2>2, UsedIsFinite, DedupeIsFree
  <1>3. /\ DOMAIN names' = DOMAIN names \cup {n} /\ names'[n] = new
        /\ \A j \in DOMAIN names : names'[j] = names[j]
    <2>1. names' = Append(names, new)
      BY DEF Collect
    <2> HIDE DEF new
    <2> QED BY <1>1, <1>2, <2>1
  <1> HIDE DEF new
  <1>4. \A j : Asked(j)' = Asked(j)
    BY <1>1 DEF Asked
  <1>5. AskedInv'
    BY <1>2, <1>3, <1>4 DEF RefusedInv, AskedInv
  <1>6. ThumbDirInv' /\ StorableIsNotRefused'
    BY <1>1 DEF RefusedInv, ThumbDirInv, StorableIsNotRefused
  <1> QED BY <1>5, <1>6 DEF RefusedInv

\* A storable message is written under names that are no directory's.
LEMMA StorableIsWritable ==
  ASSUME AttachmentsInv, RefusedInv, Storable, pc = "write"
  PROVE  Writable
  <1>1. i \in DOMAIN names /\ i \in DOMAIN parts
    BY WorkingIsAt DEF Working
  <1>2. parts[i].content = "bytes" /\ Asked(i) \notin {Empty, DotDot}
    BY <1>1 DEF Storable, Asked
  <1>3. Empty.nums = << >> /\ DotDot.nums = << >>
    BY DEF Empty, DotDot, Plain
  <1>4. names[i] \notin {Empty, DotDot}
    BY <1>1, <1>2, <1>3 DEF RefusedInv, AskedInv
  <1>5. ~(names[i] = Thumbnails /\ thumbDir)
    BY <1>1 DEF RefusedInv, ThumbDirInv
  <1> QED BY <1>2, <1>4, <1>5 DEF Writable, IsDirectory

\* When a thumbnail is made, an attachment called "thumbnails" would be
\* before its PDF, and written already.
LEMMA NoNameIsThumbnails ==
  ASSUME AttachmentsInv, RefusedInv, Storable, pc = "render",
         Thumbnails \notin DOMAIN files
  PROVE  \A j \in DOMAIN names : names[j] # Thumbnails
  <1> SUFFICES ASSUME NEW j \in DOMAIN names, names[j] = Thumbnails
               PROVE  FALSE
    OBVIOUS
  <1>1. /\ i \in DOMAIN names /\ i \in DOMAIN parts /\ i \in Nat
        /\ names \in Seq(Names) /\ parts \in Seq(Kinds)
        /\ Len(names) = Len(parts)
    BY WorkingIsAt DEF Working, AttachmentsInv, TypeOK, DescribedInv
  <1>2. j \in Nat /\ j \in DOMAIN parts
    BY <1>1
  <1>3. Thumbnails.nums = << >> /\ ~IsPdf(Thumbnails)
    BY DEF Thumbnails, Plain, IsPdf, Nothing
  <1>4. Asked(j) = Thumbnails
    BY <1>3 DEF RefusedInv, AskedInv
  <1>5. IsPdf(names[i]) /\ IsPdf(Asked(i))
    BY <1>1 DEF RefusedInv, ThumbDirInv, AskedInv, IsPdf
  <1>6. i \notin 1..(j - 1)
    BY <1>2, <1>4, <1>5 DEF Storable, Asked
  <1>7. i # j
    BY <1>3, <1>5
  <1>8. j \in 1..(i - 1)
    BY <1>1, <1>2, <1>6, <1>7
  <1> QED BY <1>8 DEF AttachmentsInv, DescribedInv, Working

LEMMA RefusedStep ==
  ASSUME AttachmentsInv, RefusedInv, [Next]_vars
  PROVE  RefusedInv'
  <1>1. CASE Collect
    BY <1>1, CollectRefused
  <1>2. CASE ~Collect
    <2>1. UNCHANGED <<parts, names>>
      BY <1>2, StorableKept
      DEF Next, SaveStep, CollectRaises, Collected, MakeAttDir,
          WriteAttachment, WriteRaises, Render, RenderFails, WriteMetadata,
          NextCopy, DiskFull, vars
    <2>2. AskedInv'
      BY <2>1 DEF RefusedInv, AskedInv, Asked
    <2>3. StorableIsNotRefused'
      <3> SUFFICES ASSUME Storable PROVE pc' # "refused"
        BY StorableKept DEF StorableIsNotRefused
      <3>1. ~CollectRaises
        <4> SUFFICES ASSUME CollectRaises PROVE FALSE
          OBVIOUS
        <4>1. /\ Len(names) + 1 \in DOMAIN parts
              /\ parts[Len(names) + 1].content = "multipart"
          BY DEF CollectRaises, AttachmentsInv, TypeOK
        <4> QED BY <4>1 DEF Storable
      <3>2. ~WriteRaises
        BY StorableIsWritable DEF WriteRaises
      <3> QED BY <1>2, <3>1, <3>2
              DEF Next, SaveStep, Collected, MakeAttDir, WriteAttachment,
                  Render, RenderFails, Describe, WriteMetadata, NextCopy,
                  DiskFull, vars, RefusedInv, StorableIsNotRefused
    <2>4. pc' # "collect" \/ (pc = "collect" /\ thumbDir' = thumbDir)
      BY <1>2
      DEF Next, SaveStep, CollectRaises, Collected, MakeAttDir,
          WriteAttachment, WriteRaises, Render, RenderFails, Describe,
          WriteMetadata, NextCopy, DiskFull, vars
    <2>5. pc' = "render" =>
            \/ WriteAttachment /\ IsPdf(names[i]) /\ i' = i
            \/ pc = "render" /\ i' = i
      BY <1>2
      DEF Next, SaveStep, CollectRaises, Collected, MakeAttDir,
          WriteAttachment, WriteRaises, Render, RenderFails, Describe,
          WriteMetadata, NextCopy, DiskFull, vars
    <2>6. thumbDir' =>
            thumbDir \/ (pc = "render" /\ Thumbnails \notin DOMAIN files)
      BY <1>2
      DEF Next, SaveStep, CollectRaises, Collected, MakeAttDir,
          WriteAttachment, WriteRaises, Render, RenderFails,
          WriteMetadata, NextCopy, DiskFull, vars
    <2>7. Storable /\ thumbDir' =>
            \A j \in DOMAIN names : names[j] # Thumbnails
      BY <2>6, NoNameIsThumbnails DEF RefusedInv, ThumbDirInv
    <2>8. ThumbDirInv'
      BY <2>1, <2>4, <2>5, <2>7, StorableKept
      DEF RefusedInv, ThumbDirInv, IsPdf
    <2> QED BY <2>2, <2>3, <2>8 DEF RefusedInv
  <1> QED BY <1>1, <1>2

\* What can be stored is not refused, in any of its copies: the names made up
\* are no directory's, and the directory for thumbnails is never in the way
\* (storage.py:97-108).  What is left to prevent it is a full disk.
THEOREM StorableIsNeverRefused == Spec => []StorableIsNotRefused
  <1>1. RefusedInv => StorableIsNotRefused
    BY DEF RefusedInv
  <1>2. AttachmentsInv /\ RefusedInv /\ [Next]_vars => RefusedInv'
    BY RefusedStep
  <1> QED BY <1>1, <1>2, InitRefused, SpecAttachmentsInv, PTL DEF Spec
=============================================================================
