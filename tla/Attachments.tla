----------------------------- MODULE Attachments -----------------------------
(***************************************************************************)
(* What save_message (common/storage.py) does with the attachments of one  *)
(* message: it picks a name for each, then writes them and the thumbnails  *)
(* of PDFs (common/pdf_thumbnail.py) for one recipient after another.  The *)
(* other files of an email are in SmtpReceiver.                            *)
(***************************************************************************)
EXTENDS Integers, Sequences, FiniteSets

CONSTANTS
  Stems,      \* what names are made of, see Names
  Exts,
  Kinds,      \* the parts that messages may have
  MaxParts,   \* bounds the attachments of a message
  MaxCopies   \* bounds its recipients

(***************************************************************************)
(* A file name is a stem, the numbers that end it, and an extension:       *)
(* "a-2-3.pdf" is [stem |-> "a", nums |-> <<2, 3>>, ext |-> "pdf"].        *)
(***************************************************************************)
Names == [stem : Stems, nums : Seq(Nat), ext : Exts]

Nothing == "none"    \* no stem, no extension

Plain(stem, ext) == [stem |-> stem, nums |-> << >>, ext |-> ext]

Empty      == Plain(Nothing, Nothing)   \* Path("/").name
DotDot     == Plain("..", Nothing)      \* Path("..").name
Thumbnails == Plain("thumbnails", Nothing)

\* given: the components of the path that the sender calls the part, if any.
\* content: what get_content returns: bytes (or text); an EmailMessage, of a
\* message/rfc822 part; or nothing, since it raises, of a multipart.
Parts == [given : Seq(Names), content : {"bytes", "message", "multipart"}]

ASSUME AttachmentsAssumption ==
  /\ {"attachment", "..", "thumbnails", Nothing} \subseteq Stems
  /\ Nothing \in Exts
  /\ Kinds \subseteq Parts
  /\ MaxParts \in Nat /\ MaxCopies \in Nat

-----------------------------------------------------------------------------
(* Names                                                                   *)

Numbered(f, n) == [f EXCEPT !.nums = Append(@, n)]

\* The numbers that would do.  One among the first Cardinality(used) + 1 does.
FreeNumbers(f, used) ==
  {n \in 2..(Cardinality(used) + 2) : Numbered(f, n) \notin used}

\* _dedupe_filename.
Dedupe(f, used) ==
  IF f \notin used THEN f
  ELSE LET free == FreeNumbers(f, used)
       IN  Numbered(f, CHOOSE n \in free : \A k \in free : n <= k)

\* Path(filename).name, or the name for a part that has none.
FileName(part, i) ==
  IF part.given = << >>
    THEN [stem |-> "attachment", nums |-> <<i>>, ext |-> Nothing]
    ELSE part.given[Len(part.given)]

IsPdf(f) == f.ext = "pdf"

VARIABLES
  parts,      \* the message: its attachments
  names,      \* the names in attachments_data
  pc,         \* "collect", then per copy "mkdir", "write", "render",
              \* "metadata", "stored"; or it raised: "refused", when the
              \* message is to blame, or "failed"
  copy,       \* which copy it is
  i,          \* the attachment that is next
  made,       \* att_dir exists
  files,      \* att_dir: file name -> the part whose content it has
  thumbDir,   \* att_dir/thumbnails is a directory
  thumbs,     \* att_dir/thumbnails: file name -> the part it is a picture of
  meta        \* attachments_meta, of which metadata.json is written

vars == <<parts, names, pc, copy, i, made, files, thumbDir, thumbs, meta>>

Used == {names[j] : j \in DOMAIN names}

TypeOK ==
  /\ parts \in Seq(Kinds) /\ Len(parts) <= MaxParts
  /\ names \in Seq(Names) /\ Len(names) <= Len(parts)
  /\ pc \in {"collect", "mkdir", "write", "render", "metadata", "stored",
             "refused", "failed"}
  /\ copy \in Nat /\ i \in 1..(Len(names) + 1)
  /\ made \in BOOLEAN /\ thumbDir \in BOOLEAN
  /\ DOMAIN files \subseteq Used /\ DOMAIN thumbs \subseteq Used
  /\ \A f \in DOMAIN files : files[f] \in DOMAIN parts
  /\ \A f \in DOMAIN thumbs : thumbs[f] \in DOMAIN parts
  /\ meta \in Seq([filename : Names, has_thumbnail : BOOLEAN])

\* f with x mapped to y.
Put(f, x, y) == [z \in DOMAIN f \cup {x} |-> IF z = x THEN y ELSE f[z]]

NoFiles == [f \in {} |-> 0]

Init ==
  /\ parts \in UNION {[1..n -> Kinds] : n \in 0..MaxParts}
  /\ names = << >> /\ pc = "collect" /\ copy = 1 /\ i = 1
  /\ made = FALSE /\ files = NoFiles
  /\ thumbDir = FALSE /\ thumbs = NoFiles
  /\ meta = << >>

-----------------------------------------------------------------------------
(* The names, before anything is written                                   *)

\* Mutant: a name is looked for among the names that were asked for.
CollectAsked ==
  /\ pc = "collect" /\ Len(names) < Len(parts)
  /\ LET n == Len(names) + 1
     IN  /\ parts[n].content # "multipart"
         /\ names' = Append(names, Dedupe(FileName(parts[n], n),
                            {FileName(parts[j], j) : j \in DOMAIN names}))
  /\ UNCHANGED <<parts, pc, copy, i, made, files, thumbDir, thumbs, meta>>

Collect ==
  /\ pc = "collect" /\ Len(names) < Len(parts)
  /\ LET n == Len(names) + 1
     IN  /\ parts[n].content # "multipart"
         /\ names' = Append(names, Dedupe(FileName(parts[n], n), Used))
  /\ UNCHANGED <<parts, pc, copy, i, made, files, thumbDir, thumbs, meta>>

\* get_content has no way to return a multipart.
CollectRaises ==
  /\ pc = "collect" /\ Len(names) < Len(parts)
  /\ parts[Len(names) + 1].content = "multipart"
  /\ pc' = "refused"
  /\ UNCHANGED <<parts, names, copy, i, made, files, thumbDir, thumbs, meta>>

Collected ==
  /\ pc = "collect" /\ Len(names) = Len(parts)
  /\ pc' = IF names = << >> THEN "metadata" ELSE "mkdir"
  /\ UNCHANGED <<parts, names, copy, i, made, files, thumbDir, thumbs, meta>>

-----------------------------------------------------------------------------
(* One copy                                                                *)

\* Mutant: mkdir without exist_ok.
MakeAttDirStrict ==
  /\ pc = "mkdir"
  /\ pc' = IF made THEN "refused" ELSE "write"
  /\ made' = TRUE
  /\ UNCHANGED <<parts, names, copy, i, files, thumbDir, thumbs, meta>>

MakeAttDir ==
  /\ pc = "mkdir"
  /\ pc' = "write"
  /\ made' = TRUE
  /\ UNCHANGED <<parts, names, copy, i, files, thumbDir, thumbs, meta>>

\* What att_dir / f is a directory for.
IsDirectory(f) == f \in {Empty, DotDot} \/ (f = Thumbnails /\ thumbDir)

Writable == parts[i].content = "bytes" /\ ~IsDirectory(names[i])

\* An attachment is done: attachments_meta.append.
Describe(has) ==
  /\ meta' = Append(meta, [filename |-> names[i], has_thumbnail |-> has])
  /\ i' = i + 1
  /\ pc' = IF i < Len(names) THEN "write" ELSE "metadata"

WriteAttachment ==
  /\ pc = "write" /\ Writable
  /\ files' = Put(files, names[i], i)
  /\ IF IsPdf(names[i])
       THEN pc' = "render" /\ UNCHANGED <<i, meta>>
       ELSE Describe(FALSE)
  /\ UNCHANGED <<parts, names, copy, made, thumbDir, thumbs>>

\* IsADirectoryError, or a TypeError since content is not bytes.
WriteRaises ==
  /\ pc = "write" /\ ~Writable
  /\ pc' = "refused"
  /\ UNCHANGED <<parts, names, copy, i, made, files, thumbDir, thumbs, meta>>

\* Mutants: a thumbnail is promised though there may be none; thumbnails are
\* called by the name without its numbers.
RenderClaimed ==
  /\ pc = "render"
  /\ Describe(TRUE)
  /\ UNCHANGED <<parts, names, copy, made, files, thumbDir, thumbs>>

RenderByStem ==
  /\ pc = "render"
  /\ Thumbnails \notin DOMAIN files
  /\ thumbDir' = TRUE
  /\ thumbs' = Put(thumbs, [names[i] EXCEPT !.nums = << >>], i)
  /\ Describe(TRUE)
  /\ UNCHANGED <<parts, names, copy, made, files>>

\* generate_pdf_thumbnail makes the picture.
Render ==
  /\ pc = "render"
  /\ Thumbnails \notin DOMAIN files
  /\ thumbDir' = TRUE
  /\ thumbs' = Put(thumbs, names[i], i)
  /\ Describe(TRUE)
  /\ UNCHANGED <<parts, names, copy, made, files>>

\* Mutant: the errors of a rendering are not caught.
RenderRaises ==
  /\ pc = "render"
  /\ pc' = "refused"
  /\ UNCHANGED <<parts, names, copy, i, made, files, thumbDir, thumbs, meta>>

\* Or it does not: no PDF, a file where the directory should be, an error
\* after either of them was made.  All of it is caught.
RenderFails ==
  /\ pc = "render"
  /\ \/ UNCHANGED <<thumbDir, thumbs>>
     \/ /\ Thumbnails \notin DOMAIN files
        /\ thumbDir' = TRUE
        /\ thumbs' \in {thumbs, Put(thumbs, names[i], i)}
  /\ Describe(FALSE)
  /\ UNCHANGED <<parts, names, copy, made, files>>

WriteMetadata ==
  /\ pc = "metadata"
  /\ pc' = "stored"
  /\ UNCHANGED <<parts, names, copy, i, made, files, thumbDir, thumbs, meta>>

\* The next recipient: another mailbox, or the same one spelled differently,
\* whose directory is there already.
NextCopy ==
  /\ pc = "stored" /\ copy < MaxCopies
  /\ copy' = copy + 1 /\ i' = 1 /\ meta' = << >>
  /\ pc' = IF names = << >> THEN "metadata" ELSE "mkdir"
  /\ \/ UNCHANGED <<made, files, thumbDir, thumbs>>
     \/ /\ made' = FALSE /\ files' = NoFiles
        /\ thumbDir' = FALSE /\ thumbs' = NoFiles
  /\ UNCHANGED <<parts, names>>

\* A write fails, for lack of space.
DiskFull ==
  /\ pc \in {"mkdir", "write", "metadata"}
  /\ pc' = "failed"
  /\ UNCHANGED <<parts, names, copy, i, made, files, thumbDir, thumbs, meta>>

SaveStep ==
  \/ Collect \/ CollectRaises \/ Collected
  \/ MakeAttDir \/ WriteAttachment \/ WriteRaises
  \/ Render \/ RenderFails
  \/ WriteMetadata \/ NextCopy

Next == SaveStep \/ DiskFull

Spec == Init /\ [][Next]_vars

\* save_message does not wait for anything.
FairSpec == Spec /\ WF_vars(SaveStep)

-----------------------------------------------------------------------------
(* What the routes send                                                    *)

\* get_attachment: the part whose content is sent, or 0 (400, 404, an error).
SentFor(f) ==
  IF f \notin {Empty, DotDot} /\ f \in DOMAIN files THEN files[f] ELSE 0

\* get_attachment_thumbnail.
ThumbnailFor(f) ==
  IF f \notin {Empty, DotDot} /\ f \in DOMAIN thumbs THEN thumbs[f] ELSE 0

-----------------------------------------------------------------------------
(* Properties                                                              *)

\* No two attachments of a message share a name, whatever the sender called
\* them: no name that _dedupe_filename makes up is met again (storage.py:155).
NamesDistinct ==
  \A j, k \in DOMAIN names : names[j] = names[k] => j = k

\* Each attachment that metadata.json lists, by its name, is the one that the
\* attachment route sends, and a thumbnail that it promises is there and is
\* of that attachment.
PartsAreFound ==
  pc = "stored" =>
    /\ Len(meta) = Len(parts)
    /\ \A j \in DOMAIN meta :
         /\ SentFor(meta[j].filename) = j
         /\ meta[j].has_thumbnail => ThumbnailFor(meta[j].filename) = j

\* A message that save_message can write: all of it is bytes, and no part is
\* called like a directory, which "thumbnails" is after a PDF.
Storable ==
  LET Asked(j) == FileName(parts[j], j)
  IN  \A j \in DOMAIN parts :
        /\ parts[j].content = "bytes"
        /\ Asked(j) \notin {Empty, DotDot}
        /\ Asked(j) = Thumbnails =>
             \A k \in 1..(j - 1) : ~IsPdf(Asked(k))

\* Such a message is never answered with an error that another try will meet
\* again: not in its second copy either, which finds the files of the first,
\* nor for a thumbnail that goes wrong (storage.py:97).
StorableIsNotRefused == Storable => pc # "refused"

\* It is stored for all its recipients, however its names collide, unless the
\* disk is full.
StorableIsStored ==
  Storable => <>(pc = "failed" \/ (pc = "stored" /\ copy = MaxCopies))
=============================================================================
