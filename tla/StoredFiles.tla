---------------------------- MODULE StoredFiles -----------------------------
(***************************************************************************)
(* Files and the rows that name them: identity documents, portfolio items, *)
(* attachments of support tickets, and a photo column (profile, cover and  *)
(* package photos are edited alike).  The database rolls back, the disk    *)
(* does not.  A name is a fresh uuid; a behaviour works on one shelf.      *)
(***************************************************************************)
EXTENDS Naturals, FiniteSets

CONSTANTS
    MaxFiles,   \* bound on the names given to uploads, in the order 1, 2, ...
    Uploaders   \* request handlers

ASSUME StoredFilesAssumption == MaxFiles \in Nat \ {0} /\ IsFiniteSet(Uploaders)

VARIABLES
    shelf,      \* the table this behaviour is about
    rows,       \* committed rows; the photo shelf has exactly one
    place,      \* where the file of a name is
    upload,     \* what every upload of this behaviour looks like
    legacy,     \* documents uploaded when they still went to MEDIA_ROOT
    tx,         \* the transaction of each handler
    moving,     \* row in the hands of move_kyc_files_to_private
    undone,     \* names whose file a transaction deleted and then rolled back
    restored,   \* names a whole-row save of an old copy brought back
    left        \* files nobody removes any more

fileVars == <<shelf, rows, place, upload, legacy, tx, moving, undone, restored, left>>
-----------------------------------------------------------------------------
(* common/uploads.py: the bytes must be of a known format and the          *)
(* extension must be one of that format's.                                 *)
Formats == {"JPEG", "PNG", "PDF", "MP4", "other"}
Extensions == {".jpg", ".png", ".pdf", ".mp4"}
Uploads == [format : Formats, extension : Extensions, size : {"empty", "fits", "large"}]

IMAGE_FORMATS == [JPEG |-> {".jpg"}, PNG |-> {".png"}]

validate_image(u) ==
    u.size = "fits" /\ u.format \in DOMAIN IMAGE_FORMATS /\ u.extension \in IMAGE_FORMATS[u.format]
validate_image_or_pdf(u) ==
    IF u.extension = ".pdf" THEN u.size = "fits" /\ u.format = "PDF" ELSE validate_image(u)
validate_video(u) == u.size = "fits" /\ u.extension = ".mp4" /\ u.format = "MP4"
validate_portfolio_media(u) == validate_video(u) \/ validate_image(u)

Accepted ==
    {u \in Uploads : CASE shelf \in {"documents", "tickets"} -> validate_image_or_pdf(u)
                       [] shelf = "items" -> validate_portfolio_media(u)
                       [] OTHER -> validate_image(u)}

ID_TYPES == {"aadhaar", "voter_id", "passport", "driving_licence"}
BACK_IMAGE_REQUIRED == ID_TYPES \ {"passport"}
-----------------------------------------------------------------------------
Files == 1..MaxFiles
FileRow == [files : SUBSET Files, proof : BOOLEAN]
PhotoRow(names) == [files |-> names, proof |-> FALSE]
NoTx == [task |-> "none", new |-> {}, todo |-> {}, held |-> {}, cut |-> {}]
Tasks == {"none", "proof", "replacing", "other", "add", "delete", "set", "save"}
Issued == {f \in Files : place[f] # "unused"}
Present == {f \in Files : place[f] \in {"stored", "public"}}
Named == UNION {r.files : r \in rows}

Open(w, task, todo) ==
    /\ tx[w] = NoTx
    /\ tx' = [tx EXCEPT ![w].task = task, ![w].todo = todo]

(* The row lock a DELETE or UPDATE holds until its transaction ends.       *)
HeldElsewhere(w, r) ==
    \E v \in Uploaders \ {w} : IF shelf = "photo" THEN tx[v].held # {} ELSE r \in tx[v].held

(* FileField.pre_save: the file goes to disk when the row is written.      *)
WriteFiles(names) ==
    /\ names \subseteq Files /\ Issued \cup names = 1..(Cardinality(Issued) + Cardinality(names))
    /\ Issued \cap names = {} /\ upload \in Accepted
    /\ place' = [f \in Files |-> IF f \in names THEN "stored" ELSE place[f]]

(* storage.delete of the shelf's own storage: silent when the file is not  *)
(* there, which a legacy file in MEDIA_ROOT is not.                        *)
Erased(names) == [f \in Files |-> IF f \in names /\ place[f] = "stored" THEN "gone" ELSE place[f]]
-----------------------------------------------------------------------------
(* ArtistDocumentView.create_extract: the files and the row, not yet       *)
(* committed; a new proof of identity then lists the earlier ones.         *)
UploadDocument(w, names, id_type) ==
    /\ shelf = "documents" /\ tx[w] = NoTx
    /\ Cardinality(names) \in (IF id_type \in BACK_IMAGE_REQUIRED THEN {2}
                               ELSE IF id_type \in ID_TYPES THEN {1, 2} ELSE {1})
    /\ WriteFiles(names)
    /\ tx' = [tx EXCEPT ![w] = [NoTx EXCEPT !.task = IF id_type \in ID_TYPES THEN "proof" ELSE "other", !.new = names]]
    /\ UNCHANGED <<shelf, rows, upload, legacy, moving, undone, restored, left>>

replace_id_proofs(w) ==
    /\ tx[w].task = "proof"
    /\ tx' = [tx EXCEPT ![w].task = "replacing", ![w].todo = {r \in rows : r.proof}]
    /\ UNCHANGED <<shelf, rows, place, upload, legacy, moving, undone, restored, left>>

(* ArtistPortfolioView.create_extract.                                     *)
AddItem(w, f) ==
    /\ shelf = "items" /\ tx[w] = NoTx
    /\ WriteFiles({f})
    /\ tx' = [tx EXCEPT ![w] = [NoTx EXCEPT !.task = "add", !.new = {f}]]
    /\ UNCHANGED <<shelf, rows, upload, legacy, moving, undone, restored, left>>

(* TicketView.create_extract; nobody deletes a ticket.                     *)
AttachFiles(w, names) ==
    /\ shelf = "tickets" /\ tx[w] = NoTx
    /\ WriteFiles(names)
    /\ tx' = [tx EXCEPT ![w] = [NoTx EXCEPT !.task = "add", !.new = names]]
    /\ UNCHANGED <<shelf, rows, upload, legacy, moving, undone, restored, left>>

(* delete_extract of documents and portfolio, the reading half.            *)
ReadToDelete(w, r) ==
    /\ shelf \in {"documents", "items"} /\ r \in rows
    /\ Open(w, "delete", {r})
    /\ UNCHANGED <<shelf, rows, place, upload, legacy, moving, undone, restored, left>>

Cut(w, r) ==
    /\ ~(r.files \subseteq tx[w].cut)
    /\ place' = Erased(r.files)
    /\ tx' = [tx EXCEPT ![w].cut = @ \cup r.files]
    /\ UNCHANGED <<shelf, rows, upload, legacy, moving, undone, restored, left>>

(* A document loses its files before its row ...                           *)
_delete_with_files(w, r) == shelf = "documents" /\ r \in tx[w].todo /\ Cut(w, r)

(* ... a portfolio item or a photo after it.                               *)
DeleteReplaced(w, r) == shelf # "documents" /\ r \in tx[w].held /\ Cut(w, r)

DropRow(w, r) ==
    /\ tx[w].task \in {"replacing", "delete"} /\ r \in tx[w].todo
    /\ shelf = "documents" => r.files \subseteq tx[w].cut
    /\ ~HeldElsewhere(w, r)
    /\ tx' = [tx EXCEPT ![w].todo = @ \ {r}, ![w].held = @ \cup {r}]
    /\ UNCHANGED <<shelf, rows, place, upload, legacy, moving, undone, restored, left>>
-----------------------------------------------------------------------------
(* set_photos, set_photo and remove_photo read the row without a lock,     *)
(* write it and then delete the file they read, all before the commit.     *)
ReadPhoto(w) ==
    /\ shelf = "photo"
    /\ Open(w, "set", rows)
    /\ UNCHANGED <<shelf, rows, place, upload, legacy, moving, undone, restored, left>>

WritePhoto(w, r, names) ==
    /\ tx[w].task = "set" /\ r \in tx[w].todo
    /\ ~HeldElsewhere(w, r)
    /\ tx' = [tx EXCEPT ![w].todo = {}, ![w].held = {r}, ![w].new = names]
    /\ UNCHANGED <<shelf, rows, upload, legacy, moving, undone, restored, left>>

set_photos(w, r, f) == WritePhoto(w, r, {f}) /\ WriteFiles({f})
remove_photo(w, r) == r.files # {} /\ WritePhoto(w, r, {}) /\ UNCHANGED place

(* ArtistProfile.update, PricingPackage.update and Portfolio.update save   *)
(* every column of a row read before; save() inserts a row that is gone.   *)
ReadForm(w, r) ==
    /\ shelf \in {"items", "photo"} /\ r \in rows
    /\ Open(w, "save", {r})
    /\ UNCHANGED <<shelf, rows, place, upload, legacy, moving, undone, restored, left>>

SaveForm(w) ==
    /\ tx[w].task = "save"
    /\ \E r \in tx[w].todo :
          /\ ~HeldElsewhere(w, r)
          /\ rows' = (IF shelf = "photo" THEN {r} ELSE rows \cup {r})
          /\ restored' = restored \cup (r.files \ Named)
    /\ tx' = [tx EXCEPT ![w] = NoTx]
    /\ UNCHANGED <<shelf, place, upload, legacy, moving, undone, left>>
-----------------------------------------------------------------------------
Finished(w) ==
    /\ tx[w].task \notin {"none", "save", "proof"} /\ tx[w].todo = {}
    /\ \A r \in tx[w].held : r.files \subseteq tx[w].cut

Commit(w) ==
    /\ Finished(w)
    /\ rows' = CASE shelf = "photo" -> {PhotoRow(tx[w].new)}
                 [] shelf # "photo" /\ tx[w].new # {} -> (rows \ tx[w].held)
                        \cup {[files |-> tx[w].new, proof |-> tx[w].task = "replacing"]}
                 [] OTHER -> rows \ tx[w].held
    /\ left' = left \cup (legacy \cap Present \cap UNION {r.files : r \in tx[w].held})
    /\ undone' = undone \cap UNION {r.files : r \in rows'} /\ restored' = restored \cap UNION {r.files : r \in rows'}
    /\ tx' = [tx EXCEPT ![w] = NoTx]
    /\ UNCHANGED <<shelf, place, upload, legacy, moving>>

(* The except clause of create_extract removes what the rollback leaves.   *)
(* Mutant: as the other uploads do, it leaves them.                        *)
CleanedUpNothing(w) == {}
CleanedUp(w) == IF tx[w].task \in {"proof", "replacing", "other"} THEN tx[w].new ELSE {}

(* Any statement of the transaction may fail and roll the rows back.       *)
Fail(w) ==
    /\ tx[w].task # "none"
    /\ place' = Erased(CleanedUp(w))
    /\ left' = IF shelf = "documents" THEN left ELSE left \cup tx[w].new
    /\ undone' = (undone \cup tx[w].cut) \cap Named
    /\ tx' = [tx EXCEPT ![w] = NoTx]
    /\ UNCHANGED <<shelf, rows, upload, legacy, moving, restored>>

(* The worker's process ends; the database rolls back, no clause runs.     *)
Die(w) ==
    /\ tx[w].task # "none"
    /\ left' = left \cup tx[w].new
    /\ undone' = (undone \cup tx[w].cut) \cap Named
    /\ tx' = [tx EXCEPT ![w] = NoTx]
    /\ UNCHANGED <<shelf, rows, place, upload, legacy, moving, restored>>
-----------------------------------------------------------------------------
(* move_kyc_files_to_private: reads a row, then looks for its file in      *)
(* both places and moves it; the row may be gone by then.                  *)
ReadToMove(r) ==
    /\ shelf = "documents" /\ moving = {} /\ r \in rows
    /\ moving' = {r}
    /\ UNCHANGED <<shelf, rows, place, upload, legacy, tx, undone, restored, left>>

MoveFile ==
    /\ \E r \in moving :
          LET public == {f \in r.files : place[f] = "public"} IN
          /\ place' = [f \in Files |-> IF f \in public THEN "stored" ELSE place[f]]
          /\ left' = IF r \in rows THEN left ELSE left \cup public
    /\ moving' = {}
    /\ UNCHANGED <<shelf, rows, upload, legacy, tx, undone, restored>>
-----------------------------------------------------------------------------
FilesInit ==
    /\ shelf \in {"documents", "items", "tickets", "photo"}
    /\ upload \in Uploads
    /\ \E first \in {{}, {1}}, old \in BOOLEAN, proof \in BOOLEAN :
          /\ upload \in Accepted
          /\ legacy = IF old THEN first ELSE {}
          /\ shelf # "documents" => ~old /\ ~proof
          /\ rows = IF first = {} /\ shelf # "photo" THEN {} ELSE {[files |-> first, proof |-> proof]}
          /\ place = [f \in Files |-> IF f \in legacy THEN "public" ELSE IF f \in first THEN "stored" ELSE "unused"]
    /\ tx = [w \in Uploaders |-> NoTx] /\ moving = {}
    /\ undone = {} /\ restored = {} /\ left = {}

Batches == {names \in SUBSET Files : Cardinality(names) \in {1, 2}}

FilesNext ==
    \/ \E w \in Uploaders :
          \/ \E names \in Batches, id_type \in ID_TYPES \cup {"none"} : UploadDocument(w, names, id_type)
          \/ \E f \in Files : AddItem(w, f)
          \/ \E r \in rows : ReadToDelete(w, r) \/ ReadForm(w, r)
          \/ \E names \in Batches : AttachFiles(w, names)
          \/ \E r \in tx[w].todo \cup tx[w].held :
                \/ _delete_with_files(w, r) \/ DeleteReplaced(w, r) \/ DropRow(w, r)
                \/ remove_photo(w, r) \/ \E f \in Files : set_photos(w, r, f)
          \/ ReadPhoto(w) \/ replace_id_proofs(w) \/ SaveForm(w)
          \/ Commit(w) \/ Fail(w) \/ Die(w)
    \/ \E r \in rows : ReadToMove(r)
    \/ MoveFile

FilesSpec == FilesInit /\ [][FilesNext]_fileVars
-----------------------------------------------------------------------------
(* Every row, file and transaction keeps its type.                         *)
FilesTypeOK ==
    /\ rows \subseteq FileRow /\ moving \subseteq FileRow
    /\ place \in [Files -> {"unused", "stored", "public", "gone"}]
    /\ upload \in Uploads
    /\ tx \in [Uploaders -> [task : Tasks, new : SUBSET Files, todo : SUBSET FileRow,
                           held : SUBSET FileRow, cut : SUBSET Files]]
    /\ undone \cup restored \cup left \cup legacy \subseteq Files

(* Downloads: the content type comes from the extension alone.             *)
SAFE_CONTENT_TYPES == [x \in Extensions \ {".mp4"} |-> CASE x = ".jpg" -> "JPEG" [] x = ".png" -> "PNG" [] OTHER -> "PDF"]
Served(f) == IF place[f] # "stored" THEN {} ELSE
    {IF upload.extension \in DOMAIN SAFE_CONTENT_TYPES THEN SAFE_CONTENT_TYPES[upload.extension] ELSE "octet-stream"}
document_download(f) == IF shelf = "documents" THEN Served(f) ELSE {}
attachment_download(f) == IF shelf = "tickets" THEN Served(f) ELSE {}

(* When no transaction is open, a document on disk has its row, unless a   *)
(* worker died over it or it lay in the old place when its row went; a row *)
(* has its file, unless a transaction that deleted the file was rolled     *)
(* back or a form saved an old copy of the row; and what a download is     *)
(* labelled as is what the bytes are.  This is the clean-up in             *)
(* create_extract, _delete_with_files and the deletions of old photos.     *)
FilesAccounted ==
    (\A w \in Uploaders : tx[w] = NoTx) =>
        /\ shelf = "documents" => Present \subseteq Named \cup left
        /\ Named \subseteq Present \cup undone \cup restored
        /\ \A f \in Named :
              document_download(f) \cup attachment_download(f) \subseteq {upload.format, "octet-stream"}
=============================================================================
