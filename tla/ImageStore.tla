----------------------------- MODULE ImageStore -----------------------------
(***************************************************************************)
(* The image of one product or shelf location: the imageUrl of its row,    *)
(* and the files under ./uploads that carry its id.  The database and the  *)
(* disk change in separate steps: an upload writes its file before the row *)
(* is looked up, and files are unlinked in the background, after the row   *)
(* is updated (uploads) or before it is (pushes).                          *)
(*                                                                         *)
(* A file is named by the millisecond of its upload.  Records that are     *)
(* pushed name no image, or one that the row has carried before.           *)
(***************************************************************************)
EXTENDS Naturals

CONSTANTS Slots,   \* handlers that can be running at once
          MaxTime, \* bound of the model on the clock
          None

ASSUME BoundAssumption == MaxTime \in Nat
ASSUME NoneAssumption == None \notin Nat

VARIABLES
    model,     \* whose image it is
    now,       \* Date.now()
    image,     \* imageUrl of the row
    gone,      \* isDeleted of the row
    disk,      \* the files there are
    unlinking, \* the files that are being unlinked
    pc,        \* the next step of every handler
    img,       \* the file it has written, or the image its record names
    del,       \* whether its record is deleted
    old,       \* the image the row had when an upload read it
    named,     \* history: the names files were given
    shown,     \* history: the images the row has had
    careful,   \* history: no push overlapped, failed or named an old image,
               \* and no name was given twice
    tidy       \* history: nothing overlapped, no upload and no unlink failed,
               \* and no POST /sync took an image away

rowVars == <<image, gone, shown>>
fileVars == <<disk, unlinking, named>>
handlerVars == <<pc, img, del, old>>
vars == <<model, now, rowVars, fileVars, handlerVars, careful, tidy>>

Name == Nat \cup {None}

TypeOK ==
    /\ model \in {"Product", "ShelfLocation"}
    /\ now \in Nat
    /\ image \in Name
    /\ gone \in BOOLEAN
    /\ disk \subseteq Nat /\ unlinking \subseteq Nat /\ named \subseteq Nat
    /\ shown \subseteq Nat
    /\ pc \in [Slots -> {"idle", "read", "save", "find", "look", "write"}]
    /\ img \in [Slots -> Name]
    /\ del \in [Slots -> BOOLEAN]
    /\ old \in [Slots -> Name]
    /\ careful \in BOOLEAN /\ tidy \in BOOLEAN

Init ==
    /\ model \in {"Product", "ShelfLocation"}
    /\ now = 0
    /\ image = None /\ gone = FALSE /\ shown = {}
    /\ disk = {} /\ unlinking = {} /\ named = {}
    /\ pc = [s \in Slots |-> "idle"]
    /\ img = [s \in Slots |-> None]
    /\ del = [s \in Slots |-> FALSE]
    /\ old = [s \in Slots |-> None]
    /\ careful = TRUE /\ tidy = TRUE

Running(s) == pc[s] # "idle"
Alone == \A s \in Slots : ~Running(s)
Uploading(s) == pc[s] \in {"read", "save"}
Pushing(s) == pc[s] \in {"find", "look", "write"}

Begin(s, step, n, d) ==
    /\ ~Running(s)
    /\ pc' = [pc EXCEPT ![s] = step]
    /\ img' = [img EXCEPT ![s] = n]
    /\ del' = [del EXCEPT ![s] = d]
    /\ UNCHANGED <<model, now, rowVars, old>>

End(s) ==
    /\ pc' = [pc EXCEPT ![s] = "idle"]
    /\ img' = [img EXCEPT ![s] = None]
    /\ del' = [del EXCEPT ![s] = FALSE]
    /\ old' = [old EXCEPT ![s] = None]

-----------------------------------------------------------------------------
(* Uploads.                                                                *)

\* The interceptor writes the file before the handler runs.
Upload(s) ==
    /\ Begin(s, "read", now, FALSE)
    /\ disk' = disk \cup {now}
    /\ named' = named \cup {now}
    /\ UNCHANGED unlinking
    /\ careful' = (careful /\ now \notin named
                           /\ \A q \in Slots : ~Pushing(q))
    /\ tidy' = (tidy /\ Alone)

\* findUnique; a deleted row is not found
ReadRow(s) ==
    /\ pc[s] = "read"
    /\ ~gone
    /\ old' = [old EXCEPT ![s] = image]
    /\ pc' = [pc EXCEPT ![s] = "save"]
    /\ UNCHANGED <<model, now, rowVars, fileVars, img, del, careful, tidy>>

\* Slip: the name is unlinked that the updated row carries.
ReplacedUpdated(s) == {img[s]}

\* Slip: it is not asked whether there was an image.
ReplacedUnasked(s) == {old[s]}

\* The file an upload leaves without a row, as far as it has read.
Replaced(s) == {old[s]} \ {None}

\* The row is updated by id, whatever it has become; then the file goes.
Save(s) ==
    /\ pc[s] = "save"
    /\ image' = img[s]
    /\ shown' = shown \cup {img[s]}
    /\ unlinking' = unlinking \cup Replaced(s)
    /\ End(s)
    /\ UNCHANGED <<model, now, gone, disk, named, careful, tidy>>

-----------------------------------------------------------------------------
(* Records.                                                                *)

\* pushProducts, pushShelfLocations
Push(s, n, d) ==
    /\ Begin(s, "find", n, d)
    /\ careful' = (careful /\ Alone /\ n \in {image, None})
    /\ tidy' = (tidy /\ Alone)
    /\ UNCHANGED fileVars

\* POST /sync
Sync(s, n, d) ==
    /\ Begin(s, "look", n, d)
    /\ careful' = (careful /\ Alone /\ n \in {image, None})
    /\ tidy' = (tidy /\ Alone /\ n = image)
    /\ UNCHANGED fileVars

\* Slip: a record without an image unlinks nothing.
SupersededNamed(s) ==
    IF img[s] # None /\ img[s] # image THEN {image} \ {None} ELSE {}

\* The file a record takes from the row.
Superseded(s) == IF img[s] # image THEN {image} \ {None} ELSE {}

\* The row is found and its file unlinked, before the row is updated.
Find(s) ==
    /\ pc[s] = "find"
    /\ ~gone
    /\ unlinking' = unlinking \cup Superseded(s)
    /\ pc' = [pc EXCEPT ![s] = "write"]
    /\ UNCHANGED <<model, now, rowVars, disk, named, img, del, old,
                   careful, tidy>>

\* POST /sync leaves files alone.
Look(s) ==
    /\ pc[s] = "look"
    /\ ~gone
    /\ pc' = [pc EXCEPT ![s] = "write"]
    /\ UNCHANGED <<model, now, rowVars, fileVars, img, del, old,
                   careful, tidy>>

\* The row is newer.  pushShelfLocations does not compare.
Drop(s) ==
    /\ pc[s] = "look" \/ (pc[s] = "find" /\ model = "Product")
    /\ ~gone
    /\ End(s)
    /\ UNCHANGED <<model, now, rowVars, fileVars, careful, tidy>>

Write(s) ==
    /\ pc[s] = "write"
    /\ image' = img[s]
    /\ shown' = shown \cup ({img[s]} \ {None})
    /\ gone' = del[s]
    /\ End(s)
    /\ UNCHANGED <<model, now, fileVars, careful, tidy>>

-----------------------------------------------------------------------------

\* 404, a unique index (the row is deleted, so the record is created), a
\* failed statement, the end of the process
Refuse(s) ==
    /\ Running(s)
    /\ End(s)
    /\ careful' = (careful /\ pc[s] # "write")
    /\ tidy' = (tidy /\ ~Uploading(s))
    /\ UNCHANGED <<model, now, rowVars, fileVars>>

\* remove, deleteShelfLocation: the row keeps its image
Remove ==
    /\ ~gone
    /\ gone' = TRUE
    /\ UNCHANGED <<model, now, image, shown, fileVars, handlerVars,
                   careful, tidy>>

Unlink(n) ==
    /\ n \in unlinking
    /\ unlinking' = unlinking \ {n}
    /\ disk' = disk \ {n}
    /\ UNCHANGED <<model, now, rowVars, named, handlerVars, careful, tidy>>

\* unlink(...).catch(() => {}), or the process ends
UnlinkFails(n) ==
    /\ n \in unlinking
    /\ unlinking' = unlinking \ {n}
    /\ tidy' = (tidy /\ n \notin disk)
    /\ UNCHANGED <<model, now, rowVars, disk, named, handlerVars, careful>>

Tick ==
    /\ now < MaxTime
    /\ now' = now + 1
    /\ UNCHANGED <<model, rowVars, fileVars, handlerVars, careful, tidy>>

Handle(s) ==
    ReadRow(s) \/ Save(s) \/ Find(s) \/ Look(s) \/ Drop(s) \/ Write(s)
        \/ Refuse(s)

Next ==
    \/ Tick \/ Remove
    \/ \E n \in unlinking : Unlink(n) \/ UnlinkFails(n)
    \/ \E s \in Slots :
          \/ Handle(s)
          \/ Upload(s)
          \/ \E n \in shown \cup {None}, d \in BOOLEAN :
                Push(s, n, d) \/ Sync(s, n, d)

Spec == Init /\ [][Next]_vars

-----------------------------------------------------------------------------

\* The row never points to a file that is not there, however uploads overlap
\* and wherever they fail, unless a push overlapped with something, failed
\* between its unlink and its update, or named an image the row no longer
\* had, or two uploads fell into one millisecond.  (A push that takes the
\* image away unlinks the file just before it updates the row.)
NoDanglingImage ==
    careful /\ (\A s \in Slots : pc[s] # "write") =>
        image = None \/ image \in disk

\* Uploads and pushes leave no file behind that no row names, as long as
\* nothing overlaps or fails and POST /sync leaves the image alone.
NoOrphanedFile ==
    tidy /\ Alone /\ unlinking = {} => disk \subseteq {image}
=============================================================================
