------------------------------ MODULE Stickers ------------------------------
(***************************************************************************)
(* The sticker square: submission by users, review by administrators,      *)
(* edits, removal and the libraries of the users (repos.ts, "Stickers",    *)
(* and the sticker routes of routes.ts).                                   *)
(*                                                                         *)
(* A sticker is a row, an image, a pointer from its slug and its places in *)
(* the index sets.  A handler reads the whole row, changes fields of its   *)
(* copy and writes the whole row back, with an await between, and no lock  *)
(* anywhere: a request is a process, and every await is a step, at which   *)
(* Redis may fail or the process die.  Names, descriptions, tags and       *)
(* counters are left out: no property tells them apart, and an edit that   *)
(* touches only them is an edit with no change.                            *)
(***************************************************************************)
EXTENDS Naturals, FiniteSets

CONSTANTS
    Users,       \* people with an account; the first to submit owns the sticker
    System,      \* the owner of what administrators upload
    StickerIds,  \* ids newId can return
    Images,      \* contents of an image; its hash stands for it
    Slugs,       \* slugs a request may ask for or the generator return
    Requests,    \* requests in flight at the same time, on any node
    Patches,     \* changes an edit may ask for
    MaxCommands, \* bound: requests started in all
    Null

VARIABLES
    rows,        \* K.sticker: the row of each id
    images,      \* K.stickerBlob
    bySlug,      \* K.stickerSlug: slug -> id
    square,      \* K.stickersPublic
    queue,       \* K.stickersPending
    shelf,       \* K.stickerLib: the library of each user
    req,         \* the requests under way
    commands,    \* requests started so far
    overlapped,  \* history: two requests were once under way together
    approvals,   \* history: the images administrators approved, by sticker
    torn         \* history: the stickers of which a request that broke off had written
                 \* half: its image or its slug without its row, its row without the lists

stickerVars == <<rows, images, bySlug, square, queue, shelf, req, commands,
                 overlapped, approvals, torn>>

Creators == Users \cup {System}
Rows == [slug : Slugs, owner : Creators, visibility : {"public", "private"},
         review : {"pending", "approved", "rejected"}, enabled : BOOLEAN,
         hash : Images]

StickerAssumption ==
    /\ System \notin Users /\ MaxCommands \in Nat
    /\ Patches \subseteq [image : Images \cup {Null}, slug : Slugs \cup {Null},
                          visibility : {"public", "private", "same"},
                          enabled : {"on", "off", "same"}, review : {FALSE}]
    /\ Null \notin Users \cup {System} \cup StickerIds \cup Images \cup Slugs
    /\ Null \notin Rows

NoPatch == [image |-> Null, slug |-> Null, visibility |-> "same",
            enabled |-> "same", review |-> FALSE]
Idle == [op |-> "idle", at |-> "end", id |-> Null, by |-> Null, row |-> Null,
         patch |-> NoPatch]

OnSquare(row) == row.enabled /\ row.visibility = "public" /\ row.review = "approved"
AwaitsReview(row) == row.enabled /\ row.review = "pending"

(* What a user may send or see that is not his own: the filter that every  *)
(* reader of rows applies to the row it has just read.                     *)
UsableBy(row, u) ==
    IF row.owner = u THEN row.enabled /\ row.review # "rejected" ELSE OnSquare(row)

(* What a reader of one sticker or of the square is shown.                 *)
ShownTo(row, u) == row.enabled /\ (row.owner = u \/ OnSquare(row))

SlugTaken(s) == bySlug[s] # Null /\ rows[bySlug[s]] # Null

(* The row after updateStickerMeta: what it changes in the copy it read.   *)
Hidden(row) == row.visibility = "private" /\ row.review = "pending"
\* Faulty form: a sticker made public keeps the verdict it had while private.
EditedKeepsVerdict(row, p) ==
    IF p.visibility = "public" THEN [row EXCEPT !.visibility = "public"]
    ELSE [row EXCEPT !.hash = IF p.image = Null THEN @ ELSE p.image]

Edited(row, p) ==
    LET set == [row EXCEPT
                  !.enabled = IF p.enabled = "same" THEN @ ELSE p.enabled = "on",
                  !.hash = IF p.image = Null THEN @ ELSE p.image,
                  !.visibility = IF p.visibility = "same" THEN @ ELSE p.visibility]
        again == set.visibility = "public" /\ set.owner # System
                 /\ (p.review \/ p.visibility = "public" \/ p.image # Null)
        judged == IF again THEN [set EXCEPT !.review = "pending"] ELSE set
    IN IF Hidden(judged) THEN [judged EXCEPT !.review = "approved"] ELSE judged

Reviewed(row, op) ==
    CASE op = "approve" -> [row EXCEPT !.review = "approved"]
      [] op = "reject" -> [row EXCEPT !.review = "rejected"]
      [] op = "takedown" -> [row EXCEPT !.enabled = FALSE]
      [] op = "restore" -> [row EXCEPT !.enabled = TRUE,
             !.review = IF row.visibility = "public" /\ row.owner # System
                           /\ @ = "rejected" THEN "pending" ELSE @]
-----------------------------------------------------------------------------
Init ==
    /\ rows = [i \in StickerIds |-> Null]
    /\ images = [i \in StickerIds |-> Null]
    /\ bySlug = [s \in Slugs |-> Null]
    /\ square = {} /\ queue = {}
    /\ shelf = [u \in Users |-> {}]
    /\ req = [r \in Requests |-> Idle]
    /\ commands = 0
    /\ overlapped = FALSE
    /\ approvals = [i \in StickerIds |-> {}]
    /\ torn = [half \in {"image", "slug", "lists"} |-> {}]

Stored == <<rows, images, bySlug, square, queue, shelf>>

Start(r, op, at, i, u, row, p) ==
    /\ req[r] = Idle /\ commands < MaxCommands
    /\ req' = [req EXCEPT ![r] = [op |-> op, at |-> at, id |-> i, by |-> u,
                                  row |-> row, patch |-> p]]
    /\ commands' = commands + 1
    /\ overlapped' = (overlapped \/ \E q \in Requests : req[q] # Idle)
    /\ UNCHANGED torn

At(r, at) == req[r].at = at
Goto(r, at) == /\ req' = [req EXCEPT ![r] = IF at = "end" THEN Idle ELSE [@ EXCEPT !.at = at]]
               /\ UNCHANGED <<commands, overlapped, torn>>
GotoWith(r, at, row) ==
    /\ req' = [req EXCEPT ![r] = [@ EXCEPT !.at = at, !.row = row]]
    /\ UNCHANGED <<commands, overlapped, torn>>

(* The row of a new sticker: a user's public sticker waits for review, a   *)
(* private one is usable at once.                                          *)
NewRow(u, s, visibility, auto, image) ==
    [slug |-> s, owner |-> u, visibility |-> visibility, enabled |-> TRUE, hash |-> image,
     review |-> IF visibility = "private" \/ auto THEN "approved" ELSE "pending"]

\* Only an administrator's upload may be approved as it is stored.
MayAutoApprove(u, auto) == auto => u = System

(* POST of a sticker: the slug is looked up, and the row made from the     *)
(* request.                                                                *)
Submit(r, u, i, s, visibility, auto, image) ==
    /\ MayAutoApprove(u, auto)
    /\ rows[i] = Null /\ images[i] = Null /\ \A q \in Requests : req[q].id # i
    /\ ~SlugTaken(s)
    /\ Start(r, "create", "store", i, u, NewRow(u, s, visibility, auto, image), NoPatch)
    /\ UNCHANGED <<Stored, approvals>>

(* The pipeline of createSticker: image, row, slug and the own library.    *)
Store(r) ==
    LET q == req[r] IN
    /\ At(r, "store")
    /\ rows' = [rows EXCEPT ![q.id] = q.row]
    /\ images' = [images EXCEPT ![q.id] = q.row.hash]
    /\ bySlug' = [bySlug EXCEPT ![q.row.slug] = q.id]
    /\ shelf' = [u \in Users |-> IF u = q.by THEN shelf[u] \cup {q.id} ELSE shelf[u]]
    /\ approvals' = [approvals EXCEPT ![q.id] = {}]
    /\ Goto(r, "sync")
    /\ UNCHANGED <<square, queue>>

\* Only an administrator switches a sticker on or off.
MayEdit(u, row, p) ==
    /\ u \in {row.owner, System}
    /\ u # System => p.enabled = "same"

(* PUT of a sticker by its owner or an administrator: every edit of a      *)
(* user's sticker asks for a new review.  A new image is stored before any *)
(* row is.                                                                 *)
Edit(r, u, i, p) ==
    /\ rows[i] # Null
    /\ MayEdit(u, rows[i], p)
    /\ Start(r, "edit", IF p.image # Null THEN "image" ELSE "load", i, u, Null,
             [p EXCEPT !.review = u # System \/ rows[i].owner # System])
    /\ UNCHANGED <<Stored, approvals>>

PutImage(r) ==
    LET q == req[r] IN
    /\ At(r, "image")
    /\ images' = [images EXCEPT ![q.id] = q.patch.image]
    /\ Goto(r, "load")
    /\ UNCHANGED <<rows, bySlug, square, queue, shelf, approvals>>

(* updateStickerMeta reads the row again; it is gone: the request fails.   *)
Load(r) ==
    LET q == req[r]
        row == rows[q.id] IN
    /\ At(r, "load")
    /\ IF row = Null THEN Goto(r, "end")
       ELSE IF q.patch.image = Null /\ q.patch.slug \notin {Null, row.slug}
            THEN IF SlugTaken(q.patch.slug) /\ bySlug[q.patch.slug] # q.id
                 THEN Goto(r, "end")
                 ELSE GotoWith(r, "unslug", row)
       ELSE GotoWith(r, "write", Edited(row, IF q.patch.image = Null THEN q.patch
                                             ELSE [NoPatch EXCEPT !.image = q.patch.image,
                                                                  !.review = TRUE]))
    /\ UNCHANGED <<Stored, approvals>>

DropSlug(r) ==
    /\ At(r, "unslug")
    /\ bySlug' = [bySlug EXCEPT ![req[r].row.slug] = Null]
    /\ Goto(r, "slug")
    /\ UNCHANGED <<rows, images, square, queue, shelf, approvals>>

TakeSlug(r) ==
    LET q == req[r] IN
    /\ At(r, "slug")
    /\ bySlug' = [bySlug EXCEPT ![q.patch.slug] = q.id]
    /\ GotoWith(r, "write", Edited([q.row EXCEPT !.slug = q.patch.slug], q.patch))
    /\ UNCHANGED <<rows, images, square, queue, shelf, approvals>>

(* POST approve, reject, takedown, restore; DELETE by the owner.           *)
Review(r, op, i) ==
    /\ rows[i] # Null
    /\ Start(r, op, "write", i, System, Reviewed(rows[i], op), NoPatch)
    /\ UNCHANGED <<Stored, approvals>>

TakeBack(r, i) ==
    /\ rows[i] # Null /\ rows[i].owner # System
    /\ Start(r, "takedown", "write", i, rows[i].owner, Reviewed(rows[i], "takedown"), NoPatch)
    /\ UNCHANGED <<Stored, approvals>>

(* The whole row is written, whatever became of it since it was read.      *)
Write(r) ==
    LET q == req[r] IN
    /\ At(r, "write")
    /\ rows' = [rows EXCEPT ![q.id] = q.row]
    /\ approvals' = [approvals EXCEPT ![q.id] =
                       IF q.op = "approve" THEN @ \cup {images[q.id]} ELSE @]
    /\ Goto(r, IF q.op = "shelve" THEN "end" ELSE "sync")
    /\ UNCHANGED <<images, bySlug, square, queue, shelf>>

(* syncStickerIndexes, from the copy of the row.  An edit with a new image *)
(* runs updateStickerMeta a second time, for the rest of its patch.        *)
Sync(r) ==
    LET q == req[r] IN
    /\ At(r, "sync")
    /\ square' = IF OnSquare(q.row) THEN square \cup {q.id} ELSE square \ {q.id}
    /\ queue' = IF AwaitsReview(q.row) THEN queue \cup {q.id} ELSE queue \ {q.id}
    /\ IF q.op = "edit" /\ q.patch.image # Null
       THEN /\ req' = [req EXCEPT ![r].at = "load", ![r].row = Null, ![r].patch.image = Null]
            /\ UNCHANGED <<commands, overlapped, torn>>
       ELSE Goto(r, "end")
    /\ UNCHANGED <<rows, images, bySlug, shelf, approvals>>

(* DELETE by an administrator: the row is read for its slug and owner.     *)
Delete(r, i) ==
    /\ rows[i] # Null
    /\ Start(r, "delete", "erase", i, System, rows[i], NoPatch)
    /\ UNCHANGED <<Stored, approvals>>

Erase(r) ==
    LET q == req[r] IN
    /\ At(r, "erase")
    /\ rows' = [rows EXCEPT ![q.id] = Null]
    /\ images' = [images EXCEPT ![q.id] = Null]
    /\ bySlug' = [bySlug EXCEPT ![q.row.slug] = Null]
    /\ square' = square \ {q.id} /\ queue' = queue \ {q.id}
    /\ Goto(r, "end")
    /\ UNCHANGED <<shelf, approvals>>

(* A user takes a sticker into the library, or out again; the count of its *)
(* users is kept in the row, which is therefore written back as it was     *)
(* read.                                                                   *)
Shelve(r, u, i) ==
    /\ rows[i] # Null /\ rows[i].enabled
    /\ rows[i].owner = u \/ OnSquare(rows[i])
    /\ Start(r, "shelve", "shelf", i, u, rows[i], NoPatch)
    /\ UNCHANGED <<Stored, approvals>>

PutOnShelf(r) ==
    LET q == req[r] IN
    /\ At(r, "shelf")
    /\ shelf' = [shelf EXCEPT ![q.by] = @ \cup {q.id}]
    /\ Goto(r, IF q.id \in shelf[q.by] \/ q.row.owner = q.by THEN "end" ELSE "write")
    /\ UNCHANGED <<rows, images, bySlug, square, queue, approvals>>

Unshelve(r, u, i) ==
    /\ i \in shelf[u]
    /\ shelf' = [shelf EXCEPT ![u] = @ \ {i}]
    /\ Start(r, "shelve", "unshelf", i, u, Null, NoPatch)
    /\ UNCHANGED <<rows, images, bySlug, square, queue, approvals>>

LoadShelved(r) ==
    LET q == req[r] IN
    /\ At(r, "unshelf")
    /\ IF rows[q.id] = Null \/ rows[q.id].owner = q.by THEN Goto(r, "end")
       ELSE GotoWith(r, "write", rows[q.id])
    /\ UNCHANGED <<Stored, approvals>>

(* An await throws, and the route answers with an error, or the process    *)
(* dies: what the request has written stays.                               *)
Half(q) ==
    CASE q.at \in {"load", "write"} /\ q.patch.image # Null -> "image"
      [] q.at = "slug" \/ (q.at = "write" /\ q.op = "edit" /\ q.patch.image = Null) -> "slug"
      [] q.at = "sync" -> "lists"
      [] OTHER -> "nothing"
BreaksOff(r) ==
    LET q == req[r] IN
    /\ q # Idle
    /\ req' = [req EXCEPT ![r] = Idle]
    /\ torn' = [half \in DOMAIN torn |-> IF half = Half(q) THEN torn[half] \cup {q.id} ELSE torn[half]]
    /\ UNCHANGED <<Stored, commands, overlapped, approvals>>

Continue(r) ==
    \/ Store(r) \/ PutImage(r) \/ Load(r) \/ DropSlug(r) \/ TakeSlug(r) \/ Write(r)
    \/ Sync(r) \/ Erase(r) \/ PutOnShelf(r) \/ LoadShelved(r) \/ BreaksOff(r)

Next ==
    \E r \in Requests :
      \/ Continue(r)
      \/ \E i \in StickerIds :
           \/ \E u \in Creators, s \in Slugs, v \in {"public", "private"},
                 auto \in BOOLEAN, image \in Images : Submit(r, u, i, s, v, auto, image)
           \/ \E u \in Creators, p \in Patches : Edit(r, u, i, p)
           \/ \E op \in {"approve", "reject", "takedown", "restore"} : Review(r, op, i)
           \/ TakeBack(r, i) \/ Delete(r, i)
           \/ \E u \in Users : Shelve(r, u, i) \/ Unshelve(r, u, i)

Spec == Init /\ [][Next]_stickerVars
-----------------------------------------------------------------------------
(* Type invariant.                                                         *)
StickerTypeOK ==
    /\ \A i \in StickerIds : rows[i] # Null => rows[i] \in Rows
    /\ images \in [StickerIds -> Images \cup {Null}]
    /\ bySlug \in [Slugs -> StickerIds \cup {Null}]
    /\ square \subseteq StickerIds /\ queue \subseteq StickerIds
    /\ shelf \in [Users -> SUBSET StickerIds]
    /\ commands \in 0..MaxCommands /\ overlapped \in BOOLEAN
    /\ torn \in [{"image", "slug", "lists"} -> SUBSET StickerIds]

Quiet == ~overlapped /\ \A r \in Requests : req[r] = Idle

(* What the square shows, and what somebody else's library lets a user     *)
(* send, was approved by an administrator: whatever requests race and      *)
(* wherever they break off, the sticker was approved once.  Where requests *)
(* did not overlap, it is this very image that was approved, and the index *)
(* sets and slugs agree with the rows; but for the image of a sticker, or  *)
(* the lists, of which a request that broke off wrote only half (the image *)
(* is stored before the row, repos.ts:3969, the lists after it), and for   *)
(* slugs once one was moved without its row (repos.ts:3881).               *)
SquareReviewed ==
    \A i \in StickerIds : rows[i] # Null =>
      /\ \A u \in Users \ {rows[i].owner} :
         rows[i].owner # System /\ (UsableBy(rows[i], u) \/ ShownTo(rows[i], u)) =>
           /\ approvals[i] # {}
           /\ Quiet /\ i \notin torn["image"] => images[i] \in approvals[i]
      /\ Quiet =>
           /\ torn["slug"] = {} => bySlug[rows[i].slug] = i
           /\ i \notin torn["image"] => images[i] = rows[i].hash
           /\ i \notin torn["lists"] => /\ i \in square <=> OnSquare(rows[i])
                                       /\ i \in queue <=> AwaitsReview(rows[i])
=============================================================================
