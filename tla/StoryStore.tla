------------------------------ MODULE StoryStore ------------------------------
(***************************************************************************)
(* The rows of core/story_engine and what its API calls share: projects,   *)
(* stories, characters, panels, edit events and images in PostgreSQL, and  *)
(* the image objects in the bucket.                                        *)
(*                                                                         *)
(* A request is one API call with a database session of its own.  One      *)
(* action is one run of a request between two points where the commit of   *)
(* another request can change what it does: a call to a model or to the    *)
(* bucket, a row lock it may wait for, a read it makes after its commit.   *)
(* An edit event and an image carry the identifier of the request that     *)
(* writes them (the bucket key of an image ends with its edit event's id). *)
(***************************************************************************)
EXTENDS StoryApi, FiniteSets

CONSTANTS
    Projects, Stories, Characters, Panels,  \* identifiers, each used for one row
    Parent,         \* Parent[x]: the project of a story, the story of a row
    Requests,       \* API calls, one operation each
    Existing,       \* rows there are at the start
    Blank,          \* the ones of Existing that have no text or attributes yet
    MaxLost,        \* bound on requests lost before they finish
    None, Given

VARIABLES
    row,            \* life of a row: unused, live, gone
    content,        \* request that wrote a row's text or attributes, or Given
    source,         \* source_event_id
    canonical,      \* canonical_render_id
    joins,          \* panel_character: pairs <<panel, character>>
    event,          \* edit_event: status, "none" when there is no row
    image,          \* image: discriminator, "none" when there is no row
    blobs,          \* objects in the bucket
    op, on,         \* request: its operation and the row it is about
    known,          \* request: characters it has loaded, panels it has created
    cast,           \* request: join rows the model's answer stands for
    deleted,        \* request: rows its open transaction has deleted
    pc, answer,     \* request: control and the status code of its response
    lost

rows == <<row, content, source, canonical, joins>>
media == <<image, blobs>>
call == <<op, on, known, cast, deleted>>
vars == <<rows, event, media, call, pc, answer, lost>>

Targets == Characters \cup Panels
Texts == Stories \cup Targets
Rows == Projects \cup Texts
Joins == Panels \X Characters

ASSUME StoreAssumption ==
    /\ Parent \in [Texts -> Projects \cup Stories]
    /\ \A s \in Stories : Parent[s] \in Projects
    /\ \A t \in Targets : Parent[t] \in Stories
    /\ Projects \cap Texts = {} /\ Stories \cap Targets = {} /\ Characters \cap Panels = {}
    /\ Existing \subseteq Rows /\ Blank \subseteq Existing
    /\ \A x \in Existing \cap Texts : Parent[x] \in Existing
    /\ None \notin Requests \cup Rows /\ Given \notin Requests \cup {None}
    /\ MaxLost \in Nat

ContentOps == {"generate_panel", "refine_panel"}
RereadOps == {"render_panel", "render_character"}     \* read their target after the commit
RenderOps == RereadOps \cup {"render_panel_edit", "render_character_edit"}
UploadOps == {"upload_panel", "upload_character"}
CanonicalOps == {"set_canonical_panel", "set_canonical_character"}

RowLife == {"unused", "live", "gone"}
EditEventStatus == {"pending", "succeeded", "failed"}
ImageDiscriminator == {"render", "reference"}
PC == {"ready", "model", "touched", "recast", "stored", "linked", "uploaded", "purged",
       "locked", "ended", "creating", "committed", "done"}

Init ==
    /\ row = [x \in Rows |-> IF x \in Existing THEN "live" ELSE "unused"]
    /\ content = [x \in Texts |-> IF x \in Existing \ Blank THEN Given ELSE None]
    /\ source = [x \in Texts |-> None]
    /\ canonical = [t \in Targets |-> None]
    /\ joins = {}
    /\ event = [r \in Requests |-> "none"]
    /\ image = [r \in Requests |-> "none"]
    /\ blobs = {}
    /\ op = [r \in Requests |-> "none"] /\ on = [r \in Requests |-> None]
    /\ known = [r \in Requests |-> {}]
    /\ cast = [r \in Requests |-> {}]
    /\ deleted = [r \in Requests |-> {}]
    /\ pc = [r \in Requests |-> "ready"]
    /\ answer = [r \in Requests |-> None]
    /\ lost = 0

-----------------------------------------------------------------------------
(***************************************************************************)
(* Rows.                                                                   *)
(***************************************************************************)
Live(x) == row[x] = "live"
Unused(X, parent) == {x \in X : row[x] = "unused" /\ Parent[x] = parent}
CharactersOf(s) == {c \in Characters : Live(c) /\ Parent[c] = s}

ProjectOf(x) ==
    IF x \in Projects THEN x ELSE IF x \in Stories THEN Parent[x] ELSE Parent[Parent[x]]

\* What the foreign keys delete with a row.
Cascade(x) ==
    {y \in Rows : \/ y = x
                  \/ y \in Texts /\ Parent[y] = x
                  \/ y \in Targets /\ Parent[Parent[y]] = x}

\* get_renders_for_target, get_reference_images
ImagesOf(t, kind) == {i \in Requests : image[i] = kind /\ on[i] = t}

\* Mutant: the image is looked up by its id alone.
Belongs_AnyTarget(i, t) == i \in Requests /\ image[i] # "none"

\* get_image, and the check that the image belongs to the target.
Belongs(i, t) == i \in Requests /\ image[i] # "none" /\ on[i] = t

\* Deletes rows with all that hangs on them: a project takes the edit events and
\* images of its rows too; images are otherwise tied to no target.
Remove(X) ==
    /\ row' = [x \in Rows |-> IF x \in X /\ Live(x) THEN "gone" ELSE row[x]]
    /\ content' = [x \in Texts |-> IF x \in X THEN None ELSE content[x]]
    /\ source' = [x \in Texts |-> IF x \in X THEN None ELSE source[x]]
    /\ canonical' = [t \in Targets |-> IF t \in X THEN None ELSE canonical[t]]
    /\ joins' = {j \in joins : j[1] \notin X /\ j[2] \notin X}

\* Row locks.  A panel is locked by the request that has updated it, or whose
\* deletion of its images has set its pointer to NULL, until that request's
\* transaction ends; a project by an uncommitted insert that refers to it.
PanelLocked(r, p) ==
    \E q \in Requests \ {r} : on[q] = p /\ pc[q] \in {"touched", "recast", "locked"}
ProjectShared(r, p) ==
    \E q \in Requests \ {r} : pc[q] \in {"linked", "uploaded"} /\ ProjectOf(on[q]) = p

-----------------------------------------------------------------------------
(***************************************************************************)
(* Requests and their edit events.                                         *)
(***************************************************************************)
Goto(r, label) == pc' = [pc EXCEPT ![r] = label]

Begin(r, o, x) ==
    /\ pc[r] = "ready"
    /\ op' = [op EXCEPT ![r] = o]
    /\ on' = [on EXCEPT ![r] = x]

Respond(r, o, outcome) ==
    /\ Goto(r, "done")
    /\ answer' = [answer EXCEPT ![r] = StatusOf[o][outcome]]

\* A check fails before anything is written.
Refuse(r, o, x, error) ==
    /\ Begin(r, o, x)
    /\ Respond(r, o, error)
    /\ UNCHANGED <<rows, event, media, known, cast, deleted, lost>>

\* TX1: the edit event is committed PENDING before the model is called.
OpenEvent(r, o, x, characters) ==
    /\ Begin(r, o, x)
    /\ event' = [event EXCEPT ![r] = "pending"]
    /\ known' = [known EXCEPT ![r] = characters]
    /\ Goto(r, "model")
    /\ UNCHANGED <<rows, media, cast, deleted, answer, lost>>

SetEvent(r, status) == event' = [event EXCEPT ![r] = status]

\* The except clause of an operation: FAILED, unless the row went with its project,
\* when the update matches no row and raises again.
FailEvent(r, error) ==
    /\ SetEvent(r, IF event[r] = "none" THEN "none" ELSE "failed")
    /\ Respond(r, op[r], IF event[r] = "none" THEN "other" ELSE error)

\* Mutant: the failed flush is logged and the call answered as usual.
Abort_Swallowed(r) ==
    /\ Respond(r, op[r], "ok")
    /\ cast' = [cast EXCEPT ![r] = {}]
    /\ deleted' = [deleted EXCEPT ![r] = {}]
    /\ UNCHANGED <<rows, event, image, blobs, op, on, known, lost>>

\* A flush has failed: the session refuses the except clause's update too, and
\* what the transaction wrote is rolled back.
Abort(r) ==
    /\ Respond(r, op[r], "other")
    /\ cast' = [cast EXCEPT ![r] = {}]
    /\ deleted' = [deleted EXCEPT ![r] = {}]
    /\ UNCHANGED <<rows, event, image, blobs, op, on, known, lost>>

\* The model, fal or the download raises, or the answer cannot be used.
ModelFails(r) ==
    /\ pc[r] = "model"
    /\ FailEvent(r, "other")
    /\ UNCHANGED <<rows, media, call, lost>>

\* The process stops, the task is cancelled, the connection to the database breaks:
\* the open transaction is rolled back.
Vanish(r) ==
    /\ pc[r] \notin {"ready", "done"}
    /\ lost < MaxLost
    /\ lost' = lost + 1
    /\ Goto(r, "done")
    /\ cast' = [cast EXCEPT ![r] = IF pc[r] = "committed" THEN @ ELSE {}]
    /\ deleted' = [deleted EXCEPT ![r] = {}]
    /\ UNCHANGED <<rows, event, media, op, on, known, answer>>
=============================================================================
