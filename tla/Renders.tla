------------------------------- MODULE Renders -------------------------------
(***************************************************************************)
(* Images of panels and characters: reference uploads, renders made by fal *)
(* and kept in the bucket, and the canonical render of a target.  The two  *)
(* services run the same steps; where they differ the step says so.        *)
(***************************************************************************)
EXTENDS StoryStore

\* An object is written once, under a key no other request has, and never deleted.
Store(r) == blobs' = blobs \cup {r}

-----------------------------------------------------------------------------
(***************************************************************************)
(* Renders.                                                                *)
(***************************************************************************)
RenderPanel(r, p) ==
    \/ ~Live(p) /\ Refuse(r, "render_panel", p, "not_found")
    \/ Live(p) /\ OpenEvent(r, "render_panel", p, {})

RenderCharacter(r, c) ==
    \/ ~Live(c) /\ Refuse(r, "render_character", c, "not_found")
    \/ Live(c) /\ OpenEvent(r, "render_character", c, {})

\* The source image, and the reference image if one is named, must be images of the
\* target; of which kind is not looked at.
RenderPanelEdit(r, p, i, reference) ==
    LET Usable == Live(p) /\ Belongs(i, p) /\ (reference # None => Belongs(reference, p))
    IN \/ ~Usable /\ Refuse(r, "render_panel_edit", p, "not_found")
       \/ Usable /\ OpenEvent(r, "render_panel_edit", p, {})

RenderCharacterEdit(r, c, i, reference) ==
    LET Usable == Live(c) /\ Belongs(i, c) /\ (reference # None => Belongs(reference, c))
    IN \/ ~Usable
          /\ Refuse(r, "render_character_edit", c, "not_found")
       \/ Usable /\ OpenEvent(r, "render_character_edit", c, {})

\* Mutant: the image row is committed right after the upload.
StoreRender_RowFirst(r) ==
    /\ pc[r] = "model" /\ op[r] \in RenderOps
    /\ Store(r)
    /\ image' = [image EXCEPT ![r] = "render"]
    /\ Goto(r, "stored")
    /\ UNCHANGED <<rows, event, call, answer, lost>>

\* fal has answered and its image is uploaded, under the key of the edit event.
StoreRender(r) ==
    /\ pc[r] = "model" /\ op[r] \in RenderOps
    /\ Store(r)
    /\ Goto(r, "stored")
    /\ UNCHANGED <<rows, event, image, call, answer, lost>>

\* TX2 flushes the image row, which fails if the project has gone, and reads the
\* target again.  If there is none the except clause commits the image row together
\* with the FAILED event: nothing is rolled back.
LinkRender(r) ==
    /\ pc[r] = "stored"
    /\ \/ ~Live(ProjectOf(on[r])) /\ Abort(r)
       \/ /\ Live(ProjectOf(on[r])) /\ Live(on[r])
          /\ Goto(r, "linked")
          /\ UNCHANGED <<rows, event, media, call, answer, lost>>
       \/ /\ Live(ProjectOf(on[r])) /\ ~Live(on[r])
          /\ image' = [image EXCEPT ![r] = "render"]
          /\ FailEvent(r, "other")
          /\ UNCHANGED <<rows, blobs, call, lost>>

\* Mutant: an edited render is stored without being made canonical.
CommitRender_EditKeepsPointer(r) ==
    /\ pc[r] = "linked"
    /\ ~PanelLocked(r, on[r])
    /\ Live(on[r])
    /\ image' = [image EXCEPT ![r] = "render"]
    /\ canonical' = IF op[r] \in RereadOps THEN [canonical EXCEPT ![on[r]] = r] ELSE canonical
    /\ SetEvent(r, "succeeded")
    /\ Goto(r, "committed")
    /\ UNCHANGED <<row, content, source, joins, blobs, call, answer, lost>>

\* The pointer, the event and the image are committed together; the update of a
\* target deleted since LinkRender finds no row.
CommitRender(r) ==
    /\ pc[r] = "linked"
    /\ ~PanelLocked(r, on[r])
    /\ \/ ~Live(on[r]) /\ Abort(r)
       \/ /\ Live(on[r])
          /\ image' = [image EXCEPT ![r] = "render"]
          /\ canonical' = [canonical EXCEPT ![on[r]] = r]
          /\ SetEvent(r, "succeeded")
          /\ Goto(r, "committed")
          /\ UNCHANGED <<row, content, source, joins, blobs, call, answer, lost>>

\* After the commit the image is refreshed and, but for an edit, the target read
\* again; a row deleted meanwhile sends the request to the except clause.
FinishRender(r) ==
    /\ pc[r] = "committed" /\ op[r] \in RenderOps
    /\ \/ image[r] = "none" /\ FailEvent(r, "other")
       \/ /\ image[r] # "none" /\ ~Live(on[r])
          /\ op[r] \in RereadOps
          /\ FailEvent(r, "not_found")
       \/ /\ image[r] # "none"
          /\ op[r] \in RereadOps => Live(on[r])
          /\ Respond(r, op[r], "ok")
          /\ UNCHANGED event
    /\ UNCHANGED <<rows, media, call, lost>>

\* set_canonical_render of either service: checked and committed in one transaction,
\* the audit event SUCCEEDED from the start.  A target deleted after the check is missed by
\* the second look-up (404), or by the UPDATE, which then matches no row (500).
SetCanonical(r, o, t, i) ==
    LET Usable == Live(t) /\ Belongs(i, t) /\ image[i] = "render"
    IN \/ ~Usable /\ Refuse(r, o, t, "not_found")
       \/ row[t] = "gone" /\ Refuse(r, o, t, "other")
       \/ /\ Usable /\ ~PanelLocked(r, t)
          /\ Begin(r, o, t)
          /\ canonical' = [canonical EXCEPT ![t] = i]
          /\ SetEvent(r, "succeeded")
          /\ Goto(r, "committed")
          /\ UNCHANGED <<row, content, source, joins, media, known, cast, deleted,
                         answer, lost>>

SetCanonicalPanel(r, p, i) == SetCanonical(r, "set_canonical_panel", p, i)
SetCanonicalCharacter(r, c, i) == SetCanonical(r, "set_canonical_character", c, i)

\* The target is refreshed after the commit, outside any except clause.
FinishSetCanonical(r) ==
    /\ pc[r] = "committed" /\ op[r] \in CanonicalOps
    /\ Respond(r, op[r], IF Live(on[r]) THEN "ok" ELSE "other")
    /\ UNCHANGED <<rows, event, media, call, lost>>

-----------------------------------------------------------------------------
(***************************************************************************)
(* Reference images.                                                       *)
(***************************************************************************)
\* One transaction: the event is flushed only, so a failure leaves no row, but the
\* object is in the bucket before the commit.
Upload(r, o, t) ==
    \/ ~Live(t) /\ Refuse(r, o, t, "not_found")
    \/ Live(t) /\ Refuse(r, o, t, "other")    \* not an image
    \/ Live(t) /\ Refuse(r, o, t, "upload")   \* the bucket refuses
    \/ /\ Live(t)
       /\ Begin(r, o, t)
       /\ Store(r)
       /\ Goto(r, "uploaded")
       /\ UNCHANGED <<rows, event, image, known, cast, deleted, answer, lost>>

UploadPanelReference(r, p) == Upload(r, "upload_panel", p)
UploadCharacterReference(r, c) == Upload(r, "upload_character", c)

CommitUpload(r) ==
    /\ pc[r] = "uploaded"
    /\ image' = [image EXCEPT ![r] = "reference"]
    /\ SetEvent(r, "succeeded")
    /\ Goto(r, "committed")
    /\ UNCHANGED <<rows, blobs, call, answer, lost>>

\* The image is refreshed, then the endpoint reads the target for its response.
FinishUpload(r) ==
    /\ pc[r] = "committed" /\ op[r] \in UploadOps
    /\ \/ image[r] = "none" /\ Respond(r, op[r], "other")
       \/ image[r] # "none" /\ ~Live(on[r]) /\ Respond(r, op[r], "not_found")
       \/ image[r] # "none" /\ Live(on[r]) /\ Respond(r, op[r], "ok")
    /\ UNCHANGED <<rows, event, media, call, lost>>

\* Mutant: any image of the target can be deleted.
DeleteReference_AnyImage(r, o, t, i) ==
    /\ Live(t) /\ Belongs(i, t)
    /\ Begin(r, o, t)
    /\ image' = [image EXCEPT ![i] = "none"]
    /\ Respond(r, o, "ok")
    /\ UNCHANGED <<rows, event, blobs, known, cast, deleted, lost>>

\* Only a reference image of the target; the object stays in the bucket.
DeleteReference(r, o, t, i) ==
    LET Usable == Live(t) /\ Belongs(i, t) /\ image[i] = "reference"
    IN \/ ~Usable /\ Refuse(r, o, t, "not_found")
       \/ /\ Usable
          /\ Begin(r, o, t)
          /\ image' = [image EXCEPT ![i] = "none"]
          /\ Respond(r, o, "ok")
          /\ UNCHANGED <<rows, event, blobs, known, cast, deleted, lost>>

DeletePanelReference(r, p, i) == DeleteReference(r, "delete_panel_reference", p, i)
DeleteCharacterReference(r, c, i) == DeleteReference(r, "delete_character_reference", c, i)

NextRender(r) ==
    \/ \E p \in Panels :
        \/ RenderPanel(r, p) \/ UploadPanelReference(r, p)
        \/ \E i \in Requests :
            \/ SetCanonicalPanel(r, p, i) \/ DeletePanelReference(r, p, i)
            \/ \E j \in Requests \cup {None} : RenderPanelEdit(r, p, i, j)
    \/ \E c \in Characters :
        \/ RenderCharacter(r, c) \/ UploadCharacterReference(r, c)
        \/ \E i \in Requests :
            \/ SetCanonicalCharacter(r, c, i) \/ DeleteCharacterReference(r, c, i)
            \/ \E j \in Requests \cup {None} : RenderCharacterEdit(r, c, i, j)
    \/ StoreRender(r) \/ LinkRender(r) \/ CommitRender(r) \/ FinishRender(r)
    \/ FinishSetCanonical(r) \/ CommitUpload(r) \/ FinishUpload(r)
=============================================================================
