---------------------------- MODULE PanelService ----------------------------
(***************************************************************************)
(* service/panel_service.py: generation and refinement of panel content    *)
(* and deletion of a panel.  The characters of a panel (its cast) are join *)
(* rows kept beside the slugs in the content.                              *)
(***************************************************************************)
EXTENDS Renders

\* generate_panels: no event is opened; the model is called inside the request's
\* read transaction.
GeneratePanels(r, s) ==
    \/ ~Live(s) /\ Refuse(r, "generate_panels", s, "not_found")
    \/ Live(s) /\ content[s] = None /\ Refuse(r, "generate_panels", s, "no_story_text")
    \/ /\ Live(s) /\ content[s] # None /\ CharactersOf(s) = {}
       /\ Refuse(r, "generate_panels", s, "no_characters")
    \/ /\ Live(s) /\ content[s] # None /\ CharactersOf(s) # {}
       /\ Begin(r, "generate_panels", s)
       /\ known' = [known EXCEPT ![r] = CharactersOf(s)]
       /\ Goto(r, "model")
       /\ UNCHANGED <<rows, event, media, cast, deleted, answer, lost>>

\* The model can only name characters it was offered: their slugs are the type of its
\* answer.
Casts(r) == SUBSET known[r]
Memberships(r, P) == SUBSET (P \X known[r])

\* One transaction: panels, join rows and SUCCEEDED events.  A story or a character
\* deleted during the model call breaks a foreign key and all of it is lost.
CommitPanels(r) ==
    /\ pc[r] = "model" /\ op[r] = "generate_panels"
    /\ \E P \in SUBSET Unused(Panels, on[r]) : \E members \in Memberships(r, P) :
        LET Insertable == /\ P # {} => Live(on[r])
                          /\ \A j \in members : Live(j[2])
        IN
        \/ ~Insertable /\ Abort(r)
        \/ /\ Insertable
           /\ row' = [x \in Rows |-> IF x \in P THEN "live" ELSE row[x]]
           /\ content' = [x \in Texts |-> IF x \in P THEN r ELSE content[x]]
           /\ source' = [x \in Texts |-> IF x \in P THEN r ELSE source[x]]
           /\ joins' = joins \cup members
           /\ cast' = [cast EXCEPT ![r] = members]
           /\ known' = [known EXCEPT ![r] = P]
           /\ SetEvent(r, IF P = {} THEN "none" ELSE "succeeded")
           /\ Goto(r, "committed")
           /\ UNCHANGED <<canonical, media, op, on, deleted, answer, lost>>

\* Every panel is refreshed for the response.
FinishPanels(r) ==
    /\ pc[r] = "committed" /\ op[r] = "generate_panels"
    /\ Respond(r, op[r], IF \A p \in known[r] : Live(p) THEN "ok" ELSE "other")
    /\ UNCHANGED <<rows, event, media, call, lost>>

\* generate_panel: the first content of a panel, checked before the model call only.
GeneratePanel(r, p) ==
    LET s == Parent[p]
    IN \/ ~Live(p) /\ Refuse(r, "generate_panel", p, "not_found")
       \/ Live(p) /\ content[p] # None /\ Refuse(r, "generate_panel", p, "already_generated")
       \/ /\ Live(p) /\ content[p] = None
          /\ \/ CharactersOf(s) = {} /\ Refuse(r, "generate_panel", p, "no_characters")
             \/ CharactersOf(s) # {} /\ OpenEvent(r, "generate_panel", p, CharactersOf(s))

\* refine_panel: content must be there; a panel without is "not found".
RefinePanel(r, p) ==
    LET s == Parent[p]
    IN \/ ~Live(p) /\ Refuse(r, "refine_panel", p, "not_found")
       \/ Live(p) /\ content[p] = None /\ Refuse(r, "refine_panel", p, "not_found")
       \/ /\ Live(p) /\ content[p] # None
          /\ \/ CharactersOf(s) = {} /\ Refuse(r, "refine_panel", p, "no_characters")
             \/ CharactersOf(s) # {} /\ OpenEvent(r, "refine_panel", p, CharactersOf(s))

\* TX2 opens with the panel's UPDATE, autoflushed before the join rows are deleted:
\* it takes the row lock, and finds no row if the panel has been deleted.
TouchPanel(r) ==
    /\ pc[r] = "model" /\ op[r] \in ContentOps
    /\ ~PanelLocked(r, on[r])
    /\ \/ ~Live(on[r]) /\ Abort(r)
       \/ /\ Live(on[r])
          /\ \E C \in Casts(r) : cast' = [cast EXCEPT ![r] = {on[r]} \X C]
          /\ Goto(r, "touched")
          /\ UNCHANGED <<rows, event, media, op, on, known, deleted, answer, lost>>

\* replace_panel_characters deletes the join rows its statement sees ...
DeleteCast(r) ==
    /\ pc[r] = "touched"
    /\ deleted' = [deleted EXCEPT ![r] = {j \in joins : j[1] = on[r]}]
    /\ Goto(r, "recast")
    /\ UNCHANGED <<rows, event, media, op, on, known, cast, answer, lost>>

\* Mutant: the join table has no foreign key to the characters.
CommitContent_NoForeignKey(r) ==
    LET kept == joins \ deleted[r]
    IN /\ pc[r] = "recast"
       /\ \A j \in cast[r] : j \notin kept
       /\ joins' = kept \cup cast[r]
       /\ content' = [content EXCEPT ![on[r]] = r]
       /\ source' = [source EXCEPT ![on[r]] = r]
       /\ deleted' = [deleted EXCEPT ![r] = {}]
       /\ SetEvent(r, "succeeded")
       /\ Goto(r, "committed")
       /\ UNCHANGED <<row, canonical, media, op, on, known, cast, answer, lost>>

\* ... and the commit inserts the new ones, with the content and the event's outcome:
\* a character deleted since the model was asked, or a join row still there, fails it.
CommitContent(r) ==
    LET kept == joins \ deleted[r]
        Insertable == \A j \in cast[r] : Live(j[2]) /\ j \notin kept
    IN /\ pc[r] = "recast"
       /\ \/ ~Insertable /\ Abort(r)
          \/ /\ Insertable
             /\ joins' = kept \cup cast[r]
             /\ content' = [content EXCEPT ![on[r]] = r]
             /\ source' = [source EXCEPT ![on[r]] = r]
             /\ deleted' = [deleted EXCEPT ![r] = {}]
             /\ SetEvent(r, "succeeded")
             /\ Goto(r, "committed")
             /\ UNCHANGED <<row, canonical, media, op, on, known, cast, answer, lost>>

\* The panel is refreshed inside the try block.
FinishContent(r) ==
    /\ pc[r] = "committed" /\ op[r] \in ContentOps
    /\ \/ Live(on[r]) /\ Respond(r, op[r], "ok") /\ UNCHANGED event
       \/ ~Live(on[r]) /\ FailEvent(r, "other")
    /\ UNCHANGED <<rows, media, call, lost>>

\* delete_panel first deletes the panel's renders; when the panel points at one of
\* them this updates, and so locks, the panel.  References are not deleted.
DeletePanel(r, p) ==
    \/ ~Live(p) /\ Refuse(r, "delete_panel", p, "not_found")
    \/ /\ Live(p) /\ (canonical[p] # None => ~PanelLocked(r, p))
       /\ Begin(r, "delete_panel", p)
       /\ deleted' = [deleted EXCEPT ![r] = ImagesOf(p, "render")]
       /\ Goto(r, IF canonical[p] # None THEN "locked" ELSE "purged")
       /\ UNCHANGED <<rows, event, media, known, cast, answer, lost>>

\* Then the row, with its join rows.
CommitDeletePanel(r) ==
    /\ pc[r] \in {"purged", "locked"}
    /\ ~PanelLocked(r, on[r])
    /\ Remove({on[r]})
    /\ image' = [i \in Requests |-> IF i \in deleted[r] THEN "none" ELSE image[i]]
    /\ deleted' = [deleted EXCEPT ![r] = {}]
    /\ Respond(r, op[r], "ok")
    /\ UNCHANGED <<event, blobs, op, on, known, cast, lost>>

NextPanel(r) ==
    \/ \E s \in Stories : GeneratePanels(r, s)
    \/ \E p \in Panels : GeneratePanel(r, p) \/ RefinePanel(r, p) \/ DeletePanel(r, p)
    \/ CommitPanels(r) \/ FinishPanels(r)
    \/ TouchPanel(r) \/ DeleteCast(r) \/ CommitContent(r) \/ FinishContent(r)
    \/ CommitDeletePanel(r)
=============================================================================
