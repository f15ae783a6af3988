----------------------------- MODULE StoryService -----------------------------
(***************************************************************************)
(* service/story_service.py and service/project_service.py: the streamed   *)
(* generation of a story's text, and the life of projects and stories of   *)
(* one user.  Names, descriptions and meta are not modelled.               *)
(***************************************************************************)
EXTENDS StoryStore

\* generate_story: a story with text is refined, one without is generated; either
\* way the event is opened before the stream.
GenerateStory(r, s) ==
    \/ ~Live(s) /\ Refuse(r, "generate_story", s, "not_found")
    \/ Live(s) /\ OpenEvent(r, "generate_story", s, {})

\* The client is sent STREAM_END before the text is saved.
StreamEnd(r) ==
    /\ pc[r] = "model" /\ op[r] = "generate_story"
    /\ Goto(r, "ended")
    /\ UNCHANGED <<rows, event, media, call, answer, lost>>

\* Mutant: the text is committed, the outcome of its event left for later.
CommitStory_TextOnly(r) ==
    /\ pc[r] = "ended" /\ Live(on[r])
    /\ content' = [content EXCEPT ![on[r]] = r]
    /\ source' = [source EXCEPT ![on[r]] = r]
    /\ Respond(r, op[r], "ok")
    /\ UNCHANGED <<row, canonical, joins, event, media, call, lost>>

\* TX2, a savepoint: text and outcome, or FAILED if the story has been deleted.
CommitStory(r) ==
    /\ pc[r] = "ended"
    /\ \/ /\ ~Live(on[r])
          /\ FailEvent(r, "other")
          /\ UNCHANGED <<rows, media, call, lost>>
       \/ /\ Live(on[r])
          /\ content' = [content EXCEPT ![on[r]] = r]
          /\ source' = [source EXCEPT ![on[r]] = r]
          /\ SetEvent(r, "succeeded")
          /\ Respond(r, op[r], "ok")
          /\ UNCHANGED <<row, canonical, joins, media, call, lost>>

\* The provider's stream is over without a chunk that ends it: the loop is left, and
\* nothing tells the client or the event.
StreamStops(r) ==
    /\ pc[r] = "model" /\ op[r] = "generate_story"
    /\ Respond(r, op[r], "no_end")
    /\ UNCHANGED <<rows, event, media, call, lost>>

\* create_story: committed before its name is asked of the model.
CreateStory(r, p) ==
    \/ ~Live(p) /\ Refuse(r, "create_story", p, "other")
    \/ \E s \in Unused(Stories, p) :
        /\ Live(p)
        /\ Begin(r, "create_story", s)
        /\ row' = [row EXCEPT ![s] = "live"]
        /\ Goto(r, "committed")
        /\ UNCHANGED <<content, source, canonical, joins, event, media, known, cast, deleted,
                       answer, lost>>

FinishCreateStory(r) ==
    /\ pc[r] = "committed" /\ op[r] = "create_story"
    /\ Respond(r, op[r], IF Live(on[r]) THEN "ok" ELSE "other")
    /\ UNCHANGED <<rows, event, media, call, lost>>

\* delete_story: its characters, panels and join rows go with it; images and edit
\* events stay.
DeleteStory(r, s) ==
    \/ ~Live(s) /\ Refuse(r, "delete_story", s, "not_found")
    \/ /\ Live(s)
       /\ \A p \in Panels \cap Cascade(s) : ~PanelLocked(r, p)
       /\ Begin(r, "delete_story", s)
       /\ Remove(Cascade(s))
       /\ Respond(r, "delete_story", "ok")
       /\ UNCHANGED <<event, media, known, cast, deleted, lost>>

CreateProject(r) ==
    \E p \in {x \in Projects : row[x] = "unused"} :
        /\ Begin(r, "create_project", p)
        /\ row' = [row EXCEPT ![p] = "live"]
        /\ Respond(r, "create_project", "ok")
        /\ UNCHANGED <<content, source, canonical, joins, event, media, known, cast, deleted, lost>>

\* delete_project: with everything in it, edit events and images included; the
\* objects stay in the bucket.
DeleteProject(r, p) ==
    \/ ~Live(p) /\ Refuse(r, "delete_project", p, "not_found")
    \/ /\ Live(p)
       /\ \A q \in Panels \cap Cascade(p) : ~PanelLocked(r, q)
       /\ ~ProjectShared(r, p)
       /\ Begin(r, "delete_project", p)
       /\ Remove(Cascade(p))
       /\ event' = [q \in Requests |-> IF on[q] \in Cascade(p) THEN "none" ELSE event[q]]
       /\ image' = [q \in Requests |-> IF on[q] \in Cascade(p) THEN "none" ELSE image[q]]
       /\ Respond(r, "delete_project", "ok")
       /\ UNCHANGED <<blobs, known, cast, deleted, lost>>

\* get_or_create_default_project: looked up, created when there is none, looked up again.
DefaultProject(r) ==
    /\ Begin(r, "default_project", None)
    /\ \/ (\E p \in Projects : Live(p)) /\ Respond(r, "default_project", "ok")
       \/ (\A p \in Projects : ~Live(p)) /\ Goto(r, "creating") /\ UNCHANGED answer
    /\ UNCHANGED <<rows, event, media, known, cast, deleted, lost>>

CreateDefault(r) ==
    /\ pc[r] = "creating"
    /\ \E p \in {x \in Projects : row[x] = "unused"} :
        /\ row' = [row EXCEPT ![p] = "live"]
        /\ on' = [on EXCEPT ![r] = p]
    /\ Goto(r, "committed")
    /\ UNCHANGED <<content, source, canonical, joins, event, media, op, known, cast, deleted,
                   answer, lost>>

\* The code asserts that the second look-up finds one.
FinishDefault(r) ==
    /\ pc[r] = "committed" /\ op[r] = "default_project"
    /\ Respond(r, op[r], IF \E p \in Projects : Live(p) THEN "ok" ELSE "other")
    /\ UNCHANGED <<rows, event, media, call, lost>>

NextStory(r) ==
    \/ \E s \in Stories : GenerateStory(r, s) \/ DeleteStory(r, s)
    \/ \E p \in Projects : CreateStory(r, p) \/ DeleteProject(r, p)
    \/ CreateProject(r) \/ DefaultProject(r) \/ CreateDefault(r) \/ FinishDefault(r)
    \/ StreamEnd(r) \/ CommitStory(r) \/ StreamStops(r) \/ FinishCreateStory(r)
=============================================================================
