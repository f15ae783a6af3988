------------------------- MODULE StoryAnswers_proofs -------------------------
(***************************************************************************)
(* What a client of the story engine is told.  A step of a request leaves  *)
(* to the other requests what they have recorded, or erases it with its    *)
(* project; so the answer a request gives stays true to its edit event for *)
(* as long as what it wrote is there.                                      *)
(***************************************************************************)
EXTENDS StoryEngine_proofs

\* What any step may do to the rows, and to a request, which is the one that takes
\* the step if its label changes.
StepFrame ==
    /\ \A x \in Rows : \/ row'[x] = row[x]
                       \/ row[x] = "unused" /\ row'[x] = "live"
                       \/ row[x] = "live" /\ row'[x] = "gone"
    /\ blobs \subseteq blobs'
    /\ \A q \in Requests :
         /\ pc[q] # "ready" => op'[q] = op[q]
         /\ pc[q] \notin {"ready", "creating"} => on'[q] = on[q]
         /\ pc'[q] = pc[q] =>
              /\ op'[q] = op[q] /\ on'[q] = on[q]
              /\ known'[q] = known[q] /\ answer'[q] = answer[q]
              /\ event'[q] \in {event[q], "none"}
              /\ image'[q] \in {image[q], "none"}
         /\ image[q] = "render" /\ image'[q] # "render" => row'[on[q]] = "gone"
         /\ image[q] # "render" /\ image'[q] = "render" =>
              /\ q \in blobs /\ pc[q] \in {"stored", "linked"}
              /\ canonical'[on[q]] = q \/ row[on[q]] = "gone"

-----------------------------------------------------------------------------
\* The frame of a panel's steps.
LEMMA PanelFrame ==
  ASSUME IInv, answer = [q \in Requests |-> answer[q]], NEW r \in Requests,
         NextPanel(r)
  PROVE  StepFrame
<1>. USE DEF IInv, Types, RequestControl, StepFrame, rows, media, call, Live
<1>1. ASSUME NEW s \in Stories, GeneratePanels(r, s) PROVE StepFrame
  BY <1>1 DEF GeneratePanels, Refuse, Begin, Respond, Goto
<1>2. CASE CommitPanels(r)
  BY <1>2 DEF CommitPanels, Abort, Unused, Respond, Goto, SetEvent
<1>3. CASE FinishPanels(r)
  BY <1>3 DEF FinishPanels, Respond, Goto
<1>4. ASSUME NEW p \in Panels, GeneratePanel(r, p) PROVE StepFrame
  BY <1>4 DEF GeneratePanel, Refuse, OpenEvent, Begin, Respond, Goto
<1>5. ASSUME NEW p \in Panels, RefinePanel(r, p) PROVE StepFrame
  BY <1>5 DEF RefinePanel, Refuse, OpenEvent, Begin, Respond, Goto
<1>6. CASE TouchPanel(r)
  BY <1>6 DEF TouchPanel, Abort, Respond, Goto
<1>7. CASE DeleteCast(r)
  BY <1>7 DEF DeleteCast, Goto
<1>8. CASE CommitContent(r)
  BY <1>8 DEF CommitContent, Abort, Respond, Goto, SetEvent
<1>9. CASE FinishContent(r)
  BY <1>9 DEF FinishContent, FailEvent, SetEvent, Respond, Goto
<1>10. ASSUME NEW p \in Panels, DeletePanel(r, p) PROVE StepFrame
  BY <1>10 DEF DeletePanel, Refuse, Begin, Respond, Goto
<1>11. CASE CommitDeletePanel(r)
  BY <1>11 DEF CommitDeletePanel, Remove, Respond, Goto, RowLife
<1>. QED BY <1>1, <1>2, <1>3, <1>4, <1>5, <1>6, <1>7, <1>8, <1>9, <1>10, <1>11 DEF NextPanel

\* Of a character's.
LEMMA CharacterFrame ==
  ASSUME IInv, answer = [q \in Requests |-> answer[q]], NEW r \in Requests,
         NextCharacter(r)
  PROVE  StepFrame
<1>. USE DEF IInv, Types, RequestControl, StepFrame, rows, media, call, Live
<1>1. ASSUME NEW s \in Stories, ExtractCharacters(r, s) PROVE StepFrame
  BY <1>1 DEF ExtractCharacters, Refuse, Begin, Respond, Goto
<1>2. CASE CommitCharacters(r)
  BY <1>2 DEF CommitCharacters, Unused, Abort, Respond, Goto
<1>3. ASSUME NEW c \in Characters, RefineCharacter(r, c) PROVE StepFrame
  BY <1>3 DEF RefineCharacter, Refuse, OpenEvent, Begin, Respond, Goto
<1>4. CASE CommitRefinement(r)
  BY <1>4 DEF CommitRefinement, FailEvent, SetEvent, Respond, Goto
<1>5. CASE FinishRefinement(r)
  BY <1>5 DEF FinishRefinement, FailEvent, SetEvent, Respond, Goto
<1>6. ASSUME NEW c \in Characters, UpdateCharacter(r, c) PROVE StepFrame
  BY <1>6 DEF UpdateCharacter, Refuse, Begin, Respond, Goto
<1>7. ASSUME NEW c \in Characters, DeleteCharacter(r, c) PROVE StepFrame
  BY <1>7 DEF DeleteCharacter, Remove, Refuse, Begin, Respond, Goto
<1>. QED BY <1>1, <1>2, <1>3, <1>4, <1>5, <1>6, <1>7 DEF NextCharacter

\* Of an image's.
LEMMA RenderFrame ==
  ASSUME IInv, answer = [q \in Requests |-> answer[q]], NEW r \in Requests,
         NextRender(r)
  PROVE  StepFrame
<1>. USE DEF IInv, Types, RequestControl, StepFrame, rows, media, call, Live
<1>1. ASSUME NEW t \in Targets, NEW i, NEW j, RenderPanel(r, t) \/ RenderPanelEdit(r, t, i, j)
      PROVE  StepFrame
  BY <1>1 DEF RenderPanel, RenderPanelEdit, Refuse, OpenEvent, Begin, Respond, Goto
<1>2. ASSUME NEW t \in Targets, NEW i, NEW j, RenderCharacter(r, t) \/ RenderCharacterEdit(r, t, i,
             j)
      PROVE  StepFrame
  BY <1>2 DEF RenderCharacter, RenderCharacterEdit, Refuse, OpenEvent, Begin, Respond, Goto
<1>3. CASE StoreRender(r)
  BY <1>3 DEF StoreRender, Store, Goto
<1>4. CASE LinkRender(r)
  BY <1>4 DEF LinkRender, Abort, FailEvent, SetEvent, Respond, Goto, RowLife, RenderOps,
     RereadOps
<1>5. CASE CommitRender(r)
  BY <1>5 DEF CommitRender, Abort, SetEvent, Respond, Goto, Fits, ImageOps
<1>6. CASE FinishRender(r)
  BY <1>6 DEF FinishRender, FailEvent, SetEvent, Respond, Goto
<1>7. ASSUME NEW o, NEW t \in Targets, NEW i \in Requests, SetCanonical(r, o, t, i) PROVE StepFrame
  BY <1>7 DEF SetCanonical, Refuse, SetEvent, Begin, Respond, Goto
<1>8. CASE FinishSetCanonical(r)
  BY <1>8 DEF FinishSetCanonical, Respond, Goto
<1>9. ASSUME NEW o, NEW t \in Targets, Upload(r, o, t) PROVE StepFrame
  BY <1>9 DEF Upload, Store, Refuse, Begin, Respond, Goto
<1>10. CASE CommitUpload(r)
  BY <1>10 DEF CommitUpload, SetEvent, Goto
<1>11. CASE FinishUpload(r)
  BY <1>11 DEF FinishUpload, Respond, Goto
<1>12. ASSUME NEW o, NEW t \in Targets, NEW i \in Requests, DeleteReference(r, o, t, i)
       PROVE  StepFrame
  BY <1>12 DEF DeleteReference, Refuse, Begin, Respond, Goto
<1>. QED BY <1>1, <1>2, <1>3, <1>4, <1>5, <1>6, <1>7, <1>8, <1>9, <1>10, <1>11, <1>12
  DEF NextRender, UploadPanelReference, UploadCharacterReference, SetCanonicalPanel,
      SetCanonicalCharacter, DeletePanelReference, DeleteCharacterReference, Targets

\* Of a story's or a project's.
LEMMA StoryFrame ==
  ASSUME IInv, answer = [q \in Requests |-> answer[q]], NEW r \in Requests,
         NextStory(r)
  PROVE  StepFrame
<1>. USE DEF IInv, Types, RequestControl, StepFrame, rows, media, call, Live
<1>1. ASSUME NEW s \in Stories, GenerateStory(r, s) PROVE StepFrame
  BY <1>1 DEF GenerateStory, Refuse, OpenEvent, Begin, Respond, Goto
<1>2. CASE StreamEnd(r)
  BY <1>2 DEF StreamEnd, Goto
<1>3. CASE CommitStory(r)
  BY <1>3 DEF CommitStory, FailEvent, SetEvent, Respond, Goto
<1>4. CASE StreamStops(r)
  BY <1>4 DEF StreamStops, Respond, Goto
<1>5. ASSUME NEW p \in Projects, CreateStory(r, p) PROVE StepFrame
  BY <1>5 DEF CreateStory, Unused, Refuse, Begin, Respond, Goto
<1>6. CASE FinishCreateStory(r)
  BY <1>6 DEF FinishCreateStory, Respond, Goto
<1>7. ASSUME NEW s \in Stories, DeleteStory(r, s) PROVE StepFrame
  BY <1>7 DEF DeleteStory, Remove, Cascade, Refuse, Begin, Respond, Goto
<1>8. CASE CreateProject(r)
  BY <1>8 DEF CreateProject, Begin, Respond, Goto
<1>9. ASSUME NEW p \in Projects, DeleteProject(r, p) PROVE StepFrame
  <2>1. CASE Refuse(r, "delete_project", p, "not_found")
    BY <2>1 DEF Refuse, Begin, Respond, Goto
  <2>2. CASE ~Refuse(r, "delete_project", p, "not_found")
    BY <1>9, <2>2 DEF DeleteProject, Remove, Begin, Respond, Goto, RowLife
  <2>. QED BY <2>1, <2>2
<1>10. CASE DefaultProject(r)
  BY <1>10 DEF DefaultProject, Begin, Respond, Goto
<1>11. CASE CreateDefault(r)
  BY <1>11 DEF CreateDefault, Goto
<1>12. CASE FinishDefault(r)
  BY <1>12 DEF FinishDefault, Respond, Goto
<1>. QED BY <1>1, <1>2, <1>3, <1>4, <1>5, <1>6, <1>7, <1>8, <1>9, <1>10, <1>11, <1>12 DEF NextStory

\* A step of the engine.
LEMMA Framed ==
  ASSUME IInv, answer = [q \in Requests |-> answer[q]], [Next]_vars
  PROVE  StepFrame
<1>. USE DEF StepFrame, IInv, Types, RequestControl, Live, rows, media, call
<1>1. ASSUME NEW r \in Requests, ModelFails(r) PROVE StepFrame
  BY <1>1 DEF ModelFails, FailEvent, SetEvent, Respond, Goto
<1>2. ASSUME NEW r \in Requests, Vanish(r) PROVE StepFrame
  BY <1>2 DEF Vanish, Goto
<1>3. CASE UNCHANGED vars
  BY <1>3 DEF vars
<1>. QED BY <1>1, <1>2, <1>3, PanelFrame, CharacterFrame, RenderFrame, StoryFrame
  DEF Next, Quiescent

-----------------------------------------------------------------------------
\* The operations.
LEMMA OpNames ==
  Ops = {"delete_panel", "generate_panel", "refine_panel", "render_panel", "generate_panels",
         "render_panel_edit", "set_canonical_panel", "upload_panel", "delete_panel_reference",
         "extract_characters", "update_character", "refine_character", "delete_character",
         "render_character", "upload_character", "delete_character_reference",
         "render_character_edit", "set_canonical_character", "generate_story", "create_story",
         "delete_story", "create_project", "default_project", "delete_project"}
BY DEF Ops, StatusOf

Success == {200, 201, 204}

\* The codes the endpoints give.
LEMMA StatusCodes ==
  /\ \A o \in Ops : StatusOf[o]["ok"] \in Success /\ StatusOf[o]["other"] = 500
  /\ \A o \in Ops : StatusOf[o]["not_found"] \in {400, 404, 500}
  /\ \A o \in ContentOps \cup {"generate_panels"} : StatusOf[o]["no_characters"] = 422
  /\ StatusOf["generate_panel"]["already_generated"] = 400
  /\ \A o \in {"generate_panels", "extract_characters"} : StatusOf[o]["no_story_text"] = 400
  /\ \A o \in UploadOps : StatusOf[o]["upload"] = 502
  /\ StatusOf["generate_story"]["no_end"] = 0
BY OpNames
DEF StatusOf, Endpoint, Success, ContentOps, UploadOps, DeletePanelStatus, GeneratePanelStatus,
    RefinePanelStatus, RenderPanelStatus, GeneratePanelsStatus, RenderPanelEditStatus,
    SetCanonicalPanelStatus, UploadPanelStatus, DeletePanelReferenceStatus,
    ExtractCharactersStatus, UpdateCharacterStatus, RefineCharacterStatus, DeleteCharacterStatus,
    RenderCharacterStatus, UploadCharacterStatus, DeleteCharacterReferenceStatus,
    RenderCharacterEditStatus, SetCanonicalCharacterStatus, GenerateStoryStatus, CreateStoryStatus,
    DeleteStoryStatus, CreateProjectStatus, DefaultProjectStatus, DeleteProjectStatus

\* What the record of a request says while it has no answer yet.
AnswerControl(r) ==
    /\ op[r] \in Ops \cup {"none"}
    /\ pc[r] # "ready" => op[r] \in Ops
    /\ pc[r] # "done" => answer[r] = None
    /\ pc[r] \in {"purged", "locked", "creating"} => event[r] = "none"
    /\ pc[r] = "model" /\ op[r] \in {"generate_panels", "extract_characters"} => event[r] = "none"
    /\ pc[r] = "committed" => event[r] \in {"none", "succeeded"}
    /\ pc[r] = "committed" /\ op[r] = "default_project" => event[r] = "none"

\* The answer of a request agrees with its record.
Honest(r) == event[r] # "none" /\ answer[r] # None =>
    \/ answer[r] \in {200, 201, 204} <=> event[r] = "succeeded"
    \/ \E x \in Written(r) : ~Live(x)
    \/ op[r] \in UploadOps /\ image[r] = "none"

AnswerType == answer \in [Requests -> Codes \cup {None}] /\ lost \in 0 .. MaxLost

AInv ==
    /\ IInv
    /\ AnswerType
    /\ \A r \in Requests : AnswerControl(r) /\ Honest(r)

\* What the request that takes a step owes to its own record.
Owed(r) ==
    /\ \A q \in Requests : pc'[q] # pc[q] => q = r
    /\ AnswerType'
    /\ AnswerControl(r)'
    /\ Honest(r)'

\* A request that has not begun has no record.
LEMMA ReadyIsBlank ==
  ASSUME AInv, NEW r \in Requests, pc[r] = "ready"
  PROVE  op[r] = "none" /\ event[r] = "none" /\ image[r] = "none" /\ answer[r] = None
BY StoreAssumption DEF AInv, IInv, RequestControl, AnswerControl

\* A check fails.
LEMMA RefuseOwed ==
  ASSUME AInv, NEW r \in Requests, NEW o \in Ops, NEW x, NEW e, Refuse(r, o, x, e),
         StatusOf[o][e] \in Codes
  PROVE  Owed(r)
BY ReadyIsBlank
DEF AInv, AnswerType, IInv, Types, AnswerControl, Honest, Owed, Refuse, Begin, Respond, Goto

\* A request goes on without an answer.
LEMMA GoesOnOwed ==
  ASSUME AInv, NEW r \in Requests, NEW l, Goto(r, l), pc[r] # "done", l # "done",
         UNCHANGED <<answer, lost>>, op'[r] \in Ops,
         l \in {"purged", "locked", "creating"} => event'[r] = "none",
         l = "model" /\ op'[r] \in {"generate_panels", "extract_characters"} => event'[r] = "none",
         l = "committed" => event'[r] \in {"none", "succeeded"},
         l = "committed" /\ op'[r] = "default_project" => event'[r] = "none"
  PROVE  Owed(r)
BY DEF AInv, AnswerType, IInv, Types, AnswerControl, Honest, Owed, Goto

\* An edit event is opened.
LEMMA OpenOwed ==
  ASSUME AInv, NEW r \in Requests, NEW o \in Ops \ {"generate_panels", "extract_characters"},
         NEW x, NEW C, OpenEvent(r, o, x, C)
  PROVE  Owed(r)
BY GoesOnOwed DEF AInv, IInv, Types, OpenEvent, Begin

\* A request is answered.
LEMMA RespondOwed ==
  ASSUME AInv, NEW r \in Requests, NEW o \in Ops, NEW e, Respond(r, o, e), lost' = lost,
         StatusOf[o][e] \in Codes, op'[r] = o,
         \/ event'[r] = "none"
         \/ StatusOf[o][e] \in Success <=> event'[r] = "succeeded"
         \/ \E x \in Written(r)' : ~Live(x)'
         \/ op'[r] \in UploadOps /\ image'[r] = "none"
  PROVE  Owed(r)
BY DEF AInv, AnswerType, IInv, Types, AnswerControl, Honest, Owed, Respond, Goto, Success

\* A transaction is rolled back.
LEMMA AbortOwed ==
  ASSUME AInv, NEW r \in Requests, Abort(r), pc[r] \notin {"ready", "committed", "done"}
  PROVE  Owed(r)
<1>1. op[r] \in Ops /\ event[r] # "succeeded" /\ StatusOf[op[r]]["other"] = 500
  BY StatusCodes DEF AInv, IInv, RequestControl, AnswerControl
<1>. QED BY <1>1, RespondOwed DEF Abort, Codes, Success

\* An event is marked FAILED.
LEMMA FailOwed ==
  ASSUME AInv, NEW r \in Requests, NEW e \in {"other", "not_found"}, FailEvent(r, e),
         UNCHANGED <<op, lost>>, pc[r] # "ready"
  PROVE  Owed(r)
<1>1. /\ op[r] \in Ops /\ StatusOf[op[r]]["other"] = 500
      /\ StatusOf[op[r]]["not_found"] \in {400, 404, 500}
  BY StatusCodes DEF AInv, AnswerControl
<1>2. event'[r] \in {"none", "failed"}
  BY DEF AInv, IInv, Types, FailEvent, SetEvent
<1>. QED BY <1>1, <1>2, RespondOwed DEF FailEvent, Codes, Success

\* The code of an outcome every endpoint has.
LEMMA CommonCodes ==
  ASSUME NEW o \in Ops
  PROVE  /\ StatusOf[o]["ok"] \in Codes \cap Success
         /\ StatusOf[o]["not_found"] \in Codes \ Success
         /\ StatusOf[o]["other"] \in Codes \ Success
BY StatusCodes DEF Codes, Success

\* A panel's steps.
LEMMA PanelOwed ==
  ASSUME AInv, NEW r \in Requests, NextPanel(r)
  PROVE  Owed(r)
<1>. USE OpNames, CommonCodes DEF ContentOps, UploadOps, CanonicalOps, RenderOps, RereadOps
<1>0. pc[r] # "ready" => op[r] \in Ops
  BY DEF AInv, AnswerControl
<1>1. ASSUME NEW s \in Stories, GeneratePanels(r, s) PROVE Owed(r)
  BY <1>1, RefuseOwed, GoesOnOwed, ReadyIsBlank, StatusCodes
  DEF GeneratePanels, Begin, Codes, AInv, IInv, Types
<1>2. ASSUME NEW p \in Panels, GeneratePanel(r, p) \/ RefinePanel(r, p) PROVE Owed(r)
  BY <1>2, RefuseOwed, OpenOwed, StatusCodes DEF GeneratePanel, RefinePanel, Codes
<1>3. ASSUME NEW p \in Panels, DeletePanel(r, p) PROVE Owed(r)
  BY <1>3, RefuseOwed, GoesOnOwed, ReadyIsBlank DEF DeletePanel, Begin, AInv, IInv, Types
<1>4. CASE CommitPanels(r)
  <2>1. CASE Abort(r)
    BY <1>4, <2>1, AbortOwed DEF CommitPanels
  <2>2. CASE ~Abort(r)
    <3>1. /\ Goto(r, "committed") /\ UNCHANGED <<op, answer, lost>>
          /\ event'[r] \in {"none", "succeeded"}
      BY <1>4, <2>2 DEF CommitPanels, SetEvent, AInv, IInv, Types
    <3>. QED BY <1>0, <1>4, <3>1, GoesOnOwed DEF CommitPanels
  <2>. QED BY <2>1, <2>2
<1>5. CASE FinishPanels(r)
  <2>1. event'[r] \in {"none", "succeeded"} /\ Written(r)' = known[r] /\ row' = row
    BY <1>5 DEF FinishPanels, Written, AInv, AnswerControl, rows, call
  <2>. QED BY <1>0, <1>5, <2>1, RespondOwed DEF FinishPanels, Live, call
<1>6. CASE TouchPanel(r)
  BY <1>0, <1>6, AbortOwed, GoesOnOwed DEF TouchPanel
<1>7. CASE DeleteCast(r)
  BY <1>0, <1>7, GoesOnOwed DEF DeleteCast, AInv, AnswerControl
<1>8. CASE CommitContent(r)
  <2>1. CASE Abort(r)
    BY <1>8, <2>1, AbortOwed DEF CommitContent
  <2>2. CASE ~Abort(r)
    <3>1. Goto(r, "committed") /\ UNCHANGED <<op, answer, lost>> /\ event'[r] = "succeeded"
      BY <1>8, <2>2 DEF CommitContent, SetEvent, AInv, IInv, Types
    <3>2. pc[r] = "recast" /\ op[r] \in ContentOps
      BY <1>8 DEF CommitContent, AInv, IInv, RequestControl
    <3>. QED BY <3>1, <3>2, GoesOnOwed
  <2>. QED BY <2>1, <2>2
<1>9. CASE FinishContent(r)
  BY <1>0, <1>9, FailOwed, RespondOwed DEF FinishContent, call, AInv, AnswerControl
<1>10. CASE CommitDeletePanel(r)
  BY <1>0, <1>10, RespondOwed DEF CommitDeletePanel, AInv, AnswerControl
<1>. QED BY <1>1, <1>2, <1>3, <1>4, <1>5, <1>6, <1>7, <1>8, <1>9, <1>10 DEF NextPanel

\* A character's.
LEMMA CharacterOwed ==
  ASSUME AInv, NEW r \in Requests, NextCharacter(r)
  PROVE  Owed(r)
<1>. USE OpNames, CommonCodes DEF ContentOps, UploadOps, CanonicalOps, RenderOps, RereadOps
<1>0. pc[r] # "ready" => op[r] \in Ops
  BY DEF AInv, AnswerControl
<1>1. ASSUME NEW s \in Stories, ExtractCharacters(r, s) PROVE Owed(r)
  BY <1>1, RefuseOwed, GoesOnOwed, ReadyIsBlank, StatusCodes
  DEF ExtractCharacters, Begin, Codes, AInv, IInv,
     Types
<1>2. ASSUME NEW c \in Characters, RefineCharacter(r, c) PROVE Owed(r)
  BY <1>2, RefuseOwed, OpenOwed DEF RefineCharacter
<1>3. ASSUME NEW c \in Characters, UpdateCharacter(r, c) PROVE Owed(r)
  BY <1>3, RefuseOwed, RespondOwed, ReadyIsBlank DEF UpdateCharacter, Begin, AInv, IInv, Types
<1>4. ASSUME NEW c \in Characters, DeleteCharacter(r, c) PROVE Owed(r)
  BY <1>4, RefuseOwed, RespondOwed, ReadyIsBlank DEF DeleteCharacter, Begin, AInv, IInv, Types
<1>5. CASE CommitCharacters(r)
  <2>1. event[r] = "none"
    BY <1>5 DEF CommitCharacters, AInv, AnswerControl
  <2>. QED BY <1>0, <1>5, <2>1, AbortOwed, RespondOwed DEF CommitCharacters, call
<1>6. CASE CommitRefinement(r)
  <2>1. CASE Live(on[r])
    BY <1>0, <1>6, <2>1, GoesOnOwed DEF CommitRefinement, SetEvent, call, AInv, IInv, Types
  <2>2. CASE ~Live(on[r])
    BY <1>6, <2>2, FailOwed DEF CommitRefinement, call
  <2>. QED BY <2>1, <2>2
<1>7. CASE FinishRefinement(r)
  <2>1. CASE Live(on[r])
    BY <1>0, <1>7, <2>1, RespondOwed DEF FinishRefinement, call, AInv, AnswerControl
  <2>2. CASE ~Live(on[r])
    BY <1>7, <2>2, FailOwed DEF FinishRefinement, call
  <2>. QED BY <2>1, <2>2
<1>. QED BY <1>1, <1>2, <1>3, <1>4, <1>5, <1>6, <1>7 DEF NextCharacter

\* An image's.
LEMMA RenderOwed ==
  ASSUME AInv, NEW r \in Requests, NextRender(r)
  PROVE  Owed(r)
<1>. USE OpNames, CommonCodes DEF ContentOps, UploadOps, CanonicalOps, RenderOps, RereadOps
<1>0. pc[r] # "ready" => op[r] \in Ops
  BY DEF AInv, AnswerControl
<1>1. ASSUME NEW t, NEW i, NEW j, RenderPanel(r, t) \/ RenderPanelEdit(r, t, i, j) PROVE Owed(r)
  BY <1>1, RefuseOwed, OpenOwed DEF RenderPanel, RenderPanelEdit
<1>2. ASSUME NEW t, NEW i, NEW j, RenderCharacter(r, t) \/ RenderCharacterEdit(r, t, i, j)
      PROVE  Owed(r)
  BY <1>2, RefuseOwed, OpenOwed DEF RenderCharacter, RenderCharacterEdit
<1>3. CASE StoreRender(r)
  BY <1>0, <1>3, GoesOnOwed DEF StoreRender, call
<1>4. CASE LinkRender(r)
  <2>1. CASE Abort(r)
    BY <1>4, <2>1, AbortOwed DEF LinkRender
  <2>2. CASE Goto(r, "linked") /\ UNCHANGED <<rows, event, media, call, answer, lost>>
    <3>1. pc[r] = "stored" /\ op'[r] = op[r] /\ UNCHANGED <<answer, lost>>
      BY <1>4, <2>2 DEF LinkRender, call
    <3>. QED BY <1>0, <2>2, <3>1, GoesOnOwed
  <2>3. CASE FailEvent(r, "other") /\ UNCHANGED <<call, lost>>
    BY <1>4, <2>3, FailOwed DEF LinkRender, call
  <2>. QED BY <1>4, <2>1, <2>2, <2>3 DEF LinkRender
<1>5. CASE CommitRender(r)
  <2>1. CASE Abort(r)
    BY <1>5, <2>1, AbortOwed DEF CommitRender
  <2>2. CASE ~Abort(r)
    <3>1. pc[r] = "linked" /\ op'[r] = op[r] /\ op[r] \in RenderOps /\ event'[r] = "succeeded"
      BY <1>5, <2>2 DEF CommitRender, SetEvent, call, AInv, IInv, Types, RequestControl
    <3>. QED BY <1>5, <2>2, <3>1, GoesOnOwed DEF CommitRender
  <2>. QED BY <2>1, <2>2
<1>6. CASE FinishRender(r)
  <2>1. CASE FailEvent(r, "other") \/ FailEvent(r, "not_found")
    BY <1>6, <2>1, FailOwed DEF FinishRender, call
  <2>2. CASE Respond(r, op[r], "ok") /\ UNCHANGED event
    BY <1>0, <1>6, <2>2, RespondOwed DEF FinishRender, call, AInv, AnswerControl
  <2>. QED BY <1>6, <2>1, <2>2 DEF FinishRender
<1>7. ASSUME NEW o \in CanonicalOps, NEW t, NEW i, SetCanonical(r, o, t, i) PROVE Owed(r)
  <2>1. CASE \E e \in {"not_found", "other"} : Refuse(r, o, t, e)
    BY <2>1, RefuseOwed
  <2>2. CASE ~\E e \in {"not_found", "other"} : Refuse(r, o, t, e)
    BY <1>7, <2>2, GoesOnOwed DEF SetCanonical, Begin, SetEvent, AInv, IInv, Types
  <2>. QED BY <2>1, <2>2
<1>8. CASE FinishSetCanonical(r)
  <2>1. Written(r)' = {on[r]} /\ row' = row
    BY <1>8 DEF FinishSetCanonical, Written, rows, call
  <2>. QED BY <1>0, <1>8, <2>1, RespondOwed DEF FinishSetCanonical, Live, call, AInv, AnswerControl
<1>9. ASSUME NEW o \in UploadOps, NEW t, Upload(r, o, t) PROVE Owed(r)
  <2>1. StatusOf[o]["upload"] \in Codes
    BY StatusCodes DEF Codes
  <2>2. ASSUME NEW e, Refuse(r, o, t, e), StatusOf[o][e] \in Codes PROVE Owed(r)
    BY <2>2, RefuseOwed
  <2>. QED BY <1>9, <2>1, <2>2, GoesOnOwed DEF Upload, Begin, AInv, IInv, Types
<1>10. CASE CommitUpload(r)
  <2>1. pc[r] = "uploaded" /\ op'[r] = op[r] /\ op[r] \in UploadOps /\ event'[r] = "succeeded"
    BY <1>10 DEF CommitUpload, SetEvent, call, AInv, IInv, Types, RequestControl
  <2>. QED BY <1>10, <2>1, GoesOnOwed DEF CommitUpload
<1>11. CASE FinishUpload(r)
  <2>1. Written(r)' = {on[r]} /\ row' = row /\ image' = image
    BY <1>11 DEF FinishUpload, Written, rows, call, media
  <2>. QED BY <1>0, <1>11, <2>1, RespondOwed DEF FinishUpload, Live, call, AInv, AnswerControl
<1>12. ASSUME NEW o \in {"delete_panel_reference", "delete_character_reference"}, NEW t, NEW i,
              DeleteReference(r, o, t, i)
       PROVE  Owed(r)
  BY <1>12, RefuseOwed, RespondOwed, ReadyIsBlank DEF DeleteReference, Begin, AInv, IInv, Types
<1>. QED BY <1>1, <1>2, <1>3, <1>4, <1>5, <1>6, <1>7, <1>8, <1>9, <1>10, <1>11, <1>12
  DEF NextRender, UploadPanelReference, UploadCharacterReference, SetCanonicalPanel,
      SetCanonicalCharacter, DeletePanelReference, DeleteCharacterReference

\* A story's or a project's.
LEMMA StoryOwed ==
  ASSUME AInv, NEW r \in Requests, NextStory(r)
  PROVE  Owed(r)
<1>. USE OpNames, CommonCodes DEF ContentOps, UploadOps, CanonicalOps, RenderOps, RereadOps
<1>0. pc[r] # "ready" => op[r] \in Ops
  BY DEF AInv, AnswerControl
<1>1. ASSUME NEW s \in Stories, GenerateStory(r, s) PROVE Owed(r)
  BY <1>1, RefuseOwed, OpenOwed DEF GenerateStory
<1>2. ASSUME NEW s \in Stories, DeleteStory(r, s) PROVE Owed(r)
  BY <1>2, RefuseOwed, RespondOwed, ReadyIsBlank DEF DeleteStory, Begin, AInv, IInv, Types
<1>3. ASSUME NEW p \in Projects, CreateStory(r, p) PROVE Owed(r)
  BY <1>3, RefuseOwed, GoesOnOwed, ReadyIsBlank DEF CreateStory, Begin, AInv, IInv, Types
<1>4. ASSUME NEW p \in Projects, DeleteProject(r, p) PROVE Owed(r)
  <2>1. CASE Refuse(r, "delete_project", p, "not_found")
    BY <2>1, RefuseOwed
  <2>2. CASE ~Refuse(r, "delete_project", p, "not_found")
    <3>1. event'[r] = "none" /\ op'[r] = "delete_project"
      BY <1>4, <2>2, ReadyIsBlank DEF DeleteProject, Begin, AInv, IInv, Types
    <3>. QED BY <1>4, <2>2, <3>1, RespondOwed DEF DeleteProject
  <2>. QED BY <2>1, <2>2
<1>5. CASE CreateProject(r)
  BY <1>5, RespondOwed, ReadyIsBlank DEF CreateProject, Begin, AInv, IInv, Types
<1>6. CASE DefaultProject(r)
  BY <1>6, RespondOwed, GoesOnOwed, ReadyIsBlank DEF DefaultProject, Begin, AInv, IInv, Types
<1>7. CASE CreateDefault(r)
  BY <1>0, <1>7, GoesOnOwed DEF CreateDefault, AInv, AnswerControl, IInv, RequestControl
<1>8. CASE FinishDefault(r)
  <2>1. /\ event'[r] = "none" /\ op'[r] = op[r] /\ pc[r] = "committed" /\ lost' = lost
        /\ Respond(r, op[r], "ok") \/ Respond(r, op[r], "other")
    BY <1>8 DEF FinishDefault, call, AInv, AnswerControl
  <2>. QED BY <1>0, <2>1, RespondOwed
<1>9. CASE StreamEnd(r)
  BY <1>0, <1>9, GoesOnOwed DEF StreamEnd, call
<1>10. CASE CommitStory(r)
  <2>1. CASE Live(on[r])
    <3>1. /\ pc[r] = "ended" /\ op'[r] = op[r] /\ event'[r] = "succeeded"
          /\ Respond(r, op[r], "ok") /\ lost' = lost
      BY <1>10, <2>1 DEF CommitStory, SetEvent, call, AInv, IInv, Types
    <3>. QED BY <1>0, <3>1, RespondOwed
  <2>2. CASE ~Live(on[r])
    BY <1>10, <2>2, FailOwed DEF CommitStory, call
  <2>. QED BY <2>1, <2>2
<1>11. CASE StreamStops(r)
  <2>1. event[r] # "succeeded" /\ StatusOf[op[r]]["no_end"] = 0
    BY <1>11, StatusCodes DEF StreamStops, AInv, IInv, RequestControl
  <2>. QED BY <1>0, <1>11, <2>1, RespondOwed DEF StreamStops, call, Codes, Success
<1>12. CASE FinishCreateStory(r)
  <2>1. Written(r)' = {on[r]} /\ row' = row
    BY <1>12 DEF FinishCreateStory, Written, rows, call
  <2>. QED BY <1>0, <1>12, <2>1, RespondOwed DEF FinishCreateStory, Live, call, AInv, AnswerControl
<1>. QED BY <1>1, <1>2, <1>3, <1>4, <1>5, <1>6, <1>7, <1>8, <1>9, <1>10, <1>11, <1>12 DEF NextStory

-----------------------------------------------------------------------------
\* The states the engine starts in satisfy the invariant.
LEMMA InitAInv == Init => AInv
<1>. SUFFICES ASSUME Init PROVE AInv
  OBVIOUS
<1>. QED BY InitIInv, StoreAssumption DEF Init, AInv, AnswerType, AnswerControl, Honest

\* Every step keeps it.  An answer that was true stays true: the record of a success is
\* changed by nobody else, and what has been deleted does not come back.
LEMMA StepAInv == AInv /\ [Next]_vars => AInv'
<1>. SUFFICES ASSUME AInv, [Next]_vars PROVE AInv'
  OBVIOUS
<1>1. IInv'
  BY StepIInv DEF AInv
<1>2. StepFrame
  BY Framed DEF AInv, AnswerType
<1>3. ASSUME NEW q \in Requests, pc'[q] = pc[q] PROVE AnswerControl(q)' /\ Honest(q)'
  <2>1. /\ AnswerControl(q) /\ UNCHANGED <<op[q], on[q], known[q], answer[q]>>
        /\ event'[q] \in {event[q], "none"} /\ image'[q] \in {image[q], "none"}
    BY <1>2, <1>3 DEF AInv, StepFrame
  <2>2. AnswerControl(q)'
    BY <1>3, <2>1 DEF AnswerControl
  <2>3. ASSUME event'[q] # "none", NEW x \in Written(q), ~Live(x) PROVE ~Live(x)'
    <3>1. x \in Rows /\ row[x] # "unused"
      BY <2>1, <2>3 DEF AInv, IInv, Types, RequestControl, Written, Rows, Texts
    <3>. QED BY <1>2, <2>3, <3>1 DEF StepFrame, Live
  <2>4. Written(q)' = Written(q)
    BY <2>1 DEF Written
  <2>5. Honest(q)'
    <3>1. Honest(q)
      BY DEF AInv
    <3>. QED BY <2>1, <2>3, <2>4, <3>1 DEF Honest
  <2>. QED BY <2>2, <2>5
<1>4. ASSUME NEW r \in Requests, Owed(r) PROVE AInv'
  BY <1>1, <1>3, <1>4 DEF AInv, Owed
<1>5. ASSUME NEW r \in Requests, ModelFails(r) PROVE Owed(r)
  BY <1>5, FailOwed DEF ModelFails, call
<1>6. ASSUME NEW r \in Requests, Vanish(r) PROVE Owed(r)
  <2>1. lost' \in 0 .. MaxLost
    BY <1>6, StoreAssumption DEF Vanish, AInv, AnswerType
  <2>. QED BY <1>6, <2>1 DEF Vanish, Goto, Owed, AInv, AnswerType, AnswerControl, Honest, IInv,
       Types
<1>7. CASE UNCHANGED vars
  <2>1. AnswerType' /\ \A q \in Requests : pc'[q] = pc[q]
    BY <1>7 DEF AInv, AnswerType, vars
  <2>. QED BY <1>1, <1>3, <2>1 DEF AInv
<1>. QED BY <1>4, <1>5, <1>6, <1>7, PanelOwed, CharacterOwed, RenderOwed, StoryOwed
  DEF Next, Quiescent

\* The invariant holds in every state of the engine.
LEMMA AnswerInvariance == Spec => []AInv
<1>. QED BY InitAInv, StepAInv, PTL DEF Spec

\* Every variable keeps its type: a label, an operation and a status code are among those
\* the services and the endpoints have.
THEOREM EngineTypes == Spec => []TypeOK
<1>1. AInv => TypeOK
  BY OpNames DEF AInv, IInv, Types, AnswerType, AnswerControl, TypeOK
<1>. QED BY <1>1, AnswerInvariance, PTL

\* A success code is backed by a recorded success and an error code by none, unless what
\* the call wrote has been deleted since.
THEOREM AnswersAgreeWithRecords == Spec => []AnswerIsHonest
<1>1. AInv => AnswerIsHonest
  BY DEF AInv, Honest, AnswerIsHonest
<1>. QED BY <1>1, AnswerInvariance, PTL
=============================================================================
