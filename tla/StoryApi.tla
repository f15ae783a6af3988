------------------------------- MODULE StoryApi -------------------------------
(***************************************************************************)
(* The endpoints of core/story_engine/api that change state: the status    *)
(* code each gives to what its service returns or raises.  "ok" is the     *)
(* decorator's status_code, "not_found" the service's NotFoundError (the   *)
(* repositories have an exception of the same name that no endpoint        *)
(* catches), "other" any exception without a clause of its own.            *)
(***************************************************************************)
EXTENDS Integers

Endpoint(ok, not_found) == [ok |-> ok, not_found |-> not_found, other |-> 500]

DeletePanelStatus == Endpoint(204, 404)
GeneratePanelStatus ==
    [ok |-> 200, not_found |-> 404, other |-> 500, already_generated |-> 400, no_characters |-> 422]
RefinePanelStatus == [ok |-> 200, not_found |-> 404, other |-> 500, no_characters |-> 422]
RenderPanelStatus == Endpoint(200, 404)
GeneratePanelsStatus ==
    [ok |-> 201, not_found |-> 404, other |-> 500, no_story_text |-> 400, no_characters |-> 422]
RenderPanelEditStatus == Endpoint(201, 404)
SetCanonicalPanelStatus == Endpoint(200, 404)
\* Mutant: the bucket's refusal answered with a code of its own.
UploadPanelStatus_Conflict == [ok |-> 201, not_found |-> 404, other |-> 500, upload |-> 409]

UploadPanelStatus == [ok |-> 201, not_found |-> 404, other |-> 500, upload |-> 502]
DeletePanelReferenceStatus == Endpoint(204, 404)

ExtractCharactersStatus == [ok |-> 201, not_found |-> 404, other |-> 500, no_story_text |-> 400]
UpdateCharacterStatus == Endpoint(200, 404)
RefineCharacterStatus == Endpoint(200, 404)
DeleteCharacterStatus == Endpoint(204, 404)
RenderCharacterStatus == Endpoint(200, 404)
UploadCharacterStatus == [ok |-> 201, not_found |-> 404, other |-> 500, upload |-> 502]
DeleteCharacterReferenceStatus == Endpoint(204, 404)
RenderCharacterEditStatus == Endpoint(201, 404)
SetCanonicalCharacterStatus == Endpoint(200, 404)

\* A streamed response has its 200 before the model is called: what stands for its
\* outcome is the last line of the stream, stream.end (200) or stream.error (500);
\* a stream that the model's provider closes early has neither.
GenerateStoryStatus == [ok |-> 200, not_found |-> 400, other |-> 500, no_end |-> 0]

CreateStoryStatus == Endpoint(200, 500)    \* nothing is caught: the foreign key fails
DeleteStoryStatus == Endpoint(204, 404)
CreateProjectStatus == Endpoint(200, 500)
DefaultProjectStatus == Endpoint(200, 500) \* "Never returns 404"
DeleteProjectStatus == Endpoint(204, 404)

StatusOf ==
    [delete_panel |-> DeletePanelStatus,
     generate_panel |-> GeneratePanelStatus,
     refine_panel |-> RefinePanelStatus,
     render_panel |-> RenderPanelStatus,
     generate_panels |-> GeneratePanelsStatus,
     render_panel_edit |-> RenderPanelEditStatus,
     set_canonical_panel |-> SetCanonicalPanelStatus,
     upload_panel |-> UploadPanelStatus,
     delete_panel_reference |-> DeletePanelReferenceStatus,
     extract_characters |-> ExtractCharactersStatus,
     update_character |-> UpdateCharacterStatus,
     refine_character |-> RefineCharacterStatus,
     delete_character |-> DeleteCharacterStatus,
     render_character |-> RenderCharacterStatus,
     upload_character |-> UploadCharacterStatus,
     delete_character_reference |-> DeleteCharacterReferenceStatus,
     render_character_edit |-> RenderCharacterEditStatus,
     set_canonical_character |-> SetCanonicalCharacterStatus,
     generate_story |-> GenerateStoryStatus,
     create_story |-> CreateStoryStatus,
     delete_story |-> DeleteStoryStatus,
     create_project |-> CreateProjectStatus,
     default_project |-> DefaultProjectStatus,
     delete_project |-> DeleteProjectStatus]

Ops == DOMAIN StatusOf
Codes == {0, 200, 201, 204, 400, 404, 422, 500, 502}
=============================================================================
