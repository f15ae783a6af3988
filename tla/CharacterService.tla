-------------------------- MODULE CharacterService --------------------------
(***************************************************************************)
(* service/character_service.py, but for the images (module Renders).      *)
(***************************************************************************)
EXTENDS Renders

\* extract_characters_from_story: no event, and nothing stops a second extraction
\* of the same story.
ExtractCharacters(r, s) ==
    \/ ~Live(s) /\ Refuse(r, "extract_characters", s, "not_found")
    \/ Live(s) /\ content[s] = None /\ Refuse(r, "extract_characters", s, "no_story_text")
    \/ /\ Live(s) /\ content[s] # None
       /\ Begin(r, "extract_characters", s)
       /\ Goto(r, "model")
       /\ UNCHANGED <<rows, event, media, known, cast, deleted, answer, lost>>

CommitCharacters(r) ==
    /\ pc[r] = "model" /\ op[r] = "extract_characters"
    /\ \E C \in SUBSET Unused(Characters, on[r]) :
        \/ C # {} /\ ~Live(on[r]) /\ Abort(r)
        \/ /\ C # {} => Live(on[r])
           /\ row' = [x \in Rows |-> IF x \in C THEN "live" ELSE row[x]]
           /\ content' = [x \in Texts |-> IF x \in C THEN r ELSE content[x]]
           /\ Respond(r, op[r], "ok")
           /\ UNCHANGED <<source, canonical, joins, event, media, call, lost>>

\* refine_character: the stored attributes are what the model is given.
RefineCharacter(r, c) ==
    \/ ~Live(c) /\ Refuse(r, "refine_character", c, "not_found")
    \/ Live(c) /\ OpenEvent(r, "refine_character", c, {})

\* TX2 is a savepoint: attributes, name, slug and the event's outcome, or none of it.
CommitRefinement(r) ==
    /\ pc[r] = "model" /\ op[r] = "refine_character"
    /\ \/ /\ ~Live(on[r])
          /\ FailEvent(r, "other")
          /\ UNCHANGED <<rows, media, call, lost>>
       \/ /\ Live(on[r])
          /\ content' = [content EXCEPT ![on[r]] = r]
          /\ source' = [source EXCEPT ![on[r]] = r]
          /\ SetEvent(r, "succeeded")
          /\ Goto(r, "committed")
          /\ UNCHANGED <<row, canonical, joins, media, call, answer, lost>>

FinishRefinement(r) ==
    /\ pc[r] = "committed" /\ op[r] = "refine_character"
    /\ \/ Live(on[r]) /\ Respond(r, op[r], "ok") /\ UNCHANGED event
       \/ ~Live(on[r]) /\ FailEvent(r, "not_found")
    /\ UNCHANGED <<rows, media, call, lost>>

\* update_character merges the fields of the request; source_event_id stays.
UpdateCharacter(r, c) ==
    \/ ~Live(c) /\ Refuse(r, "update_character", c, "not_found")
    \/ /\ Live(c)
       /\ Begin(r, "update_character", c)
       /\ content' = [content EXCEPT ![c] = r]
       /\ Respond(r, "update_character", "ok")
       /\ UNCHANGED <<row, source, canonical, joins, event, media, known, cast, deleted, lost>>

\* delete_character: join rows go with it, images stay.
DeleteCharacter(r, c) ==
    \/ ~Live(c) /\ Refuse(r, "delete_character", c, "not_found")
    \/ /\ Live(c)
       /\ Begin(r, "delete_character", c)
       /\ Remove({c})
       /\ Respond(r, "delete_character", "ok")
       /\ UNCHANGED <<event, media, known, cast, deleted, lost>>

NextCharacter(r) ==
    \/ \E s \in Stories : ExtractCharacters(r, s)
    \/ \E c \in Characters : RefineCharacter(r, c) \/ UpdateCharacter(r, c) \/ DeleteCharacter(r, c)
    \/ CommitCharacters(r) \/ CommitRefinement(r) \/ FinishRefinement(r)
=============================================================================
