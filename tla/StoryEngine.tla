----------------------------- MODULE StoryEngine -----------------------------
(***************************************************************************)
(* The story engine: any requests, of any operation, concurrently.         *)
(***************************************************************************)
EXTENDS PanelService, CharacterService, StoryService

\* All calls are answered.
Quiescent == (\A r \in Requests : pc[r] = "done") /\ UNCHANGED vars

Next ==
    \/ \E r \in Requests :
        \/ NextPanel(r) \/ NextCharacter(r) \/ NextRender(r) \/ NextStory(r)
        \/ ModelFails(r) \/ Vanish(r)
    \/ Quiescent

Spec == Init /\ [][Next]_vars

-----------------------------------------------------------------------------
TypeOK ==
    /\ row \in [Rows -> RowLife]
    /\ content \in [Texts -> Requests \cup {Given, None}]
    /\ source \in [Texts -> Requests \cup {None}]
    /\ canonical \in [Targets -> Requests \cup {None}]
    /\ joins \subseteq Joins
    /\ event \in [Requests -> EditEventStatus \cup {"none"}]
    /\ image \in [Requests -> ImageDiscriminator \cup {"none"}]
    /\ blobs \subseteq Requests
    /\ op \in [Requests -> Ops \cup {"none"}]
    /\ on \in [Requests -> Rows \cup {None}]
    /\ known \in [Requests -> SUBSET Targets]
    /\ cast \in [Requests -> SUBSET Joins]
    /\ deleted \in [Requests -> SUBSET (Joins \cup Requests)]
    /\ pc \in [Requests -> PC]
    /\ answer \in [Requests -> Codes \cup {None}]
    /\ lost \in 0 .. MaxLost

\* What a live row's source_event_id names is a success, and unless the row is a
\* character, which is also edited by hand, it is what wrote the text that is there.
ContentIsAudited ==
    \A x \in Texts :
        /\ source[x] # None => event[source[x]] = "succeeded"
        /\ x \notin Characters /\ content[x] # Given => source[x] = content[x]

\* The join rows of a panel are those of the answer its content came from, less the
\* characters deleted since: two refinements of a panel never mix (the row lock
\* that the autoflushed UPDATE takes before the old join rows are read).
CastMatchesContent ==
    \A p \in Panels : content[p] \in Requests =>
        {j \in joins : j[1] = p} = {j \in cast[content[p]] : j[1] = p /\ Live(j[2])}

\* A canonical pointer names a render of that very row, committed by an edit that
\* succeeded, whose object is in the bucket.
CanonicalIsOwnRender ==
    \A t \in Targets : canonical[t] # None =>
        LET i == canonical[t]
        IN image[i] = "render" /\ on[i] = t /\ event[i] = "succeeded" /\ i \in blobs

\* A panel or character with renders points at one: the fallback to the newest is
\* for rows that have none.
RendersAreCanonicalised ==
    \A t \in Targets : Live(t) /\ ImagesOf(t, "render") # {} => canonical[t] # None

\* An edit recorded as a success has an image as long as its target is there, and
\* until a reference is deleted by hand; an image row has its object in the bucket
\* and, unless its target has been deleted, a success of its own.
ImagesAreAccounted ==
    \A r \in Requests :
        /\ event[r] = "succeeded" /\ op[r] \in RenderOps /\ Live(on[r]) => image[r] = "render"
        /\ image[r] # "none" =>
            r \in blobs /\ (event[r] = "succeeded" \/ row[on[r]] = "gone")

\* The rows a call was to write.
Written(r) == IF op[r] = "generate_panels" THEN known[r] ELSE {on[r]}

\* A client told of success can rely on the record of it, and a client told of an
\* error finds no success recorded, unless what it wrote was deleted meanwhile.
AnswerIsHonest ==
    \A r \in Requests : event[r] # "none" /\ answer[r] # None =>
        \/ answer[r] \in {200, 201, 204} <=> event[r] = "succeeded"
        \/ \E x \in Written(r) : ~Live(x)
        \/ op[r] \in UploadOps /\ image[r] = "none"

\* Edits as their events tell them.  An image counts while its target is there.
Standing ==
    ({source[x] : x \in Texts} \ {None})
    \cup {r \in Requests : image[r] # "none" /\ Live(on[r])}
    \cup {r \in Requests : op[r] \in CanonicalOps /\ event[r] = "succeeded" /\ Live(on[r])}

Log == INSTANCE EditLog WITH Edits <- Requests, outcome <- event, standing <- Standing

\* The services implement the edit log: what an edit does to the rows happens once,
\* together with the record of its success, and a failed edit leaves nothing.
ImplementsEditLog == Log!Spec

\* "TX2: persist image row, set canonical, complete edit event atomically"
\* (character_service.py:551): a render that has an image row has succeeded.
RenderIsAtomic ==
    \A r \in Requests : op[r] \in RenderOps /\ image[r] # "none" => event[r] = "succeeded"
=============================================================================
