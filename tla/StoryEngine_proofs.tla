--------------------------- MODULE StoryEngine_proofs ---------------------------
(***************************************************************************)
(* Proofs about the story engine, for every number of requests and rows    *)
(* and every tree of projects, stories, characters and panels.  The        *)
(* inductive invariant says what a request has written by the time it      *)
(* reaches a label, that one request at a time holds a panel, and whose    *)
(* work the rows still show.  Answers and their codes are not part of it.  *)
(***************************************************************************)
EXTENDS StoryEngine, TLAPS

Types ==
    /\ row \in [Rows -> RowLife]
    /\ content \in [Texts -> Requests \cup {Given, None}]
    /\ source \in [Texts -> Requests \cup {None}]
    /\ canonical \in [Targets -> Requests \cup {None}]
    /\ joins \subseteq Joins
    /\ event \in [Requests -> EditEventStatus \cup {"none"}]
    /\ image \in [Requests -> ImageDiscriminator \cup {"none"}]
    /\ blobs \subseteq Requests
    /\ op = [r \in Requests |-> op[r]]
    /\ on \in [Requests -> Rows \cup {None}]
    /\ known \in [Requests -> SUBSET Targets]
    /\ cast \in [Requests -> SUBSET Joins]
    /\ deleted \in [Requests -> SUBSET (Joins \cup Requests)]
    /\ pc \in [Requests -> PC]

ImageOps == RenderOps \cup UploadOps
WriterOps == ContentOps \cup {"generate_panels", "refine_character", "generate_story"}

\* The kind of row an operation is about.
Fits(o, x) ==
    /\ o \in ImageOps \cup CanonicalOps => x \in Targets
    /\ o \in ContentOps \cup {"delete_panel"} => x \in Panels
    /\ o = "refine_character" => x \in Characters
    /\ o \in {"generate_panels", "extract_characters", "generate_story"} => x \in Stories

Holding == {"touched", "recast", "locked"}

\* What a request has written, and what it may rely on, at each label.
RequestControl(r) ==
    /\ pc[r] = "ready" => op[r] = "none" /\ on[r] = None
    /\ pc[r] = "creating" => op[r] = "default_project" /\ on[r] = None
    /\ pc[r] \in {"ready", "model"} => known[r] \subseteq Characters
    /\ Fits(op[r], on[r])
    /\ pc[r] \notin {"committed", "done"} => image[r] = "none" /\ event[r] \in {"none", "pending"}
    /\ pc[r] \in {"stored", "linked"} => r \in blobs /\ op[r] \in RenderOps
    /\ pc[r] = "uploaded" => r \in blobs /\ op[r] \in UploadOps
    /\ pc[r] \in {"touched", "recast"} =>
         /\ op[r] \in ContentOps
         /\ \A j \in cast[r] : j[1] = on[r]
    /\ pc[r] = "recast" => /\ \A j \in joins : j[1] = on[r] => j \in deleted[r]
                           /\ \A j \in deleted[r] : j[1] = on[r]
    /\ \A k \in known[r] : row[k] # "unused"
    /\ \A j \in cast[r] : row[j[2]] # "unused"
    /\ pc[r] = "ended" => op[r] = "generate_story"
    /\ pc[r] \in {"purged", "locked"} =>
         /\ op[r] = "delete_panel"
         /\ \A i \in deleted[r] : i \in Requests /\ on[i] = on[r]
    /\ pc[r] \in Holding => Live(on[r])
    /\ \/ pc[r] \notin {"ready", "done", "creating"} /\ op[r] # "default_project"
       \/ event[r] # "none" \/ image[r] # "none"
       => on[r] \in Rows /\ row[on[r]] # "unused"
    /\ image[r] = "render" => op[r] \in RenderOps
    /\ image[r] = "reference" => op[r] \in UploadOps

\* One request at a time holds a panel.
Exclusive ==
    \A r, q \in Requests : pc[r] \in Holding /\ pc[q] \in Holding /\ on[r] = on[q] => r = q

\* Only live rows show work and take part in joins.
RowControl ==
    /\ \A x \in Texts : source[x] # None =>
         LET q == source[x] IN
         /\ Live(x)
         /\ pc[q] \in {"committed", "done"}
         /\ op[q] \in WriterOps
         /\ op[q] # "generate_panels" => on[q] = x
         /\ op[q] = "generate_panels" => x \in Panels /\ on[q] = Parent[x]
    /\ \A t \in Targets : canonical[t] # None => Live(t)
    /\ \A j \in joins : Live(j[1]) /\ Live(j[2])

IInv ==
    /\ Types
    /\ \A r \in Requests : RequestControl(r)
    /\ Exclusive
    /\ RowControl
    /\ ContentIsAudited
    /\ CastMatchesContent
    /\ CanonicalIsOwnRender
    /\ RendersAreCanonicalised
    /\ ImagesAreAccounted

-----------------------------------------------------------------------------
\* Deleting rows keeps the types.
LEMMA RemoveTypes ==
  ASSUME Types, NEW X \in SUBSET Rows, Remove(X)
  PROVE  /\ row' \in [Rows -> RowLife]
         /\ content' \in [Texts -> Requests \cup {Given, None}]
         /\ source' \in [Texts -> Requests \cup {None}]
         /\ canonical' \in [Targets -> Requests \cup {None}]
         /\ joins' \subseteq Joins
<1>1. joins' \subseteq joins
  BY DEF Remove
<1>. QED BY <1>1 DEF Remove, Types, RowLife

\* A check fails.
LEMMA RefuseStep ==
  ASSUME IInv, NEW r \in Requests, NEW o, NEW x \in Rows, NEW e,
         Fits(o, x),
         Refuse(r, o, x, e)
  PROVE  IInv'
<1>1. Types'
  BY DEF IInv, Types, RequestControl, PC, RowLife, EditEventStatus, ImageDiscriminator, Refuse,
     Begin, Respond, Goto, rows, media
<1>2. \A q \in Requests : RequestControl(q)'
  BY StoreAssumption DEF IInv, Types, RequestControl, Holding, Live, Refuse, Begin, Respond, Goto,
     rows, media
<1>3. Exclusive'
  BY DEF IInv, Holding, Exclusive, Refuse, Begin, Respond, Goto
<1>4. RowControl'
  BY StoreAssumption DEF IInv, Rows, Texts, Targets, Live, RowControl, Refuse, Begin, Respond, Goto,
     rows
<1>5. ContentIsAudited'
  BY DEF IInv, ContentIsAudited, Refuse, Begin, rows
<1>6. CastMatchesContent'
  BY DEF IInv, Live, CastMatchesContent, Refuse, Begin, rows
<1>7. CanonicalIsOwnRender'
  BY DEF IInv, RequestControl, CanonicalIsOwnRender, Refuse, Begin, rows, media
<1>8. RendersAreCanonicalised'
  BY DEF IInv, RequestControl, Live, RendersAreCanonicalised, ImagesOf, Refuse, Begin, rows, media
<1>9. ImagesAreAccounted'
  BY DEF IInv, RequestControl, Live, ImagesAreAccounted, Refuse, Begin, rows, media
<1>. QED BY <1>1, <1>2, <1>3, <1>4, <1>5, <1>6, <1>7, <1>8, <1>9 DEF IInv

\* An edit event is opened.
LEMMA OpenEventStep ==
  ASSUME IInv, NEW r \in Requests, NEW o, NEW x \in Texts, NEW C \in SUBSET Characters,
         Fits(o, x),
         Live(x),
         \A k \in C : Live(k),
         o # "default_project",
         OpenEvent(r, o, x, C)
  PROVE  IInv'
<1>1. Types'
  BY DEF IInv, Types, RequestControl, Rows, Texts, Targets, PC, RowLife, EditEventStatus,
     ImageDiscriminator, OpenEvent, Begin, Goto, rows, media
<1>2. \A q \in Requests : RequestControl(q)'
  BY StoreAssumption DEF IInv, Types, RequestControl, Rows, Texts, Targets, Live, OpenEvent, Begin,
     Goto, rows, media
<1>3. Exclusive'
  BY DEF IInv, Holding, Exclusive, OpenEvent, Begin, Goto
<1>4. RowControl'
  BY StoreAssumption DEF IInv, Rows, Texts, Targets, Live, RowControl, OpenEvent, Begin, Goto, rows
<1>5. ContentIsAudited'
  BY DEF IInv, RequestControl, ContentIsAudited, OpenEvent, Begin, rows
<1>6. CastMatchesContent'
  BY DEF IInv, Live, CastMatchesContent, OpenEvent, Begin, rows
<1>7. CanonicalIsOwnRender'
  BY DEF IInv, RequestControl, CanonicalIsOwnRender, OpenEvent, Begin, rows, media
<1>8. RendersAreCanonicalised'
  BY DEF IInv, RequestControl, Live, RendersAreCanonicalised, ImagesOf, OpenEvent, Begin, rows,
     media
<1>9. ImagesAreAccounted'
  BY DEF IInv, RequestControl, Live, ImagesAreAccounted, OpenEvent, Begin, rows, media
<1>. QED BY <1>1, <1>2, <1>3, <1>4, <1>5, <1>6, <1>7, <1>8, <1>9 DEF IInv

\* The model is called without one.
LEMMA AskModelStep ==
  ASSUME IInv, NEW r \in Requests, NEW o \in {"generate_panels", "extract_characters"}, NEW x \in
         Stories, NEW C \in SUBSET Characters,
         Live(x),
         \A k \in C : Live(k),
         Begin(r, o, x),
         Goto(r, "model"),
         known' \in {known, [known EXCEPT ![r] = C]},
         UNCHANGED <<rows, event, media, cast, deleted>>
  PROVE  IInv'
<1>1. Types'
  BY DEF IInv, Types, RequestControl, Rows, Texts, Targets, PC, RowLife, EditEventStatus,
     ImageDiscriminator, Begin, Goto, rows, media
<1>2. \A q \in Requests : RequestControl(q)'
  BY StoreAssumption DEF IInv, Types, RequestControl, Fits, ImageOps, WriterOps, ContentOps,
     RereadOps, RenderOps, UploadOps, CanonicalOps, Rows, Texts, Targets, Live, Begin, Goto, rows,
     media
<1>3. Exclusive'
  BY DEF IInv, Holding, Exclusive, Begin, Goto
<1>4. RowControl'
  BY StoreAssumption DEF IInv, Rows, Texts, Targets, Live, RowControl, Begin, Goto, rows
<1>5. ContentIsAudited'
  BY DEF IInv, ContentIsAudited, Begin, rows
<1>6. CastMatchesContent'
  BY DEF IInv, Live, CastMatchesContent, Begin, rows
<1>7. CanonicalIsOwnRender'
  BY DEF IInv, RequestControl, CanonicalIsOwnRender, Begin, rows, media
<1>8. RendersAreCanonicalised'
  BY DEF IInv, RequestControl, Live, RendersAreCanonicalised, ImagesOf, Begin, rows, media
<1>9. ImagesAreAccounted'
  BY DEF IInv, RequestControl, Live, ImagesAreAccounted, Begin, rows, media
<1>. QED BY <1>1, <1>2, <1>3, <1>4, <1>5, <1>6, <1>7, <1>8, <1>9 DEF IInv

\* A request ends with the rows as they are.
LEMMA EndStep ==
  ASSUME IInv, NEW r \in Requests,
         pc[r] # "ready",
         pc' = [pc EXCEPT ![r] = "done"],
         cast' \in {cast, [cast EXCEPT ![r] = {}]},
         pc[r] \in {"committed", "done"} => cast' = cast,
         deleted' \in {deleted, [deleted EXCEPT ![r] = {}]},
         UNCHANGED <<rows, event, image, blobs, op, on, known>>
  PROVE  IInv'
<1>1. Types'
  BY DEF IInv, Types, PC, RowLife, EditEventStatus, ImageDiscriminator, rows
<1>2. \A q \in Requests : RequestControl(q)'
  BY DEF IInv, Types, RequestControl, Holding, Live, rows
<1>3. Exclusive'
  BY DEF IInv, Holding, Exclusive
<1>4. RowControl'
  BY StoreAssumption DEF IInv, Rows, Texts, Targets, Live, RowControl, rows
<1>5. ContentIsAudited'
  BY DEF IInv, ContentIsAudited, rows
<1>6. CastMatchesContent'
  BY StoreAssumption DEF IInv, Types, RequestControl, Rows, Texts, Targets, Live, ContentIsAudited,
     CastMatchesContent, rows
<1>7. CanonicalIsOwnRender'
  BY DEF IInv, CanonicalIsOwnRender, rows
<1>8. RendersAreCanonicalised'
  BY DEF IInv, Live, RendersAreCanonicalised, ImagesOf, rows
<1>9. ImagesAreAccounted'
  BY DEF IInv, Live, ImagesAreAccounted, rows
<1>. QED BY <1>1, <1>2, <1>3, <1>4, <1>5, <1>6, <1>7, <1>8, <1>9 DEF IInv

\* An event is marked FAILED: what it wrote has gone.
LEMMA FailEventStep ==
  ASSUME IInv, NEW r \in Requests, NEW e,
         pc[r] # "ready",
         image[r] = "none" \/ ~Live(on[r]),
         event[r] = "succeeded" => ~Live(on[r]) /\ op[r] # "generate_panels",
         FailEvent(r, e),
         UNCHANGED <<rows, media, call>>
  PROVE  IInv'
<1>1. Types'
  BY DEF IInv, Types, PC, RowLife, EditEventStatus, ImageDiscriminator, FailEvent, SetEvent,
     Respond, Goto, rows, media, call
<1>2. \A q \in Requests : RequestControl(q)'
  BY DEF IInv, Types, RequestControl, Holding, Live, FailEvent, SetEvent, Respond, Goto, rows,
     media, call
<1>3. Exclusive'
  BY DEF IInv, Holding, Exclusive, FailEvent, SetEvent, Respond, Goto, media, call
<1>4. RowControl'
  BY StoreAssumption DEF IInv, Rows, Texts, Targets, Live, RowControl, FailEvent, SetEvent, Respond,
     Goto, rows, media, call
<1>5. ContentIsAudited'
  BY StoreAssumption DEF IInv, Rows, Texts, Targets, Live, RowControl, ContentIsAudited, FailEvent,
     SetEvent, Respond, Goto, rows
<1>6. CastMatchesContent'
  BY DEF IInv, Live, CastMatchesContent, FailEvent, rows, media, call
<1>7. CanonicalIsOwnRender'
  BY DEF IInv, RowControl, CanonicalIsOwnRender, FailEvent, SetEvent, Respond, Goto, rows, media,
     call
<1>8. RendersAreCanonicalised'
  BY DEF IInv, Live, RendersAreCanonicalised, ImagesOf, FailEvent, rows, media, call
<1>9. ImagesAreAccounted'
  BY DEF IInv, Types, RequestControl, PC, RowLife, EditEventStatus, ImageDiscriminator, Live,
     ImagesAreAccounted, FailEvent, SetEvent, Respond, Goto, rows, media, call
<1>. QED BY <1>1, <1>2, <1>3, <1>4, <1>5, <1>6, <1>7, <1>8, <1>9 DEF IInv

\* Panels are committed.
LEMMA CommitPanelsStep ==
  ASSUME IInv, NEW r \in Requests,
         CommitPanels(r),
         ~Abort(r)
  PROVE  IInv'
<1>1. Types'
  <2>0. PICK P \in SUBSET Unused(Panels, on[r]) : \E members \in Memberships(r, P) :
             /\ row' = [x \in Rows |-> IF x \in P THEN "live" ELSE row[x]]
             /\ content' = [x \in Texts |-> IF x \in P THEN r ELSE content[x]]
             /\ source' = [x \in Texts |-> IF x \in P THEN r ELSE source[x]]
             /\ joins' = joins \cup members
             /\ cast' = [cast EXCEPT ![r] = members]
             /\ known' = [known EXCEPT ![r] = P]
             /\ SetEvent(r, IF P = {} THEN "none" ELSE "succeeded")
             /\ Goto(r, "committed")
             /\ UNCHANGED <<canonical, media, op, on, deleted>>
    BY DEF CommitPanels
  <2>1. PICK members \in Memberships(r, P) :
             /\ row' = [x \in Rows |-> IF x \in P THEN "live" ELSE row[x]]
             /\ content' = [x \in Texts |-> IF x \in P THEN r ELSE content[x]]
             /\ source' = [x \in Texts |-> IF x \in P THEN r ELSE source[x]]
             /\ joins' = joins \cup members
             /\ cast' = [cast EXCEPT ![r] = members]
             /\ known' = [known EXCEPT ![r] = P]
             /\ SetEvent(r, IF P = {} THEN "none" ELSE "succeeded")
             /\ Goto(r, "committed")
             /\ UNCHANGED <<canonical, media, op, on, deleted>>
    BY <2>0
  <2>. USE DEF IInv, Types
  <2>2. P \subseteq Panels /\ members \subseteq Joins
    BY <2>1 DEF Unused, Memberships, Joins, RequestControl, CommitPanels
  <2>3. row' \in [Rows -> RowLife] /\ content' \in [Texts -> Requests \cup {Given, None}]
        /\ source' \in [Texts -> Requests \cup {None}]
    BY <2>1 DEF RowLife
  <2>4. joins' \subseteq Joins /\ cast' \in [Requests -> SUBSET Joins]
        /\ known' \in [Requests -> SUBSET Targets]
    BY <2>1, <2>2 DEF Targets
  <2>5. event' \in [Requests -> EditEventStatus \cup {"none"}] /\ pc' \in [Requests -> PC]
    BY <2>1 DEF SetEvent, Goto, EditEventStatus, PC
  <2>. QED BY <2>1, <2>3, <2>4, <2>5 DEF media
<1>2. \A q \in Requests : RequestControl(q)'
  BY DEF IInv, Types, RequestControl, Fits, ImageOps, WriterOps, Holding, Rows, Texts, Targets,
     Joins, Live, CommitPanels, Memberships, Unused, SetEvent, Goto, media
<1>3. Exclusive'
  BY DEF IInv, Types, Holding, Exclusive, CommitPanels, Memberships, Unused, SetEvent, Goto
<1>4. RowControl'
  BY StoreAssumption, SMTT(30)
  DEF IInv, Types, Fits, ImageOps, WriterOps, Holding, Rows, Texts, Targets, Joins, PC, RowLife,
      EditEventStatus, ImageDiscriminator, Live, RowControl, CommitPanels, Memberships, Unused,
      SetEvent, Goto
<1>5. ContentIsAudited'
  BY DEF IInv, Types, RequestControl, ContentIsAudited, CommitPanels, Memberships, Unused, SetEvent,
     Goto
<1>6. CastMatchesContent'
  BY StoreAssumption DEF IInv, Types, Rows, Texts, Targets, Joins, Live, RowControl,
     ContentIsAudited, CastMatchesContent, CommitPanels, Memberships, Unused
<1>7. CanonicalIsOwnRender'
  BY DEF IInv, Types, RequestControl, CanonicalIsOwnRender, CommitPanels, Memberships, Unused,
     SetEvent, Goto, media
<1>8. RendersAreCanonicalised'
  BY DEF IInv, RequestControl, Live, RendersAreCanonicalised, ImagesOf, CommitPanels, Memberships,
     Unused, media
<1>9. ImagesAreAccounted'
  BY DEF IInv, Types, RequestControl, ContentOps, RereadOps, RenderOps, UploadOps, CanonicalOps,
     Live, ImagesAreAccounted, CommitPanels, Memberships, Unused, SetEvent, Goto, media
<1>. QED BY <1>1, <1>2, <1>3, <1>4, <1>5, <1>6, <1>7, <1>8, <1>9 DEF IInv

\* A panel is locked by its update.
LEMMA TouchPanelStep ==
  ASSUME IInv, NEW r \in Requests,
         TouchPanel(r),
         ~Abort(r)
  PROVE  IInv'
<1>1. Types'
  <2>. USE DEF IInv, Types
  <2>1. PICK C \in Casts(r) : cast' = [cast EXCEPT ![r] = {on[r]} \X C]
    BY DEF TouchPanel
  <2>2. on[r] \in Panels /\ C \subseteq Characters
    BY <2>1 DEF TouchPanel, RequestControl, Fits, ContentOps, Casts
  <2>3. cast' \in [Requests -> SUBSET Joins]
    BY <2>1, <2>2 DEF Joins
  <2>4. pc' \in [Requests -> PC]
    BY DEF TouchPanel, Goto, PC
  <2>. QED BY <2>3, <2>4 DEF TouchPanel, rows, media
<1>2. \A q \in Requests : RequestControl(q)'
  BY DEF IInv, Types, RequestControl, Live, TouchPanel, PanelLocked, Casts, Goto, rows, media
<1>3. Exclusive'
  BY DEF IInv, Types, Holding, Exclusive, TouchPanel, PanelLocked, Casts, Goto
<1>4. RowControl'
  BY StoreAssumption DEF IInv, Types, Rows, Texts, Targets, Live, RowControl, TouchPanel,
     PanelLocked, Casts, Goto, rows
<1>5. ContentIsAudited'
  BY DEF IInv, ContentIsAudited, TouchPanel, PanelLocked, Casts, rows
<1>6. CastMatchesContent'
  BY StoreAssumption DEF IInv, Types, RequestControl, Rows, Texts, Targets, Live, ContentIsAudited,
     CastMatchesContent, TouchPanel, PanelLocked, Casts, rows
<1>7. CanonicalIsOwnRender'
  BY DEF IInv, CanonicalIsOwnRender, TouchPanel, PanelLocked, Casts, rows, media
<1>8. RendersAreCanonicalised'
  BY DEF IInv, Live, RendersAreCanonicalised, ImagesOf, TouchPanel, PanelLocked, Casts, rows, media
<1>9. ImagesAreAccounted'
  BY DEF IInv, Live, ImagesAreAccounted, TouchPanel, PanelLocked, Casts, rows, media
<1>. QED BY <1>1, <1>2, <1>3, <1>4, <1>5, <1>6, <1>7, <1>8, <1>9 DEF IInv

\* Its join rows are deleted.
LEMMA DeleteCastStep ==
  ASSUME IInv, NEW r \in Requests,
         DeleteCast(r)
  PROVE  IInv'
<1>1. Types'
  BY DEF IInv, Types, PC, RowLife, EditEventStatus, ImageDiscriminator, DeleteCast, Goto, rows,
     media
<1>2. \A q \in Requests : RequestControl(q)'
  BY DEF IInv, Types, RequestControl, Holding, Live, DeleteCast, Goto, rows, media
<1>3. Exclusive'
  BY DEF IInv, Holding, Exclusive, DeleteCast, Goto
<1>4. RowControl'
  BY StoreAssumption DEF IInv, Rows, Texts, Targets, Live, RowControl, DeleteCast, Goto, rows
<1>5. ContentIsAudited'
  BY DEF IInv, ContentIsAudited, DeleteCast, rows
<1>6. CastMatchesContent'
  BY DEF IInv, Live, CastMatchesContent, DeleteCast, rows
<1>7. CanonicalIsOwnRender'
  BY DEF IInv, CanonicalIsOwnRender, DeleteCast, rows, media
<1>8. RendersAreCanonicalised'
  BY DEF IInv, Live, RendersAreCanonicalised, ImagesOf, DeleteCast, rows, media
<1>9. ImagesAreAccounted'
  BY DEF IInv, Live, ImagesAreAccounted, DeleteCast, rows, media
<1>. QED BY <1>1, <1>2, <1>3, <1>4, <1>5, <1>6, <1>7, <1>8, <1>9 DEF IInv

\* New ones are inserted with the content.
LEMMA CommitContentStep ==
  ASSUME IInv, NEW r \in Requests,
         CommitContent(r),
         ~Abort(r)
  PROVE  IInv'
<1>0. /\ on[r] \in Panels /\ Live(on[r]) /\ pc[r] = "recast" /\ cast[r] \subseteq Joins
      /\ \A j \in cast[r] : j[1] = on[r] /\ Live(j[2])
      /\ \A j \in joins : j[1] = on[r] => j \in deleted[r]
      /\ joins' = (joins \ deleted[r]) \cup cast[r]
      /\ \A j \in deleted[r] : j[1] = on[r]
      /\ UNCHANGED <<row, on, op, cast, known, image, blobs, canonical>>
      /\ pc' = [pc EXCEPT ![r] = "committed"]
      /\ event' = [event EXCEPT ![r] = "succeeded"]
      /\ deleted' = [deleted EXCEPT ![r] = {}]
      /\ content' = [content EXCEPT ![on[r]] = r]
  BY DEF IInv, Types, RequestControl, Fits, ContentOps, Holding, CommitContent, SetEvent, Goto, media
<1>10. \A j \in joins' : j[1] # on[r] => j \in joins
  BY <1>0
<1>1. Types'
  BY StoreAssumption, SMTT(30)
  DEF IInv, Types, Fits, ImageOps, WriterOps, Holding, ContentOps, RereadOps, RenderOps,
      UploadOps, CanonicalOps, Rows, Texts, Targets, Joins, PC, RowLife, EditEventStatus,
      ImageDiscriminator, Live, CommitContent, SetEvent, Goto, media
<1>2. \A q \in Requests : RequestControl(q)'
  <2>1. RequestControl(r)'
    <3>1. RequestControl(r)
      BY DEF IInv
    <3>2. image[r] = "none"
      BY <1>0, <3>1 DEF RequestControl
    <3>. QED BY <1>0, <3>1, <3>2 DEF IInv, Types, RequestControl, Fits, Live, Holding, Rows, Texts,
             Targets
  <2>2. ASSUME NEW q \in Requests \ {r} PROVE RequestControl(q)'
    <3>1. RequestControl(q)
      BY DEF IInv
    <3>2. pc[q] = "recast" => on[q] # on[r]
      BY <1>0 DEF IInv, Exclusive, Holding
    <3>. QED BY <1>0, <1>10, <3>1, <3>2 DEF IInv, Types, RequestControl, Live, Holding
  <2>. QED BY <2>1, <2>2
<1>3. Exclusive'
  BY DEF IInv, Types, Holding, Exclusive, CommitContent, SetEvent, Goto
<1>4. RowControl'
  BY StoreAssumption DEF IInv, Types, RequestControl, Fits, ImageOps, WriterOps, Holding, Rows,
     Texts, Targets, Joins, Live, RowControl, CommitContent, SetEvent, Goto
<1>5. ContentIsAudited'
  BY DEF IInv, Types, ContentIsAudited, CommitContent, SetEvent, Goto
<1>6. CastMatchesContent'
  <2>. SUFFICES ASSUME NEW p \in Panels, content'[p] \in Requests
                PROVE  {j \in joins' : j[1] = p} = {j \in cast'[content'[p]] : j[1] = p /\
                         Live(j[2])'}
    BY DEF CastMatchesContent
  <2>1. CASE p = on[r]
    BY <1>0, <2>1 DEF IInv, Types, Live, Texts, Targets
  <2>2. CASE p # on[r]
    <3>1. {j \in joins' : j[1] = p} = {j \in joins : j[1] = p}
      BY <1>0, <2>2
    <3>2. content'[p] = content[p]
      BY <1>0, <2>2 DEF IInv, Types, Texts, Targets
    <3>. QED BY <1>0, <3>1, <3>2 DEF IInv, CastMatchesContent, Live
  <2>. QED BY <2>1, <2>2
<1>7. CanonicalIsOwnRender'
  BY DEF IInv, Types, CanonicalIsOwnRender, CommitContent, SetEvent, Goto, media
<1>8. RendersAreCanonicalised'
  BY DEF IInv, Live, RendersAreCanonicalised, ImagesOf, CommitContent, media
<1>9. ImagesAreAccounted'
  BY DEF IInv, Types, RequestControl, ContentOps, RereadOps, RenderOps, UploadOps, CanonicalOps,
     Live, ImagesAreAccounted, CommitContent, SetEvent, Goto, media
<1>. QED BY <1>1, <1>2, <1>3, <1>4, <1>5, <1>6, <1>7, <1>8, <1>9 DEF IInv

\* A panel's renders are deleted.
LEMMA DeletePanelStep ==
  ASSUME IInv, NEW r \in Requests, NEW p \in Panels,
         Live(p),
         canonical[p] # None => ~PanelLocked(r, p),
         Begin(r, "delete_panel", p),
         deleted' = [deleted EXCEPT ![r] = ImagesOf(p, "render")],
         Goto(r, IF canonical[p] # None THEN "locked" ELSE "purged"),
         UNCHANGED <<rows, event, media, known, cast>>
  PROVE  IInv'
<1>1. Types'
  BY DEF IInv, Types, Rows, Texts, Targets, PC, RowLife, EditEventStatus, ImageDiscriminator,
     PanelLocked, Begin, ImagesOf, Goto, rows, media
<1>2. \A q \in Requests : RequestControl(q)'
  BY StoreAssumption DEF IInv, Types, RequestControl, Fits, ImageOps, WriterOps, Rows, Texts,
     Targets, Live, PanelLocked, Begin, ImagesOf, Goto, rows, media
<1>3. Exclusive'
  BY DEF IInv, Types, Holding, Exclusive, PanelLocked, Begin, ImagesOf, Goto
<1>4. RowControl'
  BY StoreAssumption DEF IInv, Rows, Texts, Targets, Live, RowControl, PanelLocked, Begin, ImagesOf,
     Goto, rows
<1>5. ContentIsAudited'
  BY DEF IInv, ContentIsAudited, PanelLocked, Begin, ImagesOf, rows
<1>6. CastMatchesContent'
  BY DEF IInv, Live, CastMatchesContent, PanelLocked, Begin, ImagesOf, rows
<1>7. CanonicalIsOwnRender'
  BY DEF IInv, RequestControl, CanonicalIsOwnRender, PanelLocked, Begin, ImagesOf, rows, media
<1>8. RendersAreCanonicalised'
  BY DEF IInv, RequestControl, Live, RendersAreCanonicalised, ImagesOf, PanelLocked, Begin, rows,
     media
<1>9. ImagesAreAccounted'
  BY DEF IInv, RequestControl, Live, ImagesAreAccounted, PanelLocked, Begin, ImagesOf, rows, media
<1>. QED BY <1>1, <1>2, <1>3, <1>4, <1>5, <1>6, <1>7, <1>8, <1>9 DEF IInv

\* Then the panel.
LEMMA CommitDeletePanelStep ==
  ASSUME IInv, NEW r \in Requests,
         CommitDeletePanel(r)
  PROVE  IInv'
<1>1. Types'
  BY DEF IInv, Types, PC, RowLife, EditEventStatus, ImageDiscriminator, CommitDeletePanel,
     PanelLocked, Remove, Respond, Goto
<1>2. \A q \in Requests : RequestControl(q)'
  BY DEF IInv, Types, RequestControl, Fits, ImageOps, WriterOps, Holding, Rows, Texts, Targets,
     Joins, Live, CommitDeletePanel, PanelLocked, Remove, Respond, Goto
<1>3. Exclusive'
  BY DEF IInv, Holding, Exclusive, CommitDeletePanel, PanelLocked, Remove, Respond, Goto
<1>4. RowControl'
  BY DEF IInv, Types, RequestControl, Rows, Texts, Targets, Joins, Live, RowControl,
     CommitDeletePanel, PanelLocked, Remove, Respond, Goto
<1>5. ContentIsAudited'
  BY DEF IInv, ContentIsAudited, CommitDeletePanel, PanelLocked, Remove
<1>6. CastMatchesContent'
  BY StoreAssumption DEF IInv, Types, Rows, Texts, Targets, Joins, Live, CastMatchesContent,
     CommitDeletePanel, PanelLocked, Remove
<1>7. CanonicalIsOwnRender'
  BY DEF IInv, Types, RequestControl, CanonicalIsOwnRender, CommitDeletePanel, PanelLocked, Remove
<1>8. RendersAreCanonicalised'
  BY DEF IInv, RequestControl, Live, RendersAreCanonicalised, ImagesOf, CommitDeletePanel,
     PanelLocked, Remove
<1>9. ImagesAreAccounted'
  BY DEF IInv, RequestControl, Live, ImagesAreAccounted, CommitDeletePanel, PanelLocked, Remove
<1>. QED BY <1>1, <1>2, <1>3, <1>4, <1>5, <1>6, <1>7, <1>8, <1>9 DEF IInv

\* Characters are committed.
LEMMA CommitCharactersStep ==
  ASSUME IInv, NEW r \in Requests,
         CommitCharacters(r),
         ~Abort(r)
  PROVE  IInv'
<1>1. Types'
  BY DEF IInv, Types, PC, RowLife, EditEventStatus, ImageDiscriminator, CommitCharacters, Unused,
     Respond, Goto, media, call
<1>2. \A q \in Requests : RequestControl(q)'
  BY DEF IInv, Types, RequestControl, Fits, ImageOps, WriterOps, Holding, Rows, Texts, Targets,
     Joins, Live, CommitCharacters, Unused, Respond, Goto, media, call
<1>3. Exclusive'
  BY DEF IInv, Types, Holding, Exclusive, CommitCharacters, Unused, Respond, Goto, media, call
<1>4. RowControl'
  BY StoreAssumption DEF IInv, Types, Rows, Texts, Targets, Joins, Live, RowControl,
     CommitCharacters, Unused, Respond, Goto, media, call
<1>5. ContentIsAudited'
  BY DEF IInv, ContentIsAudited, CommitCharacters, Unused
<1>6. CastMatchesContent'
  <2>1. PICK C \in SUBSET Unused(Characters, on[r]) :
             /\ row' = [x \in Rows |-> IF x \in C THEN "live" ELSE row[x]]
             /\ content' = [x \in Texts |-> IF x \in C THEN r ELSE content[x]]
             /\ UNCHANGED <<joins, cast>>
    BY DEF CommitCharacters, call
  <2>. SUFFICES ASSUME NEW p \in Panels, content'[p] \in Requests
                PROVE  {j \in joins' : j[1] = p} = {j \in cast'[content'[p]] : j[1] = p /\
                         Live(j[2])'}
    BY DEF CastMatchesContent
  <2>2. content'[p] = content[p]
    BY <2>1, StoreAssumption DEF Unused, Texts, Targets
  <2>3. \A j \in cast[content[p]] : Live(j[2]) => Live(j[2])'
    BY <2>1, <2>2 DEF IInv, Types, Joins, Live, Rows, Texts, Targets
  <2>4. \A j \in cast[content[p]] : j[1] = p /\ Live(j[2])' => Live(j[2])
    <3>1. \A j \in cast[content[p]] : j[2] \notin C
      BY <2>2 DEF IInv, RequestControl, Unused
    <3>. QED BY <2>1, <2>2, <3>1 DEF IInv, Types, Joins, Live, Rows, Texts, Targets
  <2>. QED BY <2>1, <2>2, <2>3, <2>4 DEF IInv, CastMatchesContent
<1>7. CanonicalIsOwnRender'
  BY DEF IInv, CanonicalIsOwnRender, CommitCharacters, Unused, media, call
<1>8. RendersAreCanonicalised'
  BY DEF IInv, RequestControl, Live, RendersAreCanonicalised, ImagesOf, CommitCharacters, Unused,
     media, call
<1>9. ImagesAreAccounted'
  BY DEF IInv, RequestControl, Live, ImagesAreAccounted, CommitCharacters, Unused, media, call
<1>. QED BY <1>1, <1>2, <1>3, <1>4, <1>5, <1>6, <1>7, <1>8, <1>9 DEF IInv

\* A character is refined.
LEMMA CommitRefinementStep ==
  ASSUME IInv, NEW r \in Requests,
         pc[r] = "model",
         op[r] = "refine_character",
         Live(on[r]),
         content' = [content EXCEPT ![on[r]] = r],
         source' = [source EXCEPT ![on[r]] = r],
         SetEvent(r, "succeeded"),
         Goto(r, "committed"),
         UNCHANGED <<row, canonical, joins, media, call>>
  PROVE  IInv'
<1>1. Types'
  BY DEF IInv, Types, RequestControl, Fits, ImageOps, WriterOps, Rows, Texts, Targets, PC, RowLife,
     EditEventStatus, ImageDiscriminator, SetEvent, Goto, media, call
<1>2. \A q \in Requests : RequestControl(q)'
  BY DEF IInv, Types, RequestControl, Live, SetEvent, Goto, media, call
<1>3. Exclusive'
  BY DEF IInv, Holding, Exclusive, SetEvent, Goto, media, call
<1>4. RowControl'
  BY StoreAssumption DEF IInv, Types, Fits, ImageOps, WriterOps, Rows, Texts, Targets, Live,
     RowControl, SetEvent, Goto, media, call
<1>5. ContentIsAudited'
  BY DEF IInv, Types, ContentIsAudited, SetEvent, Goto
<1>6. CastMatchesContent'
  BY StoreAssumption DEF IInv, RequestControl, Fits, ImageOps, WriterOps, Live, CastMatchesContent,
     media, call
<1>7. CanonicalIsOwnRender'
  BY DEF IInv, CanonicalIsOwnRender, SetEvent, Goto, media, call
<1>8. RendersAreCanonicalised'
  BY DEF IInv, Live, RendersAreCanonicalised, ImagesOf, media, call
<1>9. ImagesAreAccounted'
  BY DEF IInv, ContentOps, RereadOps, RenderOps, UploadOps, CanonicalOps, Live, ImagesAreAccounted,
     SetEvent, Goto, media, call
<1>. QED BY <1>1, <1>2, <1>3, <1>4, <1>5, <1>6, <1>7, <1>8, <1>9 DEF IInv

\* It is edited by hand.
LEMMA UpdateCharacterStep ==
  ASSUME IInv, NEW r \in Requests, NEW c \in Characters,
         Live(c),
         Begin(r, "update_character", c),
         content' = [content EXCEPT ![c] = r],
         Respond(r, "update_character", "ok"),
         UNCHANGED <<row, source, canonical, joins, event, media, known, cast, deleted>>
  PROVE  IInv'
<1>1. Types'
  BY DEF IInv, Types, RequestControl, Rows, Texts, Targets, PC, RowLife, EditEventStatus,
     ImageDiscriminator, Begin, Respond, Goto, media
<1>2. \A q \in Requests : RequestControl(q)'
  BY StoreAssumption DEF IInv, Types, RequestControl, Fits, ImageOps, WriterOps, ContentOps,
     RereadOps, RenderOps, UploadOps, CanonicalOps, Live, Begin, Respond, Goto, media
<1>3. Exclusive'
  BY DEF IInv, Holding, Exclusive, Begin, Respond, Goto
<1>4. RowControl'
  BY StoreAssumption DEF IInv, Rows, Texts, Targets, Live, RowControl, Begin, Respond, Goto
<1>5. ContentIsAudited'
  BY DEF IInv, ContentIsAudited, Begin
<1>6. CastMatchesContent'
  BY StoreAssumption DEF IInv, Live, CastMatchesContent, Begin
<1>7. CanonicalIsOwnRender'
  BY DEF IInv, RequestControl, CanonicalIsOwnRender, Begin, media
<1>8. RendersAreCanonicalised'
  BY DEF IInv, RequestControl, Live, RendersAreCanonicalised, ImagesOf, Begin, media
<1>9. ImagesAreAccounted'
  BY DEF IInv, RequestControl, Live, ImagesAreAccounted, Begin, media
<1>. QED BY <1>1, <1>2, <1>3, <1>4, <1>5, <1>6, <1>7, <1>8, <1>9 DEF IInv

\* It is deleted.
LEMMA DeleteCharacterStep ==
  ASSUME IInv, NEW r \in Requests, NEW c \in Characters,
         Live(c),
         Begin(r, "delete_character", c),
         Remove({c}),
         Respond(r, "delete_character", "ok"),
         UNCHANGED <<event, media, known, cast, deleted>>
  PROVE  IInv'
<1>1. Types'
  <2>1. on' \in [Requests -> Rows \cup {None}] /\ op' = [q \in Requests |-> op'[q]]
        /\ pc' \in [Requests -> PC]
    BY DEF IInv, Types, Begin, Respond, Goto, PC, Rows, Texts, Targets
  <2>. QED BY <2>1, RemoveTypes DEF IInv, Types, media, Rows, Texts, Targets
<1>2. \A q \in Requests : RequestControl(q)'
  BY StoreAssumption DEF IInv, Types, RequestControl, Fits, ImageOps, WriterOps, Holding,
     ContentOps, RereadOps, RenderOps, UploadOps, CanonicalOps, Rows, Texts, Targets, Joins, Live,
     Begin, Remove, Respond, Goto, media
<1>3. Exclusive'
  BY DEF IInv, Holding, Exclusive, Begin, Remove, Respond, Goto
<1>4. RowControl'
  BY DEF IInv, Types, RequestControl, Fits, ImageOps, WriterOps, ContentOps, RereadOps, RenderOps,
     UploadOps, CanonicalOps, Rows, Texts, Targets, Joins, Live, RowControl, Begin, Remove, Respond,
     Goto, media
<1>5. ContentIsAudited'
  BY DEF IInv, ContentIsAudited, Begin, Remove
<1>6. CastMatchesContent'
  BY StoreAssumption DEF IInv, Types, Rows, Texts, Targets, Joins, Live, CastMatchesContent, Begin,
     Remove
<1>7. CanonicalIsOwnRender'
  BY DEF IInv, RequestControl, CanonicalIsOwnRender, Begin, Remove, media
<1>8. RendersAreCanonicalised'
  BY DEF IInv, RequestControl, Live, RendersAreCanonicalised, ImagesOf, Begin, Remove, media
<1>9. ImagesAreAccounted'
  BY DEF IInv, RequestControl, Live, ImagesAreAccounted, Begin, Remove, media
<1>. QED BY <1>1, <1>2, <1>3, <1>4, <1>5, <1>6, <1>7, <1>8, <1>9 DEF IInv

\* A render is in the bucket.
LEMMA StoreRenderStep ==
  ASSUME IInv, NEW r \in Requests,
         StoreRender(r)
  PROVE  IInv'
<1>1. Types'
  BY DEF IInv, Types, PC, RowLife, EditEventStatus, ImageDiscriminator, StoreRender, Store, Goto,
     rows, call
<1>2. \A q \in Requests : RequestControl(q)'
  BY DEF IInv, RequestControl, Holding, Live, StoreRender, Store, Goto, rows, call
<1>3. Exclusive'
  BY DEF IInv, Holding, Exclusive, StoreRender, Store, Goto, call
<1>4. RowControl'
  BY StoreAssumption DEF IInv, Rows, Texts, Targets, Live, RowControl, StoreRender, Store, Goto,
     rows, call
<1>5. ContentIsAudited'
  BY DEF IInv, ContentIsAudited, StoreRender, Store, rows
<1>6. CastMatchesContent'
  BY DEF IInv, Live, CastMatchesContent, StoreRender, Store, rows, call
<1>7. CanonicalIsOwnRender'
  BY DEF IInv, CanonicalIsOwnRender, StoreRender, Store, rows, call
<1>8. RendersAreCanonicalised'
  BY DEF IInv, Live, RendersAreCanonicalised, ImagesOf, StoreRender, Store, rows, call
<1>9. ImagesAreAccounted'
  BY DEF IInv, Live, ImagesAreAccounted, StoreRender, Store, rows, call
<1>. QED BY <1>1, <1>2, <1>3, <1>4, <1>5, <1>6, <1>7, <1>8, <1>9 DEF IInv

\* Its image row is flushed.
LEMMA MarkLinkedStep ==
  ASSUME IInv, NEW r \in Requests,
         pc[r] = "stored",
         Live(on[r]),
         Goto(r, "linked"),
         UNCHANGED <<rows, event, media, call>>
  PROVE  IInv'
<1>1. Types'
  BY DEF IInv, Types, PC, RowLife, EditEventStatus, ImageDiscriminator, Goto, rows, media, call
<1>2. \A q \in Requests : RequestControl(q)'
  BY DEF IInv, RequestControl, Live, Goto, rows, media, call
<1>3. Exclusive'
  BY DEF IInv, Holding, Exclusive, Goto, media, call
<1>4. RowControl'
  BY StoreAssumption DEF IInv, Rows, Texts, Targets, Live, RowControl, Goto, rows, media, call
<1>5. ContentIsAudited'
  BY DEF IInv, ContentIsAudited, rows
<1>6. CastMatchesContent'
  BY DEF IInv, Live, CastMatchesContent, rows, media, call
<1>7. CanonicalIsOwnRender'
  BY DEF IInv, CanonicalIsOwnRender, rows, media, call
<1>8. RendersAreCanonicalised'
  BY DEF IInv, Live, RendersAreCanonicalised, ImagesOf, rows, media, call
<1>9. ImagesAreAccounted'
  BY DEF IInv, Live, ImagesAreAccounted, rows, media, call
<1>. QED BY <1>1, <1>2, <1>3, <1>4, <1>5, <1>6, <1>7, <1>8, <1>9 DEF IInv

\* The target has gone: the image row is committed with the failure.
LEMMA LinkFailsStep ==
  ASSUME IInv, NEW r \in Requests,
         pc[r] = "stored",
         ~Live(on[r]),
         image' = [image EXCEPT ![r] = "render"],
         FailEvent(r, "other"),
         UNCHANGED <<rows, blobs, call>>
  PROVE  IInv'
<1>1. Types'
  BY DEF IInv, Types, PC, RowLife, EditEventStatus, ImageDiscriminator, FailEvent, SetEvent,
     Respond, Goto, rows, call
<1>2. \A q \in Requests : RequestControl(q)'
  BY DEF IInv, Types, RequestControl, Holding, ContentOps, RereadOps, RenderOps, UploadOps,
     CanonicalOps, Live, FailEvent, SetEvent, Respond, Goto, rows, call
<1>3. Exclusive'
  BY DEF IInv, RequestControl, Exclusive, FailEvent, SetEvent, Respond, Goto, call
<1>4. RowControl'
  BY StoreAssumption DEF IInv, Rows, Texts, Targets, Live, RowControl, FailEvent, SetEvent, Respond,
     Goto, rows, call
<1>5. ContentIsAudited'
  BY DEF IInv, RequestControl, ContentIsAudited, FailEvent, SetEvent, Respond, Goto, rows
<1>6. CastMatchesContent'
  BY DEF IInv, Live, CastMatchesContent, FailEvent, rows, call
<1>7. CanonicalIsOwnRender'
  BY DEF IInv, RequestControl, CanonicalIsOwnRender, FailEvent, SetEvent, Respond, Goto, rows, call
<1>8. RendersAreCanonicalised'
  BY DEF IInv, Live, RendersAreCanonicalised, ImagesOf, FailEvent, rows, call
<1>9. ImagesAreAccounted'
  BY DEF IInv, Types, RequestControl, ContentOps, RereadOps, RenderOps, UploadOps, CanonicalOps, PC,
     RowLife, EditEventStatus, ImageDiscriminator, Live, ImagesAreAccounted, FailEvent, SetEvent,
     Respond, Goto, rows, call
<1>. QED BY <1>1, <1>2, <1>3, <1>4, <1>5, <1>6, <1>7, <1>8, <1>9 DEF IInv

\* A render is committed as canonical.
LEMMA CommitRenderStep ==
  ASSUME IInv, NEW r \in Requests,
         CommitRender(r),
         ~Abort(r)
  PROVE  IInv'
<1>1. Types'
  BY StoreAssumption, SMTT(30)
  DEF IInv, Types, RequestControl, ContentOps, RereadOps, RenderOps, UploadOps, CanonicalOps,
      Joins, PC, RowLife, EditEventStatus, ImageDiscriminator, Live, CommitRender, PanelLocked,
      SetEvent, Goto, call
<1>2. \A q \in Requests : RequestControl(q)'
  BY DEF IInv, Types, RequestControl, Fits, ImageOps, WriterOps, Rows, Texts, Targets, Live,
     CommitRender, PanelLocked, SetEvent, Goto, call
<1>3. Exclusive'
  BY DEF IInv, Types, Holding, Exclusive, CommitRender, PanelLocked, SetEvent, Goto, call
<1>4. RowControl'
  BY StoreAssumption DEF IInv, Types, Rows, Texts, Targets, Live, RowControl, CommitRender,
     PanelLocked, SetEvent, Goto, call
<1>5. ContentIsAudited'
  BY DEF IInv, Types, ContentIsAudited, CommitRender, PanelLocked, SetEvent, Goto
<1>6. CastMatchesContent'
  BY DEF IInv, Live, CastMatchesContent, CommitRender, PanelLocked, call
<1>7. CanonicalIsOwnRender'
  BY DEF IInv, Types, RequestControl, CanonicalIsOwnRender, CommitRender, PanelLocked, SetEvent,
     Goto, call
<1>8. RendersAreCanonicalised'
  BY StoreAssumption DEF IInv, Types, Live, RendersAreCanonicalised, ImagesOf, CommitRender,
     PanelLocked, call
<1>9. ImagesAreAccounted'
  BY DEF IInv, Types, RequestControl, Live, ImagesAreAccounted, CommitRender, PanelLocked, SetEvent,
     Goto, call
<1>. QED BY <1>1, <1>2, <1>3, <1>4, <1>5, <1>6, <1>7, <1>8, <1>9 DEF IInv

\* Another is chosen.
LEMMA SetCanonicalStep ==
  ASSUME IInv, NEW r \in Requests, NEW o \in CanonicalOps, NEW t \in Targets, NEW i \in Requests,
         Live(t),
         Belongs(i, t),
         image[i] = "render",
         Begin(r, o, t),
         canonical' = [canonical EXCEPT ![t] = i],
         SetEvent(r, "succeeded"),
         Goto(r, "committed"),
         UNCHANGED <<row, content, source, joins, media, known, cast, deleted>>
  PROVE  IInv'
<1>1. Types'
  BY DEF IInv, Types, RequestControl, PC, RowLife, EditEventStatus, ImageDiscriminator, Belongs,
     Begin, SetEvent, Goto, media
<1>2. \A q \in Requests : RequestControl(q)'
  BY StoreAssumption DEF IInv, Types, RequestControl, Fits, ImageOps, WriterOps, ContentOps,
     RereadOps, RenderOps, UploadOps, CanonicalOps, Live, Belongs, Begin, SetEvent, Goto, media
<1>3. Exclusive'
  BY DEF IInv, Holding, Exclusive, Belongs, Begin, SetEvent, Goto
<1>4. RowControl'
  BY StoreAssumption DEF IInv, Rows, Texts, Targets, Live, RowControl, Belongs, Begin, SetEvent,
     Goto
<1>5. ContentIsAudited'
  BY DEF IInv, ContentIsAudited, Belongs, Begin, SetEvent, Goto
<1>6. CastMatchesContent'
  BY DEF IInv, Live, CastMatchesContent, Belongs, Begin
<1>7. CanonicalIsOwnRender'
  BY DEF IInv, RequestControl, Live, CanonicalIsOwnRender, ImagesAreAccounted, Belongs, Begin,
     SetEvent, Goto, media
<1>8. RendersAreCanonicalised'
  BY StoreAssumption DEF IInv, Live, RendersAreCanonicalised, ImagesOf, Belongs, Begin, media
<1>9. ImagesAreAccounted'
  BY DEF IInv, Types, ContentOps, RereadOps, RenderOps, UploadOps, CanonicalOps, Live,
     ImagesAreAccounted, Belongs, Begin, SetEvent, Goto, media
<1>. QED BY <1>1, <1>2, <1>3, <1>4, <1>5, <1>6, <1>7, <1>8, <1>9 DEF IInv

\* A reference is in the bucket.
LEMMA UploadStep ==
  ASSUME IInv, NEW r \in Requests, NEW o \in UploadOps, NEW t \in Targets,
         Live(t),
         Begin(r, o, t),
         Store(r),
         Goto(r, "uploaded"),
         UNCHANGED <<rows, event, image, known, cast, deleted>>
  PROVE  IInv'
<1>1. Types'
  BY DEF IInv, Types, RequestControl, Rows, Texts, Targets, PC, RowLife, EditEventStatus,
     ImageDiscriminator, Begin, Store, Goto, rows
<1>2. \A q \in Requests : RequestControl(q)'
  BY StoreAssumption DEF IInv, Types, RequestControl, Fits, ImageOps, WriterOps, ContentOps,
     RereadOps, RenderOps, UploadOps, CanonicalOps, Rows, Texts, Targets, Live, Begin, Store, Goto,
     rows
<1>3. Exclusive'
  BY DEF IInv, Holding, Exclusive, Begin, Store, Goto
<1>4. RowControl'
  BY StoreAssumption DEF IInv, Rows, Texts, Targets, Live, RowControl, Begin, Store, Goto, rows
<1>5. ContentIsAudited'
  BY DEF IInv, ContentIsAudited, Begin, Store, rows
<1>6. CastMatchesContent'
  BY DEF IInv, Live, CastMatchesContent, Begin, Store, rows
<1>7. CanonicalIsOwnRender'
  BY DEF IInv, RequestControl, CanonicalIsOwnRender, Begin, Store, rows
<1>8. RendersAreCanonicalised'
  BY DEF IInv, RequestControl, Live, RendersAreCanonicalised, ImagesOf, Begin, Store, rows
<1>9. ImagesAreAccounted'
  BY DEF IInv, RequestControl, Live, ImagesAreAccounted, Begin, Store, rows
<1>. QED BY <1>1, <1>2, <1>3, <1>4, <1>5, <1>6, <1>7, <1>8, <1>9 DEF IInv

\* It is committed.
LEMMA CommitUploadStep ==
  ASSUME IInv, NEW r \in Requests,
         CommitUpload(r)
  PROVE  IInv'
<1>1. Types'
  BY DEF IInv, Types, PC, RowLife, EditEventStatus, ImageDiscriminator, CommitUpload, SetEvent,
     Goto, rows, call
<1>2. \A q \in Requests : RequestControl(q)'
  BY DEF IInv, Types, RequestControl, Holding, ContentOps, RereadOps, RenderOps, UploadOps,
     CanonicalOps, Live, CommitUpload, SetEvent, Goto, rows, call
<1>3. Exclusive'
  BY DEF IInv, Holding, Exclusive, CommitUpload, SetEvent, Goto, call
<1>4. RowControl'
  BY StoreAssumption DEF IInv, Rows, Texts, Targets, Live, RowControl, CommitUpload, SetEvent, Goto,
     rows, call
<1>5. ContentIsAudited'
  BY DEF IInv, ContentIsAudited, CommitUpload, SetEvent, Goto, rows
<1>6. CastMatchesContent'
  BY DEF IInv, Live, CastMatchesContent, CommitUpload, rows, call
<1>7. CanonicalIsOwnRender'
  BY DEF IInv, RequestControl, CanonicalIsOwnRender, CommitUpload, SetEvent, Goto, rows, call
<1>8. RendersAreCanonicalised'
  BY DEF IInv, Live, RendersAreCanonicalised, ImagesOf, CommitUpload, rows, call
<1>9. ImagesAreAccounted'
  BY DEF IInv, Types, RequestControl, ContentOps, RereadOps, RenderOps, UploadOps, CanonicalOps,
     Live, ImagesAreAccounted, CommitUpload, SetEvent, Goto, rows, call
<1>. QED BY <1>1, <1>2, <1>3, <1>4, <1>5, <1>6, <1>7, <1>8, <1>9 DEF IInv

\* It is deleted.
LEMMA DeleteReferenceStep ==
  ASSUME IInv, NEW r \in Requests, NEW o, NEW t \in Targets, NEW i \in Requests,
         Fits(o, t),
         Live(t),
         image[i] = "reference",
         Begin(r, o, t),
         image' = [image EXCEPT ![i] = "none"],
         Respond(r, o, "ok"),
         UNCHANGED <<rows, event, blobs, known, cast, deleted>>
  PROVE  IInv'
<1>1. Types'
  <2>1. on' \in [Requests -> Rows \cup {None}] /\ op' = [q \in Requests |-> op'[q]]
        /\ pc' \in [Requests -> PC]
    BY DEF IInv, Types, Begin, Respond, Goto, PC, Rows, Texts
  <2>2. image' \in [Requests -> ImageDiscriminator \cup {"none"}]
    BY DEF IInv, Types
  <2>. QED BY <2>1, <2>2 DEF IInv, Types, rows
<1>2. \A q \in Requests : RequestControl(q)'
  BY StoreAssumption DEF IInv, Types, RequestControl, Live, Begin, Respond, Goto, rows
<1>3. Exclusive'
  BY DEF IInv, Holding, Exclusive, Begin, Respond, Goto
<1>4. RowControl'
  BY StoreAssumption DEF IInv, Rows, Texts, Targets, Live, RowControl, Begin, Respond, Goto, rows
<1>5. ContentIsAudited'
  BY DEF IInv, ContentIsAudited, Begin, rows
<1>6. CastMatchesContent'
  BY DEF IInv, Live, CastMatchesContent, Begin, rows
<1>7. CanonicalIsOwnRender'
  BY DEF IInv, RequestControl, CanonicalIsOwnRender, Begin, rows
<1>8. RendersAreCanonicalised'
  BY DEF IInv, RequestControl, Live, RendersAreCanonicalised, ImagesOf, Begin, rows
<1>9. ImagesAreAccounted'
  BY DEF IInv, RequestControl, Live, ImagesAreAccounted, Begin, rows
<1>. QED BY <1>1, <1>2, <1>3, <1>4, <1>5, <1>6, <1>7, <1>8, <1>9 DEF IInv

\* A stream ends.
LEMMA StreamEndStep ==
  ASSUME IInv, NEW r \in Requests,
         StreamEnd(r)
  PROVE  IInv'
<1>1. Types'
  BY DEF IInv, Types, PC, RowLife, EditEventStatus, ImageDiscriminator, StreamEnd, Goto, rows,
     media, call
<1>2. \A q \in Requests : RequestControl(q)'
  BY DEF IInv, RequestControl, Holding, Live, StreamEnd, Goto, rows, media, call
<1>3. Exclusive'
  BY DEF IInv, Holding, Exclusive, StreamEnd, Goto, media, call
<1>4. RowControl'
  BY DEF IInv, RequestControl, Rows, Texts, Targets, Live, RowControl, StreamEnd, Goto, rows, media,
     call
<1>5. ContentIsAudited'
  BY DEF IInv, ContentIsAudited, StreamEnd, rows
<1>6. CastMatchesContent'
  BY DEF IInv, Live, CastMatchesContent, StreamEnd, rows, media, call
<1>7. CanonicalIsOwnRender'
  BY DEF IInv, CanonicalIsOwnRender, StreamEnd, rows, media, call
<1>8. RendersAreCanonicalised'
  BY DEF IInv, Live, RendersAreCanonicalised, ImagesOf, StreamEnd, rows, media, call
<1>9. ImagesAreAccounted'
  BY DEF IInv, Live, ImagesAreAccounted, StreamEnd, rows, media, call
<1>. QED BY <1>1, <1>2, <1>3, <1>4, <1>5, <1>6, <1>7, <1>8, <1>9 DEF IInv

\* Its text is committed.
LEMMA CommitStoryStep ==
  ASSUME IInv, NEW r \in Requests,
         pc[r] = "ended",
         Live(on[r]),
         content' = [content EXCEPT ![on[r]] = r],
         source' = [source EXCEPT ![on[r]] = r],
         SetEvent(r, "succeeded"),
         Respond(r, op[r], "ok"),
         UNCHANGED <<row, canonical, joins, media, call>>
  PROVE  IInv'
<1>1. Types'
  BY DEF IInv, Types, RequestControl, Fits, ImageOps, WriterOps, Rows, Texts, Targets, PC, RowLife,
     EditEventStatus, ImageDiscriminator, SetEvent, Respond, Goto, media, call
<1>2. \A q \in Requests : RequestControl(q)'
  BY DEF IInv, Types, RequestControl, Live, SetEvent, Respond, Goto, media, call
<1>3. Exclusive'
  BY DEF IInv, Holding, Exclusive, SetEvent, Respond, Goto, media, call
<1>4. RowControl'
  BY StoreAssumption DEF IInv, Types, RequestControl, Fits, ImageOps, WriterOps, Rows, Texts,
     Targets, Live, RowControl, SetEvent, Respond, Goto, media, call
<1>5. ContentIsAudited'
  BY DEF IInv, Types, ContentIsAudited, SetEvent, Respond, Goto
<1>6. CastMatchesContent'
  BY StoreAssumption DEF IInv, RequestControl, Fits, ImageOps, WriterOps, Rows, Texts, Targets,
     Live, CastMatchesContent, media, call
<1>7. CanonicalIsOwnRender'
  BY DEF IInv, CanonicalIsOwnRender, SetEvent, Respond, Goto, media, call
<1>8. RendersAreCanonicalised'
  BY DEF IInv, Live, RendersAreCanonicalised, ImagesOf, media, call
<1>9. ImagesAreAccounted'
  BY DEF IInv, RequestControl, ContentOps, RereadOps, RenderOps, UploadOps, CanonicalOps, Live,
     ImagesAreAccounted, SetEvent, Respond, Goto, media, call
<1>. QED BY <1>1, <1>2, <1>3, <1>4, <1>5, <1>6, <1>7, <1>8, <1>9 DEF IInv

\* A story is created.
LEMMA CreateStoryStep ==
  ASSUME IInv, NEW r \in Requests, NEW s \in Stories,
         row[s] = "unused",
         Begin(r, "create_story", s),
         row' = [row EXCEPT ![s] = "live"],
         Goto(r, "committed"),
         UNCHANGED <<content, source, canonical, joins, event, media, known, cast, deleted>>
  PROVE  IInv'
<1>1. Types'
  BY DEF IInv, Types, RequestControl, Rows, Texts, Targets, PC, RowLife, EditEventStatus,
     ImageDiscriminator, Begin, Goto, media
<1>2. \A q \in Requests : RequestControl(q)'
  BY StoreAssumption DEF IInv, Types, RequestControl, Fits, ImageOps, WriterOps, ContentOps,
     RereadOps, RenderOps, UploadOps, CanonicalOps, Rows, Texts, Targets, Live, Begin, Goto, media
<1>3. Exclusive'
  BY DEF IInv, Types, RequestControl, Live, Exclusive, Begin, Goto
<1>4. RowControl'
  BY StoreAssumption DEF IInv, Rows, Texts, Targets, Live, RowControl, Begin, Goto
<1>5. ContentIsAudited'
  BY DEF IInv, ContentIsAudited, Begin
<1>6. CastMatchesContent'
  BY DEF IInv, RequestControl, Live, CastMatchesContent, Begin
<1>7. CanonicalIsOwnRender'
  BY DEF IInv, RequestControl, CanonicalIsOwnRender, Begin, media
<1>8. RendersAreCanonicalised'
  BY DEF IInv, RequestControl, Live, RendersAreCanonicalised, ImagesOf, Begin, media
<1>9. ImagesAreAccounted'
  BY DEF IInv, RequestControl, Live, ImagesAreAccounted, Begin, media
<1>. QED BY <1>1, <1>2, <1>3, <1>4, <1>5, <1>6, <1>7, <1>8, <1>9 DEF IInv

\* It is deleted.
LEMMA DeleteStoryStep ==
  ASSUME IInv, NEW r \in Requests, NEW s \in Stories,
         \A p \in Panels \cap Cascade(s) : ~PanelLocked(r, p),
         Begin(r, "delete_story", s),
         Live(s),
         Remove(Cascade(s)),
         Respond(r, "delete_story", "ok"),
         UNCHANGED <<event, media, known, cast, deleted>>
  PROVE  IInv'
<1>1. Types'
  <2>1. on' \in [Requests -> Rows \cup {None}] /\ op' = [q \in Requests |-> op'[q]]
        /\ pc' \in [Requests -> PC]
    BY DEF IInv, Types, Begin, Respond, Goto, PC, Rows, Texts
  <2>2. Cascade(s) \subseteq Rows
    BY DEF Cascade
  <2>. QED BY <2>1, <2>2, RemoveTypes DEF IInv, Types, media
<1>2. \A q \in Requests : RequestControl(q)'
  BY StoreAssumption DEF IInv, Types, RequestControl, Fits, ImageOps, WriterOps, Holding,
     ContentOps, RereadOps, RenderOps, UploadOps, CanonicalOps, Rows, Texts, Targets, Joins, Live,
     PanelLocked, Cascade, Begin, Remove, Respond, Goto, media
<1>3. Exclusive'
  BY DEF IInv, Holding, Exclusive, PanelLocked, Cascade, Begin, Remove, Respond, Goto
<1>4. RowControl'
  BY DEF IInv, Types, RequestControl, Rows, Texts, Targets, Joins, Live, RowControl, PanelLocked,
     Cascade, Begin, Remove, Respond, Goto
<1>5. ContentIsAudited'
  BY DEF IInv, ContentIsAudited, PanelLocked, Cascade, Begin, Remove
<1>6. CastMatchesContent'
  BY StoreAssumption DEF IInv, Types, Rows, Texts, Targets, Joins, Live, CastMatchesContent,
     PanelLocked, Cascade, Begin, Remove
<1>7. CanonicalIsOwnRender'
  BY DEF IInv, RequestControl, CanonicalIsOwnRender, PanelLocked, Cascade, Begin, Remove, media
<1>8. RendersAreCanonicalised'
  BY DEF IInv, RequestControl, Live, RendersAreCanonicalised, ImagesOf, PanelLocked, Cascade, Begin,
     Remove, media
<1>9. ImagesAreAccounted'
  BY DEF IInv, RequestControl, Live, ImagesAreAccounted, PanelLocked, Cascade, Begin, Remove, media
<1>. QED BY <1>1, <1>2, <1>3, <1>4, <1>5, <1>6, <1>7, <1>8, <1>9 DEF IInv

\* A project is created.
LEMMA CreateProjectStep ==
  ASSUME IInv, NEW r \in Requests,
         CreateProject(r)
  PROVE  IInv'
<1>1. Types'
  BY DEF IInv, Types, RequestControl, Rows, Texts, Targets, PC, RowLife, EditEventStatus,
     ImageDiscriminator, CreateProject, Begin, Respond, Goto, media
<1>2. \A q \in Requests : RequestControl(q)'
  BY StoreAssumption DEF IInv, Types, RequestControl, Fits, ImageOps, WriterOps, ContentOps,
     RereadOps, RenderOps, UploadOps, CanonicalOps, Rows, Texts, Targets, Live, CreateProject,
     Begin, Respond, Goto, media
<1>3. Exclusive'
  BY DEF IInv, Types, RequestControl, Live, Exclusive, CreateProject, Begin, Respond, Goto
<1>4. RowControl'
  BY StoreAssumption DEF IInv, Rows, Texts, Targets, Live, RowControl, CreateProject, Begin,
     Respond, Goto
<1>5. ContentIsAudited'
  BY DEF IInv, ContentIsAudited, CreateProject, Begin
<1>6. CastMatchesContent'
  BY DEF IInv, RequestControl, Live, CastMatchesContent, CreateProject, Begin
<1>7. CanonicalIsOwnRender'
  BY DEF IInv, RequestControl, CanonicalIsOwnRender, CreateProject, Begin, media
<1>8. RendersAreCanonicalised'
  BY DEF IInv, RequestControl, Live, RendersAreCanonicalised, ImagesOf, CreateProject, Begin, media
<1>9. ImagesAreAccounted'
  BY DEF IInv, RequestControl, Live, ImagesAreAccounted, CreateProject, Begin, media
<1>. QED BY <1>1, <1>2, <1>3, <1>4, <1>5, <1>6, <1>7, <1>8, <1>9 DEF IInv

\* It is deleted with all that is in it.
LEMMA DeleteProjectStep ==
  ASSUME IInv, NEW r \in Requests, NEW p \in Projects,
         \A q \in Panels \cap Cascade(p) : ~PanelLocked(r, q),
         Begin(r, "delete_project", p),
         Live(p),
         Remove(Cascade(p)),
         event' = [q \in Requests |-> IF on[q] \in Cascade(p) THEN "none" ELSE event[q]],
         image' = [q \in Requests |-> IF on[q] \in Cascade(p) THEN "none" ELSE image[q]],
         Respond(r,
         "delete_project",
         "ok"),
         UNCHANGED <<blobs,
         known,
         cast,
         deleted>>
  PROVE  IInv'
<1>1. Types'
  <2>1. on' \in [Requests -> Rows \cup {None}] /\ op' = [q \in Requests |-> op'[q]]
        /\ pc' \in [Requests -> PC]
    BY DEF IInv, Types, Begin, Respond, Goto, PC, Rows
  <2>2. event' \in [Requests -> EditEventStatus \cup {"none"}]
        /\ image' \in [Requests -> ImageDiscriminator \cup {"none"}]
    BY DEF IInv, Types
  <2>3. Cascade(p) \subseteq Rows
    BY DEF Cascade
  <2>. QED BY <2>1, <2>2, <2>3, RemoveTypes DEF IInv, Types, Rows, Texts, Targets
<1>2. \A q \in Requests : RequestControl(q)'
  BY StoreAssumption DEF IInv, Types, RequestControl, Fits, ImageOps, WriterOps, Holding,
     ContentOps, RereadOps, RenderOps, UploadOps, CanonicalOps, Rows, Texts, Targets, Joins, Live,
     PanelLocked, Cascade, Begin, Remove, Respond, Goto
<1>3. Exclusive'
  BY DEF IInv, Holding, Exclusive, PanelLocked, Cascade, Begin, Remove, Respond, Goto
<1>4. RowControl'
  BY DEF IInv, Types, Fits, ImageOps, WriterOps, ContentOps, RereadOps, RenderOps, UploadOps,
     CanonicalOps, Rows, Texts, Targets, Joins, PC, RowLife, EditEventStatus, ImageDiscriminator,
     Live, RowControl, PanelLocked, Cascade, Begin, Remove, Respond, Goto
<1>5. ContentIsAudited'
  BY StoreAssumption DEF IInv, Types, Rows, Texts, Targets, Live, RowControl, ContentIsAudited,
     PanelLocked, Cascade, Begin, Remove
<1>6. CastMatchesContent'
  BY StoreAssumption DEF IInv, Types, Rows, Texts, Targets, Joins, Live, CastMatchesContent,
     PanelLocked, Cascade, Begin, Remove
<1>7. CanonicalIsOwnRender'
  BY DEF IInv, Types, RequestControl, Joins, CanonicalIsOwnRender, PanelLocked, Cascade, Begin,
     Remove
<1>8. RendersAreCanonicalised'
  BY DEF IInv, RequestControl, Live, RendersAreCanonicalised, ImagesOf, PanelLocked, Cascade, Begin,
     Remove
<1>9. ImagesAreAccounted'
  BY DEF IInv, RequestControl, Live, ImagesAreAccounted, PanelLocked, Cascade, Begin, Remove
<1>. QED BY <1>1, <1>2, <1>3, <1>4, <1>5, <1>6, <1>7, <1>8, <1>9 DEF IInv

\* The default project is looked for.
LEMMA DefaultProjectStep ==
  ASSUME IInv, NEW r \in Requests,
         DefaultProject(r)
  PROVE  IInv'
<1>1. Types'
  BY DEF IInv, Types, RequestControl, PC, RowLife, EditEventStatus, ImageDiscriminator,
     DefaultProject, Begin, Respond, Goto, rows, media
<1>2. \A q \in Requests : RequestControl(q)'
  BY DEF IInv, Types, RequestControl, Fits, ImageOps, WriterOps, Holding, ContentOps, RereadOps,
     RenderOps, UploadOps, CanonicalOps, Live, DefaultProject, Begin, Respond, Goto, rows, media
<1>3. Exclusive'
  BY DEF IInv, Types, Holding, Exclusive, DefaultProject, Begin, Respond, Goto
<1>4. RowControl'
  BY StoreAssumption DEF IInv, Types, Rows, Texts, Targets, Live, RowControl, DefaultProject, Begin,
     Respond, Goto, rows
<1>5. ContentIsAudited'
  BY DEF IInv, ContentIsAudited, DefaultProject, Begin, rows
<1>6. CastMatchesContent'
  BY DEF IInv, Live, CastMatchesContent, DefaultProject, Begin, rows
<1>7. CanonicalIsOwnRender'
  BY DEF IInv, RequestControl, CanonicalIsOwnRender, DefaultProject, Begin, rows, media
<1>8. RendersAreCanonicalised'
  BY DEF IInv, RequestControl, Live, RendersAreCanonicalised, ImagesOf, DefaultProject, Begin, rows,
     media
<1>9. ImagesAreAccounted'
  BY DEF IInv, RequestControl, Live, ImagesAreAccounted, DefaultProject, Begin, rows, media
<1>. QED BY <1>1, <1>2, <1>3, <1>4, <1>5, <1>6, <1>7, <1>8, <1>9 DEF IInv

\* It is created.
LEMMA CreateDefaultStep ==
  ASSUME IInv, NEW r \in Requests,
         CreateDefault(r)
  PROVE  IInv'
<1>1. Types'
  BY DEF IInv, Types, Rows, Texts, Targets, PC, RowLife, EditEventStatus, ImageDiscriminator,
     CreateDefault, Goto, media
<1>2. \A q \in Requests : RequestControl(q)'
  <2>1. PICK p \in Projects : row[p] = "unused" /\ row' = [row EXCEPT ![p] = "live"]
                              /\ on' = [on EXCEPT ![r] = p]
    BY DEF CreateDefault
  <2>. USE DEF IInv, Types, CreateDefault, Goto
  <2>2. /\ pc[r] = "creating" /\ pc' = [pc EXCEPT ![r] = "committed"] /\ op[r] = "default_project"
        /\ UNCHANGED <<op, event, image, blobs, known, cast, deleted, joins>>
    BY DEF media, RequestControl, CreateDefault
  <2>3. RequestControl(r)'
    BY <2>1, <2>2 DEF RequestControl, Fits, Holding, ImageOps, ContentOps, RenderOps, RereadOps,
       UploadOps, CanonicalOps, Rows
  <2>4. ASSUME NEW q \in Requests \ {r} PROVE RequestControl(q)'
    <3>1. RequestControl(q)
      OBVIOUS
    <3>2. UNCHANGED <<pc[q], op[q], on[q]>>
      BY <2>1, <2>2
    <3>3. \A i \in deleted[q] : pc[q] \in {"purged", "locked"} => on'[i] = on[q]
      BY <2>1, <2>2, StoreAssumption DEF RequestControl, Fits, Targets, Texts, Rows
    <3>. QED BY <2>1, <2>2, <3>1, <3>2, <3>3 DEF RequestControl, Fits, Live, Rows
  <2>. QED BY <2>3, <2>4
<1>3. Exclusive'
  BY DEF IInv, Types, RequestControl, Live, Exclusive, CreateDefault, Goto
<1>4. RowControl'
  BY StoreAssumption DEF IInv, Rows, Texts, Targets, Live, RowControl, CreateDefault, Goto
<1>5. ContentIsAudited'
  BY DEF IInv, ContentIsAudited, CreateDefault
<1>6. CastMatchesContent'
  BY DEF IInv, RequestControl, Live, CastMatchesContent, CreateDefault
<1>7. CanonicalIsOwnRender'
  BY DEF IInv, RequestControl, CanonicalIsOwnRender, CreateDefault, media
<1>8. RendersAreCanonicalised'
  BY DEF IInv, RequestControl, Live, RendersAreCanonicalised, ImagesOf, CreateDefault, media
<1>9. ImagesAreAccounted'
  BY DEF IInv, RequestControl, Live, ImagesAreAccounted, CreateDefault, media
<1>. QED BY <1>1, <1>2, <1>3, <1>4, <1>5, <1>6, <1>7, <1>8, <1>9 DEF IInv

-----------------------------------------------------------------------------
\* A transaction rolled back by a failed flush leaves the rows as they are.
LEMMA AbortStep ==
  ASSUME IInv, NEW r \in Requests, pc[r] \notin {"ready", "committed", "done"}, Abort(r)
  PROVE  IInv'
BY EndStep DEF Abort, Respond, Goto

\* An answer with nothing left to write.
LEMMA RespondStep ==
  ASSUME IInv, NEW r \in Requests, pc[r] # "ready", NEW o, NEW e, Respond(r, o, e),
         UNCHANGED <<rows, event, media, call>>
  PROVE  IInv'
BY EndStep DEF Respond, Goto, media, call

\* Steps of generation, refinement and deletion of panels.
LEMMA NextPanelStep ==
  ASSUME IInv, NEW r \in Requests, NextPanel(r)
  PROVE  IInv'
<1>. USE DEF Rows, Texts, Targets
<1>1. ASSUME NEW s \in Stories, GeneratePanels(r, s) PROVE IInv'
  <2>1. CharactersOf(s) \subseteq Characters /\ \A k \in CharactersOf(s) : Live(k)
    BY DEF CharactersOf
  <2>2. ASSUME NEW e, Refuse(r, "generate_panels", s, e) PROVE IInv'
    BY <2>2, RefuseStep DEF Fits, ImageOps, ContentOps, RenderOps, RereadOps, UploadOps, CanonicalOps
  <2>3. CASE /\ Live(s) /\ Begin(r, "generate_panels", s) /\ Goto(r, "model")
             /\ known' = [known EXCEPT ![r] = CharactersOf(s)]
             /\ UNCHANGED <<rows, event, media, cast, deleted>>
    BY <2>1, <2>3, AskModelStep
  <2>. QED BY <1>1, <2>2, <2>3 DEF GeneratePanels
<1>2. ASSUME NEW p \in Panels, GeneratePanel(r, p) \/ RefinePanel(r, p) PROVE IInv'
  <2>. USE DEF Fits, ImageOps, ContentOps, RenderOps, RereadOps, UploadOps, CanonicalOps
  <2>1. ASSUME NEW s PROVE CharactersOf(s) \subseteq Characters /\ \A k \in CharactersOf(s) : Live(k)
    BY DEF CharactersOf
  <2>2. ASSUME NEW o \in ContentOps, NEW e, Refuse(r, o, p, e) PROVE IInv'
    BY <2>2, RefuseStep
  <2>3. ASSUME NEW o \in ContentOps, Live(p), OpenEvent(r, o, p, CharactersOf(Parent[p])) PROVE IInv'
    BY <2>1, <2>3, OpenEventStep
  <2>. QED BY <1>2, <2>2, <2>3 DEF GeneratePanel, RefinePanel
<1>3. ASSUME NEW p \in Panels, DeletePanel(r, p) PROVE IInv'
  <2>1. CASE Refuse(r, "delete_panel", p, "not_found")
    BY <2>1, RefuseStep DEF Fits, ImageOps, ContentOps, RenderOps, RereadOps, UploadOps, CanonicalOps
  <2>2. CASE ~Refuse(r, "delete_panel", p, "not_found")
    BY <1>3, <2>2, DeletePanelStep DEF DeletePanel
  <2>. QED BY <2>1, <2>2
<1>4. CASE CommitPanels(r)
  BY <1>4, CommitPanelsStep, AbortStep DEF CommitPanels
<1>5. CASE TouchPanel(r)
  BY <1>5, TouchPanelStep, AbortStep DEF TouchPanel
<1>6. CASE CommitContent(r)
  BY <1>6, CommitContentStep, AbortStep DEF CommitContent
<1>7. CASE FinishPanels(r)
  BY <1>7, RespondStep DEF FinishPanels
<1>8. CASE FinishContent(r)
  <2>1. image[r] = "none" /\ op[r] # "generate_panels" /\ pc[r] # "ready"
    BY <1>8 DEF FinishContent, IInv, Types, RequestControl, ImageDiscriminator, ContentOps, RenderOps,
                RereadOps, UploadOps
  <2>2. CASE Live(on[r])
    BY <1>8, <2>1, <2>2, RespondStep DEF FinishContent, media
  <2>3. CASE ~Live(on[r])
    BY <1>8, <2>1, <2>3, FailEventStep DEF FinishContent
  <2>. QED BY <2>2, <2>3
<1>. QED BY <1>1, <1>2, <1>3, <1>4, <1>5, <1>6, <1>7, <1>8, DeleteCastStep, CommitDeletePanelStep
     DEF NextPanel

\* Steps that write characters.
LEMMA NextCharacterStep ==
  ASSUME IInv, NEW r \in Requests, NextCharacter(r)
  PROVE  IInv'
<1>. USE DEF Rows, Texts, Targets, Fits, ImageOps, ContentOps, RenderOps, RereadOps, UploadOps,
         CanonicalOps
<1>1. ASSUME NEW s \in Stories, ExtractCharacters(r, s) PROVE IInv'
  <2>1. ASSUME NEW e, Refuse(r, "extract_characters", s, e) PROVE IInv'
    BY <2>1, RefuseStep
  <2>2. CASE /\ Live(s) /\ Begin(r, "extract_characters", s) /\ Goto(r, "model")
             /\ UNCHANGED <<rows, event, media, known, cast, deleted>>
    <3>1. {} \in SUBSET Characters /\ (\A k \in {} : Live(k)) /\ known' = known
      BY <2>2
    <3>. QED BY <2>2, <3>1, AskModelStep
  <2>. QED BY <1>1, <2>1, <2>2 DEF ExtractCharacters
<1>2. ASSUME NEW c \in Characters, NEW o \in {"refine_character", "update_character",
             "delete_character"},
             NEW e, Refuse(r, o, c, e)
      PROVE  IInv'
  BY <1>2, RefuseStep
<1>3. ASSUME NEW c \in Characters, RefineCharacter(r, c) PROVE IInv'
  <2>1. CASE Live(c) /\ OpenEvent(r, "refine_character", c, {})
    BY <2>1, OpenEventStep
  <2>. QED BY <1>2, <1>3, <2>1 DEF RefineCharacter
<1>4. ASSUME NEW c \in Characters, UpdateCharacter(r, c) PROVE IInv'
  BY <1>2, <1>4, UpdateCharacterStep DEF UpdateCharacter
<1>5. ASSUME NEW c \in Characters, DeleteCharacter(r, c) PROVE IInv'
  BY <1>2, <1>5, DeleteCharacterStep DEF DeleteCharacter
<1>6. CASE CommitCharacters(r)
  BY <1>6, CommitCharactersStep, AbortStep DEF CommitCharacters
<1>7. image[r] = "none" \/ op[r] # "refine_character"
  BY DEF IInv, Types, RequestControl, ImageDiscriminator
<1>8. CASE CommitRefinement(r)
  <2>1. CASE Live(on[r])
    BY <1>8, <2>1, CommitRefinementStep DEF CommitRefinement
  <2>2. CASE ~Live(on[r])
    BY <1>7, <1>8, <2>2, FailEventStep DEF CommitRefinement
  <2>. QED BY <2>1, <2>2
<1>9. CASE FinishRefinement(r)
  <2>1. CASE Live(on[r])
    BY <1>9, <2>1, RespondStep DEF FinishRefinement, media
  <2>2. CASE ~Live(on[r])
    BY <1>7, <1>9, <2>2, FailEventStep DEF FinishRefinement
  <2>. QED BY <2>1, <2>2
<1>. QED BY <1>1, <1>3, <1>4, <1>5, <1>6, <1>8, <1>9 DEF NextCharacter

\* Steps that make, choose and delete images.
LEMMA NextRenderStep ==
  ASSUME IInv, NEW r \in Requests, NextRender(r)
  PROVE  IInv'
<1>. USE DEF Rows, Texts, Targets
<1>1. ASSUME NEW o, NEW t \in Targets, NEW e, Refuse(r, o, t, e),
             o \in {"delete_panel_reference", "delete_character_reference"} \cup ImageOps \cup
                      CanonicalOps
      PROVE  IInv'
  BY <1>1, RefuseStep DEF Fits, ImageOps, ContentOps, RenderOps, RereadOps, UploadOps, CanonicalOps
<1>2. ASSUME NEW o \in RenderOps, NEW t \in Targets, Live(t), OpenEvent(r, o, t, {})
      PROVE  IInv'
  <2>1. Fits(o, t) /\ o # "default_project" /\ {} \in SUBSET Characters /\ \A k \in {} : Live(k)
    BY DEF Fits, ImageOps, ContentOps, RenderOps, RereadOps, UploadOps, CanonicalOps
  <2>. QED BY <1>2, <2>1, OpenEventStep
<1>3. ASSUME NEW p \in Panels, NEW i, NEW j, RenderPanel(r, p) \/ RenderPanelEdit(r, p, i, j) PROVE
             IInv'
  BY <1>1, <1>2, <1>3 DEF RenderPanel, RenderPanelEdit, ImageOps, RenderOps, RereadOps
<1>4. ASSUME NEW c \in Characters, NEW i, NEW j, RenderCharacter(r, c) \/ RenderCharacterEdit(r, c,
             i, j)
      PROVE  IInv'
  BY <1>1, <1>2, <1>4 DEF RenderCharacter, RenderCharacterEdit, ImageOps, RenderOps, RereadOps
<1>5. ASSUME NEW o \in UploadOps, NEW t \in Targets, Upload(r, o, t) PROVE IInv'
  BY <1>1, <1>5, UploadStep DEF Upload, ImageOps
<1>6. ASSUME NEW o \in CanonicalOps, NEW t \in Targets, NEW i \in Requests, SetCanonical(r, o, t, i)
      PROVE  IInv'
  BY <1>1, <1>6, SetCanonicalStep DEF SetCanonical
<1>7. ASSUME NEW o \in {"delete_panel_reference", "delete_character_reference"}, NEW t \in Targets,
             NEW i \in Requests, DeleteReference(r, o, t, i)
      PROVE  IInv'
  <2>1. Fits(o, t)
    BY DEF Fits, ImageOps, ContentOps, RenderOps, RereadOps, UploadOps, CanonicalOps
  <2>. QED BY <1>1, <1>7, <2>1, DeleteReferenceStep DEF DeleteReference
<1>8. CASE LinkRender(r)
  BY <1>8, AbortStep, MarkLinkedStep, LinkFailsStep DEF LinkRender
<1>9. CASE CommitRender(r)
  BY <1>9, CommitRenderStep, AbortStep DEF CommitRender
<1>10. CASE FinishRender(r)
  <2>1. op[r] # "generate_panels" /\ pc[r] # "ready"
    BY <1>10 DEF FinishRender, RenderOps, RereadOps
  <2>2. event[r] = "succeeded" /\ Live(on[r]) => image[r] = "render"
    BY <1>10 DEF FinishRender, IInv, ImagesAreAccounted
  <2>. QED BY <1>10, <2>1, <2>2, FailEventStep, RespondStep DEF FinishRender, media
<1>11. CASE FinishSetCanonical(r) \/ FinishUpload(r)
  BY <1>11, RespondStep DEF FinishSetCanonical, FinishUpload
<1>12. ASSUME NEW t \in Targets, NEW i \in Requests,
              \/ UploadPanelReference(r, t) \/ UploadCharacterReference(r, t)
              \/ SetCanonicalPanel(r, t, i) \/ SetCanonicalCharacter(r, t, i)
              \/ DeletePanelReference(r, t, i) \/ DeleteCharacterReference(r, t, i)
       PROVE  IInv'
  BY <1>5, <1>6, <1>7, <1>12
  DEF UploadPanelReference, UploadCharacterReference, SetCanonicalPanel, SetCanonicalCharacter,
      DeletePanelReference, DeleteCharacterReference, UploadOps, CanonicalOps
<1>. QED
  BY <1>3, <1>4, <1>8, <1>9, <1>10, <1>11, <1>12, StoreRenderStep, CommitUploadStep
  DEF NextRender

\* Steps of stories and projects.
LEMMA NextStoryStep ==
  ASSUME IInv, NEW r \in Requests, NextStory(r)
  PROVE  IInv'
<1>. USE DEF Rows, Texts
<1>1. ASSUME NEW o \in {"create_story", "delete_story", "delete_project"}, NEW x \in Rows, NEW e,
             Refuse(r, o, x, e)
      PROVE  IInv'
  BY <1>1, RefuseStep DEF Fits, ImageOps, ContentOps, RenderOps, RereadOps, UploadOps, CanonicalOps
<1>2. ASSUME NEW s \in Stories, GenerateStory(r, s) PROVE IInv'
  <2>1. Fits("generate_story", s) /\ {} \in SUBSET Characters /\ \A k \in {} : Live(k)
    BY DEF Fits, ImageOps, ContentOps, RenderOps, RereadOps, UploadOps, CanonicalOps
  <2>. QED BY <1>2, <2>1, RefuseStep, OpenEventStep DEF GenerateStory
<1>3. ASSUME NEW s \in Stories, DeleteStory(r, s) PROVE IInv'
  BY <1>1, <1>3, DeleteStoryStep DEF DeleteStory
<1>4. ASSUME NEW p \in Projects, CreateStory(r, p) PROVE IInv'
  <2>1. ASSUME NEW s \in Unused(Stories, p) PROVE s \in Stories /\ row[s] = "unused"
    BY DEF Unused
  <2>. QED BY <1>1, <1>4, <2>1, CreateStoryStep DEF CreateStory
<1>5. ASSUME NEW p \in Projects, DeleteProject(r, p) PROVE IInv'
  BY <1>1, <1>5, DeleteProjectStep DEF DeleteProject
<1>6. CASE StreamStops(r) \/ FinishCreateStory(r) \/ FinishDefault(r)
  BY <1>6, RespondStep DEF StreamStops, FinishCreateStory, FinishDefault
<1>7. CASE CommitStory(r)
  <2>1. CASE Live(on[r])
    BY <1>7, <2>1, CommitStoryStep DEF CommitStory
  <2>2. CASE ~Live(on[r])
    <3>1. op[r] = "generate_story"
      BY <1>7 DEF CommitStory, IInv, RequestControl
    <3>. QED BY <1>7, <2>2, <3>1, FailEventStep DEF CommitStory
  <2>. QED BY <2>1, <2>2
<1>. QED BY <1>2, <1>3, <1>4, <1>5, <1>6, <1>7, CreateProjectStep, DefaultProjectStep,
         CreateDefaultStep,
        StreamEndStep DEF NextStory

\* Every state the engine starts in satisfies the invariant.
LEMMA InitIInv == Init => IInv
<1>. SUFFICES ASSUME Init PROVE IInv
  OBVIOUS
<1>. USE StoreAssumption DEF Init, Rows, Texts, Targets
<1>1. Types
  BY DEF Types, RowLife, EditEventStatus, ImageDiscriminator, PC
<1>2. \A r \in Requests : RequestControl(r)
  BY DEF RequestControl, Fits, ImageOps, ContentOps, RenderOps, RereadOps, UploadOps, CanonicalOps,
           Holding
<1>3. Exclusive /\ RowControl
  BY DEF Exclusive, RowControl, Holding
<1>4. ContentIsAudited /\ CastMatchesContent
  BY DEF ContentIsAudited, CastMatchesContent
<1>5. CanonicalIsOwnRender /\ RendersAreCanonicalised /\ ImagesAreAccounted
  BY DEF CanonicalIsOwnRender, RendersAreCanonicalised, ImagesAreAccounted, ImagesOf
<1>. QED BY <1>1, <1>2, <1>3, <1>4, <1>5 DEF IInv

\* Every step keeps it.
LEMMA StepIInv == IInv /\ [Next]_vars => IInv'
<1>. SUFFICES ASSUME IInv, [Next]_vars PROVE IInv'
  OBVIOUS
<1>1. ASSUME NEW r \in Requests, ModelFails(r) PROVE IInv'
  <2>1. pc[r] # "ready" /\ image[r] = "none" /\ event[r] # "succeeded"
    BY <1>1 DEF ModelFails, IInv, RequestControl
  <2>. QED BY <1>1, <2>1, FailEventStep DEF ModelFails
<1>2. ASSUME NEW r \in Requests, Vanish(r) PROVE IInv'
  <2>1. cast' \in {cast, [cast EXCEPT ![r] = {}]} /\ (pc[r] = "committed" => cast' = cast)
    BY <1>2 DEF Vanish, IInv, Types
  <2>. QED BY <1>2, <2>1, EndStep DEF Vanish, Goto, media
<1>3. CASE UNCHANGED vars
  <2>. USE <1>3 DEF vars, rows, media, call
  <2>1. Types' /\ \A r \in Requests : RequestControl(r)'
    BY DEF IInv, Types, RequestControl, Fits, Live
  <2>2. Exclusive' /\ RowControl'
    BY DEF IInv, Exclusive, RowControl, Live
  <2>3. ContentIsAudited' /\ CastMatchesContent'
    BY DEF IInv, ContentIsAudited, CastMatchesContent, Live
  <2>4. CanonicalIsOwnRender' /\ RendersAreCanonicalised' /\ ImagesAreAccounted'
    BY DEF IInv, CanonicalIsOwnRender, RendersAreCanonicalised, ImagesAreAccounted, ImagesOf, Live
  <2>. QED BY <2>1, <2>2, <2>3, <2>4 DEF IInv
<1>. QED BY <1>1, <1>2, <1>3, NextPanelStep, NextCharacterStep, NextRenderStep, NextStoryStep
     DEF Next, Quiescent

\* The invariant holds in every state of the engine.
THEOREM Invariance == Spec => []IInv
<1>. QED BY InitIInv, StepIInv, PTL DEF Spec

\* What a row says it comes from is an edit recorded as a success.
THEOREM ContentHasItsEvent == Spec => []ContentIsAudited
<1>1. IInv => ContentIsAudited
  BY DEF IInv
<1>. QED BY <1>1, Invariance, PTL

\* The panel's row lock keeps its join rows and its content from one answer of the model.
THEOREM CastIsOfOneAnswer == Spec => []CastMatchesContent
<1>1. IInv => CastMatchesContent
  BY DEF IInv
<1>. QED BY <1>1, Invariance, PTL

\* No pointer names an image that failed, was deleted or belongs to another row.
THEOREM CanonicalIsSound == Spec => []CanonicalIsOwnRender
<1>1. IInv => CanonicalIsOwnRender
  BY DEF IInv
<1>. QED BY <1>1, Invariance, PTL

\* A live row with renders has a pointer, after any interleaving of renders and deletions.
THEOREM RendersHavePointer == Spec => []RendersAreCanonicalised
<1>1. IInv => RendersAreCanonicalised
  BY DEF IInv
<1>. QED BY <1>1, Invariance, PTL

\* A success has its image, and an image its object and its success, while the target is
\* there.
THEOREM ImagesHaveEvents == Spec => []ImagesAreAccounted
<1>1. IInv => ImagesAreAccounted
  BY DEF IInv
<1>. QED BY <1>1, Invariance, PTL
=============================================================================
