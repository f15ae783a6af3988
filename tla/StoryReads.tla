----------------------------- MODULE StoryReads -----------------------------
(***************************************************************************)
(* Calls that read a story while requests write it: the panels or the      *)
(* characters of a story, one of them, the images of one, and the three    *)
(* exports (service/export_service.py).  Each statement of a reader sees   *)
(* what has been committed by then, and its session keeps the rows it has  *)
(* loaded as they were.  The reference images shown beside a character,    *)
(* dialogue and the layout of pages are not modelled.                      *)
(***************************************************************************)
EXTENDS StoryEngine

CONSTANT Readers

VARIABLES
    asked, about,   \* reader: its call and the story or row it is about
    stage, reply,   \* reader: control and status code
    listed,         \* reader: rows it has loaded
    pointer,        \* reader: canonical_render_id of those rows as loaded
    ahead,          \* reader: rows whose render it has still to look up
    looking,        \* reader: the row it is looking at
    found,          \* reader: the render it has for a row, or None
    album,          \* reader: images it has listed
    since           \* renders that were canonical at some time since the rows were loaded

reading == <<asked, about, stage, reply, listed, pointer, ahead, looking, found, album>>
allVars == <<vars, reading, since>>

AlbumAsks == {"render", "reference"}     \* the images of a row, of one kind
Asks == {"list_panels", "get_panel", "list_characters", "get_character", "export"} \cup AlbumAsks
Stages == {"ready", "story", "rows", "row", "objects", "done"}

InitReaders ==
    /\ asked = [x \in Readers |-> "none"] /\ about = [x \in Readers |-> None]
    /\ stage = [x \in Readers |-> "ready"] /\ reply = [x \in Readers |-> None]
    /\ listed = [x \in Readers |-> {}]
    /\ pointer = [x \in Readers |-> [t \in Targets |-> None]]
    /\ ahead = [x \in Readers |-> {}]
    /\ looking = [x \in Readers |-> None]
    /\ found = [x \in Readers |-> [t \in Targets |-> None]]
    /\ album = [x \in Readers |-> {}]
    /\ since = [x \in Readers |-> {}]
InitReads == Init /\ InitReaders

\* Mutant: an unrendered panel is a conflict.
ReadStatus_Conflict == [ok |-> 200, no_render |-> 409, not_found |-> 404, other |-> 500]

ReadStatus == [ok |-> 200, no_render |-> 422, not_found |-> 404, other |-> 500]

Stage(x, label) == stage' = [stage EXCEPT ![x] = label]
Reply(x, outcome) == Stage(x, "done") /\ reply' = [reply EXCEPT ![x] = ReadStatus[outcome]]

-----------------------------------------------------------------------------
StoryOf(y) == IF y \in Stories THEN y ELSE Parent[y]

Open(x, ask, y) ==
    /\ stage[x] = "ready"
    /\ asked' = [asked EXCEPT ![x] = ask]
    /\ about' = [about EXCEPT ![x] = y]
    /\ UNCHANGED <<listed, pointer, ahead, looking, found, album>>

\* get_story opens the calls about stories and panels and the reading of a character.
FindStory(x, ask, y) ==
    /\ Open(x, ask, y)
    /\ \/ ~Live(StoryOf(y)) /\ Reply(x, "not_found")
       \/ Live(StoryOf(y)) /\ Stage(x, "story") /\ UNCHANGED reply

\* The images of a character are listed without it: the statement that loads the
\* character is the first.
SkipStory(x, ask, c) == Open(x, ask, c) /\ Stage(x, "story") /\ UNCHANGED reply

ListPanels(x, s) == FindStory(x, "list_panels", s)
GetPanel(x, p) == FindStory(x, "get_panel", p)
ListCharacters(x, s) == FindStory(x, "list_characters", s)
GetCharacter(x, c) == FindStory(x, "get_character", c)
Export(x, s) == FindStory(x, "export", s)
PanelRenders(x, p) == FindStory(x, "render", p)
PanelReferences(x, p) == FindStory(x, "reference", p)
CharacterRenders(x, c) == SkipStory(x, "render", c)
CharacterReferences(x, c) == SkipStory(x, "reference", c)

PanelsOf(s) == {p \in Panels : Live(p) /\ Parent[p] = s}

\* The statement of each call that loads its rows.
RowsFor(x) ==
    CASE asked[x] \in {"list_panels", "export"} -> PanelsOf(about[x])
      [] asked[x] = "list_characters" -> CharactersOf(about[x])
      [] OTHER -> {t \in {about[x]} : Live(t)}

\* A story deleted after it was found has no rows: that is an empty answer.
LoadRows(x) ==
    /\ stage[x] = "story"
    /\ \/ /\ RowsFor(x) = {} /\ about[x] \in Targets
          /\ Reply(x, "not_found")
          /\ UNCHANGED <<listed, pointer, ahead>>
       \/ /\ RowsFor(x) # {} \/ about[x] \in Stories
          /\ listed' = [listed EXCEPT ![x] = RowsFor(x)]
          /\ ahead' = [ahead EXCEPT ![x] = RowsFor(x)]
          /\ pointer' = [pointer EXCEPT ![x] =
                [t \in Targets |-> IF t \in RowsFor(x) THEN canonical[t] ELSE None]]
          /\ Stage(x, "rows")
          /\ UNCHANGED reply
    /\ UNCHANGED <<asked, about, looking, found, album>>

\* get_panel_by_id, get_character_by_id: a row that is still there is the loaded one,
\* with the pointer it had then; for one that is gone there is no pointer.
LookUp(x) ==
    /\ stage[x] = "rows" /\ asked[x] \notin AlbumAsks
    /\ \E t \in ahead[x] :
        /\ looking' = [looking EXCEPT ![x] = t]
        /\ ahead' = [ahead EXCEPT ![x] = @ \ {t}]
        /\ pointer' = [pointer EXCEPT ![x][t] = IF Live(t) THEN @ ELSE None]
    /\ Stage(x, "row")
    /\ UNCHANGED <<asked, about, reply, listed, found, album>>

\* Mutant: the newest render is taken whatever the pointer says.
ReadImage_Newest(x) ==
    LET t == looking[x]
    IN /\ stage[x] = "row"
       /\ \/ ImagesOf(t, "render") = {} /\ UNCHANGED found
          \/ \E j \in ImagesOf(t, "render") : found' = [found EXCEPT ![x][t] = j]
       /\ Stage(x, "rows")
       /\ UNCHANGED <<asked, about, reply, listed, pointer, ahead, looking, album>>

\* Mutant: without a pointer, any image of the row serves.
ReadImage_AnyKind(x) ==
    LET t == looking[x]
        i == pointer[x][t]
        candidates == ImagesOf(t, "render") \cup ImagesOf(t, "reference")
    IN /\ stage[x] = "row"
       /\ \/ i # None /\ found' = [found EXCEPT ![x][t] = IF image[i] # "none" THEN i ELSE None]
          \/ i = None /\ candidates = {} /\ UNCHANGED found
          \/ i = None /\ \E j \in candidates : found' = [found EXCEPT ![x][t] = j]
       /\ Stage(x, "rows")
       /\ UNCHANGED <<asked, about, reply, listed, pointer, ahead, looking, album>>

\* Mutant: a row without a pointer has no render.
ReadImage_NoFallback(x) ==
    LET i == pointer[x][looking[x]]
    IN /\ stage[x] = "row"
       /\ IF i = None THEN UNCHANGED found ELSE found' = [found EXCEPT ![x][looking[x]] = i]
       /\ Stage(x, "rows")
       /\ UNCHANGED <<asked, about, reply, listed, pointer, ahead, looking, album>>

\* get_image of the pointer, or else the newest render, if there is any (the order in
\* which images were created is not modelled).
ReadImage(x) ==
    LET t == looking[x]
        i == pointer[x][t]
    IN /\ stage[x] = "row"
       /\ \/ i # None /\ found' = [found EXCEPT ![x][t] = IF image[i] # "none" THEN i ELSE None]
          \/ i = None /\ ImagesOf(t, "render") = {} /\ UNCHANGED found
          \/ i = None /\ \E j \in ImagesOf(t, "render") : found' = [found EXCEPT ![x][t] = j]
       /\ Stage(x, "rows")
       /\ UNCHANGED <<asked, about, reply, listed, pointer, ahead, looking, album>>

AllRead(x) == stage[x] = "rows" /\ ahead[x] = {}

FinishRead(x) ==
    /\ AllRead(x) /\ asked[x] \notin AlbumAsks \cup {"export"}
    /\ Reply(x, "ok")
    /\ UNCHANGED <<asked, about, listed, pointer, ahead, looking, found, album>>

Missing(x) == {t \in listed[x] : found[x][t] = None}

\* _get_panels_for_export: a panel without a render is an ExportError.
CheckExport(x) ==
    /\ AllRead(x) /\ asked[x] = "export"
    /\ \/ Missing(x) # {} /\ Reply(x, "no_render")
       \/ Missing(x) = {} /\ Stage(x, "objects") /\ UNCHANGED reply
    /\ UNCHANGED <<asked, about, listed, pointer, ahead, looking, found, album>>

\* The objects are downloaded and pages made of them; the bucket or the imaging library
\* may fail.
MakePages(x) ==
    /\ stage[x] = "objects"
    /\ \/ Reply(x, "other")
       \/ (\A t \in listed[x] : found[x][t] \in blobs) /\ Reply(x, "ok")
    /\ UNCHANGED <<asked, about, listed, pointer, ahead, looking, found, album>>

\* get_renders_for_target, get_panel_reference_images, get_character_reference_images
ListImages(x) ==
    /\ stage[x] = "rows" /\ asked[x] \in AlbumAsks
    /\ album' = [album EXCEPT ![x] = ImagesOf(about[x], asked[x])]
    /\ Reply(x, "ok")
    /\ UNCHANGED <<asked, about, listed, pointer, ahead, looking, found>>

Read(x) ==
    \/ \E s \in Stories : ListPanels(x, s) \/ ListCharacters(x, s) \/ Export(x, s)
    \/ \E p \in Panels : GetPanel(x, p) \/ PanelRenders(x, p) \/ PanelReferences(x, p)
    \/ \E c \in Characters :
        GetCharacter(x, c) \/ CharacterRenders(x, c) \/ CharacterReferences(x, c)
    \/ LoadRows(x) \/ LookUp(x) \/ ReadImage(x) \/ ListImages(x)
    \/ FinishRead(x) \/ CheckExport(x) \/ MakePages(x)

\* Auxiliary: from the load of its rows on, what has been canonical.
Pointers == {canonical[t] : t \in Targets} \ {None}
Follow ==
    since' = [x \in Readers |->
        IF stage'[x] \in {"ready", "story"} THEN {} ELSE since[x] \cup Pointers']

NextReads ==
    /\ \/ Next /\ UNCHANGED reading
       \/ \E x \in Readers : Read(x) /\ UNCHANGED vars
    /\ Follow

SpecReads == InitReads /\ [][NextReads]_allVars

-----------------------------------------------------------------------------
ReadTypeOK ==
    /\ asked \in [Readers -> Asks \cup {"none"}]
    /\ about \in [Readers -> Texts \cup {None}]
    /\ stage \in [Readers -> Stages]
    /\ reply \in [Readers -> {200, 404, 422, 500, None}]
    /\ listed \in [Readers -> SUBSET Targets]
    /\ pointer \in [Readers -> [Targets -> Requests \cup {None}]]
    /\ ahead \in [Readers -> SUBSET Targets]
    /\ looking \in [Readers -> Targets \cup {None}]
    /\ found \in [Readers -> [Targets -> Requests \cup {None}]]
    /\ album \in [Readers -> SUBSET Requests]
    /\ since \in [Readers -> SUBSET Requests]

\* What a reader shows for a row is a render of that row whose object is in the bucket,
\* so are the images it lists, and an export goes to the bucket with a render for every
\* panel it has listed: no write that commits in between makes it ask for an object that
\* is not there.
OwnRender(i, t) == i \in blobs /\ on[i] = t /\ op[i] \in RenderOps
Exported(x) ==
    /\ asked[x] = "export"
    /\ stage[x] = "objects" \/ (stage[x] = "done" /\ reply[x] = 200)
ExportsAreWhole ==
    \A x \in Readers :
        /\ \A t \in Targets :
            \/ OwnRender(found[x][t], t)
            \/ found[x][t] = None /\ ~(t \in listed[x] /\ Exported(x))
        /\ \A i \in album[x] : i \in blobs /\ on[i] = about[x]

\* The render shown for a row that is still there was its canonical one at some time
\* during the call: the pointer loaded first and the image read last, with commits in
\* between, never bring back a render that had been replaced before.
ShownWasCanonical ==
    \A x \in Readers : \A t \in Targets :
        found[x][t] # None => found[x][t] \in since[x] \/ ~Live(t)

\* A reader finds no render only where there is none at that moment, or for a row that
\* is gone: a panel is never called unrendered because its pointer is out of date.
GapsAreReal ==
    [][\A x \in Readers : \A t \in Targets :
        stage[x] = "row" /\ stage'[x] = "rows" /\ looking[x] = t /\ found'[x][t] = None =>
            ~Live(t) \/ ImagesOf(t, "render") = {}]_allVars
=============================================================================
