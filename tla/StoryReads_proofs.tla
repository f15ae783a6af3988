-------------------------- MODULE StoryReads_proofs --------------------------
(***************************************************************************)
(* What a call that reads a story shows, whatever is written between its   *)
(* statements.  The invariant follows a row from its load to its image: a  *)
(* pointer that was loaded stays a pointer to a render of that row, and    *)
(* renders a row did not have when it was loaded became canonical since.   *)
(***************************************************************************)
EXTENDS StoryReads, StoryAnswers_proofs

\* What a reader has read by each stage, and what is still true of it.
ReaderControl(x) ==
    /\ stage[x] \in {"ready", "story"} => listed[x] = {} /\ album[x] = {}
    /\ stage[x] # "done" => reply[x] = None
    /\ stage[x] = "objects" => asked[x] = "export"
    /\ stage[x] # "ready" /\ asked[x] \notin {"list_panels", "list_characters", "export"} =>
         about[x] \in Targets
    /\ ahead[x] \subseteq listed[x]
    /\ stage[x] = "row" => looking[x] \in listed[x]
    /\ Exported(x) => Missing(x) = {}
    /\ \A t \in listed[x] : row[t] # "unused"
    /\ \A i \in album[x] : i \in blobs /\ on[i] = about[x] /\ about[x] \in Targets

\* A row as loaded: its pointer is to a render of its own that was canonical meanwhile,
\* and is there as long as the row is; without a pointer, all its renders came after.
RowControlled(x, t) ==
    LET i == pointer[x][t] IN
    /\ i # None => /\ t \in listed[x] /\ i \in since[x] /\ OwnRender(i, t)
                   /\ Live(t) => image[i] = "render"
    /\ t \in listed[x] /\ i = None /\ Live(t) => ImagesOf(t, "render") \subseteq since[x]

\* The render found for it.
FoundControlled(x, t) ==
    found[x][t] # None => /\ t \in listed[x] /\ OwnRender(found[x][t], t)
                          /\ found[x][t] \in since[x] \/ ~Live(t)

RInv ==
    /\ AInv
    /\ ReadTypeOK
    /\ \A x \in Readers : ReaderControl(x)
    /\ \A x \in Readers : \A t \in Targets : RowControlled(x, t) /\ FoundControlled(x, t)

-----------------------------------------------------------------------------
\* A request that has an image, or an object in the bucket, keeps its target.
LEMMA ImagesStay ==
  ASSUME AInv, StepFrame, NEW i \in Requests, on[i] \in Targets
  PROVE  on'[i] = on[i] /\ op'[i] = op[i]
BY StoreAssumption DEF StepFrame, AInv, IInv, RequestControl, Rows, Texts

\* Rows there were when they were loaded do not come back.
LEMMA LiveBefore ==
  ASSUME StepFrame, NEW t \in Targets, row[t] # "unused"
  PROVE  row'[t] # "unused" /\ (Live(t)' => Live(t))
BY DEF StepFrame, Live, Rows, Texts

\* A reader that is not the one to step keeps what it relies on.
LEMMA ReaderKeeps ==
  ASSUME RInv, StepFrame, ReadTypeOK', Follow, NEW x \in Readers,
         UNCHANGED <<asked[x], about[x], stage[x], reply[x], listed[x], pointer[x], ahead[x],
                     looking[x], found[x], album[x]>>
  PROVE  ReaderControl(x)' /\ \A t \in Targets : RowControlled(x, t)' /\ FoundControlled(x, t)'
<1>. USE DEF RInv
<1>1. stage[x] \notin {"ready", "story"} => since'[x] = since[x] \cup Pointers'
  BY DEF Follow
<1>2. listed[x] \subseteq Targets /\ blobs \subseteq Requests
  BY DEF ReadTypeOK, AInv, IInv, Types
<1>3. ReaderControl(x)'
  <2>1. \A t \in listed[x] : row'[t] # "unused"
    BY <1>2, LiveBefore DEF ReaderControl
  <2>2. ASSUME NEW i \in album[x] PROVE i \in blobs' /\ on'[i] = about[x]
    BY <1>2, <2>2, ImagesStay DEF ReaderControl, StepFrame
  <2>3. Missing(x)' = Missing(x) /\ Exported(x)' = Exported(x)
    BY DEF Missing, Exported
  <2>. QED BY <2>1, <2>2, <2>3 DEF ReaderControl
<1>4. ASSUME NEW t \in Targets, NEW i, OwnRender(i, t) PROVE OwnRender(i, t)'
  BY <1>2, <1>4, ImagesStay DEF OwnRender, StepFrame
<1>5. ASSUME NEW t \in Targets PROVE RowControlled(x, t)'
  <2>. DEFINE i == pointer[x][t]
  <2>1. CASE i # None
    <3>1. /\ t \in listed[x] /\ i \in since[x] /\ OwnRender(i, t) /\ row[t] # "unused"
          /\ Live(t) => image[i] = "render"
      BY <2>1 DEF RowControlled, ReaderControl
    <3>2. i \in since'[x]
      BY <1>1, <3>1 DEF ReaderControl
    <3>3. Live(t)' => image'[i] = "render"
      BY <1>2, <3>1, LiveBefore DEF StepFrame, OwnRender, Live
    <3>. QED BY <1>4, <2>1, <3>1, <3>2, <3>3 DEF RowControlled
  <2>2. CASE i = None
    <3>1. ASSUME t \in listed[x], Live(t)', NEW j \in Requests, image'[j] = "render", on'[j] = t
          PROVE  j \in since'[x]
      <4>1. Live(t) /\ stage[x] \notin {"ready", "story"}
        BY <3>1, LiveBefore DEF ReaderControl
      <4>2. CASE image[j] = "render"
        <5>1. on[j] \in Targets
          BY <4>2 DEF AInv, IInv, RequestControl, Fits, ImageOps
        <5>2. j \in ImagesOf(t, "render")
          BY <3>1, <4>2, <5>1, ImagesStay DEF ImagesOf
        <5>. QED BY <1>1, <2>2, <3>1, <4>1, <5>2 DEF RowControlled
      <4>3. CASE image[j] # "render"
        <5>1. on[j] = t
          BY <3>1, <4>3 DEF StepFrame
        <5>2. canonical'[t] = j
          BY <3>1, <4>1, <4>3, <5>1 DEF StepFrame, Live
        <5>3. j \in Pointers'
          BY <5>2, StoreAssumption DEF Pointers
        <5>. QED BY <1>1, <4>1, <5>3
      <4>. QED BY <4>2, <4>3
    <3>. QED BY <2>2, <3>1 DEF RowControlled, ImagesOf
  <2>. QED BY <2>1, <2>2
<1>6. ASSUME NEW t \in Targets PROVE FoundControlled(x, t)'
  <2>1. CASE found[x][t] # None
    <3>1. t \in listed[x] /\ OwnRender(found[x][t], t) /\ row[t] # "unused"
      BY <2>1 DEF FoundControlled, ReaderControl
    <3>2. found[x][t] \in since'[x] \/ ~Live(t)'
      BY <1>1, <2>1, <3>1, LiveBefore DEF FoundControlled, ReaderControl
    <3>. QED BY <1>4, <3>1, <3>2 DEF FoundControlled
  <2>2. CASE found[x][t] = None
    BY <2>2 DEF FoundControlled
  <2>. QED BY <2>1, <2>2
<1>. QED BY <1>3, <1>5, <1>6

-----------------------------------------------------------------------------
Sound(x) ==
    ReaderControl(x) /\ \A t \in Targets : RowControlled(x, t) /\ FoundControlled(x, t)

\* A step of a reader: what it reads does not change, and the other readers wait.
StepOfReader(x) ==
    /\ RInv /\ UNCHANGED vars /\ Follow
    /\ since' \in [Readers -> SUBSET Requests]

Others(x) ==
    \A y \in Readers \ {x} :
        UNCHANGED <<asked[y], about[y], stage[y], reply[y], listed[y], pointer[y], ahead[y],
                    looking[y], found[y], album[y]>>

Done(x) == ReadTypeOK' /\ Others(x) /\ Sound(x)'

LEMMA SinceType ==
  ASSUME RInv, canonical' \in [Targets -> Requests \cup {None}], Follow
  PROVE  since' \in [Readers -> SUBSET Requests]
<1>1. Pointers' \subseteq Requests
  BY DEF Pointers
<1>. QED BY <1>1 DEF Follow, RInv, ReadTypeOK

LEMMA RowsAreTargets ==
  ASSUME RInv, NEW x \in Readers, stage[x] # "ready"
  PROVE  RowsFor(x) \subseteq Targets /\ \A t \in RowsFor(x) : Live(t)
<1>1. CASE asked[x] \in {"list_panels", "export"}
  BY <1>1 DEF RowsFor, PanelsOf, Targets
<1>2. CASE asked[x] = "list_characters"
  BY <1>2 DEF RowsFor, CharactersOf, Targets
<1>3. CASE asked[x] \notin {"list_panels", "list_characters", "export"}
  BY <1>3 DEF RowsFor, RInv, ReaderControl
<1>. QED BY <1>1, <1>2, <1>3

\* What a reader has of a row, when the step does not touch it.
LEMMA RowKept ==
  ASSUME NEW x \in Readers, StepOfReader(x), NEW t \in Targets,
         UNCHANGED <<pointer[x][t], listed[x]>>,
         t \in listed[x] => stage'[x] \notin {"ready", "story"}
  PROVE  RowControlled(x, t)'
<1>1. RowControlled(x, t) /\ UNCHANGED <<row, image, blobs, on, op>>
  BY DEF StepOfReader, RInv, vars, rows, media, call
<1>2. t \in listed[x] => since[x] \subseteq since'[x]
  BY DEF StepOfReader, Follow
<1>. QED BY <1>1, <1>2 DEF RowControlled, OwnRender, Live, ImagesOf

LEMMA FoundKept ==
  ASSUME NEW x \in Readers, StepOfReader(x), NEW t \in Targets,
         UNCHANGED <<found[x][t], listed[x]>>,
         t \in listed[x] => stage'[x] \notin {"ready", "story"}
  PROVE  FoundControlled(x, t)'
<1>1. FoundControlled(x, t) /\ UNCHANGED <<row, image, blobs, on, op>>
  BY DEF StepOfReader, RInv, vars, rows, media, call
<1>2. t \in listed[x] => since[x] \subseteq since'[x]
  BY DEF StepOfReader, Follow
<1>. QED BY <1>1, <1>2 DEF FoundControlled, OwnRender, Live

\* The codes of answers.
LEMMA ReadCodes ==
  /\ ReadStatus["ok"] = 200 /\ ReadStatus["no_render"] = 422
  /\ ReadStatus["not_found"] = 404 /\ ReadStatus["other"] = 500
BY DEF ReadStatus

\* A reader goes on.
LEMMA Staged ==
  ASSUME ReadTypeOK, NEW x \in Readers, NEW l \in Stages, Stage(x, l)
  PROVE  /\ stage' \in [Readers -> Stages] /\ stage'[x] = l
         /\ \A y \in Readers \ {x} : stage'[y] = stage[y]
BY DEF ReadTypeOK, Stage

\* It is answered.
LEMMA Replied ==
  ASSUME ReadTypeOK, NEW x \in Readers, NEW o \in {"ok", "no_render", "not_found", "other"},
         Reply(x, o)
  PROVE  /\ stage' \in [Readers -> Stages] /\ stage'[x] = "done"
         /\ reply' \in [Readers -> {200, 404, 422, 500, None}] /\ reply'[x] = ReadStatus[o]
         /\ \A y \in Readers \ {x} : stage'[y] = stage[y] /\ reply'[y] = reply[y]
<1>1. "done" \in Stages
  BY DEF Stages
<1>. QED BY <1>1, Staged, ReadCodes DEF ReadTypeOK, Reply

\* A call begins.
LEMMA FindStoryKeeps ==
  ASSUME NEW x \in Readers, StepOfReader(x), NEW ask \in Asks, NEW y \in Texts,
         ask \notin {"list_panels", "list_characters", "export"} => y \in Targets,
         FindStory(x, ask, y) \/ SkipStory(x, ask, y)
  PROVE  Done(x)
<1>0. ReadTypeOK /\ ReaderControl(x) /\ UNCHANGED vars
      /\ since' \in [Readers -> SUBSET Requests]
  BY DEF StepOfReader, RInv
<1>1. /\ asked' = [asked EXCEPT ![x] = ask] /\ about' = [about EXCEPT ![x] = y]
      /\ Reply(x, "not_found") \/ (Stage(x, "story") /\ reply' = reply)
      /\ UNCHANGED <<listed, pointer, ahead, looking, found, album>> /\ stage[x] = "ready"
  BY DEF FindStory, SkipStory, Open
<1>2. listed[x] = {} /\ album[x] = {} /\ ahead[x] = {} /\ reply[x] = None
  BY <1>0, <1>1 DEF ReaderControl
<1>3. /\ stage' \in [Readers -> Stages] /\ reply' \in [Readers -> {200, 404, 422, 500, None}]
      /\ \/ stage'[x] = "story" /\ reply'[x] = None
         \/ stage'[x] = "done" /\ reply'[x] = 404
      /\ \A z \in Readers \ {x} : stage'[z] = stage[z] /\ reply'[z] = reply[z]
  <2>1. CASE Reply(x, "not_found")
    BY <1>0, <2>1, Replied, ReadCodes
  <2>2. CASE Stage(x, "story") /\ reply' = reply
    <3>1. "story" \in Stages
      BY DEF Stages
    <3>2. /\ stage' \in [Readers -> Stages] /\ stage'[x] = "story"
          /\ \A z \in Readers \ {x} : stage'[z] = stage[z]
      BY <1>0, <2>2, <3>1, Staged
    <3>. QED BY <1>0, <1>2, <2>2, <3>2 DEF ReadTypeOK
  <2>. QED BY <1>1, <2>1, <2>2
<1>4. ReadTypeOK' /\ Others(x)
  <2>1. /\ asked' \in [Readers -> Asks \cup {"none"}] /\ about' \in [Readers -> Texts \cup {None}]
        /\ \A z \in Readers \ {x} : asked'[z] = asked[z] /\ about'[z] = about[z]
    BY <1>0, <1>1 DEF ReadTypeOK
  <2>2. ReadTypeOK'
    BY <1>0, <1>1, <1>3, <2>1 DEF ReadTypeOK
  <2>. QED BY <1>1, <1>3, <2>1, <2>2 DEF Others
<1>5. ReaderControl(x)'
  <2>1. asked'[x] = ask /\ about'[x] = y
    BY <1>0, <1>1 DEF ReadTypeOK
  <2>. QED BY <1>0, <1>1, <1>2, <1>3, <2>1 DEF ReaderControl, Exported
<1>6. ASSUME NEW t \in Targets PROVE RowControlled(x, t)' /\ FoundControlled(x, t)'
  BY <1>1, <1>2, RowKept, FoundKept
<1>. QED BY <1>4, <1>5, <1>6 DEF Done, Sound

\* Its rows are loaded, with their pointers.
LEMMA LoadRowsKeeps ==
  ASSUME NEW x \in Readers, StepOfReader(x), LoadRows(x)
  PROVE  Done(x)
<1>. USE ReadCodes DEF StepOfReader, RInv
<1>1. /\ stage[x] = "story" /\ listed[x] = {} /\ album[x] = {} /\ ahead[x] = {} /\ reply[x] = None
      /\ UNCHANGED <<asked, about, looking, found, album>>
  BY DEF LoadRows, ReaderControl
<1>2. RowsFor(x) \subseteq Targets /\ \A t \in RowsFor(x) : Live(t)
  BY <1>1, RowsAreTargets
<1>3. CASE Reply(x, "not_found") /\ UNCHANGED <<listed, pointer, ahead>>
  <2>1. ReadTypeOK' /\ Others(x) /\ stage'[x] = "done" /\ reply'[x] = 404
    BY <1>1, <1>3, Replied DEF ReadTypeOK, Others
  <2>2. ReaderControl(x)'
    BY <1>1, <1>3, <2>1 DEF ReaderControl, Exported
  <2>3. ASSUME NEW t \in Targets PROVE RowControlled(x, t)' /\ FoundControlled(x, t)'
    BY <1>1, <1>3, RowKept, FoundKept
  <2>. QED BY <2>1, <2>2, <2>3 DEF Done, Sound
<1>4. CASE /\ listed' = [listed EXCEPT ![x] = RowsFor(x)]
           /\ ahead' = [ahead EXCEPT ![x] = RowsFor(x)]
           /\ pointer' = [pointer EXCEPT ![x] =
                 [t \in Targets |-> IF t \in RowsFor(x) THEN canonical[t] ELSE None]]
           /\ Stage(x, "rows") /\ UNCHANGED reply
  <2>1. "rows" \in Stages
    BY DEF Stages
  <2>2. /\ stage' \in [Readers -> Stages] /\ stage'[x] = "rows"
        /\ \A y \in Readers \ {x} : stage'[y] = stage[y]
    BY <1>4, <2>1, Staged
  <2>3. /\ listed'[x] = RowsFor(x) /\ ahead'[x] = RowsFor(x)
        /\ \A t \in Targets : pointer'[x][t] = IF t \in RowsFor(x) THEN canonical[t] ELSE None
    BY <1>4 DEF ReadTypeOK
  <2>4. pointer' \in [Readers -> [Targets -> Requests \cup {None}]]
    BY <1>4 DEF ReadTypeOK, AInv, IInv, Types
  <2>5. ReadTypeOK' /\ Others(x)
    BY <1>1, <1>2, <1>4, <2>2, <2>4 DEF ReadTypeOK, Others
  <2>6. ReaderControl(x)'
    <3>1. \A t \in RowsFor(x) : row'[t] # "unused"
      BY <1>2 DEF vars, rows, Live
    <3>. QED BY <1>1, <1>2, <1>4, <2>2, <2>3, <3>1 DEF ReaderControl, Exported
  <2>7. ASSUME NEW t \in Targets PROVE RowControlled(x, t)'
    <3>1. /\ canonical[t] # None => canonical[t] \in since'[x]
          /\ UNCHANGED <<row, image, blobs, on, op>>
      BY <2>2 DEF Follow, Pointers, vars, rows, media, call
    <3>2. /\ canonical[t] # None => /\ OwnRender(canonical[t], t) /\ image[canonical[t]] = "render"
          /\ canonical[t] = None /\ Live(t) => ImagesOf(t, "render") = {}
      <4>1. /\ CanonicalIsOwnRender /\ RendersAreCanonicalised
            /\ canonical[t] \in Requests \cup {None}
            /\ \A i \in Requests : image[i] = "render" => op[i] \in RenderOps
        BY DEF AInv, IInv, Types, RequestControl
      <4>. QED BY <4>1 DEF CanonicalIsOwnRender, RendersAreCanonicalised, OwnRender
    <3>. QED BY <2>3, <3>1, <3>2 DEF RowControlled, OwnRender, Live, ImagesOf
  <2>8. ASSUME NEW t \in Targets PROVE FoundControlled(x, t)'
    BY <1>1 DEF FoundControlled
  <2>. QED BY <2>5, <2>6, <2>7, <2>8 DEF Done, Sound
<1>. QED BY <1>3, <1>4 DEF LoadRows

\* A row is looked up.
LEMMA LookUpKeeps ==
  ASSUME NEW x \in Readers, StepOfReader(x), LookUp(x)
  PROVE  Done(x)
<1>. USE DEF StepOfReader, RInv
<1>1. PICK u \in ahead[x] :
           /\ looking' = [looking EXCEPT ![x] = u]
           /\ ahead' = [ahead EXCEPT ![x] = @ \ {u}]
           /\ pointer' = [pointer EXCEPT ![x][u] = IF Live(u) THEN @ ELSE None]
  BY DEF LookUp
<1>2. /\ stage[x] = "rows" /\ u \in listed[x] /\ u \in Targets
      /\ Stage(x, "row") /\ UNCHANGED <<asked, about, reply, listed, found, album>>
  BY <1>1 DEF LookUp, ReaderControl, ReadTypeOK
<1>3. /\ stage' \in [Readers -> Stages] /\ stage'[x] = "row"
      /\ \A y \in Readers \ {x} : stage'[y] = stage[y]
  <2>1. "row" \in Stages
    BY DEF Stages
  <2>. QED BY <1>2, <2>1, Staged
<1>4. /\ looking'[x] = u /\ ahead'[x] = ahead[x] \ {u}
      /\ \A t \in Targets : pointer'[x][t] = IF t = u /\ ~Live(u) THEN None ELSE pointer[x][t]
      /\ pointer' \in [Readers -> [Targets -> Requests \cup {None}]]
      /\ \A y \in Readers \ {x} : pointer'[y] = pointer[y]
  BY <1>1, <1>2 DEF ReadTypeOK
<1>5. ReadTypeOK' /\ Others(x)
  BY <1>1, <1>2, <1>3, <1>4 DEF ReadTypeOK, Others
<1>6. ReaderControl(x)'
  BY <1>2, <1>3, <1>4 DEF ReaderControl, Exported, vars, rows, media, call
<1>7. ASSUME NEW t \in Targets PROVE FoundControlled(x, t)'
  BY <1>2, <1>3, FoundKept
<1>8. ASSUME NEW t \in Targets PROVE RowControlled(x, t)'
  <2>1. CASE pointer'[x][t] = pointer[x][t]
    BY <1>2, <1>3, <2>1, RowKept
  <2>2. CASE pointer'[x][t] # pointer[x][t]
    BY <1>4, <2>2 DEF RowControlled, vars, rows, Live
  <2>. QED BY <2>1, <2>2
<1>. QED BY <1>5, <1>6, <1>7, <1>8 DEF Done, Sound

\* Its image is read.
LEMMA ReadImageKeeps ==
  ASSUME NEW x \in Readers, StepOfReader(x), ReadImage(x)
  PROVE  /\ Done(x)
         /\ found'[x][looking[x]] = None =>
              ~Live(looking[x]) \/ ImagesOf(looking[x], "render") = {}
<1>. USE DEF StepOfReader, RInv
<1>. DEFINE u == looking[x]
<1>1. /\ stage[x] = "row" /\ u \in listed[x] /\ u \in Targets /\ Stage(x, "rows")
      /\ UNCHANGED <<asked, about, reply, listed, pointer, ahead, looking, album>>
  BY DEF ReadImage, ReaderControl, ReadTypeOK
<1>2. /\ stage' \in [Readers -> Stages] /\ stage'[x] = "rows"
      /\ \A y \in Readers \ {x} : stage'[y] = stage[y]
  <2>1. "rows" \in Stages
    BY DEF Stages
  <2>. QED BY <1>1, <2>1, Staged
<1>. DEFINE Choice(f) ==
       /\ found' = [found EXCEPT ![x][u] = f]
       /\ f = None => ~Live(u) \/ ImagesOf(u, "render") = {}
       /\ f # None => OwnRender(f, u) /\ (f \in since[x] \/ ~Live(u))
<1>3. PICK f \in Requests \cup {None} : Choice(f)
  <2>. DEFINE i == pointer[x][u]
  <2>1. RowControlled(x, u) /\ FoundControlled(x, u) /\ i \in Requests \cup {None}
    BY <1>1 DEF ReadTypeOK
  <2>2. ASSUME NEW j \in ImagesOf(u, "render") PROVE j \in Requests /\ OwnRender(j, u)
    BY <2>2 DEF ImagesOf, OwnRender, AInv, IInv, RequestControl, ImagesAreAccounted
  <2>3. CASE i # None
    <3>. DEFINE g == IF image[i] # "none" THEN i ELSE None
    <3>1. found' = [found EXCEPT ![x][u] = g] /\ g \in Requests \cup {None}
      BY <2>1, <2>3 DEF ReadImage
    <3>2. /\ g = None => ~Live(u)
          /\ g # None => OwnRender(g, u) /\ g \in since[x]
      BY <2>1, <2>3 DEF RowControlled
    <3>. QED BY <3>1, <3>2
  <2>4. CASE i = None /\ ImagesOf(u, "render") = {} /\ UNCHANGED found
    <3>1. found' = [found EXCEPT ![x][u] = found[x][u]] /\ found[x][u] \in Requests \cup {None}
      BY <1>1, <2>4 DEF ReadTypeOK
    <3>. QED BY <2>1, <2>4, <3>1 DEF FoundControlled
  <2>5. ASSUME i = None, NEW j \in ImagesOf(u, "render"), found' = [found EXCEPT ![x][u] = j]
        PROVE  \E f \in Requests \cup {None} : Choice(f)
    <3>1. j \in Requests /\ OwnRender(j, u) /\ j # None
      BY <2>2, <2>5, StoreAssumption
    <3>2. j \in since[x] \/ ~Live(u)
      BY <1>1, <2>1, <2>5 DEF RowControlled
    <3>3. Choice(j)
      BY <2>5, <3>1, <3>2
    <3>. HIDE DEF Choice
    <3>. QED BY <3>1, <3>3
  <2>6. \/ i # None
        \/ i = None /\ ImagesOf(u, "render") = {} /\ UNCHANGED found
        \/ i = None /\ \E j \in ImagesOf(u, "render") : found' = [found EXCEPT ![x][u] = j]
    BY DEF ReadImage
  <2>7. CASE i = None /\ \E j \in ImagesOf(u, "render") : found' = [found EXCEPT ![x][u] = j]
    <3>. HIDE DEF Choice
    <3>. QED BY <2>5, <2>7
  <2>. HIDE DEF Choice
  <2>. QED BY <2>3, <2>4, <2>6, <2>7
<1>4. /\ \A t \in Targets : found'[x][t] = IF t = u THEN f ELSE found[x][t]
      /\ found' \in [Readers -> [Targets -> Requests \cup {None}]]
      /\ \A y \in Readers \ {x} : found'[y] = found[y]
  BY <1>1, <1>3 DEF ReadTypeOK
<1>5. ReadTypeOK' /\ Others(x)
  BY <1>1, <1>2, <1>4 DEF ReadTypeOK, Others
<1>6. ReaderControl(x)'
  BY <1>1, <1>2 DEF ReaderControl, Exported, vars, rows, media, call
<1>7. ASSUME NEW t \in Targets PROVE RowControlled(x, t)'
  BY <1>1, <1>2, RowKept
<1>8. ASSUME NEW t \in Targets PROVE FoundControlled(x, t)'
  <2>1. CASE t # u
    BY <1>1, <1>2, <1>4, <2>1, FoundKept
  <2>2. CASE t = u
    <3>1. since[x] \subseteq since'[x] /\ UNCHANGED <<row, blobs, on, op>>
      BY <1>2 DEF Follow, vars, rows, media, call
    <3>. QED BY <1>1, <1>3, <1>4, <2>2, <3>1 DEF FoundControlled, OwnRender, Live
  <2>. QED BY <2>1, <2>2
<1>. QED BY <1>1, <1>3, <1>4, <1>5, <1>6, <1>7, <1>8 DEF Done, Sound

\* The call ends, with what it has or with an error.
LEMMA AnswerKeeps ==
  ASSUME NEW x \in Readers, StepOfReader(x), NEW o \in {"ok", "no_render", "not_found", "other"},
         Reply(x, o),
         stage[x] \in {"rows", "objects"},
         Exported(x)' => Missing(x) = {},
         UNCHANGED <<asked, about, listed, pointer, ahead, looking, found>>,
         album' \in [Readers -> SUBSET Requests],
         \A z \in Readers \ {x} : album'[z] = album[z],
         \A i \in album'[x] : i \in blobs /\ on[i] = about[x] /\ about[x] \in Targets
  PROVE  Done(x)
<1>0. ReadTypeOK /\ ReaderControl(x) /\ UNCHANGED vars
      /\ since' \in [Readers -> SUBSET Requests]
  BY DEF StepOfReader, RInv
<1>1. /\ stage' \in [Readers -> Stages] /\ stage'[x] = "done"
      /\ reply' \in [Readers -> {200, 404, 422, 500, None}]
      /\ \A z \in Readers \ {x} : stage'[z] = stage[z] /\ reply'[z] = reply[z]
  BY <1>0, Replied
<1>2. ReadTypeOK'
  BY <1>0, <1>1 DEF ReadTypeOK
<1>3. Others(x)
  BY <1>1 DEF Others
<1>4. ReaderControl(x)'
  <2>1. Missing(x)' = Missing(x) /\ UNCHANGED <<row, blobs, on>>
    BY <1>0 DEF Missing, vars, rows, media, call
  <2>. QED BY <1>0, <1>1, <2>1 DEF ReaderControl
<1>5. ASSUME NEW t \in Targets PROVE RowControlled(x, t)' /\ FoundControlled(x, t)'
  BY <1>1, RowKept, FoundKept
<1>. QED BY <1>2, <1>3, <1>4, <1>5 DEF Done, Sound

\* An export with a render for every panel goes to the bucket.
LEMMA CheckExportKeeps ==
  ASSUME NEW x \in Readers, StepOfReader(x), CheckExport(x)
  PROVE  Done(x)
<1>0. ReadTypeOK /\ ReaderControl(x) /\ UNCHANGED vars
      /\ since' \in [Readers -> SUBSET Requests]
  BY DEF StepOfReader, RInv
<1>1. /\ stage[x] = "rows" /\ asked[x] = "export"
      /\ UNCHANGED <<asked, about, listed, pointer, ahead, looking, found, album>>
      /\ \/ Reply(x, "no_render")
         \/ Missing(x) = {} /\ Stage(x, "objects") /\ UNCHANGED reply
  BY DEF CheckExport, AllRead
<1>2. CASE Reply(x, "no_render")
  <2>1. reply'[x] = 422 /\ stage'[x] = "done"
    BY <1>0, <1>2, Replied, ReadCodes
  <2>2. ~Exported(x)'
    BY <2>1 DEF Exported
  <2>3. /\ album' \in [Readers -> SUBSET Requests]
        /\ \A i \in album'[x] : i \in blobs /\ on[i] = about[x] /\ about[x] \in Targets
    BY <1>0, <1>1 DEF ReadTypeOK, ReaderControl
  <2>. QED BY <1>1, <1>2, <2>2, <2>3, AnswerKeeps
<1>3. CASE Missing(x) = {} /\ Stage(x, "objects") /\ UNCHANGED reply
  <2>1. "objects" \in Stages
    BY DEF Stages
  <2>2. /\ stage' \in [Readers -> Stages] /\ stage'[x] = "objects"
        /\ \A z \in Readers \ {x} : stage'[z] = stage[z]
    BY <1>0, <1>3, <2>1, Staged
  <2>3. ReadTypeOK'
    BY <1>0, <1>1, <1>3, <2>2 DEF ReadTypeOK
  <2>4. Others(x)
    BY <1>1, <1>3, <2>2 DEF Others
  <2>5. ReaderControl(x)'
    <3>1. Missing(x)' = Missing(x) /\ UNCHANGED <<row, blobs, on>>
      BY <1>0, <1>1 DEF Missing, vars, rows, media, call
    <3>. QED BY <1>0, <1>1, <1>3, <2>2, <3>1 DEF ReaderControl
  <2>6. ASSUME NEW t \in Targets PROVE RowControlled(x, t)' /\ FoundControlled(x, t)'
    BY <1>1, <2>2, RowKept, FoundKept
  <2>. QED BY <2>3, <2>4, <2>5, <2>6 DEF Done, Sound
<1>. QED BY <1>1, <1>2, <1>3

\* A reader's step keeps what the reader relies on.
LEMMA ReadKeeps ==
  ASSUME NEW x \in Readers, StepOfReader(x), Read(x)
  PROVE  Done(x)
<1>0. ReadTypeOK /\ ReaderControl(x)
  BY DEF StepOfReader, RInv
<1>1. ASSUME NEW s \in Stories, ListPanels(x, s) \/ ListCharacters(x, s) \/ Export(x, s)
      PROVE  Done(x)
  <2>1. /\ {"list_panels", "list_characters", "export"} \subseteq Asks /\ s \in Texts
    BY DEF Asks, Texts
  <2>. QED BY <1>1, <2>1, FindStoryKeeps DEF ListPanels, ListCharacters, Export
<1>2. ASSUME NEW t \in Targets,
             \/ GetPanel(x, t) \/ PanelRenders(x, t) \/ PanelReferences(x, t)
             \/ GetCharacter(x, t) \/ CharacterRenders(x, t) \/ CharacterReferences(x, t)
      PROVE  Done(x)
  <2>1. /\ {"get_panel", "get_character", "render", "reference"} \subseteq Asks /\ t \in Texts
    BY DEF Asks, AlbumAsks, Texts
  <2>. QED BY <1>2, <2>1, FindStoryKeeps DEF GetPanel, PanelRenders, PanelReferences,
         GetCharacter, CharacterRenders, CharacterReferences
<1>3. CASE ListImages(x)
  <2>1. /\ stage[x] = "rows" /\ asked[x] \in AlbumAsks /\ Reply(x, "ok")
        /\ album' = [album EXCEPT ![x] = ImagesOf(about[x], asked[x])]
        /\ UNCHANGED <<asked, about, listed, pointer, ahead, looking, found>>
    BY <1>3 DEF ListImages
  <2>2. /\ album' \in [Readers -> SUBSET Requests] /\ album'[x] = ImagesOf(about[x], asked[x])
        /\ \A z \in Readers \ {x} : album'[z] = album[z]
    BY <1>0, <2>1 DEF ReadTypeOK, ImagesOf
  <2>3. about[x] \in Targets /\ ~Exported(x)'
    BY <1>0, <2>1 DEF ReaderControl, AlbumAsks, Exported
  <2>4. \A i \in ImagesOf(about[x], asked[x]) : i \in blobs /\ on[i] = about[x]
    <3>1. ImagesAreAccounted /\ asked[x] # "none"
      BY <2>1 DEF StepOfReader, RInv, AInv, IInv, AlbumAsks
    <3>. QED BY <3>1 DEF ImagesAreAccounted, ImagesOf
  <2>. QED BY <2>1, <2>2, <2>3, <2>4, AnswerKeeps
<1>4. CASE FinishRead(x)
  <2>1. /\ stage[x] = "rows" /\ asked[x] # "export" /\ Reply(x, "ok")
        /\ UNCHANGED <<asked, about, listed, pointer, ahead, looking, found, album>>
    BY <1>4 DEF FinishRead, AllRead
  <2>2. ~Exported(x)' /\ album' \in [Readers -> SUBSET Requests]
    BY <1>0, <2>1 DEF Exported, ReadTypeOK
  <2>3. \A i \in album'[x] : i \in blobs /\ on[i] = about[x] /\ about[x] \in Targets
    BY <1>0, <2>1 DEF ReaderControl
  <2>. QED BY <2>1, <2>2, <2>3, AnswerKeeps
<1>5. CASE MakePages(x)
  <2>1. /\ stage[x] = "objects" /\ (Reply(x, "ok") \/ Reply(x, "other"))
        /\ UNCHANGED <<asked, about, listed, pointer, ahead, looking, found, album>>
    BY <1>5 DEF MakePages
  <2>2. Exported(x) /\ album' \in [Readers -> SUBSET Requests]
    BY <1>0, <2>1 DEF ReaderControl, Exported, ReadTypeOK
  <2>3. Missing(x) = {}
    BY <1>0, <2>2 DEF ReaderControl
  <2>4. \A i \in album'[x] : i \in blobs /\ on[i] = about[x] /\ about[x] \in Targets
    BY <1>0, <2>1 DEF ReaderControl
  <2>. QED BY <2>1, <2>2, <2>3, <2>4, AnswerKeeps
<1>. QED BY <1>1, <1>2, <1>3, <1>4, <1>5, LoadRowsKeeps, LookUpKeeps, ReadImageKeeps,
            CheckExportKeeps DEF Read, Targets

-----------------------------------------------------------------------------
LEMMA InitRInv == InitReads => RInv
<1>. SUFFICES ASSUME InitReads PROVE RInv
  OBVIOUS
<1>1. AInv
  BY InitAInv DEF InitReads
<1>2. ReadTypeOK
  BY <1>1 DEF InitReads, InitReaders, ReadTypeOK, Stages
<1>3. ASSUME NEW x \in Readers PROVE ReaderControl(x)
  BY <1>3 DEF InitReads, InitReaders, ReaderControl, Exported
<1>4. ASSUME NEW x \in Readers, NEW t \in Targets
      PROVE  RowControlled(x, t) /\ FoundControlled(x, t)
  BY <1>4 DEF InitReads, InitReaders, RowControlled, FoundControlled
<1>. QED BY <1>1, <1>2, <1>3, <1>4 DEF RInv

LEMMA StepRInv == RInv /\ [NextReads]_allVars => RInv'
<1>. SUFFICES ASSUME RInv, [NextReads]_allVars PROVE RInv'
  OBVIOUS
<1>1. AInv' /\ StepFrame
  <2>1. AInv /\ [Next]_vars /\ answer = [q \in Requests |-> answer[q]]
    BY DEF NextReads, RInv, allVars, AInv, AnswerType
  <2>. QED BY <2>1, StepAInv, Framed DEF AInv
<1>2. canonical' \in [Targets -> Requests \cup {None}]
  BY <1>1 DEF AInv, IInv, Types
<1>3. ASSUME Follow, Next, UNCHANGED reading PROVE RInv'
  <2>1. ReadTypeOK'
    BY <1>2, <1>3, SinceType DEF RInv, ReadTypeOK, reading
  <2>2. ASSUME NEW x \in Readers
        PROVE  ReaderControl(x)' /\ \A t \in Targets : RowControlled(x, t)' /\ FoundControlled(x,
           t)'
    BY <1>1, <1>3, <2>1, <2>2, ReaderKeeps DEF reading
  <2>. QED BY <1>1, <2>1, <2>2 DEF RInv
<1>4. ASSUME Follow, NEW x \in Readers, Read(x), UNCHANGED vars PROVE RInv'
  <2>1. StepOfReader(x)
    BY <1>2, <1>4, SinceType DEF StepOfReader
  <2>2. Done(x)
    BY <1>4, <2>1, ReadKeeps
  <2>3. ASSUME NEW y \in Readers
        PROVE  ReaderControl(y)' /\ \A t \in Targets : RowControlled(y, t)' /\ FoundControlled(y,
           t)'
    <3>1. CASE y = x
      BY <2>2, <3>1 DEF Done, Sound
    <3>2. CASE y # x
      BY <1>1, <1>4, <2>2, <2>3, <3>2, ReaderKeeps DEF Done, Others
    <3>. QED BY <3>1, <3>2
  <2>. QED BY <1>1, <2>2, <2>3 DEF RInv, Done
<1>5. CASE UNCHANGED allVars
  <2>1. ReadTypeOK' /\ UNCHANGED <<vars, reading, since>>
    BY <1>5 DEF RInv, ReadTypeOK, allVars, reading
  <2>2. ASSUME NEW x \in Readers
        PROVE  ReaderControl(x)' /\ \A t \in Targets : RowControlled(x, t)' /\ FoundControlled(x,
           t)'
    BY <2>1 DEF RInv, ReaderControl, Exported, Missing, RowControlled, FoundControlled, OwnRender,
         Live, ImagesOf, reading, vars, rows, media, call
  <2>. QED BY <1>1, <2>1, <2>2 DEF RInv
<1>. QED BY <1>3, <1>4, <1>5 DEF NextReads

LEMMA ReaderInvariance == SpecReads => []RInv
<1>. QED BY InitRInv, StepRInv, PTL DEF SpecReads

\* A reader's variables keep their types, and its answers are the codes of the endpoints.
THEOREM ReadersAreTyped == SpecReads => []ReadTypeOK
<1>1. RInv => ReadTypeOK
  BY DEF RInv
<1>. QED BY <1>1, ReaderInvariance, PTL

\* What is shown for a row is a render of that row with its object in the bucket, and an
\* export has one for every panel it lists.
THEOREM ExportsHaveTheirRenders == SpecReads => []ExportsAreWhole
<1>1. RInv => ExportsAreWhole
  BY DEF RInv, ReaderControl, FoundControlled, ExportsAreWhole, Missing
<1>. QED BY <1>1, ReaderInvariance, PTL

\* It was the canonical one at some time during the call.
THEOREM ShownRendersWereCanonical == SpecReads => []ShownWasCanonical
<1>1. RInv => ShownWasCanonical
  BY DEF RInv, FoundControlled, ShownWasCanonical
<1>. QED BY <1>1, ReaderInvariance, PTL

\* A row is called unrendered only when it has no render at that moment or is gone.
THEOREM UnrenderedMeansUnrendered == SpecReads => GapsAreReal
<1>1. RInv /\ RInv' /\ [NextReads]_allVars =>
        [\A x \in Readers : \A t \in Targets :
           stage[x] = "row" /\ stage'[x] = "rows" /\ looking[x] = t /\ found'[x][t] = None =>
             ~Live(t) \/ ImagesOf(t, "render") = {}]_allVars
  <2>. SUFFICES ASSUME RInv, RInv', NextReads, NEW x \in Readers, NEW t \in Targets,
                       stage[x] = "row", stage'[x] = "rows", looking[x] = t, found'[x][t] = None
                PROVE  ~Live(t) \/ ImagesOf(t, "render") = {}
    OBVIOUS
  <2>1. PICK y \in Readers : Read(y) /\ UNCHANGED vars /\ Follow
    BY DEF NextReads, reading
  <2>2. StepOfReader(y)
    BY <2>1 DEF StepOfReader, RInv, ReadTypeOK
  <2>3. y = x
    BY <2>1, <2>2, ReadKeeps DEF Done, Others
  <2>4. ReadImage(x)
    <3>1. ReadTypeOK
      BY DEF RInv
    <3>2. ASSUME NEW a, NEW z, FindStory(x, a, z) \/ SkipStory(x, a, z) PROVE FALSE
      BY <3>2 DEF FindStory, SkipStory, Open
    <3>3. /\ ~LoadRows(x) /\ ~LookUp(x) /\ ~ListImages(x)
          /\ ~FinishRead(x) /\ ~CheckExport(x) /\ ~MakePages(x)
      BY DEF LoadRows, LookUp, ListImages, FinishRead, CheckExport, MakePages, AllRead
    <3>. QED BY <2>1, <2>3, <3>2, <3>3 DEF Read, ListPanels, ListCharacters, Export, GetPanel,
           PanelRenders, PanelReferences, GetCharacter, CharacterRenders, CharacterReferences
  <2>. QED BY <2>2, <2>3, <2>4, ReadImageKeeps
<1>. QED BY <1>1, ReaderInvariance, PTL DEF SpecReads, GapsAreReal

\* Readers only read: whatever is proved of the engine holds with any number of them.
THEOREM ReadersOnlyRead == SpecReads => Spec
<1>1. InitReads => Init
  BY DEF InitReads
<1>2. [NextReads]_allVars => [Next]_vars
  BY DEF NextReads, allVars
<1>. QED BY <1>1, <1>2, PTL DEF SpecReads, Spec
=============================================================================
