--------------------------- MODULE StoryLog_proofs ---------------------------
(***************************************************************************)
(* The story engine implements the edit log (module EditLog), for every    *)
(* number of requests and rows: each step of a request opens an edit, ends *)
(* it together with what it does to the rows, erases effects, or is none   *)
(* of the log's business.                                                  *)
(***************************************************************************)
EXTENDS StoryAnswers_proofs

\* The effect of a request is there to be seen.
Stands(q) ==
    \/ \E x \in Texts : source[x] = q
    \/ image[q] # "none" /\ Live(on[q])
    \/ op[q] \in CanonicalOps /\ event[q] = "succeeded" /\ Live(on[q])

LEMMA StandingIs ==
  ASSUME IInv
  PROVE  Standing = {q \in Requests : Stands(q)}
BY StoreAssumption DEF IInv, Types, Standing, Stands

\* The same after a step.
LEMMA StandingWillBe ==
  ASSUME IInv'
  PROVE  Standing' = {q \in Requests : Stands(q)'}
BY StoreAssumption DEF IInv, Types, Standing, Stands

-----------------------------------------------------------------------------
(***************************************************************************)
(* The steps of the log.                                                   *)
(***************************************************************************)
\* Effects go, and nothing else happens: a step that leaves all of them is one of these.
LEMMA FadeStep ==
  ASSUME IInv, IInv', event' = event, \A q \in Requests : Stands(q)' => Stands(q)
  PROVE  Log!Next
<1>1. Standing' \in SUBSET Standing /\ {} \in SUBSET (Requests \ Standing')
  BY StandingIs, StandingWillBe
<1>2. event' = [e \in Requests |-> IF e \in {} THEN "none" ELSE event[e]]
  BY DEF IInv, Types
<1>3. Log!Erase
  BY <1>1, <1>2 DEF Log!Erase
<1>. QED BY <1>3 DEF Log!Next

\* Events go too, those of edits whose effect is gone.
LEMMA EraseStep ==
  ASSUME IInv, IInv', NEW F \in SUBSET Requests,
         event' = [q \in Requests |-> IF q \in F THEN "none" ELSE event[q]],
         \A q \in Requests : Stands(q)' => Stands(q) /\ q \notin F
  PROVE  Log!Next
<1>1. Standing' \in SUBSET Standing /\ F \in SUBSET (Requests \ Standing')
  BY StandingIs, StandingWillBe
<1>2. Log!Erase
  BY <1>1 DEF Log!Erase
<1>. QED BY <1>2 DEF Log!Next

\* An edit is opened.
LEMMA OpenStep ==
  ASSUME IInv, IInv', NEW r \in Requests, event[r] = "none",
         event' = [event EXCEPT ![r] = "pending"], \A q \in Requests : Stands(q)' <=> Stands(q)
  PROVE  Log!Next
<1>1. Standing' = Standing
  BY StandingIs, StandingWillBe
<1>. QED BY <1>1 DEF Log!Next, Log!Open

\* It takes effect.
LEMMA SucceedStep ==
  ASSUME IInv, IInv', NEW r \in Requests, event[r] \in {"none", "pending"},
         event' = [event EXCEPT ![r] = "succeeded"],
         Stands(r)', \A q \in Requests \ {r} : Stands(q)' => Stands(q)
  PROVE  Log!Next
<1>. DEFINE S == Standing \ Standing'
<1>1. S \in SUBSET Standing /\ Standing' = (Standing \ S) \cup {r}
  BY StandingIs, StandingWillBe
<1>2. Log!Succeed(r)
  BY <1>1 DEF Log!Succeed
<1>. QED BY <1>2 DEF Log!Next

\* It is too late to.
LEMMA InVainStep ==
  ASSUME IInv, IInv', NEW r \in Requests, event[r] \in {"none", "pending"},
         event' = [event EXCEPT ![r] = "succeeded"], \A q \in Requests : Stands(q)' <=> Stands(q)
  PROVE  Log!Next
<1>1. Standing' = Standing
  BY StandingIs, StandingWillBe
<1>. QED BY <1>1 DEF Log!Next, Log!SucceedInVain

\* It fails.
LEMMA FailStep ==
  ASSUME IInv, IInv', NEW r \in Requests, event[r] \in {"pending", "succeeded"}, ~Stands(r),
         event' = [event EXCEPT ![r] = "failed"], \A q \in Requests : Stands(q)' <=> Stands(q)
  PROVE  Log!Next
<1>1. Standing' = Standing /\ r \notin Standing
  BY StandingIs, StandingWillBe
<1>. QED BY <1>1 DEF Log!Next, Log!Fail

-----------------------------------------------------------------------------
(***************************************************************************)
(* The steps of the engine.                                                *)
(***************************************************************************)
\* A step of a request: the other requests, and the rows it does not write.
StepOf(r) ==
    /\ AInv /\ IInv' /\ StepFrame
    /\ \A q \in Requests \ {r} : pc'[q] = pc[q]

\* A request shows no effect until it commits.
LEMMA Unwritten ==
  ASSUME AInv, NEW r \in Requests, pc[r] \notin {"committed", "done"}
  PROVE  ~Stands(r) /\ image[r] = "none" /\ event[r] \in {"none", "pending"}
<1>1. image[r] = "none" /\ event[r] \in {"none", "pending"}
  BY DEF AInv, IInv, RequestControl
<1>2. \A x \in Texts : source[x] # r
  BY StoreAssumption DEF AInv, IInv, RowControl
<1>. QED BY <1>1, <1>2 DEF Stands

\* The effects of the others can only go.
LEMMA OthersFade ==
  ASSUME NEW r \in Requests, StepOf(r), NEW q \in Requests \ {r},
         \A x \in Texts : source'[x] = q => source[x] = q, Stands(q)'
  PROVE  Stands(q)
<1>1. /\ op'[q] = op[q] /\ on'[q] = on[q]
      /\ event'[q] \in {event[q], "none"} /\ image'[q] \in {image[q], "none"}
  BY DEF StepOf, StepFrame
<1>2. \A x \in Rows : Live(x)' /\ row[x] # "unused" => Live(x)
  BY DEF StepOf, StepFrame, Live
<1>3. image[q] # "none" \/ event[q] # "none" => on[q] \in Rows /\ row[on[q]] # "unused"
  BY DEF StepOf, AInv, IInv, RequestControl
<1>. QED BY <1>1, <1>2, <1>3 DEF Stands, Live

\* A request that has not committed, and does not in this step.
LEMMA QuietStep ==
  ASSUME NEW r \in Requests, StepOf(r), pc[r] \notin {"committed", "done"},
         event' = event, image'[r] = "none",
         \A x \in Texts : source'[x] \in {source[x], None}
  PROVE  Log!Next
<1>1. ~Stands(r) /\ event'[r] \in {"none", "pending"} /\ \A x \in Texts : source'[x] # r
  BY Unwritten, StoreAssumption DEF StepOf, Stands
<1>2. ~Stands(r)'
  BY <1>1 DEF Stands
<1>3. ASSUME NEW q \in Requests \ {r}, NEW x \in Texts, source'[x] = q PROVE source[x] = q
  BY <1>3, StoreAssumption
<1>4. \A q \in Requests : Stands(q)' => Stands(q)
  BY <1>2, <1>3, OthersFade
<1>. QED BY <1>4, FadeStep DEF StepOf, AInv

\* A request that has only its answer left to give.
LEMMA AnswerStep ==
  ASSUME AInv, IInv', UNCHANGED <<rows, event, media, call>>
  PROVE  Log!Next
BY FadeStep DEF AInv, Stands, Live, rows, media, call

\* A check fails.
LEMMA RefuseLogged ==
  ASSUME NEW r \in Requests, StepOf(r), NEW o, NEW x, NEW e, Refuse(r, o, x, e)
  PROVE  Log!Next
BY QuietStep, Unwritten DEF Refuse, Begin, rows, media, StepOf

\* An edit event is opened.
LEMMA OpenLogged ==
  ASSUME NEW r \in Requests, StepOf(r), NEW o, NEW x, NEW C, OpenEvent(r, o, x, C)
  PROVE  Log!Next
<1>1. event[r] = "none" /\ event' = [event EXCEPT ![r] = "pending"] /\ ~Stands(r)
  BY ReadyIsBlank, Unwritten DEF OpenEvent, Begin, StepOf
<1>2. UNCHANGED <<row, source, image>> /\ event'[r] = "pending"
  BY <1>1 DEF OpenEvent, rows, media, StepOf, AInv, IInv, Types
<1>3. ~Stands(r)'
  BY <1>1, <1>2, ReadyIsBlank DEF Stands, OpenEvent, Begin, StepOf
<1>4. ASSUME NEW q \in Requests \ {r} PROVE Stands(q)' <=> Stands(q)
  BY <1>1, <1>2 DEF Stands, Live, OpenEvent, Begin, StepOf, AInv, IInv, Types
<1>. QED BY <1>1, <1>3, <1>4, OpenStep DEF StepOf, AInv

\* A transaction is rolled back.
LEMMA AbortLogged ==
  ASSUME NEW r \in Requests, StepOf(r), Abort(r), pc[r] \notin {"committed", "done"}
  PROVE  Log!Next
BY QuietStep, Unwritten DEF Abort, rows, StepOf

\* An event is marked FAILED.
LEMMA FailLogged ==
  ASSUME NEW r \in Requests, StepOf(r), NEW e, FailEvent(r, e), ~Stands(r),
         UNCHANGED <<rows, call>>, ~Live(on[r]) \/ image'[r] = "none",
         \A q \in Requests \ {r} : image'[q] = image[q]
  PROVE  Log!Next
<1>1. event' = [event EXCEPT ![r] = IF event[r] = "none" THEN "none" ELSE "failed"]
  BY DEF FailEvent, SetEvent
<1>2. ASSUME NEW q \in Requests PROVE Stands(q)' <=> Stands(q)
  BY <1>1 DEF Stands, Live, rows, call, StepOf, AInv, IInv, Types
<1>3. CASE event[r] \in {"none", "failed"}
  BY <1>1, <1>2, <1>3, FadeStep DEF StepOf, AInv, IInv, Types
<1>4. CASE event[r] \in {"pending", "succeeded"}
  BY <1>1, <1>2, <1>4, FailStep DEF StepOf, AInv
<1>. QED BY <1>3, <1>4 DEF StepOf, AInv, IInv, Types, EditEventStatus

\* Text is committed with the success of its event.
LEMMA WriteLogged ==
  ASSUME NEW r \in Requests, StepOf(r), pc[r] \notin {"committed", "done"},
         SetEvent(r, "succeeded"), NEW X \in SUBSET Texts, X # {},
         \A x \in Texts : source'[x] = IF x \in X THEN r ELSE source[x]
  PROVE  Log!Next
<1>1. Stands(r)' /\ event[r] \in {"none", "pending"}
  BY Unwritten DEF Stands, StepOf
<1>2. ASSUME NEW q \in Requests \ {r}, Stands(q)' PROVE Stands(q)
  BY <1>2, OthersFade
<1>. QED BY <1>1, <1>2, SucceedStep DEF SetEvent, StepOf, AInv

\* A row of a reference or of a render, or a pointer, is committed with it.
LEMMA ImageLogged ==
  ASSUME NEW r \in Requests, StepOf(r), pc[r] \notin {"committed", "done"},
         SetEvent(r, "succeeded"), UNCHANGED <<row, source>>, Live(on'[r]),
         image'[r] # "none" \/ op'[r] \in CanonicalOps
  PROVE  Log!Next
<1>1. event[r] \in {"none", "pending"} /\ event'[r] = "succeeded"
  BY Unwritten DEF SetEvent, StepOf, AInv, IInv, Types
<1>2. Stands(r)'
  BY <1>1 DEF Stands, Live
<1>3. ASSUME NEW q \in Requests \ {r}, Stands(q)' PROVE Stands(q)
  BY <1>3, OthersFade
<1>. QED BY <1>1, <1>2, <1>3, SucceedStep DEF SetEvent, StepOf, AInv

-----------------------------------------------------------------------------
\* A panel's steps.
LEMMA PanelLogged ==
  ASSUME NEW r \in Requests, StepOf(r), NextPanel(r)
  PROVE  Log!Next
<1>0. AInv /\ IInv'
  BY DEF StepOf
<1>1. ASSUME NEW s \in Stories, GeneratePanels(r, s) PROVE Log!Next
  <2>1. ASSUME NEW e, Refuse(r, "generate_panels", s, e) PROVE Log!Next
    BY <2>1, RefuseLogged
  <2>2. CASE Begin(r, "generate_panels", s) /\ UNCHANGED <<rows, event, media>>
    BY <2>2, QuietStep, Unwritten DEF Begin, rows, media, StepOf
  <2>. QED BY <1>1, <2>1, <2>2 DEF GeneratePanels
<1>2. ASSUME NEW p \in Panels, GeneratePanel(r, p) \/ RefinePanel(r, p) PROVE Log!Next
  BY <1>2, RefuseLogged, OpenLogged DEF GeneratePanel, RefinePanel
<1>3. ASSUME NEW p \in Panels, DeletePanel(r, p) PROVE Log!Next
  <2>1. CASE Refuse(r, "delete_panel", p, "not_found")
    BY <2>1, RefuseLogged
  <2>2. CASE ~Refuse(r, "delete_panel", p, "not_found")
    BY <1>3, <2>2, QuietStep, Unwritten DEF DeletePanel, Begin, rows, media, StepOf
  <2>. QED BY <2>1, <2>2
<1>4. CASE CommitPanels(r)
  <2>1. CASE Abort(r)
    BY <1>4, <2>1, AbortLogged DEF CommitPanels
  <2>2. CASE ~Abort(r)
    <3>1. PICK P \in SUBSET Unused(Panels, on[r]) :
               /\ source' = [x \in Texts |-> IF x \in P THEN r ELSE source[x]]
               /\ SetEvent(r, IF P = {} THEN "none" ELSE "succeeded")
               /\ UNCHANGED media
      BY <1>4, <2>2 DEF CommitPanels
    <3>2. P \in SUBSET Texts /\ pc[r] = "model"
      BY <1>4, <3>1 DEF CommitPanels, Unused, Texts, Targets
    <3>3. CASE P = {}
      <4>1. event[r] = "none"
        BY <1>0, <1>4 DEF CommitPanels, AInv, AnswerControl
      <4>2. event' = event /\ image'[r] = "none" /\ \A x \in Texts : source'[x] = source[x]
        BY <1>0, <3>1, <3>2, <3>3, <4>1, Unwritten DEF SetEvent, media, AInv, IInv, Types
      <4>. QED BY <3>2, <4>2, QuietStep
    <3>4. CASE P # {}
      BY <3>1, <3>2, <3>4, WriteLogged
    <3>. QED BY <3>3, <3>4
  <2>. QED BY <2>1, <2>2
<1>5. CASE FinishPanels(r)
  BY <1>0, <1>5, AnswerStep DEF FinishPanels
<1>6. CASE TouchPanel(r)
  <2>1. CASE Abort(r)
    BY <1>6, <2>1, AbortLogged DEF TouchPanel
  <2>2. CASE ~Abort(r)
    BY <1>0, <1>6, <2>2, QuietStep, Unwritten DEF TouchPanel, rows, media
  <2>. QED BY <2>1, <2>2
<1>7. CASE DeleteCast(r)
  BY <1>0, <1>7, QuietStep, Unwritten DEF DeleteCast, rows, media
<1>8. CASE CommitContent(r)
  <2>1. CASE Abort(r)
    BY <1>8, <2>1, AbortLogged DEF CommitContent
  <2>2. CASE ~Abort(r)
    <3>1. on[r] \in Texts
      BY <1>0, <1>8 DEF CommitContent, AInv, IInv, RequestControl, Fits, Texts, Targets
    <3>2. /\ \A x \in Texts : source'[x] = IF x \in {on[r]} THEN r ELSE source[x]
          /\ pc[r] = "recast" /\ SetEvent(r, "succeeded")
      BY <1>0, <1>8, <2>2 DEF CommitContent, AInv, IInv, Types
    <3>. QED BY <3>1, <3>2, WriteLogged
  <2>. QED BY <2>1, <2>2
<1>9. CASE FinishContent(r)
  <2>1. CASE Live(on[r])
    BY <1>0, <1>9, <2>1, AnswerStep DEF FinishContent
  <2>2. CASE ~Live(on[r])
    <3>1. ~Stands(r)
      BY <1>0, <1>9, <2>2, StoreAssumption
      DEF FinishContent, Stands, AInv, IInv, RowControl, ContentOps, CanonicalOps
    <3>. QED BY <1>9, <2>2, <3>1, FailLogged DEF FinishContent, media
  <2>. QED BY <2>1, <2>2
<1>10. CASE CommitDeletePanel(r)
  BY <1>0, <1>10, QuietStep, Unwritten DEF CommitDeletePanel, Remove
<1>. QED BY <1>1, <1>2, <1>3, <1>4, <1>5, <1>6, <1>7, <1>8, <1>9, <1>10 DEF NextPanel

\* A character's.
LEMMA CharacterLogged ==
  ASSUME NEW r \in Requests, StepOf(r), NextCharacter(r)
  PROVE  Log!Next
<1>0. AInv /\ IInv'
  BY DEF StepOf
<1>1. ASSUME NEW s \in Stories, ExtractCharacters(r, s) PROVE Log!Next
  <2>1. ASSUME NEW e, Refuse(r, "extract_characters", s, e) PROVE Log!Next
    BY <2>1, RefuseLogged
  <2>2. CASE Begin(r, "extract_characters", s) /\ UNCHANGED <<rows, event, media>>
    BY <2>2, QuietStep, Unwritten DEF Begin, rows, media, StepOf
  <2>. QED BY <1>1, <2>1, <2>2 DEF ExtractCharacters
<1>2. ASSUME NEW c \in Characters, RefineCharacter(r, c) PROVE Log!Next
  BY <1>2, RefuseLogged, OpenLogged DEF RefineCharacter
<1>3. ASSUME NEW c \in Characters, UpdateCharacter(r, c) PROVE Log!Next
  <2>1. CASE Refuse(r, "update_character", c, "not_found")
    BY <2>1, RefuseLogged
  <2>2. CASE ~Refuse(r, "update_character", c, "not_found")
    BY <1>3, <2>2, QuietStep, Unwritten DEF UpdateCharacter, Begin, media, StepOf
  <2>. QED BY <2>1, <2>2
<1>4. ASSUME NEW c \in Characters, DeleteCharacter(r, c) PROVE Log!Next
  <2>1. CASE Refuse(r, "delete_character", c, "not_found")
    BY <2>1, RefuseLogged
  <2>2. CASE ~Refuse(r, "delete_character", c, "not_found")
    BY <1>4, <2>2, QuietStep, Unwritten DEF DeleteCharacter, Begin, Remove, media, StepOf
  <2>. QED BY <2>1, <2>2
<1>5. CASE CommitCharacters(r)
  <2>1. CASE Abort(r)
    BY <1>5, <2>1, AbortLogged DEF CommitCharacters
  <2>2. CASE ~Abort(r)
    BY <1>0, <1>5, <2>2, QuietStep, Unwritten DEF CommitCharacters, media
  <2>. QED BY <2>1, <2>2
<1>6. CASE CommitRefinement(r)
  <2>1. CASE Live(on[r])
    <3>1. on[r] \in Texts
      BY <1>0, <1>6 DEF CommitRefinement, AInv, IInv, RequestControl, Fits, Texts, Targets
    <3>2. \A x \in Texts : source'[x] = IF x \in {on[r]} THEN r ELSE source[x]
      BY <1>0, <1>6, <2>1 DEF CommitRefinement, AInv, IInv, Types
    <3>. QED BY <1>6, <2>1, <3>1, <3>2, WriteLogged DEF CommitRefinement
  <2>2. CASE ~Live(on[r])
    <3>1. ~Stands(r)
      BY <1>0, <1>6, Unwritten DEF CommitRefinement
    <3>. QED BY <1>6, <2>2, <3>1, FailLogged DEF CommitRefinement, media
  <2>. QED BY <2>1, <2>2
<1>7. CASE FinishRefinement(r)
  <2>1. CASE Live(on[r])
    BY <1>0, <1>7, <2>1, AnswerStep DEF FinishRefinement
  <2>2. CASE ~Live(on[r])
    <3>1. ~Stands(r)
      BY <1>0, <1>7, <2>2, StoreAssumption
      DEF FinishRefinement, Stands, AInv, IInv, RowControl, CanonicalOps
    <3>. QED BY <1>7, <2>2, <3>1, FailLogged DEF FinishRefinement, media
  <2>. QED BY <2>1, <2>2
<1>. QED BY <1>1, <1>2, <1>3, <1>4, <1>5, <1>6, <1>7 DEF NextCharacter

\* An image's.
LEMMA RenderLogged ==
  ASSUME NEW r \in Requests, StepOf(r), NextRender(r)
  PROVE  Log!Next
<1>0. AInv /\ IInv'
  BY DEF StepOf
<1>1. ASSUME NEW t, NEW i, NEW j,
             \/ RenderPanel(r, t) \/ RenderPanelEdit(r, t, i, j)
             \/ RenderCharacter(r, t) \/ RenderCharacterEdit(r, t, i, j)
      PROVE  Log!Next
  BY <1>1, RefuseLogged, OpenLogged
  DEF RenderPanel, RenderPanelEdit, RenderCharacter, RenderCharacterEdit
<1>2. CASE StoreRender(r)
  BY <1>0, <1>2, QuietStep, Unwritten DEF StoreRender, rows
<1>3. CASE LinkRender(r)
  <2>1. ~Stands(r) /\ image[r] = "none" /\ pc[r] = "stored"
    BY <1>0, <1>3, Unwritten DEF LinkRender
  <2>2. CASE Abort(r)
    BY <2>1, <2>2, AbortLogged
  <2>3. CASE UNCHANGED <<rows, event, media, call>>
    BY <1>0, <2>3, AnswerStep
  <2>4. CASE /\ ~Live(on[r]) /\ image' = [image EXCEPT ![r] = "render"] /\ FailEvent(r, "other")
             /\ UNCHANGED <<rows, call>>
    BY <1>0, <2>1, <2>4, FailLogged DEF AInv, IInv, Types
  <2>. QED BY <1>3, <2>2, <2>3, <2>4 DEF LinkRender
<1>4. CASE CommitRender(r)
  <2>1. CASE Abort(r)
    BY <1>4, <2>1, AbortLogged DEF CommitRender
  <2>2. CASE ~Abort(r)
    <3>1. image'[r] = "render" /\ Live(on'[r])
      BY <1>0, <1>4, <2>2 DEF CommitRender, call, AInv, IInv, Types
    <3>. QED BY <1>4, <2>2, <3>1, ImageLogged DEF CommitRender
  <2>. QED BY <2>1, <2>2
<1>5. CASE FinishRender(r)
  <2>1. CASE \/ image[r] = "none" /\ FailEvent(r, "other")
             \/ ~Live(on[r]) /\ FailEvent(r, "not_found")
    <3>1. ~Stands(r)
      BY <1>0, <1>5, <2>1, StoreAssumption
      DEF FinishRender, Stands, AInv, IInv, RowControl, WriterOps, ContentOps, RenderOps, RereadOps,
          CanonicalOps
    <3>. QED BY <1>0, <1>5, <2>1, <3>1, FailLogged DEF FinishRender, media
  <2>2. CASE UNCHANGED event
    BY <1>0, <1>5, <2>2, AnswerStep DEF FinishRender
  <2>. QED BY <1>5, <2>1, <2>2 DEF FinishRender
<1>6. ASSUME NEW o \in CanonicalOps, NEW t \in Targets, NEW i, SetCanonical(r, o, t, i)
      PROVE  Log!Next
  <2>1. CASE \E e : Refuse(r, o, t, e)
    BY <2>1, RefuseLogged
  <2>2. CASE ~\E e : Refuse(r, o, t, e)
    <3>1. op'[r] = o /\ on'[r] = t /\ pc[r] = "ready"
      BY <1>0, <1>6, <2>2 DEF SetCanonical, Begin, AInv, IInv, Types
    <3>. QED BY <1>6, <2>2, <3>1, ImageLogged DEF SetCanonical, Live
  <2>. QED BY <2>1, <2>2
<1>7. CASE FinishSetCanonical(r) \/ FinishUpload(r)
  BY <1>0, <1>7, AnswerStep DEF FinishSetCanonical, FinishUpload
<1>8. ASSUME NEW o, NEW t, Upload(r, o, t) PROVE Log!Next
  <2>1. ASSUME NEW e, Refuse(r, o, t, e) PROVE Log!Next
    BY <2>1, RefuseLogged
  <2>2. CASE Begin(r, o, t) /\ UNCHANGED <<rows, event, image>>
    BY <1>0, <2>2, QuietStep, Unwritten DEF Begin, rows
  <2>. QED BY <1>8, <2>1, <2>2 DEF Upload
<1>9. CASE CommitUpload(r)
  <2>1. /\ pc[r] = "uploaded" /\ image' = [image EXCEPT ![r] = "reference"]
        /\ SetEvent(r, "succeeded") /\ UNCHANGED <<row, source, op, on>>
    BY <1>9 DEF CommitUpload, rows, call
  <2>2. CASE Live(on[r])
    <3>1. image'[r] = "reference" /\ Live(on'[r])
      BY <1>0, <2>1, <2>2 DEF AInv, IInv, Types
    <3>. QED BY <2>1, <3>1, ImageLogged
  <2>3. CASE ~Live(on[r])
    <3>1. \A q \in Requests : Stands(q)' <=> Stands(q)
      BY <1>0, <2>1, <2>3, Unwritten DEF Stands, Live, SetEvent, AInv, IInv, Types
    <3>. QED BY <1>0, <2>1, <3>1, Unwritten, InVainStep DEF SetEvent, AInv
  <2>. QED BY <2>2, <2>3
<1>10. ASSUME NEW o, NEW t, NEW i, DeleteReference(r, o, t, i) PROVE Log!Next
  <2>1. CASE Refuse(r, o, t, "not_found")
    BY <2>1, RefuseLogged
  <2>2. CASE ~Refuse(r, o, t, "not_found")
    <3>1. pc[r] = "ready" /\ event' = event /\ source' = source /\ image'[r] = "none"
      BY <1>0, <1>10, <2>2, Unwritten DEF DeleteReference, Begin, rows, AInv, IInv, Types
    <3>. QED BY <3>1, QuietStep
  <2>. QED BY <2>1, <2>2
<1>. QED
  BY <1>1, <1>2, <1>3, <1>4, <1>5, <1>6, <1>7, <1>8, <1>9, <1>10
  DEF NextRender, UploadPanelReference, UploadCharacterReference, SetCanonicalPanel,
      SetCanonicalCharacter, DeletePanelReference, DeleteCharacterReference, CanonicalOps, Targets

\* A story's or a project's.
LEMMA StoryLogged ==
  ASSUME NEW r \in Requests, StepOf(r), NextStory(r)
  PROVE  Log!Next
<1>0. AInv /\ IInv'
  BY DEF StepOf
<1>1. ASSUME NEW s \in Stories, GenerateStory(r, s) PROVE Log!Next
  BY <1>1, RefuseLogged, OpenLogged DEF GenerateStory
<1>2. ASSUME NEW s \in Stories, DeleteStory(r, s) PROVE Log!Next
  <2>1. CASE Refuse(r, "delete_story", s, "not_found")
    BY <2>1, RefuseLogged
  <2>2. CASE ~Refuse(r, "delete_story", s, "not_found")
    BY <1>0, <1>2, <2>2, QuietStep, Unwritten DEF DeleteStory, Begin, Remove, media
  <2>. QED BY <2>1, <2>2
<1>3. ASSUME NEW p \in Projects, CreateStory(r, p) PROVE Log!Next
  <2>1. CASE Refuse(r, "create_story", p, "other")
    BY <2>1, RefuseLogged
  <2>2. CASE ~Refuse(r, "create_story", p, "other")
    BY <1>0, <1>3, <2>2, QuietStep, Unwritten DEF CreateStory, Begin, media
  <2>. QED BY <2>1, <2>2
<1>4. ASSUME NEW p \in Projects, DeleteProject(r, p) PROVE Log!Next
  <2>1. CASE Refuse(r, "delete_project", p, "not_found")
    BY <2>1, RefuseLogged
  <2>2. CASE ~Refuse(r, "delete_project", p, "not_found")
    <3>. DEFINE F == {q \in Requests : on[q] \in Cascade(p)}
    <3>1. /\ pc[r] = "ready" /\ Remove(Cascade(p))
          /\ event' = [q \in Requests |-> IF on[q] \in Cascade(p) THEN "none" ELSE event[q]]
          /\ image' = [q \in Requests |-> IF on[q] \in Cascade(p) THEN "none" ELSE image[q]]
      BY <1>4, <2>2 DEF DeleteProject, Begin
    <3>2. ASSUME NEW x \in Texts, NEW q \in Requests, source'[x] = q
          PROVE  source[x] = q /\ q \notin F
      <4>1. x \notin Cascade(p) /\ source[x] = q
        BY <3>1, <3>2, StoreAssumption DEF Remove
      <4>2. CASE op[q] # "generate_panels"
        BY <1>0, <4>1, <4>2, StoreAssumption DEF AInv, IInv, RowControl
      <4>3. CASE op[q] = "generate_panels"
        <5>1. x \in Panels /\ on[q] = Parent[x]
          BY <1>0, <4>1, <4>3, StoreAssumption DEF AInv, IInv, RowControl
        <5>2. Parent[x] \in Stories /\ Parent[x] \notin Projects
          BY <5>1, StoreAssumption DEF Targets, Texts
        <5>. QED BY <4>1, <5>1, <5>2, StoreAssumption DEF Cascade, Rows, Texts, Targets
      <4>. QED BY <4>2, <4>3
    <3>3. ASSUME NEW q \in Requests, Stands(q)' PROVE Stands(q) /\ q \notin F
      <4>1. CASE \E x \in Texts : source'[x] = q
        BY <3>2, <4>1 DEF Stands
      <4>2. CASE \A x \in Texts : source'[x] # q
        <5>1. q \notin F
          BY <3>1, <3>3, <4>2 DEF Stands
        <5>2. q # r
          BY <1>0, <3>1, <3>3, <4>2, <5>1, Unwritten DEF Stands
        <5>. QED BY <3>3, <4>2, <5>1, <5>2, OthersFade
      <4>. QED BY <4>1, <4>2
    <3>4. event' = [q \in Requests |-> IF q \in F THEN "none" ELSE event[q]]
      BY <3>1
    <3>. HIDE DEF F
    <3>5. F \in SUBSET Requests
      BY DEF F
    <3>. QED BY <1>0, <3>3, <3>4, <3>5, EraseStep DEF AInv
  <2>. QED BY <2>1, <2>2
<1>5. CASE CreateProject(r)
  BY <1>0, <1>5, QuietStep, Unwritten DEF CreateProject, Begin, media
<1>6. CASE DefaultProject(r)
  BY <1>0, <1>6, QuietStep, Unwritten DEF DefaultProject, Begin, rows, media
<1>7. CASE CreateDefault(r)
  BY <1>0, <1>7, QuietStep, Unwritten DEF CreateDefault, media
<1>8. CASE FinishDefault(r) \/ FinishCreateStory(r) \/ StreamEnd(r) \/ StreamStops(r)
  BY <1>0, <1>8, AnswerStep DEF FinishDefault, FinishCreateStory, StreamEnd, StreamStops
<1>9. CASE CommitStory(r)
  <2>1. CASE Live(on[r])
    <3>1. on[r] \in Texts
      BY <1>0, <1>9 DEF CommitStory, AInv, IInv, RequestControl, Fits, Texts
    <3>2. \A x \in Texts : source'[x] = IF x \in {on[r]} THEN r ELSE source[x]
      BY <1>0, <1>9, <2>1 DEF CommitStory, AInv, IInv, Types
    <3>. QED BY <1>9, <2>1, <3>1, <3>2, WriteLogged DEF CommitStory
  <2>2. CASE ~Live(on[r])
    <3>1. ~Stands(r)
      BY <1>0, <1>9, Unwritten DEF CommitStory
    <3>. QED BY <1>9, <2>2, <3>1, FailLogged DEF CommitStory, media
  <2>. QED BY <2>1, <2>2
<1>. QED BY <1>1, <1>2, <1>3, <1>4, <1>5, <1>6, <1>7, <1>8, <1>9 DEF NextStory

-----------------------------------------------------------------------------
\* The log starts empty.
LEMMA InitLog == Init => Log!Init
BY StoreAssumption DEF Init, Log!Init, Standing

\* A step of the engine is one of the log, or none.
LEMMA StepLog == AInv /\ AInv' /\ [Next]_vars => [Log!Next]_<<event, Standing>>
<1>. SUFFICES ASSUME AInv, AInv', [Next]_vars PROVE [Log!Next]_<<event, Standing>>
  OBVIOUS
<1>1. IInv /\ IInv' /\ StepFrame
  BY Framed DEF AInv, AnswerType
<1>2. ASSUME NEW r \in Requests, NextPanel(r) PROVE Log!Next
  BY <1>1, <1>2, PanelLogged, PanelOwed DEF StepOf, Owed
<1>3. ASSUME NEW r \in Requests, NextCharacter(r) PROVE Log!Next
  BY <1>1, <1>3, CharacterLogged, CharacterOwed DEF StepOf, Owed
<1>4. ASSUME NEW r \in Requests, NextRender(r) PROVE Log!Next
  BY <1>1, <1>4, RenderLogged, RenderOwed DEF StepOf, Owed
<1>5. ASSUME NEW r \in Requests, NextStory(r) PROVE Log!Next
  BY <1>1, <1>5, StoryLogged, StoryOwed DEF StepOf, Owed
<1>6. ASSUME NEW r \in Requests, ModelFails(r) PROVE Log!Next
  <2>1. StepOf(r)
    BY <1>1, <1>6 DEF StepOf, ModelFails, FailEvent, Respond, Goto, IInv, Types
  <2>2. ~Stands(r) /\ image[r] = "none"
    BY <1>6, Unwritten DEF ModelFails
  <2>. QED BY <1>6, <2>1, <2>2, FailLogged DEF ModelFails, media
<1>7. ASSUME NEW r \in Requests, Vanish(r) PROVE Log!Next
  <2>1. UNCHANGED <<rows, event, media, op, on>>
    BY <1>7 DEF Vanish
  <2>. QED BY <1>1, <2>1, FadeStep DEF Stands, Live, rows, media
<1>8. CASE UNCHANGED vars
  BY <1>8 DEF vars, rows, media, call, Standing, Live
<1>. QED BY <1>2, <1>3, <1>4, <1>5, <1>6, <1>7, <1>8 DEF Next, Quiescent

\* What an edit does to the rows happens once, in the step that records its success; an
\* edit recorded as failed leaves nothing, and what has been removed does not come back.
THEOREM EditLogIsImplemented == Spec => ImplementsEditLog
<1>. QED BY InitLog, StepLog, AnswerInvariance, PTL DEF Spec, ImplementsEditLog, Log!Spec

-----------------------------------------------------------------------------
(***************************************************************************)
(* What the log promises, the engine keeps: the consequences are proved of *)
(* the steps of the log and carried over by the refinement.                *)
(***************************************************************************)
OnlySuccessStands == \A r \in Standing : event[r] = "succeeded"

LEMMA LogKeepsSuccess ==
  ASSUME event \in [Requests -> EditEventStatus \cup {"none"}], Standing \subseteq Requests,
         OnlySuccessStands, Log!Next
  PROVE  OnlySuccessStands'
<1>. USE DEF OnlySuccessStands
<1>1. CASE Log!Erase
  BY <1>1 DEF Log!Erase
<1>2. ASSUME NEW e \in Requests, Log!Open(e) \/ Log!SucceedInVain(e) \/ Log!Fail(e)
      PROVE  OnlySuccessStands'
  BY <1>2 DEF Log!Open, Log!SucceedInVain, Log!Fail
<1>3. ASSUME NEW e \in Requests, Log!Succeed(e) PROVE OnlySuccessStands'
  BY <1>3 DEF Log!Succeed
<1>. QED BY <1>1, <1>2, <1>3 DEF Log!Next

\* What can be seen of an edit in the rows has its success recorded: an edit that is
\* pending, failed or forgotten has left nothing, whichever step it failed in.
THEOREM OnlySuccessIsSeen == Spec => []OnlySuccessStands
<1>1. Init => OnlySuccessStands
  BY InitLog DEF Log!Init, OnlySuccessStands
<1>2. AInv /\ AInv' /\ OnlySuccessStands /\ [Next]_vars => OnlySuccessStands'
  <2>. SUFFICES ASSUME AInv, AInv', OnlySuccessStands, [Next]_vars PROVE OnlySuccessStands'
    OBVIOUS
  <2>1. event \in [Requests -> EditEventStatus \cup {"none"}] /\ Standing \subseteq Requests
    BY StandingIs DEF AInv, IInv, Types
  <2>2. CASE Log!Next
    BY <2>1, <2>2, LogKeepsSuccess
  <2>3. CASE UNCHANGED <<event, Standing>>
    BY <2>3 DEF OnlySuccessStands
  <2>. QED BY <2>2, <2>3, StepLog
<1>. QED BY <1>1, <1>2, AnswerInvariance, PTL DEF Spec

\* An edit that has ended and cannot be seen, because a later edit took its place or
\* a deletion removed it, does not come back by any step of any request.
Faded(r) == event[r] \in {"succeeded", "failed"} /\ r \notin Standing

THEOREM EffectsDoNotReturn ==
  Spec => [][\A r \in Requests : Faded(r) => r \notin Standing']_vars
<1>1. ASSUME AInv, AInv', Next, NEW r \in Requests, Faded(r) PROVE r \notin Standing'
  <2>1. CASE Log!Erase
    BY <1>1, <2>1 DEF Log!Erase, Faded
  <2>2. ASSUME NEW e \in Requests, Log!Open(e) \/ Log!SucceedInVain(e) \/ Log!Fail(e)
        PROVE  r \notin Standing'
    BY <1>1, <2>2 DEF Log!Open, Log!SucceedInVain, Log!Fail, Faded
  <2>3. ASSUME NEW e \in Requests, Log!Succeed(e) PROVE r \notin Standing'
    BY <1>1, <2>3 DEF Log!Succeed, Faded
  <2>4. CASE UNCHANGED <<event, Standing>>
    BY <1>1, <2>4 DEF Faded
  <2>. QED BY <1>1, <2>1, <2>2, <2>3, <2>4, StepLog DEF Log!Next
<1>2. AInv /\ AInv' /\ [Next]_vars => [\A r \in Requests : Faded(r) => r \notin Standing']_vars
  BY <1>1
<1>. QED BY <1>2, AnswerInvariance, PTL DEF Spec
=============================================================================
