---------------------------- MODULE MCStoryReads ----------------------------
(* A story with a panel and a character; request r1 has rendered the panel. *)
EXTENDS StoryReads, TLC

CONSTANTS project, spares, story, panel, hero, r1

MCProjects == {project} \cup spares
MCParent == [x \in Texts |-> IF x \in Stories THEN project ELSE story]

By(done, otherwise) == [r \in Requests |-> IF r = r1 THEN done ELSE otherwise]

InitRendered ==
    /\ row = [x \in Rows |-> IF x \in Existing THEN "live" ELSE "unused"]
    /\ content = [x \in Texts |-> IF x \in Existing \ Blank THEN Given ELSE None]
    /\ source = [x \in Texts |-> None]
    /\ canonical = [t \in Targets |-> IF t = panel THEN r1 ELSE None]
    /\ joins = {} /\ blobs = {r1}
    /\ event = By("succeeded", "none") /\ image = By("render", "none")
    /\ op = By("render_panel", "none") /\ on = By(panel, None)
    /\ known = By({}, {}) /\ cast = By({}, {}) /\ deleted = By({}, {})
    /\ pc = By("done", "ready") /\ answer = By(200, None)
    /\ lost = 0
    /\ InitReaders
SpecRendered == InitRendered /\ [][NextReads]_allVars

Symmetry == Permutations(Requests \ {r1}) \cup Permutations(spares)
=============================================================================
