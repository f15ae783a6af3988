---------------------------- MODULE MCStoryEngine ----------------------------
EXTENDS StoryEngine, TLC
CONSTANTS project, spares, story
MCProjects == {project} \cup spares
MCParent == [x \in Texts |-> IF x \in Stories THEN project ELSE story]
Symmetry == Permutations(Requests) \cup Permutations(spares)
=============================================================================
