SPECIFICATION Spec
CONSTANTS
    project = project
    story = story
    None = None
    Given = Given
    spares = {p1, p2}
    Projects <- MCProjects
    Stories = {story, newStory}
    Characters = {hero, newHero}
    Panels = {panel, newPanel}
    Parent <- MCParent
    Requests = {r1, r2}
    Existing = {project, story, hero, panel}
    Blank = {}
    MaxLost = 0
SYMMETRY Symmetry
INVARIANTS
    RenderIsAtomic
