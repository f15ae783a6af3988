SPECIFICATION SpecRendered
CONSTANTS
    project = project
    story = story
    panel = panel
    hero = hero
    r1 = r1
    None = None
    Given = Given
    spares = {p1, p2}
    Projects <- MCProjects
    Stories = {story}
    Characters = {hero}
    Panels = {panel, next}
    Parent <- MCParent
    Requests = {r1, r2, r3}
    Readers = {x1}
    Existing = {project, story, panel, hero}
    Blank = {panel}
    MaxLost = 0
SYMMETRY Symmetry
INVARIANTS
    ReadTypeOK
    ExportsAreWhole
    ShownWasCanonical
PROPERTIES
    GapsAreReal
