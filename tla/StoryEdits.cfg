SPECIFICATION Spec
CONSTANTS
    project = project
    story = story
    None = None
    Given = Given
    spares = {p1, p2, p3}
    Projects <- MCProjects
    Stories = {story, newStory}
    Characters = {hero, newHero}
    Panels = {panel, newPanel}
    Parent <- MCParent
    Requests = {r1, r2, r3}
    Existing = {project, story, hero, panel}
    Blank = {panel}
    MaxLost = 1
SYMMETRY Symmetry
INVARIANTS
    TypeOK
    ContentIsAudited
    CastMatchesContent
    CanonicalIsOwnRender
    RendersAreCanonicalised
    ImagesAreAccounted
    AnswerIsHonest
PROPERTIES
    ImplementsEditLog
