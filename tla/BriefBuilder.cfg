SPECIFICATION BuilderSpec
CONSTANTS
    None = None
    Topics = {"typed"}
    TopicNames = {"named"}
    Subtopics = {"narrow"}
    Grades = {"grade"}
    Profiles = {"plain", "noted"}
    Noted = {"noted"}
    Outcomes = {"understand", "assess"}
    Resources = {"worksheet"}
    Supports = {"visuals"}
    Depths = {"standard"}
    Notes = {""}
    Recommend <- MCRecommend
    IsReady <- MCIsReady
INVARIANTS
    OneAtATime
    OnlyRacesGetPast
