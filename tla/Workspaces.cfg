SPECIFICATION CatalogueSpec
CONSTANTS
    home = home
    link = link
    drive = drive
    NoPath = NoPath
    r1 = r1
    NoRepo = NoRepo
    c1 = c1
    Path <- Spellings
    RealPath <- Resolve
    Repo = {r1}
    Remote = {"github"}
    Call = {c1}
    MaxWorkspaces = 2
    MaxProjects = 2
    Old = 1
    Removable = {drive}
INVARIANTS
    OneFolderOneProject
PROPERTIES
    FolderIsNotTaken
    NothingVanishes
CHECK_DEADLOCK FALSE
