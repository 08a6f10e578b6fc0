SPECIFICATION WindowSpec
CONSTANTS
    ui_min_width = 600
    NonClient = 40
    Processes = {1, 2}
    Exes = {"stable", "beta", "closed"}
    Closed = {"closed"}
    AppName <- MCAppName
    Description <- MCDescription
    Folder <- MCFolder
    Details <- MCDetails
    Versions <- MCVersions
    WorkHeights = {300, 480, 720, 1040}
    Beginnings <- MCBeginnings
    MaxMoves = 1
    MaxDpi = 144
INVARIANTS ListSound ClickReachesProgram WindowSound
PROPERTY ProgramsListed
