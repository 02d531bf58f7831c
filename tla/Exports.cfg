CONSTANTS
    Users = {u1, u2}
    Handlers = {h1, h2}
    Codes = {"good", "bad"}
    Valid = {"good"}
    ToolsFail = TRUE
    MaxStarts = 1
SPECIFICATION FairExportSpec
PROPERTIES ExportIsWhole ExportEnds
