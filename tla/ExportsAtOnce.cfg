\* Nothing fails: two requests for one target.
CONSTANTS
    Users = {u1, u2}
    Handlers = {h1, h2}
    Codes = {"good", "bad"}
    Valid = {"good"}
    ToolsFail = FALSE
    MaxStarts = 0
SPECIFICATION ExportSpec
PROPERTY ManyRequests
