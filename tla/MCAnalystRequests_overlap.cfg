\* Three requests of any kind that overlap and fail anywhere.
CONSTANTS
    Requests = {r1, r2, r3}
    Notes = {note}
    Documents = {doc}
    Alerts = {alert}
    Fields = {title, thesis}
    Values = {"v1", "v2"}
    Blank <- MCBlank
    None = None
SPECIFICATION FairSpec
INVARIANTS NoLostEdit RowHasObject
PROPERTIES EventuallyAnswered
CHECK_DEADLOCK FALSE
