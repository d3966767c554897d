CONSTANTS
    Texts = {"intro", "fig", "note", "web", "figure", "logo", "broken", "comment", "footnote",
             "x", "y", "z", "named", "bad", "quote", "quote+", "wrapped", "hidden"}
    Content <- SomeContent
    Input <- CopiedInput
    None = None
    MaxRevision = 2
    Modes = {FALSE}
    External = {"http"}
    BadPaths = {"%zz"}
SPECIFICATION Spec
CHECK_DEADLOCK FALSE
INVARIANT HandlesAreUnique
