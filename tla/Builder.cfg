\* A builder and its clone, or two builders.
CONSTANTS
    Builders = {b1, b2}
    Names <- MCNames
    TextLines <- MCTextLines
    Functions <- MCFunctions
    Sources <- MCSources
    Runs <- MCRuns
    None = None
SPECIFICATION Spec
INVARIANTS
    TypeOK
    CallbacksAsGiven
PROPERTIES
    SetOnce
\* All builders may have been built.
CHECK_DEADLOCK FALSE
