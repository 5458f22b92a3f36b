CONSTANTS
    Handlers = {h1, h2}
    NoHandler = NoHandler
    MaxHeight = 2
    MinAltitude = 1
    MaxAltitude = 2
    DisarmHeight = 0
    FlightAllowed = TRUE
SPECIFICATION Spec
PROPERTIES
    TakeoffOnGround
