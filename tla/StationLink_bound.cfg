SPECIFICATION Spec
CONSTANTS
    Points = {p1, p2}
    Networks = {home, work}
    None = None
    Contract = {"config", "read"}
PROPERTIES
    AnyStaysAny
