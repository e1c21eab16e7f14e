SPECIFICATION Spec
CONSTANTS
    Conns = {c1, c2}
    Chargers = {p1}
    Links = {"Connecting", "Connected", "Reconnecting"}
SYMMETRY Symmetry
INVARIANT ForwardingIsHealthy
