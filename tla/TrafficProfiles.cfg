SPECIFICATION Spec
CONSTANTS
    FrameSizes = {64, 1518}
INVARIANTS
    AsNamed
    Balanced
    PortsLoaded
