CONSTANTS
    a = a
    p1 = p1  p2 = p2
    control = control  state = state
    Backend = {"oci", "s3", "local"}
    Object = {control, state}
    Bare = {control}
    Proc = {p1, p2}
    Device = {a}
    DeviceOf <- OneDevice
SPECIFICATION Spec
SYMMETRY Alike
INVARIANTS
    AckedIsWhole
PROPERTIES
    ServedIsShown
