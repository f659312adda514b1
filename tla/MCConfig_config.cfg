CONSTANTS
    c1 = c1
    c2 = c2
    g1 = g1
    a1 = a1
    a2 = a2
    p1 = p1
    p2 = p2
    v1 = v1
    v2 = v2
    v3 = v3
    Cameras = {c1, c2}
    Groups = {g1}
    Admins = {a1, a2}
    Knobs = {"k"}
    Values = {v1, v2, v3}
    Default = Default
    PolicyIds = {Default, p1, p2}
    OperatorNames = {"Night"}
    AutoNames = {"Door", "Door 2"}
    Inherit = Inherit
    Keep = Keep
    Overlapping = {"edit"}
    None = None
    Storages = {"ssd", "nas", "usb"}
    Paths = {"live", "live/old", "disk2", "disk3"}
    Nested <- MCNested
    Nil = Nil
    Sessions = {"admin"}
    Careful = TRUE
SPECIFICATION ConfigSpec
SYMMETRY MCSymmetry
INVARIANTS
    ConfigTypeOK
    
PROPERTIES
    EditsKeepTheirWord
