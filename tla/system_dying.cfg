SPECIFICATION Spec
CONSTANTS
    MaxPods = 2
    Absent = Absent
    Foreign = Foreign
    Handler = {h1, h2}
    PodName = w
    MaxCrashes = 0
SYMMETRY Symmetric
PROPERTIES
    NeverEnsuredDying
