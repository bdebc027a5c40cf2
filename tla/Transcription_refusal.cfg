CONSTANTS
    Locals = {c1}
    Submissions = {h1, h2, h3, h4}
SPECIFICATION Spec
SYMMETRY ClipSymmetry
PROPERTIES
    RefusedOnlyWhenFull
