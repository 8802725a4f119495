CONSTANTS
    Owners = {p, q, r}
    Observers = {o, n}
    Wrappers = {a, b, c, d}
    None = none
    Null = null
SPECIFICATION Spec
SYMMETRY Symmetry
INVARIANTS CountsExact NoDangling
PROPERTIES ValueLivesWithOwners
