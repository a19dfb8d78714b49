CONSTANTS
    Containers = {o1, o2}
    Closures = {c1, c2}
    Cells = {u1}
    Slots = {s1, s2}
    Fields = {f1, f2}
    Nil = nil
SYMMETRY Symmetry
SPECIFICATION Spec
INVARIANT ClearsOnlyCycles
