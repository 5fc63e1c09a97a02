SPECIFICATION Spec
CONSTANTS
    Requests = {r1}
    Readers = {s1}
    Objects = {o1, o2, o3}
    Sources = {a}
    Kinds = {"edit"}
    Overlap = TRUE
    MaxOps = 4
    None = None
INVARIANTS
    EditsKept
CHECK_DEADLOCK FALSE
