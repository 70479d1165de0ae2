SPECIFICATION Spec
CONSTANTS
    Owners = {o1, o2}
    ConvIds = {c1}
    MsgIds = {1, 2}
    Versions = {v1, v2}
    MaxVersion = 2
    MaxI64 = 1
    None = None
    Tasks = {t1, t2}
    Elements = {e1, e2}
    Values = {x, y}
    Absent = Absent
INVARIANT OwnerScopedUpsert
