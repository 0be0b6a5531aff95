SPECIFICATION Spec
CONSTANTS
    a = a
    m = m
    Whole = Whole
    Single = Single
    o1 = o1
    o2 = o2
    Procs = {p1, p2}
    Files = {a, m}
    Dirs = {1, 2}
    dir <- InDir
    Records = {Whole, Single}
    entry <- EntryOf
    members <- MembersOf
    project <- ProjectOf
    Ops = {o1, o2}
    about <- AboutOf
    images <- ImagesOf
    Hands = {}
    MaxCrashes = 1
    Nil = Nil
PROPERTIES
    PendingComesFirst
