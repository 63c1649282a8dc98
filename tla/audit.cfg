\* Two sessions, three entries, pages of one entry.
CONSTANTS
    None = None
    w1 = w1
    w2 = w2
    e1 = e1
    e2 = e2
    e3 = e3
    Writer = {w1, w2}
    Event = {e1, e2, e3}
    PageSize = 1
    Filters <- SomeFilters
    Times = {3}
    MaxLag = 1
    MaxTime = 3
SPECIFICATION Spec
SYMMETRY Symmetry
INVARIANTS NothingWithoutCommit PagingMissesOnlyBackdated
CHECK_DEADLOCK FALSE
