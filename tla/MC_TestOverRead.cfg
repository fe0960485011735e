CONSTANTS
    e1 = e1
    e2 = e2
    e3 = e3
    e4 = e4
    Events <- MonEvents
    Start <- MonStart
    End <- MonEnd
    Meta <- MonMeta
    Capacity = 16
    Variant = 1
SPECIFICATION MSpec
INVARIANT ReadsWithinEvent
