\* Safety: two workers, three requests, more requests than the list takes.
CONSTANTS
    Worker = {w1, w2}
    Request = {r1, r2, r3}
    Fd = {f1, f2}
    None = None
    MaxRequests = 2
    MaxAnswers = 2
SYMMETRY Symmetry
SPECIFICATION Spec
CHECK_DEADLOCK FALSE
INVARIANTS
    TypeOK
    CountersAgree
    NoLostWakeup
    EachRequestInOnePlace
    UncancelledAnsweredOnce
    InFlightRegistered
PROPERTIES
    ImplementsContract
