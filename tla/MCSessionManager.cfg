\* One session, three calls in flight, every store command may be rejected.
CONSTANTS
    s1 = s1
    s2 = s2
    c1 = c1
    c2 = c2
    c3 = c3
    NoSession = NoSession
    SessionIds <- OneSession
    Calls <- ThreeCalls
    Faults <- AllFaults
SPECIFICATION Spec
SYMMETRY Symmetry
INVARIANTS CoherentUnlessTainted ClosedCopiesAreTrue
PROPERTIES ImplementsLifecycle
