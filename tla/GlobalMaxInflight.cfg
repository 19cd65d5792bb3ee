\* Overlapping calls of a, serial calls and expiry of b, a limit that changes.
CONSTANTS
    a = a
    b = b
    h1 = h1
    h2 = h2
    h3 = h3
    NoState = NoState
    Instances = {a, b}
    Handlers <- MixedHandlers
    Owner <- MixedOwner
    Expiring = {b}
    Reports = {0, 3}
    RequestIDs <- MixedIDs
    Limits = {2, 4}
    Refs = {r1, r2, r3}
SPECIFICATION Spec
INVARIANTS TypeOK  RollbackExact 
 
