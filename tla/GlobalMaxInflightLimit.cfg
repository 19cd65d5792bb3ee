\* Serial calls, no expiry, one limit: nothing but the interleaving of two calls.
CONSTANTS
    a = a
    b = b
    h1 = h1
    h2 = h2
    h3 = h3
    NoState = NoState
    Instances = {a, b}
    Handlers <- SerialHandlers
    Owner <- SerialOwner
    Expiring = {}
    Reports = {0, 1, 2, 3}
    RequestIDs <- SerialIDs
    Limits = {2}
    Refs = {r1, r2}
SPECIFICATION Spec
INVARIANT QuiescentWithinMax
