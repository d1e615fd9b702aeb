SPECIFICATION Spec
CONSTANTS
    m1 = m1
    m2 = m2
    Keys = {k1}
    Requests = {r1, r2}
    Editors = {e1, e2}
    Models = {m1, m2}
    Drafts <- ThreePolicies
    MaxMinute = 1
SYMMETRY Symmetric
INVARIANTS
    PermitsExact
    GrantWhole
PROPERTIES
    RevocationFinal
    RateHeld
