SPECIFICATION Spec
CONSTANTS
    Callers = {c1, c2}
    Names = {admin, other}
    AdminName = admin
    Ips = {ip1}
    Sids = {s1, s2, s3}
    NoSid = NoSid
    Limit = 1
    Window = 1
    Grace = 1
    AccessLife = 1
    SessionLife = 2
    Retention = 2
    Delay = 1
    MaxNow = 3
    MaxSerial = 2
    MaxHeld = 2
SYMMETRY Symmetric
INVARIANTS
    TypeOK
    LoginLimit
    OneHeirPerFamily
    ReplayEndsFamily
    RotatedRemembered
CHECK_DEADLOCK FALSE
