SPECIFICATION MCSpec
CONSTANTS
    r1 = r1
    r2 = r2
    r3 = r3
    e1 = e1
    e2 = e2
    e3 = e3
    e4 = e4
    i1 = i1
    i2 = i2
    None = None
    Request = {r1, r2, r3}
    MaxToken = 2
    Email = {e1, e2, e3, e4}
    Invitation = {i1, i2}
    Limit = 2
    Window = 2
    MaxNow = 5
    MaxResets = 1
    MaxDeaths = 1
SYMMETRY Symmetry
INVARIANTS
    SpentLinkIsDead
    UnverifiedLinkIsLive
    AloneNewestResetWorks
    OvershootIsBounded
    FreshAfterLock
    OneOrganizationEach
    AcceptedIsSeated
    AloneOneUserPerInvitation
CHECK_DEADLOCK FALSE
