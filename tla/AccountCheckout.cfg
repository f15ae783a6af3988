SPECIFICATION Spec
CONSTANTS
    SignIns = {s1, s2}
    Subs = {g1, g2}
    Emails = {e1, e2}
    g1 = g1
    g2 = g2
    e1 = e1
    e2 = e2
    None = None
    Checkouts = {c1, c2}
    Profiles <- MCProfiles
    Moves <- MCMoves
    MaxFaults = 1
SYMMETRY Symmetry
INVARIANTS
    TypeOK
    SameIdentitySameUser
    OneStripeCustomer
    EventAndRowTogether
    PaidCanBeBooked
    NoSecondSubscription
PROPERTIES
    TurnedAwayForCause
    AccountOfferIsKept
CHECK_DEADLOCK FALSE
