SPECIFICATION SessionFairSpec
CONSTANTS
    owner = owner
    admin = admin
    ann = ann
    s1 = s1
    s2 = s2
    s3 = s3
    Users = {owner, ann}
    Sockets = {s1, s2}
    UserOf <- OwnerAndAnn
    Owner = owner
    Admins = {}
    Nobody = Nobody
    Free = Free
    MaxSeats = 1
    SeatCounts = {1}
    MaxTime = 2
    Times = {0, 1, 2}
    Grace = 1
    Patient = FALSE
    Scenarios = {{"take", "lock"}}

    
PROPERTIES
    ReservationResolved
