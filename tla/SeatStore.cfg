SPECIFICATION SeatSpec
CONSTANTS
    Users = {u1, u2, u3}
    MaxSeats = 2
    Times = {0, 1, 2}
    Grace = 1
    Free = Free
SYMMETRY Symmetry
INVARIANTS
    SingleOccupancy
    IndexSound
PROPERTIES
    ReservationKept
    ImplementsAssignment
