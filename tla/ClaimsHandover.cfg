SPECIFICATION Spec
CONSTANTS
    p1 = p1
    p2 = p2
    Nobody = Nobody
    u1 = u1
    u2 = u2
    x1 = x1
    Procs <- MCProcs
    Configured <- MCConfigured
    Extras <- MCExtras
    Score <- MCScore
    MaxMembers = 64
    Rows <- MCRows
    UnitOf <- MCUnitOf
    OrphanTicks = 1
    MaxFaults = 1
INVARIANTS RowsStayMine OneWriter Agreement
SYMMETRY Alike
