SPECIFICATION MCSpec
CONSTANTS
    k1 = k1  k2 = k2  pro = pro  ent = ent  NoPlan = NoPlan
    Keys = {k1, k2}
    Plans = {pro, ent}
    PlanOf <- Asked
    Earlier = {k1}
    Requests = {r1, r2}
    Handlers = {"init", "change", "next", "cancel", "grace", "overlap", "tie"}
    MaxEvents = 2
    MaxFaults = 0
    MaxRestarts = 1
SYMMETRY Interchangeable
CHECK_DEADLOCK FALSE
INVARIANTS
    PremiumWasPaid DriftHasACause
PROPERTIES
    MirrorSpec
