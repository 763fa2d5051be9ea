SPECIFICATION FewSpec
CONSTANTS
    k1 = k1  k2 = k2  pro = pro  ent = ent  NoPlan = NoPlan
    Keys = {k1}
    Plans = {pro}
    PlanOf <- Asked
    Earlier = {k1}
    Requests = {r1, r2}
    Handlers = {"init", "grace", "overlap"}
    MaxEvents = 2
    MaxFaults = 1
    MaxRestarts = 1
CHECK_DEADLOCK FALSE
PROPERTIES
    EventsLand
