SPECIFICATION Spec
CONSTANTS
    u1 = u1  u2 = u2
    o1 = o1 
    v1 = v1  v2 = v2  v3 = v3 
    Vouchers = {v1, v2, v3}
    NoVoucher = NoVoucher
    Users = {u1, u2}
    Offers = {o1}
    Requests = {r1, r2, r3}
    Holder <- TwoHolders
    OfferOf <- OneOffer
    MaxOf <- TwoMax
    Handlers = {"claim", "scan"}
    Limits = {}
    MaxEdits = 0
    MaxServes = 0
    MaxRestarts = 1
CHECK_DEADLOCK FALSE
INVARIANTS
    SingleUse AuditTruthful
PROPERTIES
    RedeemedIsFinal LedgerSpec MarkSettles
