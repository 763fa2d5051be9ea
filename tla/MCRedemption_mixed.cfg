SPECIFICATION Spec
CONSTANTS
    u1 = u1  u2 = u2
    o1 = o1 
    v1 = v1  v2 = v2  v3 = v3 
    Vouchers = {v1}
    NoVoucher = NoVoucher
    Users = {u1}
    Offers = {o1}
    Requests = {r1, r2}
    Holder <- OneHolder
    OfferOf <- OneOffer
    MaxOf <- OneMax
    Handlers = {"claim", "redeem", "redeemByCode", "scan", "click", "toggle", "syncToggle", "delete", "update"}
    Limits = {0}
    MaxEdits = 1
    MaxServes = 1
    MaxRestarts = 1
SYMMETRY Interchangeable
INVARIANTS
    NoFreeRedemption CountNeverOverstates AnalyticsNeverOvercount
