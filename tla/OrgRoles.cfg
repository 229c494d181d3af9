SPECIFICATION Spec
CONSTANTS
    Users = {u1, u2, u3}
    Orgs = {o1, o2}
    Requests = {x1, x2}
    Nobody = Nobody
SYMMETRY MCSymmetry
INVARIANTS
    SoleAdminWhenOrderly
    OneBanRowUnlessCrossed
PROPERTIES
    PromotionHeals
CHECK_DEADLOCK FALSE
