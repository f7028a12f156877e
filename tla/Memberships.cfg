CONSTANTS
    User = {ann, bob}
    Founder = ann
    Invite = {i1, i2}
    Request = {r1, r2, r3}
SPECIFICATION Spec
CHECK_DEADLOCK FALSE
SYMMETRY Symmetric
INVARIANT InviteAdmitsOnce
PROPERTY DemotionKeepsOwner
