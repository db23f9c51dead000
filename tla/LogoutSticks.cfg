SPECIFICATION Spec
CONSTANTS
    Users = {u1, u2}
    Admins = {u1}
    Campaigns = {c1, c2}
    Calls = {i1, i2}
    None = None
    Over = Over
SYMMETRY Symmetry
PROPERTY LogoutSticks
