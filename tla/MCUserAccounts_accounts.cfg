SPECIFICATION Spec
CONSTANTS
    r1 = r1
    r2 = r2
    r3 = r3
    sales = sales
    admin = admin
    home = home
    root = root
    ann = ann
    bob = bob
    eve = eve
    None = None
    Request = {r1, r2, r3}
    User = {root, ann, bob, eve}
    Founder = {root, ann}
    Member = {bob}
    Home = home
    Role = {sales}
    AdminRole = admin
    FirstRole = sales
    Change <- Changes
SYMMETRY Alike
INVARIANTS
    SuperAdminRemains
    OneRole
    AssignmentsAreLawful
    ConsumptionIsTheAct
    OneOpenToken
CHECK_DEADLOCK FALSE
