SPECIFICATION Spec
CONSTANTS
    r1 = r1
    r2 = r2
    r3 = r3
    template = template
    team = team
    everything = everything
    read = read
    write = write
    None = None
    Request = {r1, r2, r3}
    Role = {template, team, everything}
    Template = {template}
    Derived = {team}
    AutoInclude = {everything}
    Source = template
    Permission = {read, write}
PROPERTY
    LockKeepsGrants
CHECK_DEADLOCK FALSE
