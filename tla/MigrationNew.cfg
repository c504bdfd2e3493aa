SPECIFICATION Spec
CONSTANTS
    Deploys = {d1}
    Migrations = 5
    Legacy = {1, 2, 4}
    Existing = TRUE
    HasProbe = TRUE
INVARIANTS
    NewMigrationsRun
