CONSTANTS
    a1 = a1
    a2 = a2
    reset = reset
    again = again
    local = local
    early = early
    save = save
    load = load
    Api = {a1}
    Script = {reset, again, local, early, save, load}
    Program <- Chosen
    TableOrder <- SomeTables
    MaxScripts = 2
    Null = null
SPECIFICATION Spec
CHECK_DEADLOCK FALSE
INVARIANTS
    ParentsPresent
    AuditGuarded
