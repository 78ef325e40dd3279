CONSTANT
    Scenarios = {"imports", "purge", "mimir", "commands", "mimir files", "depots", "tables", "users", "puts", "backends", "instance", "arguments", "managers"}
    EndPoints = {"e1"}
    Plans = {"p1"}
    Users = {"u1"}
    Logins = {"l1", "l2"}
    Types = {"with_free_instances", "super_user"}
    Tokens = {}
    Modes = {}
    Instances = {}
    Profiles = {}
    Requests = {"r1", "r2"}
    NoOne = "no one"
SPECIFICATION MCSpec
CHECK_DEADLOCK FALSE
INVARIANTS
    JobsTellTheTruth
    TablesAgree
    AccountsConsistent
PROPERTIES
    
    ParametersKept
    
