SPECIFICATION MCSpec
CONSTANTS
    c1 = c1
    c2 = c2
    tty = tty
    w1 = w1
    t1 = t1
    t2 = t2
    lua1 = lua1
    lua2 = lua2
    lua3 = lua3
    cron1 = cron1
    every1 = every1
    Clients = {c1, c2, tty}
    Terminals = {tty}
    Contexts = {lua1, lua2, lua3}
    Lines <- MCLines
    Nonces <- MCNonces
    CounterSize = 4
    Keys = {"k1", "k2"}
    ConfigKey = "k1"
    MaxCommands = 2
    Workers = {w1}
    Threads = {t1, t2}
    Crons = {cron1}
    Intervals = {every1}
    period <- MCPeriod
    Installations <- MCInstallations
    MaxRequests = 2
    MaxTime = 3
    Starts <- MCStarts
    ConsoleLines <- MCConsoleLines
    DefaultStates = 2
    OtherStates = 1
    MaxLines = 2
INVARIANTS  TasksStayScheduled   
PROPERTIES DueTasksRun 
CHECK_DEADLOCK FALSE
