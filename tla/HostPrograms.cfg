SPECIFICATION Spec
CONSTANTS
    Relay = epoclient
    Printers = {app}
    Parsers = {app3}
    Nobody = nobody
    MaxTelegrams = 3
    MaxRestarts = 1
    Nets = {"home", "other"}
    Hosts = {hostA, hostB, hostC}
    Members <- HostMembers
    Addrs = {x, y, z}
    Unset = unset
    Tables <- HostTables
    MaxChanges = 2
    hostA = hostA
    hostB = hostB
    hostC = hostC
    x = x
    y = y
    z = z
    NodeCount = 2
    MaxValues = 3
    MaxStarts = 2
    MaxReboots = 1
INVARIANTS
    OnlyTheFirst
    ShownOnce
    WorksUnlessKept
    NothingForgotten
    Reachable
PROPERTIES
    Resumes
    NoteIsRead
CHECK_DEADLOCK FALSE
