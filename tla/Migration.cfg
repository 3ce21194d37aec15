SPECIFICATION FairSpec
CONSTANTS
    None = None
    e1 = e1
    e2 = e2
    t1 = t1
    nm = nm
    ens3 = ens3
    Ip = {e1, e2, t1}
    Routable = {}
    Rfc1918 = {e1, e2, t1}
    Name = {nm}
    ValidName = {nm}
    Interface = {ens3}
    Port = {80}
    Ocid = {}
    Id = {1, 2}
    Process = {agent, cli}
    Rows <- MCRows
    Databases <- MCDatabases
    MaxCrashes = 1
INVARIANTS TypeOK ReadySchema ReadyConstrained
PROPERTIES RowsSurvive PortsLostOnlyByRace StartsUp
