SPECIFICATION Spec
CONSTANTS
    None = None
    e1 = e1
    e2 = e2
    e3 = e3
    t1 = t1
    t2 = t2
    pub = pub
    o1 = o1
    o2 = o2
    nm = nm
    ens3 = ens3
    agent = agent
    cli = cli
    Ip <- MCIp
    Routable = {pub}
    Rfc1918 <- MCPrivate
    Name = {nm}
    ValidName = {nm}
    Interface = {ens3}
    Port = {80}
    Ocid = {o1, o2}
    Id = {1, 2}
    Job = {agent}
    ConfigOf <- MCConfigOf
    Requests <- MCRequestsSerial
    Allocations <- MCAllocations
    Options <- AnyApply
    Rollback = FALSE
    Overlap = FALSE
    MaxLate = 0
    MaxLateAddr = 1
    MaxRequests = 5
INVARIANTS NoOrphanRules AddressesAccounted
CHECK_DEADLOCK FALSE
