SPECIFICATION Spec
CONSTANTS
    None = None
    pub = pub
    e1 = e1
    e2 = e2
    t1 = t1
    t2 = t2
    far = far
    nm = nm
    ens3 = ens3
    enp0s6 = enp0s6
    ocidPub = ocidPub
    ocidPriv = ocidPriv
    Ip <- MCIp
    Routable = {pub}
    Rfc1918 = {e1, e2, t1, t2, far}
    Name = {nm}
    ValidName = {nm}
    Interface = {ens3, enp0s6}
    Port = {0, 80}
    Ocid = {ocidPub, ocidPriv}
    Id = {1, 2}
    Caller = {c1, c2}
    Requests <- MCRequests
    Allocations <- MCAllocations
    Configs <- MCConfigs
INVARIANTS TypeOK EnabledRowsDisjoint RowsWellFormed
PROPERTY ImplementsTable
