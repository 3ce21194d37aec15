--------------------------- MODULE MCSqliteStore ----------------------------
(* Small instances of SqliteStore for TLC. *)
EXTENDS SqliteStore

CONSTANTS
    pub,              \* a routable address
    e1, e2,           \* private addresses of the edge VM
    t1, t2,           \* addresses of target machines
    far,              \* an address outside every target CIDR
    nm,               \* a mapping name
    ens3, enp0s6,     \* interfaces
    ocidPub, ocidPriv

MCIp == {pub, e1, e2, t1, t2, far}

\* A one-to-one mapping and a port forward, without a public address.
OneToOne(e, t) ==
    [name |-> nm, public_ip |-> None, edge_private_ip |-> e, target_ip |-> t,
     public_port |-> None, target_port |-> None, protocol |-> "all",
     mode |-> OneToOneSnat, backend |-> "nft", enabled |-> TRUE, status |-> "pending",
     oci_public_ip_ocid |-> None, oci_private_ip_ocid |-> None]

Forward(e, t, port) ==
    [OneToOne(e, t) EXCEPT !.mode = PortForwardSnat, !.protocol = "tcp",
                           !.public_port = port, !.target_port = 80]

WithPublicIp(m) == [m EXCEPT !.public_ip = pub]

\* Every pair of these conflicts in some way; the last two must be refused.
MCRequests == {WithPublicIp(OneToOne(e1, t1)), OneToOne(e2, t1), Forward(e1, t2, 80),
               Forward(e1, t2, None), OneToOne(e2, far)}

ByXdp(m) == [m EXCEPT !.backend = "xdp"]

\* Same, with port forwards that share the public address, and with port
\* forwards by XDP: of the traffic of another one, of the other protocol, and
\* of an address of a one-to-one mapping.
MCRequestsSerial == {WithPublicIp(OneToOne(e1, t1)), WithPublicIp(Forward(e1, t1, 80)),
                     OneToOne(e2, t1), Forward(e1, t2, 0),
                     WithPublicIp(ByXdp(Forward(e1, t2, 80))),
                     ByXdp([Forward(e1, t1, 80) EXCEPT !.protocol = "udp"]),
                     ByXdp(OneToOne(e2, t2))}

MCAllocations == {[edge_private_ip |-> e2, public_ip |-> pub,
                   oci_public_ip_ocid |-> ocidPub, oci_private_ip_ocid |-> ocidPriv]}

Lan == [contains |-> {t1, t2}, network_or_broadcast |-> {}]

NarrowLan == [contains |-> {t1, t2}, network_or_broadcast |-> {t2}]

Wide == [wan_interface |-> ens3, target_cidrs |-> <<Lan>>]

Narrow == [wan_interface |-> enp0s6, target_cidrs |-> <<NarrowLan, Lan>>]

Empty == [wan_interface |-> ens3, target_cidrs |-> <<>>]

MCConfigs == {Wide, Narrow, Empty}

MCOneConfig == {Wide}
=============================================================================
