---------------------------- MODULE MCReconciler ----------------------------
(* Small instances of Reconciler for TLC. *)
EXTENDS Reconciler, TLC

CONSTANTS
    e1, e2, e3,     \* private addresses of the edge VM
    t1, t2,         \* addresses of target machines
    pub,            \* a public address
    o1, o2,         \* OCIDs of a public and a private address
    nm,             \* a mapping name
    ens3,           \* the WAN interface
    agent, cli      \* jobs, one in the agent and one in the CLI

MCIp == {e1, e2, e3, t1, t2, pub}

MCPrivate == {e1, e2, e3, t1, t2}

OneToOne(e, t) ==
    [name |-> nm, public_ip |-> None, edge_private_ip |-> e, target_ip |-> t,
     public_port |-> None, target_port |-> None, protocol |-> "all",
     mode |-> OneToOneSnat, backend |-> "nft", enabled |-> TRUE, status |-> "pending",
     oci_public_ip_ocid |-> None, oci_private_ip_ocid |-> None]

Forward(e, t, port) ==
    [OneToOne(e, t) EXCEPT !.mode = PortForwardSnat, !.protocol = "tcp",
                           !.public_port = port, !.target_port = 80]

Xdp(m) == [m EXCEPT !.backend = "xdp"]

Udp(m) == [m EXCEPT !.protocol = "udp"]

\* Two mappings that exclude each other.
MCRequests == {OneToOne(e1, t1), Forward(e1, t2, 80)}

\* The same, forwards that share an address, and one the XDP backend would take.
MCRequestsSerial == {OneToOne(e1, t1), Forward(e1, t2, 80), Udp(Forward(e1, t1, 80)),
                     OneToOne(e2, t2), Xdp(Forward(e2, t1, 80))}

MCAllocations == {[edge_private_ip |-> e3, public_ip |-> pub,
                   oci_public_ip_ocid |-> o1, oci_private_ip_ocid |-> o2]}

Lan == [contains |-> {t1, t2}, network_or_broadcast |-> {}]

Dmz == [contains |-> {t2}, network_or_broadcast |-> {}]

Narrow == [wan_interface |-> ens3, target_cidrs |-> <<Lan>>]

Wide == [wan_interface |-> ens3, target_cidrs |-> <<Lan, Dmz>>]

\* The CLI was started after the CIDRs were changed, the agent before.
MCConfigOf == [p \in Job |-> IF p = agent THEN Narrow ELSE Wide]

\* Both read the same, and are interchangeable then.
SameConfig == [p \in Job |-> Narrow]

JobSymmetry == Permutations(Job)

FullApply == {[apply_nft |-> TRUE, apply_linux |-> TRUE]}

AnyApply == [apply_nft: BOOLEAN, apply_linux: BOOLEAN]
=============================================================================
