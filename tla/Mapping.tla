------------------------------ MODULE Mapping ------------------------------
(***************************************************************************)
(* The mapping record of edge-core, its validation, and the constraints    *)
(* the SQLite database enforces on the mappings table.  Everything here is *)
(* constant-level: the state machines over these records are in the        *)
(* modules that extend this one.                                           *)
(*                                                                         *)
(* IPv4 addresses are opaque: the address tests of the standard library    *)
(* and of ipnet that validation.rs calls are the constants Routable and    *)
(* Rfc1918, and a CIDR is the record of the addresses it contains and of   *)
(* those that are its network or broadcast address.                        *)
(***************************************************************************)
EXTENDS Naturals, Sequences

CONSTANTS
    Ip,         \* IPv4 addresses
    Routable,   \* those for which is_reserved_or_private is false
    Rfc1918,    \* those for which Ipv4Addr::is_private is true
    Name,       \* mapping names
    ValidName,  \* the names validate_name accepts
    Interface,  \* Linux interface names
    Port,       \* u16 port numbers, 0 included
    Ocid,       \* Oracle resource identifiers
    Id,         \* mapping ids, numbered in the order of (created_at, id)
    None        \* Option::None, SQL NULL and "no row"

PortMax == 65535

ASSUME IpAssumption == Routable \subseteq Ip /\ Rfc1918 \subseteq Ip

ASSUME NameAssumption == ValidName \subseteq Name

ASSUME PortAssumption == Port \subseteq 0 .. PortMax

ASSUME IdAssumption == Id \subseteq Nat

ASSUME NoneAssumption == None \notin Ip \cup Port \cup Ocid \cup Id

OneToOneSnat == "one_to_one_snat"
PortForwardSnat == "port_forward_snat"

MappingMode == {OneToOneSnat, PortForwardSnat}
MappingBackend == {"nft", "xdp", "proxy"}
MappingStatus == {"pending", "active", "disabled", "degraded", "error"}
Protocol == {"tcp", "udp", "all"}

MappingType ==
    [name: Name, public_ip: Ip \cup {None}, edge_private_ip: Ip, target_ip: Ip,
     public_port: Port \cup {None}, target_port: Port \cup {None},
     protocol: Protocol, mode: MappingMode, backend: MappingBackend,
     enabled: BOOLEAN, status: MappingStatus,
     oci_public_ip_ocid: Ocid \cup {None}, oci_private_ip_ocid: Ocid \cup {None}]

\* Ipv4Net: the addresses it contains; those that are network or broadcast
\* address, none when the prefix is 31 or 32 bits long.
Cidr == [contains: SUBSET Ip, network_or_broadcast: SUBSET Ip]

EdgeConfigType == [wan_interface: Interface, target_cidrs: Seq(Cidr)]

ASSUME NoneIsNoRecord == None \notin MappingType /\ None \notin EdgeConfigType

-----------------------------------------------------------------------------
(* validation.rs *)

validate_edge_config(config) == Len(config.target_cidrs) > 0

\* Iterator::find takes the first CIDR that contains the address, and only
\* that one decides whether the address is a network or broadcast address.
validate_target_ip(ip, cidrs) ==
    \E i \in 1 .. Len(cidrs) :
        /\ ip \in cidrs[i].contains
        /\ \A j \in 1 .. (i - 1) : ip \notin cidrs[j].contains
        /\ ip \notin cidrs[i].network_or_broadcast

\* The tests of validate_mapping that do not look at the configuration.
WellFormed(m) ==
    /\ m.name \in ValidName
    /\ m.public_ip # None => m.public_ip \in Routable
    /\ m.edge_private_ip \in Rfc1918
    /\ m.public_ip # m.edge_private_ip
    /\ m.edge_private_ip # m.target_ip
    /\ m.backend # "proxy"
    /\ m.backend = "xdp" => m.mode = PortForwardSnat
    /\ m.mode = OneToOneSnat =>
         /\ m.public_port = None
         /\ m.target_port # 0
         /\ m.protocol = "all"
    /\ m.mode = PortForwardSnat =>
         /\ m.public_port \notin {None, 0}
         /\ m.target_port \notin {None, 0}
         /\ m.protocol # "all"

validate_mapping(m, config) ==
    WellFormed(m) /\ validate_target_ip(m.target_ip, config.target_cidrs)

conflicts(left, right) ==
    /\ left.enabled /\ right.enabled
    /\ \/ /\ left.mode = OneToOneSnat /\ right.mode = OneToOneSnat
          /\ \/ left.edge_private_ip = right.edge_private_ip
             \/ left.target_ip = right.target_ip
       \/ /\ left.mode # right.mode
          /\ left.edge_private_ip = right.edge_private_ip
       \/ /\ left.mode = PortForwardSnat /\ right.mode = PortForwardSnat
          /\ left.edge_private_ip = right.edge_private_ip
          /\ left.protocol = right.protocol
          /\ left.public_port = right.public_port

\* A public address is shared and a one-to-one mapping is involved; whether
\* the mappings are enabled does not matter.
SharesPublicIp(left, right) ==
    /\ left.public_ip # None
    /\ left.public_ip = right.public_ip
    /\ OneToOneSnat \in {left.mode, right.mode}

-----------------------------------------------------------------------------
(* The mappings table: a row or None for every id. *)

Table == [Id -> MappingType \cup {None}]

EmptyTable == [i \in Id |-> None]

Stored(rows) == {i \in Id : rows[i] # None}

\* The rows other than the one with this id, and those of them in force.
Others(rows, id) == {rows[j] : j \in Stored(rows) \ {id}}

EnabledOthers(rows, id) == {r \in Others(rows, id) : r.enabled}

\* What render_nftables requires of the rows list_mappings returns, disabled
\* rows included.
validate_mappings(rows, config) ==
    /\ \A i \in Stored(rows) : validate_mapping(rows[i], config)
    /\ \A i, j \in Stored(rows) :
          i # j => ~conflicts(rows[i], rows[j]) /\ ~SharesPublicIp(rows[i], rows[j])

\* Mutant of reject_duplicates: only looks at rows in force.
reject_enabled_duplicates(rows, id, m) ==
    \E r \in EnabledOthers(rows, id) :
        \/ SharesPublicIp(m, r)
        \/ /\ r.mode = OneToOneSnat /\ m.mode = OneToOneSnat
           /\ r.target_ip = m.target_ip
        \/ conflicts(r, m)

\* The test edge-store makes before it writes: its caller gives up when true.
reject_duplicates(rows, id, m) ==
    \E r \in Others(rows, id) :
        \/ SharesPublicIp(m, r)
        \/ /\ r.mode = OneToOneSnat /\ m.mode = OneToOneSnat
           /\ r.target_ip = m.target_ip
        \/ conflicts(r, m)

\* The partial unique indexes.  A NULL is distinct from every NULL.
UniqueIndexesHold(rows, id, m) ==
    m.enabled =>
        \A r \in EnabledOthers(rows, id) :
            /\ (m.mode = OneToOneSnat /\ r.mode = OneToOneSnat) =>
                 /\ r.edge_private_ip # m.edge_private_ip
                 /\ r.target_ip # m.target_ip
                 /\ m.public_ip # None => r.public_ip # m.public_ip
            /\ (m.mode = PortForwardSnat /\ r.mode = PortForwardSnat) =>
                 \/ r.edge_private_ip # m.edge_private_ip
                 \/ r.protocol # m.protocol
                 \/ m.public_port = None
                 \/ r.public_port # m.public_port

\* Mutant of TriggerAccepts: edge addresses are compared within a mode only.
TriggerAcceptsModes(rows, id, m) ==
    m.enabled =>
        \A r \in EnabledOthers(rows, id) :
            /\ (m.mode = PortForwardSnat /\ r.mode = OneToOneSnat /\ m.public_ip # None)
                 => r.public_ip # m.public_ip
            /\ (m.mode = OneToOneSnat /\ m.public_ip # None)
                 => r.public_ip # m.public_ip

\* The BEFORE INSERT and BEFORE UPDATE triggers.
TriggerAccepts(rows, id, m) ==
    m.enabled =>
        \A r \in EnabledOthers(rows, id) :
            /\ r.mode # m.mode => r.edge_private_ip # m.edge_private_ip
            /\ (m.mode = PortForwardSnat /\ r.mode = OneToOneSnat /\ m.public_ip # None)
                 => r.public_ip # m.public_ip
            /\ (m.mode = OneToOneSnat /\ m.public_ip # None)
                 => r.public_ip # m.public_ip

\* SQLite accepts an INSERT or UPDATE that makes m the row with this id.
DbAccepts(rows, id, m) ==
    UniqueIndexesHold(rows, id, m) /\ TriggerAccepts(rows, id, m)

-----------------------------------------------------------------------------
(* Edits of a row. *)

MappingNew(m) == [m EXCEPT !.enabled = TRUE, !.status = "pending",
                           !.oci_public_ip_ocid = None, !.oci_private_ip_ocid = None]

SetEnabled(m, b) ==
    [m EXCEPT !.enabled = b, !.status = IF b THEN "pending" ELSE "disabled"]

MarkStatus(m, s) == [m EXCEPT !.status = s]

\* What oci_allocate writes into the copy of the row that it read.
Allocated(m, a) ==
    MarkStatus([m EXCEPT !.edge_private_ip = a.edge_private_ip, !.public_ip = a.public_ip,
                         !.oci_public_ip_ocid = a.oci_public_ip_ocid,
                         !.oci_private_ip_ocid = a.oci_private_ip_ocid], "pending")

HasAllocation(m) ==
    m.public_ip # None \/ m.oci_public_ip_ocid # None \/ m.oci_private_ip_ocid # None

\* Mutant of Released: clears the edge address with the public one.
ReleasedEdge(m) ==
    MarkStatus([m EXCEPT !.public_ip = None, !.edge_private_ip = None,
                         !.oci_public_ip_ocid = None, !.oci_private_ip_ocid = None], "disabled")

\* What oci_release writes into its copy: the edge address stays, and so does
\* enabled.
Released(m) ==
    MarkStatus([m EXCEPT !.public_ip = None, !.oci_public_ip_ocid = None,
                         !.oci_private_ip_ocid = None], "disabled")

=============================================================================
