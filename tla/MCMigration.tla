---------------------------- MODULE MCMigration -----------------------------
(* Small instances of Migration for TLC. *)
EXTENDS Migration

CONSTANTS
    e1, e2,     \* private addresses of the edge VM
    t1,         \* the address of a target machine
    nm,         \* a mapping name
    ens3        \* an interface

OneToOne(e) ==
    [name |-> nm, public_ip |-> None, edge_private_ip |-> e, target_ip |-> t1,
     public_port |-> None, target_port |-> None, protocol |-> "all",
     mode |-> OneToOneSnat, backend |-> "nft", enabled |-> TRUE, status |-> "pending",
     oci_public_ip_ocid |-> None, oci_private_ip_ocid |-> None]

Forward(e) ==
    [OneToOne(e) EXCEPT !.mode = PortForwardSnat, !.protocol = "tcp",
                        !.public_port = 80, !.target_port = 80]

\* Two one-to-one mappings of the same target, which a legacy table can hold,
\* and a port forward, which it cannot.
MCRows == {OneToOne(e1), OneToOne(e2), Forward(e2)}

\* No table; the first version with and without health columns; port forwards
\* without backend; the current one.
MCDatabases ==
    {None,
     [unique |-> TRUE, columns |-> {}],
     [unique |-> TRUE, columns |-> {"health_status", "last_checked_at"}],
     [unique |-> FALSE, columns |-> {"public_port"}],
     [unique |-> FALSE, columns |-> {"public_port", "health_status", "last_checked_at"}],
     Current}
=============================================================================
