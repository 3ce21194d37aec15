-------------------------------- MODULE Xdp ---------------------------------
(***************************************************************************)
(* edge-xdp: the plan of map entries for the mappings that XDP is to       *)
(* forward, made from the same rows and configuration as the nftables      *)
(* ruleset.  A plan is the set of its entries; the interface and the pin   *)
(* path only matter for whether validate_config accepts them.              *)
(***************************************************************************)
EXTENDS Ruleset

\* valid: the interface has a name and the pin path is absolute.
XdpConfig == [enabled: BOOLEAN, valid: BOOLEAN]

validate_config(xdp) == xdp.enabled => xdp.valid

\* Mutant of XdpMappings: disabled mappings are planned too.
XdpMappingsAll(rows) == {i \in Stored(rows) : rows[i].backend = "xdp"}

\* The rows plan keeps.
XdpMappings(rows) == {i \in Stored(rows) : rows[i].enabled /\ rows[i].backend = "xdp"}

\* EdgeConfig::contains_target: unlike validate_target_ip it asks every CIDR
\* and lets network and broadcast addresses pass.
contains_target(config, ip) ==
    \E k \in 1 .. Len(config.target_cidrs) : ip \in config.target_cidrs[k].contains

\* plan_entry does not fail.
HasEntry(m, config) ==
    /\ m.mode = PortForwardSnat
    /\ m.protocol # "all"
    /\ m.public_port # None /\ m.target_port # None
    /\ contains_target(config, m.target_ip)

protocol_number(protocol) ==
    CASE protocol = "tcp" -> 6 [] protocol = "udp" -> 17 [] OTHER -> 0

\* XdpMapKey::bytes: address, port and protocol number have bytes of their
\* own, so the key in the kernel's map is the triple.
XdpMapKey(m) == <<m.edge_private_ip, m.public_port, protocol_number(m.protocol)>>

plan_entry(id, m) ==
    [mapping_id |-> id, key |-> XdpMapKey(m), value |-> <<m.target_ip, m.target_port>>]

plan(rows, config, xdp) ==
    IF /\ validate_config(xdp)
       /\ xdp.enabled \/ XdpMappings(rows) = {}
       /\ \A i \in XdpMappings(rows) : HasEntry(rows[i], config)
    THEN [ok |-> TRUE, entries |-> {plan_entry(i, rows[i]) : i \in XdpMappings(rows)}]
    ELSE [ok |-> FALSE, entries |-> {}]
=============================================================================
