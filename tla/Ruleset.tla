------------------------------- MODULE Ruleset ------------------------------
(***************************************************************************)
(* edge-nft: the ruleset that render_nftables writes for a table of        *)
(* mappings, as the rules nft loads from the text.  Rules of one kind are  *)
(* a set: their order in the text is that of the rows and matters only if  *)
(* two of them match the same packet (see Unambiguous).                    *)
(***************************************************************************)
EXTENDS Mapping

\* Mutant of InForce: disabled rows get rules too.
InForceAlways(m) == m.backend = "nft"

\* The rows that get rules, and those that get an address: enabled, and of
\* the nft backend.
InForce(m) == m.enabled /\ m.backend = "nft"

\* chain prerouting: iifname, ip daddr, protocol, dport, then the dnat target.
ForwardRule(m, config) ==
    [iifname |-> config.wan_interface, daddr |-> m.edge_private_ip,
     protocol |-> m.protocol, dport |-> m.public_port,
     to |-> m.target_ip, to_port |-> m.target_port]

\* An element of map edge_to_target.
MapElement(m) == [daddr |-> m.edge_private_ip, to |-> m.target_ip]

InForceOf(rows, mode) ==
    {rows[i] : i \in {j \in Stored(rows) : InForce(rows[j]) /\ rows[j].mode = mode}}

\* Defined for the tables that validate_mappings accepts.
render_nftables(rows, config) ==
    [edge_to_target |-> {MapElement(m) : m \in InForceOf(rows, OneToOneSnat)},
     prerouting |-> {ForwardRule(m, config) : m \in InForceOf(rows, PortForwardSnat)},
     postrouting |-> config.target_cidrs]

RulesetType ==
    [edge_to_target: SUBSET [daddr: Ip, to: Ip],
     prerouting: SUBSET [iifname: Interface, daddr: Ip, protocol: Protocol,
                         dport: Port \cup {None}, to: Ip, to_port: Port \cup {None}],
     postrouting: Seq(Cidr)]

ASSUME NoneIsNoRuleset == None \notin RulesetType

\* XdpPlugin::plan returns an error or a plan with entries, and in both cases
\* an apply goes no further.
XdpBlocks(rows) == \E i \in Stored(rows) : rows[i].enabled /\ rows[i].backend = "xdp"

(***************************************************************************)
(* No packet to the edge VM has two destinations: a destination address is *)
(* in the one-to-one map or in forward rules, not in both, and the rules   *)
(* and map elements have distinct keys.                                    *)
(***************************************************************************)
Unambiguous(t) ==
    /\ \A a, b \in t.edge_to_target : a.daddr = b.daddr => a = b
    /\ \A f, g \in t.prerouting :
          (f.daddr = g.daddr /\ f.protocol = g.protocol /\ f.dport = g.dport) => f = g
    /\ \A a \in t.edge_to_target, f \in t.prerouting : a.daddr # f.daddr
=============================================================================
