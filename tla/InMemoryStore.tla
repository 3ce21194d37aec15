--------------------------- MODULE InMemoryStore ----------------------------
(***************************************************************************)
(* InMemoryStateStore of edge-core, the StateStore that keeps everything   *)
(* in maps: every operation as a function from the mappings and the        *)
(* configuration before it to those after it.  An operation that returns   *)
(* an error changes nothing.                                               *)
(***************************************************************************)
EXTENDS Mapping

\* Mutant of validate_mapping_for_write: only looks at rows in force.
validate_enabled_for_write(mappings, config, id, candidate) ==
    /\ config # None /\ validate_mapping(candidate, config)
    /\ \A existing \in EnabledOthers(mappings, id) :
         /\ ~SharesPublicIp(candidate, existing)
         /\ ~conflicts(existing, candidate)

validate_mapping_for_write(mappings, config, id, candidate) ==
    /\ config # None /\ validate_mapping(candidate, config)
    /\ \A existing \in Others(mappings, id) :
         /\ ~SharesPublicIp(candidate, existing)
         /\ (existing.mode = OneToOneSnat /\ candidate.mode = OneToOneSnat)
              => existing.target_ip # candidate.target_ip
         /\ ~conflicts(existing, candidate)

insert_mapping(mappings, config, id, m) ==
    IF mappings[id] = None /\ validate_mapping_for_write(mappings, config, id, m)
    THEN [mappings EXCEPT ![id] = m] ELSE mappings

update_mapping(mappings, config, id, m) ==
    IF mappings[id] # None /\ validate_mapping_for_write(mappings, config, id, m)
    THEN [mappings EXCEPT ![id] = m] ELSE mappings

delete_mapping(mappings, id) == [mappings EXCEPT ![id] = None]

\* Nothing is compared with the other mappings.
set_mapping_enabled(mappings, id, enabled) ==
    IF mappings[id] # None
    THEN [mappings EXCEPT ![id] = SetEnabled(@, enabled)] ELSE mappings

\* Unlike the SQLite store's, it asks every mapping whether it stays valid.
set_edge_config(mappings, old, config) ==
    IF validate_edge_config(config)
         /\ \A id \in Stored(mappings) : validate_mapping(mappings[id], config)
    THEN config ELSE old
=============================================================================
