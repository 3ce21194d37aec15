---------------------------- MODULE MappingTable ----------------------------
(***************************************************************************)
(* What edge-store promises about the mappings table, as if every call     *)
(* were one atomic step: rows appear under fresh ids, keep the fields that *)
(* identify the service they forward, never conflict with each other, and  *)
(* once removed stay removed.                                              *)
(***************************************************************************)
EXTENDS Mapping

VARIABLES
    rows,     \* the mappings table
    deleted   \* the ids of the rows that were removed

vars == <<rows, deleted>>

\* The fields no operation on a stored mapping may change.
Identity(m) ==
    <<m.name, m.target_ip, m.public_port, m.target_port, m.protocol, m.mode, m.backend>>

\* Two rows in force never claim the same traffic.
Disjoint(left, right) ==
    /\ ~conflicts(left, right)
    /\ left.enabled /\ right.enabled => ~SharesPublicIp(left, right)

ConflictFree(t) ==
    \A i, j \in Stored(t) : i # j => Disjoint(t[i], t[j])

OnlyRow(id) == \A j \in Id \ {id} : rows'[j] = rows[j]

Init == rows = EmptyTable /\ deleted = {}

Insert(id) ==
    /\ rows[id] = None /\ id \notin deleted
    /\ OnlyRow(id) /\ rows'[id] # None
    /\ WellFormed(rows'[id]) /\ ConflictFree(rows')
    /\ UNCHANGED deleted

Replace(id) ==
    /\ rows[id] # None
    /\ OnlyRow(id) /\ rows'[id] # None
    /\ Identity(rows'[id]) = Identity(rows[id])
    /\ WellFormed(rows'[id]) /\ ConflictFree(rows')
    /\ UNCHANGED deleted

Remove(id) ==
    /\ rows[id] # None
    /\ OnlyRow(id) /\ rows'[id] = None
    /\ deleted' = deleted \cup {id}

Next == \E id \in Id : Insert(id) \/ Replace(id) \/ Remove(id)

Spec == Init /\ [][Next]_vars
=============================================================================
