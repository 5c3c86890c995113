------------------------------- MODULE DnsName -------------------------------
(***************************************************************************)
(* What the tool promises about the name it serves, with invocations,      *)
(* listings, requests and the network hidden: of the records of the name,  *)
(* a duplicate may disappear and one may be pointed at an address the host *)
(* has had; everything else in the zone only other parties change.         *)
(***************************************************************************)
CONSTANTS
    Id,         \* record ids
    Family,     \* record types that are served
    Other,      \* records of other names and types
    NoValue

VARIABLES
    served,     \* family -> ids of the name's records
    value,      \* id -> value of a served record, NoValue for others
    own,        \* family -> addresses the host has, or has had
    foreign     \* the rest of the zone: pairs of id and record

vars == <<served, value, own, foreign>>

Used == (UNION {served[f] : f \in Family}) \cup {p[1] : p \in foreign}

Init ==
    /\ served \in [Family -> SUBSET Id]
    /\ \A f, g \in Family : f # g => served[f] \cap served[g] = {}
    /\ DOMAIN own = Family
    /\ foreign \subseteq Id \X Other
    /\ \A p \in foreign, f \in Family : p[1] \notin served[f]
    /\ DOMAIN value = Id
    /\ \A id \in Id : (\A f \in Family : id \notin served[f]) => value[id] = NoValue

(* A duplicate is removed: another record of the family remains.           *)
Deduplicate(f, id) ==
    /\ served[f] # {id}
    /\ served' = [served EXCEPT ![f] = @ \ {id}]
    /\ value' = [value EXCEPT ![id] = NoValue]
    /\ UNCHANGED <<own, foreign>>

(* A record is pointed at an address of its own family.                    *)
Point(f, id) ==
    /\ value'[id] \in own[f]
    /\ value' = [value EXCEPT ![id] = value'[id]]
    /\ UNCHANGED <<served, own, foreign>>

(* The host comes by further addresses.                                    *)
Renumber ==
    /\ DOMAIN own' = Family
    /\ \A f \in Family : own[f] \subseteq own'[f]
    /\ UNCHANGED <<served, value, foreign>>

(* Other parties add records, for the name and beside it.                  *)
AddServed(f, id) ==
    /\ served' = [served EXCEPT ![f] = @ \cup {id}]
    /\ value' = [value EXCEPT ![id] = value'[id]]
    /\ UNCHANGED <<own, foreign>>

AddForeign(id) ==
    /\ \E new \in foreign' : /\ new[1] = id
                              /\ new[2] \in Other
                              /\ foreign' = foreign \cup {new}
    /\ UNCHANGED <<served, value, own>>

Next ==
    \/ \E f \in Family : \E id \in served[f] : Deduplicate(f, id) \/ Point(f, id)
    \/ \E id \in Id \ Used : AddForeign(id) \/ \E f \in Family : AddServed(f, id)
    \/ Renumber

Spec == Init /\ [][Next]_vars

(* A name that resolves never stops resolving.                             *)
StaysResolved == [][\A f \in Family : served[f] # {} => served'[f] # {}]_vars

=============================================================================
