----------------------------- MODULE DdnsRefines -----------------------------
(***************************************************************************)
(* Ddns implements DnsName: what the invocations do to the zone, seen      *)
(* through the records of the served name.                                 *)
(***************************************************************************)
EXTENDS Ddns

ServedIds == [f \in Family |-> Served(zone, f)]

IsServed(z, id) == \E f \in Family : id \in Served(z, f)

ServedValues == [id \in RecordId |-> IF IsServed(zone, id) THEN zone[id].value ELSE NoText]

ForeignRecords ==
    {<<id, zone[id]>> : id \in {i \in RecordId : zone[i].state = "live" /\ ~IsServed(zone, i)}}

(* The public addresses of a family an interface of the host has held.     *)
Addresses == UNION {{h.ifaddrs[i] : i \in DOMAIN h.ifaddrs} : h \in held}
OwnAddresses == [f \in Family |-> {a \in Addresses : a.fam = f /\ ip_valid(a)}]

Abstract == INSTANCE DnsName WITH
    Id <- RecordId, Other <- Record, NoValue <- NoText,
    served <- ServedIds, value <- ServedValues, own <- OwnAddresses, foreign <- ForeignRecords

(* Every behaviour of the tool and its world, overlapping invocations,     *)
(* late requests and crashes included, is one of DnsName: the record lists *)
(* that main works from, however stale, lead only to steps that remove a   *)
(* duplicate or point a record of the name at an address of the host.      *)
ImplementsDnsName == Abstract!Spec
=============================================================================
