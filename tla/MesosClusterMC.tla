---------------------------- MODULE MesosClusterMC ----------------------------
(***************************************************************************)
(* Instances of MesosCluster: one host with a device and services that     *)
(* wait for it, two hosts that share a singleton, and a name with a dash.  *)
(***************************************************************************)
EXTENDS MesosCluster, ServiceConfig

MCSlaveOf == [h \in Hosts |-> "S" \o h]
MCSlaves  == {"S" \o h : h \in Hosts}
MCSuffix  == [h \in Hosts |-> h]
MCNeed    == [s \in Services |-> 1]
MCPorts   == [s \in Services |->
                IF s \in Ported THEN ServicePorts(DefaultFlags, s) ELSE {}]
MCRank    == [s \in Services |-> CASE s \in Singletons -> 1 [] s = Client -> 2
               [] s = "registry" -> 3 [] s = "data" -> 4 [] OTHER -> 5]
MCMounts  == {{[type |-> "ext4", marks |-> Core]}}
MCNone    == {}
MCStays   == [h \in {} |-> ""]

\* The agent of a host comes back as "T<host>".
MCReturns    == [h \in Hosts |-> "T" \o h]
MCAllSlaves  == {SlaveOf[h] : h \in Hosts} \cup {NewSlaveOf[h] : h \in Hosts}
\* The file system of a host is a device at first, or is not marked; a device,
\* or one that is not looked at, is mounted instead.
MCFirst == MCMounts \cup {{[type |-> "xfs", marks |-> {}]}}
MCLater == MCMounts \cup {{[type |-> "other", marks |-> Core]}}

\* The tasks of the agent "x-a" have the ids of services of a host "a".
DashHosts  == {"x-a", "a"}
DashSlaveOf == [h \in {"x-a"} |-> "S" \o h]
DashSuffix == [h \in DashHosts |-> "a"]
===============================================================================
