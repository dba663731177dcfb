-------------------------- MODULE QuobyteSchedulerMC --------------------------
(***************************************************************************)
(* Instances of QuobyteScheduler in its open environment.  The one-host    *)
(* instance has every kind of service; the two-host instance has what      *)
(* hosts share: the singletons, and names that contain one another.        *)
(***************************************************************************)
EXTENDS QuobyteScheduler, ServiceConfig

\* Order of resourceOffers: api, client, registry, data.
MCRank == [s \in Services |->
  CASE s = "api" -> 1 [] s = Client -> 2 [] s = "registry" -> 3
    [] s = "data" -> 4 [] OTHER -> 5]

\* The client's resource string of the flags asks for the least.
MCNeed == [s \in Services |-> IF s \in {Client, Prober} THEN 1 ELSE 2]

\* On one host --api_port is one of the ports counted from --port_range_base.
OnePortFlags == [DefaultFlags EXCEPT !.extra.api = DefaultFlags.base + 5]
OnePorts == [s \in Services |->
               IF s \in Ported THEN ServicePorts(OnePortFlags, s) ELSE {}]
TwoPorts == [s \in Services |->
               IF s \in Ported THEN ServicePorts(DefaultFlags, s) ELSE {}]

OfferOf(h, u, ps) == [type |-> "resourceOffers",
  offer |-> [host |-> h, slave |-> "S" \o h, units |-> u, ports |-> ps,
             public |-> TRUE]]
Update(s, h, st) == [type |-> "statusUpdate",
  task |-> [service |-> s, host |-> h], state |-> st, slave |-> "S" \o h]
Message(h, ds, mount) == [type |-> "frameworkMessage", slave |-> "S" \o h,
                          devices |-> ds, mount |-> mount, parses |-> TRUE]

OneHost     == {"a"}
OneSlave    == {"Sa"}
OneNoDash   == [h \in OneHost |-> h]
OneInputs ==
  {[type |-> "registered"]}
    \cup {OfferOf("a", u, PortsOf(Ported)) : u \in {0, 2, 5}}
    \cup {OfferOf("a", 5, Ports["api"])}
    \cup {[OfferOf("a", 5, PortsOf(Ported)) EXCEPT !.offer.public = FALSE]}
    \cup {Update(s, "a", st) : s \in Services \ {Client}, st \in TaskStates}
    \cup {Update(Client, "a", st) : st \in {"RUNNING", "LOST"}}
    \cup {Message("a", ds, FALSE) : ds \in SUBSET Core}
    \cup {Message("a", {"registry"}, TRUE), Message("a", Core \cup {Client}, TRUE),
          [Message("a", {}, FALSE) EXCEPT !.parses = FALSE]}

\* "x-a" has a dash, and both ends like and contains the host "a"; "c" is on
\* no list.
TwoHosts    == {"a", "b", "c", "x-a"}
TwoSlaves   == {"Sa", "Sb", "Sc", "Sx-a"}
TwoSuffix   == [h \in TwoHosts |-> IF h = "x-a" THEN "a" ELSE h]
TwoRestrict == {"b", "x-a"}
TwoWithin   == {<<"a", "x-a">>} \cup {<<h, h>> : h \in TwoHosts}
TwoInputs ==
    {OfferOf(h, 4, PortsOf(Ported)) : h \in TwoHosts}
    \cup {Update("api", h, st) : h \in {"a", "b"}, st \in {"RUNNING", "LOST"}}
    \cup {Update("api", "x-a", "RUNNING")}
    \cup {Update("registry", "a", st) : st \in {"RUNNING", "LOST"}}
    \cup {Update(Prober, "a", "RUNNING")}
    \cup {Message("a", {"registry"}, FALSE), Message("b", {}, FALSE)}
=============================================================================
