----------------------------- MODULE ServiceConfig -----------------------------
(***************************************************************************)
(* What the flags of scheduler/scheduler.cpp make of a service: the ports  *)
(* its task asks for (the constructor, prepareServiceResources and         *)
(* buildResourceString) and the memory limit of its process                *)
(* (memMbFromResourceString and constructDockerExecuteCommand).            *)
(*                                                                         *)
(* A resource string like "cpus:1.0;mem:2084;disk:32" is the sequence of   *)
(* its entries, of which only the amount of mem matters.                   *)
(***************************************************************************)
EXTENDS Integers, Sequences, FiniteSetsExt

PortedServices ==
  {"registry", "metadata", "data", "api", "webconsole", "s3"}

Resource == [name : STRING, amount : Nat]

\* Flags are int32: --port_range_base, and three more ports by name.
PortFlags == [base : Nat, extra : [{"api", "s3", "webconsole"} -> Nat]]

DefaultFlags ==
  [base |-> 21000, extra |-> [api |-> 8889, s3 |-> 80, webconsole |-> 8888]]

\* The parameters of prepareServiceResources and makeTask are uint16_t.
uint16(n) == n % 65536

Offset(service) ==
  CASE service = "registry"   -> 0
    [] service = "metadata"   -> 2
    [] service = "data"       -> 4
    [] service = "api"        -> 6
    [] service = "webconsole" -> 8
    [] service = "s3"         -> 10

rpcPort(flags, service)  == uint16(flags.base + Offset(service))
httpPort(flags, service) == uint16(flags.base + Offset(service) + 1)

\* buildResourceString leaves out an extraPort of 0.
extraPorts(flags, service) ==
  IF service \in {"api", "s3", "webconsole"}
  THEN {uint16(flags.extra[service])} \ {0} ELSE {}

ServicePorts(flags, service) ==
  {rpcPort(flags, service), httpPort(flags, service)}
    \cup extraPorts(flags, service)

-----------------------------------------------------------------------------
Entries(resources, name) == {i \in DOMAIN resources : resources[i].name = name}

(***************************************************************************)
(* memMbFromResourceString: the amount of the first entry for mem; with no *)
(* ";" behind it the last digit is cut off, and from one digit none stays. *)
(***************************************************************************)
memMb(resources) ==
  LET mems == Entries(resources, "mem") IN
  IF mems = {} THEN -1
  ELSE LET i == Min(mems)
           mb == resources[i].amount
       IN  IF i < Len(resources) THEN mb
           ELSE IF mb < 10 THEN -1 ELSE mb \div 10

\* The flag whose resources the task of a service asks for.
ResourceFlag(service) == IF service = "s3" THEN "webconsole" ELSE service

\* The limit that the command line sets for the process of a service, where
\* resources and extra_ram_mb have the flags of each service.
maxMem(resources, extra_ram_mb, service) ==
  memMb(resources[service])
    - (IF service \in {"registry", "metadata", "s3"}
       THEN extra_ram_mb[service] ELSE 0)
=============================================================================
