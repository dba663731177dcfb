------------------------- MODULE ServiceConfigProofs -------------------------
(***************************************************************************)
(* What ServiceConfig's operators give for all values of the flags.        *)
(***************************************************************************)
EXTENDS ServiceConfig, TLAPS

ExtraServices == {"api", "s3", "webconsole"}

\* A range of twelve ports below 2^16, and extra ports outside of it that are
\* all different or left out.
WellChosen(flags) ==
  /\ flags.base + 11 < 65536
  /\ \A s \in ExtraServices :
       /\ flags.extra[s] < 65536
       /\ flags.extra[s] \notin flags.base .. flags.base + 11
  /\ \A u, v \in ExtraServices :
       u # v => (flags.extra[u] # flags.extra[v] \/ flags.extra[u] = 0)

\* The defaults of the flags are such a choice.
LEMMA DefaultsWellChosen ==
  DefaultFlags \in PortFlags /\ WellChosen(DefaultFlags)
BY DEF DefaultFlags, PortFlags, WellChosen, ExtraServices

\* Services start at different even places of the range.
LEMMA OffsetsApart ==
  ASSUME NEW s \in PortedServices, NEW t \in PortedServices, s # t
  PROVE  /\ Offset(s) \in 0 .. 10
         /\ Offset(s) # Offset(t)
         /\ Offset(s) + 1 # Offset(t)
BY DEF Offset, PortedServices

\* Nothing wraps in a range that is well chosen.
LEMMA RangePorts ==
  ASSUME NEW flags \in PortFlags, WellChosen(flags), NEW s \in PortedServices
  PROVE  /\ rpcPort(flags, s) = flags.base + Offset(s)
         /\ httpPort(flags, s) = flags.base + Offset(s) + 1
         /\ rpcPort(flags, s) \in flags.base .. flags.base + 11
         /\ httpPort(flags, s) \in flags.base .. flags.base + 11
<1>1. Offset(s) \in 0 .. 10
  BY DEF Offset, PortedServices
<1>2. flags.base \in Nat /\ flags.base + 11 < 65536
  BY DEF PortFlags, WellChosen
<1> QED
  BY <1>1, <1>2 DEF rpcPort, httpPort, uint16

LEMMA ExtraPortOutside ==
  ASSUME NEW flags \in PortFlags, WellChosen(flags), NEW s \in PortedServices,
         NEW p \in extraPorts(flags, s)
  PROVE  /\ s \in ExtraServices
         /\ p = flags.extra[s] /\ p # 0
         /\ p \notin flags.base .. flags.base + 11
<1>1. s \in ExtraServices
  BY DEF extraPorts, ExtraServices
<1>2. p = uint16(flags.extra[s]) /\ p # 0
  BY <1>1 DEF extraPorts, ExtraServices
<1>3. flags.extra[s] \in Nat /\ flags.extra[s] < 65536
  BY <1>1 DEF PortFlags, WellChosen, ExtraServices
<1>4. p = flags.extra[s]
  BY <1>2, <1>3 DEF uint16
<1> QED
  BY <1>1, <1>2, <1>4 DEF WellChosen

LEMMA ExtraPortsDiffer ==
  ASSUME NEW flags, WellChosen(flags),
         NEW s \in ExtraServices, NEW t \in ExtraServices, s # t
  PROVE  flags.extra[s] # flags.extra[t] \/ flags.extra[s] = 0
BY DEF WellChosen

(***************************************************************************)
(* No two services ask for one port, and so can share a host, when twelve  *)
(* ports from --port_range_base on are kept free: usage.md and the help of *)
(* the flag speak of ten, but S3 has the last two.                         *)
(***************************************************************************)
THEOREM PortsDisjoint ==
  ASSUME NEW flags \in PortFlags, WellChosen(flags),
         NEW s \in PortedServices, NEW t \in PortedServices, s # t
  PROVE  ServicePorts(flags, s) \cap ServicePorts(flags, t) = {}
<1> SUFFICES ASSUME NEW p \in ServicePorts(flags, s),
                    p \in ServicePorts(flags, t)
             PROVE  FALSE
  OBVIOUS
<1> DEFINE range(u) == {rpcPort(flags, u), httpPort(flags, u)}
<1>1. \A u \in PortedServices : range(u) \subseteq flags.base .. flags.base + 11
  BY RangePorts
<1>2. CASE p \in range(s) /\ p \in range(t)
  <2>1. /\ rpcPort(flags, s) = flags.base + Offset(s)
        /\ httpPort(flags, s) = flags.base + Offset(s) + 1
        /\ rpcPort(flags, t) = flags.base + Offset(t)
        /\ httpPort(flags, t) = flags.base + Offset(t) + 1
    BY RangePorts
  <2>2. /\ Offset(s) \in 0 .. 10 /\ Offset(t) \in 0 .. 10
        /\ Offset(s) # Offset(t)
        /\ Offset(s) + 1 # Offset(t) /\ Offset(t) + 1 # Offset(s)
    BY OffsetsApart
  <2>3. flags.base \in Nat
    BY DEF PortFlags
  <2> QED
    BY <1>2, <2>1, <2>2, <2>3
<1>3. CASE p \in extraPorts(flags, s) /\ p \in extraPorts(flags, t)
  <2>1. /\ s \in ExtraServices /\ t \in ExtraServices
        /\ p = flags.extra[s] /\ p = flags.extra[t] /\ p # 0
    BY <1>3, ExtraPortOutside
  <2>2. flags.extra[s] # flags.extra[t] \/ flags.extra[s] = 0
    BY <2>1, ExtraPortsDiffer
  <2> QED
    BY <2>1, <2>2
<1>4. CASE \/ p \in range(s) /\ p \in extraPorts(flags, t)
           \/ p \in extraPorts(flags, s) /\ p \in range(t)
  BY <1>1, <1>4, ExtraPortOutside
<1> QED
  BY <1>2, <1>3, <1>4 DEF ServicePorts

LEMMA MinSingleton ==
  ASSUME NEW i \in Int
  PROVE  Min({i}) = i
<1>1. i \in {i} /\ \A y \in {i} : i =< y
  OBVIOUS
<1>2. Min({i}) \in {i}
  BY <1>1 DEF Min
<1> QED
  BY <1>2

(***************************************************************************)
(* The memory limit of a service is within what its task asks for, except  *)
(* for S3, whose task asks for the resources of the web console.           *)
(***************************************************************************)
THEOREM LimitWithinTask ==
  ASSUME NEW resources, NEW extra_ram_mb,
         NEW s \in PortedServices \ {"s3"},
         resources[s] \in Seq(Resource), extra_ram_mb[s] \in Nat,
         NEW i \in DOMAIN resources[s], Entries(resources[s], "mem") = {i}
  PROVE  maxMem(resources, extra_ram_mb, s)
           <= resources[ResourceFlag(s)][i].amount
<1> DEFINE rs == resources[s]
           mb == rs[i].amount
<1>1. rs[i] \in Resource
  OBVIOUS
<1>2. mb \in Nat
  BY <1>1 DEF Resource
<1>3. Min(Entries(rs, "mem")) = i /\ Entries(rs, "mem") # {}
  <2>1. i \in Int
    OBVIOUS
  <2>2. Min({i}) = i
    BY <2>1, MinSingleton
  <2>3. Entries(rs, "mem") = {i}
    OBVIOUS
  <2> QED
    BY <2>2, <2>3
<1>4. memMb(rs) = IF i < Len(rs) THEN mb
                  ELSE IF mb < 10 THEN -1 ELSE mb \div 10
  BY <1>3 DEF memMb
<1>5. ResourceFlag(s) = s
  BY DEF ResourceFlag
<1> HIDE DEF rs, mb
<1>6. memMb(rs) \in Int /\ memMb(rs) <= mb
  BY <1>2, <1>4
<1>7. maxMem(resources, extra_ram_mb, s) <= mb
  <2>1. CASE s \in {"registry", "metadata", "s3"}
    BY <1>2, <1>6, <2>1 DEF maxMem, rs
  <2>2. CASE s \notin {"registry", "metadata", "s3"}
    BY <1>2, <1>6, <2>2 DEF maxMem, rs
  <2> QED
    BY <2>1, <2>2
<1> QED
  BY <1>5, <1>7 DEF rs, mb
=============================================================================
