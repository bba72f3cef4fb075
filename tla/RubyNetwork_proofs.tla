------------------------ MODULE RubyNetwork_proofs -------------------------
(***************************************************************************)
(* The theorems about RubyNetwork, for any number of CPUs and messages, both *)
(* sets of classes and every ISA.                                          *)
(*                                                                         *)
(* NumbersAgree speaks of the finished system only; what makes it true is  *)
(* the order of setup(): a list is complete when the next one is begun from *)
(* it, and each entry has the number of its place (Inv).  connectControllers() *)
(* leaves a router for each controller and a link between any two (BoardInv). *)
(* In what was built, NetInv says where a message may be and in which order *)
(* two messages of a source to the same destination are, in every place and *)
(* between any two places on the way.  From these follow TypeOK and that the *)
(* network implements PairChannels.                                        *)
(***************************************************************************)
EXTENDS RubyNetwork, TLAPS

(* The phases after a list is complete. *)
AfterAttach      == {"routers", "ext_links", "int_links", "ports", "running"}
AfterSequencers  == AfterAttach \cup {"attach"}
AfterControllers == AfterSequencers \cup {"sequencers"}
Phases           == AfterControllers \cup {"new", "fatal", "controllers"}

Controller(i) == IF i <= config.cpus THEN [class |-> "L1Cache", version |-> i - 1]
                                     ELSE [class |-> "DirController", version |-> 0]
Records == [class : {"L1Cache", "DirController"}, version : Int]
SequencerRecords == [version : Int, cache : Int]

(* The controllers made so far have the numbers of their places, and the   *)
(* counters of the two classes say how many there are.                     *)
ControllersInv ==
    /\ controllers \in Seq(Records)
    /\ \A i \in 1 .. Len(controllers) : controllers[i] = Controller(i)
    /\ version \in [{"L1Cache", "DirController"} -> Int]
    /\ phase \in {"new", "fatal"} => controllers = <<>>
    /\ phase \in AfterControllers => Len(controllers) = config.cpus + 1
    /\ phase \notin AfterControllers =>
          /\ Len(controllers) <= config.cpus
          /\ version["L1Cache"] = Len(controllers)
          /\ version["DirController"] = 0

SequencersInv ==
    /\ sequencers \in Seq(SequencerRecords)
    /\ \A i \in 1 .. Len(sequencers) : sequencers[i] = Sequencer(i - 1)
    /\ phase \in AfterSequencers => Len(sequencers) = config.cpus
    /\ phase \notin AfterSequencers => Len(sequencers) < config.cpus

AttachedInv ==
    /\ attached \in Seq(Int)
    /\ \A i \in 1 .. Len(attached) : attached[i] = i
    /\ phase \in AfterAttach => Len(attached) = config.cpus
    /\ phase \notin AfterAttach => Len(attached) < config.cpus

PortsInv == \A p \in cpuPorts : p[1] = p[3]

Inv ==
    /\ config \in Configs
    /\ phase \in Phases
    /\ ControllersInv
    /\ SequencersInv
    /\ AttachedInv
    /\ PortsInv
---------------------------------------------------------------------------
(* An object appended to a list is its last, and moves none before it. *)
LEMMA AppendFacts ==
    ASSUME NEW T, NEW s \in Seq(T), NEW e \in T
    PROVE  /\ Append(s, e) \in Seq(T)
           /\ Len(Append(s, e)) = Len(s) + 1
           /\ Len(s) \in Nat
           /\ \A i \in 1 .. Len(s) : Append(s, e)[i] = s[i]
           /\ Append(s, e)[Len(s) + 1] = e
  OBVIOUS

(* Nothing that comes after the construction of a list changes it. *)
LEMMA KeepInv ==
    ASSUME Inv, UNCHANGED <<config, controllers, version, sequencers, attached>>, PortsInv',
           phase' = phase \/ (phase \in AfterAttach /\ phase' \in AfterAttach)
    PROVE  Inv'
<1>1. config' \in Configs /\ phase' \in Phases
  BY DEF Inv, Configs, Phases, AfterControllers, AfterSequencers
<1>2. ControllersInv'
  BY DEF Inv, ControllersInv, Controller, AfterControllers, AfterSequencers, AfterAttach
<1>3. SequencersInv'
  BY DEF Inv, SequencersInv, Sequencer, AfterSequencers, AfterAttach
<1>4. AttachedInv'
  BY DEF Inv, AttachedInv, AfterAttach
<1> QED
  BY <1>1, <1>2, <1>3, <1>4 DEF Inv

(* setup() starts with empty lists. *)
LEMMA InitInv == ASSUME Init PROVE Inv
<1>1. config.cpus \in Nat \ {0}
  BY BoundsAssumption DEF Init, Configs
<1>2. ControllersInv
  BY <1>1 DEF Init, ControllersInv, AfterControllers, AfterSequencers, AfterAttach
<1>3. SequencersInv /\ AttachedInv /\ PortsInv
  BY <1>1 DEF Init, SequencersInv, AttachedInv, PortsInv, AfterSequencers, AfterAttach
<1> QED
  BY <1>2, <1>3 DEF Init, Inv, Phases

(* Messages do not change what was built. *)
LEMMA AfterSetup ==
    ASSUME [Next]_vars, ~Setup
    PROVE  UNCHANGED setupVars
<1>1. ASSUME NEW c \in 1 .. N, NEW v \in Vnets, NEW dests \in SUBSET (1 .. N), Enqueue(c, v, dests)
      PROVE  UNCHANGED setupVars
  BY <1>1 DEF Enqueue
<1>2. ASSUME NEW c \in 1 .. N, NEW v \in Vnets, Route(c, v) \/ Receive(c, v)
      PROVE  UNCHANGED setupVars
  BY <1>2 DEF Route, Receive
<1>3. ASSUME NEW p \in Linked, NEW v \in Vnets, Deliver(p, v)
      PROVE  UNCHANGED setupVars
  BY <1>3 DEF Deliver
<1>4. UNCHANGED vars => UNCHANGED setupVars
  BY DEF vars
<1> QED
  BY <1>1, <1>2, <1>3, <1>4 DEF Next

(* Each list grows by the entry that belongs to its next place. *)
LEMMA StepInv == ASSUME Inv, [Next]_vars PROVE Inv'
<1> USE DEF Inv
<1>0. config.cpus \in Nat \ {0}
  BY BoundsAssumption DEF Configs
<1>1. CASE Construct
  <2>1. phase = "new" /\ phase' \in {"controllers", "fatal"}
        /\ UNCHANGED <<config, controllers, version, sequencers, attached, cpuPorts>>
    BY <1>1 DEF Construct
  <2>2. Len(controllers) = 0
    BY <2>1 DEF ControllersInv
  <2>3. ControllersInv'
    BY <1>0, <2>1, <2>2 DEF ControllersInv, Controller, AfterControllers, AfterSequencers, AfterAttach
  <2>4. SequencersInv' /\ AttachedInv' /\ PortsInv'
    BY <2>1 DEF SequencersInv, AttachedInv, PortsInv, Sequencer, AfterSequencers, AfterAttach
  <2> QED
    BY <2>1, <2>3, <2>4 DEF Phases
<1>2. ASSUME NEW class \in {"L1Cache", "DirController"}, CreateController(class)
      PROVE  Inv'
  <2> DEFINE n == Len(controllers)
             new == [class |-> class, version |-> version[class]]
  <2>1. /\ phase = "controllers" /\ controllers' = Append(controllers, new)
        /\ class = IF n < config.cpus THEN "L1Cache" ELSE "DirController"
        /\ version' = [version EXCEPT ![class] = @ + 1]
        /\ phase' = IF class = "DirController" THEN "sequencers" ELSE phase
        /\ UNCHANGED <<config, sequencers, attached, cpuPorts>>
    BY <1>2 DEF CreateController, InPhase, VersionCount
  <2>2. /\ n \in Nat /\ n <= config.cpus
        /\ version["L1Cache"] = n /\ version["DirController"] = 0
    BY <2>1 DEF ControllersInv, AfterControllers, AfterSequencers, AfterAttach
  <2>3. new = Controller(n + 1) /\ new \in Records
    BY <1>0, <2>1, <2>2 DEF Controller, Records
  <2>4. controllers' \in Seq(Records) /\ Len(controllers') = n + 1
        /\ \A i \in 1 .. n + 1 : controllers'[i] = Controller(i)
    BY <2>1, <2>2, <2>3, AppendFacts DEF ControllersInv
  <2>5. ControllersInv'
    <3>1. \A i \in 1 .. n + 1 : controllers'[i] = Controller(i)'
      BY <2>1, <2>4 DEF Controller
    <3>2. version' \in [{"L1Cache", "DirController"} -> Int]
      BY <2>1, <2>2 DEF ControllersInv
    <3>3. CASE n < config.cpus
      <4>1. phase' = "controllers" /\ version'["L1Cache"] = n + 1 /\ version'["DirController"] = 0
        BY <2>1, <2>2, <3>3 DEF ControllersInv
      <4> QED
        BY <1>0, <2>1, <2>2, <2>4, <3>1, <3>2, <3>3, <4>1
           DEF ControllersInv, AfterControllers, AfterSequencers, AfterAttach
    <3>4. CASE ~(n < config.cpus)
      <4>1. phase' = "sequencers" /\ n = config.cpus
        BY <1>0, <2>1, <2>2, <3>4
      <4> QED
        BY <2>1, <2>4, <3>1, <3>2, <4>1 DEF ControllersInv, AfterControllers
    <3> QED
      BY <3>3, <3>4
  <2>6. phase' \in {"controllers", "sequencers"}
    BY <2>1
  <2>7. SequencersInv' /\ AttachedInv' /\ PortsInv'
    BY <2>1, <2>6 DEF SequencersInv, AttachedInv, PortsInv, Sequencer, AfterSequencers, AfterAttach
  <2> QED
    BY <2>1, <2>5, <2>6, <2>7 DEF Phases, AfterControllers
<1>3. CASE CreateSequencer
  <2> DEFINE n == Len(sequencers)
  <2>1. /\ phase = "sequencers" /\ sequencers' = Append(sequencers, Sequencer(n))
        /\ phase' = IF n + 1 = config.cpus THEN "attach" ELSE phase
        /\ UNCHANGED <<config, controllers, version, attached, cpuPorts>>
    BY <1>3 DEF CreateSequencer, InPhase
  <2>2. n \in Nat /\ n < config.cpus
    BY <2>1 DEF SequencersInv, AfterSequencers, AfterAttach
  <2>3. Sequencer(n) \in SequencerRecords
    BY <2>2 DEF Sequencer, SequencerRecords
  <2>4. sequencers' \in Seq(SequencerRecords) /\ Len(sequencers') = n + 1
        /\ \A i \in 1 .. n + 1 : sequencers'[i] = Sequencer(i - 1)
    BY <2>1, <2>2, <2>3, AppendFacts DEF SequencersInv, Sequencer
  <2>5. SequencersInv'
    BY <1>0, <2>1, <2>2, <2>4 DEF SequencersInv, Sequencer, AfterSequencers, AfterAttach
  <2>6. ControllersInv'
    BY <2>1 DEF ControllersInv, Controller, AfterControllers, AfterSequencers, AfterAttach
  <2>7. AttachedInv' /\ PortsInv'
    BY <2>1 DEF AttachedInv, PortsInv, AfterAttach
  <2> QED
    BY <2>1, <2>5, <2>6, <2>7 DEF Phases, AfterControllers, AfterSequencers
<1>4. CASE AttachSequencer
  <2> DEFINE n == Len(attached)
  <2>1. /\ phase = "attach" /\ attached' = Append(attached, n + 1)
        /\ phase' = IF n + 1 = Len(sequencers) THEN "routers" ELSE phase
        /\ UNCHANGED <<config, controllers, version, sequencers, cpuPorts>>
    BY <1>4 DEF AttachSequencer, InPhase
  <2>2. n \in Nat /\ n < config.cpus /\ Len(sequencers) = config.cpus
    BY <2>1 DEF AttachedInv, SequencersInv, AfterSequencers, AfterAttach
  <2>3. attached' \in Seq(Int) /\ Len(attached') = n + 1 /\ \A i \in 1 .. n + 1 : attached'[i] = i
    BY <2>1, <2>2, AppendFacts DEF AttachedInv
  <2>4. AttachedInv'
    BY <1>0, <2>1, <2>2, <2>3 DEF AttachedInv, AfterAttach
  <2>5. ControllersInv' /\ SequencersInv'
    BY <2>1 DEF ControllersInv, Controller, SequencersInv, Sequencer, AfterControllers, AfterSequencers, AfterAttach
  <2> QED
    BY <2>1, <2>4, <2>5 DEF PortsInv, Phases, AfterControllers, AfterSequencers, AfterAttach
<1>5. CASE CreateRouter \/ CreateExtLink \/ CreateIntLink
  <2>1. /\ UNCHANGED <<config, controllers, version, sequencers, attached, cpuPorts>>
        /\ phase' = phase \/ (phase \in AfterAttach /\ phase' \in AfterAttach)
    BY <1>5 DEF CreateRouter, CreateExtLink, CreateIntLink, InPhase, AfterAttach
  <2> QED
    BY <2>1, KeepInv DEF PortsInv
<1>6. CASE ConnectCPU
  <2>1. /\ UNCHANGED <<config, controllers, version, sequencers, attached>>
        /\ phase' = phase \/ (phase \in AfterAttach /\ phase' \in AfterAttach)
    BY <1>6 DEF ConnectCPU, AfterAttach
  <2>2. PortsInv'
    BY <1>6 DEF ConnectCPU, PortsInv
  <2> QED
    BY <2>1, <2>2, KeepInv
<1>7. CASE UNCHANGED setupVars
  <2>1. UNCHANGED <<config, controllers, version, sequencers, attached, phase, cpuPorts>>
    BY <1>7 DEF setupVars
  <2> QED
    BY <2>1, KeepInv DEF PortsInv
<1> HIDE DEF Inv
<1> QED
  BY <1>1, <1>2, <1>3, <1>4, <1>5, <1>6, <1>7, AfterSetup DEF Setup

(* When setup() has returned, every list is complete. *)
LEMMA InvImpliesNumbersAgree == ASSUME Inv PROVE NumbersAgree
<1> SUFFICES ASSUME phase = "running" PROVE NumbersAgree
  BY DEF NumbersAgree
<1>0. config.cpus \in Nat \ {0}
  BY BoundsAssumption DEF Inv, Configs
<1>1. Len(controllers) = config.cpus + 1 /\ Len(sequencers) = config.cpus /\ Len(attached) = config.cpus
  BY DEF Inv, ControllersInv, SequencersInv, AttachedInv, AfterControllers, AfterSequencers, AfterAttach
<1>2. controllers[N] = [class |-> "DirController", version |-> 0]
  <2>1. N \in 1 .. Len(controllers) /\ ~(N <= config.cpus)
    BY <1>0, <1>1 DEF N
  <2>2. controllers[N] = Controller(N)
    BY <2>1 DEF Inv, ControllersInv
  <2> QED
    BY <2>1, <2>2 DEF Controller
<1>3. ASSUME NEW i \in 1 .. config.cpus
      PROVE  /\ controllers[i] = [class |-> "L1Cache", version |-> i - 1]
             /\ attached[i] = i
             /\ sequencers[attached[i]] = [version |-> controllers[i].version, cache |-> i]
             /\ \A p \in cpuPorts : p[1] = i => p[3] = i
  <2>1. controllers[i] = [class |-> "L1Cache", version |-> i - 1]
    BY <1>0, <1>1 DEF Inv, ControllersInv, Controller
  <2>2. attached[i] = i
    BY <1>1 DEF Inv, AttachedInv
  <2>3. sequencers[i] = [version |-> i - 1, cache |-> i]
    BY <1>1 DEF Inv, SequencersInv, Sequencer
  <2> QED
    BY <2>1, <2>2, <2>3 DEF Inv, PortsInv
<1> QED
  BY <1>2, <1>3 DEF NumbersAgree

(* However many CPUs simple_ruby.py has, the system that setup() leaves    *)
(* joins CPU i, sequencer i, L1 cache i and version i - 1, and the         *)
(* directory is the last controller.                                       *)
THEOREM NumbersAgreeCorrect == Spec => []NumbersAgree
<1>1. Init => Inv
  BY InitInv
<1>2. Inv /\ [Next]_vars => Inv'
  BY StepInv
<1>3. Inv => NumbersAgree
  BY InvImpliesNumbersAgree
<1> QED
  BY <1>1, <1>2, <1>3, PTL DEF Spec
---------------------------------------------------------------------------
(* The network that connectControllers() leaves. *)
AfterRouters == {"ext_links", "int_links", "ports", "running"}
AfterExtLinks == {"int_links", "ports", "running"}
AfterIntLinks == {"ports", "running"}

RouterRecords  == [id : Int]
ExtLinkRecords == [id : Int, node : Int, router : Int]
IntLinkRecords == [id : Int, src : Int, dst : Int]

(* A router for each controller, joined to it, and to each other router. *)
BoardInv ==
    /\ routers \in Seq(RouterRecords)
    /\ phase \in AfterRouters => Len(routers) = N
    /\ phase \notin AfterRouters => Len(routers) < N
    /\ extLinks \in Seq(ExtLinkRecords)
    /\ \A i \in 1 .. Len(extLinks) : extLinks[i] = [id |-> i - 1, node |-> i, router |-> i]
    /\ phase \in AfterExtLinks => Len(extLinks) = N
    /\ phase \notin AfterExtLinks => Len(extLinks) < N
    /\ intLinks \in Seq(IntLinkRecords)
    /\ phase \in AfterIntLinks => Linked = Pairs

(* Setup starts without a network. *)
LEMMA InitBoard == ASSUME Init PROVE BoardInv
<1>1. config.cpus \in Nat \ {0}
  BY BoundsAssumption DEF Init, Configs
<1> QED
  BY <1>1 DEF Init, BoardInv, N, AfterRouters, AfterExtLinks, AfterIntLinks

(* Nothing but connectControllers() changes it. *)
LEMMA KeepBoard ==
    ASSUME BoardInv, UNCHANGED <<config, routers, extLinks, intLinks>>,
           \/ phase' = phase
           \/ phase \notin AfterRouters /\ phase' \notin AfterRouters
           \/ phase \in AfterIntLinks /\ phase' \in AfterIntLinks
    PROVE  BoardInv'
<1>1. N' = N /\ Linked' = Linked /\ Pairs' = Pairs
  BY DEF N, Linked, Pairs
<1>2. /\ phase' \in AfterRouters <=> phase \in AfterRouters
      /\ phase' \in AfterExtLinks <=> phase \in AfterExtLinks
      /\ phase' \in AfterIntLinks <=> phase \in AfterIntLinks
  BY DEF AfterIntLinks, AfterExtLinks, AfterRouters
<1> QED
  BY <1>1, <1>2 DEF BoardInv

(* A pair more is linked. *)
LEMMA LinkAppended ==
    ASSUME NEW s \in Seq(IntLinkRecords), NEW e \in IntLinkRecords
    PROVE  {<<l.src, l.dst>> : l \in ToSet(Append(s, e))} = {<<l.src, l.dst>> : l \in ToSet(s)} \cup {<<e.src, e.dst>>}
<1>1. ToSet(Append(s, e)) = ToSet(s) \cup {e}
  <2>1. Len(Append(s, e)) = Len(s) + 1 /\ DOMAIN Append(s, e) = 1 .. Len(s) + 1 /\ DOMAIN s = 1 .. Len(s)
        /\ Len(s) \in Nat
    OBVIOUS
  <2>2. \A i \in 1 .. Len(s) : Append(s, e)[i] = s[i]
    OBVIOUS
  <2>3. Append(s, e)[Len(s) + 1] = e
    OBVIOUS
  <2> QED
    BY <2>1, <2>2, <2>3 DEF ToSet
<1> QED
  BY <1>1

(* Every step of setup() adds the next router or link, or leaves them. *)
LEMMA StepBoard == ASSUME Inv, BoardInv, [Next]_vars PROVE BoardInv'
<1>0. config.cpus \in Nat \ {0} /\ N \in Nat /\ N = config.cpus + 1
  <2>1. config.cpus \in Nat \ {0}
    BY BoundsAssumption DEF Inv, Configs
  <2> QED
    BY <2>1 DEF N
<1>1. CASE CreateRouter
  <2>1. /\ phase = "routers" /\ routers' = Append(routers, [id |-> Len(routers)])
        /\ phase' = IF Len(routers') = Len(controllers) THEN "ext_links" ELSE phase
        /\ UNCHANGED <<config, controllers, extLinks, intLinks>>
    BY <1>1 DEF CreateRouter, InPhase
  <2>2. Len(controllers) = N /\ Len(routers) \in Nat /\ Len(routers) < N /\ Len(extLinks) < N
    BY <1>0, <2>1 DEF Inv, ControllersInv, BoardInv, AfterControllers, AfterSequencers, AfterAttach,
                      AfterRouters, AfterExtLinks
  <2>3. routers' \in Seq(RouterRecords) /\ Len(routers') = Len(routers) + 1
    BY <2>1, <2>2, AppendFacts DEF BoardInv, RouterRecords
  <2>4. N' = N
    BY <2>1 DEF N
  <2>5. phase' \in {"routers", "ext_links"} /\ (phase' = "ext_links" <=> Len(routers') = N)
    BY <2>1, <2>2
  <2>6. Len(routers') <= N
    BY <1>0, <2>2, <2>3
  <2>7. (extLinks \in Seq(ExtLinkRecords) /\ intLinks \in Seq(IntLinkRecords)
         /\ \A i \in 1 .. Len(extLinks) : extLinks[i] = [id |-> i - 1, node |-> i, router |-> i])'
    BY <2>1 DEF BoardInv
  <2>8. Len(routers') < N \/ Len(routers') = N
    BY <1>0, <2>2, <2>3
  <2> QED
    BY <2>1, <2>2, <2>3, <2>4, <2>5, <2>7, <2>8 DEF BoardInv, AfterRouters, AfterExtLinks, AfterIntLinks
<1>2. CASE CreateExtLink
  <2> DEFINE i == Len(extLinks)
             e == [id |-> i, node |-> i + 1, router |-> i + 1]
  <2>1. /\ phase = "ext_links" /\ extLinks' = Append(extLinks, e)
        /\ phase' = IF Len(extLinks') = Len(controllers) THEN "int_links" ELSE phase
        /\ UNCHANGED <<config, controllers, routers, intLinks>>
    BY <1>2 DEF CreateExtLink, InPhase
  <2>2. Len(controllers) = N /\ i \in Nat /\ i < N /\ Len(routers) = N
    BY <1>0, <2>1 DEF Inv, ControllersInv, BoardInv, AfterControllers, AfterSequencers, AfterAttach,
                      AfterRouters, AfterExtLinks
  <2>3. e \in ExtLinkRecords
    BY <2>2 DEF ExtLinkRecords
  <2>4. extLinks' \in Seq(ExtLinkRecords) /\ Len(extLinks') = i + 1
        /\ (\A j \in 1 .. i : extLinks'[j] = extLinks[j]) /\ extLinks'[i + 1] = e
    <3> HIDE DEF e
    <3> QED BY <2>1, <2>3, AppendFacts DEF BoardInv
  <2>5. ASSUME NEW j \in 1 .. i + 1 PROVE extLinks'[j] = [id |-> j - 1, node |-> j, router |-> j]
    <3>1. CASE j = i + 1
      BY <2>2, <2>4, <3>1
    <3>2. CASE j # i + 1
      <4>1. j \in 1 .. i
        BY <2>2, <3>2
      <4> QED
        BY <2>4, <4>1 DEF BoardInv
    <3> QED BY <3>1, <3>2
  <2>6. N' = N
    BY <2>1 DEF N
  <2>7. phase' \in {"ext_links", "int_links"} /\ (phase' = "int_links" <=> Len(extLinks') = N)
    BY <2>1, <2>2
  <2>8. Len(extLinks') < N \/ Len(extLinks') = N
    BY <1>0, <2>2, <2>4
  <2>9. (routers \in Seq(RouterRecords) /\ intLinks \in Seq(IntLinkRecords))' /\ Len(routers') = N
    BY <2>1, <2>2 DEF BoardInv
  <2> HIDE DEF i, e
  <2> QED
    BY <2>4, <2>5, <2>6, <2>7, <2>8, <2>9 DEF BoardInv, AfterRouters, AfterExtLinks, AfterIntLinks
<1>3. CASE CreateIntLink
  <2>1. PICK p \in Pairs \ Linked :
          /\ intLinks' = Append(intLinks, [id |-> Len(intLinks) + 1, src |-> p[1], dst |-> p[2]])
          /\ phase' = IF Pairs = Linked \cup {p} THEN "ports" ELSE phase
    BY <1>3 DEF CreateIntLink
  <2>2. phase = "int_links" /\ UNCHANGED <<config, routers, extLinks>>
    BY <1>3 DEF CreateIntLink, InPhase
  <2>3. Len(routers) = N /\ Len(extLinks) = N /\ routers \in Seq(RouterRecords)
    BY <2>2 DEF BoardInv, AfterRouters, AfterExtLinks
  <2>4. p = <<p[1], p[2]>> /\ p[1] \in 1 .. N /\ p[2] \in 1 .. N
    BY <2>3 DEF Pairs
  <2> DEFINE e == [id |-> Len(intLinks) + 1, src |-> p[1], dst |-> p[2]]
  <2>5. e \in IntLinkRecords /\ <<e.src, e.dst>> = p
    BY <1>0, <2>4 DEF IntLinkRecords, BoardInv
  <2>6. intLinks' \in Seq(IntLinkRecords) /\ Linked' = Linked \cup {p}
    <3>1. intLinks' = Append(intLinks, e) /\ intLinks \in Seq(IntLinkRecords)
      BY <2>1 DEF BoardInv
    <3> HIDE DEF e
    <3>2. Append(intLinks, e) \in Seq(IntLinkRecords)
      BY <2>5, <3>1
    <3>3. {<<l.src, l.dst>> : l \in ToSet(Append(intLinks, e))}
             = {<<l.src, l.dst>> : l \in ToSet(intLinks)} \cup {<<e.src, e.dst>>}
      BY <2>5, <3>1, LinkAppended
    <3> QED
      BY <2>5, <3>1, <3>2, <3>3 DEF Linked
  <2>7. N' = N /\ Pairs' = Pairs
    BY <2>2 DEF N, Pairs
  <2>8. phase' \in {"int_links", "ports"} /\ (phase' = "ports" => Linked' = Pairs')
    BY <2>1, <2>2, <2>6, <2>7
  <2>9. (extLinks \in Seq(ExtLinkRecords)
         /\ \A i \in 1 .. Len(extLinks) : extLinks[i] = [id |-> i - 1, node |-> i, router |-> i])'
    BY <2>2 DEF BoardInv
  <2> QED
    BY <2>2, <2>3, <2>6, <2>7, <2>8, <2>9 DEF BoardInv, AfterRouters, AfterExtLinks, AfterIntLinks
<1>4. CASE Construct \/ CreateSequencer \/ AttachSequencer \/ (\E class \in {"L1Cache", "DirController"} : CreateController(class))
  <2>1. UNCHANGED <<config, routers, extLinks, intLinks>> /\ phase \notin AfterRouters /\ phase' \notin AfterRouters
    BY <1>4 DEF Construct, CreateSequencer, AttachSequencer, CreateController, InPhase, AfterRouters
  <2> QED
    BY <2>1, KeepBoard
<1>5. CASE ConnectCPU
  <2>1. UNCHANGED <<config, routers, extLinks, intLinks>> /\ phase \in AfterIntLinks /\ phase' \in AfterIntLinks
    BY <1>5 DEF ConnectCPU, AfterIntLinks
  <2> QED
    BY <2>1, KeepBoard
<1>6. CASE UNCHANGED setupVars
  BY <1>6, KeepBoard DEF setupVars
<1> QED
  BY <1>1, <1>2, <1>3, <1>4, <1>5, <1>6, AfterSetup DEF Next, Setup

---------------------------------------------------------------------------
(* Messages in the network.  A message goes from the buffer of its sender  *)
(* over the link to a destination into the buffer of that; the invariant   *)
(* says in each of the three places, and between any two of them, in which *)
(* order the messages of a source to a destination are.                    *)
Boxes  == (1 .. N) \X Vnets
Joined == {p \in (1 .. N) \X (1 .. N) : p[1] # p[2]}
Letters == [num : Nat, src : Nat, dests : SUBSET Nat]

Empty == out = <<>> /\ links = <<>> /\ in = <<>> /\ sent = 0

QueueTypes ==
    /\ sent \in 0 .. MaxMessages
    /\ out \in [Boxes -> Seq(Letters)]
    /\ links \in [Joined \X Vnets -> Seq(Letters)]
    /\ in \in [Boxes -> Seq(Letters)]

(* m was sent before k, unless s and v keep no order: then they differ. *)
Precedes(m, k, s, v) == IF <<s, v>> \in OrderedPairs THEN m.num < k.num ELSE m.num # k.num

OnOut(c, v)     == out[<<c, v>>]
OnLink(s, d, v) == links[<<<<s, d>>, v>>]
OnIn(d, v)      == in[<<d, v>>]

(* What each place says of a message, ... *)
OutItem(c, v, m, n)     == /\ m.num \in 1 .. n /\ m.src = c /\ Sends(c, v)
                           /\ \A d \in m.dests : d \in 1 .. N /\ d # c /\ Receives(d, v)
LinkItem(s, d, v, m, n) == /\ m.num \in 1 .. n /\ m.src = s /\ Receives(d, v)
                           /\ d \in m.dests /\ m.dests \subseteq 1 .. N
InItem(d, v, m, n)      == /\ m.num \in 1 .. n /\ m.src \in 1 .. N /\ m.src # d /\ Receives(d, v)
                           /\ d \in m.dests /\ m.dests \subseteq 1 .. N

OutItems  == \A c \in 1 .. N, v \in Vnets : \A i \in 1 .. Len(OnOut(c, v)) : OutItem(c, v, OnOut(c, v)[i], sent)
LinkItems == \A s, d \in 1 .. N, v \in Vnets : s # d =>
                \A i \in 1 .. Len(OnLink(s, d, v)) : LinkItem(s, d, v, OnLink(s, d, v)[i], sent)
InItems   == \A d \in 1 .. N, v \in Vnets : \A i \in 1 .. Len(OnIn(d, v)) : InItem(d, v, OnIn(d, v)[i], sent)

(* ... of two messages in it, ... *)
OutOrder  == \A c \in 1 .. N, v \in Vnets : \A i, j \in 1 .. Len(OnOut(c, v)) :
                i < j => OnOut(c, v)[i].num < OnOut(c, v)[j].num
LinkOrder == \A s, d \in 1 .. N, v \in Vnets : s # d => \A i, j \in 1 .. Len(OnLink(s, d, v)) :
                i < j => Precedes(OnLink(s, d, v)[i], OnLink(s, d, v)[j], s, v)
InOrder   == \A s, d \in 1 .. N, v \in Vnets : \A i, j \in 1 .. Len(OnIn(d, v)) :
                i < j /\ OnIn(d, v)[i].src = s /\ OnIn(d, v)[j].src = s =>
                   Precedes(OnIn(d, v)[i], OnIn(d, v)[j], s, v)

(* ... and of two in different places. *)
LinkBeforeOut == \A s, d \in 1 .. N, v \in Vnets : s # d =>
                    \A i \in 1 .. Len(OnLink(s, d, v)), j \in 1 .. Len(OnOut(s, v)) :
                       d \in OnOut(s, v)[j].dests => Precedes(OnLink(s, d, v)[i], OnOut(s, v)[j], s, v)
InBeforeLink  == \A s, d \in 1 .. N, v \in Vnets : s # d =>
                    \A i \in 1 .. Len(OnIn(d, v)), j \in 1 .. Len(OnLink(s, d, v)) :
                       OnIn(d, v)[i].src = s => Precedes(OnIn(d, v)[i], OnLink(s, d, v)[j], s, v)
InBeforeOut   == \A s, d \in 1 .. N, v \in Vnets : s # d =>
                    \A i \in 1 .. Len(OnIn(d, v)), j \in 1 .. Len(OnOut(s, v)) :
                       OnIn(d, v)[i].src = s /\ d \in OnOut(s, v)[j].dests =>
                          Precedes(OnIn(d, v)[i], OnOut(s, v)[j], s, v)

Items == OutItems /\ LinkItems /\ InItems
Order == OutOrder /\ LinkOrder /\ InOrder /\ LinkBeforeOut /\ InBeforeLink /\ InBeforeOut

NetInv ==
    /\ phase # "running" => Empty
    /\ phase = "running" => QueueTypes /\ Items /\ Order

(* The entries of a queue after its k-th is taken. *)
Skip(k, i) == IF i < k THEN i ELSE i + 1
Without(r, q, k) ==
    /\ Len(r) = Len(q) - 1
    /\ \A i \in 1 .. Len(r) : Skip(k, i) \in 1 .. Len(q) /\ r[i] = q[Skip(k, i)]

(* Two sequences in a row. *)
LEMMA ConcatFacts ==
    ASSUME NEW T, NEW a \in Seq(T), NEW b \in Seq(T)
    PROVE  /\ a \o b \in Seq(T) /\ Len(a \o b) = Len(a) + Len(b)
           /\ \A i \in 1 .. Len(a) : (a \o b)[i] = a[i]
           /\ \A i \in 1 .. Len(b) : (a \o b)[Len(a) + i] = b[i]
  OBVIOUS

(* RemoveAt and Tail leave the other messages in their order. *)
LEMMA RemoveFacts ==
    ASSUME NEW q \in Seq(Letters), NEW k \in 1 .. Len(q)
    PROVE  RemoveAt(q, k) \in Seq(Letters) /\ Without(RemoveAt(q, k), q, k)
<1> DEFINE n == Len(q)
           a == SubSeq(q, 1, k - 1)
           b == SubSeq(q, k + 1, n)
<1>1. n \in Nat /\ k \in Nat /\ 1 <= k /\ k <= n
  OBVIOUS
<1>2. a \in Seq(Letters) /\ Len(a) = k - 1 /\ \A i \in 1 .. k - 1 : a[i] = q[i]
  BY <1>1
<1>3. b \in Seq(Letters) /\ Len(b) = n - k /\ \A i \in 1 .. n - k : b[i] = q[i + k]
  BY <1>1
<1>4. RemoveAt(q, k) = a \o b
  BY DEF RemoveAt
<1> HIDE DEF a, b
<1>5. a \o b \in Seq(Letters) /\ Len(a \o b) = n - 1
  <2>1. a \o b \in Seq(Letters) /\ Len(a \o b) = Len(a) + Len(b)
    BY <1>2, <1>3, ConcatFacts
  <2> QED
    BY <1>1, <1>2, <1>3, <2>1
<1>6. ASSUME NEW i \in 1 .. n - 1 PROVE (a \o b)[i] = q[Skip(k, i)] /\ Skip(k, i) \in 1 .. n
  <2>1. CASE i < k
    BY <1>1, <1>2, <1>3, <2>1 DEF Skip
  <2>2. CASE ~(i < k)
    <3>1. (a \o b)[i] = b[i - (k - 1)] /\ i - (k - 1) \in 1 .. n - k
      BY <1>1, <1>2, <1>3, <2>2
    <3> QED
      BY <1>1, <1>3, <2>2, <3>1 DEF Skip
  <2> QED
    BY <2>1, <2>2
<1> QED
  BY <1>4, <1>5, <1>6 DEF Without

(* A queue without its head. *)
LEMMA TailWithout ==
    ASSUME NEW q \in Seq(Letters), q # <<>>
    PROVE  /\ Tail(q) \in Seq(Letters) /\ Without(Tail(q), q, 1)
           /\ Head(q) = q[1] /\ 1 \in 1 .. Len(q) /\ q[1] \in Letters
<1>1. Tail(q) \in Seq(Letters) /\ Len(Tail(q)) = Len(q) - 1 /\ Head(q) = q[1] /\ Len(q) \in Nat /\ Len(q) > 0
  OBVIOUS
<1>2. \A i \in 1 .. Len(Tail(q)) : Tail(q)[i] = q[i + 1]
  OBVIOUS
<1>3. q[1] \in Letters
  BY <1>1
<1> QED
  BY <1>1, <1>2, <1>3 DEF Without, Skip

(* The later of two messages stays the later. *)
LEMMA SkipOrder ==
    ASSUME NEW k \in Int, NEW i \in Int, NEW j \in Int, i < j
    PROVE  Skip(k, i) < Skip(k, j)
  BY DEF Skip

(* What setup() leaves: routers and controllers with the same numbers, and *)
(* a link between any two.                                                 *)
LEMMA Built ==
    ASSUME Inv, BoardInv, phase = "running"
    PROVE  /\ N \in Nat /\ N > 1 /\ Linked = Joined
           /\ \A c \in 1 .. N : RouterOf(c) = c /\ NodeAt(c) = c
<1>1. config.cpus \in Nat \ {0}
  BY BoundsAssumption DEF Inv, Configs
<1>2. N \in Nat /\ N > 1
  BY <1>1 DEF N
<1>3. Len(routers) = N /\ Len(extLinks) = N /\ Linked = Pairs
  BY DEF BoardInv, AfterRouters, AfterExtLinks, AfterIntLinks
<1>4. DOMAIN routers = 1 .. N /\ DOMAIN extLinks = 1 .. N
  BY <1>2, <1>3 DEF BoardInv
<1>5. Linked = Joined
  BY <1>3, <1>4 DEF Pairs, Joined
<1>6. \A i \in 1 .. N : extLinks[i].node = i /\ extLinks[i].router = i
  BY <1>3 DEF BoardInv
<1>7. ASSUME NEW c \in 1 .. N, NEW r \in 1 .. N
      PROVE  (\E e \in ToSet(extLinks) : e.node = c /\ e.router = r) <=> c = r
  <2>1. ASSUME NEW e \in ToSet(extLinks), e.node = c, e.router = r PROVE c = r
    <3>1. PICK i \in 1 .. N : e = extLinks[i]
      BY <1>4 DEF ToSet
    <3>2. e.node = i /\ e.router = i
      BY <1>6, <3>1
    <3> QED
      BY <2>1, <3>2
  <2>2. ASSUME c = r PROVE \E e \in ToSet(extLinks) : e.node = c /\ e.router = r
    <3>1. extLinks[c] \in ToSet(extLinks)
      BY <1>4 DEF ToSet
    <3>2. extLinks[c].node = c /\ extLinks[c].router = c
      BY <1>6
    <3> QED
      BY <2>2, <3>1, <3>2
  <2> QED
    BY <2>1, <2>2
<1>8. ASSUME NEW c \in 1 .. N PROVE RouterOf(c) = c /\ NodeAt(c) = c
  <2>1. RouterOf(c) = CHOOSE r \in 1 .. N : c = r
    BY <1>4, <1>7 DEF RouterOf
  <2>2. NodeAt(c) = CHOOSE d \in 1 .. N : d = c
    BY <1>7 DEF NodeAt
  <2> QED
    BY <2>1, <2>2
<1> QED
  BY <1>2, <1>5, <1>8

(* What a message meets does not change on its way. *)
LEMMA SameNetwork ==
    ASSUME UNCHANGED setupVars
    PROVE  /\ N' = N /\ Vnets' = Vnets /\ OrderedPairs' = OrderedPairs
           /\ Boxes' = Boxes /\ Joined' = Joined
           /\ \A c, v : (Sends(c, v)' <=> Sends(c, v)) /\ (Receives(c, v)' <=> Receives(c, v))
<1>1. config' = config /\ controllers' = controllers
  BY DEF setupVars
<1>2. N' = N /\ System' = System
  BY <1>1 DEF N, System
<1>3. Vnets' = Vnets
  BY <1>2 DEF Vnets
<1>4. OrderedPairs' = OrderedPairs /\ Boxes' = Boxes /\ Joined' = Joined
  BY <1>1, <1>2, <1>3 DEF OrderedPairs, Boxes, Joined
<1>5. \A c : Buffers(c)' = Buffers(c)
  BY <1>1, <1>2 DEF Buffers
<1> QED
  BY <1>2, <1>3, <1>4, <1>5 DEF Sends, Receives

(* A buffer that promised order sends from its head. *)
LEMMA OrderedSends ==
    ASSUME Inv, phase = "running", NEW c \in 1 .. N, NEW v \in Vnets, Sends(c, v), <<c, v>> \in OrderedPairs
    PROVE  KeepsOrder(c, v)
<1>1. config.cpus \in Nat \ {0} /\ Len(controllers) = config.cpus + 1 /\ config.caches \in {"msi_caches", "ruby_caches_MI_example"}
  BY BoundsAssumption DEF Inv, Configs, ControllersInv, AfterControllers, AfterSequencers, AfterAttach
<1>2. controllers[c] = Controller(c)
  BY <1>1 DEF Inv, ControllersInv, N
<1>3. PICK b \in Buffers(c) : b.dir = "to" /\ b.vnet = v
  BY DEF Sends
<1>4. CASE config.caches = "msi_caches"
  <2>1. Buffers(c) \in {MSIL1Buffers, MSIDirBuffers}
    BY <1>4 DEF Buffers, System, MSISystem
  <2>2. b.ordered
    BY <1>3, <2>1 DEF MSIL1Buffers, MSIDirBuffers, To, From
  <2> QED
    BY <1>3, <2>2 DEF KeepsOrder
<1>5. CASE config.caches = "ruby_caches_MI_example" /\ c < N
  <2>1. Buffers(c) = MIL1Buffers
    BY <1>1, <1>2, <1>5 DEF Buffers, System, MISystem, Controller, N
  <2>2. b.ordered
    BY <1>3, <2>1 DEF MIL1Buffers, To, From
  <2> QED
    BY <1>3, <2>2 DEF KeepsOrder
<1>6. CASE config.caches = "ruby_caches_MI_example" /\ c = N
  <2>1. v \notin {3, 4}
    BY <1>6 DEF OrderedPairs
  <2>2. Buffers(c) = MIDirBuffers
    BY <1>1, <1>2, <1>6 DEF Buffers, System, MISystem, Controller, N
  <2>3. b.ordered
    BY <1>3, <2>1, <2>2 DEF MIDirBuffers, To, From
  <2> QED
    BY <1>3, <2>3 DEF KeepsOrder
<1> QED
  BY <1>1, <1>4, <1>5, <1>6 DEF N

(* The messages of r are those of q in their order, without some of them,  *)
(* and with one of T behind them.                                          *)
Drawn(r, q, T) ==
    /\ \A i \in 1 .. Len(r) : r[i] \in T \/ \E a \in 1 .. Len(q) : r[i] = q[a]
    /\ \A i, j \in 1 .. Len(r) : i < j =>
          \E a \in 1 .. Len(q) : /\ r[i] = q[a]
                                 /\ r[j] \in T \/ \E b \in 1 .. Len(q) : a < b /\ r[j] = q[b]

(* A queue left alone. *)
LEMMA DrawnSame ==
    ASSUME NEW q PROVE Drawn(q, q, {})
  BY DEF Drawn

(* A queue with a message behind it. *)
LEMMA DrawnAppend ==
    ASSUME NEW q \in Seq(Letters), NEW m \in Letters PROVE Drawn(Append(q, m), q, {m})
<1> DEFINE r == Append(q, m)
<1>1. /\ Len(q) \in Nat /\ Len(r) = Len(q) + 1 /\ r[Len(q) + 1] = m
      /\ \A i \in 1 .. Len(q) : r[i] = q[i]
  BY AppendFacts
<1> HIDE DEF r
<1>2. ASSUME NEW i \in 1 .. Len(r) PROVE r[i] \in {m} \/ \E a \in 1 .. Len(q) : r[i] = q[a]
  <2>1. i \in 1 .. Len(q) \/ i = Len(q) + 1
    BY <1>1
  <2> QED
    BY <1>1, <2>1
<1>3. ASSUME NEW i \in 1 .. Len(r), NEW j \in 1 .. Len(r), i < j
      PROVE  \E a \in 1 .. Len(q) : /\ r[i] = q[a]
                                    /\ r[j] \in {m} \/ \E b \in 1 .. Len(q) : a < b /\ r[j] = q[b]
  <2>1. i \in 1 .. Len(q) /\ (j \in 1 .. Len(q) \/ j = Len(q) + 1)
    BY <1>1, <1>3
  <2> QED
    BY <1>1, <1>3, <2>1
<1>4. Drawn(r, q, {m})
  BY <1>2, <1>3 DEF Drawn
<1> QED
  BY <1>4 DEF r

(* A queue that a message was taken from. *)
LEMMA DrawnWithout ==
    ASSUME NEW q, NEW r, NEW k \in Int, Len(r) \in Nat, Without(r, q, k) PROVE Drawn(r, q, {})
<1>1. \A i \in 1 .. Len(r) : Skip(k, i) \in 1 .. Len(q) /\ r[i] = q[Skip(k, i)]
  BY DEF Without
<1>2. ASSUME NEW i \in 1 .. Len(r), NEW j \in 1 .. Len(r), i < j PROVE Skip(k, i) < Skip(k, j)
  BY <1>2, SkipOrder
<1> QED
  BY <1>1, <1>2 DEF Drawn

(* What Drawn says of one message, and of two. *)
LEMMA DrawnOne ==
    ASSUME NEW r, NEW q, NEW T, Drawn(r, q, T), NEW i \in 1 .. Len(r)
    PROVE  r[i] \in T \/ \E a \in 1 .. Len(q) : r[i] = q[a]
  BY DEF Drawn

LEMMA DrawnTwo ==
    ASSUME NEW r, NEW q, NEW T, Drawn(r, q, T), NEW i \in 1 .. Len(r), NEW j \in 1 .. Len(r), i < j
    PROVE  \E a \in 1 .. Len(q) : /\ r[i] = q[a]
                                  /\ r[j] \in T \/ \E b \in 1 .. Len(q) : a < b /\ r[j] = q[b]
  BY DEF Drawn

(* A step that takes messages away and puts m behind those of some places  *)
(* keeps the invariant, if m belongs there.                                *)
Put(m, S, place) == {k \in {m} : place \in S}

Moves(m, O, L, I) ==
    /\ \A c \in 1 .. N, v \in Vnets : Drawn(OnOut(c, v)', OnOut(c, v), Put(m, O, <<c, v>>))
    /\ \A s, d \in 1 .. N, v \in Vnets :
          s # d => Drawn(OnLink(s, d, v)', OnLink(s, d, v), Put(m, L, <<<<s, d>>, v>>))
    /\ \A d \in 1 .. N, v \in Vnets : Drawn(OnIn(d, v)', OnIn(d, v), Put(m, I, <<d, v>>))

OutBelongs(m, O) ==
    \A c \in 1 .. N, v \in Vnets : <<c, v>> \in O => OutItem(c, v, m, sent') /\ m.num > sent

LinkBelongs(m, L) ==
    \A s, d \in 1 .. N, v \in Vnets : s # d /\ <<<<s, d>>, v>> \in L =>
       /\ LinkItem(s, d, v, m, sent')
       /\ \A i \in 1 .. Len(OnLink(s, d, v)) : Precedes(OnLink(s, d, v)[i], m, s, v)
       /\ \A i \in 1 .. Len(OnIn(d, v)) : OnIn(d, v)[i].src = s => Precedes(OnIn(d, v)[i], m, s, v)
       /\ \A j \in 1 .. Len(OnOut(s, v)') :
             d \in OnOut(s, v)'[j].dests => Precedes(m, OnOut(s, v)'[j], s, v)

InBelongs(m, I) ==
    \A d \in 1 .. N, v \in Vnets : <<d, v>> \in I =>
       /\ InItem(d, v, m, sent')
       /\ \A i \in 1 .. Len(OnIn(d, v)) : OnIn(d, v)[i].src = m.src => Precedes(OnIn(d, v)[i], m, m.src, v)
       /\ \A j \in 1 .. Len(OnLink(m.src, d, v)') : Precedes(m, OnLink(m.src, d, v)'[j], m.src, v)
       /\ \A j \in 1 .. Len(OnOut(m.src, v)') :
             d \in OnOut(m.src, v)'[j].dests => Precedes(m, OnOut(m.src, v)'[j], m.src, v)

(* Order between two messages is broken only by the one that is put        *)
(* somewhere: any other two were in this order before.                     *)
LEMMA NetStep ==
    ASSUME QueueTypes, Items, Order, QueueTypes', UNCHANGED setupVars, sent <= sent',
           NEW m \in Letters, NEW O, NEW L, NEW I,
           Moves(m, O, L, I), OutBelongs(m, O), LinkBelongs(m, L), InBelongs(m, I)
    PROVE  Items' /\ Order'
<1>1. /\ N' = N /\ Vnets' = Vnets /\ OrderedPairs' = OrderedPairs
      /\ \A c, v : (Sends(c, v)' <=> Sends(c, v)) /\ (Receives(c, v)' <=> Receives(c, v))
  BY SameNetwork
<1>2. sent \in Int /\ sent' \in Int
  BY DEF QueueTypes
<1>3. ASSUME NEW c \in 1 .. N, NEW v \in Vnets, NEW i \in 1 .. Len(OnOut(c, v)')
       PROVE  \/ OnOut(c, v)'[i] = m /\ <<c, v>> \in O
              \/ \E a \in 1 .. Len(OnOut(c, v)) : OnOut(c, v)'[i] = OnOut(c, v)[a]
  <2>1. Drawn(OnOut(c, v)', OnOut(c, v), Put(m, O, <<c, v>>))
    BY DEF Moves
  <2>2. OnOut(c, v)'[i] \in Put(m, O, <<c, v>>) \/ \E a \in 1 .. Len(OnOut(c, v)) : OnOut(c, v)'[i] = OnOut(c, v)[a]
    BY <2>1, DrawnOne
  <2> QED
    BY <2>2 DEF Put
<1>4. ASSUME NEW c \in 1 .. N, NEW v \in Vnets, NEW i \in 1 .. Len(OnOut(c, v)')
      PROVE  OutItem(c, v, OnOut(c, v)'[i], sent')
  <2>2. CASE OnOut(c, v)'[i] = m /\ <<c, v>> \in O
    BY <2>2 DEF OutBelongs
  <2>3. ASSUME NEW a \in 1 .. Len(OnOut(c, v)), OnOut(c, v)'[i] = OnOut(c, v)[a]
        PROVE  OutItem(c, v, OnOut(c, v)'[i], sent')
    <3>1. OutItem(c, v, OnOut(c, v)[a], sent)
      BY DEF Items, OutItems
    <3> QED
      BY <1>2, <2>3, <3>1 DEF OutItem
  <2> QED
    BY <1>3, <2>2, <2>3
<1>5. ASSUME NEW s \in 1 .. N, NEW d \in 1 .. N, NEW v \in Vnets, s # d, NEW i \in 1 .. Len(OnLink(s, d, v)')
      PROVE  /\ LinkItem(s, d, v, OnLink(s, d, v)'[i], sent')
             /\ \/ OnLink(s, d, v)'[i] = m /\ <<<<s, d>>, v>> \in L
                \/ \E a \in 1 .. Len(OnLink(s, d, v)) : OnLink(s, d, v)'[i] = OnLink(s, d, v)[a]
  <2>1. \/ OnLink(s, d, v)'[i] = m /\ <<<<s, d>>, v>> \in L
        \/ \E a \in 1 .. Len(OnLink(s, d, v)) : OnLink(s, d, v)'[i] = OnLink(s, d, v)[a]
    <3>1. Drawn(OnLink(s, d, v)', OnLink(s, d, v), Put(m, L, <<<<s, d>>, v>>))
      BY <1>5 DEF Moves
    <3>2. OnLink(s, d, v)'[i] \in Put(m, L, <<<<s, d>>, v>>) \/ \E a \in 1 .. Len(OnLink(s, d, v)) : OnLink(s, d, v)'[i] = OnLink(s, d, v)[a]
      BY <3>1, DrawnOne
    <3> QED
      BY <3>2 DEF Put
  <2>2. CASE OnLink(s, d, v)'[i] = m /\ <<<<s, d>>, v>> \in L
    BY <1>5, <2>2 DEF LinkBelongs
  <2>3. ASSUME NEW a \in 1 .. Len(OnLink(s, d, v)), OnLink(s, d, v)'[i] = OnLink(s, d, v)[a]
        PROVE  LinkItem(s, d, v, OnLink(s, d, v)'[i], sent')
    <3>1. LinkItem(s, d, v, OnLink(s, d, v)[a], sent)
      BY <1>5 DEF Items, LinkItems
    <3> QED
      BY <1>2, <2>3, <3>1 DEF LinkItem
  <2> QED
    BY <2>1, <2>2, <2>3
<1>6. ASSUME NEW d \in 1 .. N, NEW v \in Vnets, NEW i \in 1 .. Len(OnIn(d, v)')
      PROVE  /\ InItem(d, v, OnIn(d, v)'[i], sent')
             /\ \/ OnIn(d, v)'[i] = m /\ <<d, v>> \in I
                \/ \E a \in 1 .. Len(OnIn(d, v)) : OnIn(d, v)'[i] = OnIn(d, v)[a]
  <2>1. \/ OnIn(d, v)'[i] = m /\ <<d, v>> \in I
        \/ \E a \in 1 .. Len(OnIn(d, v)) : OnIn(d, v)'[i] = OnIn(d, v)[a]
    <3>1. Drawn(OnIn(d, v)', OnIn(d, v), Put(m, I, <<d, v>>))
      BY DEF Moves
    <3>2. OnIn(d, v)'[i] \in Put(m, I, <<d, v>>) \/ \E a \in 1 .. Len(OnIn(d, v)) : OnIn(d, v)'[i] = OnIn(d, v)[a]
      BY <3>1, DrawnOne
    <3> QED
      BY <3>2 DEF Put
  <2>2. CASE OnIn(d, v)'[i] = m /\ <<d, v>> \in I
    BY <2>2 DEF InBelongs
  <2>3. ASSUME NEW a \in 1 .. Len(OnIn(d, v)), OnIn(d, v)'[i] = OnIn(d, v)[a]
        PROVE  InItem(d, v, OnIn(d, v)'[i], sent')
    <3>1. InItem(d, v, OnIn(d, v)[a], sent)
      BY DEF Items, InItems
    <3> QED
      BY <1>2, <2>3, <3>1 DEF InItem
  <2> QED
    BY <2>1, <2>2, <2>3
<1>7. Items'
  <2>1. OutItems'
    <3> SUFFICES ASSUME NEW c \in 1 .. N, NEW v \in Vnets, NEW i \in 1 .. Len(OnOut(c, v)')
                 PROVE  OutItem(c, v, OnOut(c, v)[i], sent)'
      BY <1>1 DEF OutItems
    <3>1. OutItem(c, v, OnOut(c, v)'[i], sent')
      BY <1>4
    <3> QED
      BY <1>1, <3>1 DEF OutItem
  <2>2. LinkItems'
    <3> SUFFICES ASSUME NEW s \in 1 .. N, NEW d \in 1 .. N, NEW v \in Vnets, s # d,
                        NEW i \in 1 .. Len(OnLink(s, d, v)')
                 PROVE  LinkItem(s, d, v, OnLink(s, d, v)[i], sent)'
      BY <1>1 DEF LinkItems
    <3>1. LinkItem(s, d, v, OnLink(s, d, v)'[i], sent')
      BY <1>5
    <3> QED
      BY <1>1, <3>1 DEF LinkItem
  <2>3. InItems'
    <3> SUFFICES ASSUME NEW d \in 1 .. N, NEW v \in Vnets, NEW i \in 1 .. Len(OnIn(d, v)')
                 PROVE  InItem(d, v, OnIn(d, v)[i], sent)'
      BY <1>1 DEF InItems
    <3>1. InItem(d, v, OnIn(d, v)'[i], sent')
      BY <1>6
    <3> QED
      BY <1>1, <3>1 DEF InItem
  <2> QED
    BY <2>1, <2>2, <2>3 DEF Items
<1>8. ASSUME NEW c \in 1 .. N, NEW v \in Vnets, NEW i \in 1 .. Len(OnOut(c, v)'), NEW j \in 1 .. Len(OnOut(c, v)'),
             i < j
      PROVE  OnOut(c, v)'[i].num < OnOut(c, v)'[j].num
  <2>1. PICK a \in 1 .. Len(OnOut(c, v)) :
           /\ OnOut(c, v)'[i] = OnOut(c, v)[a]
           /\ \/ OnOut(c, v)'[j] = m /\ <<c, v>> \in O
              \/ \E b \in 1 .. Len(OnOut(c, v)) : a < b /\ OnOut(c, v)'[j] = OnOut(c, v)[b]
    <3>1. Drawn(OnOut(c, v)', OnOut(c, v), Put(m, O, <<c, v>>))
      BY DEF Moves
    <3>2. \E a \in 1 .. Len(OnOut(c, v)) :
             /\ OnOut(c, v)'[i] = OnOut(c, v)[a]
             /\ \/ OnOut(c, v)'[j] \in Put(m, O, <<c, v>>)
                \/ \E b \in 1 .. Len(OnOut(c, v)) : a < b /\ OnOut(c, v)'[j] = OnOut(c, v)[b]
      BY <1>8, <3>1, DrawnTwo
    <3> QED
      BY <3>2 DEF Put
  <2>2. OnOut(c, v)[a].num \in 1 .. sent
    BY DEF Items, OutItems, OutItem
  <2>3. CASE OnOut(c, v)'[j] = m /\ <<c, v>> \in O
    BY SMTT(30), <1>2, <2>1, <2>2, <2>3 DEF Letters, OutBelongs
  <2>4. ASSUME NEW b \in 1 .. Len(OnOut(c, v)), a < b, OnOut(c, v)'[j] = OnOut(c, v)[b]
        PROVE  OnOut(c, v)'[i].num < OnOut(c, v)'[j].num
    <3>1. OnOut(c, v)[a].num < OnOut(c, v)[b].num
      BY <2>4 DEF Order, OutOrder
    <3> QED
      BY <2>1, <2>4, <3>1
  <2> QED
    BY <2>1, <2>3, <2>4
<1>9. ASSUME NEW s \in 1 .. N, NEW d \in 1 .. N, NEW v \in Vnets, s # d,
             NEW i \in 1 .. Len(OnLink(s, d, v)'), NEW j \in 1 .. Len(OnLink(s, d, v)'), i < j
      PROVE  Precedes(OnLink(s, d, v)'[i], OnLink(s, d, v)'[j], s, v)
  <2>1. PICK a \in 1 .. Len(OnLink(s, d, v)) :
           /\ OnLink(s, d, v)'[i] = OnLink(s, d, v)[a]
           /\ \/ OnLink(s, d, v)'[j] = m /\ <<<<s, d>>, v>> \in L
              \/ \E b \in 1 .. Len(OnLink(s, d, v)) : a < b /\ OnLink(s, d, v)'[j] = OnLink(s, d, v)[b]
    <3>1. Drawn(OnLink(s, d, v)', OnLink(s, d, v), Put(m, L, <<<<s, d>>, v>>))
      BY <1>9 DEF Moves
    <3>2. \E a \in 1 .. Len(OnLink(s, d, v)) :
             /\ OnLink(s, d, v)'[i] = OnLink(s, d, v)[a]
             /\ \/ OnLink(s, d, v)'[j] \in Put(m, L, <<<<s, d>>, v>>)
                \/ \E b \in 1 .. Len(OnLink(s, d, v)) : a < b /\ OnLink(s, d, v)'[j] = OnLink(s, d, v)[b]
      BY <1>9, <3>1, DrawnTwo
    <3> QED
      BY <3>2 DEF Put
  <2>3. CASE OnLink(s, d, v)'[j] = m /\ <<<<s, d>>, v>> \in L
    BY <1>9, <2>1, <2>3 DEF LinkBelongs
  <2>4. ASSUME NEW b \in 1 .. Len(OnLink(s, d, v)), a < b, OnLink(s, d, v)'[j] = OnLink(s, d, v)[b]
        PROVE  Precedes(OnLink(s, d, v)'[i], OnLink(s, d, v)'[j], s, v)
    <3>1. Precedes(OnLink(s, d, v)[a], OnLink(s, d, v)[b], s, v)
      BY <1>9, <2>4 DEF Order, LinkOrder
    <3> QED
      BY <2>1, <2>4, <3>1
  <2> QED
    BY <2>1, <2>3, <2>4
<1>10. ASSUME NEW s \in 1 .. N, NEW d \in 1 .. N, NEW v \in Vnets,
             NEW i \in 1 .. Len(OnIn(d, v)'), NEW j \in 1 .. Len(OnIn(d, v)'), i < j,
             OnIn(d, v)'[i].src = s, OnIn(d, v)'[j].src = s
      PROVE  Precedes(OnIn(d, v)'[i], OnIn(d, v)'[j], s, v)
  <2>1. PICK a \in 1 .. Len(OnIn(d, v)) :
           /\ OnIn(d, v)'[i] = OnIn(d, v)[a]
           /\ \/ OnIn(d, v)'[j] = m /\ <<d, v>> \in I
              \/ \E b \in 1 .. Len(OnIn(d, v)) : a < b /\ OnIn(d, v)'[j] = OnIn(d, v)[b]
    <3>1. Drawn(OnIn(d, v)', OnIn(d, v), Put(m, I, <<d, v>>))
      BY DEF Moves
    <3>2. \E a \in 1 .. Len(OnIn(d, v)) :
             /\ OnIn(d, v)'[i] = OnIn(d, v)[a]
             /\ \/ OnIn(d, v)'[j] \in Put(m, I, <<d, v>>)
                \/ \E b \in 1 .. Len(OnIn(d, v)) : a < b /\ OnIn(d, v)'[j] = OnIn(d, v)[b]
      BY <1>10, <3>1, DrawnTwo
    <3> QED
      BY <3>2 DEF Put
  <2>3. CASE OnIn(d, v)'[j] = m /\ <<d, v>> \in I
    BY <1>10, <2>1, <2>3 DEF InBelongs
  <2>4. ASSUME NEW b \in 1 .. Len(OnIn(d, v)), a < b, OnIn(d, v)'[j] = OnIn(d, v)[b]
        PROVE  Precedes(OnIn(d, v)'[i], OnIn(d, v)'[j], s, v)
    <3>1. OnIn(d, v)[a].src = s /\ OnIn(d, v)[b].src = s
      BY <1>10, <2>1, <2>4
    <3>2. Precedes(OnIn(d, v)[a], OnIn(d, v)[b], s, v)
      BY <2>4, <3>1 DEF Order, InOrder
    <3> QED
      BY <2>1, <2>4, <3>2
  <2> QED
    BY <2>1, <2>3, <2>4
<1>11. ASSUME NEW s \in 1 .. N, NEW d \in 1 .. N, NEW v \in Vnets, s # d,
             NEW i \in 1 .. Len(OnLink(s, d, v)'), NEW j \in 1 .. Len(OnOut(s, v)'), d \in OnOut(s, v)'[j].dests
      PROVE  Precedes(OnLink(s, d, v)'[i], OnOut(s, v)'[j], s, v)
  <2>1. CASE OnLink(s, d, v)'[i] = m /\ <<<<s, d>>, v>> \in L
    BY <1>11, <2>1 DEF LinkBelongs
  <2>2. ASSUME NEW a \in 1 .. Len(OnLink(s, d, v)), OnLink(s, d, v)'[i] = OnLink(s, d, v)[a]
        PROVE  Precedes(OnLink(s, d, v)'[i], OnOut(s, v)'[j], s, v)
    <3>1. OnLink(s, d, v)[a].num \in 1 .. sent
      BY <1>11 DEF Items, LinkItems, LinkItem
    <3>2. CASE OnOut(s, v)'[j] = m /\ <<s, v>> \in O
      BY SMTT(30), <1>2, <2>2, <3>1, <3>2 DEF Precedes, Letters, OutBelongs
    <3>3. ASSUME NEW b \in 1 .. Len(OnOut(s, v)), OnOut(s, v)'[j] = OnOut(s, v)[b]
          PROVE  Precedes(OnLink(s, d, v)'[i], OnOut(s, v)'[j], s, v)
      <4>1. Precedes(OnLink(s, d, v)[a], OnOut(s, v)[b], s, v)
        BY <1>11, <3>3 DEF Order, LinkBeforeOut
      <4> QED
        BY <2>2, <3>3, <4>1
    <3>4. \/ OnOut(s, v)'[j] = m /\ <<s, v>> \in O
          \/ \E b \in 1 .. Len(OnOut(s, v)) : OnOut(s, v)'[j] = OnOut(s, v)[b]
      BY <1>3
    <3> QED
      BY <3>2, <3>3, <3>4
  <2> QED
    BY <1>5, <1>11, <2>1, <2>2
<1>12. ASSUME NEW s \in 1 .. N, NEW d \in 1 .. N, NEW v \in Vnets, s # d,
              NEW i \in 1 .. Len(OnIn(d, v)'), NEW j \in 1 .. Len(OnLink(s, d, v)'), OnIn(d, v)'[i].src = s
       PROVE  Precedes(OnIn(d, v)'[i], OnLink(s, d, v)'[j], s, v)
  <2>1. CASE OnIn(d, v)'[i] = m /\ <<d, v>> \in I
    BY <1>12, <2>1 DEF InBelongs
  <2>2. ASSUME NEW a \in 1 .. Len(OnIn(d, v)), OnIn(d, v)'[i] = OnIn(d, v)[a]
        PROVE  Precedes(OnIn(d, v)'[i], OnLink(s, d, v)'[j], s, v)
    <3>1. OnIn(d, v)[a].src = s
      BY <1>12, <2>2
    <3>2. CASE OnLink(s, d, v)'[j] = m /\ <<<<s, d>>, v>> \in L
      BY <1>12, <2>2, <3>1, <3>2 DEF LinkBelongs
    <3>3. ASSUME NEW b \in 1 .. Len(OnLink(s, d, v)), OnLink(s, d, v)'[j] = OnLink(s, d, v)[b]
          PROVE  Precedes(OnIn(d, v)'[i], OnLink(s, d, v)'[j], s, v)
      <4>1. Precedes(OnIn(d, v)[a], OnLink(s, d, v)[b], s, v)
        BY <1>12, <3>1, <3>3 DEF Order, InBeforeLink
      <4> QED
        BY <2>2, <3>3, <4>1
    <3> QED
      BY <1>5, <1>12, <3>2, <3>3
  <2> QED
    BY <1>6, <2>1, <2>2
<1>13. ASSUME NEW s \in 1 .. N, NEW d \in 1 .. N, NEW v \in Vnets, s # d,
              NEW i \in 1 .. Len(OnIn(d, v)'), NEW j \in 1 .. Len(OnOut(s, v)'),
              OnIn(d, v)'[i].src = s, d \in OnOut(s, v)'[j].dests
       PROVE  Precedes(OnIn(d, v)'[i], OnOut(s, v)'[j], s, v)
  <2>1. CASE OnIn(d, v)'[i] = m /\ <<d, v>> \in I
    BY <1>13, <2>1 DEF InBelongs
  <2>2. ASSUME NEW a \in 1 .. Len(OnIn(d, v)), OnIn(d, v)'[i] = OnIn(d, v)[a]
        PROVE  Precedes(OnIn(d, v)'[i], OnOut(s, v)'[j], s, v)
    <3>1. OnIn(d, v)[a].src = s /\ OnIn(d, v)[a].num \in 1 .. sent
      BY <1>13, <2>2 DEF Items, InItems, InItem
    <3>2. CASE OnOut(s, v)'[j] = m /\ <<s, v>> \in O
      BY SMTT(30), <1>2, <2>2, <3>1, <3>2 DEF Precedes, Letters, OutBelongs
    <3>3. ASSUME NEW b \in 1 .. Len(OnOut(s, v)), OnOut(s, v)'[j] = OnOut(s, v)[b]
          PROVE  Precedes(OnIn(d, v)'[i], OnOut(s, v)'[j], s, v)
      <4>1. Precedes(OnIn(d, v)[a], OnOut(s, v)[b], s, v)
        BY <1>13, <3>1, <3>3 DEF Order, InBeforeOut
      <4> QED
        BY <2>2, <3>3, <4>1
    <3>4. \/ OnOut(s, v)'[j] = m /\ <<s, v>> \in O
          \/ \E b \in 1 .. Len(OnOut(s, v)) : OnOut(s, v)'[j] = OnOut(s, v)[b]
      BY <1>3
    <3> QED
      BY <3>2, <3>3, <3>4
  <2> QED
    BY <1>6, <2>1, <2>2
<1>14. Order'
  <2>1. OutOrder'
    BY <1>1, <1>8 DEF OutOrder
  <2>2. LinkOrder'
    BY <1>1, <1>9 DEF LinkOrder, Precedes
  <2>3. InOrder'
    BY <1>1, <1>10 DEF InOrder, Precedes
  <2>4. LinkBeforeOut'
    BY <1>1, <1>11 DEF LinkBeforeOut, Precedes
  <2>5. InBeforeLink'
    BY <1>1, <1>12 DEF InBeforeLink, Precedes
  <2>6. InBeforeOut'
    BY <1>1, <1>13 DEF InBeforeOut, Precedes
  <2> QED
    BY <2>1, <2>2, <2>3, <2>4, <2>5, <2>6 DEF Order
<1> QED
  BY <1>7, <1>14

---------------------------------------------------------------------------
(* What each step does to the queues, one by one. *)
LEMMA QueuesAre ==
    ASSUME QueueTypes
    PROVE  /\ \A c \in 1 .. N, v \in Vnets : /\ OnOut(c, v) \in Seq(Letters) /\ OnIn(c, v) \in Seq(Letters)
                                             /\ Len(OnOut(c, v)) \in Nat /\ Len(OnIn(c, v)) \in Nat
           /\ \A s, d \in 1 .. N, v \in Vnets : s # d => /\ OnLink(s, d, v) \in Seq(Letters)
                                                         /\ Len(OnLink(s, d, v)) \in Nat
<1>1. ASSUME NEW c \in 1 .. N, NEW v \in Vnets PROVE OnOut(c, v) \in Seq(Letters) /\ OnIn(c, v) \in Seq(Letters)
  <2>1. <<c, v>> \in Boxes
    BY DEF Boxes
  <2> QED
    BY <2>1 DEF QueueTypes, OnOut, OnIn
<1>2. ASSUME NEW s \in 1 .. N, NEW d \in 1 .. N, NEW v \in Vnets, s # d PROVE OnLink(s, d, v) \in Seq(Letters)
  <2>1. <<<<s, d>>, v>> \in Joined \X Vnets
    BY <1>2 DEF Joined
  <2> QED
    BY <2>1 DEF QueueTypes, OnLink
<1> QED
  BY <1>1, <1>2

(* Enqueue puts the new message in one buffer. *)
LEMMA EnqueueEffect ==
    ASSUME QueueTypes, N \in Nat, NEW c \in 1 .. N, NEW v \in Vnets, NEW dests \in SUBSET (1 .. N), Enqueue(c, v, dests)
    PROVE  \E m \in Letters :
              /\ m = [num |-> sent + 1, src |-> c, dests |-> dests]
              /\ QueueTypes' /\ sent' = sent + 1
              /\ \A x \in 1 .. N, w \in Vnets :
                    OnOut(x, w)' = IF x = c /\ w = v THEN Append(OnOut(x, w), m) ELSE OnOut(x, w)
              /\ links' = links /\ in' = in
<1> DEFINE e == [num |-> sent + 1, src |-> c, dests |-> dests]
<1>1. /\ sent < MaxMessages /\ sent' = sent + 1
      /\ out' = [out EXCEPT ![<<c, v>>] = Append(out[<<c, v>>], e)]
      /\ UNCHANGED <<setupVars, links, in>>
  BY DEF Enqueue
<1>2. e \in Letters
  BY DEF QueueTypes, Letters
<1> HIDE DEF e
<1>3. PICK m \in Letters : m = e
  BY <1>2
<1>4. out' = [out EXCEPT ![<<c, v>>] = Append(out[<<c, v>>], m)]
  BY <1>1, <1>3
<1>5. <<c, v>> \in Boxes /\ out \in [Boxes -> Seq(Letters)] /\ out[<<c, v>>] \in Seq(Letters)
  BY DEF Boxes, QueueTypes
<1>6. Append(out[<<c, v>>], m) \in Seq(Letters)
  BY <1>5
<1>7. out' \in [Boxes -> Seq(Letters)]
  BY <1>4, <1>5, <1>6
<1>8. Boxes' = Boxes /\ Joined' = Joined /\ Vnets' = Vnets
  BY <1>1, SameNetwork
<1>9. QueueTypes'
  BY <1>1, <1>7, <1>8, BoundsAssumption DEF QueueTypes
<1>10. ASSUME NEW x \in 1 .. N, NEW w \in Vnets
       PROVE  OnOut(x, w)' = IF x = c /\ w = v THEN Append(OnOut(x, w), m) ELSE OnOut(x, w)
  <2>1. <<x, w>> \in Boxes
    BY DEF Boxes
  <2>2. <<x, w>> = <<c, v>> <=> x = c /\ w = v
    OBVIOUS
  <2> QED
    BY <1>4, <1>5, <2>1, <2>2 DEF OnOut
<1> QED
  BY <1>1, <1>3, <1>9, <1>10 DEF e

(* Route takes a message from a buffer, the head if the buffer is ordered, *)
(* and puts it on the links from its sender to its destinations.           *)
LEMMA RouteEffect ==
    ASSUME Inv, BoardInv, phase = "running", QueueTypes, Items, NEW c \in 1 .. N, NEW v \in Vnets, Route(c, v)
    PROVE  \E m \in Letters : \E k \in 1 .. Len(OnOut(c, v)) :
              /\ m = OnOut(c, v)[k] /\ (<<c, v>> \in OrderedPairs => k = 1)
              /\ QueueTypes' /\ sent' = sent
              /\ Len(OnOut(c, v)') \in Nat /\ Without(OnOut(c, v)', OnOut(c, v), k)
              /\ \A x \in 1 .. N, w \in Vnets : ~(x = c /\ w = v) => OnOut(x, w)' = OnOut(x, w)
              /\ \A s, d \in 1 .. N, w \in Vnets : s # d =>
                    OnLink(s, d, w)' = IF s = c /\ d \in m.dests /\ w = v
                                       THEN Append(OnLink(s, d, w), m) ELSE OnLink(s, d, w)
              /\ in' = in
<1>1. PICK k \in DOMAIN out[<<c, v>>] :
         LET m == out[<<c, v>>][k]
             ways == {<<RouterOf(c), RouterOf(d)>> : d \in m.dests}
         IN  /\ KeepsOrder(c, v) => k = 1
             /\ ways \subseteq Linked
             /\ out' = [out EXCEPT ![<<c, v>>] = RemoveAt(out[<<c, v>>], k)]
             /\ links' = [l \in DOMAIN links |->
                             IF l[1] \in ways /\ l[2] = v THEN Append(links[l], m) ELSE links[l]]
  BY DEF Route
<1>2. UNCHANGED <<setupVars, in, sent>>
  BY DEF Route
<1>3. <<c, v>> \in Boxes /\ out \in [Boxes -> Seq(Letters)] /\ out[<<c, v>>] \in Seq(Letters)
  BY DEF Boxes, QueueTypes
<1>4. k \in 1 .. Len(OnOut(c, v)) /\ out[<<c, v>>][k] \in Letters
  BY <1>3 DEF OnOut
<1>5. PICK m \in Letters : m = out[<<c, v>>][k]
  BY <1>4
<1>6. OutItem(c, v, m, sent)
  BY <1>4, <1>5 DEF Items, OutItems, OnOut
<1>7. \A d \in 1 .. N : RouterOf(d) = d
  BY Built
<1>8. {<<RouterOf(c), RouterOf(d)>> : d \in m.dests} = {<<c, d>> : d \in m.dests}
  BY <1>6, <1>7 DEF OutItem
<1>9. RemoveAt(out[<<c, v>>], k) \in Seq(Letters) /\ Without(RemoveAt(out[<<c, v>>], k), out[<<c, v>>], k)
  BY <1>3, <1>4, RemoveFacts DEF OnOut
<1>10. out' = [out EXCEPT ![<<c, v>>] = RemoveAt(out[<<c, v>>], k)]
  BY <1>1
<1>11. out' \in [Boxes -> Seq(Letters)] /\ OnOut(c, v)' = RemoveAt(out[<<c, v>>], k)
  BY <1>3, <1>9, <1>10 DEF OnOut
<1>12. ASSUME NEW x \in 1 .. N, NEW w \in Vnets, ~(x = c /\ w = v) PROVE OnOut(x, w)' = OnOut(x, w)
  <2>1. <<x, w>> \in Boxes /\ <<x, w>> # <<c, v>>
    BY <1>12 DEF Boxes
  <2> QED
    BY <1>3, <1>10, <2>1 DEF OnOut
<1>13. links' = [l \in DOMAIN links |->
                   IF l[1] \in {<<c, d>> : d \in m.dests} /\ l[2] = v THEN Append(links[l], m) ELSE links[l]]
  BY <1>1, <1>5, <1>8
<1>14. links \in [Joined \X Vnets -> Seq(Letters)]
  BY DEF QueueTypes
<1>15. ASSUME NEW l \in Joined \X Vnets PROVE links'[l] \in Seq(Letters)
  <2>1. links[l] \in Seq(Letters) /\ Append(links[l], m) \in Seq(Letters)
    BY <1>14
  <2>2. links'[l] = Append(links[l], m) \/ links'[l] = links[l]
    BY <1>13, <1>14
  <2> QED
    BY <2>1, <2>2
<1>16. links' \in [Joined \X Vnets -> Seq(Letters)]
  BY <1>13, <1>14, <1>15
<1>17. ASSUME NEW s \in 1 .. N, NEW d \in 1 .. N, NEW w \in Vnets, s # d
       PROVE  OnLink(s, d, w)' = IF s = c /\ d \in m.dests /\ w = v
                                 THEN Append(OnLink(s, d, w), m) ELSE OnLink(s, d, w)
  <2> DEFINE l == <<<<s, d>>, w>>
  <2>1. l \in Joined \X Vnets /\ l[1] = <<s, d>> /\ l[2] = w
    BY <1>17 DEF Joined
  <2>2. l[1] \in {<<c, x>> : x \in m.dests} <=> s = c /\ d \in m.dests
    BY <2>1
  <2> HIDE DEF l
  <2>3. links'[l] = IF s = c /\ d \in m.dests /\ w = v THEN Append(links[l], m) ELSE links[l]
    BY <1>13, <1>14, <2>1, <2>2
  <2> QED
    BY <2>3 DEF OnLink, l
<1>18. <<c, v>> \in OrderedPairs => k = 1
  <2>1. Sends(c, v)
    BY <1>6 DEF OutItem
  <2> QED
    BY <1>1, <2>1, OrderedSends
<1>19. Boxes' = Boxes /\ Joined' = Joined /\ Vnets' = Vnets
  BY <1>2, SameNetwork
<1>20. QueueTypes'
  BY <1>2, <1>11, <1>16, <1>19 DEF QueueTypes
<1>21. Len(OnOut(c, v)') \in Nat /\ Without(OnOut(c, v)', OnOut(c, v), k) /\ m = OnOut(c, v)[k]
  BY <1>5, <1>9, <1>11 DEF OnOut
<1> QED
  BY <1>2, <1>4, <1>12, <1>17, <1>18, <1>20, <1>21

(* Deliver takes the head of a link into the buffer at its end. *)
LEMMA DeliverEffect ==
    ASSUME Inv, BoardInv, phase = "running", QueueTypes, Items, NEW p \in Linked, NEW v \in Vnets, Deliver(p, v)
    PROVE  \E s, d \in 1 .. N : \E m \in Letters :
              /\ s # d /\ 1 \in 1 .. Len(OnLink(s, d, v)) /\ m = OnLink(s, d, v)[1]
              /\ QueueTypes' /\ sent' = sent
              /\ Len(OnLink(s, d, v)') \in Nat /\ Without(OnLink(s, d, v)', OnLink(s, d, v), 1)
              /\ \A x, y \in 1 .. N, w \in Vnets :
                    x # y /\ ~(x = s /\ y = d /\ w = v) => OnLink(x, y, w)' = OnLink(x, y, w)
              /\ \A x \in 1 .. N, w \in Vnets :
                    OnIn(x, w)' = IF x = d /\ w = v THEN Append(OnIn(x, w), m) ELSE OnIn(x, w)
              /\ out' = out
<1>1. N \in Nat /\ Linked = Joined /\ \A c \in 1 .. N : NodeAt(c) = c
  BY Built
<1>2. PICK s \in 1 .. N, d \in 1 .. N : p = <<s, d>> /\ s # d
  BY <1>1 DEF Joined
<1> DEFINE l == <<<<s, d>>, v>>
           b == <<d, v>>
<1>3. l \in Joined \X Vnets /\ b \in Boxes
  BY <1>2 DEF Joined, Boxes
<1>4. links \in [Joined \X Vnets -> Seq(Letters)] /\ in \in [Boxes -> Seq(Letters)]
  BY DEF QueueTypes
<1>5. links[l] # <<>> /\ in' = [in EXCEPT ![b] = Append(in[b], Head(links[l]))]
      /\ links' = [links EXCEPT ![l] = Tail(links[l])] /\ UNCHANGED <<setupVars, out, sent>>
  BY <1>1, <1>2 DEF Deliver
<1>6. links[l] \in Seq(Letters) /\ in[b] \in Seq(Letters)
  BY <1>3, <1>4
<1>7. /\ Tail(links[l]) \in Seq(Letters) /\ Without(Tail(links[l]), links[l], 1) /\ Len(Tail(links[l])) \in Nat
      /\ Head(links[l]) = links[l][1] /\ 1 \in 1 .. Len(links[l]) /\ links[l][1] \in Letters
  <2> HIDE DEF l
  <2> QED BY <1>5, <1>6, TailWithout
<1>8. PICK m \in Letters : m = links[l][1]
  BY <1>7
<1> HIDE DEF l, b
<1>9. in' = [in EXCEPT ![b] = Append(in[b], m)] /\ Append(in[b], m) \in Seq(Letters)
  BY <1>5, <1>6, <1>7, <1>8
<1>10. in' \in [Boxes -> Seq(Letters)] /\ links' \in [Joined \X Vnets -> Seq(Letters)]
  BY <1>3, <1>4, <1>5, <1>7, <1>9
<1>11. QueueTypes'
  <2>1. Boxes' = Boxes /\ Joined' = Joined /\ Vnets' = Vnets
    BY <1>5, SameNetwork
  <2> QED
    BY <1>5, <1>10, <2>1 DEF QueueTypes
<1>12. ASSUME NEW x \in 1 .. N, NEW y \in 1 .. N, NEW w \in Vnets, x # y, ~(x = s /\ y = d /\ w = v)
       PROVE  OnLink(x, y, w)' = OnLink(x, y, w)
  <2>1. <<<<x, y>>, w>> \in Joined \X Vnets /\ <<<<x, y>>, w>> # l
    BY <1>12 DEF Joined, l
  <2> QED
    BY <1>4, <1>5, <2>1 DEF OnLink
<1>13. ASSUME NEW x \in 1 .. N, NEW w \in Vnets
       PROVE  OnIn(x, w)' = IF x = d /\ w = v THEN Append(OnIn(x, w), m) ELSE OnIn(x, w)
  <2>1. <<x, w>> \in Boxes /\ (<<x, w>> = b <=> x = d /\ w = v)
    BY DEF Boxes, b
  <2> QED
    BY <1>4, <1>9, <2>1 DEF OnIn
<1>14. OnLink(s, d, v)' = Tail(links[l]) /\ OnLink(s, d, v) = links[l]
  BY <1>3, <1>4, <1>5 DEF OnLink, l
<1>15. /\ s # d /\ 1 \in 1 .. Len(OnLink(s, d, v)) /\ m = OnLink(s, d, v)[1]
       /\ Len(OnLink(s, d, v)') \in Nat /\ Without(OnLink(s, d, v)', OnLink(s, d, v), 1)
  BY <1>2, <1>7, <1>8, <1>14
<1>16. sent' = sent /\ out' = out
  BY <1>5
<1>17. \A x, y \in 1 .. N, w \in Vnets :
          x # y /\ ~(x = s /\ y = d /\ w = v) => OnLink(x, y, w)' = OnLink(x, y, w)
  BY <1>12
<1>18. \A x \in 1 .. N, w \in Vnets :
          OnIn(x, w)' = IF x = d /\ w = v THEN Append(OnIn(x, w), m) ELSE OnIn(x, w)
  BY <1>13
<1> WITNESS s \in 1 .. N, d \in 1 .. N
<1> WITNESS m \in Letters
<1> QED
  BY <1>11, <1>15, <1>16, <1>17, <1>18

(* Receive takes the head of a buffer. *)
LEMMA ReceiveEffect ==
    ASSUME QueueTypes, NEW c \in 1 .. N, NEW v \in Vnets, Receive(c, v)
    PROVE  /\ 1 \in 1 .. Len(OnIn(c, v)) /\ OnIn(c, v)[1] \in Letters
           /\ QueueTypes' /\ sent' = sent
           /\ Len(OnIn(c, v)') \in Nat /\ Without(OnIn(c, v)', OnIn(c, v), 1)
           /\ \A x \in 1 .. N, w \in Vnets : ~(x = c /\ w = v) => OnIn(x, w)' = OnIn(x, w)
           /\ out' = out /\ links' = links
<1> DEFINE b == <<c, v>>
<1>1. b \in Boxes /\ in \in [Boxes -> Seq(Letters)] /\ in[b] \in Seq(Letters)
  BY DEF Boxes, QueueTypes
<1>2. in[b] # <<>> /\ in' = [in EXCEPT ![b] = Tail(in[b])] /\ UNCHANGED <<setupVars, out, links, sent>>
  BY DEF Receive
<1> HIDE DEF b
<1>3. /\ Tail(in[b]) \in Seq(Letters) /\ Without(Tail(in[b]), in[b], 1) /\ Len(Tail(in[b])) \in Nat
      /\ 1 \in 1 .. Len(in[b]) /\ in[b][1] \in Letters
  BY <1>1, <1>2, TailWithout
<1>4. in' \in [Boxes -> Seq(Letters)] /\ in'[b] = Tail(in[b])
  BY <1>1, <1>2, <1>3
<1>5. QueueTypes'
  <2>1. Boxes' = Boxes /\ Joined' = Joined /\ Vnets' = Vnets
    BY <1>2, SameNetwork
  <2> QED
    BY <1>2, <1>4, <2>1 DEF QueueTypes
<1>6. ASSUME NEW x \in 1 .. N, NEW w \in Vnets, ~(x = c /\ w = v) PROVE OnIn(x, w)' = OnIn(x, w)
  <2>1. <<x, w>> \in Boxes /\ <<x, w>> # b
    BY <1>6 DEF Boxes, b
  <2> QED
    BY <1>1, <1>2, <2>1 DEF OnIn
<1>7. OnIn(c, v)' = Tail(in[b]) /\ OnIn(c, v) = in[b]
  BY <1>4 DEF OnIn, b
<1> QED
  BY <1>2, <1>3, <1>5, <1>6, <1>7

---------------------------------------------------------------------------
(* The four steps of a message keep the invariant. *)
LEMMA PutIs ==
    ASSUME NEW m, NEW S, NEW place
    PROVE  /\ place \in S => Put(m, S, place) = {m}
           /\ place \notin S => Put(m, S, place) = {}
  BY DEF Put

(* The new message has the highest number. *)
LEMMA EnqueueKeeps ==
    ASSUME QueueTypes, Items, Order, N \in Nat,
           NEW c \in 1 .. N, NEW v \in Vnets, NEW dests \in SUBSET (1 .. N), Enqueue(c, v, dests)
    PROVE  QueueTypes' /\ Items' /\ Order'
<1>1. PICK m \in Letters :
         /\ m = [num |-> sent + 1, src |-> c, dests |-> dests]
         /\ QueueTypes' /\ sent' = sent + 1
         /\ \A x \in 1 .. N, w \in Vnets :
               OnOut(x, w)' = IF x = c /\ w = v THEN Append(OnOut(x, w), m) ELSE OnOut(x, w)
         /\ links' = links /\ in' = in
  BY EnqueueEffect
<1>2. UNCHANGED setupVars /\ sent \in Nat /\ sent <= sent'
  BY <1>1 DEF Enqueue, QueueTypes
<1>3. Sends(c, v) /\ \A d \in dests : d \in 1 .. N /\ d # c /\ Receives(d, v)
  BY DEF Enqueue, Destinations
<1>4. OutBelongs(m, {<<c, v>>})
  <2>1. m.num = sent + 1 /\ m.src = c /\ m.dests = dests
    BY <1>1
  <2> QED
    BY <1>1, <1>2, <1>3, <2>1 DEF OutBelongs, OutItem
<1>5. LinkBelongs(m, {}) /\ InBelongs(m, {})
  BY DEF LinkBelongs, InBelongs
<1>6. Moves(m, {<<c, v>>}, {}, {})
  <2>1. ASSUME NEW x \in 1 .. N, NEW w \in Vnets
        PROVE  Drawn(OnOut(x, w)', OnOut(x, w), Put(m, {<<c, v>>}, <<x, w>>))
    <3>1. CASE x = c /\ w = v
      <4>1. Put(m, {<<c, v>>}, <<x, w>>) = {m}
        BY <3>1, PutIs
      <4>2. OnOut(x, w) \in Seq(Letters) /\ OnOut(x, w)' = Append(OnOut(x, w), m)
        BY <1>1, <3>1, QueuesAre
      <4> QED
        BY <4>1, <4>2, DrawnAppend
    <3>2. CASE ~(x = c /\ w = v)
      <4>1. Put(m, {<<c, v>>}, <<x, w>>) = {}
        BY <3>2, PutIs
      <4>2. OnOut(x, w)' = OnOut(x, w)
        BY <1>1, <3>2
      <4> QED
        BY <4>1, <4>2, DrawnSame
    <3> QED
      BY <3>1, <3>2
  <2>2. ASSUME NEW s \in 1 .. N, NEW d \in 1 .. N, NEW w \in Vnets
        PROVE  Drawn(OnLink(s, d, w)', OnLink(s, d, w), Put(m, {}, <<<<s, d>>, w>>))
    <3>1. Put(m, {}, <<<<s, d>>, w>>) = {} /\ OnLink(s, d, w)' = OnLink(s, d, w)
      BY <1>1, PutIs DEF OnLink
    <3> QED
      BY <3>1, DrawnSame
  <2>3. ASSUME NEW d \in 1 .. N, NEW w \in Vnets
        PROVE  Drawn(OnIn(d, w)', OnIn(d, w), Put(m, {}, <<d, w>>))
    <3>1. Put(m, {}, <<d, w>>) = {} /\ OnIn(d, w)' = OnIn(d, w)
      BY <1>1, PutIs DEF OnIn
    <3> QED
      BY <3>1, DrawnSame
  <2> QED
    BY <2>1, <2>2, <2>3 DEF Moves
<1> QED
  BY <1>1, <1>2, <1>4, <1>5, <1>6, NetStep

(* The message routed comes before what stays in an ordered buffer. *)
LEMMA RouteKeeps ==
    ASSUME Inv, BoardInv, phase = "running", QueueTypes, Items, Order, NEW c \in 1 .. N, NEW v \in Vnets, Route(c, v)
    PROVE  QueueTypes' /\ Items' /\ Order'
<1>1. PICK m \in Letters, k \in 1 .. Len(OnOut(c, v)) :
         /\ m = OnOut(c, v)[k] /\ (<<c, v>> \in OrderedPairs => k = 1)
         /\ QueueTypes' /\ sent' = sent
         /\ Len(OnOut(c, v)') \in Nat /\ Without(OnOut(c, v)', OnOut(c, v), k)
         /\ \A x \in 1 .. N, w \in Vnets : ~(x = c /\ w = v) => OnOut(x, w)' = OnOut(x, w)
         /\ \A s, d \in 1 .. N, w \in Vnets : s # d =>
               OnLink(s, d, w)' = IF s = c /\ d \in m.dests /\ w = v
                                  THEN Append(OnLink(s, d, w), m) ELSE OnLink(s, d, w)
         /\ in' = in
  BY RouteEffect
<1>2. UNCHANGED setupVars /\ sent <= sent'
  BY <1>1 DEF Route, QueueTypes
<1> DEFINE L == {<<<<c, d>>, v>> : d \in m.dests}
<1>3. OutItem(c, v, m, sent)
  BY <1>1 DEF Items, OutItems
<1>4. ASSUME NEW j \in 1 .. Len(OnOut(c, v)') PROVE Precedes(m, OnOut(c, v)'[j], c, v)
  <2>1. Skip(k, j) \in 1 .. Len(OnOut(c, v)) /\ OnOut(c, v)'[j] = OnOut(c, v)[Skip(k, j)]
    BY <1>1 DEF Without
  <2>2. Len(OnOut(c, v)) \in Nat
    BY QueuesAre
  <2>3. Skip(k, j) # k /\ (k = 1 => k < Skip(k, j))
    BY <1>1, <2>1 DEF Skip
  <2>4. k < Skip(k, j) \/ Skip(k, j) < k
    BY <2>1, <2>2, <2>3
  <2>5. \/ OnOut(c, v)[k].num < OnOut(c, v)'[j].num
        \/ OnOut(c, v)'[j].num < OnOut(c, v)[k].num /\ k # 1
    BY <2>1, <2>3, <2>4 DEF Order, OutOrder
  <2>6. OnOut(c, v)[k].num \in Nat /\ OnOut(c, v)'[j].num \in Nat
    BY <2>1, <2>2 DEF Items, OutItems, OutItem
  <2> QED
    BY <1>1, <2>5, <2>6 DEF Precedes
<1>5. LinkBelongs(m, L)
  <2> SUFFICES ASSUME NEW d \in 1 .. N, c # d, d \in m.dests
               PROVE  /\ LinkItem(c, d, v, m, sent')
                      /\ \A i \in 1 .. Len(OnLink(c, d, v)) : Precedes(OnLink(c, d, v)[i], m, c, v)
                      /\ \A i \in 1 .. Len(OnIn(d, v)) : OnIn(d, v)[i].src = c => Precedes(OnIn(d, v)[i], m, c, v)
                      /\ \A j \in 1 .. Len(OnOut(c, v)') :
                            d \in OnOut(c, v)'[j].dests => Precedes(m, OnOut(c, v)'[j], c, v)
    BY DEF LinkBelongs
  <2>1. LinkItem(c, d, v, m, sent')
    BY <1>1, <1>3 DEF LinkItem, OutItem
  <2>2. \A i \in 1 .. Len(OnLink(c, d, v)) : Precedes(OnLink(c, d, v)[i], m, c, v)
    BY <1>1 DEF Order, LinkBeforeOut
  <2>3. \A i \in 1 .. Len(OnIn(d, v)) : OnIn(d, v)[i].src = c => Precedes(OnIn(d, v)[i], m, c, v)
    BY <1>1 DEF Order, InBeforeOut
  <2> QED
    BY <1>4, <2>1, <2>2, <2>3
<1>6. OutBelongs(m, {}) /\ InBelongs(m, {})
  BY DEF OutBelongs, InBelongs
<1>7. Moves(m, {}, L, {})
  <2>1. ASSUME NEW x \in 1 .. N, NEW w \in Vnets
        PROVE  Drawn(OnOut(x, w)', OnOut(x, w), Put(m, {}, <<x, w>>))
    <3>1. Put(m, {}, <<x, w>>) = {}
      BY PutIs
    <3>2. CASE x = c /\ w = v
      <4>1. Drawn(OnOut(x, w)', OnOut(x, w), {})
        BY <1>1, <3>2, DrawnWithout
      <4> QED
        BY <3>1, <4>1
    <3>3. CASE ~(x = c /\ w = v)
      <4>1. OnOut(x, w)' = OnOut(x, w)
        BY <1>1, <3>3
      <4> QED
        BY <3>1, <4>1, DrawnSame
    <3> QED
      BY <3>2, <3>3
  <2>2. ASSUME NEW s \in 1 .. N, NEW d \in 1 .. N, NEW w \in Vnets, s # d
        PROVE  Drawn(OnLink(s, d, w)', OnLink(s, d, w), Put(m, L, <<<<s, d>>, w>>))
    <3>1. <<<<s, d>>, w>> \in L <=> s = c /\ d \in m.dests /\ w = v
      OBVIOUS
    <3> HIDE DEF L
    <3>2. CASE s = c /\ d \in m.dests /\ w = v
      <4>1. Put(m, L, <<<<s, d>>, w>>) = {m}
        BY <3>1, <3>2, PutIs
      <4>2. OnLink(s, d, w) \in Seq(Letters) /\ OnLink(s, d, w)' = Append(OnLink(s, d, w), m)
        BY <1>1, <2>2, <3>2, QueuesAre
      <4> QED
        BY <4>1, <4>2, DrawnAppend
    <3>3. CASE ~(s = c /\ d \in m.dests /\ w = v)
      <4>1. Put(m, L, <<<<s, d>>, w>>) = {}
        BY <3>1, <3>3, PutIs
      <4>2. OnLink(s, d, w)' = OnLink(s, d, w)
        BY <1>1, <2>2, <3>3
      <4> QED
        BY <4>1, <4>2, DrawnSame
    <3> QED
      BY <3>2, <3>3
  <2>3. ASSUME NEW d \in 1 .. N, NEW w \in Vnets
        PROVE  Drawn(OnIn(d, w)', OnIn(d, w), Put(m, {}, <<d, w>>))
    <3>1. Put(m, {}, <<d, w>>) = {} /\ OnIn(d, w)' = OnIn(d, w)
      BY <1>1, PutIs DEF OnIn
    <3> QED
      BY <3>1, DrawnSame
  <2> HIDE DEF L
  <2> QED
    BY <2>1, <2>2, <2>3 DEF Moves
<1> HIDE DEF L
<1> QED
  BY <1>1, <1>2, <1>5, <1>6, <1>7, NetStep

(* The head of a link comes before the rest of it and what is not sent yet. *)
LEMMA DeliverKeeps ==
    ASSUME Inv, BoardInv, phase = "running", QueueTypes, Items, Order, NEW p \in Linked, NEW v \in Vnets, Deliver(p, v)
    PROVE  QueueTypes' /\ Items' /\ Order'
<1>1. PICK s \in 1 .. N, d \in 1 .. N, m \in Letters :
         /\ s # d /\ 1 \in 1 .. Len(OnLink(s, d, v)) /\ m = OnLink(s, d, v)[1]
         /\ QueueTypes' /\ sent' = sent
         /\ Len(OnLink(s, d, v)') \in Nat /\ Without(OnLink(s, d, v)', OnLink(s, d, v), 1)
         /\ \A x, y \in 1 .. N, w \in Vnets :
               x # y /\ ~(x = s /\ y = d /\ w = v) => OnLink(x, y, w)' = OnLink(x, y, w)
         /\ \A x \in 1 .. N, w \in Vnets :
               OnIn(x, w)' = IF x = d /\ w = v THEN Append(OnIn(x, w), m) ELSE OnIn(x, w)
         /\ out' = out
  BY DeliverEffect
<1>2. UNCHANGED setupVars /\ sent <= sent'
  BY <1>1 DEF Deliver, QueueTypes
<1>3. LinkItem(s, d, v, m, sent)
  BY <1>1 DEF Items, LinkItems
<1>4. m.src = s
  BY <1>3 DEF LinkItem
<1>5. ASSUME NEW j \in 1 .. Len(OnLink(s, d, v)') PROVE Precedes(m, OnLink(s, d, v)'[j], s, v)
  <2>1. Skip(1, j) \in 1 .. Len(OnLink(s, d, v)) /\ OnLink(s, d, v)'[j] = OnLink(s, d, v)[Skip(1, j)]
    BY <1>1 DEF Without
  <2>2. 1 < Skip(1, j)
    BY <1>1 DEF Skip
  <2> QED
    BY <1>1, <2>1, <2>2 DEF Order, LinkOrder
<1>6. InBelongs(m, {<<d, v>>})
  <2>1. InItem(d, v, m, sent')
    BY <1>1, <1>3 DEF InItem, LinkItem
  <2>2. \A i \in 1 .. Len(OnIn(d, v)) : OnIn(d, v)[i].src = s => Precedes(OnIn(d, v)[i], m, s, v)
    BY <1>1 DEF Order, InBeforeLink
  <2>3. OnOut(s, v)' = OnOut(s, v)
    BY <1>1 DEF OnOut
  <2>4. \A j \in 1 .. Len(OnOut(s, v)') :
           d \in OnOut(s, v)'[j].dests => Precedes(m, OnOut(s, v)'[j], s, v)
    BY <1>1, <2>3 DEF Order, LinkBeforeOut
  <2>5. /\ \A i \in 1 .. Len(OnIn(d, v)) : OnIn(d, v)[i].src = m.src => Precedes(OnIn(d, v)[i], m, m.src, v)
        /\ \A j \in 1 .. Len(OnLink(m.src, d, v)') : Precedes(m, OnLink(m.src, d, v)'[j], m.src, v)
        /\ \A j \in 1 .. Len(OnOut(m.src, v)') :
              d \in OnOut(m.src, v)'[j].dests => Precedes(m, OnOut(m.src, v)'[j], m.src, v)
    BY <1>4, <1>5, <2>2, <2>4
  <2>6. ASSUME NEW x \in 1 .. N, NEW w \in Vnets, <<x, w>> \in {<<d, v>>} PROVE x = d /\ w = v
    BY <2>6
  <2> QED
    BY <2>1, <2>5, <2>6 DEF InBelongs
<1>7. OutBelongs(m, {}) /\ LinkBelongs(m, {})
  BY DEF OutBelongs, LinkBelongs
<1>8. Moves(m, {}, {}, {<<d, v>>})
  <2>1. ASSUME NEW x \in 1 .. N, NEW w \in Vnets
        PROVE  Drawn(OnOut(x, w)', OnOut(x, w), Put(m, {}, <<x, w>>))
    <3>1. Put(m, {}, <<x, w>>) = {} /\ OnOut(x, w)' = OnOut(x, w)
      BY <1>1, PutIs DEF OnOut
    <3> QED
      BY <3>1, DrawnSame
  <2>2. ASSUME NEW x \in 1 .. N, NEW y \in 1 .. N, NEW w \in Vnets, x # y
        PROVE  Drawn(OnLink(x, y, w)', OnLink(x, y, w), Put(m, {}, <<<<x, y>>, w>>))
    <3>1. Put(m, {}, <<<<x, y>>, w>>) = {}
      BY PutIs
    <3>2. CASE x = s /\ y = d /\ w = v
      <4>1. Drawn(OnLink(x, y, w)', OnLink(x, y, w), {})
        BY <1>1, <3>2, DrawnWithout
      <4> QED
        BY <3>1, <4>1
    <3>3. CASE ~(x = s /\ y = d /\ w = v)
      <4>1. OnLink(x, y, w)' = OnLink(x, y, w)
        BY <1>1, <2>2, <3>3
      <4> QED
        BY <3>1, <4>1, DrawnSame
    <3> QED
      BY <3>2, <3>3
  <2>3. ASSUME NEW x \in 1 .. N, NEW w \in Vnets
        PROVE  Drawn(OnIn(x, w)', OnIn(x, w), Put(m, {<<d, v>>}, <<x, w>>))
    <3>1. CASE x = d /\ w = v
      <4>1. Put(m, {<<d, v>>}, <<x, w>>) = {m}
        BY <3>1, PutIs
      <4>2. OnIn(x, w) \in Seq(Letters) /\ OnIn(x, w)' = Append(OnIn(x, w), m)
        BY <1>1, <3>1, QueuesAre
      <4> QED
        BY <4>1, <4>2, DrawnAppend
    <3>2. CASE ~(x = d /\ w = v)
      <4>1. Put(m, {<<d, v>>}, <<x, w>>) = {}
        BY <3>2, PutIs
      <4>2. OnIn(x, w)' = OnIn(x, w)
        BY <1>1, <3>2
      <4> QED
        BY <4>1, <4>2, DrawnSame
    <3> QED
      BY <3>1, <3>2
  <2> QED
    BY <2>1, <2>2, <2>3 DEF Moves
<1> QED
  BY <1>1, <1>2, <1>6, <1>7, <1>8, NetStep

(* Receive only takes away. *)
LEMMA ReceiveKeeps ==
    ASSUME QueueTypes, Items, Order, NEW c \in 1 .. N, NEW v \in Vnets, Receive(c, v)
    PROVE  QueueTypes' /\ Items' /\ Order'
<1>1. /\ 1 \in 1 .. Len(OnIn(c, v)) /\ OnIn(c, v)[1] \in Letters
      /\ QueueTypes' /\ sent' = sent
      /\ Len(OnIn(c, v)') \in Nat /\ Without(OnIn(c, v)', OnIn(c, v), 1)
      /\ \A x \in 1 .. N, w \in Vnets : ~(x = c /\ w = v) => OnIn(x, w)' = OnIn(x, w)
      /\ out' = out /\ links' = links
  BY ReceiveEffect
<1>2. UNCHANGED setupVars /\ sent <= sent'
  BY <1>1 DEF Receive, QueueTypes
<1>3. PICK m \in Letters : m = OnIn(c, v)[1]
  BY <1>1
<1>4. OutBelongs(m, {}) /\ LinkBelongs(m, {}) /\ InBelongs(m, {})
  BY DEF OutBelongs, LinkBelongs, InBelongs
<1>5. Moves(m, {}, {}, {})
  <2>1. ASSUME NEW x \in 1 .. N, NEW w \in Vnets
        PROVE  Drawn(OnOut(x, w)', OnOut(x, w), Put(m, {}, <<x, w>>))
    <3>1. Put(m, {}, <<x, w>>) = {} /\ OnOut(x, w)' = OnOut(x, w)
      BY <1>1, PutIs DEF OnOut
    <3> QED
      BY <3>1, DrawnSame
  <2>2. ASSUME NEW s \in 1 .. N, NEW d \in 1 .. N, NEW w \in Vnets
        PROVE  Drawn(OnLink(s, d, w)', OnLink(s, d, w), Put(m, {}, <<<<s, d>>, w>>))
    <3>1. Put(m, {}, <<<<s, d>>, w>>) = {} /\ OnLink(s, d, w)' = OnLink(s, d, w)
      BY <1>1, PutIs DEF OnLink
    <3> QED
      BY <3>1, DrawnSame
  <2>3. ASSUME NEW x \in 1 .. N, NEW w \in Vnets
        PROVE  Drawn(OnIn(x, w)', OnIn(x, w), Put(m, {}, <<x, w>>))
    <3>1. Put(m, {}, <<x, w>>) = {}
      BY PutIs
    <3>2. CASE x = c /\ w = v
      <4>1. Drawn(OnIn(x, w)', OnIn(x, w), {})
        BY <1>1, <3>2, DrawnWithout
      <4> QED
        BY <3>1, <4>1
    <3>3. CASE ~(x = c /\ w = v)
      <4>1. OnIn(x, w)' = OnIn(x, w)
        BY <1>1, <3>3
      <4> QED
        BY <3>1, <4>1, DrawnSame
    <3> QED
      BY <3>2, <3>3
  <2> QED
    BY <2>1, <2>2, <2>3 DEF Moves
<1> QED
  BY <1>1, <1>2, <1>4, <1>5, NetStep

(* The end of setup(): all queues are there, and empty. *)
LEMMA StartKeeps ==
    ASSUME Inv, BoardInv, Empty, ConnectCPU, phase' = "running"
    PROVE  QueueTypes' /\ Items' /\ Order'
<1>1. /\ phase = "ports" /\ UNCHANGED <<config, controllers, routers, extLinks, intLinks, sent>>
      /\ out' = [b \in (1 .. N) \X Vnets |-> <<>>]
      /\ in' = [b \in (1 .. N) \X Vnets |-> <<>>]
      /\ links' = [l \in Linked \X Vnets |-> <<>>]
  BY DEF ConnectCPU
<1>2. N \in Nat /\ Linked = Joined
  <2>1. config.cpus \in Nat \ {0}
    BY BoundsAssumption DEF Inv, Configs
  <2>2. N \in Nat
    BY <2>1 DEF N
  <2>3. Linked = Pairs /\ Len(routers) = N
    BY <1>1 DEF BoardInv, AfterIntLinks, AfterRouters
  <2>4. DOMAIN routers = 1 .. N
    BY <2>2, <2>3 DEF BoardInv
  <2> QED
    BY <2>2, <2>3, <2>4 DEF Pairs, Joined
<1>3. N' = N /\ Vnets' = Vnets
  BY <1>1 DEF N, Vnets, System
<1>4. Boxes' = Boxes /\ Joined' = Joined
  BY <1>3 DEF Boxes, Joined
<1>5. <<>> \in Seq(Letters) /\ Len(<<>>) = 0
  OBVIOUS
<1>6. QueueTypes'
  <2>1. out' \in [Boxes -> Seq(Letters)] /\ in' \in [Boxes -> Seq(Letters)]
    BY <1>1, <1>5 DEF Boxes
  <2>2. links' \in [Joined \X Vnets -> Seq(Letters)]
    BY <1>1, <1>2, <1>5
  <2> QED
    BY <1>1, <1>4, <1>3, <2>1, <2>2, BoundsAssumption DEF QueueTypes, Empty
<1>7. ASSUME NEW c \in 1 .. N, NEW v \in Vnets PROVE OnOut(c, v)' = <<>> /\ OnIn(c, v)' = <<>>
  <2>1. <<c, v>> \in (1 .. N) \X Vnets
    OBVIOUS
  <2> QED
    BY <1>1, <2>1 DEF OnOut, OnIn
<1>8. ASSUME NEW s \in 1 .. N, NEW d \in 1 .. N, NEW v \in Vnets, s # d PROVE OnLink(s, d, v)' = <<>>
  <2>1. <<<<s, d>>, v>> \in Linked \X Vnets
    BY <1>2, <1>8 DEF Joined
  <2> QED
    BY <1>1, <2>1 DEF OnLink
<1>9. Items'
  BY <1>3, <1>5, <1>7, <1>8 DEF Items, OutItems, LinkItems, InItems
<1>10. Order'
  BY <1>3, <1>5, <1>7, <1>8 DEF Order, OutOrder, LinkOrder, InOrder, LinkBeforeOut, InBeforeLink, InBeforeOut
<1> QED
  BY <1>6, <1>9, <1>10


(* The invariant holds from the start to the end of setup(), and after it. *)
LEMMA StepNet == ASSUME Inv, BoardInv, NetInv, [Next]_vars PROVE NetInv'
<1>1. CASE UNCHANGED vars
  <2>1. UNCHANGED setupVars /\ out' = out /\ links' = links /\ in' = in /\ sent' = sent /\ phase' = phase
    BY <1>1 DEF vars, setupVars
  <2>2. CASE phase = "running"
    <3>1. QueueTypes /\ Items /\ Order
      BY <2>2 DEF NetInv
    <3>2. /\ N' = N /\ Vnets' = Vnets /\ OrderedPairs' = OrderedPairs
          /\ Boxes' = Boxes /\ Joined' = Joined
          /\ \A c, v : (Sends(c, v)' <=> Sends(c, v)) /\ (Receives(c, v)' <=> Receives(c, v))
      BY <2>1, SameNetwork
    <3>3. QueueTypes'
      BY <2>1, <3>1, <3>2 DEF QueueTypes
    <3>4. PICK m \in Letters : m = [num |-> 0, src |-> 0, dests |-> {}]
      BY DEF Letters
    <3>5. OutBelongs(m, {}) /\ LinkBelongs(m, {}) /\ InBelongs(m, {})
      BY DEF OutBelongs, LinkBelongs, InBelongs
    <3>6. Moves(m, {}, {}, {})
      <4>1. \A place : Put(m, {}, place) = {}
        BY PutIs
      <4>2. \A c, v : OnOut(c, v)' = OnOut(c, v) /\ OnIn(c, v)' = OnIn(c, v)
        BY <2>1 DEF OnOut, OnIn
      <4>3. \A s, d, v : OnLink(s, d, v)' = OnLink(s, d, v)
        BY <2>1 DEF OnLink
      <4> QED
        BY <4>1, <4>2, <4>3, DrawnSame DEF Moves
    <3>7. sent <= sent'
      BY <2>1, <3>1 DEF QueueTypes
    <3>8. Items' /\ Order'
      BY <2>1, <3>1, <3>3, <3>5, <3>6, <3>7, NetStep
    <3> QED
      BY <2>1, <2>2, <3>3, <3>8 DEF NetInv
  <2>3. CASE phase # "running"
    BY <2>1, <2>3 DEF NetInv, Empty
  <2> QED
    BY <2>2, <2>3
<1>2. CASE Setup
  <2>1. CASE ConnectCPU /\ phase' = "running"
    <3>1. Empty
      BY <2>1 DEF ConnectCPU, NetInv
    <3> QED
      BY <2>1, <3>1, StartKeeps DEF NetInv
  <2>2. CASE ~(ConnectCPU /\ phase' = "running")
    <3>1. phase # "running" /\ phase' # "running" /\ UNCHANGED <<out, links, in, sent>>
      <4>1. CASE Construct
        BY <4>1 DEF Construct
      <4>2. ASSUME NEW class \in {"L1Cache", "DirController"}, CreateController(class)
            PROVE  phase # "running" /\ phase' # "running" /\ UNCHANGED <<out, links, in, sent>>
        BY <4>2 DEF CreateController, InPhase
      <4>3. CASE CreateSequencer \/ AttachSequencer \/ CreateRouter \/ CreateExtLink \/ CreateIntLink
        BY <4>3 DEF CreateSequencer, AttachSequencer, CreateRouter, CreateExtLink, CreateIntLink, InPhase
      <4>4. CASE ConnectCPU
        BY <2>2, <4>4 DEF ConnectCPU
      <4> QED
        BY <1>2, <4>1, <4>2, <4>3, <4>4 DEF Setup
    <3> QED
      BY <3>1 DEF NetInv, Empty
  <2> QED
    BY <2>1, <2>2
<1>3. CASE ~Setup /\ ~UNCHANGED vars
  <2>1. \/ \E c \in 1 .. N, v \in Vnets :
              \/ \E dests \in SUBSET (1 .. N) : Enqueue(c, v, dests)
              \/ Route(c, v)
              \/ Receive(c, v)
        \/ \E p \in Linked, v \in Vnets : Deliver(p, v)
    BY <1>3 DEF Next
  <2>2. phase = "running" /\ UNCHANGED setupVars
    BY <1>3, <2>1, AfterSetup DEF Enqueue, Route, Receive, Deliver
  <2>3. phase' = "running" /\ QueueTypes /\ Items /\ Order /\ N \in Nat
    BY <2>2, Built DEF NetInv, setupVars
  <2>4. QueueTypes' /\ Items' /\ Order'
    BY <2>1, <2>2, <2>3, EnqueueKeeps, RouteKeeps, ReceiveKeeps, DeliverKeeps
  <2> QED
    BY <2>3, <2>4 DEF NetInv
<1> QED
  BY <1>1, <1>2, <1>3

(* The counters of versionCount() count no more than the controllers. *)
VersionInv == version \in [{"L1Cache", "DirController"} -> 0 .. N]

(* Every counter stays within the number of controllers. *)
LEMMA StepVersion == ASSUME Inv, VersionInv, [Next]_vars PROVE VersionInv'
<1>1. config.cpus \in Nat \ {0} /\ N = config.cpus + 1 /\ N \in Nat
  <2>1. config.cpus \in Nat \ {0}
    BY BoundsAssumption DEF Inv, Configs
  <2> QED
    BY <2>1 DEF N
<1>2. config' = config /\ (version' = version \/ \E class \in {"L1Cache", "DirController"} : CreateController(class))
  <2>1. CASE Setup
    BY <2>1 DEF Setup, Construct, CreateSequencer, AttachSequencer, CreateController, CreateRouter,
                CreateExtLink, CreateIntLink, ConnectCPU, InPhase
  <2>2. CASE ~Setup
    BY <2>2, AfterSetup DEF setupVars
  <2> QED
    BY <2>1, <2>2
<1>3. N' = N
  BY <1>2 DEF N
<1>4. ASSUME NEW class \in {"L1Cache", "DirController"}, CreateController(class) PROVE VersionInv'
  <2>1. /\ class = IF Len(controllers) < config.cpus THEN "L1Cache" ELSE "DirController"
        /\ version' = [version EXCEPT ![class] = version[class] + 1] /\ phase = "controllers"
    BY <1>4 DEF CreateController, InPhase
  <2>2. Len(controllers) \in Nat /\ version["L1Cache"] = Len(controllers) /\ version["DirController"] = 0
    BY <2>1 DEF Inv, ControllersInv, AfterControllers, AfterSequencers, AfterAttach
  <2>3. version[class] + 1 \in 0 .. N
    BY <1>1, <2>1, <2>2
  <2> QED
    BY <1>3, <2>1, <2>3 DEF VersionInv
<1> QED
  BY <1>2, <1>3, <1>4 DEF VersionInv

(* All that is known of the system, before and after setup(). *)
SystemInv == Inv /\ BoardInv /\ VersionInv /\ NetInv

(* It holds at the start, is kept by every step, and so always holds. *)
LEMMA InitSystem == ASSUME Init PROVE SystemInv
<1>1. NetInv
  BY DEF Init, NetInv, Empty
<1>2. VersionInv
  <2>1. config.cpus \in Nat
    BY BoundsAssumption DEF Init, Configs
  <2> QED
    BY <2>1 DEF Init, VersionInv, N
<1> QED
  BY <1>1, <1>2, InitInv, InitBoard DEF SystemInv

LEMMA StepSystem == ASSUME SystemInv, [Next]_vars PROVE SystemInv'
  BY StepInv, StepBoard, StepVersion, StepNet DEF SystemInv

LEMMA SystemInvariant == Spec => []SystemInv
<1>1. Init => SystemInv
  BY InitSystem
<1>2. SystemInv /\ [Next]_vars => SystemInv'
  BY StepSystem
<1> QED
  BY <1>1, <1>2, PTL DEF Spec

(* A message is where it may be. *)
LEMMA LetterIsMessage ==
    ASSUME QueueTypes, NEW m \in Letters, m.num \in 1 .. sent, m.src \in 1 .. N, m.dests \subseteq 1 .. N
    PROVE  m \in Messages
<1>1. m.num \in 1 .. MaxMessages
  BY BoundsAssumption DEF QueueTypes
<1> QED
  BY <1>1 DEF Letters, Messages

(* Each conjunct of TypeOK from the part of the invariant it is about. *)
LEMMA SystemInvImpliesTypeOK == ASSUME SystemInv PROVE TypeOK
<1>1. /\ config \in Configs /\ phase \in Phases /\ ControllersInv /\ SequencersInv /\ NetInv /\ VersionInv
  BY DEF SystemInv, Inv
<1>2. config.cpus \in Nat \ {0} /\ N \in Nat /\ N = config.cpus + 1
  <2>1. config.cpus \in Nat \ {0}
    BY <1>1, BoundsAssumption DEF Configs
  <2> QED
    BY <2>1 DEF N
<1>3. \A s \in ToSet(sequencers) : s.cache \in 1 .. config.cpus
  <2>1. Len(sequencers) <= config.cpus /\ Len(sequencers) \in Nat /\ DOMAIN sequencers = 1 .. Len(sequencers)
    BY <1>1, <1>2 DEF SequencersInv
  <2> SUFFICES ASSUME NEW i \in 1 .. Len(sequencers) PROVE sequencers[i].cache \in 1 .. config.cpus
    BY <2>1 DEF ToSet
  <2>2. sequencers[i] = [version |-> i - 1, cache |-> i]
    BY <1>1, <2>1 DEF SequencersInv, Sequencer
  <2> QED
    BY <1>2, <2>1, <2>2
<1>4. sent \in 0 .. MaxMessages
  BY <1>1, BoundsAssumption DEF NetInv, Empty, QueueTypes
<1> DEFINE OutOK  == \A b \in DOMAIN out : ToSet(out[b]) \subseteq {m \in Messages : m.src = b[1]}
           LinkOK == \A l \in DOMAIN links :
                        ToSet(links[l]) \subseteq {m \in Messages : m.src = l[1][1] /\ l[1][2] \in m.dests}
           InOK   == \A b \in DOMAIN in : /\ ToSet(in[b]) \subseteq {m \in Messages : b[1] \in m.dests}
                                          /\ in[b] # <<>> => Receives(b[1], b[2])
<1>5. CASE phase = "running"
  <2>1. QueueTypes /\ Items
    BY <1>1, <1>5 DEF NetInv
  <2>2. DOMAIN out = Boxes /\ DOMAIN in = Boxes /\ DOMAIN links = Joined \X Vnets
    BY <2>1 DEF QueueTypes
  <2>3. OutOK
    <3> SUFFICES ASSUME NEW c \in 1 .. N, NEW v \in Vnets, NEW m \in ToSet(OnOut(c, v))
                 PROVE  m \in Messages /\ m.src = c
      BY <2>2 DEF Boxes, OnOut
    <3>1. OnOut(c, v) \in Seq(Letters)
      BY <2>1, QueuesAre
    <3>2. PICK i \in 1 .. Len(OnOut(c, v)) : m = OnOut(c, v)[i]
      BY <3>1 DEF ToSet
    <3>3. OutItem(c, v, m, sent) /\ m \in Letters
      BY <2>1, <3>1, <3>2 DEF Items, OutItems
    <3>4. m.num \in 1 .. sent /\ m.src = c /\ m.dests \subseteq 1 .. N
      BY <3>3 DEF OutItem
    <3> QED
      BY <2>1, <3>3, <3>4, LetterIsMessage
  <2>4. LinkOK
    <3> SUFFICES ASSUME NEW s \in 1 .. N, NEW d \in 1 .. N, s # d, NEW v \in Vnets, NEW m \in ToSet(OnLink(s, d, v))
                 PROVE  m \in Messages /\ m.src = s /\ d \in m.dests
      BY <2>2 DEF Joined, OnLink
    <3>1. OnLink(s, d, v) \in Seq(Letters)
      BY <2>1, QueuesAre
    <3>2. PICK i \in 1 .. Len(OnLink(s, d, v)) : m = OnLink(s, d, v)[i]
      BY <3>1 DEF ToSet
    <3>3. LinkItem(s, d, v, m, sent) /\ m \in Letters
      BY <2>1, <3>1, <3>2 DEF Items, LinkItems
    <3>4. m.num \in 1 .. sent /\ m.src = s /\ m.dests \subseteq 1 .. N /\ d \in m.dests
      BY <3>3 DEF LinkItem
    <3> QED
      BY <2>1, <3>3, <3>4, LetterIsMessage
  <2>5. InOK
    <3> SUFFICES ASSUME NEW d \in 1 .. N, NEW v \in Vnets
                 PROVE  /\ \A m \in ToSet(OnIn(d, v)) : m \in Messages /\ d \in m.dests
                        /\ OnIn(d, v) # <<>> => Receives(d, v)
      BY <2>2 DEF Boxes, OnIn
    <3>1. OnIn(d, v) \in Seq(Letters)
      BY <2>1, QueuesAre
    <3>2. ASSUME NEW m \in ToSet(OnIn(d, v)) PROVE m \in Messages /\ d \in m.dests
      <4>1. PICK i \in 1 .. Len(OnIn(d, v)) : m = OnIn(d, v)[i]
        BY <3>1 DEF ToSet
      <4>2. InItem(d, v, m, sent) /\ m \in Letters
        BY <2>1, <3>1, <4>1 DEF Items, InItems
      <4>3. m.num \in 1 .. sent /\ m.src \in 1 .. N /\ m.dests \subseteq 1 .. N /\ d \in m.dests
        BY <4>2 DEF InItem
      <4> QED
        BY <2>1, <4>2, <4>3, LetterIsMessage
    <3>3. ASSUME OnIn(d, v) # <<>> PROVE Receives(d, v)
      <4>1. 1 \in 1 .. Len(OnIn(d, v))
        BY <3>1, <3>3
      <4>2. InItem(d, v, OnIn(d, v)[1], sent)
        BY <2>1, <4>1 DEF Items, InItems
      <4> QED
        BY <4>2 DEF InItem
    <3> QED
      BY <3>2, <3>3
  <2> QED
    BY <1>1, <1>3, <1>4, <2>3, <2>4, <2>5
       DEF TypeOK, VersionInv, Phases, AfterControllers, AfterSequencers, AfterAttach
<1>6. CASE phase # "running"
  <2>1. OutOK /\ LinkOK /\ InOK
    BY <1>1, <1>6 DEF NetInv, Empty
  <2> QED
    BY <1>1, <1>3, <1>4, <2>1
       DEF TypeOK, VersionInv, Phases, AfterControllers, AfterSequencers, AfterAttach
<1> QED
  BY <1>5, <1>6

(* However large the system and however many messages: a message is only   *)
(* in the buffer of its sender, on a link to one of its destinations, or   *)
(* in a buffer that one of its destinations has and reads.                 *)
THEOREM TypeCorrect == Spec => []TypeOK
<1>1. SystemInv => TypeOK
  BY SystemInvImpliesTypeOK
<1> QED
  BY <1>1, SystemInvariant, PTL
---------------------------------------------------------------------------
(* The network implements PairChannels.  Travelling, read from the queues, *)
(* has a record for each number that is in flight from s to d on v.        *)
Numbered(n) == {m \in Letters : m.num = n}
Bound(d, n) == {m \in Letters : d \in m.dests /\ m.num = n}
Sent(s, n)  == {m \in Letters : m.src = s /\ m.num = n}

Holds(q, S) == \E i \in 1 .. Len(q) : q[i] \in S

InFlight(s, d, v, n) ==
    \/ Holds(OnOut(s, v), Bound(d, n))
    \/ s # d /\ Holds(OnLink(s, d, v), Numbered(n))
    \/ Holds(OnIn(d, v), Sent(s, n))

Copies == [num : Nat, src : 1 .. N, dst : 1 .. N, vnet : Vnets]
Copy(m, d, v) == [num |-> m.num, src |-> m.src, dst |-> d, vnet |-> v]

(* Read message by message, Travelling is what is in flight. *)
LEMMA TravellingIs ==
    ASSUME QueueTypes, Items
    PROVE  Travelling = {x \in Copies : InFlight(x.src, x.dst, x.vnet, x.num)}
<1> DEFINE A == UNION {UNION {{Copy(m, d, b[2]) : d \in m.dests} : m \in ToSet(out[b])} : b \in DOMAIN out}
           B == UNION {{Copy(m, l[1][2], l[2]) : m \in ToSet(links[l])} : l \in DOMAIN links}
           C == UNION {{Copy(m, b[1], b[2]) : m \in ToSet(in[b])} : b \in DOMAIN in}
<1>1. Travelling = A \cup B \cup C
  BY DEF Travelling, Copy
<1>2. DOMAIN out = Boxes /\ DOMAIN in = Boxes /\ DOMAIN links = Joined \X Vnets
  BY DEF QueueTypes
<1>3. ASSUME NEW b \in Boxes
       PROVE  b[1] \in 1 .. N /\ b[2] \in Vnets /\ OnOut(b[1], b[2]) = out[b] /\ OnIn(b[1], b[2]) = in[b]
  <2>1. PICK c \in 1 .. N, v \in Vnets : b = <<c, v>>
    BY DEF Boxes
  <2>2. b[1] = c /\ b[2] = v
    BY <2>1
  <2> QED
    BY <2>1, <2>2 DEF OnOut, OnIn
<1>4. ASSUME NEW c \in 1 .. N, NEW v \in Vnets PROVE <<c, v>> \in Boxes
  BY DEF Boxes
<1>5. ASSUME NEW l \in Joined \X Vnets
       PROVE  /\ l[1][1] \in 1 .. N /\ l[1][2] \in 1 .. N /\ l[1][1] # l[1][2] /\ l[2] \in Vnets
              /\ OnLink(l[1][1], l[1][2], l[2]) = links[l]
  <2>1. PICK s \in 1 .. N, d \in 1 .. N, v \in Vnets : l = <<<<s, d>>, v>> /\ s # d
    BY DEF Joined
  <2>2. l[1][1] = s /\ l[1][2] = d /\ l[2] = v
    BY <2>1
  <2> QED
    BY <2>1, <2>2 DEF OnLink
<1>6. ASSUME NEW s \in 1 .. N, NEW d \in 1 .. N, s # d, NEW v \in Vnets PROVE <<<<s, d>>, v>> \in Joined \X Vnets
  BY <1>6 DEF Joined
<1>7. ASSUME NEW x
      PROVE  x \in A <=> \E c \in 1 .. N, v \in Vnets : \E i \in 1 .. Len(OnOut(c, v)) :
                            \E d \in OnOut(c, v)[i].dests : x = Copy(OnOut(c, v)[i], d, v)
  <2>1. x \in A <=> \E c \in 1 .. N, v \in Vnets : \E m \in ToSet(OnOut(c, v)) :
                       \E d \in m.dests : x = Copy(m, d, v)
    <3>1. x \in A <=> \E b \in DOMAIN out : \E m \in ToSet(out[b]) : \E d \in m.dests : x = Copy(m, d, b[2])
      OBVIOUS
    <3> HIDE DEF A, B, C
    <3>2. ASSUME NEW c \in 1 .. N, NEW v \in Vnets, NEW m \in ToSet(OnOut(c, v)), NEW d \in m.dests, x = Copy(m, d, v)
          PROVE  x \in A
      <4>1. <<c, v>> \in DOMAIN out /\ <<c, v>>[2] = v /\ out[<<c, v>>] = OnOut(c, v)
        BY <1>2, <1>4 DEF OnOut
      <4> QED
        BY <3>1, <3>2, <4>1
    <3> QED
      BY <1>2, <1>3, <3>1, <3>2
  <2>2. \A c \in 1 .. N, v \in Vnets : ToSet(OnOut(c, v)) = {OnOut(c, v)[i] : i \in 1 .. Len(OnOut(c, v))}
    BY QueuesAre DEF ToSet
  <2> QED
    BY <2>1, <2>2
<1>8. ASSUME NEW x
      PROVE  x \in B <=> \E s, d \in 1 .. N, v \in Vnets : s # d /\ \E i \in 1 .. Len(OnLink(s, d, v)) :
                            x = Copy(OnLink(s, d, v)[i], d, v)
  <2>1. x \in B <=> \E s, d \in 1 .. N, v \in Vnets : s # d /\ \E m \in ToSet(OnLink(s, d, v)) :
                       x = Copy(m, d, v)
    <3>1. x \in B <=> \E l \in DOMAIN links : \E m \in ToSet(links[l]) : x = Copy(m, l[1][2], l[2])
      OBVIOUS
    <3> HIDE DEF A, B, C
    <3>2. ASSUME NEW s \in 1 .. N, NEW d \in 1 .. N, s # d, NEW v \in Vnets, NEW m \in ToSet(OnLink(s, d, v)),
                 x = Copy(m, d, v)
          PROVE  x \in B
      <4> DEFINE l == <<<<s, d>>, v>>
      <4>1. l \in DOMAIN links
        BY <1>2, <1>6, <3>2
      <4>2. l[1][2] = d /\ l[2] = v /\ links[l] = OnLink(s, d, v)
        BY DEF OnLink
      <4> HIDE DEF l
      <4> QED
        BY <3>1, <3>2, <4>1, <4>2
    <3> QED
      BY <1>2, <1>5, <3>1, <3>2
  <2>2. \A s, d \in 1 .. N, v \in Vnets : s # d =>
           ToSet(OnLink(s, d, v)) = {OnLink(s, d, v)[i] : i \in 1 .. Len(OnLink(s, d, v))}
    BY QueuesAre DEF ToSet
  <2> QED
    BY <2>1, <2>2
<1>9. ASSUME NEW x
      PROVE  x \in C <=> \E d \in 1 .. N, v \in Vnets : \E i \in 1 .. Len(OnIn(d, v)) :
                            x = Copy(OnIn(d, v)[i], d, v)
  <2>1. x \in C <=> \E d \in 1 .. N, v \in Vnets : \E m \in ToSet(OnIn(d, v)) : x = Copy(m, d, v)
    <3>1. x \in C <=> \E b \in DOMAIN in : \E m \in ToSet(in[b]) : x = Copy(m, b[1], b[2])
      OBVIOUS
    <3> HIDE DEF A, B, C
    <3>2. ASSUME NEW d \in 1 .. N, NEW v \in Vnets, NEW m \in ToSet(OnIn(d, v)), x = Copy(m, d, v)
          PROVE  x \in C
      <4>1. <<d, v>> \in DOMAIN in /\ <<d, v>>[1] = d /\ <<d, v>>[2] = v /\ in[<<d, v>>] = OnIn(d, v)
        BY <1>2, <1>4 DEF OnIn
      <4> QED
        BY <3>1, <3>2, <4>1
    <3> QED
      BY <1>2, <1>3, <3>1, <3>2
  <2>2. \A d \in 1 .. N, v \in Vnets : ToSet(OnIn(d, v)) = {OnIn(d, v)[i] : i \in 1 .. Len(OnIn(d, v))}
    BY QueuesAre DEF ToSet
  <2> QED
    BY <2>1, <2>2
<1> HIDE DEF A, B, C
<1>10. ASSUME NEW x \in A PROVE x \in Copies /\ InFlight(x.src, x.dst, x.vnet, x.num)
  <2>1. PICK c \in 1 .. N, v \in Vnets : \E i \in 1 .. Len(OnOut(c, v)) :
                            \E d \in OnOut(c, v)[i].dests : x = Copy(OnOut(c, v)[i], d, v)
    BY <1>7
  <2>2. PICK i \in 1 .. Len(OnOut(c, v)) : \E d \in OnOut(c, v)[i].dests : x = Copy(OnOut(c, v)[i], d, v)
    BY <2>1
  <2>3. PICK d \in OnOut(c, v)[i].dests : x = Copy(OnOut(c, v)[i], d, v)
    BY <2>2
  <2>4. OutItem(c, v, OnOut(c, v)[i], sent)
    BY DEF Items, OutItems
  <2>5. OnOut(c, v)[i].num \in Nat /\ OnOut(c, v)[i].src = c /\ d \in 1 .. N /\ OnOut(c, v)[i] \in Letters
    BY <2>4, QueuesAre DEF OutItem
  <2>6. x = [num |-> OnOut(c, v)[i].num, src |-> c, dst |-> d, vnet |-> v]
    BY <2>3, <2>5 DEF Copy
  <2> QED
    BY <2>3, <2>5, <2>6 DEF Copies, InFlight, Holds, Bound
<1>11. ASSUME NEW x \in B PROVE x \in Copies /\ InFlight(x.src, x.dst, x.vnet, x.num)
  <2>1. PICK s \in 1 .. N, d \in 1 .. N, v \in Vnets : s # d /\ \E i \in 1 .. Len(OnLink(s, d, v)) :
                            x = Copy(OnLink(s, d, v)[i], d, v)
    BY <1>8
  <2>2. PICK i \in 1 .. Len(OnLink(s, d, v)) : x = Copy(OnLink(s, d, v)[i], d, v)
    BY <2>1
  <2>3. LinkItem(s, d, v, OnLink(s, d, v)[i], sent)
    BY <2>1 DEF Items, LinkItems
  <2>4. OnLink(s, d, v)[i].num \in Nat /\ OnLink(s, d, v)[i].src = s /\ OnLink(s, d, v)[i] \in Letters
    <3>1. OnLink(s, d, v) \in Seq(Letters)
      BY <2>1, QueuesAre
    <3> QED
      BY <2>3, <3>1 DEF LinkItem
  <2>5. x = [num |-> OnLink(s, d, v)[i].num, src |-> s, dst |-> d, vnet |-> v]
    BY <2>2, <2>4 DEF Copy
  <2> QED
    BY <2>1, <2>4, <2>5 DEF Copies, InFlight, Holds, Numbered
<1>12. ASSUME NEW x \in C PROVE x \in Copies /\ InFlight(x.src, x.dst, x.vnet, x.num)
  <2>1. PICK d \in 1 .. N, v \in Vnets : \E i \in 1 .. Len(OnIn(d, v)) : x = Copy(OnIn(d, v)[i], d, v)
    BY <1>9
  <2>2. PICK i \in 1 .. Len(OnIn(d, v)) : x = Copy(OnIn(d, v)[i], d, v)
    BY <2>1
  <2>3. InItem(d, v, OnIn(d, v)[i], sent)
    BY DEF Items, InItems
  <2>4. OnIn(d, v)[i].num \in Nat /\ OnIn(d, v)[i].src \in 1 .. N /\ OnIn(d, v)[i] \in Letters
    BY <2>3, QueuesAre DEF InItem
  <2>5. x = [num |-> OnIn(d, v)[i].num, src |-> OnIn(d, v)[i].src, dst |-> d, vnet |-> v]
    BY <2>2 DEF Copy
  <2> QED
    BY <2>4, <2>5 DEF Copies, InFlight, Holds, Sent
<1>13. ASSUME NEW x \in Copies, InFlight(x.src, x.dst, x.vnet, x.num) PROVE x \in A \cup B \cup C
  <2> DEFINE s == x.src
             d == x.dst
             v == x.vnet
  <2>1. s \in 1 .. N /\ d \in 1 .. N /\ v \in Vnets /\ x = [num |-> x.num, src |-> s, dst |-> d, vnet |-> v]
    BY DEF Copies
  <2> HIDE DEF s, d, v
  <2>2. ASSUME NEW i \in 1 .. Len(OnOut(s, v)), d \in OnOut(s, v)[i].dests, OnOut(s, v)[i].num = x.num
        PROVE  x \in A
    <3>1. OnOut(s, v)[i].src = s
      BY <2>1 DEF Items, OutItems, OutItem
    <3>2. x = Copy(OnOut(s, v)[i], d, v)
      BY <2>1, <2>2, <3>1 DEF Copy
    <3> QED
      BY <1>7, <2>1, <2>2, <3>2
  <2>3. ASSUME s # d, NEW i \in 1 .. Len(OnLink(s, d, v)), OnLink(s, d, v)[i].num = x.num
        PROVE  x \in B
    <3>1. OnLink(s, d, v)[i].src = s
      BY <2>1, <2>3 DEF Items, LinkItems, LinkItem
    <3>2. x = Copy(OnLink(s, d, v)[i], d, v)
      BY <2>1, <2>3, <3>1 DEF Copy
    <3> QED
      BY <1>8, <2>1, <2>3, <3>2
  <2>4. ASSUME NEW i \in 1 .. Len(OnIn(d, v)), OnIn(d, v)[i].src = s, OnIn(d, v)[i].num = x.num
        PROVE  x \in C
    <3>1. x = Copy(OnIn(d, v)[i], d, v)
      BY <2>1, <2>4 DEF Copy
    <3> QED
      BY <1>9, <2>1, <3>1
  <2>5. InFlight(s, d, v, x.num)
    BY <1>13 DEF s, d, v
  <2> QED
    BY <2>2, <2>3, <2>4, <2>5 DEF InFlight, Holds, Bound, Numbered, Sent
<1> QED
  BY <1>1, <1>10, <1>11, <1>12, <1>13

(* Taking one message from a queue leaves all others there. *)
LEMMA WithoutOthers ==
    ASSUME NEW q, NEW r, Len(q) \in Nat, NEW k \in 1 .. Len(q), Without(r, q, k),
           NEW a \in 1 .. Len(q), a # k
    PROVE  \E i \in 1 .. Len(r) : r[i] = q[a]
<1>1. CASE a < k
  <2>1. a \in 1 .. Len(r) /\ Skip(k, a) = a
    BY <1>1 DEF Without, Skip
  <2> QED
    BY <2>1 DEF Without
<1>2. CASE ~(a < k)
  <2>1. a - 1 \in 1 .. Len(r) /\ Skip(k, a - 1) = a
    BY <1>2 DEF Without, Skip
  <2> QED
    BY <2>1 DEF Without
<1> QED
  BY <1>1, <1>2

(* What a queue holds after one is taken, and after one is put. *)
LEMMA WithoutHolds ==
    ASSUME NEW q, NEW r, Len(q) \in Nat, NEW k \in 1 .. Len(q), Without(r, q, k), NEW S
    PROVE  Holds(q, S) <=> (q[k] \in S \/ Holds(r, S))
<1>1. \A i \in 1 .. Len(r) : Skip(k, i) \in 1 .. Len(q) /\ r[i] = q[Skip(k, i)]
  BY DEF Without
<1>2. \A a \in 1 .. Len(q) : a # k => \E i \in 1 .. Len(r) : r[i] = q[a]
  BY WithoutOthers
<1> QED
  BY <1>1, <1>2 DEF Holds

LEMMA AppendHolds ==
    ASSUME NEW q \in Seq(Letters), NEW m \in Letters, NEW S
    PROVE  Holds(Append(q, m), S) <=> (m \in S \/ Holds(q, S))
<1>1. /\ Len(q) \in Nat /\ Len(Append(q, m)) = Len(q) + 1 /\ Append(q, m)[Len(q) + 1] = m
      /\ \A i \in 1 .. Len(q) : Append(q, m)[i] = q[i]
  BY AppendFacts
<1>2. \A a \in 1 .. Len(q) + 1 : a \in 1 .. Len(q) \/ a = Len(q) + 1
  BY <1>1
<1>3. \A a \in 1 .. Len(q) : a \in 1 .. Len(q) + 1
  BY <1>1
<1>4. Len(q) + 1 \in 1 .. Len(q) + 1
  BY <1>1
<1> QED
  BY <1>1, <1>2, <1>3, <1>4 DEF Holds

(* What each step does to the numbers in flight: Enqueue adds one for each *)
(* destination, ...                                                        *)
LEMMA EnqueueFlight ==
    ASSUME QueueTypes, N \in Nat, NEW c \in 1 .. N, NEW v \in Vnets, NEW dests \in SUBSET (1 .. N),
           Enqueue(c, v, dests),
           NEW s \in 1 .. N, NEW d \in 1 .. N, NEW w \in Vnets, NEW n \in Nat
    PROVE  InFlight(s, d, w, n)' <=>
              InFlight(s, d, w, n) \/ (s = c /\ d \in dests /\ w = v /\ n = sent + 1)
<1>1. PICK m \in Letters :
         /\ m = [num |-> sent + 1, src |-> c, dests |-> dests]
         /\ QueueTypes' /\ sent' = sent + 1
         /\ \A x \in 1 .. N, y \in Vnets :
               OnOut(x, y)' = IF x = c /\ y = v THEN Append(OnOut(x, y), m) ELSE OnOut(x, y)
         /\ links' = links /\ in' = in
  BY EnqueueEffect
<1>2. OnLink(s, d, w)' = OnLink(s, d, w) /\ OnIn(d, w)' = OnIn(d, w)
  BY <1>1 DEF OnLink, OnIn
<1>3. m \in Bound(d, n) <=> d \in dests /\ n = sent + 1
  <2>1. m.dests = dests /\ m.num = sent + 1
    BY <1>1
  <2> QED
    BY <2>1 DEF Bound
<1>4. CASE s = c /\ w = v
  <2>1. Holds(OnOut(s, w)', Bound(d, n)) <=> (m \in Bound(d, n) \/ Holds(OnOut(s, w), Bound(d, n)))
    <3>1. OnOut(s, w)' = Append(OnOut(s, w), m) /\ OnOut(s, w) \in Seq(Letters)
      BY <1>1, <1>4, QueuesAre
    <3> QED
      BY <3>1, AppendHolds
  <2> QED
    BY <1>2, <1>3, <1>4, <2>1 DEF InFlight, Holds, Bound, Numbered, Sent
<1>5. CASE ~(s = c /\ w = v)
  <2>1. OnOut(s, w)' = OnOut(s, w)
    BY <1>1, <1>5
  <2> QED
    BY <1>2, <1>5, <2>1 DEF InFlight, Holds, Bound, Numbered, Sent
<1> QED
  BY <1>4, <1>5

(* ... routers and links move them, ... *)
LEMMA RouteFlight ==
    ASSUME Inv, BoardInv, phase = "running", QueueTypes, Items, NEW c \in 1 .. N, NEW v \in Vnets, Route(c, v),
           NEW s \in 1 .. N, NEW d \in 1 .. N, NEW w \in Vnets, NEW n \in Nat
    PROVE  InFlight(s, d, w, n)' <=> InFlight(s, d, w, n)
<1>1. PICK m \in Letters, k \in 1 .. Len(OnOut(c, v)) :
         /\ m = OnOut(c, v)[k] /\ (<<c, v>> \in OrderedPairs => k = 1)
         /\ QueueTypes' /\ sent' = sent
         /\ Len(OnOut(c, v)') \in Nat /\ Without(OnOut(c, v)', OnOut(c, v), k)
         /\ \A x \in 1 .. N, y \in Vnets : ~(x = c /\ y = v) => OnOut(x, y)' = OnOut(x, y)
         /\ \A x, z \in 1 .. N, y \in Vnets : x # z =>
               OnLink(x, z, y)' = IF x = c /\ z \in m.dests /\ y = v
                                  THEN Append(OnLink(x, z, y), m) ELSE OnLink(x, z, y)
         /\ in' = in
  BY RouteEffect
<1>2. OnIn(d, w)' = OnIn(d, w)
  BY <1>1 DEF OnIn
<1>3. m \in Bound(d, n) <=> d \in m.dests /\ m \in Numbered(n)
  BY DEF Bound, Numbered
<1>4. c \notin m.dests
  BY <1>1 DEF Items, OutItems, OutItem
<1>5. CASE s = c /\ w = v
  <2>1. Holds(OnOut(s, w), Bound(d, n)) <=> (m \in Bound(d, n) \/ Holds(OnOut(s, w)', Bound(d, n)))
    BY <1>1, <1>5, WithoutHolds, QueuesAre
  <2>2. CASE d \in m.dests
    <3>1. s # d /\ OnLink(s, d, w)' = Append(OnLink(s, d, w), m) /\ OnLink(s, d, w) \in Seq(Letters)
      BY <1>1, <1>4, <1>5, <2>2, QueuesAre
    <3>2. Holds(OnLink(s, d, w)', Numbered(n)) <=> (m \in Numbered(n) \/ Holds(OnLink(s, d, w), Numbered(n)))
      BY <3>1, AppendHolds
    <3> QED
      BY <1>2, <1>3, <2>1, <2>2, <3>1, <3>2 DEF InFlight, Holds, Bound, Numbered, Sent
  <2>3. CASE d \notin m.dests
    <3>1. s # d => OnLink(s, d, w)' = OnLink(s, d, w)
      BY <1>1, <2>3
    <3> QED
      BY <1>2, <1>3, <2>1, <2>3, <3>1 DEF InFlight, Holds, Bound, Numbered, Sent
  <2> QED
    BY <2>2, <2>3
<1>6. CASE ~(s = c /\ w = v)
  <2>1. OnOut(s, w)' = OnOut(s, w) /\ (s # d => OnLink(s, d, w)' = OnLink(s, d, w))
    BY <1>1, <1>6
  <2> QED
    BY <1>2, <2>1 DEF InFlight, Holds, Bound, Numbered, Sent
<1> QED
  BY <1>5, <1>6

(* The same of links. *)
LEMMA DeliverFlight ==
    ASSUME Inv, BoardInv, phase = "running", QueueTypes, Items, NEW p \in Linked, NEW v \in Vnets, Deliver(p, v),
           NEW s \in 1 .. N, NEW d \in 1 .. N, NEW w \in Vnets, NEW n \in Nat
    PROVE  InFlight(s, d, w, n)' <=> InFlight(s, d, w, n)
<1>1. PICK a \in 1 .. N, b \in 1 .. N, m \in Letters :
         /\ a # b /\ 1 \in 1 .. Len(OnLink(a, b, v)) /\ m = OnLink(a, b, v)[1]
         /\ QueueTypes' /\ sent' = sent
         /\ Len(OnLink(a, b, v)') \in Nat /\ Without(OnLink(a, b, v)', OnLink(a, b, v), 1)
         /\ \A x, y \in 1 .. N, z \in Vnets :
               x # y /\ ~(x = a /\ y = b /\ z = v) => OnLink(x, y, z)' = OnLink(x, y, z)
         /\ \A x \in 1 .. N, z \in Vnets :
               OnIn(x, z)' = IF x = b /\ z = v THEN Append(OnIn(x, z), m) ELSE OnIn(x, z)
         /\ out' = out
  BY DeliverEffect
<1>2. OnOut(s, w)' = OnOut(s, w)
  BY <1>1 DEF OnOut
<1>3. m.src = a
  BY <1>1 DEF Items, LinkItems, LinkItem
<1>4. m \in Sent(s, n) <=> s = a /\ m \in Numbered(n)
  BY <1>3 DEF Sent, Numbered
<1>5. CASE d = b /\ w = v
  <2>1. Holds(OnIn(d, w)', Sent(s, n)) <=> (m \in Sent(s, n) \/ Holds(OnIn(d, w), Sent(s, n)))
    <3>1. OnIn(d, w)' = Append(OnIn(d, w), m) /\ OnIn(d, w) \in Seq(Letters)
      BY <1>1, <1>5, QueuesAre
    <3> QED
      BY <3>1, AppendHolds
  <2>2. CASE s = a
    <3>1. Holds(OnLink(s, d, w), Numbered(n)) <=> (m \in Numbered(n) \/ Holds(OnLink(s, d, w)', Numbered(n)))
      BY <1>1, <1>5, <2>2, WithoutHolds, QueuesAre
    <3> QED
      BY <1>1, <1>2, <1>4, <1>5, <2>1, <2>2, <3>1 DEF InFlight, Holds, Bound, Numbered, Sent
  <2>3. CASE s # a
    <3>1. s # d => OnLink(s, d, w)' = OnLink(s, d, w)
      BY <1>1, <2>3
    <3> QED
      BY <1>2, <1>4, <2>1, <2>3, <3>1 DEF InFlight, Holds, Bound, Numbered, Sent
  <2> QED
    BY <2>2, <2>3
<1>6. CASE ~(d = b /\ w = v)
  <2>1. OnIn(d, w)' = OnIn(d, w) /\ (s # d => OnLink(s, d, w)' = OnLink(s, d, w))
    BY <1>1, <1>6
  <2> QED
    BY <1>2, <2>1 DEF InFlight, Holds, Bound, Numbered, Sent
<1> QED
  BY <1>5, <1>6

(* ... and Receive takes one, which was there once, and, on an ordered     *)
(* virtual network, the least.                                             *)
LEMMA ReceiveFlight ==
    ASSUME QueueTypes, Items, Order, NEW c \in 1 .. N, NEW v \in Vnets, Receive(c, v)
    PROVE  \E s \in 1 .. N : \E k \in Nat :
              /\ InFlight(s, c, v, k)
              /\ \A n \in Nat : <<s, v>> \in OrderedPairs /\ InFlight(s, c, v, n) => k <= n
              /\ \A x \in 1 .. N, d \in 1 .. N, w \in Vnets, n \in Nat :
                    InFlight(x, d, w, n)' <=> InFlight(x, d, w, n) /\ ~(x = s /\ d = c /\ w = v /\ n = k)
<1>1. /\ 1 \in 1 .. Len(OnIn(c, v)) /\ OnIn(c, v)[1] \in Letters
      /\ QueueTypes' /\ sent' = sent
      /\ Len(OnIn(c, v)') \in Nat /\ Without(OnIn(c, v)', OnIn(c, v), 1)
      /\ \A x \in 1 .. N, w \in Vnets : ~(x = c /\ w = v) => OnIn(x, w)' = OnIn(x, w)
      /\ out' = out /\ links' = links
  BY ReceiveEffect
<1>2. PICK m \in Letters : m = OnIn(c, v)[1]
  BY <1>1
<1>3. InItem(c, v, m, sent)
  BY <1>1, <1>2 DEF Items, InItems
<1>4. PICK s \in 1 .. N, k \in Nat : s = m.src /\ k = m.num /\ s # c
  BY <1>3 DEF InItem
<1>5. InFlight(s, c, v, k)
  BY <1>1, <1>2, <1>4 DEF InFlight, Holds, Sent
<1> DEFINE Later(n) == IF <<s, v>> \in OrderedPairs THEN k < n ELSE k # n
(* All others from s to c on v come after it. *)
<1>6. ASSUME NEW n \in Nat, Holds(OnOut(s, v), Bound(c, n)) PROVE Later(n)
  <2>1. PICK j \in 1 .. Len(OnOut(s, v)) : OnOut(s, v)[j] \in Bound(c, n)
    BY <1>6 DEF Holds
  <2>2. c \in OnOut(s, v)[j].dests /\ OnOut(s, v)[j].num = n
    BY <2>1 DEF Bound
  <2>3. Precedes(m, OnOut(s, v)[j], s, v)
    BY <1>1, <1>2, <1>4, <2>2 DEF Order, InBeforeOut
  <2> QED
    BY <1>4, <2>2, <2>3 DEF Precedes
<1>7. ASSUME NEW n \in Nat, Holds(OnLink(s, c, v), Numbered(n)) PROVE Later(n)
  <2>1. PICK j \in 1 .. Len(OnLink(s, c, v)) : OnLink(s, c, v)[j] \in Numbered(n)
    BY <1>7 DEF Holds
  <2>2. Precedes(m, OnLink(s, c, v)[j], s, v) /\ OnLink(s, c, v)[j].num = n
    BY <1>1, <1>2, <1>4, <2>1 DEF Order, InBeforeLink, Numbered
  <2> QED
    BY <1>4, <2>2 DEF Precedes
<1>8. ASSUME NEW n \in Nat, Holds(OnIn(c, v)', Sent(s, n)) PROVE Later(n)
  <2>1. PICK j \in 1 .. Len(OnIn(c, v)') : OnIn(c, v)'[j] \in Sent(s, n)
    BY <1>8 DEF Holds
  <2>2. Skip(1, j) \in 1 .. Len(OnIn(c, v)) /\ OnIn(c, v)'[j] = OnIn(c, v)[Skip(1, j)] /\ 1 < Skip(1, j)
    BY <1>1 DEF Without, Skip
  <2>3. OnIn(c, v)[Skip(1, j)].src = s /\ OnIn(c, v)[Skip(1, j)].num = n
    BY <2>1, <2>2 DEF Sent
  <2>4. Precedes(m, OnIn(c, v)[Skip(1, j)], s, v)
    BY <1>1, <1>2, <1>4, <2>2, <2>3 DEF Order, InOrder
  <2> QED
    BY <1>4, <2>3, <2>4 DEF Precedes
<1>9. ASSUME NEW n \in Nat
      PROVE  Holds(OnIn(c, v), Sent(s, n)) <=> (n = k \/ Holds(OnIn(c, v)', Sent(s, n)))
  <2>1. Holds(OnIn(c, v), Sent(s, n)) <=> (m \in Sent(s, n) \/ Holds(OnIn(c, v)', Sent(s, n)))
    BY <1>1, <1>2, WithoutHolds, QueuesAre
  <2> QED
    BY <1>4, <2>1 DEF Sent
<1>10. \A n \in Nat : InFlight(s, c, v, n) => n = k \/ Later(n)
  BY <1>6, <1>7, <1>8, <1>9 DEF InFlight
<1>11. ASSUME NEW x \in 1 .. N, NEW d \in 1 .. N, NEW w \in Vnets, NEW n \in Nat
       PROVE  InFlight(x, d, w, n)' <=> InFlight(x, d, w, n) /\ ~(x = s /\ d = c /\ w = v /\ n = k)
  <2>1. OnOut(x, w)' = OnOut(x, w) /\ OnLink(x, d, w)' = OnLink(x, d, w)
    BY <1>1 DEF OnOut, OnLink
  <2>2. CASE x = s /\ d = c /\ w = v
    <3>1. ~Later(k)
      OBVIOUS
    <3>2. InFlight(s, c, v, n)' <=> \/ Holds(OnOut(s, v), Bound(c, n))
                                    \/ Holds(OnLink(s, c, v), Numbered(n))
                                    \/ Holds(OnIn(c, v)', Sent(s, n))
      BY <1>4, <2>1, <2>2 DEF InFlight, Holds, Bound, Numbered, Sent
    <3>3. InFlight(s, c, v, n) <=> \/ Holds(OnOut(s, v), Bound(c, n))
                                   \/ Holds(OnLink(s, c, v), Numbered(n))
                                   \/ Holds(OnIn(c, v), Sent(s, n))
      BY <1>4 DEF InFlight
    <3>4. n = k => ~InFlight(s, c, v, n)'
      BY <1>6, <1>7, <1>8, <3>1, <3>2
    <3> QED
      BY <1>9, <2>2, <3>2, <3>3, <3>4
  <2>3. CASE d = c /\ w = v /\ x # s
    <3>1. Holds(OnIn(d, w), Sent(x, n)) <=> (m \in Sent(x, n) \/ Holds(OnIn(d, w)', Sent(x, n)))
      BY <1>1, <1>2, <2>3, WithoutHolds, QueuesAre
    <3>2. m \notin Sent(x, n)
      BY <1>4, <2>3 DEF Sent
    <3> QED
      BY <2>1, <2>3, <3>1, <3>2 DEF InFlight, Holds, Bound, Numbered, Sent
  <2>4. CASE ~(d = c /\ w = v)
    <3>1. OnIn(d, w)' = OnIn(d, w)
      BY <1>1, <2>4
    <3> QED
      BY <2>1, <2>4, <3>1 DEF InFlight, Holds, Bound, Numbered, Sent
  <2> QED
    BY <2>2, <2>3, <2>4
<1>12. \A n \in Nat : <<s, v>> \in OrderedPairs /\ InFlight(s, c, v, n) => k <= n
  BY <1>10
<1> HIDE DEF Later
<1> WITNESS s \in 1 .. N
<1> WITNESS k \in Nat
<1> QED
  BY <1>5, <1>11, <1>12

(* No queues, or empty ones: nothing travels. *)
AllEmpty ==
    /\ \A b \in DOMAIN out : out[b] = <<>>
    /\ \A l \in DOMAIN links : links[l] = <<>>
    /\ \A b \in DOMAIN in : in[b] = <<>>

LEMMA NoneTravelling == AllEmpty => Travelling = {}
<1> SUFFICES ASSUME AllEmpty PROVE Travelling = {}
  OBVIOUS
<1>1. ToSet(<<>>) = {}
  BY DEF ToSet
<1>2. /\ \A b \in DOMAIN out : ToSet(out[b]) = {}
      /\ \A l \in DOMAIN links : ToSet(links[l]) = {}
      /\ \A b \in DOMAIN in : ToSet(in[b]) = {}
  BY <1>1 DEF AllEmpty
<1> QED
  BY <1>2 DEF Travelling

OnTheWay == {x \in Copies : InFlight(x.src, x.dst, x.vnet, x.num)}

(* The same for the running system. *)
LEMMA TravellingRunning == NetInv /\ phase = "running" => Travelling = OnTheWay
  BY TravellingIs DEF NetInv, OnTheWay

(* setup() leaves nothing in the network. *)
LEMMA SetupStutters ==
    ASSUME SystemInv, Setup
    PROVE  OrderedPairs' = OrderedPairs /\ sent' = sent /\ Travelling' = Travelling
<1>1. config' = config /\ sent' = sent /\ phase # "running"
  BY DEF Setup, Construct, CreateController, CreateSequencer, AttachSequencer, CreateRouter,
         CreateExtLink, CreateIntLink, ConnectCPU, InPhase
<1>2. OrderedPairs' = OrderedPairs
  BY <1>1 DEF OrderedPairs, N, Vnets, System
<1>3. Empty
  BY <1>1 DEF SystemInv, NetInv
<1>4. Travelling = {}
  BY <1>3, NoneTravelling DEF Empty, AllEmpty
<1>5. \/ UNCHANGED <<out, links, in>>
      \/ /\ out' = [b \in (1 .. N) \X Vnets |-> <<>>]
         /\ in' = [b \in (1 .. N) \X Vnets |-> <<>>]
         /\ links' = [l \in Linked \X Vnets |-> <<>>]
  BY DEF Setup, Construct, CreateController, CreateSequencer, AttachSequencer, CreateRouter,
         CreateExtLink, CreateIntLink, ConnectCPU, InPhase
<1>6. AllEmpty'
  BY <1>3, <1>5 DEF Empty, AllEmpty
<1>7. (AllEmpty => Travelling = {})'
  BY NoneTravelling, PTL
<1> QED
  BY <1>1, <1>2, <1>4, <1>6, <1>7

(* What PairChannels sees of a message step. *)
LEMMA MessageStep ==
    ASSUME SystemInv, SystemInv', phase = "running", UNCHANGED setupVars
    PROVE  /\ N' = N /\ Vnets' = Vnets /\ OrderedPairs' = OrderedPairs /\ N \in Nat
           /\ Travelling = {x \in Copies : InFlight(x.src, x.dst, x.vnet, x.num)}
           /\ Travelling' = {x \in Copies : InFlight(x.src, x.dst, x.vnet, x.num)'}
           /\ QueueTypes /\ Items /\ Order /\ Inv /\ BoardInv
<1>1. N' = N /\ Vnets' = Vnets /\ OrderedPairs' = OrderedPairs
  BY SameNetwork
<1>2. N \in Nat
  BY Built DEF SystemInv
<1>3. Travelling = {x \in Copies : InFlight(x.src, x.dst, x.vnet, x.num)}
  BY TravellingRunning DEF SystemInv, OnTheWay
<1>4. (NetInv /\ phase = "running")'
  BY DEF SystemInv, setupVars
<1>5. (NetInv /\ phase = "running" => Travelling = OnTheWay)'
  BY TravellingRunning, PTL
<1>6. Copies' = Copies
  BY <1>1 DEF Copies
<1>7. QueueTypes /\ Items /\ Order /\ Inv /\ BoardInv
  BY DEF SystemInv, NetInv
<1> QED
  BY <1>1, <1>2, <1>3, <1>4, <1>5, <1>6, <1>7 DEF OnTheWay

(* Enqueue is Send. *)
LEMMA EnqueuePromise ==
    ASSUME SystemInv, SystemInv', NEW c \in 1 .. N, NEW v \in Vnets, NEW dests \in SUBSET (1 .. N), Enqueue(c, v, dests)
    PROVE  Promise!Send(c, dests, v)
<1>1. phase = "running" /\ UNCHANGED setupVars /\ sent' = sent + 1
  BY DEF Enqueue
<1>2. /\ OrderedPairs' = OrderedPairs /\ N \in Nat
      /\ Travelling = {x \in Copies : InFlight(x.src, x.dst, x.vnet, x.num)}
      /\ Travelling' = {x \in Copies : InFlight(x.src, x.dst, x.vnet, x.num)'}
      /\ QueueTypes
  BY <1>1, MessageStep
<1>3. \A x \in Copies : InFlight(x.src, x.dst, x.vnet, x.num)' <=>
         \/ InFlight(x.src, x.dst, x.vnet, x.num)
         \/ x.src = c /\ x.dst \in dests /\ x.vnet = v /\ x.num = sent + 1
  BY <1>2, EnqueueFlight DEF Copies
<1> DEFINE New == [num : {sent + 1}, src : {c}, dst : dests, vnet : {v}]
<1>4. \A x : x \in New <=> x \in Copies /\ x.src = c /\ x.dst \in dests /\ x.vnet = v /\ x.num = sent + 1
  <2>1. sent + 1 \in Nat /\ dests \subseteq 1 .. N
    BY <1>2 DEF QueueTypes
  <2>2. \A x \in New : x \in Copies /\ x.src = c /\ x.dst \in dests /\ x.vnet = v /\ x.num = sent + 1
    BY <2>1 DEF Copies
  <2>3. \A x \in Copies : x.src = c /\ x.dst \in dests /\ x.vnet = v /\ x.num = sent + 1 => x \in New
    BY DEF Copies
  <2> HIDE DEF New
  <2> QED
    BY <2>2, <2>3
<1> HIDE DEF New
<1>5. Travelling' = Travelling \cup New
  BY <1>2, <1>3, <1>4
<1> QED
  BY <1>1, <1>2, <1>5 DEF Promise!Send, New

(* Routers and links do nothing that PairChannels sees. *)
LEMMA MoveStutters ==
    ASSUME SystemInv, SystemInv', NEW v \in Vnets,
           (\E c \in 1 .. N : Route(c, v)) \/ (\E p \in Linked : Deliver(p, v))
    PROVE  OrderedPairs' = OrderedPairs /\ sent' = sent /\ Travelling' = Travelling
<1>1. phase = "running" /\ UNCHANGED setupVars /\ sent' = sent
  BY DEF Route, Deliver
<1>2. /\ OrderedPairs' = OrderedPairs
      /\ Travelling = {x \in Copies : InFlight(x.src, x.dst, x.vnet, x.num)}
      /\ Travelling' = {x \in Copies : InFlight(x.src, x.dst, x.vnet, x.num)'}
      /\ QueueTypes /\ Items /\ Inv /\ BoardInv
  BY <1>1, MessageStep
<1>3. ASSUME NEW x \in Copies
      PROVE  InFlight(x.src, x.dst, x.vnet, x.num)' <=> InFlight(x.src, x.dst, x.vnet, x.num)
  BY <1>1, <1>2, RouteFlight, DeliverFlight DEF Copies
<1> QED
  BY <1>1, <1>2, <1>3

(* Receive is the arrival of one message. *)
LEMMA ReceivePromise ==
    ASSUME SystemInv, SystemInv', NEW c \in 1 .. N, NEW v \in Vnets, Receive(c, v)
    PROVE  \E m \in Travelling : Promise!Arrive(m)
<1>1. phase = "running" /\ UNCHANGED setupVars /\ sent' = sent
  BY DEF Receive
<1>2. /\ OrderedPairs' = OrderedPairs
      /\ Travelling = {x \in Copies : InFlight(x.src, x.dst, x.vnet, x.num)}
      /\ Travelling' = {x \in Copies : InFlight(x.src, x.dst, x.vnet, x.num)'}
      /\ QueueTypes /\ Items /\ Order
  BY <1>1, MessageStep
<1>3. PICK s \in 1 .. N, k \in Nat :
         /\ InFlight(s, c, v, k)
         /\ \A n \in Nat : <<s, v>> \in OrderedPairs /\ InFlight(s, c, v, n) => k <= n
         /\ \A x \in 1 .. N, d \in 1 .. N, w \in Vnets, n \in Nat :
               InFlight(x, d, w, n)' <=> InFlight(x, d, w, n) /\ ~(x = s /\ d = c /\ w = v /\ n = k)
  BY <1>2, ReceiveFlight
<1> DEFINE m == [num |-> k, src |-> s, dst |-> c, vnet |-> v]
<1>4. m \in Copies /\ m.num = k /\ m.src = s /\ m.dst = c /\ m.vnet = v
  BY DEF Copies
<1>5. \A x \in Copies : x = m <=> x.src = s /\ x.dst = c /\ x.vnet = v /\ x.num = k
  BY DEF Copies
<1> HIDE DEF m
<1>6. m \in Travelling
  BY <1>2, <1>3, <1>4
<1>7. ASSUME NEW x \in Copies
      PROVE  InFlight(x.src, x.dst, x.vnet, x.num)' <=> InFlight(x.src, x.dst, x.vnet, x.num) /\ x # m
  <2>1. x.src \in 1 .. N /\ x.dst \in 1 .. N /\ x.vnet \in Vnets /\ x.num \in Nat
    BY DEF Copies
  <2> QED
    BY <1>3, <1>5, <2>1
<1>8. Travelling' = Travelling \ {m}
  BY <1>2, <1>7
<1>9. ASSUME <<m.src, m.vnet>> \in OrderedPairs, NEW x \in Travelling PROVE ~Promise!Overtakes(m, x)
  <2>1. x \in Copies /\ InFlight(x.src, x.dst, x.vnet, x.num) /\ x.num \in Nat
    BY <1>2 DEF Copies
  <2>2. x.src = s /\ x.dst = c /\ x.vnet = v => k <= x.num
    BY <1>3, <1>4, <1>9, <2>1
  <2> QED
    BY <1>4, <2>1, <2>2 DEF Promise!Overtakes
<1>10. Promise!Arrive(m)
  BY <1>1, <1>2, <1>6, <1>8, <1>9 DEF Promise!Arrive
<1> QED
  BY <1>6, <1>10

(* The steps that KeepsPromise allows. *)
PromiseNext ==
    \/ \E c \in 1 .. N, v \in Vnets, dests \in SUBSET (1 .. N) : Promise!Send(c, dests, v)
    \/ \E m \in Travelling : Promise!Arrive(m)

(* Every step is a step of PairChannels or a stutter. *)
LEMMA NextPromise ==
    ASSUME SystemInv, SystemInv', [Next]_vars PROVE [PromiseNext]_Promise!vars
<1>1. CASE UNCHANGED vars
  <2>1. UNCHANGED <<setupVars, out, links, in, sent>>
    BY <1>1 DEF vars
  <2>2. OrderedPairs' = OrderedPairs
    BY <2>1, SameNetwork
  <2>3. Travelling' = Travelling
    BY <2>1 DEF Travelling
  <2> QED
    BY <2>1, <2>2, <2>3 DEF Promise!vars
<1>2. CASE Setup
  BY <1>2, SetupStutters DEF Promise!vars
<1>3. ASSUME NEW c \in 1 .. N, NEW v \in Vnets, NEW dests \in SUBSET (1 .. N), Enqueue(c, v, dests)
      PROVE  PromiseNext
  BY <1>3, EnqueuePromise DEF PromiseNext
<1>4. ASSUME NEW c \in 1 .. N, NEW v \in Vnets, Receive(c, v)
      PROVE  PromiseNext
  BY <1>4, ReceivePromise DEF PromiseNext
<1>5. ASSUME NEW v \in Vnets, (\E c \in 1 .. N : Route(c, v)) \/ (\E p \in Linked : Deliver(p, v))
      PROVE  UNCHANGED Promise!vars
  BY <1>5, MoveStutters DEF Promise!vars
<1> QED
  BY <1>1, <1>2, <1>3, <1>4, <1>5 DEF Next

(* The network that connectControllers() builds, with the buffers the      *)
(* classes of the configuration give the controllers, keeps the promise    *)
(* of PairChannels: whatever the protocol sends, a copy for each of its    *)
(* destinations is in the network until that receives it, once, and in the *)
(* order sent where order is promised.                                     *)
THEOREM KeepsPromiseCorrect == Spec => KeepsPromise
<1>1. Init => Promise!Init
  BY NoneTravelling DEF Init, Promise!Init, AllEmpty
<1>2. SystemInv /\ SystemInv' /\ [Next]_vars => [PromiseNext]_Promise!vars
  BY NextPromise
<1>3. Spec => Promise!Init /\ [][PromiseNext]_Promise!vars
  BY <1>1, <1>2, SystemInvariant, PTL DEF Spec
<1> QED
  BY <1>3 DEF KeepsPromise, PromiseNext
=============================================================================
