---------------------------- MODULE RubyNetwork -----------------------------
(***************************************************************************)
(* The Ruby system that simple_ruby.py builds with the classes of          *)
(* msi_caches.py or of ruby_caches_MI_example.py: controllers, sequencers, *)
(* message buffers, routers and links; and the way of a message through    *)
(* what was built.                                                         *)
(*                                                                         *)
(* An action of the first part is one object that setup() creates or       *)
(* connects.  In the second part a message goes from the buffer of its     *)
(* sender through the router of the sender, a link to the router of each   *)
(* destination, and into the buffer of that controller.  Routers, links    *)
(* and buffers are gem5's (external): each link keeps the order of what it *)
(* carries, and so does a buffer, unless it was made without ordered.      *)
(***************************************************************************)
EXTENDS Integers, SequencesExt

CONSTANTS CPUCounts,     \* numbers of CPUs
          MaxMessages    \* bound: messages sent in a behaviour

ASSUME BoundsAssumption == CPUCounts \subseteq Nat \ {0} /\ MaxMessages \in Nat

VARIABLES config,       \* the classes, the protocol gem5 was built with, CPUs and ISA
          phase,        \* how far setup() is, "running", or "fatal"
          controllers,  \* their records, the L1 caches before the directory
          version,      \* _version of each class
          sequencers,   \* the sequencer records
          attached,     \* controllers that were given their sequencer
          routers, extLinks, intLinks,
          cpuPorts,     \* <<CPU, its port, the sequencer it is connected to>>
          (* messages *)
          out, links, in,
          sent          \* messages sent so far

setupVars == <<config, phase, controllers, version, sequencers, attached, routers, extLinks, intLinks, cpuPorts>>
vars == <<setupVars, out, links, in, sent>>
---------------------------------------------------------------------------
(* Message buffers: the virtual network (from the .sm files) of each, and  *)
(* whether it was created with ordered = True.  master = network.slave     *)
(* makes a buffer that sends, slave = network.master one that receives.    *)
To(vnet, ordered)   == [dir |-> "to", vnet |-> vnet, ordered |-> ordered]
From(vnet, ordered) == [dir |-> "from", vnet |-> vnet, ordered |-> ordered]

MSIL1BuffersUnordered == {To(0, TRUE), To(2, FALSE), From(1, TRUE), From(2, TRUE)}   \* mutant
MSIL1Buffers  == {To(0, TRUE),    \* requestToDir
                  To(2, TRUE),    \* responseToDirOrSibling
                  From(1, TRUE),  \* forwardFromDir
                  From(2, TRUE)}  \* responseFromDirOrSibling
MSIDirBuffers == {From(0, TRUE),  \* requestFromCache
                  From(2, TRUE),  \* responseFromCache
                  To(2, TRUE),    \* responseToCache
                  To(1, TRUE)}    \* forwardToCache
MIL1Buffers   == {To(2, TRUE),    \* requestFromCache
                  To(4, TRUE),    \* responseFromCache
                  From(3, TRUE),  \* forwardToCache
                  From(4, TRUE)}  \* responseToCache
MIDirBuffers  == {From(2, TRUE),  \* requestToDir
                  From(0, TRUE),  \* dmaRequestToDir
                  To(4, FALSE),   \* responseFromDir
                  To(1, TRUE),    \* dmaResponseFromDir
                  To(3, FALSE)}   \* forwardFromDir

MSISystem == [protocol |-> "MSI", vnets |-> 3, L1Cache |-> MSIL1Buffers, DirController |-> MSIDirBuffers]
MISystem  == [protocol |-> "MI_example", vnets |-> 5, L1Cache |-> MIL1Buffers, DirController |-> MIDirBuffers]

System == IF config.caches = "msi_caches" THEN MSISystem ELSE MISystem
---------------------------------------------------------------------------
(* simple_ruby.py creates the CPUs and their interrupt controllers, one    *)
(* memory controller and a MyCacheSystem, and calls setup().               *)
Configs == [caches : {"msi_caches", "ruby_caches_MI_example"}, protocol : {"MSI", "MI_example"},
            cpus : CPUCounts, isa : {"x86", "arm", "riscv"}]

N == config.cpus + 1   \* controllers
Vnets == 0 .. System.vnets - 1

Init ==
    /\ config \in Configs
    /\ phase = "new"
    /\ controllers = <<>> /\ sequencers = <<>> /\ attached = <<>>
    /\ version = [L1Cache |-> 0, DirController |-> 0]
    /\ routers = <<>> /\ extLinks = <<>> /\ intLinks = <<>>
    /\ cpuPorts = {}
    /\ out = <<>> /\ links = <<>> /\ in = <<>>
    /\ sent = 0

(* MyCacheSystem(): the protocol is fixed when gem5 is built. *)
Construct ==
    /\ phase = "new"
    /\ phase' = IF config.protocol = System.protocol THEN "controllers" ELSE "fatal"
    /\ UNCHANGED <<config, controllers, version, sequencers, attached, routers, extLinks, intLinks, cpuPorts,
                   out, links, in, sent>>

(* versionCount() counts the controllers of one class. *)
VersionCountOfAll(class) == version["L1Cache"] + version["DirController"]   \* mutant: one counter for both classes
VersionCount(class) == version[class]

InPhase(p) ==
    /\ phase = p
    /\ UNCHANGED <<config, out, links, in, sent>>

(* L1Cache(system, self, cpu) for each CPU, then one DirController. *)
CreateController(class) ==
    /\ InPhase("controllers")
    /\ class = IF Len(controllers) < config.cpus THEN "L1Cache" ELSE "DirController"
    /\ controllers' = Append(controllers, [class |-> class, version |-> VersionCount(class)])
    /\ version' = [version EXCEPT ![class] = @ + 1]
    /\ phase' = IF class = "DirController" THEN "sequencers" ELSE phase
    /\ UNCHANGED <<sequencers, attached, routers, extLinks, intLinks, cpuPorts>>

(* A sequencer uses the cache of the controller with its number. *)
SequencerOfNext(i) == [version |-> i, cache |-> i + 2]   \* mutant: lists counted from 1
Sequencer(i) == [version |-> i, cache |-> i + 1]

CreateSequencer ==
    /\ InPhase("sequencers")
    /\ LET i == Len(sequencers)
       IN  /\ sequencers' = Append(sequencers, Sequencer(i))
           /\ phase' = IF i + 1 = config.cpus THEN "attach" ELSE phase
    /\ UNCHANGED <<controllers, version, attached, routers, extLinks, intLinks, cpuPorts>>

AttachSequencer ==
    /\ InPhase("attach")
    /\ LET i == Len(attached) + 1
       IN  /\ attached' = Append(attached, i)
           /\ phase' = IF i = Len(sequencers) THEN "routers" ELSE phase
    /\ UNCHANGED <<controllers, version, sequencers, routers, extLinks, intLinks, cpuPorts>>

(* MyNetwork.connectControllers: a router for each controller, ... *)
CreateRouter ==
    /\ InPhase("routers")
    /\ routers' = Append(routers, [id |-> Len(routers)])
    /\ phase' = IF Len(routers') = Len(controllers) THEN "ext_links" ELSE phase
    /\ UNCHANGED <<controllers, version, sequencers, attached, extLinks, intLinks, cpuPorts>>

CreateExtLink ==
    /\ InPhase("ext_links")
    /\ LET i == Len(extLinks)
       IN  extLinks' = Append(extLinks, [id |-> i, node |-> i + 1, router |-> i + 1])
    /\ phase' = IF Len(extLinks') = Len(controllers) THEN "int_links" ELSE phase
    /\ UNCHANGED <<controllers, version, sequencers, attached, routers, intLinks, cpuPorts>>

(* ... and a link for each pair of routers: two loops over the routers     *)
(* that skip the pairs of a router with itself.                            *)
PairsOneWay == {p \in (DOMAIN routers) \X (DOMAIN routers) : p[1] < p[2]}   \* mutant: once for both directions
Pairs == {p \in (DOMAIN routers) \X (DOMAIN routers) : p[1] # p[2]}
Linked == {<<l.src, l.dst>> : l \in ToSet(intLinks)}

Before(p, q) == p[1] < q[1] \/ (p[1] = q[1] /\ p[2] < q[2])

CreateIntLink ==
    /\ InPhase("int_links")
    /\ \E p \in Pairs \ Linked :
          /\ \A q \in Pairs \ Linked : ~Before(q, p)
          /\ intLinks' = Append(intLinks, [id |-> Len(intLinks) + 1, src |-> p[1], dst |-> p[2]])
          /\ phase' = IF Pairs = Linked \cup {p} THEN "ports" ELSE phase
    /\ UNCHANGED <<controllers, version, sequencers, attached, routers, extLinks, cpuPorts>>

(* The ports of a CPU and of its interrupt controller and table walkers. *)
RubyPorts(isa) ==
    {"icache_port", "dcache_port"}
    \cup (IF isa = "x86" THEN {"pio", "int_master", "int_slave"} ELSE {})
    \cup (IF isa \in {"x86", "arm"} THEN {"itb.walker", "dtb.walker"} ELSE {})

ConnectedCPUs == {p[1] : p \in cpuPorts}

ConnectCPU ==
    /\ phase = "ports"
    /\ LET i == Cardinality(ConnectedCPUs) + 1
           done == i = config.cpus
       IN  /\ cpuPorts' = cpuPorts \cup {<<i, port, i>> : port \in RubyPorts(config.isa)}
           /\ phase' = IF done THEN "running" ELSE phase
           (* setup_buffers and m5.instantiate create the empty buffers *)
           /\ out' = IF done THEN [b \in (1 .. N) \X Vnets |-> <<>>] ELSE out
           /\ in' = IF done THEN [b \in (1 .. N) \X Vnets |-> <<>>] ELSE in
           /\ links' = IF done THEN [l \in Linked \X Vnets |-> <<>>] ELSE links
    /\ UNCHANGED <<config, controllers, version, sequencers, attached, routers, extLinks, intLinks, sent>>
---------------------------------------------------------------------------
(* Messages. *)
Buffers(c) == IF controllers[c].class = "L1Cache" THEN System.L1Cache ELSE System.DirController

KeepsOrder(c, v) == \E b \in Buffers(c) : b.dir = "to" /\ b.vnet = v /\ b.ordered
Sends(c, v)      == \E b \in Buffers(c) : b.dir = "to" /\ b.vnet = v
Receives(c, v)   == \E b \in Buffers(c) : b.dir = "from" /\ b.vnet = v

(* The destinations a protocol message has: caches talk to the directory   *)
(* or to a sibling, the directory to caches, several at once for           *)
(* invalidations.                                                          *)
Destinations(c, v) ==
    LET others == {d \in 1 .. N : d # c /\ Receives(d, v)}
    IN  IF c = N THEN (SUBSET others) \ {{}} ELSE {{d} : d \in others}

Enqueue(c, v, dests) ==
    /\ phase = "running"
    /\ sent < MaxMessages
    /\ Sends(c, v) /\ dests \in Destinations(c, v)
    /\ out' = [out EXCEPT ![<<c, v>>] = Append(@, [num |-> sent + 1, src |-> c, dests |-> dests])]
    /\ sent' = sent + 1
    /\ UNCHANGED <<setupVars, links, in>>

RouterOf(c) == CHOOSE r \in DOMAIN routers : \E e \in ToSet(extLinks) : e.node = c /\ e.router = r
NodeAt(r)   == CHOOSE c \in 1 .. N : \E e \in ToSet(extLinks) : e.node = c /\ e.router = r

(* The router at the sender puts a copy on the link to each destination. *)
Route(c, v) ==
    /\ phase = "running"
    /\ \E k \in DOMAIN out[<<c, v>>] :
          LET m == out[<<c, v>>][k]
              ways == {<<RouterOf(c), RouterOf(d)>> : d \in m.dests}
          IN  /\ KeepsOrder(c, v) => k = 1
              /\ ways \subseteq Linked
              /\ out' = [out EXCEPT ![<<c, v>>] = RemoveAt(@, k)]
              /\ links' = [l \in DOMAIN links |->
                              IF l[1] \in ways /\ l[2] = v THEN Append(links[l], m) ELSE links[l]]
    /\ UNCHANGED <<setupVars, in, sent>>

(* The router at the destination takes from a link for its controller. *)
Deliver(p, v) ==
    /\ phase = "running"
    /\ links[<<p, v>>] # <<>>
    /\ in' = [in EXCEPT ![<<NodeAt(p[2]), v>>] = Append(@, Head(links[<<p, v>>]))]
    /\ links' = [links EXCEPT ![<<p, v>>] = Tail(@)]
    /\ UNCHANGED <<setupVars, out, sent>>

(* The controller handles the head of a buffer. *)
Receive(c, v) ==
    /\ phase = "running"
    /\ Receives(c, v)
    /\ in[<<c, v>>] # <<>>
    /\ in' = [in EXCEPT ![<<c, v>>] = Tail(@)]
    /\ UNCHANGED <<setupVars, out, links, sent>>

Setup == \/ Construct
         \/ \E class \in {"L1Cache", "DirController"} : CreateController(class)
         \/ CreateSequencer \/ AttachSequencer
         \/ CreateRouter \/ CreateExtLink \/ CreateIntLink
         \/ ConnectCPU

Next == \/ Setup
        \/ \E c \in 1 .. N, v \in Vnets :
              \/ \E dests \in SUBSET (1 .. N) : Enqueue(c, v, dests)
              \/ Route(c, v)
              \/ Receive(c, v)
        \/ \E p \in Linked, v \in Vnets : Deliver(p, v)

Spec == Init /\ [][Next]_vars

(* The script runs on, and the event queue wakes whatever has a message to *)
(* hand on; what the protocol sends is its own choice.                     *)
MaxN == CHOOSE n \in CPUCounts : \A k \in CPUCounts : k <= n
Fairness ==
    /\ WF_vars(Setup)
    /\ \A c \in 1 .. MaxN + 1, v \in 0 .. 4 :
          WF_vars(c <= N /\ v \in Vnets /\ Route(c, v)) /\ WF_vars(c <= N /\ v \in Vnets /\ Receive(c, v))
    /\ \A p \in (1 .. MaxN + 1) \X (1 .. MaxN + 1), v \in 0 .. 4 :
          WF_vars(p \in Linked /\ v \in Vnets /\ Deliver(p, v))

FairSpec == Spec /\ Fairness
---------------------------------------------------------------------------
(* Properties. *)
Messages == [num : 1 .. MaxMessages, src : 1 .. N, dests : SUBSET (1 .. N)]

(* Types; a message is only where it may be: on a link that leads to one   *)
(* of its destinations, or in a buffer that the destination reads.         *)
TypeOK ==
    /\ config \in Configs
    /\ phase \in {"new", "fatal", "controllers", "sequencers", "attach", "routers", "ext_links", "int_links",
                  "ports", "running"}
    /\ version \in [{"L1Cache", "DirController"} -> 0 .. N]
    /\ \A s \in ToSet(sequencers) : s.cache \in 1 .. config.cpus
    /\ sent \in 0 .. MaxMessages
    /\ \A b \in DOMAIN out : ToSet(out[b]) \subseteq {m \in Messages : m.src = b[1]}
    /\ \A l \in DOMAIN links : ToSet(links[l]) \subseteq {m \in Messages : m.src = l[1][1] /\ l[1][2] \in m.dests}
    /\ \A b \in DOMAIN in : /\ ToSet(in[b]) \subseteq {m \in Messages : b[1] \in m.dests}
                            /\ in[b] # <<>> => Receives(b[1], b[2])

(* The numbers by which controllers, sequencers and CPUs find each other   *)
(* agree, though each is counted elsewhere: versionCount per class, the    *)
(* index of a list, the order of the CPUs.                                 *)
NumbersAgree ==
    phase = "running" =>
        /\ \A i \in 1 .. config.cpus :
              /\ controllers[i] = [class |-> "L1Cache", version |-> i - 1]
              /\ attached[i] = i
              /\ sequencers[attached[i]] = [version |-> controllers[i].version, cache |-> i]
              /\ \A p \in cpuPorts : p[1] = i => p[3] = i
        /\ controllers[N] = [class |-> "DirController", version |-> 0]

(* The network built implements PairChannels.  For MSI every channel must  *)
(* keep order: module MSI relies on it.  MI_example does without it where  *)
(* the directory's buffers are not ordered.                                *)
OrderedPairs ==
    {b \in (1 .. N) \X Vnets :
        config.caches = "ruby_caches_MI_example" => b[1] < N \/ b[2] \notin {3, 4}}

Travelling ==
    LET On(m, dst, vnet) == [num |-> m.num, src |-> m.src, dst |-> dst, vnet |-> vnet]
    IN  (UNION {UNION {{On(m, d, b[2]) : d \in m.dests} : m \in ToSet(out[b])} : b \in DOMAIN out})
        \cup (UNION {{On(m, l[1][2], l[2]) : m \in ToSet(links[l])} : l \in DOMAIN links})
        \cup (UNION {{On(m, b[1], b[2]) : m \in ToSet(in[b])} : b \in DOMAIN in})

Promise == INSTANCE PairChannels WITH ordered <- OrderedPairs, travelling <- Travelling
KeepsPromise == Promise!Init /\ [][\/ \E c \in 1 .. N, v \in Vnets, dests \in SUBSET (1 .. N) : Promise!Send(c, dests, v)
                                   \/ \E m \in Travelling : Promise!Arrive(m)]_Promise!vars

(* Whatever is sent arrives at each of its destinations. *)
AllArrive == (Travelling # {}) ~> (Travelling = {})
===========================================================================
