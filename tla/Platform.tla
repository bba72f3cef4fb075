------------------------------ MODULE Platform ------------------------------
(***************************************************************************)
(* The systems the configuration scripts build (part 1, part 2, part 4):   *)
(* the objects, the ports they are connected by, the address ranges of the *)
(* x86 board and the tables its firmware gives to the kernel; and the way  *)
(* a request takes through what was built.                                 *)
(*                                                                         *)
(* A script is a sequence of statements, and an action executes one.  What *)
(* gem5 does with a statement is external: a port that is no vector is     *)
(* connected once, a request port to a response port, and an object exists *)
(* before it is used.  When the script is done, a port that makes requests *)
(* sends one, and each bus, bridge and cache on its way hands it on.       *)
(*                                                                         *)
(* Addresses count kB.  The bases of the 64-bit address space do not fit   *)
(* TLC's integers: they are constants, of which only the order matters.    *)
(***************************************************************************)
EXTENDS Integers, Sequences, FiniteSets

CONSTANTS NoRequest, NoFirmware,
          CPUCounts,     \* numbers of CPUs to give to x86_mp.init_fs
          MemSize,       \* mem_ranges[0].size()
          LocalAPICBase, \* where the CPUs see their local APICs
          IOBase,        \* IO_address_space_base
          InterruptBase, \* interrupts_address_space_base
          PCIBase,       \* pci_config_address_space_base
          AddrMax        \* Addr.max

APICSize == 4            \* APIC_range_size
GB3      == 3145728      \* 0xC0000000
M5Ops    == 4194240      \* 0xFFFF0000
GB4      == 4194304
IOHole   == 1024         \* the size of mem_ranges[1], "For I/O"
IOAPICAddress == 4173824 \* 0xfec00000

ASSUME CountsAssumption == CPUCounts \subseteq Nat \ {0}
ASSUME MemSizeAssumption == MemSize \in Nat /\ 1024 < MemSize /\ MemSize < GB3
ASSUME BasesAssumption ==
    /\ {LocalAPICBase, IOBase, InterruptBase, PCIBase, AddrMax} \subseteq Nat
    /\ GB4 <= LocalAPICBase
    /\ \A n \in CPUCounts \cup {1} : /\ LocalAPICBase + n * APICSize <= IOBase
                                     /\ InterruptBase + n * APICSize <= PCIBase
    /\ IOBase < InterruptBase /\ PCIBase < AddrMax

VARIABLES config,   \* the script, and what it is run with
          pc,       \* statements executed
          made,     \* the objects that exist
          wires,    \* the connected pairs of ports
          firmware, \* what init_fs has left in the tables, or NoFirmware
          status,   \* "building", "running", or why the program ended
          req       \* the request on its way, or NoRequest

vars == <<config, pc, made, wires, firmware, status, req>>
---------------------------------------------------------------------------
(* Objects and ports.  An object is a name and a number, 0 when there is   *)
(* one of it; slave and master of a bus are the old names of               *)
(* cpu_side_ports and mem_side_ports.                                      *)
One(name)        == <<name, 0>>
Port(obj, name)  == <<obj[1], obj[2], name>>
Object(port)     == <<port[1], port[2]>>
Slave(bus)       == <<bus, 0, "cpu_side_ports">>
Master(bus)      == <<bus, 0, "mem_side_ports">>

Make(obj)  == [op |-> "make", a |-> obj]
Bind(p, q) == [op |-> "bind", a |-> p, b |-> q]
ReadOption(field) == [op |-> "option", a |-> field]
Install(t) == [op |-> "install", a |-> t]

RequestPort(p)  == p[3] \in {"icache_port", "dcache_port", "itb_walker", "dtb_walker", "mem_side",
                             "mem_side_ports", "int_master", "dma", "master", "default", "system_port"}
ResponsePort(p) == p[3] \in {"cpu_side", "cpu_side_ports", "inst_port", "data_port", "int_slave",
                             "pio", "port", "slave"}

(* SimpleCache.cpu_side is a vector port. *)
SimpleCacheVector == {<<"cache", 0, "cpu_side">>}
VectorPort(p) == p[3] \in {"cpu_side_ports", "mem_side_ports"} \/ p \in SimpleCacheVector

Bound(p) == \E w \in wires : p \in {w[1], w[2]}

(* The ports that simulation needs connected. *)
SimpleMemobjPorts == {"inst_port", "data_port", "mem_side"}
SimpleCachePorts  == {"cpu_side", "mem_side"}

RequiredPorts(obj) ==
    LET fs == config.script \in {"system", "system_mp"}
        names == CASE obj[1] = "cpu" -> {"icache_port", "dcache_port"}
                                        \cup (IF fs THEN {"itb_walker", "dtb_walker"} ELSE {})
                   [] obj[1] = "interrupts" -> IF config.isa = "x86" THEN {"pio", "int_master", "int_slave"} ELSE {}
                   [] obj[1] = "memobj" -> SimpleMemobjPorts
                   [] obj[1] = "cache" -> SimpleCachePorts
                   [] obj[1] \in {"icache", "dcache", "l2cache", "iocache"} -> {"cpu_side", "mem_side"}
                   [] obj[1] \in {"bridge", "apicbridge"} -> {"slave", "master"}
                   [] obj[1] = "mem_ctrl" -> {"port"}
                   [] obj[1] = "badaddr" -> {"pio"}
                   [] obj[1] = "system" -> {"system_port"}
                   [] OTHER -> {}
    IN {Port(obj, name) : name \in names}
---------------------------------------------------------------------------
(* Part 1 and part 2. *)

(* caches.py: a constructor that is given an options object reads its size *)
(* from it.                                                                *)
L1ICache(i) == <<Make(<<"icache", i>>), ReadOption("l1i_size")>>
L1DCache(i) == <<Make(<<"dcache", i>>), ReadOption("l1d_size")>>
L2Cache     == <<Make(One("l2cache")), ReadOption("l2_size")>>
ConnectICacheCPU(i) == <<Bind(<<"icache", i, "cpu_side">>, <<"cpu", i, "icache_port">>)>>
ConnectDCacheCPU(i) == <<Bind(<<"dcache", i, "cpu_side">>, <<"cpu", i, "dcache_port">>)>>
ConnectBus(cache, i, bus) == <<Bind(<<cache, i, "mem_side">>, Slave(bus))>>
ConnectCPUSideBus(bus)    == <<Bind(<<"l2cache", 0, "cpu_side">>, Master(bus))>>
ConnectMemSideBus(bus)    == <<Bind(<<"l2cache", 0, "mem_side">>, Slave(bus))>>

(* createInterruptController, and the wires the scripts add for x86. *)
CreateInterrupts(i) == <<Make(<<"interrupts", i>>)>>
WireInterrupts(i, bus) ==
    <<Bind(<<"interrupts", i, "pio">>, Master(bus)),
      Bind(<<"interrupts", i, "int_master">>, Slave(bus)),
      Bind(<<"interrupts", i, "int_slave">>, Master(bus))>>

Memory(bus)     == <<Make(One("mem_ctrl")), Bind(<<"mem_ctrl", 0, "port">>, Master(bus))>>
SystemPort(bus) == <<Bind(<<"system", 0, "system_port">>, Slave(bus))>>

Simple(isa) ==
    <<Make(One("system")), Make(<<"cpu", 0>>), Make(One("membus")),
      Bind(<<"cpu", 0, "icache_port">>, Slave("membus")),
      Bind(<<"cpu", 0, "dcache_port">>, Slave("membus"))>>
    \o CreateInterrupts(0)
    \o (IF isa = "x86" THEN WireInterrupts(0, "membus") ELSE <<>>)
    \o Memory("membus") \o SystemPort("membus")

TwoLevel(isa) ==
    <<Make(One("system")), Make(<<"cpu", 0>>)>>
    \o L1ICache(0) \o L1DCache(0) \o ConnectICacheCPU(0) \o ConnectDCacheCPU(0)
    \o <<Make(One("l2bus"))>>
    \o ConnectBus("icache", 0, "l2bus") \o ConnectBus("dcache", 0, "l2bus")
    \o L2Cache \o ConnectCPUSideBus("l2bus")
    \o <<Make(One("membus"))>> \o ConnectMemSideBus("membus")
    \o CreateInterrupts(0)
    \o (IF isa = "x86" THEN WireInterrupts(0, "membus") ELSE <<>>)
    \o SystemPort("membus") \o Memory("membus")

(* two_level_opts.py takes the sizes from the command line, and its caches *)
(* from caches_opts.py.                                                    *)
ParsedOptions == {"binary", "l1i_size", "l1d_size", "l2_size"}
OptsCache(obj, field) == <<Make(obj), ReadOption(field)>>
OptsConnectBus(cache, bus) == <<Bind(<<cache, 0, "mem_side">>, Slave(bus))>>

TwoLevelOpts(isa) ==
    <<Make(One("system")), Make(<<"cpu", 0>>)>>
    \o OptsCache(<<"icache", 0>>, "l1i_size") \o OptsCache(<<"dcache", 0>>, "l1d_size")
    \o ConnectICacheCPU(0) \o ConnectDCacheCPU(0)
    \o <<Make(One("l2bus"))>>
    \o OptsConnectBus("icache", "l2bus") \o OptsConnectBus("dcache", "l2bus")
    \o OptsCache(One("l2cache"), "l2_size") \o ConnectCPUSideBus("l2bus")
    \o <<Make(One("membus"))>> \o ConnectMemSideBus("membus")
    \o CreateInterrupts(0)
    \o (IF isa = "x86" THEN WireInterrupts(0, "membus") ELSE <<>>)
    \o SystemPort("membus") \o Memory("membus")

SimpleMemobjScript ==
    <<Make(One("system")), Make(<<"cpu", 0>>), Make(One("memobj")),
      Bind(<<"cpu", 0, "icache_port">>, <<"memobj", 0, "inst_port">>),
      Bind(<<"cpu", 0, "dcache_port">>, <<"memobj", 0, "data_port">>),
      Make(One("membus")), Bind(<<"memobj", 0, "mem_side">>, Slave("membus"))>>
    \o CreateInterrupts(0) \o WireInterrupts(0, "membus")
    \o Memory("membus") \o SystemPort("membus")

(* Both ports of the CPU go to the vector port of the cache. *)
CacheSide(side) == <<"cache", 0, "cpu_side">>

SimpleCacheScript ==
    <<Make(One("system")), Make(<<"cpu", 0>>), Make(One("membus")), Make(One("cache")),
      Bind(<<"cpu", 0, "icache_port">>, CacheSide("icache_port")),
      Bind(<<"cpu", 0, "dcache_port">>, CacheSide("dcache_port")),
      Bind(<<"cache", 0, "mem_side">>, Slave("membus"))>>
    \o CreateInterrupts(0) \o WireInterrupts(0, "membus")
    \o Memory("membus") \o SystemPort("membus")
---------------------------------------------------------------------------
(* Part 4: the x86 board.  x86_mp.init_fs(system, membus, cpus) is         *)
(* x86.init_fs(system, membus) written for any number of CPUs.             *)

(* A range is its first and last kB. *)
MemRangesWholeGap == {<<0, MemSize - 1>>, <<GB3, M5Ops - 1>>}   \* mutant: all of the gap
MemRanges == {<<0, MemSize - 1>>, <<GB3, GB3 + IOHole - 1>>}
Within(addr, ranges) == \E r \in ranges : r[1] <= addr /\ addr <= r[2]

BridgeRanges == {<<GB3, M5Ops>>, <<IOBase, InterruptBase - 1>>, <<PCIBase, AddrMax>>}
APICBridgeRangesOfOne(cpus) == {<<InterruptBase, InterruptBase + APICSize - 1>>}   \* mutant: not expanded for more CPUs
APICBridgeRanges(cpus) == {<<InterruptBase, InterruptBase + cpus * APICSize - 1>>}
IOCacheRanges == MemRanges

(* Pc.attachIO: the I/O APIC, the disk controller and the other devices on *)
(* the I/O bus; the PCI host takes what no device claims.                  *)
AttachIO ==
    <<Make(One("io_apic")), Make(One("ide")), Make(One("pci_host")),
      Bind(<<"io_apic", 0, "int_master">>, Slave("iobus")),
      Bind(<<"io_apic", 0, "pio">>, Master("iobus")),
      Bind(<<"ide", 0, "dma">>, Slave("iobus")),
      Bind(<<"iobus", 0, "default">>, <<"pci_host", 0, "pio">>)>>

IOSystem ==
    <<Make(One("iobus")), Make(One("bridge")),
      Bind(<<"bridge", 0, "master">>, Slave("iobus")),
      Bind(<<"bridge", 0, "slave">>, Master("membus")),
      Make(One("apicbridge")),
      Bind(<<"apicbridge", 0, "slave">>, Master("iobus")),
      Bind(<<"apicbridge", 0, "master">>, Slave("membus"))>>
    \o AttachIO
    \o <<Make(One("iocache")),
         Bind(<<"iocache", 0, "cpu_side">>, Master("iobus")),
         Bind(<<"iocache", 0, "mem_side">>, Slave("membus"))>>

(* The Intel MP table.  Pin 16 of the I/O APIC is INTA of PCI device 4;    *)
(* ISA interrupt irq goes through the 8259 and to a pin of its own.        *)
ISAPinsAll == {<<i, i>> : i \in 0 .. 14}   \* mutant: the timer on pin 0
ISAPins == {<<0, 2>>, <<1, 1>>} \cup {<<i, i>> : i \in 3 .. 14}
AssignISAInt(irq, pin, ioapic) ==
    {[type |-> "ExtInt", bus |-> 1, irq |-> irq, dest |-> ioapic, pin |-> 0],
     [type |-> "INT", bus |-> 1, irq |-> irq, dest |-> ioapic, pin |-> pin]}

MPTable(cpus) ==
    [processors |-> {[id |-> i, bootstrap |-> i = 0] : i \in 0 .. cpus - 1},
     ioapic     |-> cpus,
     busses     |-> {0, 1},
     parent     |-> [bus |-> 1, parent |-> 0],
     ints       |-> {[type |-> "INT", bus |-> 0, irq |-> 16, dest |-> cpus, pin |-> 16]}
                    \cup UNION {AssignISAInt(p[1], p[2], cpus) : p \in ISAPins}]

(* The memory map for the kernel: type 1 is usable, type 2 reserved. *)
E820Entry(addr, size, type) == [addr |-> addr, size |-> size, type |-> type]
E820WholeSize ==   \* mutant: the size of the memory is not reduced by its first megabyte
    {E820Entry(0, 639, 1), E820Entry(639, 385, 2),
     E820Entry(1024, MemSize, 1),
     E820Entry(MemSize, GB3 - MemSize, 2),
     E820Entry(M5Ops, 64, 2)}
E820 ==
    {E820Entry(0, 639, 1), E820Entry(639, 385, 2),
     E820Entry(1024, MemSize - 1024, 1),
     E820Entry(MemSize, GB3 - MemSize, 2),
     E820Entry(M5Ops, 64, 2)}

Firmware(cpus) == [mp |-> MPTable(cpus), ioapicId |-> cpus, e820 |-> E820,
                   bridge |-> BridgeRanges, apicbridge |-> APICBridgeRanges(cpus), iocache |-> IOCacheRanges]

InitFS(cpus) == IOSystem \o <<Install(Firmware(cpus))>>
InitFSOfOne  == InitFS(1)   \* x86.init_fs

(* MySystem(opts) of system.py.  With x86_mp.init_fs and several CPUs, as  *)
(* the note in createCPU has in mind but no script of the repository does, *)
(* the steps for a CPU are repeated for each.                              *)
CreateCPUFromOne(i) == <<Make(<<"cpu", i + 1>>)>>   \* mutant: numbered from 1
CreateCPU(i) == <<Make(<<"cpu", i>>)>>
CreateCacheHierarchy(i) ==
    L1ICache(i) \o L1DCache(i) \o ConnectICacheCPU(i) \o ConnectDCacheCPU(i)
    \o ConnectBus("icache", i, "membus") \o ConnectBus("dcache", i, "membus")
    \o <<Bind(<<"cpu", i, "itb_walker">>, Slave("membus")),
         Bind(<<"cpu", i, "dtb_walker">>, Slave("membus"))>>
SetupInterrupts(i) == CreateInterrupts(i) \o WireInterrupts(i, "membus")

ForEachCPU(cpus, steps) ==
    LET upTo[n \in 0 .. cpus] == IF n = 0 THEN <<>> ELSE upTo[n - 1] \o steps[n - 1]
    IN  upTo[cpus]

MySystem(cpus, initFS) ==
    <<Make(One("system")), Make(One("membus")), Make(One("badaddr")),
      Bind(<<"membus", 0, "default">>, <<"badaddr", 0, "pio">>)>>
    \o SystemPort("membus") \o initFS
    \o ForEachCPU(cpus, [i \in 0 .. cpus - 1 |-> CreateCPU(i)])
    \o ForEachCPU(cpus, [i \in 0 .. cpus - 1 |-> CreateCacheHierarchy(i)])
    \o Memory("membus")
    \o ForEachCPU(cpus, [i \in 0 .. cpus - 1 |-> SetupInterrupts(i)])

(* run.py gives MySystem the options it parses: its own, and those that    *)
(* the module caches adds, which is none if that is part 1's caches.py.    *)
ScriptOptions == {"script"}
CacheOptions  == {"l1i_size", "l1d_size", "l2_size"}
---------------------------------------------------------------------------
(* Executing the script. *)
Configs ==
    LET Run(script, isas, cpus, opts) ==
            [script : {script}, isa : isas, cpus : cpus, opts : opts]
        parsed == {{ScriptOptions}, {ScriptOptions \cup CacheOptions}}
    IN  Run("simple", {"x86", "arm"}, {1}, {{}})
        \cup Run("two_level", {"x86", "arm"}, {1}, {{}})
        \cup Run("two_level_opts", {"x86", "arm"}, {1}, {{ParsedOptions}})
        \cup Run("simple_memobj", {"x86"}, {1}, {{}})
        \cup Run("simple_cache", {"x86"}, {1}, {{}})
        \cup Run("system", {"x86"}, {1}, parsed)
        \cup Run("system_mp", {"x86"}, CPUCounts, parsed)

Program ==
    CASE config.script = "simple"         -> Simple(config.isa)
      [] config.script = "two_level"      -> TwoLevel(config.isa)
      [] config.script = "two_level_opts" -> TwoLevelOpts(config.isa)
      [] config.script = "simple_memobj"  -> SimpleMemobjScript
      [] config.script = "simple_cache"   -> SimpleCacheScript
      [] config.script = "system"         -> MySystem(1, InitFSOfOne)
      [] config.script = "system_mp"      -> MySystem(config.cpus, InitFS(config.cpus))

Init ==
    /\ config \in Configs
    /\ pc = 0
    /\ made = {} /\ wires = {}
    /\ firmware = NoFirmware
    /\ status = "building"
    /\ req = NoRequest

CanBind(p, q) ==
    /\ {Object(p), Object(q)} \subseteq made
    /\ \/ RequestPort(p) /\ ResponsePort(q)
       \/ ResponsePort(p) /\ RequestPort(q)
    /\ \A r \in {p, q} : VectorPort(r) \/ ~Bound(r)

Statement == Program[pc + 1]

(* The next statement is of this kind, and the script goes on after it. *)
Executes(op) ==
    /\ status = "building"
    /\ pc < Len(Program)
    /\ Statement.op = op
    /\ pc' = pc + 1
    /\ UNCHANGED <<config, req>>

Fail == status' = "failed" /\ UNCHANGED <<made, wires, firmware>>

MakeObject ==
    /\ Executes("make")
    /\ made' = made \cup {Statement.a}
    /\ UNCHANGED <<wires, firmware, status>>

ConnectPorts ==
    /\ Executes("bind")
    /\ LET p == Statement.a
           q == Statement.b
       IN  IF CanBind(p, q)
           THEN /\ wires' = wires \cup {IF RequestPort(p) THEN <<p, q>> ELSE <<q, p>>}
                /\ UNCHANGED <<made, firmware, status>>
           ELSE Fail

(* A constructor without an options object keeps its default size. *)
ReadSize ==
    /\ Executes("option")
    /\ LET lacks == \E opts \in config.opts : Statement.a \notin opts
       IN  \/ ~lacks /\ UNCHANGED <<made, wires, firmware, status>>
           \/ lacks /\ Fail

InstallFirmware ==
    /\ Executes("install")
    /\ firmware' = Statement.a
    /\ UNCHANGED <<made, wires, status>>

(* m5.instantiate(). *)
Instantiate ==
    /\ status = "building"
    /\ pc = Len(Program)
    /\ status' = IF \A obj \in made : \A p \in RequiredPorts(obj) : Bound(p)
                 THEN "running" ELSE "unconnected"
    /\ UNCHANGED <<config, pc, made, wires, firmware, req>>
---------------------------------------------------------------------------
(* Requests on their way: gem5's buses, bridges and caches are external.   *)
FullSystem == config.script \in {"system", "system_mp"}

RAM == {<<0, MemSize - 1>>}
LocalAPIC(i)     == {<<LocalAPICBase + i * APICSize, LocalAPICBase + i * APICSize + APICSize - 1>>}
InterruptPage(i) == {<<InterruptBase + i * APICSize, InterruptBase + i * APICSize + APICSize - 1>>}
CPUs == 0 .. config.cpus - 1

Claims(p, addr) ==
    CASE p[1] = "mem_ctrl"                       -> Within(addr, RAM)
      [] p[1] = "interrupts" /\ p[3] = "pio"     -> Within(addr, LocalAPIC(p[2]))
      [] p[1] = "interrupts" /\ p[3] # "pio"     -> Within(addr, InterruptPage(p[2]))
      [] p[1] = "bridge"                         -> Within(addr, firmware.bridge)
      [] p[1] = "apicbridge"                     -> Within(addr, firmware.apicbridge)
      [] p[1] = "iocache"                        -> Within(addr, firmware.iocache)
      [] p[1] = "io_apic"                        -> Within(addr, {<<IOAPICAddress, IOAPICAddress + APICSize - 1>>})
      [] OTHER                                   -> TRUE

Peers(p) == {w[2] : w \in {v \in wires : v[1] = p}}
Peer(p)  == CHOOSE q \in Peers(p) : TRUE

(* What the requestors of a running system ask for: memory, the disk       *)
(* controller's and the loader's part of it, the devices a kernel talks to *)
(* and the interrupts that are sent to the processors of the MP table.     *)
MemoryAddresses == {0, 1024, MemSize - 1}
DeviceAddresses == {MemSize, GB3 - 1, GB3, GB3 + IOHole - 1, GB3 + IOHole, IOAPICAddress, M5Ops - 1,
                    IOBase, InterruptBase - 1, PCIBase, AddrMax}

Requests ==
    LET From(ports, addrs) == (ports \cap {w[1] : w \in wires}) \X addrs
        PortsOf(name, ports) == {<<name, i, p>> : i \in CPUs, p \in ports}
        ids == IF FullSystem THEN {p.id : p \in firmware.mp.processors} ELSE {}
        interrupts == {InterruptBase + i * APICSize : i \in ids} \cup {InterruptBase + i * APICSize + 3 : i \in ids}
    IN  From(PortsOf("cpu", {"icache_port", "dcache_port", "itb_walker", "dtb_walker"}), MemoryAddresses)
        \cup From({<<"system", 0, "system_port">>, <<"ide", 0, "dma">>}, MemoryAddresses)
        \cup From(PortsOf("interrupts", {"int_master"}) \cup {<<"io_apic", 0, "int_master">>}, interrupts)
        \cup (IF FullSystem
              THEN From(PortsOf("cpu", {"dcache_port"}), DeviceAddresses)
                   \cup {<<<<"cpu", i, "dcache_port">>, LocalAPICBase + i * APICSize>> : i \in CPUs}
              ELSE {})

Send ==
    /\ status = "running"
    /\ req = NoRequest
    /\ \E r \in Requests : req' = [src |-> r[1], addr |-> r[2], at |-> Peer(r[1]), path |-> {}]
    /\ UNCHANGED <<config, pc, made, wires, firmware, status>>

Busses  == {One("membus"), One("l2bus"), One("iobus")}
Caches  == {One("l2cache"), One("iocache"), One("memobj"), One("cache")}
           \cup {<<c, i>> : c \in {"icache", "dcache"}, i \in CPUs}
Bridges == {One("bridge"), One("apicbridge")}
Here    == Object(req.at)

GoOn(p) ==
    /\ req' = [req EXCEPT !.at = p, !.path = @ \cup {Here}]
    /\ UNCHANGED status

Sending(S) ==
    /\ status = "running"
    /\ req # NoRequest
    /\ Here \in S
    /\ UNCHANGED <<config, pc, made, wires, firmware>>

ThroughBus ==
    /\ Sending(Busses)
    /\ LET claimants == {p \in Peers(Port(Here, "mem_side_ports")) : Claims(p, req.addr)}
           nexts     == IF claimants = {} THEN Peers(Port(Here, "default")) ELSE claimants
           trouble   == CASE Here \in req.path      -> "loop"
                          [] Cardinality(nexts) > 1 -> "overlap"
                          [] nexts = {}             -> "nowhere"
                          [] OTHER                  -> "none"
       IN  \/ trouble = "none" /\ \E p \in nexts : GoOn(p)
           \/ trouble # "none" /\ status' = trouble /\ UNCHANGED req

ThroughCache  == Sending(Caches) /\ GoOn(Peer(Port(Here, "mem_side")))
ThroughBridge == Sending(Bridges) /\ GoOn(Peer(Port(Here, "master")))

AtTarget == req # NoRequest /\ Here \notin Busses \cup Caches \cup Bridges

Answer ==
    /\ status = "running"
    /\ AtTarget
    /\ req' = NoRequest
    /\ UNCHANGED <<config, pc, made, wires, firmware, status>>

Next == \/ MakeObject \/ ConnectPorts \/ ReadSize \/ InstallFirmware \/ Instantiate
        \/ Send \/ ThroughBus \/ ThroughCache \/ ThroughBridge \/ Answer

Spec == Init /\ [][Next]_vars
---------------------------------------------------------------------------
(* Properties. *)
Objects == Busses \cup Bridges \cup Caches
           \cup {One(o) : o \in {"system", "badaddr", "io_apic", "ide", "pci_host", "mem_ctrl"}}
           \cup {<<o, i>> : o \in {"cpu", "interrupts"}, i \in CPUs}

(* Types: a wire joins a request port to a response port of objects that   *)
(* exist.  Whatever the order in which a script creates and connects       *)
(* things, every statement finds the objects and the free ports it needs,  *)
(* and no port that simulation uses is left open; only the caches of the   *)
(* full system need an option that run.py itself does not define.          *)
TypeOK ==
    /\ config \in Configs
    /\ pc \in 0 .. Len(Program)
    /\ made \subseteq Objects
    /\ \A w \in wires : /\ RequestPort(w[1]) /\ ResponsePort(w[2])
                         /\ {Object(w[1]), Object(w[2])} \subseteq made
    /\ firmware = NoFirmware \/ DOMAIN firmware = {"mp", "ioapicId", "e820", "bridge", "apicbridge", "iocache"}
    /\ status \in {"building", "failed", "running", "loop", "overlap", "nowhere"}
    /\ status = "failed" => FullSystem /\ config.opts = {ScriptOptions} /\ Program[pc].op = "option"
    /\ req = NoRequest \/ req.path \subseteq made

(* The device that should answer a request, from what the kernel and the   *)
(* MP table say of the machine.                                            *)
Owner(addr) ==
    CASE Within(addr, RAM)                              -> <<"mem_ctrl", 0, "port">>
      [] addr \in MemSize .. GB3 - 1                    -> <<"badaddr", 0, "pio">>
      [] Within(addr, UNION {LocalAPIC(i) : i \in CPUs})     -> <<"interrupts", (addr - LocalAPICBase) \div APICSize, "pio">>
      [] Within(addr, UNION {InterruptPage(i) : i \in CPUs}) -> <<"interrupts", (addr - InterruptBase) \div APICSize, "int_slave">>
      [] addr = IOAPICAddress                           -> <<"io_apic", 0, "pio">>
      [] OTHER                                          -> <<"pci_host", 0, "pio">>

(* A request ends at the device that owns its address, whichever port it   *)
(* came from: memory from every CPU, the loader and the disk; each local   *)
(* APIC from its CPU and, across the two bridges, from the I/O APIC; I/O   *)
(* and PCI space across the bridge.  Claims of two devices on a bus never  *)
(* overlap.                                                                *)
ReachesOwner ==
    /\ AtTarget => req.at = Owner(req.addr)
    /\ status \notin {"overlap", "nowhere"}

(* The ranges of the bridge, of the APIC bridge and of the I/O cache send  *)
(* no request round in a circle, but for mem_ranges[1]: the bridge passes  *)
(* it down and the I/O cache, whose addr_ranges are all mem_ranges, passes *)
(* it up again.                                                            *)
OnlyIOHoleLoops == status = "loop" => req.addr \in GB3 .. GB3 + IOHole - 1

(* The MP table describes the machine that was built: a processor for each *)
(* CPU, one of them bootstrap, an I/O APIC whose id is its own and the one *)
(* the south bridge was told; each interrupt of a pin comes from one       *)
(* source on a bus that is listed, and the pin of the 8259 is no other's.  *)
MPTableOK ==
    status = "running" /\ FullSystem =>
        LET mp == firmware.mp
        IN  /\ {p.id : p \in mp.processors} = {o[2] : o \in {q \in made : q[1] = "interrupts"}}
            /\ Cardinality({p \in mp.processors : p.bootstrap}) = 1
            /\ mp.ioapic \notin {p.id : p \in mp.processors}
            /\ mp.ioapic = firmware.ioapicId
            /\ {mp.parent.bus, mp.parent.parent} \subseteq mp.busses /\ mp.parent.bus # mp.parent.parent
            /\ \A i \in mp.ints : i.dest = mp.ioapic /\ i.bus \in mp.busses
            /\ \A i, k \in mp.ints : i.pin = k.pin /\ i # k => i.type = "ExtInt" /\ k.type = "ExtInt"

(* The memory map tells the kernel to use only what the memory controller  *)
(* has; its entries do not overlap, and they leave no gap below 3GB, where *)
(* the kernel would put devices that the bridge does not reach.            *)
MemoryMapOK ==
    status = "running" /\ FullSystem =>
        LET map == firmware.e820
            End(e) == e.addr + e.size
        IN  /\ \A e \in map : e.size > 0 /\ (e.type = 1 => End(e) <= MemSize)
            /\ \A e, f \in map : e # f => End(e) <= f.addr \/ End(f) <= e.addr
            /\ \A e \in map : End(e) \in {f.addr : f \in map} \cup {GB3, GB4}
            /\ \E e \in map : e.addr = 0
            /\ \E e \in map : End(e) = GB3
===========================================================================
