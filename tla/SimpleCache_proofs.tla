------------------------- MODULE SimpleCache_proofs -------------------------
(***************************************************************************)
(* Proofs about SimpleCache, for any number of ports, addresses, words and *)
(* bytes and any capacity: what OneRequestInService and the other          *)
(* invariants rest on is where the packet of the request is and what       *)
(* stands for it there.                                                    *)
(***************************************************************************)
EXTENDS SimpleCache, FiniteSetTheorems, TLAPS

Requests == Reads \cup Writes

(* The memory port holds at most a writeback. *)
PortFree == memBlocked = None \/ IsWriteback(memBlocked)

Idle ==
    /\ ~blocked /\ waitingPort = None /\ serving = None
    /\ access = None /\ original = None /\ replies = {} /\ PortFree

(* The cache serves a request: its port can take the response, ... *)
Serves ==
    /\ blocked /\ waitingPort \in Ports
    /\ serving \in [port : {waitingPort}, pkt : Requests]
    /\ respBlocked[waitingPort] = None

(* ... and the packet waits for accessTiming, ... *)
AtCache == access = serving.pkt /\ original = None /\ replies = {} /\ PortFree

(* ... or what accessTiming made of it waits in the memory port or the     *)
(* memory.  Nothing can insert its block before that is answered.          *)
StandsFor(pkt, req) ==
    /\ pkt.addr = req.addr /\ req.addr \notin DOMAIN store
    /\ IF WholeBlock(req)
       THEN /\ original = None /\ pkt.cmd = req.cmd
            /\ pkt.cmd = "WriteReq" => pkt.data = req.data
       ELSE original = req /\ pkt.cmd = "ReadReq"

AtPort ==
    /\ access = None /\ replies = {}
    /\ memBlocked \in MemPackets /\ StandsFor(memBlocked, serving.pkt)

AtMemory ==
    /\ access = None /\ memBlocked = None
    /\ \E pkt \in MemPackets : replies = {pkt} /\ StandsFor(pkt, serving.pkt)

ServeInv == Idle \/ (Serves /\ (AtCache \/ AtPort \/ AtMemory))

(* Refused requests are remembered, and are requests. *)
RetryInv ==
    \A p \in Ports :
       /\ held[p] \in OrNone(Requests)
       /\ held[p] # None <=> needRetry[p] \/ p \in mayResend
       /\ ~(needRetry[p] /\ p \in mayResend)
       /\ needRetry[p] => blocked \/ respBlocked[p] # None

PanicInv ==
    /\ panic # "cpu port"
    /\ panic = "mem port" => access # None /\ IsWriteback(memBlocked)

Inv == TypeOK /\ ServeInv /\ RetryInv /\ PanicInv
---------------------------------------------------------------------------
(* Packets and blocks. *)

(* The parts of a block are functions on some of its words. *)
LEMMA DataFacts ==
  /\ Block \subseteq Data
  /\ \A d \in Data : /\ DOMAIN d \subseteq Words /\ DOMAIN d \in Parts
                     /\ d \in [DOMAIN d -> Bytes]
  /\ \A W \in Parts : [W -> Bytes] \subseteq Data
  /\ Blank \in Block
BY DataAssumption DEF Block, Data, Parts, Blank

(* A request is a packet, and a memory packet is one unless it writes back. *)
LEMMA PacketFacts ==
  /\ Requests \subseteq Packets
  /\ \A pkt \in MemPackets : pkt.cmd # "WritebackDirty" => pkt \in Packets
<1>1. ASSUME NEW W \in Parts PROVE [w \in W |-> Zero] \in Data
  BY DataFacts, DataAssumption
<1>2. Reads \subseteq Packets
  BY <1>1 DEF Reads, Packets
<1>3. Writes \subseteq Packets
  BY DEF Writes, Packets
<1>4. \A pkt \in MemPackets : pkt.cmd # "WritebackDirty" => pkt \in Packets
  BY DataFacts DEF MemPackets, Packets
<1> QED
  BY <1>2, <1>3, <1>4 DEF Requests

(* None is no port, no address, no packet and no packet with a port. *)
LEMMA NotNone ==
  /\ None \notin Ports /\ None \notin Addrs /\ None \notin Packets /\ None \notin MemPackets
  /\ None \notin [port : Ports, pkt : Packets]
<1> DEFINE Pkts == [cmd : {"ReadReq", "WriteReq", "WritebackDirty"}, addr : Addrs,
                      data : UNION {[W -> Bytes] : W \in SUBSET Words}]
<1>1. None \notin Ports /\ None \notin Addrs /\ None \notin Pkts /\ None \notin [port : Ports, pkt : Pkts]
  BY NoneAssumption
<1>2. Data \subseteq UNION {[W -> Bytes] : W \in SUBSET Words}
  BY DEF Data, Parts
<1>3. Block \subseteq UNION {[W -> Bytes] : W \in SUBSET Words}
  BY DEF Block
<1>4. Packets \subseteq Pkts /\ MemPackets \subseteq Pkts
  BY <1>2, <1>3 DEF Packets, MemPackets
<1>5. [port : Ports, pkt : Packets] \subseteq [port : Ports, pkt : Pkts]
  BY <1>4
<1> HIDE DEF Pkts
<1> QED
  BY <1>1, <1>4, <1>5

(* writeDataToBlock and setDataFromBlock keep blocks blocks and packets    *)
(* packets, of the same command, address and size.                         *)
LEMMA OverlayType ==
  ASSUME NEW blk \in Block, NEW d \in Data
  PROVE  Overlay(blk, d) \in Block
BY DataFacts DEF Overlay, Block

(* The words that a packet asks for, out of a block, are data of its size. *)
LEMMA ExtractType ==
  ASSUME NEW blk \in Block, NEW pkt \in Packets
  PROVE  /\ Extract(blk, pkt) \in Packets
         /\ Extract(blk, pkt).cmd = pkt.cmd /\ Extract(blk, pkt).addr = pkt.addr
         /\ Extract(blk, pkt).data = [w \in DOMAIN pkt.data |-> blk[w]]
<1>1. [w \in DOMAIN pkt.data |-> blk[w]] \in Data
  BY DataFacts DEF Packets, Block
<1> QED
  BY <1>1 DEF Extract, Packets

(* A packet that has been served carries data of its own size. *)
LEMMA AfterType ==
  ASSUME NEW blk \in Block, NEW pkt \in Packets
  PROVE  BlockAfter(blk, pkt) \in Block /\ PacketAfter(blk, pkt) \in Packets
<1>1. pkt.data \in Data
  BY DEF Packets
<1> QED
  BY <1>1, OverlayType, ExtractType DEF BlockAfter, PacketAfter

(* The packet that a miss sends to memory. *)
LEMMA UpgradeType ==
  ASSUME NEW pkt \in Packets
  PROVE  /\ Upgrade(pkt) \in MemPackets /\ Upgrade(pkt).addr = pkt.addr
         /\ Upgrade(pkt).cmd \in {"ReadReq", "WriteReq"}
         /\ WholeBlock(pkt) => Upgrade(pkt) = pkt
         /\ ~WholeBlock(pkt) => Upgrade(pkt).cmd = "ReadReq"
<1>1. CASE WholeBlock(pkt)
  <2>1. pkt.data \in Block
    BY <1>1, DataFacts DEF Packets, WholeBlock, Block
  <2>2. pkt \in MemPackets
    BY <2>1 DEF Packets, MemPackets
  <2> QED
    BY <1>1, <2>2 DEF Upgrade, Packets
<1>2. CASE ~WholeBlock(pkt)
  BY <1>2, DataFacts DEF Packets, MemPackets, Upgrade
<1> QED
  BY <1>1, <1>2
---------------------------------------------------------------------------
(* The object starts idle, with empty ports and no packet anywhere. *)
LEMMA InitInv == Init => Inv
<1> SUFFICES ASSUME Init PROVE Inv
  OBVIOUS
<1>1. TypeOK
  <2>1. DOMAIN store = {} /\ store \in [DOMAIN store -> Block]
    BY DEF Init
  <2>2. Cardinality(DOMAIN store) <= Capacity
    BY <2>1, FS_EmptySet, CapacityAssumption
  <2>3. mem \in [Addrs -> Block]
    BY DataFacts DEF Init
  <2> QED
    BY <2>1, <2>2, <2>3 DEF Init, TypeOK, OrNone
<1>2. ServeInv
  BY DEF Init, ServeInv, Idle, PortFree
<1>3. RetryInv /\ PanicInv
  BY DEF Init, RetryInv, PanicInv, OrNone
<1> QED
  BY <1>1, <1>2, <1>3 DEF Inv

(* A panic changes nothing but panic. *)
LEMMA PanicStep ==
  ASSUME Inv, NEW port, Panic(port), port = "mem port", access # None, IsWriteback(memBlocked)
  PROVE  Inv'
<1>1. UNCHANGED <<blocked, waitingPort, access, original, store, respBlocked, memBlocked, mem, replies,
                  needRetry, held, mayResend, latest, serving, answer>> /\ panic' = "mem port"
  BY DEF Panic, serveVars, memVars, retryVars, ghosts
<1>2. TypeOK'
  BY <1>1 DEF Inv, TypeOK
<1>3. ServeInv'
  BY <1>1 DEF Inv, ServeInv, Idle, Serves, AtCache, AtPort, AtMemory, StandsFor, PortFree, IsWriteback
<1>4. RetryInv' /\ PanicInv'
  BY <1>1 DEF Inv, RetryInv, PanicInv, IsWriteback
<1> QED
  BY <1>2, <1>3, <1>4 DEF Inv

(* recvTimingReq. *)
LEMMA RecvTimingReqStep ==
  ASSUME Inv, NEW p \in Ports, NEW pkt \in Requests, RecvTimingReq(p, pkt),
         held[p] = None \/ p \in mayResend
  PROVE  Inv'
<1>0. /\ TypeOK /\ RetryInv /\ PanicInv /\ pkt \in Packets /\ pkt # None /\ panic = "none"
      /\ mayResend' = mayResend \ {p} /\ ~needRetry[p]
      /\ UNCHANGED <<original, store, respBlocked, memBlocked, mem, replies, panic, latest, answer>>
  BY PacketFacts, NotNone DEF Inv, RecvTimingReq, RetryInv, memVars
<1>1. CASE Refuses(p)
  <2>1. /\ needRetry' = [needRetry EXCEPT ![p] = TRUE] /\ held' = [held EXCEPT ![p] = pkt]
        /\ UNCHANGED <<blocked, waitingPort, access, serving>>
    BY <1>1 DEF RecvTimingReq
  <2>2. TypeOK'
    BY <1>0, <2>1 DEF TypeOK, OrNone
  <2>3. ServeInv'
    BY <1>0, <2>1 DEF Inv, ServeInv, Idle, Serves, AtCache, AtPort, AtMemory, StandsFor, PortFree, IsWriteback
  <2>4. RetryInv'
    <3> SUFFICES ASSUME NEW q \in Ports
                 PROVE  /\ held'[q] \in OrNone(Requests)
                        /\ held'[q] # None <=> needRetry'[q] \/ q \in mayResend'
                        /\ ~(needRetry'[q] /\ q \in mayResend')
                        /\ needRetry'[q] => blocked' \/ respBlocked'[q] # None
      BY DEF RetryInv
    <3>1. CASE q = p
      BY <1>0, <1>1, <2>1, <3>1 DEF TypeOK, Refuses, OrNone
    <3>2. CASE q # p
      BY <1>0, <2>1, <3>2 DEF TypeOK, RetryInv
    <3> QED
      BY <3>1, <3>2
  <2> QED
    BY <1>0, <2>1, <2>2, <2>3, <2>4 DEF Inv, PanicInv, IsWriteback
<1>2. CASE ~Refuses(p)
  <2>1. /\ blocked' = TRUE /\ waitingPort' = p /\ access' = pkt
        /\ serving' = [port |-> p, pkt |-> pkt]
        /\ held' = [held EXCEPT ![p] = None]
        /\ UNCHANGED needRetry
    BY <1>2 DEF RecvTimingReq
  <2>2. TypeOK'
    BY <1>0, <2>1 DEF TypeOK, OrNone
  <2>3. ServeInv'
    <3>1. Idle /\ respBlocked[p] = None
      BY <1>2 DEF Inv, ServeInv, Serves, Refuses
    <3>2. Serves' /\ AtCache'
      BY <1>0, <2>1, <3>1 DEF Serves, AtCache, Idle, PortFree, IsWriteback
    <3> QED
      BY <3>2 DEF ServeInv
  <2>4. RetryInv'
    <3> SUFFICES ASSUME NEW q \in Ports
                 PROVE  /\ held'[q] \in OrNone(Requests)
                        /\ held'[q] # None <=> needRetry'[q] \/ q \in mayResend'
                        /\ ~(needRetry'[q] /\ q \in mayResend')
                        /\ needRetry'[q] => blocked' \/ respBlocked'[q] # None
      BY DEF RetryInv
    <3>1. CASE q = p
      BY <1>0, <2>1, <3>1 DEF TypeOK, OrNone
    <3>2. CASE q # p
      BY <1>0, <2>1, <3>2 DEF TypeOK, RetryInv
    <3> QED
      BY <3>1, <3>2
  <2> QED
    BY <1>0, <2>1, <2>2, <2>3, <2>4 DEF Inv, PanicInv
<1> QED
  BY <1>1, <1>2

(* What sendResponse does, with the retries it sends. *)
LEMMA SendResponseFacts ==
  ASSUME TypeOK, RetryInv, blocked, waitingPort \in Ports, NEW pkt \in Packets, SendResponse(pkt)
  PROVE  /\ blocked' = FALSE /\ waitingPort' = None /\ serving' = None
         /\ respBlocked' \in [Ports -> OrNone(Packets)]
         /\ needRetry' \in [Ports -> BOOLEAN]
         /\ mayResend' \subseteq Ports /\ held' = held
         /\ answer' = [port |-> waitingPort, pkt |-> pkt] /\ answer' \in [port : Ports, pkt : Packets]
         /\ latest' \in [Addrs -> Block]
         /\ RetryInv'
<1>1. /\ blocked' = FALSE /\ waitingPort' = None /\ serving' = None
      /\ answer' = [port |-> waitingPort, pkt |-> pkt]
      /\ respBlocked' = respBlocked \/ respBlocked' = [respBlocked EXCEPT ![waitingPort] = pkt]
      /\ latest' = latest \/ latest' = [latest EXCEPT ![pkt.addr] = Overlay(latest[pkt.addr], pkt.data)]
      /\ TrySendRetry(Ports)
  BY DEF SendResponse
<1>2. PICK free \in SUBSET Ports :
         /\ free = {p \in Ports : needRetry[p] /\ respBlocked'[p] = None}
         /\ needRetry' = [p \in Ports |-> needRetry[p] /\ p \notin free]
         /\ mayResend' = mayResend \cup free /\ held' = held
  BY <1>1 DEF TrySendRetry
<1>3. respBlocked' \in [Ports -> OrNone(Packets)]
  BY <1>1 DEF TypeOK, OrNone
<1>4. needRetry' \in [Ports -> BOOLEAN] /\ mayResend' \subseteq Ports
  BY <1>2 DEF TypeOK
<1>5. latest' \in [Addrs -> Block]
  <2>1. pkt.addr \in Addrs /\ pkt.data \in Data
    BY DEF Packets
  <2>2. Overlay(latest[pkt.addr], pkt.data) \in Block
    BY <2>1, OverlayType DEF TypeOK
  <2> QED
    BY <1>1, <2>2 DEF TypeOK
<1>6. RetryInv'
  <2> SUFFICES ASSUME NEW p \in Ports
               PROVE  /\ held'[p] \in OrNone(Requests)
                      /\ held'[p] # None <=> needRetry'[p] \/ p \in mayResend'
                      /\ ~(needRetry'[p] /\ p \in mayResend')
                      /\ needRetry'[p] => blocked' \/ respBlocked'[p] # None
    BY DEF RetryInv
  <2>1. needRetry'[p] <=> needRetry[p] /\ p \notin free
    BY <1>2
  <2>2. p \in mayResend' <=> p \in mayResend \/ p \in free
    BY <1>2
  <2>3. p \in free <=> needRetry[p] /\ respBlocked'[p] = None
    BY <1>2
  <2> QED
    BY <1>2, <2>1, <2>2, <2>3 DEF RetryInv
<1> QED
  BY <1>1, <1>2, <1>3, <1>4, <1>5, <1>6

(* accessTiming on a hit. *)
LEMMA HitStep == ASSUME Inv, Hit PROVE Inv'
<1>0. /\ TypeOK /\ RetryInv /\ PanicInv /\ panic = "none" /\ access # None /\ access.addr \in DOMAIN store
      /\ access \in Packets
  BY DEF Inv, Hit, TypeOK, OrNone
<1>1. Serves /\ AtCache
  BY <1>0 DEF Inv, ServeInv, Idle, AtPort, AtMemory
<1>2. blocked /\ waitingPort \in Ports /\ respBlocked[waitingPort] = None
  BY <1>1 DEF Serves
<1> DEFINE blk == store[access.addr]
           pkt == PacketAfter(blk, access)
<1>3. /\ store' = [store EXCEPT ![access.addr] = BlockAfter(blk, access)]
      /\ SendResponse(pkt) /\ access' = None
      /\ UNCHANGED <<original, memBlocked, mem, replies, panic>>
  BY <1>2 DEF Hit, CpuPortPanics, memVars
<1>4. blk \in Block
  BY <1>0 DEF TypeOK
<1>5. pkt \in Packets /\ BlockAfter(blk, access) \in Block
  BY <1>0, <1>4, AfterType
<1>6. /\ DOMAIN store' = DOMAIN store /\ store' \in [DOMAIN store' -> Block]
  BY <1>0, <1>3, <1>5 DEF TypeOK
<1> HIDE DEF blk, pkt
<1>7. /\ blocked' = FALSE /\ waitingPort' = None /\ serving' = None
      /\ respBlocked' \in [Ports -> OrNone(Packets)]
      /\ needRetry' \in [Ports -> BOOLEAN]
      /\ mayResend' \subseteq Ports /\ held' = held
      /\ answer' \in [port : Ports, pkt : Packets]
      /\ latest' \in [Addrs -> Block]
      /\ RetryInv'
  BY <1>0, <1>2, <1>3, <1>5, SendResponseFacts
<1>8. TypeOK'
  BY <1>0, <1>3, <1>6, <1>7 DEF TypeOK, OrNone
<1>9. Idle'
  BY <1>1, <1>3, <1>7 DEF AtCache, Idle, PortFree, IsWriteback
<1> QED
  BY <1>0, <1>3, <1>7, <1>8, <1>9 DEF Inv, ServeInv, PanicInv

(* The memory port and the memory after sendPacket. *)
LEMMA MemSendFacts ==
  ASSUME TypeOK, memBlocked = None, NEW pkt \in MemPackets, NEW waiting \in SUBSET MemPackets,
         MemSend(pkt, waiting)
  PROVE  /\ memBlocked' \in OrNone(MemPackets) /\ mem' \in [Addrs -> Block] /\ replies' \subseteq MemPackets
         /\ \/ memBlocked' = pkt /\ replies' = waiting /\ mem' = mem
            \/ /\ memBlocked' = None
               /\ mem' = IF pkt.cmd = "ReadReq" THEN mem ELSE [mem EXCEPT ![pkt.addr] = pkt.data]
               /\ replies' = IF pkt.cmd = "WritebackDirty" THEN waiting
                             ELSE waiting \cup {PacketAfter(mem[pkt.addr], pkt)}
<1>1. pkt.addr \in Addrs /\ pkt.data \in Block
  BY DEF MemPackets
<1>2. mem[pkt.addr] \in Block
  BY <1>1 DEF TypeOK
<1>3. PacketAfter(mem[pkt.addr], pkt) \in MemPackets
  BY <1>1, <1>2 DEF PacketAfter, Extract, MemPackets, Block
<1> QED
  BY <1>1, <1>3 DEF MemSend, MemTakes, TypeOK, OrNone

(* accessTiming on a miss. *)
LEMMA MissStep == ASSUME Inv, Miss PROVE Inv'
<1>0. /\ TypeOK /\ RetryInv /\ PanicInv /\ panic = "none" /\ access # None /\ access.addr \notin DOMAIN store
      /\ access \in Packets
  BY DEF Inv, Miss, TypeOK, OrNone
<1>1. Serves /\ AtCache
  BY <1>0 DEF Inv, ServeInv, Idle, AtPort, AtMemory
<1>2. CASE MemPortPanics
  BY <1>0, <1>1, <1>2, PanicStep DEF Miss, MemPortPanics, AtCache, PortFree
<1>3. CASE ~MemPortPanics
  <2>0. memBlocked = None /\ replies = {} /\ original = None /\ access = serving.pkt
    BY <1>1, <1>3 DEF MemPortPanics, AtCache
  <2>1. /\ original' = IF WholeBlock(access) THEN original ELSE access
        /\ MemSend(Upgrade(access), {})
        /\ access' = None
        /\ UNCHANGED <<blocked, waitingPort, store, respBlocked, panic, needRetry, held, mayResend,
                       latest, serving, answer>>
    BY <1>3, <2>0 DEF Miss, retryVars, ghosts
  <2> DEFINE pkt == Upgrade(access)
  <2>2. /\ pkt \in MemPackets /\ pkt.addr = access.addr /\ pkt.cmd \in {"ReadReq", "WriteReq"}
        /\ WholeBlock(access) => pkt = access
        /\ ~WholeBlock(access) => pkt.cmd = "ReadReq"
    BY <1>0, UpgradeType
  <2>3. /\ memBlocked' \in OrNone(MemPackets) /\ mem' \in [Addrs -> Block] /\ replies' \subseteq MemPackets
        /\ \/ memBlocked' = pkt /\ replies' = {}
           \/ memBlocked' = None /\ replies' = {PacketAfter(mem[pkt.addr], pkt)}
    BY <1>0, <2>0, <2>1, <2>2, MemSendFacts
  <2> HIDE DEF pkt
  <2>4. TypeOK'
    BY <1>0, <2>0, <2>1, <2>3 DEF TypeOK, OrNone
  <2>5. Serves'
    BY <1>1, <2>1 DEF Serves
  <2>6. ASSUME NEW q, q.addr = pkt.addr, q.cmd = pkt.cmd, pkt.cmd = "WriteReq" => q.data = pkt.data
        PROVE  StandsFor(q, serving.pkt)'
    BY <1>0, <2>0, <2>1, <2>2, <2>6 DEF StandsFor, WholeBlock
  <2>7. CASE memBlocked' = pkt /\ replies' = {}
    <3>1. AtPort'
      BY <2>1, <2>2, <2>6, <2>7 DEF AtPort
    <3> QED
      BY <1>0, <2>1, <2>4, <2>5, <3>1 DEF Inv, ServeInv, RetryInv, PanicInv
  <2>8. CASE memBlocked' = None /\ replies' = {PacketAfter(mem[pkt.addr], pkt)}
    <3>0. PICK q : q = PacketAfter(mem[pkt.addr], pkt)
      OBVIOUS
    <3>1. q.addr = pkt.addr /\ q.cmd = pkt.cmd /\ (pkt.cmd = "WriteReq" => q.data = pkt.data)
      BY <2>2, <3>0 DEF PacketAfter, Extract, MemPackets
    <3>2. StandsFor(q, serving.pkt)'
      BY <2>6, <3>1
    <3>3. q \in MemPackets
      BY <2>3, <2>8, <3>0
    <3>4. AtMemory'
      BY <2>1, <2>8, <3>0, <3>2, <3>3 DEF AtMemory
    <3> QED
      BY <1>0, <2>1, <2>4, <2>5, <3>4 DEF Inv, ServeInv, RetryInv, PanicInv
  <2> QED
    BY <2>3, <2>7, <2>8
<1> QED
  BY <1>2, <1>3

(* recvReqRetry: a stored packet goes to the memory, or stays. *)
LEMMA RecvReqRetryStep == ASSUME Inv, RecvReqRetry PROVE Inv'
<1>0. /\ TypeOK /\ RetryInv /\ PanicInv /\ panic = "none" /\ memBlocked # None /\ memBlocked \in MemPackets
      /\ UNCHANGED <<blocked, waitingPort, access, original, store, respBlocked, panic, needRetry, held,
                     mayResend, latest, serving, answer>>
  BY DEF Inv, RecvReqRetry, serveVars, retryVars, ghosts, TypeOK, OrNone
<1>1. CASE UNCHANGED memVars
  <2>1. UNCHANGED <<memBlocked, mem, replies>>
    BY <1>1 DEF memVars
  <2> QED
    BY <1>0, <2>1 DEF Inv, TypeOK, ServeInv, Idle, Serves, AtCache, AtPort, AtMemory, StandsFor, PortFree,
                      IsWriteback, RetryInv, PanicInv
<1>2. CASE MemTakes(memBlocked, replies) /\ memBlocked' = None
  <2>0. PICK q : q = PacketAfter(mem[memBlocked.addr], memBlocked)
    OBVIOUS
  <2>1. /\ mem' = IF memBlocked.cmd = "ReadReq" THEN mem ELSE [mem EXCEPT ![memBlocked.addr] = memBlocked.data]
        /\ replies' = IF memBlocked.cmd = "WritebackDirty" THEN replies ELSE replies \cup {q}
    BY <1>2, <2>0 DEF MemTakes
  <2>2. q \in MemPackets /\ q.addr = memBlocked.addr /\ q.cmd = memBlocked.cmd
        /\ (q.cmd = "WriteReq" => q.data = memBlocked.data)
    BY <1>0, <2>0 DEF PacketAfter, Extract, MemPackets, TypeOK, Block
  <2>3. TypeOK'
    BY <1>0, <1>2, <2>1, <2>2 DEF TypeOK, OrNone, MemPackets
  <2>4. ServeInv'
    <3>1. CASE Idle
      BY <1>0, <1>2, <2>1, <3>1 DEF ServeInv, Idle, PortFree, IsWriteback
    <3>2. CASE Serves /\ AtCache
      BY <1>0, <1>2, <2>1, <3>2 DEF ServeInv, Serves, AtCache, PortFree, IsWriteback
    <3>3. CASE Serves /\ AtPort
      <4>1. memBlocked.cmd # "WritebackDirty"
        BY <3>3 DEF Serves, AtPort, StandsFor, Requests, Reads, Writes
      <4>2. StandsFor(q, serving.pkt)'
        BY <1>0, <2>2, <3>3 DEF AtPort, StandsFor, WholeBlock
      <4>3. replies' = {q}
        BY <2>1, <3>3, <4>1 DEF AtPort
      <4>4. Serves' /\ AtMemory'
        BY <1>0, <1>2, <2>2, <3>3, <4>2, <4>3 DEF Serves, AtMemory, AtPort
      <4> QED
        BY <4>4 DEF ServeInv
    <3> QED
      BY <1>0, <3>1, <3>2, <3>3 DEF Inv, ServeInv, AtMemory
  <2> QED
    BY <1>0, <2>3, <2>4 DEF Inv, RetryInv, PanicInv
<1> QED
  BY <1>1, <1>2 DEF RecvReqRetry

(* recvRespRetry: a stored response goes to the peer, or stays. *)
LEMMA RecvRespRetryStep == ASSUME Inv, NEW p \in Ports, RecvRespRetry(p) PROVE Inv'
<1>0. /\ TypeOK /\ RetryInv /\ PanicInv /\ panic = "none" /\ respBlocked[p] # None
      /\ respBlocked' = respBlocked \/ respBlocked' = [respBlocked EXCEPT ![p] = None]
      /\ TrySendRetry({p})
      /\ UNCHANGED <<blocked, waitingPort, access, original, store, memBlocked, mem, replies, panic,
                     latest, serving, answer>>
  BY DEF Inv, RecvRespRetry, serveVars, memVars, ghosts
<1>1. PICK free \in SUBSET {p} :
         /\ free = {q \in {p} : needRetry[q] /\ respBlocked'[q] = None}
         /\ needRetry' = [q \in Ports |-> needRetry[q] /\ q \notin free]
         /\ mayResend' = mayResend \cup free /\ held' = held
  BY <1>0 DEF TrySendRetry
<1>2. TypeOK'
  BY <1>0, <1>1 DEF TypeOK, OrNone
<1>3. ServeInv'
  <2>1. \A q \in Ports : respBlocked[q] = None => respBlocked'[q] = None
    BY <1>0 DEF TypeOK
  <2> QED
    BY <1>0, <2>1 DEF Inv, ServeInv, Idle, Serves, AtCache, AtPort, AtMemory, StandsFor, PortFree, IsWriteback
<1>4. RetryInv'
  <2> SUFFICES ASSUME NEW q \in Ports
               PROVE  /\ held'[q] \in OrNone(Requests)
                      /\ held'[q] # None <=> needRetry'[q] \/ q \in mayResend'
                      /\ ~(needRetry'[q] /\ q \in mayResend')
                      /\ needRetry'[q] => blocked' \/ respBlocked'[q] # None
    BY DEF RetryInv
  <2>1. needRetry'[q] <=> needRetry[q] /\ q \notin free
    BY <1>1
  <2>2. q \in mayResend' <=> q \in mayResend \/ q \in free
    BY <1>1
  <2>3. q \in free <=> q = p /\ needRetry[q] /\ respBlocked'[q] = None
    BY <1>1
  <2>4. q # p => respBlocked'[q] = respBlocked[q]
    BY <1>0 DEF TypeOK
  <2> QED
    BY <1>0, <1>1, <2>1, <2>2, <2>3, <2>4 DEF RetryInv
<1> QED
  BY <1>0, <1>2, <1>3, <1>4 DEF Inv, PanicInv, IsWriteback

(* A functional write. *)
LEMMA HandleFunctionalStep == ASSUME Inv, NEW pkt \in Writes, HandleFunctional(pkt) PROVE Inv'
<1>0. /\ TypeOK /\ RetryInv /\ PanicInv
      /\ UNCHANGED <<blocked, waitingPort, access, original, respBlocked, memBlocked, replies, panic,
                     needRetry, held, mayResend, serving, answer>>
  BY DEF Inv, HandleFunctional, serveVars, retryVars
<1>1. pkt.addr \in Addrs /\ pkt.data \in Data
  BY DEF Writes
<1>2. latest' \in [Addrs -> Block]
  BY <1>0, <1>1, OverlayType DEF HandleFunctional, TypeOK
<1>3. DOMAIN store' = DOMAIN store /\ store' \in [DOMAIN store' -> Block] /\ mem' \in [Addrs -> Block]
  <2>1. CASE pkt.addr \in DOMAIN store
    <3>1. Overlay(store[pkt.addr], pkt.data) \in Block
      BY <1>0, <1>1, <2>1, OverlayType DEF TypeOK
    <3> QED
      BY <1>0, <2>1, <3>1 DEF HandleFunctional, TypeOK
  <2>2. CASE pkt.addr \notin DOMAIN store
    <3>1. Overlay(mem[pkt.addr], pkt.data) \in Block
      BY <1>0, <1>1, OverlayType DEF TypeOK
    <3> QED
      BY <1>0, <2>2, <3>1 DEF HandleFunctional, TypeOK
  <2> QED
    BY <2>1, <2>2
<1>4. TypeOK'
  BY <1>0, <1>2, <1>3 DEF TypeOK
<1>5. ServeInv'
  BY <1>0, <1>3 DEF Inv, ServeInv, Idle, Serves, AtCache, AtPort, AtMemory, StandsFor, PortFree, IsWriteback
<1> QED
  BY <1>0, <1>4, <1>5 DEF Inv, RetryInv, PanicInv, IsWriteback

(* handleResponse finds both ports free, and asked is the request: it does *)
(* not panic.                                                              *)
Asks(pkt) == IF original = None THEN pkt ELSE original

(* What handleResponse finds, and what it does. *)
LEMMA HandleResponseFacts ==
  ASSUME Inv, NEW pkt, HandleResponse(pkt)
  PROVE  /\ TypeOK /\ RetryInv /\ PanicInv /\ panic = "none" /\ Serves
         /\ pkt \in MemPackets /\ replies = {pkt} /\ StandsFor(pkt, serving.pkt) /\ pkt.addr \in Addrs
         /\ pkt.cmd \in {"ReadReq", "WriteReq"} /\ pkt.data \in Block
         /\ Asks(pkt) \in Packets /\ Asks(pkt).addr = pkt.addr
         /\ access = None /\ memBlocked = None /\ blocked /\ waitingPort \in Ports
         /\ pkt.addr \notin DOMAIN store
         /\ \E victim \in Victims :
               /\ Writeback(victim, {})
               /\ store' = [a \in (DOMAIN store \ {victim}) \cup {pkt.addr} |->
                              IF a = pkt.addr THEN BlockAfter(pkt.data, Asks(pkt)) ELSE store[a]]
               /\ SendResponse(PacketAfter(pkt.data, Asks(pkt)))
               /\ original' = None
               /\ UNCHANGED <<access, panic>>
<1>1. TypeOK /\ RetryInv /\ PanicInv /\ panic = "none" /\ pkt \in replies
  BY DEF Inv, HandleResponse
<1>2. Serves /\ AtMemory
  BY <1>1 DEF Inv, ServeInv, Idle, AtCache, AtPort
<1>3. pkt \in MemPackets /\ replies = {pkt} /\ StandsFor(pkt, serving.pkt) /\ access = None /\ memBlocked = None
  BY <1>1, <1>2 DEF AtMemory
<1>4. blocked /\ waitingPort \in Ports /\ respBlocked[waitingPort] = None /\ serving.pkt \in Requests
  BY <1>2 DEF Serves
<1>5. pkt.cmd \in {"ReadReq", "WriteReq"} /\ pkt.addr \notin DOMAIN store
  BY <1>3, <1>4 DEF StandsFor, Requests, Reads, Writes
<1>6. Asks(pkt) \in Packets /\ Asks(pkt).addr = pkt.addr
  BY <1>3, <1>4, <1>5, PacketFacts DEF StandsFor, Asks
<1>7. pkt.addr \in Addrs /\ pkt.data \in Block
  BY <1>3 DEF MemPackets
<1>8. replies \ {pkt} = {}
  BY <1>3
<1>9. PICK victim \in Victims :
        /\ Writeback(victim, {})
        /\ store' = [a \in (DOMAIN store \ {victim}) \cup {pkt.addr} |->
                       IF a = pkt.addr THEN BlockAfter(pkt.data, Asks(pkt)) ELSE store[a]]
        /\ SendResponse(PacketAfter(pkt.data, Asks(pkt)))
        /\ original' = None
        /\ UNCHANGED <<access, panic>>
  BY <1>3, <1>4, <1>8 DEF HandleResponse, MemPortPanics, CpuPortPanics, Asks
<1> QED
  BY <1>1, <1>2, <1>3, <1>4, <1>5, <1>6, <1>7, <1>9

(* The cache stays within its capacity: insert makes room when it is full. *)
LEMMA InsertFits ==
  ASSUME NEW S \in SUBSET Addrs, Cardinality(S) <= Capacity, NEW a \in Addrs \ S, NEW v,
         v \in (IF Cardinality(S) >= Capacity THEN S ELSE {None})
  PROVE  Cardinality((S \ {v}) \cup {a}) <= Capacity
<1>1. IsFiniteSet(S) /\ Cardinality(S) \in Nat /\ Capacity \in Nat \ {0}
  BY DataAssumption, CapacityAssumption, FS_Subset, FS_CardinalityType
<1>2. IsFiniteSet(S \ {v}) /\ Cardinality((S \ {v}) \cup {a}) = Cardinality(S \ {v}) + 1
  BY <1>1, FS_RemoveElement, FS_AddElement
<1>3. CASE Cardinality(S) >= Capacity
  BY <1>1, <1>2, <1>3, FS_RemoveElement
<1>4. CASE ~(Cardinality(S) >= Capacity)
  <2>1. S \ {v} = S
    BY <1>4, NotNone
  <2> QED
    BY <1>1, <1>2, <1>4, <2>1
<1> QED
  BY <1>3, <1>4

(* The writeback finds the memory port free, and leaves at most itself there. *)
LEMMA WritebackFacts ==
  ASSUME TypeOK, memBlocked = None, NEW victim \in Victims, Writeback(victim, {})
  PROVE  /\ mem' \in [Addrs -> Block] /\ replies' = {} /\ PortFree' /\ memBlocked' \in OrNone(MemPackets)
         /\ victim = None => mem' = mem /\ memBlocked' = None
         /\ victim # None =>
               /\ victim \in DOMAIN store
               /\ \/ mem' = mem /\ memBlocked' = [cmd |-> "WritebackDirty", addr |-> victim, data |-> store[victim]]
                  \/ mem' = [mem EXCEPT ![victim] = store[victim]] /\ memBlocked' = None
<1>1. CASE victim = None
  BY <1>1 DEF Writeback, TypeOK, PortFree, OrNone
<1>2. CASE victim # None
  <2> DEFINE pkt == [cmd |-> "WritebackDirty", addr |-> victim, data |-> store[victim]]
  <2>1. victim \in DOMAIN store
    BY <1>2 DEF Victims
  <2>2. pkt \in MemPackets
    BY <2>1 DEF TypeOK, MemPackets
  <2>3. MemSend(pkt, {})
    BY <1>2 DEF Writeback
  <2>4. /\ memBlocked' \in OrNone(MemPackets) /\ mem' \in [Addrs -> Block]
        /\ \/ memBlocked' = pkt /\ replies' = {} /\ mem' = mem
           \/ memBlocked' = None /\ mem' = [mem EXCEPT ![victim] = store[victim]] /\ replies' = {}
    BY <2>2, <2>3, MemSendFacts
  <2> QED
    BY <1>2, <2>1, <2>4 DEF PortFree, IsWriteback
<1> QED
  BY <1>1, <1>2

(* handleResponse: the insertion, the writeback and the answer together. *)
LEMMA HandleResponseStep == ASSUME Inv, NEW pkt, HandleResponse(pkt) PROVE Inv'
<1>0. /\ TypeOK /\ RetryInv /\ PanicInv /\ panic = "none"
      /\ Asks(pkt) \in Packets /\ pkt.addr \in Addrs /\ pkt.data \in Block
      /\ access = None /\ memBlocked = None /\ blocked /\ waitingPort \in Ports
      /\ pkt.addr \notin DOMAIN store
  BY HandleResponseFacts
<1>1. PICK victim \in Victims :
        /\ Writeback(victim, {})
        /\ store' = [a \in (DOMAIN store \ {victim}) \cup {pkt.addr} |->
                       IF a = pkt.addr THEN BlockAfter(pkt.data, Asks(pkt)) ELSE store[a]]
        /\ SendResponse(PacketAfter(pkt.data, Asks(pkt)))
        /\ original' = None
        /\ UNCHANGED <<access, panic>>
  BY HandleResponseFacts
<1>2. BlockAfter(pkt.data, Asks(pkt)) \in Block /\ PacketAfter(pkt.data, Asks(pkt)) \in Packets
  BY <1>0, AfterType
<1>3. mem' \in [Addrs -> Block] /\ replies' = {} /\ PortFree' /\ memBlocked' \in OrNone(MemPackets)
  BY <1>0, <1>1, WritebackFacts
<1>4. /\ blocked' = FALSE /\ waitingPort' = None /\ serving' = None
      /\ respBlocked' \in [Ports -> OrNone(Packets)]
      /\ needRetry' \in [Ports -> BOOLEAN]
      /\ mayResend' \subseteq Ports /\ held' = held
      /\ answer' \in [port : Ports, pkt : Packets]
      /\ latest' \in [Addrs -> Block]
      /\ RetryInv'
  BY <1>0, <1>1, <1>2, SendResponseFacts
<1>5. /\ DOMAIN store' = (DOMAIN store \ {victim}) \cup {pkt.addr}
      /\ DOMAIN store' \subseteq Addrs /\ store' \in [DOMAIN store' -> Block]
  BY <1>0, <1>1, <1>2 DEF TypeOK
<1>6. Cardinality(DOMAIN store') <= Capacity
  <2>1. DOMAIN store \in SUBSET Addrs /\ Cardinality(DOMAIN store) <= Capacity
    BY <1>0 DEF TypeOK
  <2>2. victim \in (IF Cardinality(DOMAIN store) >= Capacity THEN DOMAIN store ELSE {None})
    BY DEF Victims
  <2> QED
    BY <1>0, <1>5, <2>1, <2>2, InsertFits
<1>7. TypeOK'
  BY <1>0, <1>1, <1>3, <1>4, <1>5, <1>6 DEF TypeOK, OrNone
<1>8. Idle'
  BY <1>0, <1>1, <1>3, <1>4 DEF Idle
<1> QED
  BY <1>0, <1>1, <1>4, <1>7, <1>8 DEF Inv, ServeInv, PanicInv
---------------------------------------------------------------------------
(* A peer sends requests: new ones, and those it was sent a retry for. *)
LEMMA RequestsOnly ==
  ASSUME Inv, NEW p \in Ports, NewRequest(p) \/ Resend(p)
  PROVE  \E pkt \in Requests : RecvTimingReq(p, pkt) /\ (held[p] = None \/ p \in mayResend)
BY DEF Inv, RetryInv, NewRequest, Resend, OrNone, Requests

(* Every step keeps the control part of the invariant. *)
LEMMA StepInv == ASSUME Inv, [Next]_vars PROVE Inv'
<1>1. ASSUME NEW p \in Ports, NewRequest(p) \/ Resend(p) PROVE Inv'
  BY <1>1, RequestsOnly, RecvTimingReqStep
<1>2. CASE UNCHANGED vars
  BY <1>2 DEF vars, serveVars, memVars, retryVars, ghosts, Inv, TypeOK, ServeInv, Idle, Serves, AtCache,
              AtPort, AtMemory, StandsFor, PortFree, IsWriteback, RetryInv, PanicInv
<1> QED
  BY <1>1, <1>2, RecvRespRetryStep, HitStep, MissStep, RecvReqRetryStep, HandleResponseStep,
     HandleFunctionalStep DEF Next

(* The invariant holds in every reachable state. *)
LEMMA InvCorrect == Spec => []Inv
BY InitInv, StepInv, PTL DEF Spec

(* Every field of the cache, its ports, its peers and the memory keeps its *)
(* type, and the cache never holds more blocks than its size allows.       *)
THEOREM TypeCorrect == Spec => []TypeOK
<1>1. Inv => TypeOK
  BY DEF Inv
<1> QED
  BY <1>1, InvCorrect, PTL

(* SimpleCache loses no retry: a refused peer is remembered by its port or *)
(* was sent a retry, and a port that remembers one waits for something     *)
(* that ends in trySendRetry.                                              *)
THEOREM RetryCorrect == Spec => []NoRetryForgotten
<1>1. Inv => NoRetryForgotten
  BY DEF Inv, RetryInv, NoRetryForgotten
<1> QED
  BY <1>1, InvCorrect, PTL

(* The request the blocked cache serves is in exactly one place, and       *)
(* nothing of it is left when the cache is not blocked.                    *)
LEMMA InvImpliesOneRequest == ASSUME Inv PROVE OneRequestInService
<1>0. TypeOK
  BY DEF Inv
<1>1. CASE Idle
  <2>1. Asked = {}
    BY <1>1 DEF Asked, Idle, PortFree, IsWriteback, OrNone
  <2> QED
    BY <1>1, <2>1, FS_EmptySet DEF Idle, OneRequestInService
<1>2. ASSUME Serves, NEW pkt, Asked = {pkt}, original # None => access = None /\ StandsFor(pkt, serving.pkt)
      PROVE  OneRequestInService
  <2>1. blocked /\ waitingPort # None
    BY <1>2, NotNone DEF Serves
  <2>2. Cardinality(Asked) = 1
    BY <1>2, FS_Singleton
  <2>3. ASSUME original # None
        PROVE  pkt.cmd = "ReadReq" /\ pkt.addr = original.addr /\ ~WholeBlock(original)
    BY <1>2, <2>3 DEF StandsFor
  <2> QED
    BY <1>2, <2>1, <2>2, <2>3 DEF OneRequestInService
<1>3. CASE Serves /\ AtCache
  <2>1. access \in Packets /\ access # None
    BY <1>3, PacketFacts, NotNone DEF Serves, AtCache
  <2>2. Asked = {access}
    BY <1>3, <2>1 DEF Asked, AtCache, PortFree, IsWriteback, OrNone
  <2> QED
    BY <1>2, <1>3, <2>2 DEF AtCache
<1>4. CASE Serves /\ AtPort
  <2>1. memBlocked # None /\ ~IsWriteback(memBlocked)
    BY <1>4, NotNone DEF Serves, AtPort, StandsFor, Requests, Reads, Writes, IsWriteback
  <2>2. Asked = {memBlocked}
    BY <1>4, <2>1 DEF Asked, AtPort, OrNone
  <2> QED
    BY <1>2, <1>4, <2>2 DEF AtPort
<1>5. CASE Serves /\ AtMemory
  <2>1. PICK pkt \in MemPackets : replies = {pkt} /\ StandsFor(pkt, serving.pkt)
    BY <1>5 DEF AtMemory
  <2>2. Asked = {pkt}
    BY <1>5, <2>1, NotNone DEF Asked, AtMemory, OrNone
  <2> QED
    BY <1>2, <1>5, <2>1, <2>2 DEF AtMemory
<1> QED
  BY <1>1, <1>3, <1>4, <1>5 DEF Inv, ServeInv

(* While SimpleCache is blocked its request is in exactly one place, and   *)
(* when it is not, originalPacket and the rest are clear.                  *)
THEOREM OneRequestCorrect == Spec => []OneRequestInService
<1>1. Inv => OneRequestInService
  BY InvImpliesOneRequest
<1> QED
  BY <1>1, InvCorrect, PTL

(* "Should never try to send if blocked!" fires in MemSidePort only, and   *)
(* only for a miss behind a refused writeback.                             *)
THEOREM PanicsCorrect == Spec => []OnlyMissPanics
<1>1. Inv => OnlyMissPanics
  BY DEF Inv, ServeInv, Idle, AtCache, AtPort, AtMemory, PanicInv, OnlyMissPanics
<1> QED
  BY <1>1, InvCorrect, PTL
---------------------------------------------------------------------------
(* Data.  Functional writes come between packets, as long as no packet is  *)
(* below the cache: what FunctionalAnytime = FALSE says.                   *)

(* What the cache, a refused writeback or the memory holds of a block is   *)
(* what the answered writes left, and so is what the memory read.          *)
DataInv ==
    /\ \A a \in Addrs : Newest(a) = latest[a] \/ \E pkt \in replies : pkt.cmd = "WriteReq" /\ pkt.addr = a
    /\ \A pkt \in replies : pkt.cmd = "ReadReq" => pkt.data = latest[pkt.addr]

(* At the start the memory holds everything. *)
LEMMA InitData == ASSUME Init PROVE DataInv
BY DEF Init, DataInv, Newest, IsWriteback

(* Nothing of the data changes. *)
LEMMA KeepData ==
  ASSUME DataInv, UNCHANGED <<store, memBlocked, mem, replies, latest>>
  PROVE  DataInv'
BY DEF DataInv, Newest, IsWriteback

(* A hit reads or writes the block that stands for its address. *)
LEMMA HitData == ASSUME Inv, DataInv, Hit PROVE DataInv'
<1>0. TypeOK /\ access # None /\ access.addr \in DOMAIN store /\ access \in Packets
  BY DEF Inv, Hit, TypeOK, OrNone
<1>1. Serves /\ AtCache
  BY <1>0 DEF Inv, ServeInv, Idle, AtPort, AtMemory
<1>2. replies = {} /\ respBlocked[waitingPort] = None
  BY <1>1 DEF Serves, AtCache
<1> DEFINE blk == store[access.addr]
           pkt == PacketAfter(blk, access)
<1>3. /\ store' = [store EXCEPT ![access.addr] = BlockAfter(blk, access)]
      /\ SendResponse(pkt)
      /\ UNCHANGED <<memBlocked, mem, replies>>
  BY <1>2 DEF Hit, CpuPortPanics, memVars
<1>4. access.addr \in Addrs /\ access.cmd \in {"ReadReq", "WriteReq"} /\ blk = latest[access.addr]
  BY <1>0, <1>2 DEF TypeOK, Packets, DataInv, Newest
<1>5. pkt.cmd = access.cmd /\ pkt.addr = access.addr /\ (access.cmd = "WriteReq" => pkt.data = access.data)
  BY <1>0 DEF PacketAfter, Extract, Packets
<1>6. latest' = [latest EXCEPT ![access.addr] = BlockAfter(blk, access)]
  <2>1. latest' = IF pkt.cmd = "ReadReq" THEN latest
                  ELSE [latest EXCEPT ![pkt.addr] = Overlay(latest[pkt.addr], pkt.data)]
    BY <1>3 DEF SendResponse
  <2> HIDE DEF pkt, blk
  <2>2. CASE access.cmd = "ReadReq"
    BY <1>0, <1>4, <1>5, <2>1, <2>2 DEF BlockAfter, TypeOK
  <2>3. CASE access.cmd = "WriteReq"
    BY <1>4, <1>5, <2>1, <2>3 DEF BlockAfter
  <2> QED
    BY <1>4, <2>2, <2>3
<1> HIDE DEF pkt, blk
<1>7. DOMAIN store' = DOMAIN store
  BY <1>3
<1>8. \A a \in Addrs : Newest(a)' = latest'[a]
  <2> SUFFICES ASSUME NEW a \in Addrs PROVE Newest(a)' = latest'[a]
    OBVIOUS
  <2>1. Newest(a) = latest[a]
    BY <1>2 DEF DataInv
  <2>2. CASE a = access.addr
    BY <1>0, <1>3, <1>4, <1>6, <1>7, <2>2 DEF Newest, TypeOK
  <2>3. CASE a # access.addr
    BY <1>0, <1>3, <1>6, <1>7, <2>1, <2>3 DEF Newest, TypeOK, IsWriteback
  <2> QED
    BY <2>2, <2>3
<1> QED
  BY <1>2, <1>3, <1>8 DEF DataInv

(* The memory takes a packet: a read gets what is newest. *)
LEMMA MemTakesData ==
  ASSUME TypeOK, DataInv, NEW pkt \in MemPackets, pkt.cmd \in {"ReadReq", "WriteReq"}, replies = {},
         ~IsWriteback(memBlocked), pkt.addr \notin DOMAIN store, memBlocked' = None,
         MemTakes(pkt, {}), UNCHANGED <<store, latest>>
  PROVE  DataInv'
<1>1. pkt.addr \in Addrs /\ pkt.data \in Block
  BY DEF MemPackets
<1>2. mem[pkt.addr] = latest[pkt.addr] /\ mem[pkt.addr] \in Block
  BY <1>1 DEF DataInv, Newest, TypeOK
<1>3. PICK q : q = PacketAfter(mem[pkt.addr], pkt)
  OBVIOUS
<1>4. q.cmd = pkt.cmd /\ q.addr = pkt.addr /\ (pkt.cmd = "ReadReq" => q.data = mem[pkt.addr])
  <2>1. pkt.cmd = "ReadReq" => q.data = [w \in Words |-> mem[pkt.addr][w]]
    BY <1>1, <1>3 DEF PacketAfter, Extract, MemPackets, Block
  <2>2. [w \in Words |-> mem[pkt.addr][w]] = mem[pkt.addr]
    BY <1>2 DEF Block
  <2> QED
    BY <1>3, <2>1, <2>2 DEF PacketAfter, Extract, MemPackets
<1>5. /\ mem' = IF pkt.cmd = "ReadReq" THEN mem ELSE [mem EXCEPT ![pkt.addr] = pkt.data]
      /\ replies' = {q}
  BY <1>3 DEF MemTakes
<1>6. ASSUME NEW a \in Addrs
      PROVE  Newest(a)' = latest'[a] \/ \E r \in replies' : r.cmd = "WriteReq" /\ r.addr = a
  <2>1. Newest(a) = latest[a]
    BY DEF DataInv
  <2>2. CASE pkt.cmd = "ReadReq" \/ a # pkt.addr
    BY <1>5, <2>1, <2>2 DEF Newest, IsWriteback, TypeOK
  <2>3. CASE pkt.cmd = "WriteReq" /\ a = pkt.addr
    BY <1>4, <1>5, <2>3
  <2> QED
    BY <2>2, <2>3
<1> QED
  BY <1>2, <1>4, <1>5, <1>6 DEF DataInv

(* A miss leaves the blocks alone; the memory may take its packet at once. *)
LEMMA MissData == ASSUME Inv, DataInv, Miss PROVE DataInv'
<1>0. TypeOK /\ access # None /\ access.addr \notin DOMAIN store /\ access \in Packets
  BY DEF Inv, Miss, TypeOK, OrNone
<1>1. Serves /\ AtCache
  BY <1>0 DEF Inv, ServeInv, Idle, AtPort, AtMemory
<1>2. CASE MemPortPanics
  BY <1>2, KeepData DEF Miss, Panic, memVars, ghosts
<1>3. CASE ~MemPortPanics
  <2>0. memBlocked = None /\ replies = {}
    BY <1>1, <1>3 DEF MemPortPanics, AtCache
  <2>1. MemSend(Upgrade(access), {}) /\ UNCHANGED <<store, latest>>
    BY <1>3, <2>0 DEF Miss, ghosts
  <2>2. /\ Upgrade(access) \in MemPackets /\ Upgrade(access).cmd \in {"ReadReq", "WriteReq"}
        /\ Upgrade(access).addr \notin DOMAIN store
    BY <1>0, UpgradeType
  <2>3. CASE MemTakes(Upgrade(access), {}) /\ UNCHANGED memBlocked
    BY <1>0, <2>0, <2>1, <2>2, <2>3, MemTakesData DEF IsWriteback
  <2>4. CASE memBlocked' = Upgrade(access) /\ replies' = {} /\ UNCHANGED mem
    BY <2>0, <2>1, <2>2, <2>4 DEF DataInv, Newest, IsWriteback
  <2> QED
    BY <2>1, <2>3, <2>4 DEF MemSend
<1> QED
  BY <1>2, <1>3

(* A stored packet that the memory takes at last: a read, or the writeback. *)
LEMMA RecvReqRetryData == ASSUME Inv, DataInv, RecvReqRetry PROVE DataInv'
<1>0. /\ TypeOK /\ memBlocked # None /\ memBlocked \in MemPackets /\ UNCHANGED <<store, latest>>
  BY DEF Inv, RecvReqRetry, ghosts, TypeOK, OrNone
<1>1. CASE UNCHANGED memVars
  BY <1>0, <1>1, KeepData DEF memVars
<1>2. CASE MemTakes(memBlocked, replies) /\ memBlocked' = None
  <2>1. replies = {} /\ (memBlocked.cmd # "WritebackDirty" => memBlocked.addr \notin DOMAIN store)
    BY <1>0 DEF Inv, ServeInv, Idle, AtCache, AtPort, AtMemory, StandsFor, PortFree, IsWriteback
  <2>2. CASE memBlocked.cmd # "WritebackDirty"
    <3>1. memBlocked.cmd \in {"ReadReq", "WriteReq"}
      BY <1>0, <2>2 DEF MemPackets
    <3> QED
      BY <1>0, <1>2, <2>1, <2>2, <3>1, MemTakesData DEF IsWriteback
  <2>3. CASE memBlocked.cmd = "WritebackDirty"
    <3>1. mem' = [mem EXCEPT ![memBlocked.addr] = memBlocked.data] /\ replies' = {}
      BY <1>2, <2>1, <2>3 DEF MemTakes
    <3>2. \A a \in Addrs : Newest(a) = latest[a]
      BY <2>1 DEF DataInv
    <3>3. \A a \in Addrs : Newest(a)' = latest'[a]
      BY <1>0, <1>2, <2>3, <3>1, <3>2 DEF Newest, IsWriteback, TypeOK
    <3> QED
      BY <3>1, <3>3 DEF DataInv
  <2> QED
    BY <2>2, <2>3
<1> QED
  BY <1>1, <1>2 DEF RecvReqRetry

(* insert: the victim's block is in the writeback or in memory, and the    *)
(* new block holds what the answer makes of it.                            *)
LEMMA HandleResponseData == ASSUME Inv, DataInv, NEW pkt, HandleResponse(pkt) PROVE DataInv'
<1>0. /\ TypeOK /\ pkt \in MemPackets /\ replies = {pkt} /\ StandsFor(pkt, serving.pkt) /\ Serves
      /\ pkt.addr \in Addrs /\ pkt.cmd \in {"ReadReq", "WriteReq"} /\ pkt.data \in Block
      /\ Asks(pkt) \in Packets /\ Asks(pkt).addr = pkt.addr
      /\ memBlocked = None /\ pkt.addr \notin DOMAIN store
  BY HandleResponseFacts
<1>1. PICK victim \in Victims :
        /\ Writeback(victim, {})
        /\ store' = [a \in (DOMAIN store \ {victim}) \cup {pkt.addr} |->
                       IF a = pkt.addr THEN BlockAfter(pkt.data, Asks(pkt)) ELSE store[a]]
        /\ SendResponse(PacketAfter(pkt.data, Asks(pkt)))
  BY HandleResponseFacts
<1>2. /\ replies' = {}
      /\ victim = None => mem' = mem /\ memBlocked' = None
      /\ victim # None =>
            /\ victim \in DOMAIN store
            /\ \/ mem' = mem /\ memBlocked' = [cmd |-> "WritebackDirty", addr |-> victim, data |-> store[victim]]
               \/ mem' = [mem EXCEPT ![victim] = store[victim]] /\ memBlocked' = None
  BY <1>0, <1>1, WritebackFacts
<1>3. latest' = [latest EXCEPT ![pkt.addr] = BlockAfter(pkt.data, Asks(pkt))]
  <2> DEFINE req == Asks(pkt)
             resp == PacketAfter(pkt.data, req)
  <2>1. resp.cmd = req.cmd /\ resp.addr = pkt.addr /\ (req.cmd = "WriteReq" => resp.data = req.data)
    BY <1>0, ExtractType DEF PacketAfter
  <2>2. latest' = IF resp.cmd = "ReadReq" THEN latest
                  ELSE [latest EXCEPT ![resp.addr] = Overlay(latest[resp.addr], resp.data)]
    BY <1>1 DEF SendResponse
  <2>3. req.cmd \in {"ReadReq", "WriteReq"}
    BY <1>0 DEF Packets
  <2>4. CASE pkt.cmd = "ReadReq"
    <3>1. pkt.data = latest[pkt.addr]
      BY <1>0, <2>4 DEF DataInv
    <3>2. CASE req.cmd = "ReadReq"
      <4>1. latest' = latest /\ BlockAfter(pkt.data, req) = latest[pkt.addr]
        BY <2>1, <2>2, <3>1, <3>2 DEF BlockAfter
      <4> HIDE DEF req, resp
      <4>2. latest' = [latest EXCEPT ![pkt.addr] = BlockAfter(pkt.data, req)]
        BY <1>0, <4>1 DEF TypeOK
      <4> QED
        BY <4>2 DEF req
    <3>3. CASE req.cmd = "WriteReq"
      BY <2>1, <2>2, <3>1, <3>3 DEF BlockAfter
    <3> QED
      BY <2>3, <3>2, <3>3
  <2>5. CASE pkt.cmd = "WriteReq"
    <3>1. original = None
      BY <1>0, <2>5 DEF StandsFor
    <3>2. req = pkt
      BY <3>1 DEF Asks
    <3>3. DOMAIN pkt.data = Words
      BY <1>0 DEF Block
    <3>4. Overlay(latest[pkt.addr], pkt.data) = Overlay(pkt.data, pkt.data)
      BY <3>3 DEF Overlay
    <3> QED
      BY <2>1, <2>2, <2>5, <3>2, <3>4 DEF BlockAfter
  <2> QED
    BY <1>0, <2>4, <2>5
<1>4. DOMAIN store' = (DOMAIN store \ {victim}) \cup {pkt.addr}
  BY <1>1
<1>5. ASSUME NEW a \in Addrs PROVE Newest(a)' = latest'[a]
  <2>1. CASE a = pkt.addr
    BY <1>0, <1>1, <1>3, <1>4, <2>1 DEF Newest, TypeOK
  <2>2. CASE a # pkt.addr
    <3>1. Newest(a) = latest[a] /\ latest'[a] = latest[a]
      BY <1>0, <1>3, <2>2 DEF DataInv, TypeOK
    <3>2. CASE a \in DOMAIN store'
      <4>1. a \in DOMAIN store /\ store'[a] = store[a]
        BY <1>1, <1>4, <2>2, <3>2
      <4> QED
        BY <3>1, <3>2, <4>1 DEF Newest
    <3>3. CASE a \notin DOMAIN store' /\ a = victim
      <4>1. a # None
        BY NotNone
      <4>2. victim \in DOMAIN store /\ latest[a] = store[a]
        BY <1>2, <3>1, <3>3, <4>1 DEF Newest
      <4>3. CASE memBlocked' = [cmd |-> "WritebackDirty", addr |-> victim, data |-> store[victim]]
        <5>1. memBlocked' \in MemPackets
          BY <1>0, <4>2, <4>3 DEF TypeOK, MemPackets
        <5>2. IsWriteback(memBlocked)' /\ memBlocked'.addr = a /\ memBlocked'.data = store[a]
          BY <3>3, <4>3, <5>1, NotNone DEF IsWriteback
        <5> QED
          BY <3>1, <3>3, <4>2, <5>2 DEF Newest
      <4>4. CASE mem' = [mem EXCEPT ![victim] = store[victim]] /\ memBlocked' = None
        <5>1. mem'[a] = store[a]
          BY <1>0, <3>3, <4>4 DEF TypeOK
        <5> QED
          BY <3>1, <3>3, <4>2, <4>4, <5>1 DEF Newest, IsWriteback
      <4> QED
        BY <1>2, <3>3, <4>1, <4>3, <4>4
    <3>4. CASE a \notin DOMAIN store' /\ a # victim
      <4>1. a \notin DOMAIN store /\ mem[a] = latest[a]
        BY <1>0, <1>4, <3>1, <3>4 DEF Newest, IsWriteback
      <4>2. mem'[a] = mem[a]
        BY <1>0, <1>2, <3>4 DEF TypeOK
      <4>3. memBlocked' = None \/ memBlocked'.addr # a
        BY <1>2, <3>4
      <4> QED
        BY <3>1, <3>4, <4>1, <4>2, <4>3 DEF Newest, IsWriteback
    <3> QED
      BY <3>2, <3>3, <3>4
  <2> QED
    BY <2>1, <2>2
<1> QED
  BY <1>2, <1>5 DEF DataInv

(* A functional write between requests reaches what stands for the block. *)
LEMMA HandleFunctionalData ==
  ASSUME ~FunctionalAnytime, Inv, DataInv, NEW pkt \in Writes, HandleFunctional(pkt)
  PROVE  DataInv'
<1>0. /\ TypeOK /\ replies = {} /\ memBlocked = None /\ UNCHANGED <<memBlocked, replies>>
      /\ latest' = [latest EXCEPT ![pkt.addr] = Overlay(latest[pkt.addr], pkt.data)]
      /\ pkt.addr \in Addrs
  BY DEF Inv, HandleFunctional, Quiet, Writes
<1>1. \A a \in Addrs : Newest(a) = IF a \in DOMAIN store THEN store[a] ELSE mem[a]
  BY <1>0 DEF Newest, IsWriteback
<1>2. \A a \in Addrs : Newest(a)' = IF a \in DOMAIN store' THEN store'[a] ELSE mem'[a]
  BY <1>0 DEF Newest, IsWriteback
<1>3. ASSUME NEW a \in Addrs PROVE Newest(a)' = latest'[a]
  <2>1. Newest(a) = latest[a]
    BY <1>0 DEF DataInv
  <2>2. CASE pkt.addr \in DOMAIN store
    <3>1. store' = [store EXCEPT ![pkt.addr] = Overlay(store[pkt.addr], pkt.data)] /\ mem' = mem
      BY <2>2 DEF HandleFunctional
    <3> QED
      BY <1>0, <1>1, <1>2, <2>1, <2>2, <3>1 DEF TypeOK
  <2>3. CASE pkt.addr \notin DOMAIN store
    <3>1. mem' = [mem EXCEPT ![pkt.addr] = Overlay(mem[pkt.addr], pkt.data)] /\ store' = store
      BY <2>3 DEF HandleFunctional
    <3> QED
      BY <1>0, <1>1, <1>2, <2>1, <2>3, <3>1 DEF TypeOK
  <2> QED
    BY <2>2, <2>3
<1> QED
  BY <1>0, <1>3 DEF DataInv

(* Every step keeps the data part of the invariant. *)
LEMMA StepData == ASSUME ~FunctionalAnytime, Inv, DataInv, [Next]_vars PROVE DataInv'
<1>1. ASSUME NEW p \in Ports, NewRequest(p) \/ Resend(p) PROVE DataInv'
  BY <1>1, KeepData DEF NewRequest, Resend, RecvTimingReq, memVars
<1>2. ASSUME NEW p \in Ports, RecvRespRetry(p) PROVE DataInv'
  BY <1>2, KeepData DEF RecvRespRetry, memVars, ghosts
<1>3. CASE UNCHANGED vars
  BY <1>3, KeepData DEF vars, memVars, ghosts
<1> QED
  BY <1>1, <1>2, <1>3, HitData, MissData, RecvReqRetryData, HandleResponseData, HandleFunctionalData DEF Next

(* Both parts of the invariant hold in every reachable state. *)
LEMMA DataCorrect == ASSUME ~FunctionalAnytime PROVE Spec => [](Inv /\ DataInv)
<1>1. Init => Inv /\ DataInv
  BY InitInv, InitData
<1>2. Inv /\ DataInv /\ [Next]_vars => (Inv /\ DataInv)'
  BY StepInv, StepData
<1> QED
  BY <1>1, <1>2, PTL DEF Spec

(* No write is lost, whatever is evicted and whatever the memory refuses:  *)
(* the newest data of every block is in the cache, else in the writeback   *)
(* at the memory port, else in memory.                                     *)
THEOREM NothingLostCorrect == ASSUME ~FunctionalAnytime PROVE Spec => []NothingLost
<1>1. Inv /\ DataInv => NothingLost
  BY DEF DataInv, NothingLost
<1> QED
  BY <1>1, DataCorrect, PTL
---------------------------------------------------------------------------
(* Refinement: a request is taken when it is accepted, and the memory acts *)
(* on it when it is answered.                                              *)

(* The initial states are those of the abstract memory. *)
LEMMA RefineInit == ASSUME Init PROVE Memory!Init
BY DEF Init, Memory!Init, Blank

(* The two modules name the same requests. *)
LEMMA SameRequests == Requests = Memory!Requests
BY DEF Requests, Memory!Requests, Reads, Writes, Parts, Data, Memory!Parts, Memory!Data

(* An answer is what Read or Write of the memory would give. *)
LEMMA RefineAnswer ==
  ASSUME TypeOK, Serves, NEW resp \in Packets, SendResponse(resp),
         resp.addr = serving.pkt.addr, resp.cmd = serving.pkt.cmd,
         serving.pkt.cmd = "WriteReq" => resp.data = serving.pkt.data,
         serving.pkt.cmd = "ReadReq" =>
            resp.data = [w \in DOMAIN serving.pkt.data |-> latest[serving.pkt.addr][w]]
  PROVE  Memory!Read \/ Memory!Write
<1>1. /\ serving \in [port : Ports, pkt : Packets] /\ serving # None
      /\ serving.port = waitingPort
  BY PacketFacts, NotNone DEF Serves
<1>2. serving' = None /\ answer' = [port |-> waitingPort, pkt |-> resp]
  BY DEF SendResponse
<1>3. answer' = [serving EXCEPT !.pkt.data = resp.data]
  BY <1>1, <1>2 DEF Packets
<1>4. CASE serving.pkt.cmd = "ReadReq"
  <2>1. UNCHANGED latest
    BY <1>4 DEF SendResponse
  <2> QED
    BY <1>1, <1>2, <1>3, <1>4, <2>1 DEF Memory!Read, Memory!Answer
<1>5. CASE serving.pkt.cmd = "WriteReq"
  <2>1. latest' = [latest EXCEPT ![serving.pkt.addr] = Overlay(latest[serving.pkt.addr], serving.pkt.data)]
    BY <1>5 DEF SendResponse
  <2> QED
    BY <1>1, <1>2, <1>3, <1>5, <2>1 DEF Memory!Write, Memory!Answer, Overlay
<1> QED
  BY <1>1, <1>4, <1>5 DEF Packets

(* A request that is accepted is one that the abstract memory takes. *)
LEMMA RefineTake ==
  ASSUME Inv, NEW p \in Ports, NEW pkt \in Requests, RecvTimingReq(p, pkt)
  PROVE  Memory!Take \/ UNCHANGED <<latest, serving, answer>>
<1>1. CASE Refuses(p)
  BY <1>1 DEF RecvTimingReq
<1>2. CASE ~Refuses(p)
  <2>1. serving = None
    BY <1>2 DEF Inv, ServeInv, Idle, Serves, Refuses
  <2>2. serving' = [port |-> p, pkt |-> pkt] /\ UNCHANGED <<latest, answer>>
    BY <1>2 DEF RecvTimingReq
  <2>3. serving' \in [port : Ports, pkt : Memory!Requests]
    BY <2>2, SameRequests
  <2> QED
    BY <2>1, <2>2, <2>3 DEF Memory!Take
<1> QED
  BY <1>1, <1>2

(* A hit serves the request in one step of the abstract memory. *)
LEMMA RefineHit == ASSUME Inv, DataInv, Hit PROVE Memory!Read \/ Memory!Write
<1>0. TypeOK /\ access # None /\ access.addr \in DOMAIN store /\ access \in Packets
  BY DEF Inv, Hit, TypeOK, OrNone
<1>1. Serves /\ AtCache
  BY <1>0 DEF Inv, ServeInv, Idle, AtPort, AtMemory
<1> DEFINE blk == store[access.addr]
           resp == PacketAfter(blk, access)
<1>2. SendResponse(resp) /\ access = serving.pkt /\ replies = {}
  BY <1>1 DEF Hit, Serves, AtCache, CpuPortPanics
<1>3. blk = latest[access.addr] /\ blk \in Block
  BY <1>0, <1>2 DEF TypeOK, DataInv, Newest
<1> HIDE DEF blk
<1>4. /\ resp \in Packets /\ resp.addr = access.addr /\ resp.cmd = access.cmd
      /\ access.cmd = "WriteReq" => resp.data = access.data
      /\ access.cmd = "ReadReq" => resp.data = [w \in DOMAIN access.data |-> blk[w]]
  BY <1>0, <1>3, ExtractType DEF PacketAfter
<1> HIDE DEF resp
<1> QED
  BY <1>0, <1>1, <1>2, <1>3, <1>4, RefineAnswer

(* So does the response of the memory to a miss, unless it panics. *)
LEMMA RefineResponse ==
  ASSUME Inv, DataInv, NEW pkt, HandleResponse(pkt)
  PROVE  Memory!Read \/ Memory!Write
<1>0. /\ TypeOK /\ pkt \in MemPackets /\ replies = {pkt} /\ StandsFor(pkt, serving.pkt) /\ Serves
      /\ pkt.addr \in Addrs /\ pkt.cmd \in {"ReadReq", "WriteReq"} /\ pkt.data \in Block
      /\ Asks(pkt) \in Packets /\ Asks(pkt).addr = pkt.addr
      /\ SendResponse(PacketAfter(pkt.data, Asks(pkt)))
  BY HandleResponseFacts
<1>1. serving.pkt \in Packets
  BY <1>0, PacketFacts DEF Serves
<1> DEFINE req == Asks(pkt)
           resp == PacketAfter(pkt.data, req)
<1>2. /\ resp \in Packets /\ resp.addr = req.addr /\ resp.cmd = req.cmd
      /\ req.cmd = "WriteReq" => resp.data = req.data
      /\ req.cmd = "ReadReq" => resp.data = [w \in DOMAIN req.data |-> pkt.data[w]]
  BY <1>0, ExtractType, AfterType DEF PacketAfter
<1>3. req.addr = serving.pkt.addr /\ req.cmd = serving.pkt.cmd /\ DOMAIN req.data = DOMAIN serving.pkt.data
      /\ (req.cmd = "WriteReq" => req.data = serving.pkt.data)
  <2>1. CASE WholeBlock(serving.pkt)
    <3>1. req = pkt
      BY <1>0, <2>1 DEF StandsFor, Asks
    <3>2. DOMAIN pkt.data = Words
      BY <1>0 DEF Block
    <3> QED
      BY <1>0, <2>1, <3>1, <3>2 DEF StandsFor, WholeBlock
  <2>2. CASE ~WholeBlock(serving.pkt)
    <3>1. req = serving.pkt
      BY <1>0, <1>1, <2>2, NotNone DEF StandsFor, Asks
    <3> QED
      BY <3>1
  <2> QED
    BY <2>1, <2>2
<1>4. serving.pkt.cmd = "ReadReq" => pkt.data = latest[serving.pkt.addr]
  BY <1>0 DEF DataInv, StandsFor
<1> HIDE DEF req, resp
<1>5. SendResponse(resp)
  BY <1>0 DEF resp, req
<1> QED
  BY <1>0, <1>2, <1>3, <1>4, <1>5, RefineAnswer

(* A functional write is one of the abstract memory. *)
LEMMA RefineFunctional ==
  ASSUME TypeOK, NEW pkt \in Writes, HandleFunctional(pkt)
  PROVE  \E a \in Addrs, blk \in [Words -> Bytes] : Memory!FunctionalWrite(a, blk)
<1>1. pkt.addr \in Addrs /\ pkt.data \in Data
  BY DEF Writes
<1>2. Overlay(latest[pkt.addr], pkt.data) \in [Words -> Bytes]
  BY <1>1, OverlayType DEF TypeOK, Block
<1>3. Memory!FunctionalWrite(pkt.addr, Overlay(latest[pkt.addr], pkt.data))
  BY DEF HandleFunctional, Memory!FunctionalWrite
<1> QED
  BY <1>1, <1>2, <1>3

(* Every step is one of the abstract memory or leaves it alone. *)
LEMMA RefineStep ==
  ASSUME Inv, DataInv, [Next]_vars
  PROVE  [Memory!Next]_<<latest, serving, answer>>
<1>1. ASSUME NEW p \in Ports, NewRequest(p) \/ Resend(p)
      PROVE  Memory!Take \/ UNCHANGED <<latest, serving, answer>>
  BY <1>1, RequestsOnly, RefineTake
<1>2. ASSUME (\E p \in Ports : RecvRespRetry(p)) \/ RecvReqRetry \/ Miss
      PROVE  UNCHANGED <<latest, serving, answer>>
  BY <1>2 DEF RecvRespRetry, RecvReqRetry, Miss, Panic, ghosts
<1>3. CASE UNCHANGED vars
  BY <1>3 DEF vars, ghosts
<1>4. ASSUME NEW pkt \in Writes, HandleFunctional(pkt) PROVE Memory!Next
  BY <1>4, RefineFunctional DEF Inv, Memory!Next
<1> QED
  BY <1>1, <1>2, <1>3, <1>4, RefineHit, RefineResponse DEF Next, Memory!Next

(* To the peers in front of its ports, SimpleCache is a memory: each packet *)
(* is answered as if it had been done at one moment, hits, misses, packets  *)
(* for part of a block, evictions and refused packets notwithstanding.      *)
THEOREM ActsAsMemoryCorrect == ASSUME ~FunctionalAnytime PROVE Spec => ActsAsMemory
<1>1. Init => Memory!Init
  BY RefineInit
<1>2. Inv /\ DataInv /\ [Next]_vars => [Memory!Next]_<<latest, serving, answer>>
  BY RefineStep
<1> QED
  BY <1>1, <1>2, DataCorrect, PTL DEF Spec, ActsAsMemory, Memory!Spec
=============================================================================
