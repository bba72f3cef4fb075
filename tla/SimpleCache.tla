----------------------------- MODULE SimpleCache -----------------------------
(***************************************************************************)
(* SimpleCache (part 2 of Learning gem5): a blocking, write-back, fully    *)
(* associative cache with random replacement, the CPU-side peers in front  *)
(* of its ports and the memory behind it.                                  *)
(*                                                                         *)
(* An action is one call made by a peer, or the cache's own accessEvent,   *)
(* with every call the cache makes in answer.  What a peer does when it is *)
(* called back is its own choice, made at once or later.                   *)
(***************************************************************************)
EXTENDS Integers, FiniteSets

CONSTANTS Ports,     \* the CPU-side ports
          Addrs,     \* the addresses of blocks
          Words,     \* the parts of a block a packet may be for
          Bytes,     \* what a word can hold
          Zero,      \* what memory holds at first
          Capacity,  \* size / blockSize: the blocks the cache can hold
          None,      \* nullptr, and waitingPortId == -1
          FunctionalAnytime  \* functional writes may come while packets move

ASSUME CapacityAssumption == Capacity \in Nat \ {0}
ASSUME NoneAssumption ==
    LET pkts == [cmd : {"ReadReq", "WriteReq", "WritebackDirty"}, addr : Addrs,
                 data : UNION {[W -> Bytes] : W \in SUBSET Words}]
    IN  None \notin Ports \cup Addrs \cup pkts \cup [port : Ports, pkt : pkts]
ASSUME DataAssumption == Zero \in Bytes /\ Words # {} /\ IsFiniteSet(Addrs)

VARIABLES blocked,      \* a request is being served
          waitingPort,  \* waitingPortId
          access,       \* the packet of the scheduled accessEvent
          original,     \* originalPacket
          store,        \* cacheStore
          needRetry,    \* CPUSidePort::needRetry
          respBlocked,  \* CPUSidePort::blockedPacket
          memBlocked,   \* MemSidePort::blockedPacket
          panic,        \* the panic_if that ended the simulation, or "none"
          (* the peers *)
          held,         \* the request each CPU-side peer had refused
          mayResend,    \* the peers that were sent a retry for it
          mem, replies, \* memory, and the responses it has not sent yet
          (* ghosts *)
          latest,       \* memory as the answered writes left it
          serving,      \* the packet accepted and not answered, with its port
          answer        \* the last response, with its port

serveVars == <<blocked, waitingPort, access, original>>
memVars   == <<memBlocked, mem, replies>>
retryVars == <<needRetry, held, mayResend>>
ghosts    == <<latest, serving, answer>>
vars == <<serveVars, store, respBlocked, memVars, panic, retryVars, ghosts>>

Block == [Words -> Bytes]
Blank == [w \in Words |-> Zero]
OrNone(S) == S \cup {None}

(* Packets.  A CPU asks for a word or for a whole block. *)
Parts    == {{w} : w \in Words} \cup {Words}
Data     == UNION {[W -> Bytes] : W \in Parts}
Packets  == [cmd : {"ReadReq", "WriteReq"}, addr : Addrs, data : Data]
Reads    == [cmd : {"ReadReq"}, addr : Addrs, data : {[w \in W |-> Zero] : W \in Parts}]
Writes   == [cmd : {"WriteReq"}, addr : Addrs, data : Data]
MemPackets == [cmd : {"ReadReq", "WriteReq", "WritebackDirty"}, addr : Addrs, data : Block]

WholeBlock(pkt) == DOMAIN pkt.data = Words

(* Packet::writeDataToBlock and Packet::setDataFromBlock. *)
Overlay(blk, data) == [w \in Words |-> IF w \in DOMAIN data THEN data[w] ELSE blk[w]]
Extract(blk, pkt)  == [pkt EXCEPT !.data = [w \in DOMAIN @ |-> blk[w]]]

(* accessFunctional on a block of the cache: the block and the packet after it. *)
BlockKept(blk, pkt)   == blk   \* mutant: the write is left out
BlockAfter(blk, pkt)  == IF pkt.cmd = "WriteReq" THEN Overlay(blk, pkt.data) ELSE blk
PacketAfter(blk, pkt) == IF pkt.cmd = "ReadReq" THEN Extract(blk, pkt) ELSE pkt
---------------------------------------------------------------------------
(* The memory takes a packet: it acts on it at once, and answers later. *)
MemTakes(pkt, waiting) ==
    /\ mem' = IF pkt.cmd = "ReadReq" THEN mem ELSE [mem EXCEPT ![pkt.addr] = pkt.data]
    /\ replies' = IF pkt.cmd = "WritebackDirty" THEN waiting
                  ELSE waiting \cup {PacketAfter(mem[pkt.addr], pkt)}

(* MemSidePort::sendPacket, when blockedPacket is null. *)
MemSend(pkt, waiting) ==
    \/ MemTakes(pkt, waiting) /\ UNCHANGED memBlocked
    \/ memBlocked' = pkt /\ replies' = waiting /\ UNCHANGED mem

(* CPUSidePort::trySendRetry on the given ports. *)
NoRetry(ports) == UNCHANGED retryVars   \* mutant: it is not called
TrySendRetry(ports) ==
    LET free == {p \in ports : needRetry[p] /\ respBlocked'[p] = None} IN
    /\ needRetry' = [p \in Ports |-> needRetry[p] /\ p \notin free]
    /\ mayResend' = mayResend \cup free
    /\ UNCHANGED held

(* sendResponse, with CPUSidePort::sendPacket when blockedPacket is null. *)
SendResponse(pkt) ==
    /\ blocked' = FALSE /\ waitingPort' = None
    /\ \/ UNCHANGED respBlocked
       \/ respBlocked' = [respBlocked EXCEPT ![waitingPort] = pkt]
    /\ TrySendRetry(Ports)
    /\ serving' = None /\ answer' = [port |-> waitingPort, pkt |-> pkt]
    /\ latest' = IF pkt.cmd = "ReadReq" THEN latest
                 ELSE [latest EXCEPT ![pkt.addr] = Overlay(@, pkt.data)]

(* The panic_if of the two sendPacket functions, in front of what uses them. *)
Panic(port) ==
    panic' = port
    /\ UNCHANGED <<serveVars, store, respBlocked, memVars, retryVars, ghosts>>

MemPortPanics == memBlocked # None
CpuPortPanics == respBlocked[waitingPort] # None
---------------------------------------------------------------------------
(* CPUSidePort::recvTimingReq and handleRequest. *)
RefusesWithoutBlocked(p) == respBlocked[p] # None \/ needRetry[p]   \* mutant
RefusesOnlyBlocked(p)    == needRetry[p] \/ blocked                 \* mutant
Refuses(p) == respBlocked[p] # None \/ needRetry[p] \/ blocked

RecvTimingReq(p, pkt) ==
    /\ panic = "none"
    /\ IF Refuses(p)
       THEN /\ needRetry' = [needRetry EXCEPT ![p] = TRUE]
            /\ held' = [held EXCEPT ![p] = pkt]
            /\ UNCHANGED <<blocked, waitingPort, access, serving>>
       ELSE /\ blocked' = TRUE /\ waitingPort' = p /\ access' = pkt
            /\ serving' = [port |-> p, pkt |-> pkt]
            /\ held' = [held EXCEPT ![p] = None]
            /\ UNCHANGED needRetry
    /\ mayResend' = mayResend \ {p}
    /\ UNCHANGED <<original, store, respBlocked, memVars, panic, latest, answer>>

NewRequest(p) == held[p] = None /\ \E pkt \in Reads \cup Writes : RecvTimingReq(p, pkt)
Resend(p)     == p \in mayResend /\ RecvTimingReq(p, held[p])

(* accessTiming on a hit. *)
Hit ==
    /\ panic = "none" /\ access # None /\ access.addr \in DOMAIN store
    /\ IF CpuPortPanics THEN Panic("cpu port") ELSE
       LET blk == store[access.addr] IN
       /\ store' = [store EXCEPT ![access.addr] = BlockAfter(blk, access)]
       /\ SendResponse(PacketAfter(blk, access))
       /\ access' = None
       /\ UNCHANGED <<original, memVars, panic>>

(* accessTiming on a miss: a packet for less than a block is kept, and the *)
(* whole block is read in its place.                                       *)
Upgrade(pkt) == IF WholeBlock(pkt) THEN pkt
                ELSE [cmd |-> "ReadReq", addr |-> pkt.addr, data |-> Blank]

Miss ==
    /\ panic = "none" /\ access # None /\ access.addr \notin DOMAIN store
    /\ IF MemPortPanics THEN Panic("mem port") ELSE
       /\ original' = IF WholeBlock(access) THEN original ELSE access
       /\ MemSend(Upgrade(access), replies)
       /\ access' = None
       /\ UNCHANGED <<blocked, waitingPort, store, respBlocked, panic, retryVars, ghosts>>

(* The block that insert evicts, when the cache is full. *)
VictimsTooLate == IF Cardinality(DOMAIN store) > Capacity   \* mutant
                  THEN DOMAIN store ELSE {None}
Victims == IF Cardinality(DOMAIN store) >= Capacity THEN DOMAIN store ELSE {None}

EvictWithoutWriteback(victim, waiting) ==   \* mutant
    replies' = waiting /\ UNCHANGED <<memBlocked, mem>>

Writeback(victim, waiting) ==
    IF victim = None
    THEN replies' = waiting /\ UNCHANGED <<memBlocked, mem>>
    ELSE MemSend([cmd |-> "WritebackDirty", addr |-> victim, data |-> store[victim]], waiting)

(* handleResponse: insert, then the kept packet acts on the new block. *)
HandleResponse(pkt) ==
    /\ panic = "none" /\ pkt \in replies
    /\ \E victim \in Victims :
         IF victim # None /\ MemPortPanics THEN Panic("mem port")
         ELSE IF CpuPortPanics THEN Panic("cpu port") ELSE
         LET asked == IF original = None THEN pkt ELSE original IN
         /\ Writeback(victim, replies \ {pkt})
         /\ store' = [a \in (DOMAIN store \ {victim}) \cup {pkt.addr} |->
                        IF a = pkt.addr THEN BlockAfter(pkt.data, asked) ELSE store[a]]
         /\ SendResponse(PacketAfter(pkt.data, asked))
         /\ original' = None
         /\ UNCHANGED <<access, panic>>

(* MemSidePort::recvReqRetry: the stored packet is sent again. *)
RecvReqRetryOnce ==   \* mutant: a packet refused twice is dropped
    /\ panic = "none" /\ memBlocked # None
    /\ memBlocked' = None
    /\ MemTakes(memBlocked, replies) \/ UNCHANGED <<mem, replies>>
    /\ UNCHANGED <<serveVars, store, respBlocked, panic, retryVars, ghosts>>

RecvReqRetry ==
    /\ panic = "none" /\ memBlocked # None
    /\ \/ MemTakes(memBlocked, replies) /\ memBlocked' = None
       \/ UNCHANGED memVars
    /\ UNCHANGED <<serveVars, store, respBlocked, panic, retryVars, ghosts>>

(* CPUSidePort::recvRespRetry: the stored response is sent again. *)
RecvRespRetry(p) ==
    /\ panic = "none" /\ respBlocked[p] # None
    /\ \/ respBlocked' = [respBlocked EXCEPT ![p] = None]
       \/ UNCHANGED respBlocked
    /\ TrySendRetry({p})
    /\ UNCHANGED <<serveVars, store, memVars, panic, ghosts>>

(* handleFunctional on a write; a functional read changes nothing. *)
Quiet == ~blocked /\ memBlocked = None /\ replies = {}

HandleFunctional(pkt) ==
    /\ panic = "none" /\ (FunctionalAnytime \/ Quiet)
    /\ IF pkt.addr \in DOMAIN store
       THEN store' = [store EXCEPT ![pkt.addr] = Overlay(@, pkt.data)] /\ UNCHANGED mem
       ELSE mem' = [mem EXCEPT ![pkt.addr] = Overlay(@, pkt.data)] /\ UNCHANGED store
    /\ latest' = [latest EXCEPT ![pkt.addr] = Overlay(@, pkt.data)]
    /\ UNCHANGED <<serveVars, respBlocked, memBlocked, replies, panic, retryVars,
                   serving, answer>>
---------------------------------------------------------------------------
Init ==
    /\ blocked = FALSE /\ waitingPort = None /\ access = None /\ original = None
    /\ store = [a \in {} |-> Blank]
    /\ needRetry = [p \in Ports |-> FALSE]
    /\ respBlocked = [p \in Ports |-> None]
    /\ memBlocked = None /\ panic = "none"
    /\ held = [p \in Ports |-> None] /\ mayResend = {}
    /\ mem = [a \in Addrs |-> Blank] /\ replies = {}
    /\ latest = mem /\ serving = None /\ answer = None

Next ==
    \/ \E p \in Ports : NewRequest(p) \/ Resend(p) \/ RecvRespRetry(p)
    \/ Hit \/ Miss \/ RecvReqRetry
    \/ \E pkt \in replies : HandleResponse(pkt)
    \/ \E pkt \in Writes : HandleFunctional(pkt)

Spec == Init /\ [][Next]_vars

(* The event queue runs what is scheduled; the peers answer what they took, *)
(* retry after they refused and do not refuse the same packet for ever.     *)
Accepts(p) == RecvRespRetry(p) /\ respBlocked'[p] = None
MemAccepts == RecvReqRetry /\ memBlocked' = None

Fairness ==
    /\ WF_vars(Hit) /\ WF_vars(Miss)
    /\ WF_vars(\E pkt \in replies : HandleResponse(pkt))
    /\ WF_vars(MemAccepts)
    /\ \A p \in Ports : WF_vars(Accepts(p)) /\ WF_vars(Resend(p))

FairSpec == Spec /\ Fairness
---------------------------------------------------------------------------
(* Every field holds what its declaration says, and the cache no more      *)
(* blocks than its size.                                                   *)
TypeOK ==
    /\ blocked \in BOOLEAN
    /\ waitingPort \in OrNone(Ports)
    /\ access \in OrNone(Packets) /\ original \in OrNone(Packets)
    /\ DOMAIN store \subseteq Addrs /\ store \in [DOMAIN store -> Block]
    /\ Cardinality(DOMAIN store) <= Capacity
    /\ needRetry \in [Ports -> BOOLEAN]
    /\ respBlocked \in [Ports -> OrNone(Packets)]
    /\ memBlocked \in OrNone(MemPackets)
    /\ panic \in {"none", "cpu port", "mem port"}
    /\ held \in [Ports -> OrNone(Packets)] /\ mayResend \subseteq Ports
    /\ mem \in [Addrs -> Block] /\ replies \subseteq MemPackets
    /\ latest \in [Addrs -> Block]
    /\ serving \in OrNone([port : Ports, pkt : Packets])
    /\ answer \in OrNone([port : Ports, pkt : Packets])

IsWriteback(pkt) == pkt # None /\ pkt.cmd = "WritebackDirty"

(* While the cache is blocked the request it serves is in exactly one       *)
(* place: the accessEvent, the memory port or the memory.  When it is not,  *)
(* nothing of a request is left, originalPacket included.                   *)
Asked == (OrNone({access}) \cup replies
            \cup {pkt \in {memBlocked} : ~IsWriteback(pkt)}) \ {None}

OneRequestInService ==
    panic = "none" =>
       /\ blocked <=> waitingPort # None
       /\ Cardinality(Asked) = IF blocked THEN 1 ELSE 0
       /\ original # None => access = None /\ \A pkt \in Asked :
             pkt.cmd = "ReadReq" /\ pkt.addr = original.addr /\ ~WholeBlock(original)

(* The panic "Should never try to send if blocked!" has one cause: a miss   *)
(* whose request finds the last writeback still refused by the memory.  The *)
(* writeback of insert always finds the memory port free, and a response    *)
(* always finds its CPU-side port free.                                     *)
OnlyMissPanics ==
    /\ panic # "cpu port"
    /\ panic = "mem port" => access # None /\ IsWriteback(memBlocked)
    /\ panic = "none" /\ replies # {} => memBlocked = None

(* A retry is never forgotten: a peer whose request was refused is either   *)
(* remembered by its port or was sent a retry, and a port remembers one     *)
(* only while something that ends in trySendRetry is still to come.         *)
NoRetryForgotten ==
    panic = "none" => \A p \in Ports :
       /\ held[p] # None <=> needRetry[p] \/ p \in mayResend
       /\ ~(needRetry[p] /\ p \in mayResend)
       /\ needRetry[p] => blocked \/ respBlocked[p] # None

(* The newest data of a block is where a reader of the next request finds   *)
(* it: in the cache, else in the writeback the memory refused, else in      *)
(* memory.  (A whole-block write that missed has already reached memory     *)
(* when it is answered.)                                                    *)
Newest(a) ==
    IF a \in DOMAIN store THEN store[a]
    ELSE IF IsWriteback(memBlocked) /\ memBlocked.addr = a THEN memBlocked.data
    ELSE mem[a]

NothingLost ==
    panic = "none" => \A a \in Addrs :
       Newest(a) = latest[a] \/ \E pkt \in replies : pkt.cmd = "WriteReq" /\ pkt.addr = a

(* Seen from the ports, the cache is a memory. *)
Memory == INSTANCE BlockingMemory WITH contents <- latest
ActsAsMemory == Memory!Spec

(* A request the cache accepted is answered, unless a panic comes first. *)
AcceptedIsAnswered == blocked ~> ~blocked \/ panic # "none"

(* A peer that was refused is sent a retry. *)
RefusedIsRetried ==
    \A p \in Ports : needRetry[p] ~> ~needRetry[p] \/ panic # "none"
=============================================================================
