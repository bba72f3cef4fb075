------------------------------- MODULE MSI -------------------------------
(***************************************************************************)
(* The MSI directory protocol of part 3 of Learning gem5, for one cache    *)
(* block: the L1 controllers (MSI-cache.sm), the directory controller      *)
(* (MSI-dir.sm), the messages between them (MSI-msg.sm), the memory behind *)
(* the directory and the sequencer in front of each L1.                    *)
(*                                                                         *)
(* SLICC executes a transition atomically, so an action below is one       *)
(* transition with the in_port code that triggers it.  A transition whose  *)
(* only action is "stall" changes nothing: it is a guard that is false.    *)
(* An assertion that fails, or an event without a transition, aborts the   *)
(* simulator: `panic' says why and nothing happens after it.               *)
(*                                                                         *)
(* The configuration (msi_caches.py) makes every buffer ordered and has    *)
(* one directory, so messages from one controller to another on one        *)
(* virtual network stay in order; anything else may be reordered.          *)
(***************************************************************************)
EXTENDS Integers, Sequences, FiniteSets

CONSTANTS Caches,   \* the L1 controllers
          Dir,      \* the directory controller
          Words,    \* the words of the block
          Bytes,    \* what a word can hold
          Zero      \* what a word holds when a DataBlock is created

ASSUME CachesAssumption == IsFiniteSet(Caches) /\ Dir \notin Caches
ASSUME DataAssumption   == Zero \in Bytes

VARIABLES cpu,        \* the sequencer's request of each cache, or what it returned
          mandatory,  \* the caches whose mandatory queue holds that request
          cstate, cdata,         \* the cache entry: CacheState and DataBlk
          tbes, acks,            \* which caches have a TBE; its AcksOutstanding
          dstate, sharers, owner, \* the directory entry
          mem, toMem, fromMem,    \* memory and the directory's queues to and from it
          request, forward, response,  \* virtual networks 0, 1 and 2
          latest,     \* ghost: the block as the last store left it
          panic       \* why the simulator aborted, or "none"

cacheVars == <<cstate, cdata, tbes, acks>>
dirVars   == <<dstate, sharers, owner>>
memVars   == <<mem, toMem, fromMem>>
cpuVars   == <<cpu, mandatory, latest>>
vars == <<cpuVars, cacheVars, dirVars, memVars, request, forward, response, panic>>
---------------------------------------------------------------------------
(* Blocks, and stores that overwrite some words of one. *)
Block  == [Words -> Bytes]
Blank  == [w \in Words |-> Zero]
Writes == UNION {[W -> Bytes] : W \in SUBSET Words}
NoWrite == [w \in {} |-> Zero]
Stores == UNION {[{w} -> Bytes] : w \in Words}

Overlay(blk, wr) == [w \in Words |-> IF w \in DOMAIN wr THEN wr[w] ELSE blk[w]]

Nodes == Caches \cup {Dir}

CacheStates == {"I", "IS_D", "IM_AD", "IM_A", "S", "SM_AD", "SM_A", "M",
                "MI_A", "SI_A", "II_A"}
DirStates   == {"I", "S", "M", "S_D", "S_m", "M_m", "MI_m", "SS_m"}

RequestMsg  == [type : {"GetS", "GetM", "PutS", "PutM"}, data : Block]
ForwardMsg  == [type : {"GetS", "GetM", "Inv", "PutAck"}, req : Nodes]
ResponseMsg == [type : {"Data", "InvAck"}, data : Block, acks : Nat]
MemoryMsg   == [type : {"MEMORY_READ", "MEMORY_WB"}, req : Nodes, data : Block]

CpuRequest  == [op : {"idle", "Load", "Store"}, val : Writes]
---------------------------------------------------------------------------
(* Events: what each in_port makes of the message at its head. *)
ForwardEvent(c) ==
    LET t == Head(forward[c]).type IN
    CASE t = "GetS" -> "FwdGetS"
      [] t = "GetM" -> "FwdGetM"
      [] OTHER      -> t

ResponseEvent(s, c) ==
    LET m == Head(response[c][s]) IN
    CASE s = Dir /\ m.acks + acks[c] = 0          -> "DataDirNoAcks"
      [] s = Dir /\ m.acks + acks[c] # 0          -> "DataDirAcks"
      [] s # Dir /\ m.type = "Data"               -> "DataOwner"
      [] s # Dir /\ m.type # "Data" /\ acks[c] = 1 -> "LastInvAck"
      [] OTHER                                    -> "InvAck"

RequestEvent(c) ==
    LET t == Head(request[c]).type IN
    CASE t = "PutS" /\ Cardinality(sharers) = 1 -> "PutSLast"
      [] t = "PutS" /\ Cardinality(sharers) # 1 -> "PutSNotLast"
      [] t = "PutM" /\ c \in owner              -> "PutMOwner"
      [] t = "PutM" /\ c \notin owner           -> "PutMNonOwner"
      [] OTHER                                  -> t

(* The (state, network event) pairs for which a transition is written. *)
CacheTransitions ==
    ({"IM_AD", "IM_A", "SM_AD", "SM_A", "M", "MI_A"} \X {"FwdGetS", "FwdGetM"})
    \cup ({"IS_D", "S", "SM_AD", "SI_A"} \X {"Inv"})
    \cup ({"MI_A", "SI_A", "II_A"} \X {"PutAck"})
    \cup ({"IS_D", "IM_AD", "SM_AD"} \X {"DataDirNoAcks", "DataOwner"})
    \cup ({"IM_AD", "SM_AD"} \X {"DataDirAcks"})
    \cup ({"IM_AD", "IM_A", "SM_AD", "SM_A"} \X {"InvAck"})
    \cup ({"IM_A", "SM_A"} \X {"LastInvAck"})

DirTransitions ==
    (DirStates \X {"GetS", "GetM", "PutSNotLast", "PutMNonOwner"})
    \cup ({"I", "S", "M", "S_D", "M_m", "MI_m"} \X {"PutSLast"})
    \cup ({"M"} \X {"PutMOwner"})
    \cup ({"S_D"} \X {"Data"})
    \cup ({"S_m", "M_m"} \X {"MEMORY_READ"})
    \cup ({"MI_m", "SS_m"} \X {"MEMORY_WB"})

(* What a controller makes of its next message: "none" when there is a     *)
(* transition for it (a stall included), else why the simulator aborts.    *)
ForwardFault(c) ==
    IF <<cstate[c], ForwardEvent(c)>> \in CacheTransitions THEN "none" ELSE "forward"

ResponseFault(s, c) ==
    LET m == Head(response[c][s]) IN
    IF /\ c \in tbes
       /\ s = Dir => m.type = "Data" /\ m.acks + acks[c] >= 0
       /\ <<cstate[c], ResponseEvent(s, c)>> \in CacheTransitions
    THEN "none" ELSE "response"

(* The assertion on a PutS that finds one sharer left. *)
StalePutS(c) ==
    Head(request[c]).type = "PutS" /\ Cardinality(sharers) = 1 /\ c \notin sharers

RequestFault(c) ==
    CASE StalePutS(c) -> "stale PutS"
      [] ~StalePutS(c) /\ <<dstate, RequestEvent(c)>> \in DirTransitions -> "none"
      [] ~StalePutS(c) /\ dstate = "SS_m" /\ RequestEvent(c) = "PutSLast" ->
            "PutSLast in SS_m"
      [] OTHER -> "request"

OwnerDataFault(s) ==
    IF <<dstate, Head(response[Dir][s]).type>> \in DirTransitions
    THEN "none" ELSE "owner data"

MemoryFault ==
    IF <<dstate, Head(fromMem).type>> \in DirTransitions THEN "none" ELSE "memory"

Faults ==
    {ForwardFault(c) : c \in {k \in Caches : forward[k] # <<>>}}
    \cup {ResponseFault(p[1], p[2]) : p \in {q \in Nodes \X Caches : response[q[2]][q[1]] # <<>>}}
    \cup {RequestFault(c) : c \in {k \in Caches : request[k] # <<>>}}
    \cup {OwnerDataFault(s) : s \in {k \in Nodes : response[Dir][k] # <<>>}}
    \cup {MemoryFault : q \in {fromMem} \ {<<>>}}
---------------------------------------------------------------------------
(* Sending and receiving. *)
SendRequest(c, t, blk) ==
    request' = [request EXCEPT ![c] = Append(@, [type |-> t, data |-> blk])]

PopRequest(c) == request' = [request EXCEPT ![c] = Tail(@)]

Forward(fwd, dests, t, r) ==
    [d \in Caches |-> IF d \in dests
                      THEN Append(fwd[d], [type |-> t, req |-> r])
                      ELSE fwd[d]]

PopForward(c) == forward' = [forward EXCEPT ![c] = Tail(@)]

Respond(s, dests, t, blk, n) ==
    response' = [d \in Nodes |->
                   IF d \in dests
                   THEN [response[d] EXCEPT ![s] =
                           Append(@, [type |-> t, data |-> blk, acks |-> n])]
                   ELSE response[d]]

PopResponse(s, d) == response' = [response EXCEPT ![d][s] = Tail(@)]

QueueMemory(t, r, blk) ==
    toMem' = Append(toMem, [type |-> t, req |-> r, data |-> blk])

CanForward(c)     == panic = "none" /\ forward[c] # <<>> /\ ForwardFault(c) = "none"
CanRespond(s, c)  == panic = "none" /\ response[c][s] # <<>> /\ ResponseFault(s, c) = "none"
CanRequest(c)     == panic = "none" /\ request[c] # <<>> /\ RequestFault(c) = "none"

(* The block a cache puts in a message, and the block a response brings it. *)
CacheDataUnset(c) == Blank            \* mutant: DataBlk is never filled in
CacheData(c) == cdata[c]

FilledStale(s, c) == cdata[c]         \* mutant: writeDataToCache is forgotten
Filled(s, c) == Head(response[c][s]).data

On(c, states) == cstate[c] \in states
To(c, state)  == cstate' = [cstate EXCEPT ![c] = state]
---------------------------------------------------------------------------
(* The sequencer: one request per cache is outstanding for a block; the    *)
(* mandatory queue is blocked on its address until it is answered.         *)
Issue(c, op, wr) ==
    /\ panic = "none"
    /\ cpu[c].op = "idle"
    /\ cpu' = [cpu EXCEPT ![c] = [op |-> op, val |-> wr]]
    /\ mandatory' = mandatory \cup {c}
    /\ UNCHANGED <<latest, cacheVars, dirVars, memVars, request, forward,
                   response, panic>>

ReadCallback(c, blk) ==
    /\ cpu' = [cpu EXCEPT ![c] = [op |-> "idle", val |-> blk]]
    /\ UNCHANGED latest

(* The sequencer writes the store's bytes into the block it is given. *)
WriteCallback(c, blk) ==
    /\ cpu' = [cpu EXCEPT ![c] = [op |-> "idle", val |-> NoWrite]]
    /\ cdata' = [cdata EXCEPT ![c] = Overlay(blk, cpu[c].val)]
    /\ latest' = Overlay(latest, cpu[c].val)
---------------------------------------------------------------------------
(* The L1 controller: requests from its mandatory queue. *)
AtHead(c, op) == panic = "none" /\ c \in mandatory /\ cpu[c].op = op

Miss(c, op, next, msg) ==
    /\ AtHead(c, op)
    /\ To(c, next)
    /\ tbes' = tbes \cup {c}
    /\ UNCHANGED acks
    /\ SendRequest(c, msg, Blank)
    /\ mandatory' = mandatory \ {c}
    /\ UNCHANGED <<cpu, latest, dirVars, memVars, forward, response, panic>>

LoadMiss(c) ==
    On(c, {"I"}) /\ Miss(c, "Load", "IS_D", "GetS") /\ UNCHANGED cdata

StoreMiss(c) ==
    On(c, {"I"}) /\ Miss(c, "Store", "IM_AD", "GetM") /\ UNCHANGED cdata

Upgrade(c) ==
    On(c, {"S"}) /\ Miss(c, "Store", "SM_AD", "GetM") /\ UNCHANGED cdata

LoadHit(c) ==
    /\ AtHead(c, "Load")
    /\ On(c, {"S", "SM_AD", "SM_A", "M"})
    /\ ReadCallback(c, cdata[c])
    /\ mandatory' = mandatory \ {c}
    /\ UNCHANGED <<cacheVars, dirVars, memVars, request, forward, response, panic>>

StoreHit(c) ==
    /\ AtHead(c, "Store")
    /\ On(c, {"M"})
    /\ WriteCallback(c, cdata[c])
    /\ mandatory' = mandatory \ {c}
    /\ UNCHANGED <<cstate, tbes, acks, dirVars, memVars, request, forward,
                   response, panic>>

(* A request for another block picks this one as its victim. *)
ReplaceShared(c) ==
    /\ panic = "none"
    /\ On(c, {"S"})
    /\ To(c, "SI_A")
    /\ SendRequest(c, "PutS", Blank)
    /\ UNCHANGED <<cpuVars, cdata, tbes, acks, dirVars, memVars, forward,
                   response, panic>>

ReplaceModified(c) ==
    /\ panic = "none"
    /\ On(c, {"M"})
    /\ To(c, "MI_A")
    /\ SendRequest(c, "PutM", CacheData(c))
    /\ UNCHANGED <<cpuVars, cdata, tbes, acks, dirVars, memVars, forward,
                   response, panic>>
---------------------------------------------------------------------------
(* The L1 controller: forwarded requests and put acks. *)

(* Without an entry there is no DataBlk; a new entry's is blank. *)
Deallocate(c) == To(c, "I") /\ cdata' = [cdata EXCEPT ![c] = Blank]

OwnerFwdGetS(c) ==
    /\ CanForward(c)
    /\ ForwardEvent(c) = "FwdGetS"
    /\ On(c, {"M", "MI_A"})
    /\ To(c, IF cstate[c] = "M" THEN "S" ELSE "SI_A")
    /\ Respond(c, {Head(forward[c]).req, Dir}, "Data", CacheData(c), 0)
    /\ PopForward(c)
    /\ UNCHANGED <<cpuVars, cdata, tbes, acks, dirVars, memVars, request, panic>>

OwnerFwdGetM(c) ==
    /\ CanForward(c)
    /\ ForwardEvent(c) = "FwdGetM"
    /\ \/ On(c, {"M"})    /\ Deallocate(c)
       \/ On(c, {"MI_A"}) /\ To(c, "II_A") /\ UNCHANGED cdata
    /\ Respond(c, {Head(forward[c]).req}, "Data", CacheData(c), 0)
    /\ PopForward(c)
    /\ UNCHANGED <<cpuVars, tbes, acks, dirVars, memVars, request, panic>>

Invalidate(c) ==
    /\ CanForward(c)
    /\ ForwardEvent(c) = "Inv"
    /\ \/ On(c, {"S"})     /\ Deallocate(c)
       \/ On(c, {"SM_AD"}) /\ To(c, "IM_AD") /\ UNCHANGED cdata
       \/ On(c, {"SI_A"})  /\ To(c, "II_A") /\ UNCHANGED cdata
    /\ Respond(c, {Head(forward[c]).req}, "InvAck", cdata[c], 0)
    /\ PopForward(c)
    /\ UNCHANGED <<cpuVars, tbes, acks, dirVars, memVars, request, panic>>

PutAcked(c) ==
    /\ CanForward(c)
    /\ ForwardEvent(c) = "PutAck"
    /\ Deallocate(c)
    /\ PopForward(c)
    /\ UNCHANGED <<cpuVars, tbes, acks, dirVars, memVars, request, response, panic>>
---------------------------------------------------------------------------
(* The L1 controller: responses from the directory and from other caches. *)
(* A TBE starts with AcksOutstanding 0: the count dies with its TBE. *)
FreeTBEKeepCount(c) == tbes' = tbes \ {c} /\ UNCHANGED acks   \* mutant
FreeTBE(c) == tbes' = tbes \ {c} /\ acks' = [acks EXCEPT ![c] = 0]

WithAllData == {"DataDirNoAcks", "DataOwner"}

LoadFilled(s, c) ==
    /\ CanRespond(s, c)
    /\ ResponseEvent(s, c) \in WithAllData
    /\ On(c, {"IS_D"})
    /\ To(c, "S")
    /\ cdata' = [cdata EXCEPT ![c] = Filled(s, c)]
    /\ FreeTBE(c)
    /\ ReadCallback(c, Filled(s, c))
    /\ PopResponse(s, c)
    /\ UNCHANGED <<mandatory, dirVars, memVars, request, forward, panic>>

StoreFilled(s, c) ==
    /\ CanRespond(s, c)
    /\ ResponseEvent(s, c) \in WithAllData
    /\ On(c, {"IM_AD", "SM_AD"})
    /\ To(c, "M")
    /\ FreeTBE(c)
    /\ WriteCallback(c, Filled(s, c))
    /\ PopResponse(s, c)
    /\ UNCHANGED <<mandatory, dirVars, memVars, request, forward, panic>>

DataAwaitingAcks(s, c) ==
    /\ CanRespond(s, c)
    /\ ResponseEvent(s, c) = "DataDirAcks"
    /\ To(c, IF cstate[c] = "IM_AD" THEN "IM_A" ELSE "SM_A")
    /\ cdata' = [cdata EXCEPT ![c] = Filled(s, c)]
    /\ acks' = [acks EXCEPT ![c] = @ + Head(response[c][s]).acks]
    /\ PopResponse(s, c)
    /\ UNCHANGED <<cpuVars, tbes, dirVars, memVars, request, forward, panic>>

CountInvAck(s, c) ==
    /\ CanRespond(s, c)
    /\ ResponseEvent(s, c) = "InvAck"
    /\ acks' = [acks EXCEPT ![c] = @ - 1]
    /\ PopResponse(s, c)
    /\ UNCHANGED <<cpuVars, cstate, cdata, tbes, dirVars, memVars, request,
                   forward, panic>>

LastAck(s, c) ==
    /\ CanRespond(s, c)
    /\ ResponseEvent(s, c) = "LastInvAck"
    /\ To(c, "M")
    /\ FreeTBE(c)
    /\ WriteCallback(c, cdata[c])
    /\ PopResponse(s, c)
    /\ UNCHANGED <<mandatory, dirVars, memVars, request, forward, panic>>
---------------------------------------------------------------------------
(* The directory's bookkeeping. *)
WithoutKept(c) == sharers             \* mutant: removeReqFromSharers is forgotten
Without(c)     == sharers \ {c}

AddSharer(c) == sharers \cup {c}

OwnerLost(c)      == AddSharer(c)     \* mutant: addOwnerToSharers is forgotten
OwnerToSharers(c) == AddSharer(c) \cup owner

(* mutants: one ack too few; the number of sharers is not sent along *)
AcksForOneLess(r) == Cardinality(sharers) - 1
AcksForNone(r)    == 0
AcksFor(r)        == IF r \in owner THEN Cardinality(sharers) ELSE 0

AfterReadKept == sharers              \* mutant: clearSharers is forgotten
AfterRead     == IF dstate = "M_m" THEN {} ELSE sharers

AckPutLost(c) == UNCHANGED forward    \* mutant: a put is not acknowledged
AckPut(c)     == forward' = Forward(forward, {c}, "PutAck", Dir)

(* The directory: requests.  GetS and GetM stall in the states not listed. *)
GetSFromMemory(c) ==
    /\ CanRequest(c)
    /\ RequestEvent(c) = "GetS"
    /\ dstate \in {"I", "S"}
    /\ dstate' = "S_m"
    /\ QueueMemory("MEMORY_READ", c, Blank)
    /\ sharers' = AddSharer(c)
    /\ PopRequest(c)
    /\ UNCHANGED <<owner, mem, fromMem, cpuVars, cacheVars, forward, response, panic>>

GetSFromOwner(c) ==
    /\ CanRequest(c)
    /\ RequestEvent(c) = "GetS"
    /\ dstate = "M"
    /\ dstate' = "S_D"
    /\ forward' = Forward(forward, owner, "GetS", c)
    /\ sharers' = OwnerToSharers(c)
    /\ owner' = {}
    /\ PopRequest(c)
    /\ UNCHANGED <<cpuVars, cacheVars, memVars, response, panic>>

GetMUncached(c) ==
    /\ CanRequest(c)
    /\ RequestEvent(c) = "GetM"
    /\ dstate = "I"
    /\ dstate' = "M_m"
    /\ QueueMemory("MEMORY_READ", c, Blank)
    /\ owner' = owner \cup {c}
    /\ PopRequest(c)
    /\ UNCHANGED <<sharers, mem, fromMem, cpuVars, cacheVars, forward, response, panic>>

GetMShared(c) ==
    /\ CanRequest(c)
    /\ RequestEvent(c) = "GetM"
    /\ dstate = "S"
    /\ dstate' = "M_m"
    /\ QueueMemory("MEMORY_READ", c, Blank)
    /\ sharers' = Without(c)
    /\ forward' = Forward(forward, Without(c), "Inv", c)
    /\ owner' = owner \cup {c}
    /\ PopRequest(c)
    /\ UNCHANGED <<mem, fromMem, cpuVars, cacheVars, response, panic>>

GetMFromOwner(c) ==
    /\ CanRequest(c)
    /\ RequestEvent(c) = "GetM"
    /\ dstate = "M"
    /\ forward' = Forward(forward, owner, "GetM", c)
    /\ owner' = {c}
    /\ PopRequest(c)
    /\ UNCHANGED <<dstate, sharers, cpuVars, cacheVars, memVars, response, panic>>

PutIgnored(c) ==
    /\ CanRequest(c)
    /\ RequestEvent(c) \in {"PutSNotLast", "PutSLast", "PutMNonOwner"}
    /\ dstate \in {"I", "M", "M_m", "MI_m"}
    /\ AckPut(c)
    /\ PopRequest(c)
    /\ UNCHANGED <<dirVars, cpuVars, cacheVars, memVars, response, panic>>

SharerLeaves(c) ==
    /\ CanRequest(c)
    /\ RequestEvent(c) \in {"PutSNotLast", "PutSLast", "PutMNonOwner"}
    /\ dstate \in {"S", "S_D", "SS_m", "S_m"}
    /\ dstate' = IF dstate = "S" /\ RequestEvent(c) = "PutSLast"
                 THEN "I" ELSE dstate
    /\ sharers' = Without(c)
    /\ AckPut(c)
    /\ PopRequest(c)
    /\ UNCHANGED <<owner, cpuVars, cacheVars, memVars, response, panic>>

OwnerLeaves(c) ==
    /\ CanRequest(c)
    /\ RequestEvent(c) = "PutMOwner"
    /\ dstate' = "MI_m"
    /\ QueueMemory("MEMORY_WB", c, Head(request[c]).data)
    /\ owner' = {}
    /\ AckPut(c)
    /\ PopRequest(c)
    /\ UNCHANGED <<sharers, mem, fromMem, cpuVars, cacheVars, response, panic>>
---------------------------------------------------------------------------
(* The directory: the owner's data, and memory. *)
OwnerData(s) ==
    /\ panic = "none"
    /\ response[Dir][s] # <<>>
    /\ OwnerDataFault(s) = "none"
    /\ dstate' = "SS_m"
    /\ QueueMemory("MEMORY_WB", s, Head(response[Dir][s]).data)
    /\ PopResponse(s, Dir)
    /\ UNCHANGED <<sharers, owner, mem, fromMem, cpuVars, cacheVars, request,
                   forward, panic>>

(* The memory controller, outside Ruby, serves the requests in order. *)
MemoryAccess ==
    /\ panic = "none"
    /\ toMem # <<>>
    /\ mem' = IF Head(toMem).type = "MEMORY_WB" THEN Head(toMem).data ELSE mem
    /\ fromMem' = Append(fromMem, [Head(toMem) EXCEPT !.data = mem'])
    /\ toMem' = Tail(toMem)
    /\ UNCHANGED <<cpuVars, cacheVars, dirVars, request, forward, response, panic>>

MemData ==
    /\ panic = "none"
    /\ fromMem # <<>>
    /\ MemoryFault = "none"
    /\ Head(fromMem).type = "MEMORY_READ"
    /\ Respond(Dir, {Head(fromMem).req}, "Data", Head(fromMem).data,
               AcksFor(Head(fromMem).req))
    /\ dstate' = IF dstate = "S_m" THEN "S" ELSE "M"
    /\ sharers' = AfterRead
    /\ fromMem' = Tail(fromMem)
    /\ UNCHANGED <<owner, mem, toMem, cpuVars, cacheVars, request, forward, panic>>

MemAck ==
    /\ panic = "none"
    /\ fromMem # <<>>
    /\ MemoryFault = "none"
    /\ Head(fromMem).type = "MEMORY_WB"
    /\ dstate' = IF dstate = "MI_m" THEN "I" ELSE "S"
    /\ fromMem' = Tail(fromMem)
    /\ UNCHANGED <<sharers, owner, mem, toMem, cpuVars, cacheVars, request,
                   forward, response, panic>>
---------------------------------------------------------------------------
(* An assertion fails or an event has no transition: the run ends. *)
Abort ==
    /\ panic = "none"
    /\ panic' \in Faults \ {"none"}
    /\ UNCHANGED <<cpuVars, cacheVars, dirVars, memVars, request, forward, response>>
---------------------------------------------------------------------------
Init ==
    /\ cpu = [c \in Caches |-> [op |-> "idle", val |-> NoWrite]]
    /\ mandatory = {}
    /\ cstate = [c \in Caches |-> "I"]
    /\ cdata = [c \in Caches |-> Blank]
    /\ tbes = {}
    /\ acks = [c \in Caches |-> 0]
    /\ dstate = "I" /\ sharers = {} /\ owner = {}
    /\ mem = Blank /\ toMem = <<>> /\ fromMem = <<>>
    /\ request = [c \in Caches |-> <<>>]
    /\ forward = [c \in Caches |-> <<>>]
    /\ response = [d \in Nodes |-> [s \in Nodes |-> <<>>]]
    /\ latest = Blank
    /\ panic = "none"

Cpu(c) == Issue(c, "Load", NoWrite) \/ \E wr \in Stores : Issue(c, "Store", wr)

Mandatory(c) ==
    LoadMiss(c) \/ StoreMiss(c) \/ Upgrade(c) \/ LoadHit(c) \/ StoreHit(c)

Replacement(c) == ReplaceShared(c) \/ ReplaceModified(c)

ForwardIn(c) ==
    OwnerFwdGetS(c) \/ OwnerFwdGetM(c) \/ Invalidate(c) \/ PutAcked(c)

ResponseIn(s, c) ==
    \/ LoadFilled(s, c) \/ StoreFilled(s, c)
    \/ DataAwaitingAcks(s, c) \/ CountInvAck(s, c) \/ LastAck(s, c)

RequestIn(c) ==
    \/ GetSFromMemory(c) \/ GetSFromOwner(c)
    \/ GetMUncached(c) \/ GetMShared(c) \/ GetMFromOwner(c)
    \/ PutIgnored(c) \/ SharerLeaves(c) \/ OwnerLeaves(c)

MemQueueIn == MemData \/ MemAck

Next ==
    \/ \E c \in Caches :
          \/ Cpu(c) \/ Mandatory(c) \/ Replacement(c)
          \/ ForwardIn(c) \/ RequestIn(c) \/ OwnerData(c)
          \/ \E s \in Nodes : ResponseIn(s, c)
    \/ MemQueueIn \/ MemoryAccess
    \/ Abort

Spec == Init /\ [][Next]_vars

(* Every buffer is a FIFO that the event queue keeps draining: a controller *)
(* never sleeps while a message it can handle is at the head of a buffer.   *)
(* The directory's request buffer merges all caches in arrival order, so    *)
(* a request that stalls is next when the stall ends: strong fairness.      *)
RequestPort(c) ==
    RequestIn(c) \/ (request[c] # <<>> /\ Abort /\ panic' = RequestFault(c))

Fairness ==
    /\ \A c \in Caches :
          /\ WF_vars(Mandatory(c))
          /\ WF_vars(ForwardIn(c))
          /\ SF_vars(RequestPort(c))
          /\ WF_vars(OwnerData(c))
          /\ \A s \in Nodes : WF_vars(ResponseIn(s, c))
    /\ WF_vars(MemQueueIn) /\ WF_vars(MemoryAccess)

FairSpec == Spec /\ Fairness
---------------------------------------------------------------------------
(* Access permissions: what a functional access thinks of a copy. *)
CachePermission(st) ==
    CASE st = "M"                          -> "Read_Write"
      [] st \in {"S", "SM_AD", "SM_A"}     -> "Read_Only"
      [] st \in {"IM_A", "MI_A", "SI_A"}   -> "Busy"
      [] OTHER                             -> "Invalid"

DirPermission(st) ==
    CASE st \in {"I", "S_m", "M_m"}        -> "Read_Write"
      [] st = "S"                          -> "Read_Only"
      [] st \in {"S_D", "MI_m", "SS_m"}    -> "Busy"
      [] OTHER                             -> "Invalid"

Permission(n) == IF n = Dir THEN DirPermission(dstate) ELSE CachePermission(cstate[n])
Readable(n)   == Permission(n) \in {"Read_Only", "Read_Write"}

(* The block a functional read is given: memory's, or the one of the cache. *)
(* A TBE comes before the cache entry, and holds the block it was created   *)
(* with: no transition performs copyDataFromCacheToTBE.                     *)
CopyAt(n) ==
    CASE n = Dir   -> mem
      [] n \in tbes -> Blank
      [] OTHER     -> cdata[n]
---------------------------------------------------------------------------
(* Every variable stays in the range its declaration gives it. *)
CpuType ==
    /\ cpu \in [Caches -> CpuRequest]
    /\ mandatory \subseteq Caches
    /\ latest \in Block

CacheType ==
    /\ cstate \in [Caches -> CacheStates]
    /\ cdata \in [Caches -> Block]
    /\ tbes \subseteq Caches
    /\ acks \in [Caches -> Int]

DirType ==
    /\ dstate \in DirStates
    /\ sharers \subseteq Caches
    /\ owner \subseteq Caches

MemType ==
    /\ mem \in Block
    /\ toMem \in Seq(MemoryMsg)
    /\ fromMem \in Seq(MemoryMsg)

RequestType  == request \in [Caches -> Seq(RequestMsg)]
ForwardType  == forward \in [Caches -> Seq(ForwardMsg)]
ResponseType == response \in [Nodes -> [Nodes -> Seq(ResponseMsg)]]

PanicType == panic \in {"none", "stale PutS", "PutSLast in SS_m", "request",
                        "forward", "response", "owner data", "memory"}

TypeOK ==
    /\ CpuType /\ CacheType /\ DirType /\ MemType
    /\ RequestType /\ ForwardType /\ ResponseType /\ PanicType

(* The only aborts are the two of the directory's PutS handling: a PutS     *)
(* that an invalidation overtook finds one sharer, another cache, where the *)
(* code asserts that "the requestor" is the one; and the last sharer's PutS *)
(* in SS_m has no transition, where a comment says that such requests       *)
(* stall.  No other assertion of an in_port fails and no other (state,      *)
(* event) pair without a transition is ever met, in either controller.      *)
OnlyPutSAborts == panic \in {"none", "stale PutS", "PutSLast in SS_m"}

(* The assertions of the directory's setState: with the block in M there is *)
(* one owner and no sharer, with the block in I there is nobody.            *)
DirEntryOK ==
    /\ dstate = "M" => Cardinality(owner) = 1 /\ sharers = {}
    /\ dstate = "I" => owner = {} /\ sharers = {}

(* A cache that may write is the only cache that may read or write, and the *)
(* directory's memory then counts neither as readable nor as writable.      *)
SingleWriter ==
    \A c \in Caches, n \in Nodes :
       Permission(c) = "Read_Write" /\ n # c =>
           Permission(n) \notin {"Read_Only", "Read_Write"}

(* Where the permission lets a block be read, the block that loadHit gives  *)
(* to the processor is current.  So is the one a functional read gets, but  *)
(* for a sharer that upgrades: it answers from its TBE, never filled, and   *)
(* so the readable blocks do not all "have the same data".                  *)
Upgrading(c) == cstate[c] \in {"SM_AD", "SM_A"}
ReadableIsCurrent ==
    \A n \in Nodes : Readable(n) =>
       /\ n \in Caches => cdata[n] = latest
       /\ CopyAt(n) = latest \/ (n \in Caches /\ Upgrading(n))

(* "Contains the most up-to-date data": so does every Data response on its  *)
(* way, to a cache or to the directory, until it is consumed.               *)
DataIsUpToDate ==
    \A d, s \in Nodes : \A i \in DOMAIN response[d][s] :
       response[d][s][i].type = "Data" => response[d][s][i].data = latest

(* The acks a writer has still to receive: invalidations sent on its behalf *)
(* that a sharer has not seen, and acks that have not reached it.           *)
AcksToCome(c) ==
    Cardinality({d \in Caches : \E i \in DOMAIN forward[d] :
                    forward[d][i] = [type |-> "Inv", req |-> c]})
    + Cardinality({d \in Caches : \E i \in DOMAIN response[c][d] :
                    response[c][d][i].type = "InvAck"})

(* The count a writer keeps is right wherever the directory's share of it   *)
(* is: still in the sharer list, in the Data message, or in its TBE.        *)
AcksAddUp ==
    \A c \in Caches :
       /\ dstate = "M_m" /\ c \in owner =>
             Cardinality(sharers) + acks[c] = AcksToCome(c)
       /\ \A i \in DOMAIN response[c][Dir] :
             response[c][Dir][i].acks + acks[c] = AcksToCome(c)
       /\ cstate[c] \in {"IM_A", "SM_A"} =>
             acks[c] = AcksToCome(c) /\ acks[c] > 0

Forwarded(c, types) ==
    \E i \in DOMAIN forward[c] : forward[c][i].type \in types

(* The directory knows of every copy, or the message that takes the copy    *)
(* away is already on its way.                                              *)
CopiesAreTracked ==
    \A c \in Caches :
       /\ cstate[c] \in {"M", "MI_A"} =>
             c \in owner \/ Forwarded(c, {"GetS", "GetM", "PutAck"})
       /\ cstate[c] \in {"S", "SI_A"} =>
             c \in sharers \/ Forwarded(c, {"Inv", "PutAck"})
       /\ cstate[c] \in {"SM_AD", "SM_A"} =>
             c \in sharers \cup owner \/ Forwarded(c, {"Inv", "GetS", "GetM"})

(* The caches together are one atomic block.                                *)
Atomic == INSTANCE AtomicBlock WITH block <- latest
AtomicMemory == Atomic!Spec

(* Every load and store is answered, unless the simulator aborts.           *)
Served ==
    \A c \in Caches :
       cpu[c].op # "idle" ~> cpu[c].op = "idle" \/ panic # "none"
=============================================================================
