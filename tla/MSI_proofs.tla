----------------------------- MODULE MSI_proofs -----------------------------
(***************************************************************************)
(* Proofs about the MSI protocol, for any number of caches and any block:  *)
(* its types and what the directory keeps; then the invariant of the       *)
(* protocol's control, and its transitions as that invariant sees them:    *)
(* what each does to the messages in flight.                               *)
(***************************************************************************)
EXTENDS MSI, FiniteSetTheorems, TLAPS

---------------------------------------------------------------------------
(* What the helpers send is of the type of the network it is sent on. *)

(* Overlaying written bytes on a block gives a block. *)
LEMMA OverlayType ==
  ASSUME NEW blk \in Block, NEW wr \in Writes
  PROVE  Overlay(blk, wr) \in Block
<1>1. ASSUME NEW w \in Words, w \in DOMAIN wr PROVE wr[w] \in Bytes
  BY <1>1 DEF Writes
<1>2. QED BY <1>1 DEF Overlay, Block

(* The blank block is a block, and a store that writes nothing is a store. *)
LEMMA BlankType == Blank \in Block /\ NoWrite \in Writes
<1>1. Blank \in Block BY DataAssumption DEF Blank, Block
<1>2. NoWrite \in [{} -> Bytes] BY DEF NoWrite
<1>3. QED BY <1>1, <1>2 DEF Writes

(* A block a load returned can stand where a store's bytes do. *)
LEMMA BlockIsWrites == Block \subseteq Writes
BY DEF Block, Writes

(* Forwarding appends a message to the queues of its destinations. *)
LEMMA ForwardKeepsType ==
  ASSUME NEW fwd \in [Caches -> Seq(ForwardMsg)], NEW dests,
         NEW t \in {"GetS", "GetM", "Inv", "PutAck"}, NEW r \in Nodes
  PROVE  Forward(fwd, dests, t, r) \in [Caches -> Seq(ForwardMsg)]
<1>1. [type |-> t, req |-> r] \in ForwardMsg BY DEF ForwardMsg
<1>2. QED BY <1>1 DEF Forward

(* So does responding, on the response network. *)
LEMMA RespondKeepsType ==
  ASSUME ResponseType,
         NEW s \in Nodes, NEW dests, NEW t \in {"Data", "InvAck"},
         NEW blk \in Block, NEW n \in Nat, Respond(s, dests, t, blk, n)
  PROVE  ResponseType'
<1> USE DEF ResponseType
<1> DEFINE msg == [type |-> t, data |-> blk, acks |-> n]
<1>1. msg \in ResponseMsg BY DEF ResponseMsg
<1>2. ASSUME NEW d \in Nodes
      PROVE  [response[d] EXCEPT ![s] = Append(@, msg)] \in [Nodes -> Seq(ResponseMsg)]
  <2> HIDE DEF msg
  <2>1. Append(response[d][s], msg) \in Seq(ResponseMsg) BY <1>1
  <2>2. QED BY <2>1
<1>3. QED BY <1>2 DEF Respond

(* Taking the head off a response queue leaves the others alone. *)
LEMMA PopResponseKeepsType ==
  ASSUME ResponseType,
         NEW s \in Nodes, NEW d \in Nodes, response[d][s] # <<>>,
         PopResponse(s, d)
  PROVE  ResponseType' /\ Head(response[d][s]) \in ResponseMsg
<1> USE DEF ResponseType
<1>1. Tail(response[d][s]) \in Seq(ResponseMsg) /\ Head(response[d][s]) \in ResponseMsg
  OBVIOUS
<1>2. [response[d] EXCEPT ![s] = Tail(@)] \in [Nodes -> Seq(ResponseMsg)]
  BY <1>1
<1>3. response' = [response EXCEPT ![d] = [response[d] EXCEPT ![s] = Tail(@)]]
  BY DEF PopResponse
<1>4. QED BY <1>1, <1>2, <1>3

(* A request is appended to the cache's own queue; a queue that is popped   *)
(* held a message.                                                         *)
LEMMA SendRequestKeepsType ==
  ASSUME RequestType, NEW c \in Caches, NEW t \in {"GetS", "GetM", "PutS", "PutM"},
         NEW blk \in Block, SendRequest(c, t, blk)
  PROVE  RequestType'
<1>1. [type |-> t, data |-> blk] \in RequestMsg BY DEF RequestMsg
<1>2. QED BY <1>1 DEF RequestType, SendRequest

(* Taking the head off a request queue keeps every message typed. *)
LEMMA PopRequestKeepsType ==
  ASSUME RequestType, NEW c \in Caches, request[c] # <<>>, PopRequest(c)
  PROVE  RequestType' /\ Head(request[c]) \in RequestMsg
<1>1. Tail(request[c]) \in Seq(RequestMsg) /\ Head(request[c]) \in RequestMsg
  BY DEF RequestType
<1>2. QED BY <1>1 DEF RequestType, PopRequest

(* So does taking the head off a forward queue. *)
LEMMA PopForwardKeepsType ==
  ASSUME ForwardType, NEW c \in Caches, forward[c] # <<>>, PopForward(c)
  PROVE  ForwardType' /\ Head(forward[c]).req \in Nodes
<1>1. Tail(forward[c]) \in Seq(ForwardMsg) /\ Head(forward[c]) \in ForwardMsg
  BY DEF ForwardType
<1>2. QED BY <1>1 DEF ForwardType, PopForward, ForwardMsg

(* The variables an action leaves alone keep their types. *)
LEMMA Frames ==
  /\ CpuType /\ UNCHANGED cpuVars => CpuType'
  /\ CacheType /\ UNCHANGED cacheVars => CacheType'
  /\ DirType /\ UNCHANGED dirVars => DirType'
  /\ MemType /\ UNCHANGED memVars => MemType'
  /\ RequestType /\ UNCHANGED request => RequestType'
  /\ ForwardType /\ UNCHANGED forward => ForwardType'
  /\ ResponseType /\ UNCHANGED response => ResponseType'
  /\ PanicType /\ UNCHANGED panic => PanicType'
<1>1. CpuType /\ UNCHANGED cpuVars => CpuType' BY DEF CpuType, cpuVars
<1>2. CacheType /\ UNCHANGED cacheVars => CacheType' BY DEF CacheType, cacheVars
<1>3. DirType /\ UNCHANGED dirVars => DirType' BY DEF DirType, dirVars
<1>4. MemType /\ UNCHANGED memVars => MemType' BY DEF MemType, memVars
<1>5. QED BY <1>1, <1>2, <1>3, <1>4
           DEF RequestType, ForwardType, ResponseType, PanicType
---------------------------------------------------------------------------
(* Type correctness: the initial state. *)
LEMMA TypeInit == Init => TypeOK
<1> SUFFICES ASSUME Init PROVE TypeOK OBVIOUS
<1>1. CpuType BY BlankType DEF Init, CpuType, CpuRequest
<1>2. CacheType BY BlankType DEF Init, CacheType, CacheStates
<1>3. DirType /\ PanicType BY DEF Init, DirType, DirStates, PanicType
<1>4. MemType BY BlankType DEF Init, MemType
<1>5. RequestType /\ ForwardType BY DEF Init, RequestType, ForwardType
<1>6. ResponseType BY DEF Init, ResponseType
<1>7. QED BY <1>1, <1>2, <1>3, <1>4, <1>5, <1>6 DEF TypeOK

(* The requests the sequencer takes and the callbacks that answer them. *)
LEMMA TypeIssue ==
  ASSUME TypeOK, NEW c \in Caches, NEW op \in {"Load", "Store"},
         NEW wr \in Writes, Issue(c, op, wr)
  PROVE  TypeOK'
<1>1. [op |-> op, val |-> wr] \in CpuRequest BY DEF CpuRequest
<1>2. CpuType' BY <1>1 DEF TypeOK, CpuType, Issue
<1>3. QED BY <1>2, Frames DEF TypeOK, Issue

(* A load answered by the sequencer leaves the ghost and the processors typed. *)
LEMMA ReadCallbackKeepsType ==
  ASSUME CpuType, mandatory' \subseteq Caches, NEW c \in Caches, NEW blk \in Block,
         ReadCallback(c, blk)
  PROVE  CpuType'
<1>1. [op |-> "idle", val |-> blk] \in CpuRequest BY BlockIsWrites DEF CpuRequest
<1>2. QED BY <1>1 DEF CpuType, ReadCallback

(* So does a store, which also writes the ghost block. *)
LEMMA WriteCallbackKeepsType ==
  ASSUME CpuType, CacheType, mandatory' \subseteq Caches, NEW c \in Caches,
         NEW blk \in Block, WriteCallback(c, blk)
  PROVE  CpuType' /\ cdata' \in [Caches -> Block]
<1>1. [op |-> "idle", val |-> NoWrite] \in CpuRequest BY BlankType DEF CpuRequest
<1>2. cpu[c].val \in Writes BY DEF CpuType, CpuRequest
<1>3. Overlay(blk, cpu[c].val) \in Block /\ Overlay(latest, cpu[c].val) \in Block
  BY <1>2, OverlayType DEF CpuType
<1>4. QED BY <1>1, <1>3 DEF CpuType, CacheType, WriteCallback

(* The mandatory queue. *)
LEMMA TypeMiss ==
  ASSUME TypeOK, NEW c \in Caches, NEW op, NEW next \in CacheStates,
         NEW msg \in {"GetS", "GetM"}, Miss(c, op, next, msg), UNCHANGED cdata
  PROVE  TypeOK'
<1>1. CpuType' BY DEF TypeOK, CpuType, Miss
<1>2. CacheType' BY DEF TypeOK, CacheType, Miss, To
<1>3. RequestType' BY SendRequestKeepsType, BlankType DEF TypeOK, Miss
<1>4. QED BY <1>1, <1>2, <1>3, Frames DEF TypeOK, Miss

(* Hits, misses and upgrades of the mandatory queue together. *)
LEMMA TypeMandatory ==
  ASSUME TypeOK, NEW c \in Caches, Mandatory(c)
  PROVE  TypeOK'
<1>1. CASE LoadMiss(c) BY <1>1, TypeMiss DEF LoadMiss, CacheStates
<1>2. CASE StoreMiss(c) BY <1>2, TypeMiss DEF StoreMiss, CacheStates
<1>3. CASE Upgrade(c) BY <1>3, TypeMiss DEF Upgrade, CacheStates
<1>4. CASE LoadHit(c)
  <2>1. CpuType'
    BY <1>4, ReadCallbackKeepsType DEF TypeOK, CpuType, CacheType, LoadHit
  <2>2. QED BY <1>4, <2>1, Frames DEF TypeOK, LoadHit
<1>5. CASE StoreHit(c)
  <2>1. CpuType' /\ cdata' \in [Caches -> Block]
    BY <1>5, WriteCallbackKeepsType DEF TypeOK, CpuType, CacheType, StoreHit
  <2>2. CacheType' BY <1>5, <2>1 DEF TypeOK, CacheType, StoreHit
  <2>3. QED BY <1>5, <2>1, <2>2, Frames DEF TypeOK, StoreHit
<1>6. QED BY <1>1, <1>2, <1>3, <1>4, <1>5 DEF Mandatory

(* Replacements. *)
LEMMA TypeReplacement ==
  ASSUME TypeOK, NEW c \in Caches, Replacement(c)
  PROVE  TypeOK'
<1>1. CASE ReplaceShared(c)
  <2>1. CacheType' BY <1>1 DEF TypeOK, CacheType, CacheStates, ReplaceShared, To
  <2>2. RequestType'
    BY <1>1, SendRequestKeepsType, BlankType DEF TypeOK, ReplaceShared
  <2>3. QED BY <1>1, <2>1, <2>2, Frames DEF TypeOK, ReplaceShared
<1>2. CASE ReplaceModified(c)
  <2>1. CacheType' BY <1>2 DEF TypeOK, CacheType, CacheStates, ReplaceModified, To
  <2>2. RequestType'
    BY <1>2, SendRequestKeepsType DEF TypeOK, CacheType, CacheData, ReplaceModified
  <2>3. QED BY <1>2, <2>1, <2>2, Frames DEF TypeOK, ReplaceModified
<1>3. QED BY <1>1, <1>2 DEF Replacement

(* The forward port of a cache. *)
LEMMA TypeForward ==
  ASSUME TypeOK, NEW c \in Caches, ForwardIn(c)
  PROVE  TypeOK'
<1>1. ForwardType' /\ Head(forward[c]).req \in Nodes
  BY PopForwardKeepsType
  DEF TypeOK, ForwardIn, OwnerFwdGetS, OwnerFwdGetM, Invalidate, PutAcked, CanForward
<1>2. c \in Nodes /\ cdata[c] \in Block BY DEF Nodes, TypeOK, CacheType
<1>3. ASSUME Deallocate(c), UNCHANGED <<tbes, acks>> PROVE CacheType'
  BY <1>3, BlankType DEF Deallocate, To, TypeOK, CacheType, CacheStates
<1>4. ASSUME NEW st \in CacheStates, To(c, st), UNCHANGED <<cdata, tbes, acks>>
      PROVE  CacheType'
  BY <1>4 DEF To, TypeOK, CacheType
<1>5. CASE OwnerFwdGetS(c)
  <2>1. ResponseType'
    BY <1>2, <1>5, RespondKeepsType DEF TypeOK, OwnerFwdGetS, CacheData
  <2>2. CacheType' BY <1>4, <1>5 DEF OwnerFwdGetS, CacheStates
  <2>3. QED BY <1>1, <1>5, <2>1, <2>2, Frames DEF TypeOK, OwnerFwdGetS
<1>6. CASE OwnerFwdGetM(c)
  <2>1. ResponseType'
    BY <1>2, <1>6, RespondKeepsType DEF TypeOK, OwnerFwdGetM, CacheData
  <2>2. CacheType' BY <1>3, <1>4, <1>6 DEF OwnerFwdGetM, CacheStates
  <2>3. QED BY <1>1, <1>6, <2>1, <2>2, Frames DEF TypeOK, OwnerFwdGetM
<1>7. CASE Invalidate(c)
  <2>1. ResponseType' BY <1>2, <1>7, RespondKeepsType DEF TypeOK, Invalidate
  <2>2. CacheType' BY <1>3, <1>4, <1>7 DEF Invalidate, CacheStates
  <2>3. QED BY <1>1, <1>7, <2>1, <2>2, Frames DEF TypeOK, Invalidate
<1>8. CASE PutAcked(c)
  <2>1. CacheType' BY <1>3, <1>8 DEF PutAcked
  <2>2. QED BY <1>1, <1>8, <2>1, Frames DEF TypeOK, PutAcked
<1>9. QED BY <1>5, <1>6, <1>7, <1>8 DEF ForwardIn

(* The response port of a cache. *)
LEMMA TypeResponse ==
  ASSUME TypeOK, NEW s \in Nodes, NEW c \in Caches, ResponseIn(s, c)
  PROVE  TypeOK'
<1>1. ResponseType' /\ Head(response[c][s]) \in ResponseMsg
  BY PopResponseKeepsType
  DEF TypeOK, Nodes, ResponseIn, LoadFilled, StoreFilled, DataAwaitingAcks,
      CountInvAck, LastAck, CanRespond
<1>2. Filled(s, c) \in Block /\ Head(response[c][s]).acks \in Int
  BY <1>1 DEF ResponseMsg, Filled
<1>3. mandatory \subseteq Caches /\ cdata[c] \in Block
  BY DEF TypeOK, CpuType, CacheType
<1>4. ASSUME NEW st \in CacheStates, To(c, st), FreeTBE(c),
             cdata' \in [Caches -> Block]
      PROVE  CacheType'
  BY <1>4 DEF To, FreeTBE, TypeOK, CacheType
<1>5. CASE LoadFilled(s, c)
  <2>1. CpuType'
    BY <1>2, <1>3, <1>5, ReadCallbackKeepsType DEF TypeOK, LoadFilled
  <2>2. cdata' \in [Caches -> Block]
    BY <1>2, <1>5 DEF LoadFilled, TypeOK, CacheType
  <2>3. CacheType' BY <1>4, <1>5, <2>2 DEF LoadFilled, CacheStates
  <2>4. QED BY <1>1, <1>5, <2>1, <2>3, Frames DEF TypeOK, LoadFilled
<1>6. CASE StoreFilled(s, c)
  <2>1. CpuType' /\ cdata' \in [Caches -> Block]
    BY <1>2, <1>3, <1>6, WriteCallbackKeepsType DEF TypeOK, StoreFilled
  <2>2. CacheType' BY <1>4, <1>6, <2>1 DEF StoreFilled, CacheStates
  <2>3. QED BY <1>1, <1>6, <2>1, <2>2, Frames DEF TypeOK, StoreFilled
<1>7. CASE DataAwaitingAcks(s, c)
  <2>1. acks' \in [Caches -> Int] /\ cdata' \in [Caches -> Block]
    BY <1>2, <1>7 DEF DataAwaitingAcks, TypeOK, CacheType
  <2>2. CacheType'
    BY <1>7, <2>1 DEF DataAwaitingAcks, To, TypeOK, CacheType, CacheStates
  <2>3. QED BY <1>1, <1>7, <2>2, Frames DEF TypeOK, DataAwaitingAcks
<1>8. CASE CountInvAck(s, c)
  <2>1. CacheType' BY <1>8 DEF CountInvAck, TypeOK, CacheType
  <2>2. QED BY <1>1, <1>8, <2>1, Frames DEF TypeOK, CountInvAck
<1>9. CASE LastAck(s, c)
  <2>1. CpuType' /\ cdata' \in [Caches -> Block]
    BY <1>3, <1>9, WriteCallbackKeepsType DEF TypeOK, LastAck
  <2>2. CacheType' BY <1>4, <1>9, <2>1 DEF LastAck, CacheStates
  <2>3. QED BY <1>1, <1>9, <2>1, <2>2, Frames DEF TypeOK, LastAck
<1>10. QED BY <1>5, <1>6, <1>7, <1>8, <1>9 DEF ResponseIn

(* The directory's request port. *)
LEMMA QueueMemoryKeepsType ==
  ASSUME MemType, NEW t \in {"MEMORY_READ", "MEMORY_WB"}, NEW r \in Nodes,
         NEW blk \in Block, QueueMemory(t, r, blk), UNCHANGED <<mem, fromMem>>
  PROVE  MemType'
<1>1. [type |-> t, req |-> r, data |-> blk] \in MemoryMsg BY DEF MemoryMsg
<1>2. QED BY <1>1 DEF MemType, QueueMemory

(* Every request the directory serves, whatever its state. *)
LEMMA TypeRequest ==
  ASSUME TypeOK, NEW c \in Caches, RequestIn(c)
  PROVE  TypeOK'
<1> USE DEF TypeOK
<1>1. RequestType' /\ Head(request[c]) \in RequestMsg
  BY PopRequestKeepsType
  DEF RequestIn, GetSFromMemory, GetSFromOwner, GetMUncached, GetMShared,
      GetMFromOwner, PutIgnored, SharerLeaves, OwnerLeaves, CanRequest
<1>2. c \in Nodes /\ Dir \in Nodes /\ Blank \in Block BY BlankType DEF Nodes
<1>3. ASSUME AckPut(c) PROVE ForwardType'
  BY <1>2, <1>3, ForwardKeepsType DEF AckPut, ForwardType
<1>4. CASE GetSFromMemory(c)
  <2>1. MemType' BY <1>2, <1>4, QueueMemoryKeepsType DEF GetSFromMemory
  <2>2. DirType' BY <1>4 DEF GetSFromMemory, DirType, DirStates, AddSharer
  <2>3. QED BY <1>1, <1>4, <2>1, <2>2, Frames DEF GetSFromMemory
<1>5. CASE GetSFromOwner(c)
  <2>1. ForwardType'
    BY <1>2, <1>5, ForwardKeepsType DEF GetSFromOwner, ForwardType
  <2>2. DirType'
    BY <1>5 DEF GetSFromOwner, DirType, DirStates, OwnerToSharers, AddSharer
  <2>3. QED BY <1>1, <1>5, <2>1, <2>2, Frames DEF GetSFromOwner
<1>6. CASE GetMUncached(c)
  <2>1. MemType' BY <1>2, <1>6, QueueMemoryKeepsType DEF GetMUncached
  <2>2. DirType' BY <1>6 DEF GetMUncached, DirType, DirStates
  <2>3. QED BY <1>1, <1>6, <2>1, <2>2, Frames DEF GetMUncached
<1>7. CASE GetMShared(c)
  <2>1. MemType' BY <1>2, <1>7, QueueMemoryKeepsType DEF GetMShared
  <2>2. ForwardType' BY <1>2, <1>7, ForwardKeepsType DEF GetMShared, ForwardType
  <2>3. DirType' BY <1>7 DEF GetMShared, DirType, DirStates, Without
  <2>4. QED BY <1>1, <1>7, <2>1, <2>2, <2>3, Frames DEF GetMShared
<1>8. CASE GetMFromOwner(c)
  <2>1. ForwardType'
    BY <1>2, <1>8, ForwardKeepsType DEF GetMFromOwner, ForwardType
  <2>2. DirType' BY <1>8 DEF GetMFromOwner, DirType
  <2>3. QED BY <1>1, <1>8, <2>1, <2>2, Frames DEF GetMFromOwner
<1>9. CASE PutIgnored(c)
  BY <1>1, <1>3, <1>9, Frames DEF PutIgnored
<1>10. CASE SharerLeaves(c)
  <2>1. DirType' BY <1>10 DEF SharerLeaves, DirType, DirStates, Without
  <2>2. QED BY <1>1, <1>3, <1>10, <2>1, Frames DEF SharerLeaves
<1>11. CASE OwnerLeaves(c)
  <2>1. Head(request[c]).data \in Block BY <1>1 DEF RequestMsg
  <2>2. MemType' BY <1>2, <1>11, <2>1, QueueMemoryKeepsType DEF OwnerLeaves
  <2>3. DirType' BY <1>11 DEF OwnerLeaves, DirType, DirStates
  <2>4. QED BY <1>1, <1>3, <1>11, <2>2, <2>3, Frames DEF OwnerLeaves
<1>12. QED
  BY <1>4, <1>5, <1>6, <1>7, <1>8, <1>9, <1>10, <1>11 DEF RequestIn

(* The owner's data, memory, and the end of a run that aborts. *)
LEMMA TypeOwnerData ==
  ASSUME TypeOK, NEW s \in Caches, OwnerData(s)
  PROVE  TypeOK'
<1>1. s \in Nodes /\ Dir \in Nodes BY DEF Nodes
<1>2. ResponseType' /\ Head(response[Dir][s]) \in ResponseMsg
  BY <1>1, PopResponseKeepsType DEF TypeOK, OwnerData
<1>3. MemType'
  BY <1>1, <1>2, QueueMemoryKeepsType DEF TypeOK, OwnerData, ResponseMsg
<1>4. DirType' BY DEF TypeOK, OwnerData, DirType, DirStates
<1>5. QED BY <1>2, <1>3, <1>4, Frames DEF TypeOK, OwnerData

(* Memory answers a read or a write of the directory. *)
LEMMA TypeMemoryAccess == ASSUME TypeOK, MemoryAccess PROVE TypeOK'
<1>1. Head(toMem) \in MemoryMsg /\ Tail(toMem) \in Seq(MemoryMsg)
  BY DEF TypeOK, MemType, MemoryAccess
<1>2. mem' \in Block BY <1>1 DEF TypeOK, MemType, MemoryAccess, MemoryMsg
<1>3. [Head(toMem) EXCEPT !.data = mem'] \in MemoryMsg
  BY <1>1, <1>2 DEF MemoryMsg
<1>4. MemType' BY <1>1, <1>2, <1>3 DEF TypeOK, MemType, MemoryAccess
<1>5. QED BY <1>4, Frames DEF TypeOK, MemoryAccess

(* The number of acks a writer is told to expect is a number. *)
LEMMA AcksForType == ASSUME DirType, NEW r PROVE AcksFor(r) \in Nat
<1>1. IsFiniteSet(sharers) BY CachesAssumption, FS_Subset DEF DirType
<1>2. QED BY <1>1, FS_CardinalityType DEF AcksFor

(* The directory takes an answer of memory. *)
LEMMA TypeMemQueue == ASSUME TypeOK, MemQueueIn PROVE TypeOK'
<1>1. fromMem # <<>> /\ fromMem' = Tail(fromMem) /\ UNCHANGED <<mem, toMem>>
  BY DEF MemQueueIn, MemData, MemAck
<1>2. Head(fromMem) \in MemoryMsg /\ MemType'
  BY <1>1 DEF TypeOK, MemType
<1>3. DirType'
  BY DEF TypeOK, DirType, DirStates, MemQueueIn, MemData, MemAck, AfterRead
<1>4. CASE MemData
  <2>1. ResponseType'
    <3>1. AcksFor(Head(fromMem).req) \in Nat BY AcksForType DEF TypeOK
    <3>2. Head(fromMem).data \in Block /\ Dir \in Nodes
      BY <1>2 DEF MemoryMsg, Nodes
    <3>3. QED BY <1>4, <3>1, <3>2, RespondKeepsType DEF TypeOK, MemData
  <2>2. QED BY <1>2, <1>3, <1>4, <2>1, Frames DEF TypeOK, MemData
<1>5. CASE MemAck
  BY <1>2, <1>3, <1>5, Frames DEF TypeOK, MemAck
<1>6. QED BY <1>4, <1>5 DEF MemQueueIn

(* A failed assertion names its cause. *)
LEMMA TypeAbort == ASSUME TypeOK, Abort PROVE TypeOK'
<1>1. \A x : /\ ForwardFault(x) \in {"none", "forward"}
             /\ RequestFault(x) \in {"none", "stale PutS", "PutSLast in SS_m", "request"}
             /\ OwnerDataFault(x) \in {"none", "owner data"}
             /\ \A y : ResponseFault(x, y) \in {"none", "response"}
  BY DEF ForwardFault, RequestFault, OwnerDataFault, ResponseFault
<1>2. MemoryFault \in {"none", "memory"} BY DEF MemoryFault
<1>3. PanicType' BY <1>1, <1>2 DEF Abort, Faults, PanicType
<1>4. QED BY <1>3, Frames DEF TypeOK, Abort

(* Every step keeps every type. *)
LEMMA TypeNext == TypeOK /\ [Next]_vars => TypeOK'
<1> SUFFICES ASSUME TypeOK, [Next]_vars PROVE TypeOK' OBVIOUS
<1>1. ASSUME NEW c \in Caches, Cpu(c) PROVE TypeOK'
  <2>1. CASE Issue(c, "Load", NoWrite) BY <2>1, TypeIssue, BlankType
  <2>2. ASSUME NEW wr \in Stores, Issue(c, "Store", wr) PROVE TypeOK'
    <3>1. wr \in Writes BY DEF Stores, Writes
    <3>2. QED BY <2>2, <3>1, TypeIssue
  <2>3. QED BY <1>1, <2>1, <2>2 DEF Cpu
<1>2. CASE UNCHANGED vars BY <1>2, Frames DEF TypeOK, vars
<1>3. QED
  BY <1>1, <1>2, TypeMandatory, TypeReplacement, TypeForward, TypeResponse,
     TypeRequest, TypeOwnerData, TypeMemQueue, TypeMemoryAccess, TypeAbort
  DEF Next

(* Every variable keeps its type, for any set of caches and any block.      *)
THEOREM TypeCorrect == Spec => []TypeOK
BY TypeInit, TypeNext, PTL DEF Spec
---------------------------------------------------------------------------
(* The directory entry. setState asserts it only on entering M and I; what  *)
(* makes the assertions hold is that the transient states keep the owner    *)
(* and the sharers they will be entered with.                               *)
DirInv ==
    /\ dstate \in {"M", "M_m"} => \E c \in Caches : owner = {c}
    /\ dstate \notin {"M", "M_m"} => owner = {}
    /\ dstate \in {"I", "M", "MI_m"} => sharers = {}

(* The directory starts in I with no owner and no sharer. *)
LEMMA DirInvInit == Init => DirInv
BY DEF Init, DirInv

(* A PutS that passes its assertion and leaves one sharer counted is the    *)
(* last sharer's: taking it out empties the list.                           *)
LEMMA LastSharer ==
  ASSUME DirType, NEW c \in Caches, RequestFault(c) = "none",
         RequestEvent(c) = "PutSLast", Head(request[c]).type = "PutS"
  PROVE  Without(c) = {}
<1>1. IsFiniteSet(sharers) BY CachesAssumption, FS_Subset DEF DirType
<1>2. Cardinality(sharers) = 1 BY DEF RequestEvent
<1>3. c \in sharers BY <1>2 DEF RequestFault, StalePutS
<1>4. PICK x : sharers = {x} BY <1>1, <1>2, FS_Singleton
<1>5. QED BY <1>3, <1>4 DEF Without

(* A request leaves as many owners and sharers as the new state says. *)
LEMMA DirInvRequest ==
  ASSUME TypeOK, DirInv, NEW c \in Caches, RequestIn(c)
  PROVE  DirInv'
<1> USE DEF DirInv
<1>1. CASE GetSFromMemory(c) BY <1>1 DEF GetSFromMemory
<1>2. CASE GetSFromOwner(c) BY <1>2 DEF GetSFromOwner
<1>3. CASE GetMUncached(c) BY <1>3 DEF GetMUncached
<1>4. CASE GetMShared(c) BY <1>4 DEF GetMShared
<1>5. CASE GetMFromOwner(c) BY <1>5 DEF GetMFromOwner
<1>6. CASE PutIgnored(c) BY <1>6 DEF PutIgnored, dirVars
<1>7. CASE SharerLeaves(c)
  <2>1. CASE dstate' = "I"
    <3>1. RequestEvent(c) = "PutSLast" /\ dstate = "S"
      BY <1>7, <2>1 DEF SharerLeaves
    <3>2. Head(request[c]).type = "PutS"
      BY <3>1, <1>7, PopRequestKeepsType
      DEF SharerLeaves, CanRequest, TypeOK, RequestEvent, RequestMsg
    <3>3. Without(c) = {}
      BY <1>7, <3>1, <3>2, LastSharer DEF TypeOK, SharerLeaves, CanRequest
    <3>4. QED BY <1>7, <3>1, <3>3 DEF SharerLeaves
  <2>2. CASE dstate' # "I"
    BY <1>7, <2>2 DEF SharerLeaves
  <2>3. QED BY <2>1, <2>2
<1>8. CASE OwnerLeaves(c)
  <2>1. dstate = "M"
    BY <1>8 DEF OwnerLeaves, CanRequest, RequestFault, DirTransitions
  <2>2. QED BY <1>8, <2>1 DEF OwnerLeaves
<1>9. QED
  BY <1>1, <1>2, <1>3, <1>4, <1>5, <1>6, <1>7, <1>8 DEF RequestIn

(* So does every step. *)
LEMMA DirInvNext == TypeOK /\ DirInv /\ [Next]_vars => DirInv'
<1> SUFFICES ASSUME TypeOK, DirInv, [Next]_vars PROVE DirInv' OBVIOUS
<1>1. ASSUME UNCHANGED dirVars PROVE DirInv' BY <1>1 DEF dirVars, DirInv
<1>2. ASSUME NEW s \in Caches, OwnerData(s) PROVE DirInv'
  <2>1. Head(response[Dir][s]).type \in {"Data", "InvAck"}
    BY <1>2, PopResponseKeepsType DEF TypeOK, OwnerData, Nodes, ResponseMsg
  <2>2. dstate = "S_D"
    BY <1>2, <2>1 DEF OwnerData, OwnerDataFault, DirTransitions, DirStates
  <2>3. QED BY <1>2, <2>2 DEF OwnerData, DirInv
<1>3. CASE MemData
  <2>1. dstate \in {"S_m", "M_m"}
    BY <1>3 DEF MemData, MemoryFault, DirTransitions, DirStates
  <2>2. QED BY <1>3, <2>1 DEF MemData, AfterRead, DirInv
<1>4. CASE MemAck
  <2>1. dstate \in {"MI_m", "SS_m"}
    BY <1>4 DEF MemAck, MemoryFault, DirTransitions, DirStates
  <2>2. QED BY <1>4, <2>1 DEF MemAck, DirInv
<1>5. ASSUME NEW c \in Caches, Cpu(c) \/ Mandatory(c) \/ Replacement(c) \/ ForwardIn(c)
      PROVE  UNCHANGED dirVars
  BY <1>5 DEF Cpu, Issue, Mandatory, LoadMiss, StoreMiss, Upgrade, Miss, LoadHit,
     StoreHit, Replacement, ReplaceShared, ReplaceModified, ForwardIn,
     OwnerFwdGetS, OwnerFwdGetM, Invalidate, PutAcked
<1>6. ASSUME NEW c \in Caches, NEW s \in Nodes, ResponseIn(s, c)
      PROVE  UNCHANGED dirVars
  BY <1>6 DEF ResponseIn, LoadFilled, StoreFilled, DataAwaitingAcks, CountInvAck, LastAck
<1>7. CASE MemoryAccess \/ Abort \/ UNCHANGED vars
  BY <1>1, <1>7 DEF MemoryAccess, Abort, vars
<1>8. QED
  BY <1>1, <1>2, <1>3, <1>4, <1>5, <1>6, <1>7, DirInvRequest DEF Next, MemQueueIn

(* No assertion of the directory's setState ever fails.                     *)
THEOREM DirEntryCorrect == Spec => []DirEntryOK
<1>1. DirInv => DirEntryOK
  <2>1. ASSUME NEW c \in Caches, owner = {c} PROVE Cardinality(owner) = 1
    BY <2>1, FS_Singleton
  <2>2. QED BY <2>1 DEF DirInv, DirEntryOK
<1>2. QED BY <1>1, TypeCorrect, DirInvInit, DirInvNext, PTL DEF Spec
---------------------------------------------------------------------------
(* What the invariant needs to know of the messages in flight. *)
Asked == [c \in Caches |-> IF request[c] = <<>> THEN "none" ELSE request[c][1].type]

Pending == [c \in Caches |-> {forward[c][i] : i \in DOMAIN forward[c]}]

Arriving == [d \in Nodes |-> [s \in Nodes |->
               IF response[d][s] = <<>> THEN "none" ELSE response[d][s][1].type]]

DirAcks == [c \in Caches |->
              IF response[c][Dir] = <<>> THEN 0 ELSE response[c][Dir][1].acks]

NoMemMsg == [type |-> "none", req |-> Dir, data |-> Blank]
MemMsg == CASE toMem # <<>>                   -> toMem[1]
            [] toMem = <<>> /\ fromMem # <<>> -> fromMem[1]
            [] OTHER                          -> NoMemMsg
MemOp  == MemMsg.type
MemFor == MemMsg.req
---------------------------------------------------------------------------
(* No queue but forward ever holds two messages, and forward holds an      *)
(* invalidation, a forwarded request and a put ack, in this order.         *)
Rank(t) == CASE t = "Inv" -> 1 [] t = "PutAck" -> 3 [] OTHER -> 2

RequestQueues  == \A c \in Caches : Len(request[c]) <= 1
ResponseQueues == \A d, s \in Nodes : Len(response[d][s]) <= 1
MemoryQueues   == Len(toMem) + Len(fromMem) <= 1
ForwardQueues  ==
    \A c \in Caches : \A i, j \in DOMAIN forward[c] :
       i < j => Rank(forward[c][i].type) < Rank(forward[c][j].type)

QueueInv == RequestQueues /\ ResponseQueues /\ MemoryQueues /\ ForwardQueues

(* A message of these types is on its way to c. *)
Has(c, types) == \E m \in Pending[c] : m.type \in types
Gets == {"GetS", "GetM"}

(* What a cache that sent a request is waiting in. *)
RequestInv ==
    \A c \in Caches :
       /\ Asked[c] = "GetS" => cstate[c] = "IS_D"
       /\ Asked[c] = "GetM" => cstate[c] \in {"IM_AD", "SM_AD"}
       /\ Asked[c] = "PutS" => cstate[c] \in {"SI_A", "II_A"}
       /\ Asked[c] = "PutM" => cstate[c] \in {"MI_A", "SI_A", "II_A"}
       /\ Has(c, {"PutAck"}) => cstate[c] \in {"MI_A", "SI_A", "II_A"}
       /\ cstate[c] \in {"MI_A", "SI_A", "II_A"} =>
             (Asked[c] = "none" <=> Has(c, {"PutAck"}))
       /\ c \in tbes <=> cstate[c] \in {"IS_D", "IM_AD", "IM_A", "SM_AD", "SM_A"}

(* A cache that has the block to write to, or was promised it. *)
Granted(c) == cstate[c] \in {"IM_AD", "SM_AD"} /\ Asked[c] = "none"
Holds(c) ==
    \/ cstate[c] \in {"M", "IM_A", "SM_A"}
    \/ cstate[c] = "MI_A" /\ (Asked[c] # "none" \/ Has(c, Gets))
(* Together: whom the directory forwards a request to. *)
Writer(c) == Holds(c) \/ Granted(c)

(* It is the directory's owner until a request is forwarded to it. *)
OwnerInv ==
    \A c \in Caches :
       /\ c \in owner => Writer(c) /\ ~Has(c, Gets)
       /\ Has(c, Gets) => Writer(c)
       /\ Writer(c) => c \in owner \/ Has(c, Gets)

(* Data is on its way to c. *)
DataFor(c) == \E s \in Nodes : Arriving[c][s] = "Data"

(* A request that the directory took is answered once: by memory, by the   *)
(* owner it was forwarded to, or by the data on its way.                   *)
PromiseInv ==
    \A o \in Caches : \A m \in Pending[o] : m.type \in Gets =>
       /\ m.req \in Caches
       /\ Asked[m.req] = "none" /\ ~DataFor(m.req)
       /\ m.type = "GetS" => cstate[m.req] = "IS_D"
       /\ m.type = "GetM" => cstate[m.req] \in {"IM_AD", "SM_AD"} 
       /\ MemOp = "MEMORY_READ" => MemFor # m.req
       /\ \A p \in Caches : \A n \in Pending[p] :
             n.type \in Gets /\ n.req = m.req => p = o

(* A cache that collects invalidation acks. *)
Collecting(c) ==
    \/ dstate = "M_m" /\ c \in owner
    \/ cstate[c] \in {"IM_AD", "SM_AD"} /\ Arriving[c][Dir] = "Data"
    \/ cstate[c] \in {"IM_A", "SM_A"}

(* Data comes once, to who waits for it; acks come to who collects them. *)
ArrivingInv ==
    /\ \A c \in Caches :
          /\ DataFor(c) => Asked[c] = "none" /\ cstate[c] \in {"IS_D", "IM_AD", "SM_AD"}
          /\ \A s, t \in Nodes : Arriving[c][s] = "Data" /\ Arriving[c][t] = "Data" => s = t
          /\ \A s \in Nodes : Arriving[c][s] = "InvAck" => s \in Caches /\ Collecting(c)
    /\ \A s \in Nodes : Arriving[Dir][s] # "none" =>
          Arriving[Dir][s] = "Data" /\ s \in Caches /\ dstate = "S_D"
    /\ \A s, t \in Nodes : Arriving[Dir][s] # "none" /\ Arriving[Dir][t] # "none" => s = t

(* The directory waits for memory exactly while memory owes it an answer.  *)
MemoryInv ==
    /\ MemOp = "MEMORY_READ" <=> dstate \in {"S_m", "M_m"}
    /\ MemOp = "MEMORY_WB" <=> dstate \in {"MI_m", "SS_m"}
    /\ MemOp = "MEMORY_READ" =>
          /\ MemFor \in Caches /\ Asked[MemFor] = "none" /\ ~DataFor(MemFor)
          /\ dstate = "S_m" => cstate[MemFor] = "IS_D" /\ MemFor \in sharers
          /\ dstate = "M_m" => cstate[MemFor] \in {"IM_AD", "SM_AD"} /\ owner = {MemFor}

(* The block is to be written by one cache, or it is on its way to one     *)
(* cache, or to the directory, or it is in memory.                         *)
HasBlock(c) == Holds(c) \/ (cstate[c] \in {"IM_AD", "SM_AD"} /\ DataFor(c))

(* There is one of it, and the directory is then in M or S_D. *)
BlockInv ==
    \A c \in Caches : HasBlock(c) =>
       /\ dstate \in {"M", "S_D"}
       /\ \A s \in Nodes : Arriving[Dir][s] = "none"
       /\ \A d \in Caches : HasBlock(d) => d = c

(* While the directory waits for an owner's data, the owner has a GetS to  *)
(* answer or has answered it.                                              *)
OwnerDataInv ==
    /\ dstate = "S_D" => \/ \E s \in Nodes : Arriving[Dir][s] # "none"
                         \/ \E o \in Caches : Has(o, {"GetS"})
    /\ \A o \in Caches : \A m \in Pending[o] : m.type = "GetS" =>
          /\ dstate = "S_D" /\ \A s \in Nodes : Arriving[Dir][s] = "none"
          /\ m.req \in sharers /\ sharers \subseteq {o, m.req}
          /\ o \in sharers <=> ~Has(o, {"PutAck"})
          /\ \A p \in Caches : Has(p, {"GetS"}) => p = o

(* No cache may write; the sharers have the block, or memory will send it. *)
Sharing ==
    \/ dstate \in {"S", "S_m", "SS_m"}
    \/ dstate = "S_D" /\ \E s \in Nodes : Arriving[Dir][s] # "none"

(* A cache the directory calls a sharer has a copy, or waits for one. *)
SharersInv ==
    Sharing => \A c \in sharers :
       \/ cstate[c] = "S"
       \/ cstate[c] = "SI_A" /\ Asked[c] # "none"
       \/ cstate[c] = "SM_AD" /\ Asked[c] = "GetM"
       \/ cstate[c] = "IS_D" /\ Asked[c] = "none"

(* A reader is served by the data on its way, by memory or by an owner. *)
ReaderInv ==
    \A c \in Caches : cstate[c] = "IS_D" /\ Asked[c] = "none" =>
       \/ DataFor(c)
       \/ dstate = "S_m" /\ MemFor = c
       \/ \E o \in Caches : [type |-> "GetS", req |-> c] \in Pending[o]

(* A cache with a copy is a sharer, or is about to lose it. *)
HasCopy(c) == cstate[c] \in {"S", "SI_A", "SM_AD"} \/ (cstate[c] = "IS_D" /\ DataFor(c))

(* No copy escapes the directory. *)
CopyInv ==
    \A c \in Caches : HasCopy(c) =>
       \/ Sharing /\ c \in sharers
       \/ Has(c, {"Inv"})
       \/ cstate[c] = "SI_A" /\ Has(c, {"PutAck"})
       \/ cstate[c] = "SM_AD" /\ Collecting(c)

(* An invalidation finds its copy, and its writer still collecting. *)
InvalidationInv ==
    \A d \in Caches : \A m \in Pending[d] : m.type = "Inv" =>
       /\ HasCopy(d)
       /\ m.req \in Caches /\ m.req # d /\ Collecting(m.req)
       /\ Arriving[m.req][d] = "none"

InvTo(c)  == {d \in Caches : [type |-> "Inv", req |-> c] \in Pending[d]}
AckTo(c)  == {d \in Caches : Arriving[c][d] = "InvAck"}
AcksOut(c) == Cardinality(InvTo(c)) + Cardinality(AckTo(c))

(* The writer counts on as many acks as there are invalidations to answer, *)
(* however the acks and the data with their number overtake each other.    *)
AcksInv ==
    \A c \in Caches :
       /\ cstate[c] \in {"IM_A", "SM_A"} => acks[c] > 0 /\ acks[c] = AcksOut(c)
       /\ cstate[c] \notin {"IM_A", "SM_A"} => acks[c] <= 0
       /\ ~Collecting(c) => acks[c] = 0
       /\ dstate = "M_m" /\ c \in owner => Cardinality(sharers) + acks[c] = AcksOut(c)
       /\ Arriving[c][Dir] = "Data" => DirAcks[c] + acks[c] = AcksOut(c)

(* The invariant of the control: no part is inductive without the others. *)
ControlInv ==
    /\ QueueInv /\ DirInv /\ RequestInv /\ OwnerInv /\ PromiseInv /\ ArrivingInv
    /\ MemoryInv /\ BlockInv /\ OwnerDataInv /\ SharersInv /\ ReaderInv
    /\ CopyInv /\ InvalidationInv /\ AcksInv
---------------------------------------------------------------------------
(* Queues. *)

(* Appending a message leaves those before it where they are. *)
LEMMA AppendFacts ==
  ASSUME NEW S, NEW q \in Seq(S), NEW m \in S
  PROVE  /\ Len(Append(q, m)) = Len(q) + 1 /\ DOMAIN Append(q, m) = 1 .. Len(q) + 1
         /\ \A i \in 1 .. Len(q) : Append(q, m)[i] = q[i]
         /\ Append(q, m)[Len(q) + 1] = m
OBVIOUS

(* Taking the head moves the others up. *)
LEMMA TailFacts ==
  ASSUME NEW S, NEW q \in Seq(S), q # <<>>
  PROVE  /\ Len(Tail(q)) = Len(q) - 1 /\ DOMAIN Tail(q) = 1 .. Len(q) - 1
         /\ \A i \in 1 .. Len(q) - 1 : Tail(q)[i] = q[i + 1]
         /\ Head(q) = q[1] /\ Len(q) >= 1 /\ Tail(q) \in Seq(S)
OBVIOUS

(* A queue of at most one message is empty once that is taken. *)
LEMMA ShortQueue ==
  ASSUME NEW S, NEW q \in Seq(S), Len(q) <= 1
  PROVE  /\ q # <<>> => Tail(q) = <<>> /\ Head(q) = q[1] /\ q[1] \in S
         /\ q = <<>> => \A m \in S : /\ Append(q, m) # <<>> /\ Append(q, m)[1] = m
                                    /\ Len(Append(q, m)) = 1
<1>1. ASSUME q # <<>> PROVE Tail(q) = <<>> /\ Head(q) = q[1] /\ q[1] \in S
  BY <1>1, TailFacts
<1>2. ASSUME q = <<>>, NEW m \in S
      PROVE  Append(q, m) # <<>> /\ Append(q, m)[1] = m /\ Len(Append(q, m)) = 1
  BY <1>2, AppendFacts
<1> QED BY <1>1, <1>2

(* The first message of a queue that is not empty. *)
LEMMA FirstFacts ==
  ASSUME NEW S, NEW q \in Seq(S), q # <<>>
  PROVE  q[1] \in S /\ 1 \in DOMAIN q /\ Len(q) >= 1
BY TailFacts

(* The types of what the invariant speaks of. *)
ControlType ==
    /\ cstate \in [Caches -> CacheStates] /\ tbes \subseteq Caches
    /\ acks \in [Caches -> Int] /\ DirType
    /\ Asked \in [Caches -> {"none", "GetS", "GetM", "PutS", "PutM"}]
    /\ Pending \in [Caches -> SUBSET ForwardMsg]
    /\ Arriving \in [Nodes -> [Nodes -> {"none", "Data", "InvAck"}]]
    /\ DirAcks \in [Caches -> Nat]
    /\ MemOp \in {"none", "MEMORY_READ", "MEMORY_WB"} /\ MemFor \in Nodes

(* They follow from those of the queues. *)
LEMMA ControlTypeCorrect == ASSUME TypeOK PROVE ControlType
<1>1. Asked \in [Caches -> {"none", "GetS", "GetM", "PutS", "PutM"}]
  <2>1. ASSUME NEW c \in Caches, request[c] # <<>>
        PROVE  request[c][1].type \in {"GetS", "GetM", "PutS", "PutM"}
    <3>1. request[c] \in Seq(RequestMsg) BY DEF TypeOK, RequestType
    <3>2. request[c][1] \in RequestMsg BY <2>1, <3>1, FirstFacts
    <3> QED BY <3>2 DEF RequestMsg
  <2> QED BY <2>1 DEF Asked
<1>2. Pending \in [Caches -> SUBSET ForwardMsg]
  <2>1. ASSUME NEW c \in Caches, NEW i \in DOMAIN forward[c] PROVE forward[c][i] \in ForwardMsg
    <3>1. forward[c] \in Seq(ForwardMsg) BY DEF TypeOK, ForwardType
    <3> QED BY <3>1
  <2> QED BY <2>1 DEF Pending
<1>3. ASSUME NEW d \in Nodes, NEW x \in Nodes, response[d][x] # <<>>
      PROVE  response[d][x][1].type \in {"Data", "InvAck"} /\ response[d][x][1].acks \in Nat
  <2>1. response[d][x] \in Seq(ResponseMsg)
    BY DEF TypeOK, ResponseType
  <2>2. response[d][x][1] \in ResponseMsg BY <1>3, <2>1, FirstFacts
  <2> QED BY <2>2 DEF ResponseMsg
<1>4. Arriving \in [Nodes -> [Nodes -> {"none", "Data", "InvAck"}]] /\ DirAcks \in [Caches -> Nat]
  BY <1>3 DEF Arriving, DirAcks, Nodes
<1>5. MemOp \in {"none", "MEMORY_READ", "MEMORY_WB"} /\ MemFor \in Nodes
  <2>1. ASSUME NEW q \in Seq(MemoryMsg), q # <<>>
        PROVE  q[1].type \in {"MEMORY_READ", "MEMORY_WB"} /\ q[1].req \in Nodes
    <3>1. q[1] \in MemoryMsg BY <2>1, FirstFacts
    <3> QED BY <3>1 DEF MemoryMsg
  <2>2. toMem \in Seq(MemoryMsg) /\ fromMem \in Seq(MemoryMsg) BY DEF TypeOK, MemType
  <2>3. NoMemMsg.type = "none" /\ NoMemMsg.req = Dir BY DEF NoMemMsg
  <2> QED BY <2>1, <2>2, <2>3 DEF MemMsg, MemOp, MemFor, Nodes
<1> QED
  BY <1>1, <1>2, <1>4, <1>5 DEF TypeOK, ControlType, CacheType
---------------------------------------------------------------------------
(* What sending and receiving does to the messages in flight. *)

(* A controller with nothing asked sends a request. *)
LEMMA SendRequestFacts ==
  ASSUME RequestType, RequestQueues, NEW c \in Caches, Asked[c] = "none",
         NEW t \in {"GetS", "GetM", "PutS", "PutM"}, NEW blk \in Block, SendRequest(c, t, blk)
  PROVE  RequestQueues' /\ Asked' = [Asked EXCEPT ![c] = t]
<1> DEFINE msg == [type |-> t, data |-> blk]
<1>1. msg \in RequestMsg BY DEF RequestMsg
<1>2. request[c] = <<>>
  <2>1. SUFFICES ASSUME request[c] # <<>> PROVE FALSE OBVIOUS
  <2>2. request[c] \in Seq(RequestMsg) BY DEF RequestType
  <2>3. request[c][1] \in RequestMsg BY <2>1, <2>2, FirstFacts
  <2> QED BY <2>1, <2>3 DEF Asked, RequestMsg
<1>3. Append(request[c], msg) # <<>> /\ Append(request[c], msg)[1] = msg /\ Len(Append(request[c], msg)) = 1
  BY <1>1, <1>2
<1>4. request' = [request EXCEPT ![c] = Append(request[c], msg)] BY DEF SendRequest
<1> HIDE DEF msg
<1>5. RequestQueues' BY <1>3, <1>4 DEF RequestQueues, RequestType
<1>6. msg.type = t BY DEF msg
<1> QED BY <1>3, <1>4, <1>5, <1>6 DEF Asked, RequestType

(* The directory takes a request. *)
LEMMA PopRequestFacts ==
  ASSUME RequestType, RequestQueues, NEW c \in Caches, request[c] # <<>>, PopRequest(c)
  PROVE  /\ RequestQueues' /\ Asked' = [Asked EXCEPT ![c] = "none"]
         /\ Head(request[c]).type = Asked[c] /\ Asked[c] # "none"
<1>1. request[c] \in Seq(RequestMsg) /\ Len(request[c]) <= 1 BY DEF RequestType, RequestQueues
<1>2. Tail(request[c]) = <<>> /\ Head(request[c]) = request[c][1] /\ request[c][1] \in RequestMsg
  BY <1>1, ShortQueue
<1>3. request' = [request EXCEPT ![c] = <<>>] BY <1>2 DEF PopRequest
<1>4. RequestQueues' BY <1>3 DEF RequestQueues, RequestType
<1> QED BY <1>2, <1>3, <1>4 DEF Asked, RequestType, RequestMsg

(* A cache takes the first message forwarded to it. *)
LEMMA PopForwardFacts ==
  ASSUME ForwardType, ForwardQueues, NEW c \in Caches, forward[c] # <<>>, PopForward(c)
  PROVE  /\ ForwardQueues' /\ Head(forward[c]) \in Pending[c]
         /\ Pending' = [Pending EXCEPT ![c] = @ \ {Head(forward[c])}]
         /\ \A m \in Pending[c] : m # Head(forward[c]) =>
               Rank(Head(forward[c]).type) < Rank(m.type)
<1> DEFINE q == forward[c]
<1>1. q \in Seq(ForwardMsg) BY DEF ForwardType
<1>2. /\ Len(Tail(q)) = Len(q) - 1 /\ DOMAIN Tail(q) = 1 .. Len(q) - 1
      /\ \A i \in 1 .. Len(q) - 1 : Tail(q)[i] = q[i + 1]
      /\ Head(q) = q[1] /\ Len(q) >= 1 /\ DOMAIN q = 1 .. Len(q) /\ Len(q) \in Nat
  BY <1>1, TailFacts
<1>3. forward' = [forward EXCEPT ![c] = Tail(q)] BY DEF PopForward
<1>4. \A i, j \in 1 .. Len(q) : i < j => Rank(q[i].type) < Rank(q[j].type)
  BY <1>2 DEF ForwardQueues
<1>5. \A i \in 1 .. Len(q) : Rank(q[i].type) \in {1, 2, 3}
  BY DEF Rank
<1>6. {Tail(q)[i] : i \in DOMAIN Tail(q)} = {q[i] : i \in DOMAIN q} \ {q[1]}
  <2>1. ASSUME NEW i \in 1 .. Len(q) - 1
        PROVE  Tail(q)[i] = q[i + 1] /\ i + 1 \in 1 .. Len(q) /\ q[i + 1] # q[1]
    <3>1. 1 \in 1 .. Len(q) /\ i + 1 \in 1 .. Len(q) /\ 1 < i + 1 BY <1>2
    <3>2. Rank(q[1].type) < Rank(q[i + 1].type) BY <3>1, <1>4
    <3> QED BY <3>1, <3>2, <1>2, <1>5
  <2>2. ASSUME NEW j \in 1 .. Len(q), q[j] # q[1]
        PROVE  \E i \in 1 .. Len(q) - 1 : Tail(q)[i] = q[j]
    <3>1. j # 1 BY <2>2
    <3>2. j - 1 \in 1 .. Len(q) - 1 /\ (j - 1) + 1 = j BY <3>1, <1>2
    <3>3. Tail(q)[j - 1] = q[j] BY <3>2, <1>2
    <3> QED BY <3>2, <3>3
  <2>3. {Tail(q)[i] : i \in DOMAIN Tail(q)} = {Tail(q)[i] : i \in 1 .. Len(q) - 1}
    BY <1>2
  <2>4. {q[i] : i \in DOMAIN q} = {q[i] : i \in 1 .. Len(q)}
    BY <1>2
  <2>5. {Tail(q)[i] : i \in 1 .. Len(q) - 1} = {q[i] : i \in 1 .. Len(q)} \ {q[1]}
    BY SMTT(30), <2>1, <2>2
  <2> QED BY <2>3, <2>4, <2>5
<1> DEFINE r == Tail(q)
<1>7. \A i, j \in DOMAIN r : i < j => Rank(r[i].type) < Rank(r[j].type)
  <2>1. SUFFICES ASSUME NEW i \in 1 .. Len(q) - 1, NEW j \in 1 .. Len(q) - 1, i < j
                 PROVE  Rank(r[i].type) < Rank(r[j].type)
    BY <1>2
  <2>2. i + 1 \in 1 .. Len(q) /\ j + 1 \in 1 .. Len(q) /\ i + 1 < j + 1 BY <2>1, <1>2
  <2>3. r[i] = q[i + 1] /\ r[j] = q[j + 1] BY <2>1, <1>2
  <2> QED BY <2>2, <2>3, <1>4
<1>8. Pending[c] = {q[i] : i \in DOMAIN q} BY DEF Pending
<1>10. ForwardQueues' /\ Pending' = [Pending EXCEPT ![c] = @ \ {q[1]}]
  <2> HIDE DEF q, r
  <2>1. forward' = [forward EXCEPT ![c] = r] BY <1>3 DEF r
  <2>2. {r[i] : i \in DOMAIN r} = Pending[c] \ {q[1]} BY <1>6, <1>8 DEF r
  <2>3. ForwardQueues' BY <2>1, <1>7 DEF ForwardQueues, ForwardType
  <2>4. \A d \in Caches : forward'[d] = IF d = c THEN r ELSE forward[d]
    BY <2>1 DEF ForwardType
  <2>5. \A d \in Caches : Pending'[d] = IF d = c THEN {r[i] : i \in DOMAIN r} ELSE Pending[d]
    BY <2>4 DEF Pending
  <2> QED BY <2>2, <2>3, <2>5 DEF Pending
<1>9. \A m \in Pending[c] : m # Head(q) => Rank(Head(q).type) < Rank(m.type)
  <2>1. SUFFICES ASSUME NEW j \in 1 .. Len(q), q[j] # q[1]
                 PROVE  Rank(q[1].type) < Rank(q[j].type)
    BY <1>2 DEF Pending
  <2>2. 1 \in 1 .. Len(q) /\ 1 < j BY <1>2, <2>1
  <2> QED BY <2>2, <1>4
<1> QED BY <1>2, <1>8, <1>9, <1>10

(* The directory forwards a message to dests on behalf of r. *)
Sends(dests, t, r) ==
    Pending' = [d \in Caches |->
       IF d \in dests THEN Pending[d] \cup {[type |-> t, req |-> r]} ELSE Pending[d]]

(* The directory forwards a message behind what its destinations still have *)
(* to take, which is of lower rank.                                         *)
LEMMA ForwardFacts ==
  ASSUME ForwardType, ForwardQueues, NEW dests \in SUBSET Caches,
         NEW t \in {"GetS", "GetM", "Inv", "PutAck"}, NEW r \in Nodes,
         forward' = Forward(forward, dests, t, r),
         \A d \in dests : \A m \in Pending[d] : Rank(m.type) < Rank(t)
  PROVE  ForwardQueues' /\ Sends(dests, t, r)
<1> DEFINE msg == [type |-> t, req |-> r]
<1>1. msg \in ForwardMsg BY DEF ForwardMsg
<1>2. msg.type = t OBVIOUS
<1> HIDE DEF msg
<1>3. ASSUME NEW d \in dests
      PROVE  LET q == Append(forward[d], msg) IN
             /\ \A i, j \in DOMAIN q : i < j => Rank(q[i].type) < Rank(q[j].type)
             /\ {q[i] : i \in DOMAIN q} = Pending[d] \cup {msg}
  <2> DEFINE q == Append(forward[d], msg)
             n == Len(forward[d])
  <2>1. forward[d] \in Seq(ForwardMsg) BY DEF ForwardType
  <2>2. /\ DOMAIN q = 1 .. n + 1 /\ \A i \in 1 .. n : q[i] = forward[d][i]
        /\ q[n + 1] = msg /\ n \in Nat /\ DOMAIN forward[d] = 1 .. n
    BY <2>1, <1>1, AppendFacts
  <2>3. Pending[d] = {forward[d][i] : i \in 1 .. n} BY <2>2 DEF Pending
  <2>4. \A i \in 1 .. n : Rank(q[i].type) < Rank(t)
    BY <2>2, <2>3
  <2>5. \A i, j \in 1 .. n : i < j => Rank(q[i].type) < Rank(q[j].type)
    BY <2>2 DEF ForwardQueues
  <2> HIDE DEF q, n
  <2>6. \A i, j \in DOMAIN q : i < j => Rank(q[i].type) < Rank(q[j].type)
    <3>1. SUFFICES ASSUME NEW i \in 1 .. n + 1, NEW j \in 1 .. n + 1, i < j
                   PROVE  Rank(q[i].type) < Rank(q[j].type)
      BY <2>2
    <3>2. i \in 1 .. n BY <3>1, <2>2
    <3>3. CASE j \in 1 .. n BY <3>1, <3>2, <3>3, <2>5
    <3>4. CASE j = n + 1 BY <3>2, <3>4, <2>2, <2>4, <1>2
    <3> QED BY <3>1, <3>3, <3>4, <2>2
  <2>7. {q[i] : i \in DOMAIN q} = Pending[d] \cup {msg}
    <3>1. \A i \in 1 .. n + 1 : i \in 1 .. n \/ i = n + 1 BY <2>2
    <3>2. \A i \in 1 .. n : i \in 1 .. n + 1 BY <2>2
    <3>3. n + 1 \in 1 .. n + 1 BY <2>2
    <3> QED BY <3>1, <3>2, <3>3, <2>2, <2>3
  <2> QED BY <2>6, <2>7 DEF q
<1>4. forward' = [d \in Caches |-> IF d \in dests THEN Append(forward[d], msg) ELSE forward[d]]
  BY DEF Forward, msg
<1>5. ForwardQueues' BY <1>3, <1>4 DEF ForwardQueues
<1>6. Pending' = [d \in Caches |-> IF d \in dests THEN Pending[d] \cup {msg} ELSE Pending[d]]
  BY <1>3, <1>4 DEF Pending
<1> QED BY <1>5, <1>6 DEF msg, Sends

(* A message of the response network that is not there. *)
LEMMA NotArriving ==
  ASSUME ResponseType, NEW d \in Nodes, NEW s \in Nodes
  PROVE  Arriving[d][s] = "none" <=> response[d][s] = <<>>
<1>1. ASSUME response[d][s] # <<>> PROVE response[d][s][1].type # "none"
  <2>1. response[d][s] \in Seq(ResponseMsg) BY DEF ResponseType
  <2>2. response[d][s][1] \in ResponseMsg BY <1>1, <2>1, FirstFacts
  <2> QED BY <2>2 DEF ResponseMsg
<1> QED BY <1>1 DEF Arriving

(* A message of type t of s comes to dests, with n acks to wait for. *)
Delivered(dests, s, t) ==
    Arriving' = [d \in Nodes |-> [x \in Nodes |->
                   IF d \in dests /\ x = s THEN t ELSE Arriving[d][x]]]

AcksDelivered(dests, s, n) ==
    DirAcks' = [c \in Caches |-> IF c \in dests /\ s = Dir THEN n ELSE DirAcks[c]]

(* Data or an ack is sent to destinations that nothing else is on its way to. *)
LEMMA RespondFacts ==
  ASSUME ResponseType, ResponseQueues, NEW s \in Nodes, NEW dests \in SUBSET Nodes,
         NEW t \in {"Data", "InvAck"}, NEW blk \in Block, NEW n \in Nat,
         \A d \in dests : Arriving[d][s] = "none", Respond(s, dests, t, blk, n)
  PROVE  /\ ResponseQueues'
         /\ response' = [d \in Nodes |-> [x \in Nodes |->
              IF d \in dests /\ x = s THEN <<[type |-> t, data |-> blk, acks |-> n]>>
                                      ELSE response[d][x]]]
         /\ Delivered(dests, s, t) /\ AcksDelivered(dests, s, n)
<1> DEFINE msg == [type |-> t, data |-> blk, acks |-> n]
<1>1. msg.type = t /\ msg.acks = n /\ msg \in ResponseMsg BY DEF ResponseMsg
<1>2. \A d \in dests : response[d][s] = <<>> BY NotArriving
<1>3. Append(<<>>, msg) = <<msg>> /\ <<msg>> # <<>> /\ <<msg>>[1] = msg /\ Len(<<msg>>) = 1
  OBVIOUS
<1>4. \A d \in Nodes : response[d] = [x \in Nodes |-> response[d][x]]
  BY DEF ResponseType
<1>5. response' = [d \in Nodes |-> IF d \in dests THEN [response[d] EXCEPT ![s] = Append(@, msg)]
                                                  ELSE response[d]]
  BY DEF Respond
<1> HIDE DEF msg
<1>6. response' = [d \in Nodes |-> [x \in Nodes |->
         IF d \in dests /\ x = s THEN <<msg>> ELSE response[d][x]]]
  BY <1>2, <1>3, <1>4, <1>5
<1>7. ResponseQueues' BY <1>3, <1>6 DEF ResponseQueues
<1>8. Arriving' = [d \in Nodes |-> [x \in Nodes |->
         IF d \in dests /\ x = s THEN t ELSE Arriving[d][x]]]
  BY <1>1, <1>3, <1>6 DEF Arriving
<1>9. DirAcks' = [c \in Caches |-> IF c \in dests /\ s = Dir THEN n ELSE DirAcks[c]]
  BY <1>1, <1>3, <1>6 DEF DirAcks, Nodes
<1> QED BY <1>6, <1>7, <1>8, <1>9 DEF msg, Delivered, AcksDelivered

(* A response is taken. *)
LEMMA PopResponseFacts ==
  ASSUME ResponseType, ResponseQueues, NEW s \in Nodes, NEW d \in Nodes,
         response[d][s] # <<>>, PopResponse(s, d)
  PROVE  /\ ResponseQueues'
         /\ response' = [response EXCEPT ![d][s] = <<>>]
         /\ Arriving' = [Arriving EXCEPT ![d][s] = "none"]
         /\ DirAcks' = [c \in Caches |-> IF c = d /\ s = Dir THEN 0 ELSE DirAcks[c]]
         /\ Head(response[d][s]) = response[d][s][1]
         /\ Head(response[d][s]) \in ResponseMsg
         /\ Head(response[d][s]).type = Arriving[d][s] /\ Arriving[d][s] # "none"
         /\ d \in Caches /\ s = Dir => Head(response[d][s]).acks = DirAcks[d]
<1>1. response[d][s] \in Seq(ResponseMsg) /\ Len(response[d][s]) <= 1
  BY DEF ResponseType, ResponseQueues
<1>2. /\ Tail(response[d][s]) = <<>> /\ Head(response[d][s]) = response[d][s][1]
      /\ response[d][s][1] \in ResponseMsg
  BY <1>1, ShortQueue
<1>3. response' = [response EXCEPT ![d][s] = <<>>] BY <1>2 DEF PopResponse
<1>4. \A e, x \in Nodes : response'[e][x] = IF e = d /\ x = s THEN <<>> ELSE response[e][x]
  BY <1>3 DEF ResponseType
<1>5. ResponseQueues' BY <1>4 DEF ResponseQueues
<1>6. Arriving' = [e \in Nodes |-> [x \in Nodes |-> IF e = d /\ x = s THEN "none" ELSE Arriving[e][x]]]
  BY <1>4 DEF Arriving
<1>7. Arriving' = [Arriving EXCEPT ![d][s] = "none"]
  <2>1. Arriving = [e \in Nodes |-> [x \in Nodes |-> Arriving[e][x]]] BY DEF Arriving
  <2> QED BY <1>6, <2>1
<1>8. DirAcks' = [c \in Caches |-> IF c = d /\ s = Dir THEN 0 ELSE DirAcks[c]]
  BY <1>4 DEF DirAcks, Nodes
<1>9. Head(response[d][s]).type = Arriving[d][s] /\ Arriving[d][s] # "none"
  BY <1>2, NotArriving DEF Arriving
<1>10. d \in Caches /\ s = Dir => Head(response[d][s]).acks = DirAcks[d]
  BY <1>2 DEF DirAcks
<1> QED BY <1>2, <1>3, <1>5, <1>7, <1>8, <1>9, <1>10

(* The directory queues a request for memory while memory owes it nothing, ... *)
LEMMA QueueMemoryFacts ==
  ASSUME MemType, MemoryQueues, MemOp = "none", NEW t \in {"MEMORY_READ", "MEMORY_WB"},
         NEW r \in Nodes, NEW blk \in Block, QueueMemory(t, r, blk), UNCHANGED fromMem
  PROVE  /\ MemoryQueues' /\ MemOp' = t /\ MemFor' = r
         /\ toMem' = <<[type |-> t, req |-> r, data |-> blk]>> /\ fromMem' = <<>>
<1> DEFINE msg == [type |-> t, req |-> r, data |-> blk]
<1>1. toMem = <<>> /\ fromMem = <<>>
  <2>1. ASSUME NEW q \in Seq(MemoryMsg), q # <<>> PROVE q[1].type # "none"
    <3>1. q[1] \in MemoryMsg BY <2>1, FirstFacts
    <3> QED BY <3>1 DEF MemoryMsg
  <2> QED BY <2>1 DEF MemType, MemOp, MemMsg
<1>2. Append(<<>>, msg) = <<msg>> /\ <<msg>> # <<>> /\ <<msg>>[1] = msg /\ Len(<<msg>>) = 1
      /\ Len(<<>>) = 0
  OBVIOUS
<1>3. toMem' = <<msg>> /\ fromMem' = <<>> BY <1>1, <1>2 DEF QueueMemory
<1>4. msg.type = t /\ msg.req = r OBVIOUS
<1> HIDE DEF msg
<1>5. MemoryQueues' BY <1>2, <1>3 DEF MemoryQueues
<1>6. MemMsg' = msg BY <1>2, <1>3 DEF MemMsg
<1> QED BY <1>3, <1>4, <1>5, <1>6 DEF MemOp, MemFor, msg

(* ... memory serves it, ... *)
LEMMA MemoryAccessFacts ==
  ASSUME MemType, MemoryQueues, MemoryAccess
  PROVE  /\ MemoryQueues' /\ MemOp' = MemOp /\ MemFor' = MemFor
         /\ toMem # <<>> /\ fromMem = <<>> /\ toMem' = <<>> /\ Head(toMem) = toMem[1]
         /\ toMem[1] \in MemoryMsg /\ MemOp = toMem[1].type
         /\ fromMem' = <<[toMem[1] EXCEPT !.data = mem']>>
<1>1. toMem \in Seq(MemoryMsg) /\ fromMem \in Seq(MemoryMsg) /\ toMem # <<>>
  BY DEF MemType, MemoryAccess
<1>2. Len(toMem) >= 1 /\ Len(fromMem) \in Nat /\ Len(toMem) \in Nat
  BY <1>1, FirstFacts
<1>3. Len(toMem) <= 1 /\ Len(fromMem) = 0 BY <1>2 DEF MemoryQueues
<1>4. fromMem = <<>> BY <1>1, <1>3
<1>5. Tail(toMem) = <<>> /\ Head(toMem) = toMem[1] /\ toMem[1] \in MemoryMsg
  BY <1>1, <1>3, ShortQueue
<1> DEFINE msg == [toMem[1] EXCEPT !.data = mem']
<1>6. toMem' = <<>> /\ fromMem' = <<msg>>
  BY <1>4, <1>5 DEF MemoryAccess
<1>7. msg.type = toMem[1].type /\ msg.req = toMem[1].req BY <1>5 DEF MemoryMsg
<1>8. <<msg>> # <<>> /\ <<msg>>[1] = msg /\ Len(<<msg>>) = 1 /\ Len(<<>>) = 0
  OBVIOUS
<1>9. MemMsg = toMem[1] BY <1>1 DEF MemMsg
<1>10. MemMsg' = msg
  <2> HIDE DEF msg
  <2> QED BY <1>6, <1>8 DEF MemMsg
<1>11. MemoryQueues'
  <2> HIDE DEF msg
  <2> QED BY <1>6, <1>8 DEF MemoryQueues
<1> QED BY <1>1, <1>4, <1>5, <1>6, <1>7, <1>9, <1>10, <1>11 DEF MemOp, MemFor

(* ... and the directory takes the answer. *)
LEMMA PopMemoryFacts ==
  ASSUME MemType, MemoryQueues, fromMem # <<>>, fromMem' = Tail(fromMem), UNCHANGED toMem
  PROVE  /\ MemoryQueues' /\ MemOp' = "none"
         /\ Head(fromMem) = fromMem[1] /\ fromMem[1] \in MemoryMsg
         /\ Head(fromMem).type = MemOp /\ Head(fromMem).req = MemFor
         /\ toMem = <<>> /\ fromMem' = <<>>
<1>1. toMem \in Seq(MemoryMsg) /\ fromMem \in Seq(MemoryMsg) BY DEF MemType
<1>2. Len(fromMem) >= 1 /\ Len(fromMem) \in Nat /\ Len(toMem) \in Nat
  BY <1>1, FirstFacts
<1>3. Len(fromMem) <= 1 /\ Len(toMem) = 0 BY <1>2 DEF MemoryQueues
<1>4. toMem = <<>> BY <1>1, <1>3
<1>5. Tail(fromMem) = <<>> /\ Head(fromMem) = fromMem[1] /\ fromMem[1] \in MemoryMsg
  BY <1>1, <1>3, ShortQueue
<1>6. toMem' = <<>> /\ fromMem' = <<>> /\ Len(<<>>) = 0 BY <1>4, <1>5
<1>7. MemMsg = fromMem[1] /\ MemMsg' = NoMemMsg BY <1>4, <1>6 DEF MemMsg, NoMemMsg
<1>8. NoMemMsg.type = "none" BY DEF NoMemMsg
<1>9. MemoryQueues' BY <1>6 DEF MemoryQueues
<1> QED BY <1>4, <1>5, <1>6, <1>7, <1>8, <1>9 DEF MemOp, MemFor
---------------------------------------------------------------------------
(* The transitions, as far as the invariant sees them. *)
control == <<cstate, tbes, acks, dirVars, Asked, Pending, Arriving, DirAcks, MemOp, MemFor>>

(* A miss, an upgrade or a replacement sends a request. *)
IsSend(t, from, to) ==
    \/ t = "GetS" /\ from = "I" /\ to = "IS_D"
    \/ t = "GetM" /\ \/ from = "I" /\ to = "IM_AD"
                     \/ from = "S" /\ to = "SM_AD"
    \/ t = "PutS" /\ from = "S" /\ to = "SI_A"
    \/ t = "PutM" /\ from = "M" /\ to = "MI_A"

SendStep(c, t, from, to) ==
    /\ IsSend(t, from, to)
    /\ cstate[c] = from /\ cstate' = [cstate EXCEPT ![c] = to]
    /\ tbes' = IF t \in Gets THEN tbes \cup {c} ELSE tbes
    /\ Asked' = [Asked EXCEPT ![c] = t]
    /\ UNCHANGED <<acks, dirVars, Pending, Arriving, DirAcks, MemOp, MemFor>>

(* A cache takes m, the first message forwarded to it. *)
Takes(c, m) ==
    /\ m \in Pending[c] /\ Pending' = [Pending EXCEPT ![c] = @ \ {m}]
    /\ \A n \in Pending[c] : n # m => Rank(m.type) < Rank(n.type)
    /\ UNCHANGED <<tbes, acks, dirVars, Asked, DirAcks, MemOp, MemFor>>

GetSStep(c, m) ==
    /\ m.type = "GetS" /\ Takes(c, m)
    /\ \/ cstate[c] = "M"    /\ To(c, "S")
       \/ cstate[c] = "MI_A" /\ To(c, "SI_A")
    /\ Delivered({m.req, Dir}, c, "Data")

GetMStep(c, m) ==
    /\ m.type = "GetM" /\ Takes(c, m)
    /\ \/ cstate[c] = "M"    /\ To(c, "I")
       \/ cstate[c] = "MI_A" /\ To(c, "II_A")
    /\ Delivered({m.req}, c, "Data")

InvStep(c, m) ==
    /\ m.type = "Inv" /\ Takes(c, m)
    /\ \/ cstate[c] = "S"     /\ To(c, "I")
       \/ cstate[c] = "SM_AD" /\ To(c, "IM_AD")
       \/ cstate[c] = "SI_A"  /\ To(c, "II_A")
    /\ Delivered({m.req}, c, "InvAck")

PutAckStep(c, m) ==
    /\ m.type = "PutAck" /\ Takes(c, m)
    /\ cstate[c] \in {"MI_A", "SI_A", "II_A"} /\ To(c, "I")
    /\ UNCHANGED Arriving

(* A cache takes a response of s. *)
Receives(s, c, t) ==
    /\ Arriving[c][s] = t /\ Arriving' = [Arriving EXCEPT ![c][s] = "none"]
    /\ DirAcks' = [d \in Caches |-> IF d = c /\ s = Dir THEN 0 ELSE DirAcks[d]]
    /\ UNCHANGED <<dirVars, Asked, Pending, MemOp, MemFor>>

LoadFilledStep(s, c) ==
    /\ Receives(s, c, "Data")
    /\ cstate[c] = "IS_D" /\ To(c, "S") /\ FreeTBE(c)

StoreFilledStep(s, c) ==
    /\ Receives(s, c, "Data") /\ (s = Dir => DirAcks[c] + acks[c] = 0)
    /\ cstate[c] \in {"IM_AD", "SM_AD"} /\ To(c, "M") /\ FreeTBE(c)

AwaitStep(c) ==
    /\ Receives(Dir, c, "Data") /\ DirAcks[c] + acks[c] # 0
    /\ \/ cstate[c] = "IM_AD" /\ To(c, "IM_A")
       \/ cstate[c] = "SM_AD" /\ To(c, "SM_A")
    /\ acks' = [acks EXCEPT ![c] = @ + DirAcks[c]]
    /\ UNCHANGED tbes

CountStep(s, c) ==
    /\ Receives(s, c, "InvAck") /\ s \in Caches /\ acks[c] # 1
    /\ acks' = [acks EXCEPT ![c] = @ - 1]
    /\ UNCHANGED <<cstate, tbes>>

LastStep(s, c) ==
    /\ Receives(s, c, "InvAck") /\ s \in Caches /\ acks[c] = 1
    /\ cstate[c] \in {"IM_A", "SM_A"} /\ To(c, "M") /\ FreeTBE(c)

(* The directory takes a request of c. *)
Serves(c, ts) ==
    /\ Asked[c] \in ts /\ Asked' = [Asked EXCEPT ![c] = "none"]
    /\ UNCHANGED <<cstate, tbes, acks, Arriving, DirAcks>>

Reads(c) == MemOp' = "MEMORY_READ" /\ MemFor' = c

ReadStep(c) ==
    /\ Serves(c, {"GetS"})
    /\ dstate \in {"I", "S"} /\ dstate' = "S_m"
    /\ Reads(c) /\ sharers' = sharers \cup {c} /\ UNCHANGED <<owner, Pending>>

ReadOwnedStep(c) ==
    /\ Serves(c, {"GetS"})
    /\ dstate = "M" /\ dstate' = "S_D"
    /\ Sends(owner, "GetS", c)
    /\ sharers' = (sharers \cup {c}) \cup owner /\ owner' = {}
    /\ UNCHANGED <<MemOp, MemFor>>

WriteStep(c) ==
    /\ Serves(c, {"GetM"})
    /\ dstate \in {"I", "S"} /\ dstate' = "M_m"
    /\ Reads(c) /\ owner' = {c}
    /\ sharers' = sharers \ {c} /\ Sends(sharers \ {c}, "Inv", c)

WriteOwnedStep(c) ==
    /\ Serves(c, {"GetM"})
    /\ dstate = "M" /\ Sends(owner, "GetM", c) /\ owner' = {c}
    /\ UNCHANGED <<dstate, sharers, MemOp, MemFor>>

PutStep(c) ==
    /\ Serves(c, {"PutS", "PutM"}) /\ c \notin owner
    /\ \/ dstate \in {"I", "M", "M_m", "MI_m"} /\ UNCHANGED <<dstate, sharers>>
       \/ /\ dstate \in {"S", "S_D", "SS_m", "S_m"} /\ sharers' = sharers \ {c}
          /\ dstate' = dstate \/ (dstate = "S" /\ dstate' = "I" /\ sharers' = {})
    /\ Sends({c}, "PutAck", Dir)
    /\ UNCHANGED <<owner, MemOp, MemFor>>

OwnerLeavesStep(c) ==
    /\ Serves(c, {"PutM"}) /\ c \in owner
    /\ dstate = "M" /\ dstate' = "MI_m" /\ owner' = {}
    /\ MemOp' = "MEMORY_WB" /\ Sends({c}, "PutAck", Dir)
    /\ UNCHANGED sharers

(* The directory takes the owner's data, or an answer of memory. *)
OwnerDataStep(s) ==
    /\ Arriving[Dir][s] = "Data" /\ Arriving' = [Arriving EXCEPT ![Dir][s] = "none"]
    /\ dstate = "S_D" /\ dstate' = "SS_m" /\ MemOp' = "MEMORY_WB"
    /\ UNCHANGED <<cstate, tbes, acks, sharers, owner, Asked, Pending, DirAcks>>

MemDataStep ==
    /\ MemOp = "MEMORY_READ" /\ MemOp' = "none"
    /\ \/ dstate = "S_m" /\ dstate' = "S" /\ sharers' = sharers
       \/ dstate = "M_m" /\ dstate' = "M" /\ sharers' = {}
    /\ Delivered({MemFor}, Dir, "Data")
    /\ AcksDelivered({MemFor}, Dir, AcksFor(MemFor))
    /\ UNCHANGED <<cstate, tbes, acks, owner, Asked, Pending>>

MemAckStep ==
    /\ MemOp = "MEMORY_WB" /\ MemOp' = "none"
    /\ \/ dstate = "MI_m" /\ dstate' = "I"
       \/ dstate = "SS_m" /\ dstate' = "S"
    /\ UNCHANGED <<cstate, tbes, acks, sharers, owner, Asked, Pending, Arriving, DirAcks>>
---------------------------------------------------------------------------
(* Every transition of the protocol is one of these, or none. *)

(* Nothing in flight changes. *)
LEMMA SameControl ==
  ASSUME QueueInv, UNCHANGED <<cacheVars, dirVars, memVars, request, forward, response>>
  PROVE  QueueInv' /\ UNCHANGED control
<1>1. UNCHANGED <<Asked, Pending, Arriving, DirAcks, MemOp, MemFor>>
  BY DEF Asked, Pending, Arriving, DirAcks, MemOp, MemFor, MemMsg, memVars
<1>2. QueueInv'
  BY DEF QueueInv, RequestQueues, ResponseQueues, MemoryQueues, ForwardQueues, memVars
<1> QED BY <1>1, <1>2 DEF control, cacheVars

(* What is in flight depends on its own queues only. *)
LEMMA ControlFrames ==
  /\ UNCHANGED request => UNCHANGED Asked /\ (RequestQueues => RequestQueues')
  /\ UNCHANGED forward => UNCHANGED Pending /\ (ForwardQueues => ForwardQueues')
  /\ UNCHANGED response => UNCHANGED <<Arriving, DirAcks>> /\ (ResponseQueues => ResponseQueues')
  /\ UNCHANGED <<toMem, fromMem>> =>
        UNCHANGED <<MemOp, MemFor>> /\ (MemoryQueues => MemoryQueues')
<1>1. UNCHANGED request => UNCHANGED Asked /\ (RequestQueues => RequestQueues')
  BY DEF Asked, RequestQueues
<1>2. UNCHANGED forward => UNCHANGED Pending /\ (ForwardQueues => ForwardQueues')
  BY DEF Pending, ForwardQueues
<1>3. UNCHANGED response => UNCHANGED <<Arriving, DirAcks>> /\ (ResponseQueues => ResponseQueues')
  BY DEF Arriving, DirAcks, ResponseQueues
<1>4. UNCHANGED <<toMem, fromMem>> =>
        UNCHANGED <<MemOp, MemFor>> /\ (MemoryQueues => MemoryQueues')
  BY DEF MemMsg, MemOp, MemFor, MemoryQueues
<1> QED BY <1>1, <1>2, <1>3, <1>4

(* Requests of a cache. *)
LEMMA SendIsStep ==
  ASSUME TypeOK, ControlInv, NEW c \in Caches,
         LoadMiss(c) \/ StoreMiss(c) \/ Upgrade(c) \/ Replacement(c)
  PROVE  QueueInv' /\ \E t, from, to : SendStep(c, t, from, to)
<1>1. ControlType BY ControlTypeCorrect
<1>2. /\ RequestType /\ RequestQueues /\ Blank \in Block /\ cdata[c] \in Block
      /\ ForwardQueues /\ ResponseQueues /\ MemoryQueues
  BY BlankType DEF TypeOK, CacheType, ControlInv, QueueInv
<1>3. cstate[c] \in {"I", "S", "M"} /\ Asked[c] = "none"
  <2>1. cstate[c] \in {"I", "S", "M"}
    BY DEF LoadMiss, StoreMiss, Upgrade, Replacement, ReplaceShared, ReplaceModified, On
  <2> QED BY <1>1, <2>1 DEF ControlInv, RequestInv, ControlType
<1>4. ASSUME NEW op, NEW next, NEW msg \in {"GetS", "GetM"}, Miss(c, op, next, msg)
      PROVE  /\ QueueInv' /\ cstate' = [cstate EXCEPT ![c] = next] /\ tbes' = tbes \cup {c}
             /\ Asked' = [Asked EXCEPT ![c] = msg]
             /\ UNCHANGED <<acks, dirVars, Pending, Arriving, DirAcks, MemOp, MemFor>>
  BY <1>2, <1>3, <1>4, SendRequestFacts, ControlFrames DEF Miss, To, QueueInv, memVars
<1>5. CASE LoadMiss(c)
  <2>1. Miss(c, "Load", "IS_D", "GetS") /\ cstate[c] = "I" BY <1>5 DEF LoadMiss, On
  <2>2. QueueInv' /\ SendStep(c, "GetS", "I", "IS_D")
    BY <1>4, <2>1 DEF SendStep, IsSend, Gets
  <2> QED BY <2>2
<1>6. CASE StoreMiss(c)
  <2>1. Miss(c, "Store", "IM_AD", "GetM") /\ cstate[c] = "I" BY <1>6 DEF StoreMiss, On
  <2>2. QueueInv' /\ SendStep(c, "GetM", "I", "IM_AD")
    BY <1>4, <2>1 DEF SendStep, IsSend, Gets
  <2> QED BY <2>2
<1>7. CASE Upgrade(c)
  <2>1. Miss(c, "Store", "SM_AD", "GetM") /\ cstate[c] = "S" BY <1>7 DEF Upgrade, On
  <2>2. QueueInv' /\ SendStep(c, "GetM", "S", "SM_AD")
    BY <1>4, <2>1 DEF SendStep, IsSend, Gets
  <2> QED BY <2>2
<1>8. CASE ReplaceShared(c)
  <2>1. QueueInv' /\ SendStep(c, "PutS", "S", "SI_A")
    BY <1>2, <1>3, <1>8, SendRequestFacts, ControlFrames
    DEF ReplaceShared, On, To, QueueInv, memVars, SendStep, IsSend, Gets
  <2> QED BY <2>1
<1>9. CASE ReplaceModified(c)
  <2>1. QueueInv' /\ SendStep(c, "PutM", "M", "MI_A")
    BY <1>2, <1>3, <1>9, SendRequestFacts, ControlFrames
    DEF ReplaceModified, CacheData, On, To, QueueInv, memVars, SendStep, IsSend, Gets
  <2> QED BY <2>1
<1> QED BY <1>5, <1>6, <1>7, <1>8, <1>9 DEF Replacement

(* Nothing but what it waits for comes to a cache that was promised an answer. *)
LEMMA NothingArriving ==
  ASSUME ControlType, ControlInv, NEW o \in Caches, NEW m \in Pending[o], m.type \in Gets
  PROVE  m.req \in Caches /\ \A s \in Nodes : Arriving[m.req][s] = "none"
<1>1. /\ m.req \in Caches /\ ~DataFor(m.req)
      /\ cstate[m.req] \in {"IS_D", "IM_AD", "SM_AD"}
      /\ MemOp = "MEMORY_READ" => MemFor # m.req
  BY DEF ControlInv, PromiseInv, Gets
<1>2. ~Collecting(m.req)
  BY <1>1 DEF Collecting, DataFor, ControlInv, MemoryInv, Nodes
<1>3. ASSUME NEW s \in Nodes PROVE Arriving[m.req][s] = "none"
  BY <1>1, <1>2 DEF ControlInv, ArrivingInv, DataFor, ControlType, Nodes
<1> QED BY <1>1, <1>3

(* Messages forwarded to a cache. *)
LEMMA ForwardIsStep ==
  ASSUME TypeOK, ControlInv, NEW c \in Caches, ForwardIn(c)
  PROVE  QueueInv' /\ \E m \in Pending[c] :
            GetSStep(c, m) \/ GetMStep(c, m) \/ InvStep(c, m) \/ PutAckStep(c, m)
<1> DEFINE m == Head(forward[c])
<1>1. /\ forward[c] # <<>> /\ PopForward(c) /\ CanForward(c)
      /\ UNCHANGED <<tbes, acks, dirVars, memVars, request>>
  BY DEF ForwardIn, OwnerFwdGetS, OwnerFwdGetM, Invalidate, PutAcked, CanForward
<1>2. ControlType BY ControlTypeCorrect
<1>3. /\ RequestQueues /\ ForwardQueues /\ ResponseQueues /\ MemoryQueues
      /\ ForwardType /\ ResponseType /\ cdata[c] \in Block /\ c \in Nodes /\ Dir \in Nodes
      /\ c # Dir
  BY CachesAssumption DEF TypeOK, CacheType, ControlInv, QueueInv, Nodes
<1>4. /\ ForwardQueues' /\ m \in Pending[c] /\ Pending' = [Pending EXCEPT ![c] = @ \ {m}]
      /\ \A n \in Pending[c] : n # m => Rank(m.type) < Rank(n.type)
  BY <1>1, <1>3, PopForwardFacts
<1>5. m.type \in {"GetS", "GetM", "Inv", "PutAck"} /\ m.req \in Nodes
  BY <1>2, <1>4 DEF ControlType, ForwardMsg
<1>6. RequestQueues' /\ MemoryQueues' /\ UNCHANGED <<Asked, MemOp, MemFor>>
  BY <1>1, <1>3, ControlFrames DEF memVars
<1> HIDE DEF m
<1>11. ASSUME NEW dests \in SUBSET Nodes, NEW t \in {"Data", "InvAck"},
              \A d \in dests : Arriving[d][c] = "none", Respond(c, dests, t, cdata[c], 0)
       PROVE  ResponseQueues' /\ Delivered(dests, c, t) /\ UNCHANGED DirAcks
  <2>1. PICK blk \in Block : blk = cdata[c] BY <1>3
  <2>2. PICK n \in Nat : n = 0 OBVIOUS
  <2>3. Respond(c, dests, t, blk, n) BY <1>11, <2>1, <2>2
  <2>4. ResponseQueues' /\ Delivered(dests, c, t) /\ AcksDelivered(dests, c, n)
    BY SMTT(30), <1>3, <1>11, <2>3, RespondFacts
  <2>5. DirAcks = [d \in Caches |-> DirAcks[d]] BY <1>2 DEF ControlType
  <2> QED BY <1>3, <2>4, <2>5 DEF AcksDelivered
<1>7. CASE OwnerFwdGetS(c)
  <2>1. m.type = "GetS" BY <1>5, <1>7 DEF OwnerFwdGetS, ForwardEvent, m
  <2>2. \A d \in {m.req, Dir} : Arriving[d][c] = "none"
    <3>1. Arriving[m.req][c] = "none"
      BY <1>2, <1>3, <1>4, <2>1, NothingArriving DEF Gets
    <3>2. Arriving[Dir][c] = "none"
      BY <1>3, <1>4, <2>1 DEF ControlInv, OwnerDataInv
    <3> QED BY <3>1, <3>2
  <2>3. /\ ResponseQueues' /\ UNCHANGED DirAcks /\ Delivered({m.req, Dir}, c, "Data")
    <3>1. Respond(c, {m.req, Dir}, "Data", cdata[c], 0)
      BY <1>7 DEF OwnerFwdGetS, CacheData, m
    <3>2. {m.req, Dir} \in SUBSET Nodes BY <1>3, <1>5
    <3>3. \A d \in {m.req, Dir} : Arriving[d][c] = "none" BY <2>2
    <3> QED BY <1>11, <3>1, <3>2, <3>3
  <2>4. \/ cstate[c] = "M"    /\ To(c, "S")
        \/ cstate[c] = "MI_A" /\ To(c, "SI_A")
    BY <1>7 DEF OwnerFwdGetS, On, To
  <2>5. GetSStep(c, m)
    BY <1>1, <1>4, <1>6, <2>1, <2>3, <2>4 DEF GetSStep, Takes
  <2> QED BY <1>4, <1>6, <2>3, <2>5 DEF QueueInv
<1>8. CASE OwnerFwdGetM(c)
  <2>1. m.type = "GetM" BY <1>5, <1>8 DEF OwnerFwdGetM, ForwardEvent, m
  <2>2. Arriving[m.req][c] = "none"
    BY <1>2, <1>3, <1>4, <2>1, NothingArriving DEF Gets
  <2>3. /\ ResponseQueues' /\ UNCHANGED DirAcks /\ Delivered({m.req}, c, "Data")
    <3>1. Respond(c, {m.req}, "Data", cdata[c], 0)
      BY <1>8 DEF OwnerFwdGetM, CacheData, m
    <3>2. {m.req} \in SUBSET Nodes BY <1>5
    <3>3. \A d \in {m.req} : Arriving[d][c] = "none" BY <2>2
    <3> QED BY <1>11, <3>1, <3>2, <3>3
  <2>4. \/ cstate[c] = "M"    /\ To(c, "I")
        \/ cstate[c] = "MI_A" /\ To(c, "II_A")
    BY <1>8 DEF OwnerFwdGetM, On, Deallocate
  <2>5. GetMStep(c, m)
    BY <1>1, <1>4, <1>6, <2>1, <2>3, <2>4 DEF GetMStep, Takes
  <2> QED BY <1>4, <1>6, <2>3, <2>5 DEF QueueInv
<1>9. CASE Invalidate(c)
  <2>1. m.type = "Inv" BY <1>5, <1>9 DEF Invalidate, ForwardEvent, m
  <2>2. Arriving[m.req][c] = "none"
    BY <1>4, <2>1 DEF ControlInv, InvalidationInv
  <2>3. /\ ResponseQueues' /\ UNCHANGED DirAcks /\ Delivered({m.req}, c, "InvAck")
    <3>1. Respond(c, {m.req}, "InvAck", cdata[c], 0) BY <1>9 DEF Invalidate, m
    <3>2. {m.req} \in SUBSET Nodes BY <1>5
    <3>3. \A d \in {m.req} : Arriving[d][c] = "none" BY <2>2
    <3> QED BY <1>11, <3>1, <3>2, <3>3
  <2>4. \/ cstate[c] = "S"     /\ To(c, "I")
        \/ cstate[c] = "SM_AD" /\ To(c, "IM_AD")
        \/ cstate[c] = "SI_A"  /\ To(c, "II_A")
    BY <1>9 DEF Invalidate, On, Deallocate
  <2>5. InvStep(c, m)
    BY <1>1, <1>4, <1>6, <2>1, <2>3, <2>4 DEF InvStep, Takes
  <2> QED BY <1>4, <1>6, <2>3, <2>5 DEF QueueInv
<1>10. CASE PutAcked(c)
  <2>1. m.type = "PutAck" BY <1>5, <1>10 DEF PutAcked, ForwardEvent, m
  <2>2. cstate[c] \in {"MI_A", "SI_A", "II_A"}
    BY <1>4, <2>1 DEF ControlInv, RequestInv, Has
  <2>3. ResponseQueues' /\ UNCHANGED <<Arriving, DirAcks>>
    BY <1>3, <1>10, ControlFrames DEF PutAcked
  <2>4. PutAckStep(c, m)
    BY <1>1, <1>4, <1>6, <1>10, <2>1, <2>2, <2>3 DEF PutAckStep, Takes, PutAcked, Deallocate
  <2> QED BY <1>4, <1>6, <2>3, <2>4 DEF QueueInv
<1> QED BY <1>7, <1>8, <1>9, <1>10 DEF ForwardIn

(* Responses to a cache. *)
LEMMA ResponseIsStep ==
  ASSUME TypeOK, ControlInv, NEW s \in Nodes, NEW c \in Caches, ResponseIn(s, c)
  PROVE  QueueInv' /\ \/ LoadFilledStep(s, c) \/ StoreFilledStep(s, c)
                      \/ s = Dir /\ AwaitStep(c)
                      \/ CountStep(s, c) \/ LastStep(s, c)
<1>1. /\ CanRespond(s, c) /\ response[c][s] # <<>> /\ PopResponse(s, c)
      /\ UNCHANGED <<dirVars, memVars, request, forward>>
  BY DEF ResponseIn, LoadFilled, StoreFilled, DataAwaitingAcks, CountInvAck, LastAck, CanRespond
<1>2. ControlType BY ControlTypeCorrect
<1>3. /\ RequestQueues /\ ForwardQueues /\ ResponseQueues /\ MemoryQueues
      /\ ResponseType /\ c \in Nodes /\ Dir \in Nodes /\ c # Dir
  BY CachesAssumption DEF TypeOK, ControlInv, QueueInv, Nodes
<1>4. /\ ResponseQueues' /\ Arriving' = [Arriving EXCEPT ![c][s] = "none"]
      /\ DirAcks' = [d \in Caches |-> IF d = c /\ s = Dir THEN 0 ELSE DirAcks[d]]
      /\ Head(response[c][s]).type = Arriving[c][s] /\ Arriving[c][s] # "none"
      /\ s = Dir => Head(response[c][s]).acks = DirAcks[c]
  BY <1>1, <1>3, PopResponseFacts
<1>5. /\ RequestQueues' /\ ForwardQueues' /\ MemoryQueues'
      /\ UNCHANGED <<Asked, Pending, MemOp, MemFor>>
  BY <1>1, <1>3, ControlFrames DEF memVars
<1>6. QueueInv' BY <1>4, <1>5 DEF QueueInv
<1>7. Arriving[c][s] \in {"Data", "InvAck"} /\ (s \in Caches \/ s = Dir)
  BY <1>2, <1>3, <1>4 DEF ControlType, Nodes
<1>8. Arriving[c][s] = "InvAck" => s \in Caches /\ s # Dir
  BY <1>3, CachesAssumption DEF ControlInv, ArrivingInv
<1>9. ASSUME NEW t, Arriving[c][s] = t PROVE Receives(s, c, t)
  BY <1>1, <1>4, <1>5, <1>9 DEF Receives
<1>10. CASE LoadFilled(s, c)
  <2>1. Arriving[c][s] = "Data"
    BY <1>4, <1>7, <1>8, <1>10 DEF LoadFilled, ResponseEvent, WithAllData
  <2>2. LoadFilledStep(s, c)
    BY <1>9, <1>10, <2>1 DEF LoadFilledStep, LoadFilled, On
  <2> QED BY <1>6, <2>2
<1>11. CASE StoreFilled(s, c)
  <2>1. Arriving[c][s] = "Data"
    BY <1>4, <1>7, <1>8, <1>11 DEF StoreFilled, ResponseEvent, WithAllData
  <2>2. s = Dir => DirAcks[c] + acks[c] = 0
    BY <1>4, <1>11 DEF StoreFilled, ResponseEvent, WithAllData
  <2>3. StoreFilledStep(s, c)
    BY <1>9, <1>11, <2>1, <2>2 DEF StoreFilledStep, StoreFilled, On
  <2> QED BY <1>6, <2>3
<1>12. CASE DataAwaitingAcks(s, c)
  <2>1. s = Dir /\ Head(response[c][s]).acks + acks[c] # 0
    BY <1>12 DEF DataAwaitingAcks, ResponseEvent
  <2>2. Arriving[c][s] = "Data" /\ DirAcks[c] + acks[c] # 0
    BY <1>4, <1>7, <1>8, <2>1
  <2>3. cstate[c] \in {"IM_AD", "SM_AD"}
    BY <1>12 DEF DataAwaitingAcks, CanRespond, ResponseFault, CacheTransitions
  <2>4. acks' = [acks EXCEPT ![c] = @ + DirAcks[c]]
    BY <1>4, <1>12, <2>1 DEF DataAwaitingAcks
  <2>5. AwaitStep(c)
    BY <1>9, <1>12, <2>1, <2>2, <2>3, <2>4 DEF AwaitStep, DataAwaitingAcks, To
  <2> QED BY <1>6, <2>1, <2>5
<1>13. CASE CountInvAck(s, c)
  <2>1. s # Dir /\ Arriving[c][s] = "InvAck" /\ acks[c] # 1
    BY <1>4, <1>7, <1>13 DEF CountInvAck, ResponseEvent
  <2>2. CountStep(s, c)
    BY <1>7, <1>9, <1>13, <2>1 DEF CountStep, CountInvAck
  <2> QED BY <1>6, <2>2
<1>14. CASE LastAck(s, c)
  <2>1. s # Dir /\ Arriving[c][s] = "InvAck" /\ acks[c] = 1
    BY <1>4, <1>7, <1>14 DEF LastAck, ResponseEvent
  <2>2. cstate[c] \in {"IM_A", "SM_A"}
    BY <1>14 DEF LastAck, CanRespond, ResponseFault, CacheTransitions
  <2>3. LastStep(s, c)
    BY <1>7, <1>9, <1>14, <2>1, <2>2 DEF LastStep, LastAck
  <2> QED BY <1>6, <2>3
<1> QED BY <1>10, <1>11, <1>12, <1>13, <1>14 DEF ResponseIn

(* The owner has nothing to take but an invalidation. *)
LEMMA OwnerPending ==
  ASSUME ControlType, ControlInv, NEW o \in Caches, o \in owner, NEW m \in Pending[o]
  PROVE  m.type = "Inv"
<1>1. m.type \in {"GetS", "GetM", "Inv", "PutAck"} BY DEF ControlType, ForwardMsg
<1>2. ~Has(o, Gets) /\ m.type \notin Gets /\ Writer(o) BY DEF ControlInv, OwnerInv, Has
<1>3. m.type # "PutAck"
  BY <1>2 DEF ControlInv, RequestInv, Has, Writer, Holds, Granted, Gets
<1> QED BY <1>1, <1>2, <1>3 DEF Gets

(* Nothing is forwarded to a sharer while the directory rests. *)
LEMMA SharerPending ==
  ASSUME ControlType, ControlInv, dstate \in {"I", "S"}, NEW c \in sharers
  PROVE  c \in Caches /\ Pending[c] = {}
<1>1. dstate = "S" /\ c \in Caches
  BY DEF ControlInv, DirInv, ControlType, DirType
<1>2. ASSUME NEW m \in Pending[c] PROVE FALSE
  <2>1. m.type \in {"GetS", "GetM", "Inv", "PutAck"} BY <1>1 DEF ControlType, ForwardMsg
  <2>2. \/ cstate[c] = "S"
        \/ cstate[c] = "SI_A" /\ Asked[c] # "none"
        \/ cstate[c] = "SM_AD" /\ Asked[c] = "GetM"
        \/ cstate[c] = "IS_D" /\ Asked[c] = "none"
    BY <1>1 DEF ControlInv, SharersInv, Sharing
  <2>3. m.type # "PutAck"
    BY <1>1, <2>2 DEF ControlInv, RequestInv, Has
  <2>4. m.type \notin Gets
    BY <1>1, <2>2 DEF ControlInv, OwnerInv, Has, Writer, Holds, Granted
  <2>5. m.type # "Inv"
    <3>1. SUFFICES ASSUME m.type = "Inv" PROVE FALSE OBVIOUS
    <3>2. m.req \in Caches /\ Collecting(m.req)
      BY <1>1, <3>1 DEF ControlInv, InvalidationInv
    <3>3. HasBlock(m.req)
      BY <1>1, <3>2 DEF Collecting, HasBlock, Holds, DataFor, Nodes
    <3> QED BY <1>1, <3>2, <3>3 DEF ControlInv, BlockInv
  <2> QED BY <2>1, <2>3, <2>4, <2>5 DEF Gets
<1> QED BY <1>1, <1>2

(* Requests to the directory. *)
LEMMA RequestIsStep ==
  ASSUME TypeOK, ControlInv, NEW c \in Caches, RequestIn(c)
  PROVE  QueueInv' /\ \/ ReadStep(c) \/ ReadOwnedStep(c) \/ WriteStep(c) \/ WriteOwnedStep(c)
                      \/ PutStep(c) \/ OwnerLeavesStep(c)
<1>1. /\ CanRequest(c) /\ request[c] # <<>> /\ PopRequest(c)
      /\ UNCHANGED <<cacheVars, response>>
  BY DEF RequestIn, GetSFromMemory, GetSFromOwner, GetMUncached, GetMShared,
         GetMFromOwner, PutIgnored, SharerLeaves, OwnerLeaves, CanRequest
<1>2. ControlType BY ControlTypeCorrect
<1>3. /\ RequestQueues /\ ForwardQueues /\ ResponseQueues /\ MemoryQueues
      /\ RequestType /\ ForwardType /\ MemType /\ c \in Nodes /\ Dir \in Nodes /\ Blank \in Block
      /\ owner \in SUBSET Caches /\ sharers \in SUBSET Caches /\ DirInv
  BY BlankType DEF TypeOK, DirType, ControlInv, QueueInv, Nodes
<1>4. /\ RequestQueues' /\ Asked' = [Asked EXCEPT ![c] = "none"]
      /\ Head(request[c]).type = Asked[c] /\ Asked[c] # "none"
  BY <1>1, <1>3, PopRequestFacts
<1>5. ResponseQueues' /\ UNCHANGED <<Arriving, DirAcks>>
  BY <1>1, <1>3, ControlFrames
<1>6. /\ RequestEvent(c) = "GetS" => Asked[c] = "GetS"
      /\ RequestEvent(c) = "GetM" => Asked[c] = "GetM"
      /\ RequestEvent(c) \in {"PutSNotLast", "PutSLast"} => Asked[c] = "PutS"
      /\ RequestEvent(c) = "PutMNonOwner" => Asked[c] = "PutM" /\ c \notin owner
      /\ RequestEvent(c) = "PutMOwner" => Asked[c] = "PutM" /\ c \in owner
      /\ Asked[c] \in {"GetS", "GetM", "PutS", "PutM"}
  BY <1>2, <1>4 DEF RequestEvent, ControlType
<1>7. ASSUME NEW ts, Asked[c] \in ts PROVE Serves(c, ts)
  BY <1>1, <1>4, <1>5, <1>7 DEF Serves, cacheVars
<1>8. MemOp \in {"none", "MEMORY_READ", "MEMORY_WB"} BY <1>2 DEF ControlType
<1>9. dstate \in {"I", "S", "M"} => MemOp = "none"
  BY <1>8 DEF ControlInv, MemoryInv
<1>10. ASSUME UNCHANGED <<toMem, fromMem>>
       PROVE  MemoryQueues' /\ UNCHANGED <<MemOp, MemFor>>
  BY <1>3, <1>10, ControlFrames
<1>11. ASSUME UNCHANGED forward PROVE ForwardQueues' /\ UNCHANGED Pending
  BY <1>3, <1>11, ControlFrames
<1>12. ASSUME NEW dests \in SUBSET Caches, NEW t \in {"GetS", "GetM", "Inv", "PutAck"},
              NEW r \in Nodes, forward' = Forward(forward, dests, t, r),
              \A d \in dests : \A m \in Pending[d] : Rank(m.type) < Rank(t)
       PROVE  ForwardQueues' /\ Sends(dests, t, r)
  BY <1>3, <1>12, ForwardFacts
<1>13. ASSUME MemOp = "none", NEW t \in {"MEMORY_READ", "MEMORY_WB"}, NEW blk \in Block,
              QueueMemory(t, c, blk), UNCHANGED fromMem
       PROVE  MemoryQueues' /\ MemOp' = t /\ MemFor' = c
  BY <1>3, <1>13, QueueMemoryFacts
<1>14. ASSUME AckPut(c), Asked[c] \in {"PutS", "PutM"}
       PROVE  ForwardQueues' /\ Sends({c}, "PutAck", Dir)
  <2>1. \A m \in Pending[c] : m.type \in {"GetS", "GetM", "Inv"}
    BY <1>2, <1>14 DEF ControlType, ForwardMsg, ControlInv, RequestInv, Has
  <2>2. \A d \in {c} : \A m \in Pending[d] : Rank(m.type) < Rank("PutAck")
    BY <2>1 DEF Rank
  <2> QED BY <1>3, <1>12, <1>14, <2>2 DEF AckPut
<1>15. ASSUME NEW t \in Gets, NEW o \in owner, NEW m \in Pending[o] PROVE Rank(m.type) < Rank(t)
  BY <1>2, <1>3, <1>15, OwnerPending DEF Rank, Gets
<1>16. CASE GetSFromMemory(c)
  <2>1. ReadStep(c) /\ MemoryQueues' /\ ForwardQueues'
    BY <1>3, <1>6, <1>7, <1>9, <1>11, <1>13, <1>16 DEF GetSFromMemory, ReadStep, Reads, AddSharer
  <2> QED BY <1>4, <1>5, <2>1 DEF QueueInv
<1>17. CASE GetSFromOwner(c)
  <2>1. ForwardQueues' /\ Sends(owner, "GetS", c)
    BY <1>3, <1>12, <1>15, <1>17 DEF GetSFromOwner, Gets
  <2>2. MemoryQueues' /\ UNCHANGED <<MemOp, MemFor>>
    BY <1>10, <1>17 DEF GetSFromOwner, memVars
  <2>3. ReadOwnedStep(c)
    BY <1>6, <1>7, <1>17, <2>1, <2>2
    DEF GetSFromOwner, ReadOwnedStep, OwnerToSharers, AddSharer
  <2> QED BY <1>4, <1>5, <2>1, <2>2, <2>3 DEF QueueInv
<1>18. CASE GetMUncached(c)
  <2>1. owner = {} /\ sharers = {} BY <1>3, <1>18 DEF GetMUncached, DirInv
  <2>2. ForwardQueues' /\ UNCHANGED Pending BY <1>11, <1>18 DEF GetMUncached
  <2>3. MemoryQueues' /\ Reads(c)
    BY <1>3, <1>9, <1>13, <1>18 DEF GetMUncached, Reads
  <2>4. Pending = [d \in Caches |-> Pending[d]] BY <1>2 DEF ControlType
  <2>5. Sends(sharers \ {c}, "Inv", c) BY <2>1, <2>2, <2>4 DEF Sends
  <2>6. WriteStep(c)
    BY <1>6, <1>7, <1>18, <2>1, <2>3, <2>5 DEF GetMUncached, WriteStep
  <2> QED BY <1>4, <1>5, <2>2, <2>3, <2>6 DEF QueueInv
<1>19. CASE GetMShared(c)
  <2>1. owner = {} BY <1>3, <1>19 DEF GetMShared, DirInv
  <2>2. \A d \in sharers \ {c} : Pending[d] = {}
    BY <1>2, <1>19, SharerPending DEF GetMShared
  <2>3. ForwardQueues' /\ Sends(sharers \ {c}, "Inv", c)
    <3>1. sharers \ {c} \in SUBSET Caches /\ forward' = Forward(forward, sharers \ {c}, "Inv", c)
      BY <1>3, <1>19 DEF GetMShared, Without
    <3>2. \A d \in sharers \ {c} : \A m \in Pending[d] : Rank(m.type) < Rank("Inv")
      BY <2>2
    <3> QED BY <1>3, <1>12, <3>1, <3>2
  <2>4. MemoryQueues' /\ Reads(c)
    BY <1>3, <1>9, <1>13, <1>19 DEF GetMShared, Reads
  <2>5. WriteStep(c)
    BY <1>6, <1>7, <1>19, <2>1, <2>3, <2>4 DEF GetMShared, WriteStep, Without
  <2> QED BY <1>4, <1>5, <2>3, <2>4, <2>5 DEF QueueInv
<1>20. CASE GetMFromOwner(c)
  <2>1. ForwardQueues' /\ Sends(owner, "GetM", c)
    BY <1>3, <1>12, <1>15, <1>20 DEF GetMFromOwner, Gets
  <2>2. MemoryQueues' /\ UNCHANGED <<MemOp, MemFor>>
    BY <1>10, <1>20 DEF GetMFromOwner, memVars
  <2>3. WriteOwnedStep(c)
    BY <1>6, <1>7, <1>20, <2>1, <2>2 DEF GetMFromOwner, WriteOwnedStep
  <2> QED BY <1>4, <1>5, <2>1, <2>2, <2>3 DEF QueueInv
<1>21. ASSUME Asked[c] = "PutS" PROVE c \notin owner
  BY <1>21 DEF ControlInv, RequestInv, OwnerInv, Writer, Holds, Granted
<1>22. CASE PutIgnored(c)
  <2>1. Asked[c] \in {"PutS", "PutM"} /\ c \notin owner
    BY <1>6, <1>21, <1>22 DEF PutIgnored
  <2>2. ForwardQueues' /\ Sends({c}, "PutAck", Dir)
    BY <1>14, <1>22, <2>1 DEF PutIgnored
  <2>3. MemoryQueues' /\ UNCHANGED <<MemOp, MemFor>>
    BY <1>10, <1>22 DEF PutIgnored, memVars
  <2>4. PutStep(c)
    BY <1>7, <1>22, <2>1, <2>2, <2>3 DEF PutIgnored, PutStep, dirVars
  <2> QED BY <1>4, <1>5, <2>2, <2>3, <2>4 DEF QueueInv
<1>23. CASE SharerLeaves(c)
  <2>1. Asked[c] \in {"PutS", "PutM"} /\ c \notin owner
    BY <1>6, <1>21, <1>23 DEF SharerLeaves
  <2>2. ForwardQueues' /\ Sends({c}, "PutAck", Dir)
    BY <1>14, <1>23, <2>1 DEF SharerLeaves
  <2>3. MemoryQueues' /\ UNCHANGED <<MemOp, MemFor>>
    BY <1>10, <1>23 DEF SharerLeaves, memVars
  <2>4. dstate' = dstate \/ (dstate = "S" /\ dstate' = "I" /\ Without(c) = {})
    BY <1>1, <1>2, <1>4, <1>6, <1>23, LastSharer DEF SharerLeaves, CanRequest, ControlType
  <2>5. PutStep(c)
    BY <1>7, <1>23, <2>1, <2>2, <2>3, <2>4 DEF SharerLeaves, PutStep, Without
  <2> QED BY <1>4, <1>5, <2>2, <2>3, <2>5 DEF QueueInv
<1>24. CASE OwnerLeaves(c)
  <2>1. Asked[c] = "PutM" /\ c \in owner BY <1>6, <1>24 DEF OwnerLeaves
  <2>2. dstate = "M" BY <1>24 DEF OwnerLeaves, CanRequest, RequestFault, DirTransitions
  <2>3. ForwardQueues' /\ Sends({c}, "PutAck", Dir)
    BY <1>14, <1>24, <2>1 DEF OwnerLeaves
  <2>4. Head(request[c]).data \in Block
    BY <1>1, <1>3, PopRequestKeepsType DEF RequestMsg
  <2>5. MemoryQueues' /\ MemOp' = "MEMORY_WB"
    BY <1>3, <1>9, <1>13, <1>24, <2>2, <2>4 DEF OwnerLeaves
  <2>6. OwnerLeavesStep(c)
    BY <1>7, <1>24, <2>1, <2>2, <2>3, <2>5 DEF OwnerLeaves, OwnerLeavesStep
  <2> QED BY <1>4, <1>5, <2>3, <2>5, <2>6 DEF QueueInv
<1> QED
  BY <1>16, <1>17, <1>18, <1>19, <1>20, <1>22, <1>23, <1>24 DEF RequestIn

(* The owner's data, and memory. *)
LEMMA OwnerDataIsStep ==
  ASSUME TypeOK, ControlInv, NEW s \in Caches, OwnerData(s)
  PROVE  QueueInv' /\ OwnerDataStep(s)
<1>1. ControlType BY ControlTypeCorrect
<1>2. /\ RequestQueues /\ ForwardQueues /\ ResponseQueues /\ MemoryQueues
      /\ ResponseType /\ MemType /\ s \in Nodes /\ Dir \in Nodes /\ Dir \notin Caches
  BY CachesAssumption DEF TypeOK, ControlInv, QueueInv, Nodes
<1>3. /\ ResponseQueues' /\ Arriving' = [Arriving EXCEPT ![Dir][s] = "none"]
      /\ DirAcks' = [c \in Caches |-> IF c = Dir /\ s = Dir THEN 0 ELSE DirAcks[c]]
      /\ Arriving[Dir][s] # "none" /\ Head(response[Dir][s]) \in ResponseMsg
  BY <1>2, PopResponseFacts DEF OwnerData
<1>4. Arriving[Dir][s] = "Data" /\ dstate = "S_D"
  BY <1>2, <1>3 DEF ControlInv, ArrivingInv
<1>5. UNCHANGED DirAcks
  <2>1. DirAcks = [c \in Caches |-> DirAcks[c]] BY <1>1 DEF ControlType
  <2> QED BY <1>2, <1>3, <2>1
<1>6. MemOp = "none" BY <1>1, <1>4 DEF ControlType, ControlInv, MemoryInv
<1>7. MemoryQueues' /\ MemOp' = "MEMORY_WB"
  <2>1. PICK blk \in Block : blk = Head(response[Dir][s]).data BY <1>3 DEF ResponseMsg
  <2>2. QueueMemory("MEMORY_WB", s, blk) BY <2>1 DEF OwnerData
  <2> QED BY <1>2, <1>6, <2>2, QueueMemoryFacts DEF OwnerData
<1>8. RequestQueues' /\ ForwardQueues' /\ UNCHANGED <<Asked, Pending>>
  BY <1>2, ControlFrames DEF OwnerData
<1> QED
  BY <1>3, <1>4, <1>5, <1>7, <1>8 DEF OwnerData, OwnerDataStep, QueueInv, cacheVars

(* The directory takes an answer of memory. *)
LEMMA MemQueueIsStep ==
  ASSUME TypeOK, ControlInv, MemQueueIn
  PROVE  QueueInv' /\ (MemDataStep \/ MemAckStep)
<1>1. ControlType BY ControlTypeCorrect
<1>2. /\ RequestQueues /\ ForwardQueues /\ ResponseQueues /\ MemoryQueues
      /\ ResponseType /\ MemType /\ Dir \in Nodes /\ Dir \notin Caches
  BY CachesAssumption DEF TypeOK, ControlInv, QueueInv, Nodes
<1>3. /\ fromMem # <<>> /\ fromMem' = Tail(fromMem)
      /\ UNCHANGED <<toMem, cacheVars, request, forward>>
  BY DEF MemQueueIn, MemData, MemAck
<1>4. /\ MemoryQueues' /\ MemOp' = "none" /\ Head(fromMem) \in MemoryMsg
      /\ Head(fromMem).type = MemOp /\ Head(fromMem).req = MemFor
  BY <1>2, <1>3, PopMemoryFacts
<1>5. RequestQueues' /\ ForwardQueues' /\ UNCHANGED <<Asked, Pending>>
  BY <1>2, <1>3, ControlFrames
<1>6. CASE MemData
  <2>1. /\ MemOp = "MEMORY_READ" /\ MemFor \in Caches /\ MemFor \in Nodes
        /\ dstate \in {"S_m", "M_m"} /\ Arriving[MemFor][Dir] = "none"
    <3>1. MemOp = "MEMORY_READ" BY <1>4, <1>6 DEF MemData
    <3>2. MemFor \in Caches /\ ~DataFor(MemFor) /\ dstate \in {"S_m", "M_m"}
      BY <3>1 DEF ControlInv, MemoryInv
    <3>3. Arriving[MemFor][Dir] # "InvAck" BY <1>2, <3>2 DEF ControlInv, ArrivingInv
    <3>4. MemFor \in Nodes BY <3>2 DEF Nodes
    <3> QED BY <1>1, <1>2, <3>1, <3>2, <3>3, <3>4 DEF DataFor, ControlType
  <2>2. AcksFor(MemFor) \in Nat BY AcksForType, <1>1 DEF ControlType
  <2>3. ResponseQueues' /\ Delivered({MemFor}, Dir, "Data")
        /\ AcksDelivered({MemFor}, Dir, AcksFor(MemFor))
    <3>1. PICK blk \in Block : blk = Head(fromMem).data BY <1>4 DEF MemoryMsg
    <3>2. Respond(Dir, {MemFor}, "Data", blk, AcksFor(MemFor))
      BY <1>4, <1>6, <3>1 DEF MemData
    <3>3. {MemFor} \in SUBSET Nodes /\ \A d \in {MemFor} : Arriving[d][Dir] = "none"
      BY <2>1
    <3> QED BY <1>2, <2>2, <3>2, <3>3, RespondFacts
  <2>4. MemDataStep
    BY <1>3, <1>4, <1>5, <1>6, <2>1, <2>3
    DEF MemData, MemDataStep, AfterRead, cacheVars
  <2> QED BY <1>4, <1>5, <2>3, <2>4 DEF QueueInv
<1>7. CASE MemAck
  <2>1. MemOp = "MEMORY_WB" BY <1>4, <1>7 DEF MemAck
  <2>2. dstate \in {"MI_m", "SS_m"} BY <2>1 DEF ControlInv, MemoryInv
  <2>3. ResponseQueues' /\ UNCHANGED <<Arriving, DirAcks>>
    BY <1>2, <1>7, ControlFrames DEF MemAck
  <2>4. MemAckStep
    BY <1>3, <1>4, <1>5, <1>7, <2>1, <2>2, <2>3 DEF MemAck, MemAckStep, cacheVars
  <2> QED BY <1>4, <1>5, <2>3, <2>4 DEF QueueInv
<1> QED BY <1>6, <1>7 DEF MemQueueIn
---------------------------------------------------------------------------
(* A transition, as the invariant sees it. *)
ControlNext ==
    \/ UNCHANGED control
    \/ \E c \in Caches :
          \/ \E t, from, to : SendStep(c, t, from, to)
          \/ \E m \in Pending[c] :
                GetSStep(c, m) \/ GetMStep(c, m) \/ InvStep(c, m) \/ PutAckStep(c, m)
          \/ \E s \in Nodes :
                \/ LoadFilledStep(s, c) \/ StoreFilledStep(s, c)
                \/ CountStep(s, c) \/ LastStep(s, c)
          \/ AwaitStep(c)
          \/ ReadStep(c) \/ ReadOwnedStep(c) \/ WriteStep(c) \/ WriteOwnedStep(c)
          \/ PutStep(c) \/ OwnerLeavesStep(c) \/ OwnerDataStep(c)
    \/ MemDataStep \/ MemAckStep

(* Every step of the protocol is one of them. *)
LEMMA NextIsStep ==
  ASSUME TypeOK, ControlInv, [Next]_vars
  PROVE  QueueInv' /\ ControlNext
<1>1. QueueInv BY DEF ControlInv
<1>2. ASSUME UNCHANGED <<cacheVars, dirVars, memVars, request, forward, response>>
      PROVE  QueueInv' /\ ControlNext
  BY <1>1, <1>2, SameControl DEF ControlNext
<1>3. CASE UNCHANGED vars BY <1>2, <1>3 DEF vars
<1>4. ASSUME NEW c \in Caches, Cpu(c) PROVE QueueInv' /\ ControlNext
  BY <1>2, <1>4 DEF Cpu, Issue
<1>5. ASSUME NEW c \in Caches, Mandatory(c) PROVE QueueInv' /\ ControlNext
  <2>1. CASE LoadHit(c) BY <1>2, <2>1 DEF LoadHit
  <2>2. CASE StoreHit(c)
    <3>1. UNCHANGED <<cstate, tbes, acks, dirVars, memVars, request, forward, response>>
      BY <2>2 DEF StoreHit
    <3>2. QueueInv' /\ UNCHANGED control
      BY <1>1, <3>1, ControlFrames DEF control, QueueInv, memVars
    <3> QED BY <3>2 DEF ControlNext
  <2>3. CASE LoadMiss(c) \/ StoreMiss(c) \/ Upgrade(c)
    BY <2>3, SendIsStep DEF ControlNext
  <2> QED BY <1>5, <2>1, <2>2, <2>3 DEF Mandatory
<1>6. ASSUME NEW c \in Caches, Replacement(c) PROVE QueueInv' /\ ControlNext
  BY <1>6, SendIsStep DEF ControlNext
<1>7. ASSUME NEW c \in Caches, ForwardIn(c) PROVE QueueInv' /\ ControlNext
  BY <1>7, ForwardIsStep DEF ControlNext
<1>8. ASSUME NEW c \in Caches, NEW s \in Nodes, ResponseIn(s, c) PROVE QueueInv' /\ ControlNext
  BY <1>8, ResponseIsStep DEF ControlNext
<1>9. ASSUME NEW c \in Caches, RequestIn(c) PROVE QueueInv' /\ ControlNext
  BY <1>9, RequestIsStep DEF ControlNext
<1>10. ASSUME NEW c \in Caches, OwnerData(c) PROVE QueueInv' /\ ControlNext
  BY <1>10, OwnerDataIsStep DEF ControlNext
<1>11. CASE MemQueueIn
  BY <1>11, MemQueueIsStep DEF ControlNext
<1>12. CASE MemoryAccess
  <2>1. MemoryQueues' /\ MemOp' = MemOp /\ MemFor' = MemFor
    BY <1>1, <1>12, MemoryAccessFacts DEF TypeOK, QueueInv
  <2>2. QueueInv' /\ UNCHANGED control
    BY <1>1, <1>12, <2>1, ControlFrames DEF MemoryAccess, control, QueueInv, cacheVars
  <2> QED BY <2>2 DEF ControlNext
<1>13. CASE Abort BY <1>2, <1>13 DEF Abort
<1> QED
  BY <1>3, <1>4, <1>5, <1>6, <1>7, <1>8, <1>9, <1>10, <1>11, <1>12, <1>13 DEF Next
=============================================================================
