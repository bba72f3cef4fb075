------------------------ MODULE SimpleMemobj_proofs ------------------------
(***************************************************************************)
(* The safety properties of SimpleMemobj hold for any number of packets.   *)
(***************************************************************************)
EXTENDS SimpleMemobj, TLAPS

(* Who waits for a retry: a peer holds a refused packet exactly while its   *)
(* port owes it a retry or it was sent one, and never both.                 *)
RetryInv ==
    \A p \in Ports :
       /\ held[p] # NoPacket <=> needRetry[p] \/ p \in mayResend
       /\ ~(needRetry[p] /\ p \in mayResend)

(* Where packets are: a refused request and a stored response belong to     *)
(* their own port, and no packet is in two places.                          *)
HeldInv ==
    \A p \in Ports : held[p] # NoPacket =>
       /\ held[p].port = p /\ held[p] \in outstanding
       /\ held[p] \notin Below /\ held[p] # respBlocked[p]

ResponseInv ==
    \A p \in Ports : respBlocked[p] # NoPacket =>
       /\ respBlocked[p].port = p /\ respBlocked[p] \in outstanding
       /\ respBlocked[p] \notin Below

OutstandingInv ==
    /\ Below \subseteq outstanding
    /\ \A pkt \in outstanding :
          pkt \in Below \/ \E p \in Ports : pkt \in {held[p], respBlocked[p]}

BelowInv ==
    IF blocked
    THEN \E pkt \in Packets : Below = {pkt} /\ ~(memBlocked = pkt /\ pkt \in inMemory)
    ELSE Below = {}

PlacesInv == HeldInv /\ ResponseInv /\ OutstandingInv

Inv == TypeOK /\ MemPortNeverPanics /\ RetryInv
         /\ (panic = "none" => BelowInv /\ PlacesInv)

(* The invariant holds when the object is created. *)
LEMMA InvInit == Init => Inv
  BY NoPacketAssumption
  DEF Init, Inv, TypeOK, MemPortNeverPanics, RetryInv, BelowInv, PlacesInv, HeldInv,
      ResponseInv, OutstandingInv, Below, OrNone, Ports

(* What a new or a resent request of port p has in common. *)
Asks(p, pkt) ==
    /\ pkt \in Packets /\ pkt.port = p
    /\ held[p] \in {NoPacket, pkt} /\ ~needRetry[p]
    /\ pkt \notin Below /\ pkt # respBlocked[p]
    /\ \A q \in Ports \ {p} : pkt # held[q] /\ pkt # respBlocked[q]
    /\ held[p] # NoPacket => p \in mayResend

(* Whatever a peer sends, new or again, is one packet in no other place. *)
LEMMA RequestsAsk ==
  ASSUME Inv, NEW p \in Ports, panic = "none"
  PROVE  /\ NewRequest(p) => \E pkt \in Packets : Asks(p, pkt) /\ RecvTimingReq(p, pkt)
         /\ Resend(p) => \E pkt \in Packets : Asks(p, pkt) /\ RecvTimingReq(p, pkt)
<1>. USE NoPacketAssumption
<1>1. ASSUME NEW pkt \in Packets \ outstanding, pkt.port = p, held[p] = NoPacket
      PROVE  Asks(p, pkt)
  BY <1>1 DEF Inv, TypeOK, OrNone, RetryInv, PlacesInv, HeldInv, ResponseInv, OutstandingInv, Asks
<1>2. ASSUME p \in mayResend
      PROVE  held[p] \in Packets /\ Asks(p, held[p])
  BY <1>2 DEF Inv, TypeOK, OrNone, RetryInv, PlacesInv, HeldInv, ResponseInv, Asks
<1>. QED BY <1>1, <1>2 DEF NewRequest, Resend

(* recvTimingReq keeps the invariant, refused or passed to the memory port. *)
LEMMA RequestStep ==
  ASSUME Inv, NEW p \in Ports, NEW pkt \in Packets, Asks(p, pkt), RecvTimingReq(p, pkt)
  PROVE  Inv'
<1>. USE NoPacketAssumption
<1>0. panic = "none" /\ TypeOK /\ RetryInv /\ BelowInv /\ PlacesInv
  BY DEF Inv, RecvTimingReq
<1>1. CASE blocked
  <2>0. /\ needRetry' = [needRetry EXCEPT ![p] = TRUE]
        /\ held' = [held EXCEPT ![p] = pkt]
        /\ outstanding' = outstanding \cup {pkt}
        /\ mayResend' = mayResend \ {p}
        /\ UNCHANGED <<blocked, memBlocked, inMemory, panic, respBlocked>>
    BY <1>1 DEF RecvTimingReq, Refuses
  <2>1. TypeOK'
    BY <1>0, <2>0 DEF TypeOK, OrNone
  <2>2. RetryInv'
    BY <1>0, <2>0 DEF RetryInv, TypeOK, OrNone
  <2>3. BelowInv' /\ UNCHANGED Below
    BY <1>0, <2>0 DEF BelowInv, Below
  <2>4. HeldInv'
    BY <1>0, <2>0, <2>3 DEF PlacesInv, HeldInv, TypeOK, OrNone, Asks
  <2>5. ResponseInv'
    BY <1>0, <2>0, <2>3 DEF PlacesInv, ResponseInv
  <2>6. OutstandingInv'
    BY <1>0, <2>0, <2>3 DEF PlacesInv, OutstandingInv, TypeOK, OrNone, Asks
  <2>. QED BY <1>0, <2>0, <2>1, <2>2, <2>3, <2>4, <2>5, <2>6 DEF Inv, PlacesInv, MemPortNeverPanics
<1>2. CASE ~blocked
  <2>a. memBlocked = NoPacket /\ inMemory = {}
    BY <1>0, <1>2 DEF BelowInv, Below
  <2>0. /\ blocked' = TRUE
        /\ \/ inMemory' = {pkt} /\ memBlocked' = NoPacket
           \/ inMemory' = {} /\ memBlocked' = pkt
        /\ held' = [held EXCEPT ![p] = NoPacket]
        /\ outstanding' = outstanding \cup {pkt}
        /\ mayResend' = mayResend \ {p}
        /\ UNCHANGED <<needRetry, panic, respBlocked>>
    BY <1>2, <2>a DEF RecvTimingReq, Refuses, MemSend
  <2>1. TypeOK'
    BY <1>0, <2>0 DEF TypeOK, OrNone
  <2>2. RetryInv'
    BY <1>0, <2>0 DEF RetryInv, TypeOK, OrNone, Asks
  <2>b. Below = {} /\ Below' = {pkt}
    BY <2>0, <2>a DEF Below
  <2>3. BelowInv'
    BY <2>0, <2>b DEF BelowInv
  <2>4. HeldInv'
    BY <1>0, <2>0, <2>b DEF PlacesInv, HeldInv, TypeOK, OrNone, Asks
  <2>5. ResponseInv'
    BY <1>0, <2>0, <2>b DEF PlacesInv, ResponseInv, Asks
  <2>6. OutstandingInv'
    <3>1. ASSUME NEW x \in outstanding, x # pkt
          PROVE  \E q \in Ports : x \in {held'[q], respBlocked'[q]}
      BY <1>0, <2>0, <2>b, <3>1 DEF PlacesInv, OutstandingInv, TypeOK, Asks, OrNone
    <3>. QED BY <2>0, <2>b, <3>1 DEF OutstandingInv
  <2>. QED BY <1>0, <2>0, <2>1, <2>2, <2>3, <2>4, <2>5, <2>6 DEF Inv, PlacesInv, MemPortNeverPanics
<1>. QED BY <1>1, <1>2

(* recvReqRetry keeps the invariant: a packet refused again stays stored. *)
LEMMA RecvReqRetryStep == Inv /\ RecvReqRetry => Inv'
<1>. SUFFICES ASSUME Inv, RecvReqRetry PROVE Inv'
  OBVIOUS
<1>. USE NoPacketAssumption
<1>0. /\ panic = "none" /\ TypeOK /\ RetryInv /\ BelowInv /\ PlacesInv
      /\ \/ inMemory' = inMemory \cup {memBlocked} /\ memBlocked' = NoPacket
         \/ UNCHANGED <<inMemory, memBlocked>>
      /\ memBlocked # NoPacket
      /\ UNCHANGED <<blocked, needRetry, respBlocked, panic, held, mayResend, outstanding>>
  BY DEF Inv, RecvReqRetry
<1>1. TypeOK'
  BY <1>0 DEF TypeOK, OrNone
<1>2. RetryInv'
  BY <1>0 DEF RetryInv
<1>3. Below' = Below
  BY <1>0 DEF Below
<1>4. BelowInv'
  BY <1>0, <1>3 DEF BelowInv
<1>5. PlacesInv'
  BY <1>0, <1>3 DEF PlacesInv, HeldInv, ResponseInv, OutstandingInv
<1>. QED BY <1>0, <1>1, <1>2, <1>4, <1>5 DEF Inv, MemPortNeverPanics

(* handleResponse keeps the invariant, with the panic of a port that is occupied. *)
LEMMA RecvTimingRespStep ==
  ASSUME Inv, NEW pkt \in Packets, RecvTimingResp(pkt)
  PROVE  Inv'
<1>. USE NoPacketAssumption
<1>0. /\ panic = "none" /\ TypeOK /\ RetryInv /\ BelowInv /\ PlacesInv
      /\ pkt \in inMemory /\ inMemory' = inMemory \ {pkt} /\ blocked' = FALSE
      /\ UNCHANGED <<memBlocked, held>>
  BY DEF Inv, RecvTimingResp
<1>1. pkt.port \in Ports /\ pkt # NoPacket
  BY DEF Packets
<1>2. Below = {pkt} /\ Below' = {}   \* the packet was the only one below
  <2>1. pkt \in Below
    BY <1>0 DEF Below
  <2>2. PICK x \in Packets : Below = {x} /\ ~(memBlocked = x /\ x \in inMemory)
    BY <1>0, <2>1 DEF BelowInv
  <2>. QED BY <1>0, <2>1, <2>2 DEF Below
<1>3. BelowInv'
  BY <1>0, <1>2 DEF BelowInv
<1>4. pkt \in outstanding
  BY <1>0, <1>2 DEF PlacesInv, OutstandingInv
<1>5. \A p \in Ports : held[p] # pkt /\ respBlocked[p] # pkt
  BY <1>0, <1>1, <1>2 DEF PlacesInv, HeldInv, ResponseInv
<1>6. CASE respBlocked[pkt.port] # NoPacket   \* the panic of CPUSidePort::sendPacket
  <2>0. /\ panic' = "cpu port"
        /\ UNCHANGED <<respBlocked, outstanding, needRetry, mayResend>>
    BY <1>6 DEF RecvTimingResp
  <2>1. TypeOK'
    BY <1>0, <2>0 DEF TypeOK
  <2>2. RetryInv'
    BY <1>0, <2>0 DEF RetryInv
  <2>. QED BY <2>0, <2>1, <2>2 DEF Inv, MemPortNeverPanics
<1>7. CASE respBlocked[pkt.port] = NoPacket
  <2>0. /\ Deliver(pkt) /\ TrySendRetry(Ports) /\ panic' = panic
    BY <1>7 DEF RecvTimingResp
  <2>1. /\ respBlocked' \in [Ports -> OrNone(Packets)]
        /\ outstanding' \subseteq Packets
        /\ \A p \in Ports : respBlocked'[p] \in {respBlocked[p], pkt}
        /\ \A p \in Ports : respBlocked'[p] = pkt => p = pkt.port
        /\ \/ outstanding' = outstanding \ {pkt} /\ respBlocked' = respBlocked
           \/ outstanding' = outstanding /\ respBlocked'[pkt.port] = pkt
    BY <1>0, <1>1, <1>5, <2>0 DEF Deliver, TypeOK, OrNone
  <2>2. PICK free \in SUBSET Ports :
            /\ \A p \in free : needRetry[p]
            /\ needRetry' = [p \in Ports |-> needRetry[p] /\ p \notin free]
            /\ mayResend' = mayResend \cup free
    BY <2>0 DEF TrySendRetry
  <2>3. TypeOK'
    BY <1>0, <2>0, <2>1, <2>2 DEF TypeOK
  <2>4. RetryInv'
    <3>. SUFFICES ASSUME NEW p \in Ports
                  PROVE  /\ held[p] # NoPacket <=> needRetry'[p] \/ p \in mayResend'
                         /\ ~(needRetry'[p] /\ p \in mayResend')
      BY <1>0 DEF RetryInv
    <3>1. needRetry'[p] <=> needRetry[p] /\ p \notin free
      BY <2>2
    <3>2. p \in mayResend' <=> p \in mayResend \/ p \in free
      BY <2>2
    <3>3. p \in free => needRetry[p]
      BY <2>2
    <3>. QED BY <1>0, <3>1, <3>2, <3>3 DEF RetryInv
  <2>5. HeldInv'
    BY <1>0, <1>2, <1>5, <2>1 DEF PlacesInv, HeldInv
  <2>6. ResponseInv'
    BY <1>0, <1>2, <1>4, <1>5, <2>1 DEF PlacesInv, ResponseInv
  <2>7. OutstandingInv'
    <3>1. ASSUME NEW x \in outstanding, x # pkt
          PROVE  \E p \in Ports : x \in {held'[p], respBlocked'[p]}
      <4>1. PICK p \in Ports : x \in {held[p], respBlocked[p]}
        BY <1>0, <1>2, <3>1 DEF PlacesInv, OutstandingInv
      <4>2. x # NoPacket
        BY <1>0 DEF TypeOK, Packets
      <4>3. respBlocked[p] = x => respBlocked'[p] = x
        BY <1>0, <1>1, <1>7, <2>0, <4>2 DEF Deliver, TypeOK
      <4>. QED BY <1>0, <4>1, <4>3
    <3>. QED BY <1>1, <1>2, <2>1, <3>1 DEF OutstandingInv
  <2>. QED BY <1>0, <1>3, <2>0, <2>3, <2>4, <2>5, <2>6, <2>7 DEF Inv, PlacesInv, MemPortNeverPanics
<1>. QED BY <1>6, <1>7

(* recvRespRetry keeps the invariant: the response is taken or stays stored. *)
LEMMA RecvRespRetryStep ==
  ASSUME Inv, NEW p \in Ports, RecvRespRetry(p)
  PROVE  Inv'
<1>. USE NoPacketAssumption
<1>0. /\ panic = "none" /\ TypeOK /\ RetryInv /\ BelowInv /\ PlacesInv
      /\ respBlocked[p] # NoPacket
      /\ UNCHANGED <<blocked, needRetry, memBlocked, panic, held, mayResend, inMemory>>
  BY DEF Inv, RecvRespRetry
<1>1. CASE UNCHANGED <<outstanding, respBlocked>>
  <2>1. UNCHANGED vars
    BY <1>0, <1>1 DEF vars, objVars, peerVars
  <2>. QED BY <2>1, <1>0 DEF vars, objVars, peerVars, Inv, TypeOK, MemPortNeverPanics, RetryInv,
              BelowInv, PlacesInv, HeldInv, ResponseInv, OutstandingInv, Below
<1>2. CASE /\ outstanding' = outstanding \ {respBlocked[p]}
           /\ respBlocked' = [respBlocked EXCEPT ![p] = NoPacket]
  <2>1. TypeOK'
    BY <1>0, <1>2 DEF TypeOK, OrNone
  <2>2. RetryInv'
    BY <1>0 DEF RetryInv
  <2>3. BelowInv' /\ Below' = Below
    BY <1>0 DEF BelowInv, Below
  <2>4. respBlocked[p].port = p /\ respBlocked[p] \notin Below
    BY <1>0 DEF PlacesInv, ResponseInv
  <2>5. \A q \in Ports : held[q] # NoPacket => held[q] # respBlocked[p]
    BY <1>0, <2>4 DEF PlacesInv, HeldInv
  <2>6. \A q \in Ports \ {p} : /\ respBlocked'[q] = respBlocked[q]
                               /\ respBlocked[q] # NoPacket => respBlocked[q] # respBlocked[p]
    BY <1>0, <1>2, <2>4 DEF PlacesInv, ResponseInv, TypeOK
  <2>7. respBlocked'[p] = NoPacket
    BY <1>0, <1>2 DEF TypeOK
  <2>8. HeldInv'
    BY <1>0, <1>2, <2>3, <2>5, <2>6, <2>7 DEF PlacesInv, HeldInv
  <2>9. ResponseInv'
    BY <1>0, <1>2, <2>3, <2>6, <2>7 DEF PlacesInv, ResponseInv
  <2>10. OutstandingInv'
    <3>1. ASSUME NEW x \in outstanding', x \notin Below
          PROVE  \E q \in Ports : x \in {held[q], respBlocked'[q]}
      <4>1. x \in outstanding /\ x # respBlocked[p]
        BY <1>2, <3>1
      <4>2. PICK q \in Ports : x \in {held[q], respBlocked[q]}
        BY <1>0, <3>1, <4>1 DEF PlacesInv, OutstandingInv
      <4>. QED BY <2>6, <4>1, <4>2
    <3>2. Below' \subseteq outstanding'
      BY <1>0, <1>2, <2>3, <2>4 DEF PlacesInv, OutstandingInv
    <3>. QED BY <1>0, <2>3, <3>1, <3>2 DEF OutstandingInv
  <2>. QED BY <1>0, <2>1, <2>2, <2>3, <2>8, <2>9, <2>10 DEF Inv, PlacesInv, MemPortNeverPanics
<1>. QED BY <1>1, <1>2 DEF RecvRespRetry

(* Every step keeps the invariant. *)
LEMMA InvStep == Inv /\ [Next]_vars => Inv'
<1>. SUFFICES ASSUME Inv, [Next]_vars PROVE Inv'
  OBVIOUS
<1>1. ASSUME NEW p \in Ports, NewRequest(p) PROVE Inv'
  BY <1>1, RequestsAsk, RequestStep DEF NewRequest, RecvTimingReq
<1>2. ASSUME NEW p \in Ports, Resend(p) PROVE Inv'
  BY <1>2, RequestsAsk, RequestStep DEF Resend, RecvTimingReq
<1>3. ASSUME NEW p \in Ports, RecvRespRetry(p) PROVE Inv'
  BY <1>3, RecvRespRetryStep
<1>4. ASSUME NEW pkt \in Packets, RecvTimingResp(pkt) PROVE Inv'
  BY <1>4, RecvTimingRespStep
<1>5. CASE RecvReqRetry
  BY <1>5, RecvReqRetryStep
<1>6. CASE UNCHANGED vars
  BY <1>6 DEF vars, objVars, peerVars, Inv, TypeOK, MemPortNeverPanics, RetryInv,
              BelowInv, PlacesInv, HeldInv, ResponseInv, OutstandingInv, Below
<1>. QED BY <1>1, <1>2, <1>3, <1>4, <1>5, <1>6 DEF Next
---------------------------------------------------------------------------
(* The invariant holds in every reachable state. *)
LEMMA InvCorrect == Spec => []Inv
<1>. QED BY InvInit, InvStep, PTL DEF Spec

(* Every field of the object, its ports and its peers keeps its type.       *)
THEOREM TypeCorrect == Spec => []TypeOK
<1>1. Inv => TypeOK
  BY DEF Inv
<1>. QED BY <1>1, InvCorrect, PTL

(* SimpleMemobj is blocked exactly while one packet is below it.            *)
THEOREM BlockedCorrect == Spec => []BlockedIffBelow
<1>1. Inv => BlockedIffBelow
  BY DEF Inv, BelowInv, BlockedIffBelow
<1>. QED BY <1>1, InvCorrect, PTL

(* The panic_if of MemSidePort::sendPacket never fires.                     *)
THEOREM MemPortCorrect == Spec => []MemPortNeverPanics
<1>1. Inv => MemPortNeverPanics
  BY DEF Inv
<1>. QED BY <1>1, InvCorrect, PTL

(* A refused request leaves needRetry set until a retry is sent.            *)
THEOREM RefusalsCorrect == Spec => []RefusalsRemembered
<1>1. Inv => RefusalsRemembered
  BY DEF Inv, RetryInv, RefusalsRemembered
<1>. QED BY <1>1, InvCorrect, PTL

(* A packet that a peer waits for is in exactly one place until a panic.    *)
THEOREM NothingLostCorrect == Spec => []NothingLost
<1>1. ASSUME Inv, panic = "none", NEW pkt \in outstanding
      PROVE  \E x \in Places(pkt) : Places(pkt) = {x}
  <2>. USE NoPacketAssumption
  <2>0. TypeOK /\ PlacesInv /\ pkt \in Packets /\ pkt # NoPacket
    BY <1>1 DEF Inv, TypeOK
  <2>1. \A p, q \in Ports : ~(held[p] = pkt /\ respBlocked[q] = pkt)
    BY <2>0 DEF PlacesInv, HeldInv, ResponseInv
  <2>2. pkt \in Below => \A p \in Ports : held[p] # pkt /\ respBlocked[p] # pkt
    BY <2>0 DEF PlacesInv, HeldInv, ResponseInv
  <2>3. pkt \in Below \/ \E p \in Ports : pkt \in {held[p], respBlocked[p]}
    BY <2>0, <1>1 DEF PlacesInv, OutstandingInv
  <2>4. CASE pkt \in Below
    <3>1. Places(pkt) = {"below"}
      BY <2>2, <2>4 DEF Places
    <3>. QED BY <3>1
  <2>5. CASE pkt \notin Below /\ \E p \in Ports : held[p] = pkt
    <3>1. Places(pkt) = {"held"}
      BY <2>1, <2>5 DEF Places
    <3>. QED BY <3>1
  <2>6. CASE pkt \notin Below /\ \E p \in Ports : respBlocked[p] = pkt
    <3>1. Places(pkt) = {"response"}
      BY <2>1, <2>6 DEF Places
    <3>. QED BY <3>1
  <2>. QED BY <2>3, <2>4, <2>5, <2>6
<1>2. Inv => NothingLost
  BY <1>1 DEF NothingLost
<1>. QED BY <1>2, InvCorrect, PTL
=============================================================================
