---------------------------- MODULE SimpleMemobj ----------------------------
(***************************************************************************)
(* SimpleMemobj (part 2 of Learning gem5): a memory object that passes one *)
(* request at a time from an instruction and a data port to a memory port, *)
(* and the peers it talks to through gem5's timing protocol.               *)
(*                                                                         *)
(* A port call runs to completion in one call chain, so an action is one   *)
(* call made by a peer, with every call the object makes in answer.  What  *)
(* a peer does when it is called back (accept or refuse a packet, resend   *)
(* after a retry) is its own choice, made at once or later.                *)
(***************************************************************************)
CONSTANTS Ids,       \* tells apart the packets of one port
          NoPacket   \* nullptr

Ports   == {"inst", "data"}
Packets == [port : Ports, id : Ids]   \* port "inst": an instruction fetch

ASSUME NoPacketAssumption == NoPacket \notin Packets

VARIABLES blocked,      \* a request is in flight below
          needRetry,    \* CPUSidePort::needRetry
          respBlocked,  \* CPUSidePort::blockedPacket
          memBlocked,   \* MemSidePort::blockedPacket
          panic,        \* the panic_if that ended the simulation, or "none"
          (* the peers *)
          held,         \* the request each CPU-side peer had refused
          mayResend,    \* the peers that were sent a retry for it
          outstanding,  \* the packets the peers wait for an answer to
          inMemory      \* the packets the memory has accepted

objVars  == <<blocked, needRetry, respBlocked, memBlocked, panic>>
peerVars == <<held, mayResend, outstanding, inMemory>>
vars     == <<objVars, peerVars>>

OrNone(S) == S \cup {NoPacket}
---------------------------------------------------------------------------
(* MemSidePort::sendPacket: the memory takes the packet or refuses it. *)
MemSend(pkt) ==
    IF memBlocked = NoPacket
    THEN /\ \/ inMemory' = inMemory \cup {pkt} /\ UNCHANGED memBlocked
            \/ memBlocked' = pkt /\ UNCHANGED inMemory
         /\ UNCHANGED panic
    ELSE panic' = "mem port" /\ UNCHANGED <<memBlocked, inMemory>>

(* CPUSidePort::recvTimingReq and handleRequest. *)
RefusesOwnOnly(p) == needRetry[p]   \* mutant: handleRequest does not look at blocked
Refuses(p) == blocked

RecvTimingReq(p, pkt) ==
    /\ panic = "none"
    /\ \/ /\ Refuses(p)
          /\ needRetry' = [needRetry EXCEPT ![p] = TRUE]
          /\ held' = [held EXCEPT ![p] = pkt]
          /\ UNCHANGED <<blocked, memBlocked, inMemory, panic>>
       \/ /\ ~Refuses(p)
          /\ blocked' = TRUE
          /\ MemSend(pkt)
          /\ held' = [held EXCEPT ![p] = NoPacket]
          /\ UNCHANGED needRetry
    /\ outstanding' = outstanding \cup {pkt}
    /\ mayResend' = mayResend \ {p}
    /\ UNCHANGED respBlocked

(* A peer with a refused packet waits for the retry before it sends again. *)
NewRequest(p) ==
    /\ held[p] = NoPacket
    /\ \E pkt \in Packets \ outstanding : pkt.port = p /\ RecvTimingReq(p, pkt)

Resend(p) == p \in mayResend /\ RecvTimingReq(p, held[p])

(* MemSidePort::recvReqRetry: the stored packet is sent again. *)
RecvReqRetryOnce ==   \* mutant: a packet refused twice is dropped
    /\ panic = "none"
    /\ memBlocked # NoPacket
    /\ memBlocked' = NoPacket
    /\ inMemory' = inMemory \cup {memBlocked} \/ UNCHANGED inMemory
    /\ UNCHANGED <<blocked, needRetry, respBlocked, panic, held, mayResend, outstanding>>

RecvReqRetry ==
    /\ panic = "none"
    /\ memBlocked # NoPacket
    /\ \/ inMemory' = inMemory \cup {memBlocked} /\ memBlocked' = NoPacket
       \/ UNCHANGED <<inMemory, memBlocked>>
    /\ UNCHANGED <<blocked, needRetry, respBlocked, panic, held, mayResend, outstanding>>

(* CPUSidePort::sendPacket: the peer takes the response or refuses it. *)
Deliver(pkt) ==
    \/ outstanding' = outstanding \ {pkt} /\ UNCHANGED respBlocked
    \/ /\ respBlocked' = [respBlocked EXCEPT ![pkt.port] = pkt]
       /\ UNCHANGED outstanding

(* CPUSidePort::trySendRetry, on the ports it is called for. *)
RetryAnyway(ports) ==   \* mutant: does not look at needRetry
    /\ needRetry' = [p \in Ports |-> needRetry[p] /\ p \notin ports]
    /\ mayResend' = mayResend \cup ports

ForgetRetries(ports) ==   \* mutant: clears needRetry before it looks at blockedPacket
    /\ needRetry' = [p \in Ports |-> needRetry[p] /\ p \notin ports]
    /\ mayResend' = mayResend \cup {p \in ports : needRetry[p] /\ respBlocked'[p] = NoPacket}

TrySendRetry(ports) ==
    LET free == {p \in ports : needRetry[p] /\ respBlocked'[p] = NoPacket} IN
    /\ needRetry' = [p \in Ports |-> needRetry[p] /\ p \notin free]
    /\ mayResend' = mayResend \cup free

(* MemSidePort::recvTimingResp and handleResponse. *)
RecvTimingResp(pkt) ==
    /\ panic = "none"
    /\ pkt \in inMemory
    /\ inMemory' = inMemory \ {pkt}
    /\ blocked' = FALSE
    /\ IF respBlocked[pkt.port] = NoPacket
       THEN Deliver(pkt) /\ TrySendRetry(Ports) /\ UNCHANGED panic
       ELSE /\ panic' = "cpu port"
            /\ UNCHANGED <<respBlocked, outstanding, needRetry, mayResend>>
    /\ UNCHANGED <<memBlocked, held>>

(* CPUSidePort::recvRespRetry: the stored response is sent again. *)
RecvRespRetry(p) ==
    /\ panic = "none"
    /\ respBlocked[p] # NoPacket
    /\ \/ /\ outstanding' = outstanding \ {respBlocked[p]}
          /\ respBlocked' = [respBlocked EXCEPT ![p] = NoPacket]
       \/ UNCHANGED <<outstanding, respBlocked>>
    /\ UNCHANGED <<blocked, needRetry, memBlocked, panic, held, mayResend, inMemory>>
---------------------------------------------------------------------------
Init ==
    /\ blocked = FALSE
    /\ needRetry = [p \in Ports |-> FALSE]
    /\ respBlocked = [p \in Ports |-> NoPacket]
    /\ memBlocked = NoPacket
    /\ panic = "none"
    /\ held = [p \in Ports |-> NoPacket]
    /\ mayResend = {} /\ outstanding = {} /\ inMemory = {}

Next ==
    \/ \E p \in Ports : NewRequest(p) \/ Resend(p) \/ RecvRespRetry(p)
    \/ \E pkt \in Packets : RecvTimingResp(pkt)
    \/ RecvReqRetry

Spec == Init /\ [][Next]_vars

(* What the timing protocol obliges the peers to: answer what they took,   *)
(* retry after they refused, and not refuse the same packet for ever.      *)
Accepts(p)  == RecvRespRetry(p) /\ respBlocked'[p] = NoPacket
MemAccepts  == RecvReqRetry /\ memBlocked' = NoPacket

Fairness ==
    /\ \A p \in Ports : WF_vars(Resend(p)) /\ WF_vars(Accepts(p))
    /\ \A pkt \in Packets : WF_vars(RecvTimingResp(pkt))
    /\ WF_vars(MemAccepts)

FairSpec == Spec /\ Fairness
---------------------------------------------------------------------------
(* Every field holds what its declaration says. *)
TypeOK ==
    /\ blocked \in BOOLEAN
    /\ needRetry \in [Ports -> BOOLEAN]
    /\ respBlocked \in [Ports -> OrNone(Packets)]
    /\ memBlocked \in OrNone(Packets)
    /\ panic \in {"none", "cpu port", "mem port"}
    /\ held \in [Ports -> OrNone(Packets)]
    /\ mayResend \subseteq Ports
    /\ outstanding \subseteq Packets
    /\ inMemory \subseteq Packets

Below == inMemory \cup ({memBlocked} \ {NoPacket})

(* The object is blocked exactly while one packet is below it, on its way   *)
(* to the memory or in it: it never forgets one and never lets a second in. *)
BlockedIffBelow ==
    panic = "none" =>
       IF blocked
       THEN \E pkt \in Packets : Below = {pkt} /\ ~(memBlocked = pkt /\ pkt \in inMemory)
       ELSE Below = {}

(* MemSidePort::sendPacket never finds a packet already stored: the panic   *)
(* "Should never try to send if blocked!" cannot come from the memory side. *)
MemPortNeverPanics == panic # "mem port"

(* No packet is lost or doubled: a packet a peer waits for is in exactly    *)
(* one place (refused, below, or a stored response), until a panic.         *)
Places(pkt) ==
    {"held" : p \in {q \in Ports : held[q] = pkt}}
    \cup {"below" : x \in Below \cap {pkt}}
    \cup {"response" : p \in {q \in Ports : respBlocked[q] = pkt}}

NothingLost ==
    panic = "none" => \A pkt \in outstanding : \E x \in Places(pkt) : Places(pkt) = {x}

(* A peer whose request was refused is remembered until it is sent a retry. *)
RefusalsRemembered ==
    \A p \in Ports : held[p] # NoPacket => needRetry[p] \/ p \in mayResend

(* What the object accepted reaches the peer that asked, unless it panics.  *)
AcceptedIsAnswered ==
    \A pkt \in Packets : pkt \in Below ~> pkt \notin outstanding \/ panic # "none"

(* "recvTimingReq ... returns false: the request must be retried some time  *)
(* in the future", which the peer can do only after it is sent a retry.     *)
RefusedIsRetried ==
    \A p \in Ports :
       held[p] # NoPacket ~> p \in mayResend \/ held[p] = NoPacket \/ panic # "none"
=============================================================================
