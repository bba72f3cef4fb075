---------------------------- MODULE AtomicBlock ----------------------------
(***************************************************************************)
(* What a coherence protocol promises the processors about one block: each *)
(* load and store acts at one moment, on one copy of the block, whatever   *)
(* caches and messages are in between.                                     *)
(***************************************************************************)
CONSTANTS Caches, Words, Bytes, Zero

VARIABLES block,    \* the block
          cpu       \* each processor's request, or what its last load returned

Overlay(blk, wr) ==
    [w \in Words |-> IF w \in DOMAIN wr THEN wr[w] ELSE blk[w]]

NoBytes == [w \in {} |-> Zero]
Idle(ret) == [op |-> "idle", val |-> ret]

Init ==
    /\ block = [w \in Words |-> Zero]
    /\ cpu = [c \in Caches |-> Idle(NoBytes)]

AskLoad(c) ==
    /\ cpu[c].op = "idle"
    /\ cpu' = [cpu EXCEPT ![c] = [op |-> "Load", val |-> NoBytes]]
    /\ UNCHANGED block

AskStore(c, w, b) ==
    /\ cpu[c].op = "idle"
    /\ cpu' = [cpu EXCEPT ![c] = [op |-> "Store", val |-> [x \in {w} |-> b]]]
    /\ UNCHANGED block

Load(c) ==
    /\ cpu[c].op = "Load"
    /\ cpu' = [cpu EXCEPT ![c] = Idle(block)]
    /\ UNCHANGED block

Store(c) ==
    /\ cpu[c].op = "Store"
    /\ cpu' = [cpu EXCEPT ![c] = Idle(NoBytes)]
    /\ block' = Overlay(block, cpu[c].val)

Next ==
    \E c \in Caches :
       \/ AskLoad(c) \/ Load(c) \/ Store(c)
       \/ \E w \in Words, b \in Bytes : AskStore(c, w, b)

Spec == Init /\ [][Next]_<<block, cpu>>
=============================================================================
