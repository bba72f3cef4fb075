---------------------------- MODULE PairChannels ----------------------------
(***************************************************************************)
(* What a Ruby network promises the coherence protocol: each message       *)
(* arrives once at each of its destinations, and two messages of a source  *)
(* to the same destination on an ordered virtual network arrive in the     *)
(* order they were sent.  Nothing is promised between sources or between   *)
(* virtual networks.                                                       *)
(***************************************************************************)
EXTENDS Naturals

VARIABLES ordered,     \* the <<source, virtual network>> that keep order
          sent,        \* messages sent so far
          travelling   \* a record for each message and destination not reached

vars == <<ordered, sent, travelling>>

Init == sent = 0 /\ travelling = {}

(* num is the place of the message among all that were sent. *)
Send(src, dests, vnet) ==
    /\ sent' = sent + 1
    /\ travelling' = travelling \cup [num : {sent + 1}, src : {src}, dst : dests, vnet : {vnet}]
    /\ UNCHANGED ordered

Overtakes(m, k) == m.src = k.src /\ m.dst = k.dst /\ m.vnet = k.vnet /\ k.num < m.num

Arrive(m) ==
    /\ m \in travelling
    /\ <<m.src, m.vnet>> \in ordered => \A k \in travelling : ~Overtakes(m, k)
    /\ travelling' = travelling \ {m}
    /\ UNCHANGED <<ordered, sent>>

Next == \/ \E src, vnet \in Nat, dests \in SUBSET Nat : Send(src, dests, vnet)
        \/ \E m \in travelling : Arrive(m)

Spec == Init /\ [][Next]_vars
=============================================================================
