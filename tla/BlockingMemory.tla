--------------------------- MODULE BlockingMemory ---------------------------
(***************************************************************************)
(* What a blocking cache promises to the ports in front of it: it behaves  *)
(* as a memory that serves one packet at a time, each at one moment.       *)
(***************************************************************************)
CONSTANTS Ports, Addrs, Words, Bytes, Zero, None

VARIABLES contents,  \* the block at each address
          serving,   \* the packet taken and not yet answered, with its port
          answer     \* the last packet answered, with its port

Parts == {{w} : w \in Words} \cup {Words}
Data  == UNION {[W -> Bytes] : W \in Parts}

Requests == [cmd : {"ReadReq"}, addr : Addrs, data : {[w \in W |-> Zero] : W \in Parts}]
              \cup [cmd : {"WriteReq"}, addr : Addrs, data : Data]

Init ==
    /\ contents = [a \in Addrs |-> [w \in Words |-> Zero]]
    /\ serving = None /\ answer = None

Take ==
    /\ serving = None
    /\ serving' \in [port : Ports, pkt : Requests]
    /\ UNCHANGED <<contents, answer>>

Answer(data) ==
    /\ answer' = [serving EXCEPT !.pkt.data = data]
    /\ serving' = None

Read ==
    /\ serving # None /\ serving.pkt.cmd = "ReadReq"
    /\ Answer([w \in DOMAIN serving.pkt.data |-> contents[serving.pkt.addr][w]])
    /\ UNCHANGED contents

Write ==
    /\ serving # None /\ serving.pkt.cmd = "WriteReq"
    /\ LET pkt == serving.pkt IN
       /\ contents' = [contents EXCEPT ![pkt.addr] =
                          [w \in Words |-> IF w \in DOMAIN pkt.data THEN pkt.data[w] ELSE @[w]]]
       /\ Answer(pkt.data)

(* A functional write changes a block at once, between two packets or while *)
(* one is being served.                                                     *)
FunctionalWrite(a, blk) ==
    /\ contents' = [contents EXCEPT ![a] = blk]
    /\ UNCHANGED <<serving, answer>>

Next ==
    \/ Take \/ Read \/ Write
    \/ \E a \in Addrs, blk \in [Words -> Bytes] : FunctionalWrite(a, blk)

Spec == Init /\ [][Next]_<<contents, serving, answer>>
=============================================================================
