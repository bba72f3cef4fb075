------------------------- MODULE MSI_safety_proofs -------------------------
(***************************************************************************)
(* Every transition of the MSI protocol keeps every part of the invariant; *)
(* what that invariant of the protocol's control says of the properties    *)
(* the runs check; the invariant of its data; and that the caches together *)
(* are an atomic block.  All for any number of caches.                     *)
(***************************************************************************)
EXTENDS MSI_proofs

(* Each part of the invariant is kept.  All parts hold before the step, and *)
(* the directory's part after it.                                           *)
ControlHyp == ControlType /\ ControlType' /\ ControlInv /\ DirInv'
---------------------------------------------------------------------------
(* What a cache has to take, after the directory sent it something ... *)
LEMMA SendsHas ==
  ASSUME NEW dests, NEW t, NEW r, Sends(dests, t, r),
         NEW d \in Caches, NEW types
  PROVE  Has(d, types)' <=> Has(d, types) \/ (d \in dests /\ t \in types)
<1> DEFINE new == [type |-> t, req |-> r]
<1>1. Pending'[d] = IF d \in dests THEN Pending[d] \cup {new} ELSE Pending[d] BY DEF Sends
<1>2. new.type = t OBVIOUS
<1> HIDE DEF new
<1> QED BY <1>1, <1>2 DEF Has

(* ... and after it took a message. *)
LEMMA TakesHas ==
  ASSUME ControlType, NEW c \in Caches, NEW m \in Pending[c], Takes(c, m),
         NEW d \in Caches, NEW types
  PROVE  /\ Has(d, types)' => Has(d, types)
         /\ d # c \/ m.type \notin types => (Has(d, types)' <=> Has(d, types))
         /\ d = c /\ m.type = "PutAck" => ~Has(d, types)'
         /\ d = c /\ m.type \in Gets => ~Has(d, Gets)' /\ ~Has(d, {"GetS"})' /\ ~Has(d, {"Inv"})
<1>1. Pending'[d] = IF d = c THEN Pending[d] \ {m} ELSE Pending[d]
  BY DEF ControlType, Takes
<1>2. \A n \in Pending[c] : n # m => Rank(m.type) < Rank(n.type) BY DEF Takes
<1>3. \A n \in Pending[c] : n.type \in {"GetS", "GetM", "Inv", "PutAck"}
  BY DEF ControlType, ForwardMsg
<1>4. Rank("Inv") = 1 /\ Rank("GetS") = 2 /\ Rank("GetM") = 2 /\ Rank("PutAck") = 3
  BY DEF Rank
<1>5. (Has(d, types)' => Has(d, types)) /\ (d # c \/ m.type \notin types => (Has(d, types)' <=> Has(d, types)))
  BY <1>1 DEF Has
<1>6. ASSUME d = c, m.type = "PutAck" PROVE ~Has(d, types)'
  BY <1>1, <1>2, <1>3, <1>4, <1>6 DEF Has
<1>7. ASSUME d = c, m.type \in Gets PROVE ~Has(d, Gets)' /\ ~Has(d, {"GetS"})' /\ ~Has(d, {"Inv"})
  BY <1>1, <1>2, <1>3, <1>4, <1>7 DEF Has, Gets
<1> QED BY <1>5, <1>6, <1>7
(* A cache waits for what it asked for, in the state for it. *)
LEMMA RequestInvNext == ASSUME ControlHyp, ControlNext PROVE RequestInv'
<1> USE DEF ControlHyp, ControlType, ControlInv, RequestInv, Gets, ArrivingInv,
      DataFor, CacheStates
<1>1. ASSUME NEW c \in Caches, NEW t, NEW from, NEW to, SendStep(c, t, from, to) PROVE RequestInv'
  BY <1>1 DEF SendStep, IsSend, Has
<1>2. ASSUME NEW c \in Caches, NEW m \in Pending[c], GetSStep(c, m) PROVE RequestInv'
  BY <1>2 DEF GetSStep, Takes, Delivered, To, Has
<1>3. ASSUME NEW c \in Caches, NEW m \in Pending[c], GetMStep(c, m) PROVE RequestInv'
  BY <1>3 DEF GetMStep, Takes, Delivered, To, Has
<1>4. ASSUME NEW c \in Caches, NEW m \in Pending[c], InvStep(c, m) PROVE RequestInv'
  <2>1. \A d \in Caches : Has(d, {"PutAck"})' <=> Has(d, {"PutAck"})
    BY <1>4, TakesHas DEF InvStep
  <2> QED BY <1>4, <2>1 DEF InvStep, Takes, Delivered, To
<1>5. ASSUME NEW c \in Caches, NEW m \in Pending[c], PutAckStep(c, m) PROVE RequestInv'
  BY <1>5 DEF PutAckStep, Takes, To, Has, Rank, ForwardMsg
<1>6. ASSUME NEW c \in Caches, NEW s \in Nodes, LoadFilledStep(s, c) PROVE RequestInv'
  BY <1>6 DEF LoadFilledStep, Receives, To, FreeTBE, Has
<1>7. ASSUME NEW c \in Caches, NEW s \in Nodes, StoreFilledStep(s, c) PROVE RequestInv'
  BY <1>7 DEF StoreFilledStep, Receives, To, FreeTBE, Has
<1>8. ASSUME NEW c \in Caches, AwaitStep(c) PROVE RequestInv'
  BY <1>8 DEF AwaitStep, Receives, To, Has
<1>9. ASSUME NEW c \in Caches, NEW s \in Nodes, CountStep(s, c) PROVE RequestInv'
  BY <1>9 DEF CountStep, Receives, Has
<1>10. ASSUME NEW c \in Caches, NEW s \in Nodes, LastStep(s, c) PROVE RequestInv'
  BY <1>10 DEF LastStep, Receives, To, FreeTBE, Has
<1>11. ASSUME NEW c \in Caches, ReadStep(c) PROVE RequestInv'
  BY <1>11 DEF ReadStep, Serves, Reads, Has
<1>12. ASSUME NEW c \in Caches, ReadOwnedStep(c) PROVE RequestInv'
  BY <1>12 DEF ReadOwnedStep, Serves, Sends, Has
<1>13. ASSUME NEW c \in Caches, WriteStep(c) PROVE RequestInv'
  BY <1>13 DEF WriteStep, Serves, Reads, Sends, Has
<1>14. ASSUME NEW c \in Caches, WriteOwnedStep(c) PROVE RequestInv'
  BY <1>14 DEF WriteOwnedStep, Serves, Sends, Has
<1>15. ASSUME NEW c \in Caches, PutStep(c) PROVE RequestInv'
  <2>1. \A d \in Caches : Has(d, {"PutAck"})' <=> Has(d, {"PutAck"}) \/ d = c
    BY <1>15, SendsHas DEF PutStep
  <2> QED BY <1>15, <2>1 DEF PutStep, Serves
<1>16. ASSUME NEW c \in Caches, OwnerLeavesStep(c) PROVE RequestInv'
  <2>1. \A d \in Caches : Has(d, {"PutAck"})' <=> Has(d, {"PutAck"}) \/ d = c
    BY <1>16, SendsHas DEF OwnerLeavesStep
  <2> QED BY <1>16, <2>1 DEF OwnerLeavesStep, Serves
<1>17. ASSUME NEW s \in Caches, OwnerDataStep(s) PROVE RequestInv'
  BY <1>17 DEF OwnerDataStep, Has
<1>18. CASE MemDataStep
  BY <1>18 DEF MemDataStep, Delivered, AcksDelivered, Has
<1>19. CASE MemAckStep
  BY <1>19 DEF MemAckStep, Has
<1>20. CASE UNCHANGED control
  BY <1>20 DEF control, dirVars, Has
<1> QED
  BY <1>1, <1>2, <1>3, <1>4, <1>5, <1>6, <1>7, <1>8, <1>9, <1>10,
      <1>11, <1>12, <1>13, <1>14, <1>15, <1>16, <1>17, <1>18, <1>19, <1>20
  DEF ControlNext

(* A cache may write while it owns the block or has a request forwarded to  *)
(* it, and not otherwise.                                                   *)
LEMMA OwnerInvNext == ASSUME ControlHyp, ControlNext PROVE OwnerInv'
<1> USE DEF ControlHyp, ControlType, ControlInv
<1>0. ASSUME UNCHANGED owner, \A d \in Caches : Has(d, Gets)' <=> Has(d, Gets),
             \A d \in Caches : Writer(d)' <=> Writer(d)
      PROVE  OwnerInv'
  BY <1>0 DEF OwnerInv
<1>1. ASSUME NEW c \in Caches, NEW t, NEW from, NEW to, SendStep(c, t, from, to) PROVE OwnerInv'
  <2>1. \A d \in Caches : Has(d, Gets)' <=> Has(d, Gets)
    BY <1>1 DEF SendStep, IsSend, Has
  <2>2. \A d \in Caches : Writer(d)' <=> Writer(d)
    BY <1>1, <2>1 DEF SendStep, IsSend, Writer, Holds, Granted
  <2> QED BY <1>0, <1>1, <2>1, <2>2 DEF SendStep, IsSend, dirVars
<1>2. ASSUME NEW c \in Caches, NEW m \in Pending[c], GetSStep(c, m) PROVE OwnerInv'
  <2>1. \A d \in Caches : Has(d, Gets)' <=> Has(d, Gets) /\ d # c
    BY <1>2, TakesHas DEF GetSStep, Gets
  <2>3. Has(c, Gets) BY <1>2 DEF GetSStep, Has, Gets
  <2>2. \A d \in Caches : Writer(d)' <=> Writer(d) /\ d # c
    BY <1>2, <2>1 DEF GetSStep, Takes, Delivered, To, Writer, Holds, Granted
  <2> QED BY <1>2, <2>1, <2>2, <2>3 DEF GetSStep, Serves, Takes, dirVars, OwnerInv
<1>3. ASSUME NEW c \in Caches, NEW m \in Pending[c], GetMStep(c, m) PROVE OwnerInv'
  <2>1. \A d \in Caches : Has(d, Gets)' <=> Has(d, Gets) /\ d # c
    BY <1>3, TakesHas DEF GetMStep, Gets
  <2>3. Has(c, Gets) BY <1>3 DEF GetMStep, Has, Gets
  <2>2. \A d \in Caches : Writer(d)' <=> Writer(d) /\ d # c
    BY <1>3, <2>1 DEF GetMStep, Takes, Delivered, To, Writer, Holds, Granted
  <2> QED BY <1>3, <2>1, <2>2, <2>3 DEF GetMStep, Serves, Takes, dirVars, OwnerInv
<1>4. ASSUME NEW c \in Caches, NEW m \in Pending[c], InvStep(c, m) PROVE OwnerInv'
  <2>1. \A d \in Caches : Has(d, Gets)' <=> Has(d, Gets)
    BY <1>4, TakesHas DEF InvStep, Gets
  <2>2. \A d \in Caches : Writer(d)' <=> Writer(d)
    BY <1>4, <2>1 DEF InvStep, Takes, Delivered, To, Writer, Holds, Granted
  <2> QED BY <1>0, <1>4, <2>1, <2>2 DEF InvStep, Takes, Delivered, To, dirVars
<1>5. ASSUME NEW c \in Caches, NEW m \in Pending[c], PutAckStep(c, m) PROVE OwnerInv'
  <2>1. \A d \in Caches : Has(d, Gets)' <=> Has(d, Gets)
    BY <1>5, TakesHas DEF PutAckStep, Gets
  <2>3. Has(c, {"PutAck"}) BY <1>5 DEF PutAckStep, Has
  <2>4. ~Has(c, Gets) BY <1>5, <2>1, TakesHas DEF PutAckStep
  <2>2. \A d \in Caches : Writer(d)' <=> Writer(d)
    BY <1>5, <2>1, <2>3, <2>4 DEF PutAckStep, Takes, To, Writer, Holds, Granted, RequestInv, OwnerInv
  <2> QED BY <1>0, <1>5, <2>1, <2>2 DEF PutAckStep, Takes, To, dirVars
<1>6. ASSUME NEW c \in Caches, NEW s \in Nodes, LoadFilledStep(s, c) PROVE OwnerInv'
  <2>1. \A d \in Caches : Has(d, Gets)' <=> Has(d, Gets)
    BY <1>6 DEF LoadFilledStep, Receives, To, FreeTBE, Has
  <2>2. \A d \in Caches : Writer(d)' <=> Writer(d)
    BY <1>6, <2>1 DEF LoadFilledStep, Receives, To, FreeTBE, Writer, Holds, Granted, RequestInv, ArrivingInv, DataFor
  <2> QED BY <1>0, <1>6, <2>1, <2>2 DEF LoadFilledStep, Receives, To, FreeTBE, dirVars
<1>7. ASSUME NEW c \in Caches, NEW s \in Nodes, StoreFilledStep(s, c) PROVE OwnerInv'
  <2>1. \A d \in Caches : Has(d, Gets)' <=> Has(d, Gets)
    BY <1>7 DEF StoreFilledStep, Receives, To, FreeTBE, Has
  <2>2. \A d \in Caches : Writer(d)' <=> Writer(d)
    BY <1>7, <2>1 DEF StoreFilledStep, Receives, To, FreeTBE, Writer, Holds, Granted, ArrivingInv, DataFor
  <2> QED BY <1>0, <1>7, <2>1, <2>2 DEF StoreFilledStep, Receives, To, FreeTBE, dirVars
<1>8. ASSUME NEW c \in Caches, AwaitStep(c) PROVE OwnerInv'
  <2>1. \A d \in Caches : Has(d, Gets)' <=> Has(d, Gets)
    BY <1>8 DEF AwaitStep, Receives, To, Has
  <2>2. \A d \in Caches : Writer(d)' <=> Writer(d)
    BY <1>8, <2>1 DEF AwaitStep, Receives, To, Writer, Holds, Granted, ArrivingInv, DataFor
  <2> QED BY <1>0, <1>8, <2>1, <2>2 DEF AwaitStep, Receives, To, dirVars
<1>9. ASSUME NEW c \in Caches, NEW s \in Nodes, CountStep(s, c) PROVE OwnerInv'
  <2>1. \A d \in Caches : Has(d, Gets)' <=> Has(d, Gets)
    BY <1>9 DEF CountStep, Receives, Has
  <2>2. \A d \in Caches : Writer(d)' <=> Writer(d)
    BY <1>9, <2>1 DEF CountStep, Receives, Writer, Holds, Granted
  <2> QED BY <1>0, <1>9, <2>1, <2>2 DEF CountStep, Receives, dirVars
<1>10. ASSUME NEW c \in Caches, NEW s \in Nodes, LastStep(s, c) PROVE OwnerInv'
  <2>1. \A d \in Caches : Has(d, Gets)' <=> Has(d, Gets)
    BY <1>10 DEF LastStep, Receives, To, FreeTBE, Has
  <2>2. \A d \in Caches : Writer(d)' <=> Writer(d)
    BY <1>10, <2>1 DEF LastStep, Receives, To, FreeTBE, Writer, Holds, Granted
  <2> QED BY <1>0, <1>10, <2>1, <2>2 DEF LastStep, Receives, To, FreeTBE, dirVars
<1>11. ASSUME NEW c \in Caches, ReadStep(c) PROVE OwnerInv'
  <2>1. \A d \in Caches : Has(d, Gets)' <=> Has(d, Gets)
    BY <1>11 DEF ReadStep, Serves, Reads, Has
  <2>2. \A d \in Caches : Writer(d)' <=> Writer(d)
    BY <1>11, <2>1 DEF ReadStep, Serves, Reads, Writer, Holds, Granted, RequestInv
  <2> QED BY <1>0, <1>11, <2>1, <2>2 DEF ReadStep, Serves, Reads, dirVars
<1>12. ASSUME NEW c \in Caches, ReadOwnedStep(c) PROVE OwnerInv'
  <2>1. \A d \in Caches : Has(d, Gets)' <=> Has(d, Gets) \/ d \in owner
    BY <1>12, SendsHas DEF ReadOwnedStep, Gets
  <2>2. \A d \in Caches : Writer(d)' <=> Writer(d)
    BY <1>12, <2>1 DEF ReadOwnedStep, Serves, Sends, Writer, Holds, Granted, OwnerInv, RequestInv
  <2> QED BY <1>12, <2>1, <2>2 DEF ReadOwnedStep, Serves, Takes, dirVars, OwnerInv, DirInv
<1>13. ASSUME NEW c \in Caches, WriteStep(c) PROVE OwnerInv'
  <2>1. \A d \in Caches : Has(d, Gets)' <=> Has(d, Gets)
    BY <1>13, SendsHas DEF WriteStep, Gets
  <2>2. \A d \in Caches : Writer(d)' <=> Writer(d) \/ d = c
    BY <1>13, <2>1 DEF WriteStep, Serves, Reads, Sends, Writer, Holds, Granted, RequestInv
  <2> QED BY <1>13, <2>1, <2>2 DEF WriteStep, Serves, Takes, dirVars, OwnerInv, DirInv, RequestInv, Writer, Holds, Granted
<1>14. ASSUME NEW c \in Caches, WriteOwnedStep(c) PROVE OwnerInv'
  <2>1. \A d \in Caches : Has(d, Gets)' <=> Has(d, Gets) \/ d \in owner
    BY <1>14, SendsHas DEF WriteOwnedStep, Gets
  <2>2. \A d \in Caches : Writer(d)' <=> Writer(d) \/ d = c
    BY <1>14, <2>1 DEF WriteOwnedStep, Serves, Sends, Writer, Holds, Granted, RequestInv, OwnerInv
  <2> QED BY <1>14, <2>1, <2>2 DEF WriteOwnedStep, Serves, Takes, dirVars, OwnerInv, Writer, Holds, Granted, RequestInv
<1>15. ASSUME NEW c \in Caches, PutStep(c) PROVE OwnerInv'
  <2>1. \A d \in Caches : Has(d, Gets)' <=> Has(d, Gets)
    BY <1>15, SendsHas DEF PutStep, Gets
  <2>2. \A d \in Caches : Writer(d)' <=> Writer(d)
    BY <1>15, <2>1 DEF PutStep, Serves, Sends, Writer, Holds, Granted, OwnerInv, RequestInv
  <2> QED BY <1>0, <1>15, <2>1, <2>2 DEF PutStep, Serves, Sends, dirVars
<1>16. ASSUME NEW c \in Caches, OwnerLeavesStep(c) PROVE OwnerInv'
  <2>1. \A d \in Caches : Has(d, Gets)' <=> Has(d, Gets)
    BY <1>16, SendsHas DEF OwnerLeavesStep, Gets
  <2>2. \A d \in Caches : Writer(d)' <=> Writer(d) /\ d # c
    BY <1>16, <2>1 DEF OwnerLeavesStep, Serves, Sends, Writer, Holds, Granted, OwnerInv, RequestInv
  <2> QED BY <1>16, <2>1, <2>2 DEF OwnerLeavesStep, Serves, Takes, dirVars, OwnerInv, DirInv
<1>17. ASSUME NEW s \in Caches, OwnerDataStep(s) PROVE OwnerInv'
  <2>1. \A d \in Caches : Has(d, Gets)' <=> Has(d, Gets)
    BY <1>17 DEF OwnerDataStep, Has
  <2>2. \A d \in Caches : Writer(d)' <=> Writer(d)
    BY <1>17, <2>1 DEF OwnerDataStep, Writer, Holds, Granted
  <2> QED BY <1>0, <1>17, <2>1, <2>2 DEF OwnerDataStep, dirVars
<1>18. CASE MemDataStep
  <2>1. \A d \in Caches : Has(d, Gets)' <=> Has(d, Gets)
    BY <1>18 DEF MemDataStep, Delivered, AcksDelivered, Has
  <2>2. \A d \in Caches : Writer(d)' <=> Writer(d)
    BY <1>18, <2>1 DEF MemDataStep, Delivered, AcksDelivered, Writer, Holds, Granted
  <2> QED BY <1>0, <1>18, <2>1, <2>2 DEF MemDataStep, Delivered, AcksDelivered, dirVars
<1>19. CASE MemAckStep
  <2>1. \A d \in Caches : Has(d, Gets)' <=> Has(d, Gets)
    BY <1>19 DEF MemAckStep, Has
  <2>2. \A d \in Caches : Writer(d)' <=> Writer(d)
    BY <1>19, <2>1 DEF MemAckStep, Writer, Holds, Granted
  <2> QED BY <1>0, <1>19, <2>1, <2>2 DEF MemAckStep, dirVars
<1>20. CASE UNCHANGED control
  <2>1. \A d \in Caches : Has(d, Gets)' <=> Has(d, Gets)
    BY <1>20 DEF control, dirVars, Has
  <2>2. \A d \in Caches : Writer(d)' <=> Writer(d)
    BY <1>20, <2>1 DEF control, dirVars, Writer, Holds, Granted
  <2> QED BY <1>0, <1>20, <2>1, <2>2 DEF control, dirVars, dirVars
<1> QED
  BY <1>1, <1>2, <1>3, <1>4, <1>5, <1>6, <1>7, <1>8, <1>9, <1>10,
      <1>11, <1>12, <1>13, <1>14, <1>15, <1>16, <1>17, <1>18, <1>19, <1>20
  DEF ControlNext

(* Nothing is on its way to a cache whose GetS or GetM the directory has    *)
(* yet to take.                                                             *)
LEMMA AskerFacts ==
  ASSUME ControlType, ControlInv, NEW c \in Caches, Asked[c] \in Gets
  PROVE  /\ c \notin owner /\ ~Writer(c) /\ ~HasBlock(c) /\ ~Collecting(c)
         /\ ~Has(c, Gets) /\ ~Has(c, {"PutAck"}) /\ acks[c] = 0
         /\ \A s \in Nodes : Arriving[c][s] = "none"
         /\ MemOp = "MEMORY_READ" => MemFor # c
         /\ \A o \in Caches : \A m \in Pending[o] : m.type \in Gets => m.req # c
<1> USE DEF ControlInv
<1>1. /\ cstate[c] \in {"IS_D", "IM_AD", "SM_AD"} /\ Asked[c] # "none" /\ ~Has(c, {"PutAck"})
  BY DEF RequestInv, Gets
<1>2. ~Writer(c) BY <1>1 DEF Writer, Holds, Granted
<1>3. c \notin owner /\ ~Has(c, Gets) BY <1>2 DEF OwnerInv
<1>4. ~DataFor(c) BY <1>1 DEF ArrivingInv
<1>5. ~HasBlock(c) BY <1>1, <1>4 DEF HasBlock, Holds
<1>6. ~Collecting(c) BY <1>1, <1>3, <1>4 DEF Collecting, DataFor, Nodes
<1>7. acks[c] = 0 BY <1>6 DEF AcksInv
<1>8. \A s \in Nodes : Arriving[c][s] = "none"
  BY <1>4, <1>6 DEF ArrivingInv, DataFor, ControlType, Nodes
<1>9. MemOp = "MEMORY_READ" => MemFor # c BY <1>1 DEF MemoryInv
<1>10. \A o \in Caches : \A m \in Pending[o] : m.type \in Gets => m.req # c
  BY <1>1 DEF PromiseInv
<1> QED BY <1>1, <1>2, <1>3, <1>5, <1>6, <1>7, <1>8, <1>9, <1>10

(* What is left of the messages forwarded to a cache after it took one. *)
LEMMA TakesPending ==
  ASSUME ControlType, NEW c \in Caches, NEW m \in Pending[c], Takes(c, m), NEW o \in Caches
  PROVE  /\ Pending'[o] = IF o = c THEN Pending[o] \ {m} ELSE Pending[o]
         /\ m.type \in Gets => \A n \in Pending'[c] : n.type = "PutAck"
         /\ m.type = "PutAck" => \A n \in Pending'[c] : FALSE
<1>1. Pending'[o] = IF o = c THEN Pending[o] \ {m} ELSE Pending[o] BY DEF ControlType, Takes
<1>2. m.type \in Gets => ~Has(c, Gets)' /\ ~Has(c, {"Inv"})
  BY TakesHas
<1>3. m.type = "PutAck" => ~Has(c, {"Inv", "GetS", "GetM", "PutAck"})'
  BY TakesHas
<1>4. \A n \in Pending[c] : n.type \in {"Inv", "GetS", "GetM", "PutAck"}
  BY DEF ControlType, ForwardMsg
<1>5. Pending'[c] \subseteq Pending[c] BY DEF ControlType, Takes
<1> QED BY <1>1, <1>2, <1>3, <1>4, <1>5 DEF Has, Gets

(* Data is on its way to a cache after a step if it was so before or was sent. *)
LEMMA DeliveredData ==
  ASSUME NEW dests, NEW s \in Nodes, NEW t, Delivered(dests, s, t), NEW d \in Caches
  PROVE  /\ DataFor(d)' => DataFor(d) \/ (t = "Data" /\ d \in dests)
         /\ t = "Data" /\ d \in dests => DataFor(d)'
         /\ d \notin dests \/ (t = "Data" /\ Arriving[d][s] = "none") => (DataFor(d) => DataFor(d)')
BY DEF Delivered, DataFor, Nodes

(* A request is promised an answer once. *)
LEMMA PromiseInvNext == ASSUME ControlHyp, ControlNext PROVE PromiseInv'
<1> USE DEF ControlHyp
<1>1. ASSUME NEW c \in Caches, NEW t, NEW from, NEW to, SendStep(c, t, from, to) PROVE PromiseInv'
  BY <1>1 DEF ControlType, ControlInv, PromiseInv, Gets, SendStep, IsSend,
      DataFor
<1>2. ASSUME NEW c \in Caches, NEW m \in Pending[c], GetSStep(c, m) PROVE PromiseInv'
  <2>1. \A o \in Caches : \A n \in Pending'[o] : n.type \in Gets =>
           n \in Pending[o] /\ (o = c => n.type = "PutAck")
    BY <1>2, TakesPending DEF GetSStep, Gets
  <2>2. m.type \in Gets /\ PromiseInv BY <1>2 DEF GetSStep, Gets, ControlInv
  <2>3. \A o \in Caches : \A n \in Pending'[o] : n.type \in Gets =>
           n \in Pending[o] /\ n.req # m.req /\ n.req \in Caches /\ cstate[n.req] \notin {"M", "MI_A"}
    BY <2>1, <2>2 DEF PromiseInv, Gets
  <2>4. Delivered({m.req} \cup {Dir}, c, "Data") \/ Delivered({m.req}, c, "Data")
    BY <1>2 DEF GetSStep, Delivered
  <2>5. \A d \in Caches : DataFor(d)' => DataFor(d) \/ d = m.req
    BY <2>4, DeliveredData, CachesAssumption DEF Nodes
  <2>6. /\ UNCHANGED <<Asked, MemOp, MemFor>> /\ cstate[c] \in {"M", "MI_A"}
        /\ \A d \in Caches : d # c => cstate'[d] = cstate[d]
    BY <1>2 DEF GetSStep, Takes, To, ControlType
  <2> QED BY <2>2, <2>3, <2>5, <2>6 DEF PromiseInv
<1>3. ASSUME NEW c \in Caches, NEW m \in Pending[c], GetMStep(c, m) PROVE PromiseInv'
  <2>1. \A o \in Caches : \A n \in Pending'[o] : n.type \in Gets =>
           n \in Pending[o] /\ (o = c => n.type = "PutAck")
    BY <1>3, TakesPending DEF GetMStep, Gets
  <2>2. m.type \in Gets /\ PromiseInv BY <1>3 DEF GetMStep, Gets, ControlInv
  <2>3. \A o \in Caches : \A n \in Pending'[o] : n.type \in Gets =>
           n \in Pending[o] /\ n.req # m.req /\ n.req \in Caches /\ cstate[n.req] \notin {"M", "MI_A"}
    BY <2>1, <2>2 DEF PromiseInv, Gets
  <2>4. Delivered({m.req} \cup {Dir}, c, "Data") \/ Delivered({m.req}, c, "Data")
    BY <1>3 DEF GetMStep, Delivered
  <2>5. \A d \in Caches : DataFor(d)' => DataFor(d) \/ d = m.req
    BY <2>4, DeliveredData, CachesAssumption DEF Nodes
  <2>6. /\ UNCHANGED <<Asked, MemOp, MemFor>> /\ cstate[c] \in {"M", "MI_A"}
        /\ \A d \in Caches : d # c => cstate'[d] = cstate[d]
    BY <1>3 DEF GetMStep, Takes, To, ControlType
  <2> QED BY <2>2, <2>3, <2>5, <2>6 DEF PromiseInv
<1>4. ASSUME NEW c \in Caches, NEW m \in Pending[c], InvStep(c, m) PROVE PromiseInv'
  <2>1. \A o \in Caches : \A n \in Pending'[o] : n \in Pending[o]
    BY <1>4, TakesPending DEF InvStep
  <2>2. \A d \in Caches : DataFor(d)' => DataFor(d)
    BY <1>4, DeliveredData DEF InvStep, Nodes
  <2> QED BY <1>4, <2>1, <2>2 DEF ControlType, ControlInv, Gets, InvStep, Takes, To, PromiseInv
<1>5. ASSUME NEW c \in Caches, NEW m \in Pending[c], PutAckStep(c, m) PROVE PromiseInv'
  BY <1>5 DEF ControlType, ControlInv, PromiseInv, Gets, PutAckStep, Takes, To,
      DataFor
<1>6. ASSUME NEW c \in Caches, NEW s \in Nodes, LoadFilledStep(s, c) PROVE PromiseInv'
  BY <1>6 DEF ControlType, ControlInv, PromiseInv, Gets, LoadFilledStep,
      Receives, To, FreeTBE, ArrivingInv, DataFor
<1>7. ASSUME NEW c \in Caches, NEW s \in Nodes, StoreFilledStep(s, c) PROVE PromiseInv'
  BY <1>7 DEF ControlType, ControlInv, PromiseInv, Gets, StoreFilledStep,
      Receives, To, FreeTBE, DataFor
<1>8. ASSUME NEW c \in Caches, AwaitStep(c) PROVE PromiseInv'
  BY <1>8 DEF ControlType, ControlInv, PromiseInv, Gets, AwaitStep, Receives,
      To, DataFor
<1>9. ASSUME NEW c \in Caches, NEW s \in Nodes, CountStep(s, c) PROVE PromiseInv'
  BY <1>9 DEF ControlType, ControlInv, PromiseInv, Gets, CountStep, Receives,
      DataFor
<1>10. ASSUME NEW c \in Caches, NEW s \in Nodes, LastStep(s, c) PROVE PromiseInv'
  BY <1>10 DEF ControlType, ControlInv, PromiseInv, Gets, LastStep, Receives,
      To, FreeTBE, DataFor
<1>11. ASSUME NEW c \in Caches, ReadStep(c) PROVE PromiseInv'
  <2>1. Asked[c] \in Gets BY <1>11 DEF ReadStep, Serves, Gets
  <2>2. \A p \in Caches : \A n \in Pending[p] : n.type \in Gets => n.req # c
    BY <2>1, AskerFacts
  <2> QED BY <1>11, <2>2 DEF ControlType, ControlInv, PromiseInv, Gets, ReadStep, Serves, Reads, DataFor
<1>12. ASSUME NEW c \in Caches, ReadOwnedStep(c) PROVE PromiseInv'
  <2>1. PICK o \in Caches : owner = {o} BY <1>12 DEF ReadOwnedStep, DirInv, ControlInv
  <2>2. Asked[c] \in Gets BY <1>12 DEF ReadOwnedStep, Serves, Gets
  <2>3. \A p \in Caches : \A n \in Pending[p] : n.type \in Gets => n.req # c
    BY <2>2, AskerFacts
  <2>4. \A p \in Caches : \A n \in Pending'[p] :
           n \in Pending[p] \/ (p = o /\ n.type = "GetS" /\ n.req = c)
    <3>1. Pending'= [d \in Caches |-> IF d \in {o} THEN Pending[d] \cup {[type |-> "GetS", req |-> c]}
                                                 ELSE Pending[d]]
      BY <1>12, <2>1 DEF ReadOwnedStep, Sends
    <3> QED BY <3>1
  <2>5. /\ \A d \in Caches : DataFor(d)' <=> DataFor(d)
        /\ Asked'[c] = "none" /\ \A d \in Caches : d # c => Asked'[d] = Asked[d]
        /\ UNCHANGED <<cstate, MemOp, MemFor>>
    BY <1>12 DEF ReadOwnedStep, Serves, DataFor, ControlType
  <2>6. ~DataFor(c) /\ (MemOp = "MEMORY_READ" => MemFor # c)
    BY <2>2, AskerFacts DEF DataFor
  <2>7. cstate[c] \in {"IS_D"} BY <1>12 DEF ReadOwnedStep, Serves, RequestInv, ControlInv
  <2> QED BY <2>3, <2>4, <2>5, <2>6, <2>7 DEF ControlInv, PromiseInv
<1>13. ASSUME NEW c \in Caches, WriteStep(c) PROVE PromiseInv'
  <2>1. Asked[c] \in Gets BY <1>13 DEF WriteStep, Serves, Gets
  <2>2. \A p \in Caches : \A n \in Pending[p] : n.type \in Gets => n.req # c
    BY <2>1, AskerFacts
  <2> QED BY <1>13, <2>2 DEF ControlType, ControlInv, PromiseInv, Gets, WriteStep, Serves, Reads, DataFor, Sends
<1>14. ASSUME NEW c \in Caches, WriteOwnedStep(c) PROVE PromiseInv'
  <2>1. PICK o \in Caches : owner = {o} BY <1>14 DEF WriteOwnedStep, DirInv, ControlInv
  <2>2. Asked[c] \in Gets BY <1>14 DEF WriteOwnedStep, Serves, Gets
  <2>3. \A p \in Caches : \A n \in Pending[p] : n.type \in Gets => n.req # c
    BY <2>2, AskerFacts
  <2>4. \A p \in Caches : \A n \in Pending'[p] :
           n \in Pending[p] \/ (p = o /\ n.type = "GetM" /\ n.req = c)
    <3>1. Pending'= [d \in Caches |-> IF d \in {o} THEN Pending[d] \cup {[type |-> "GetM", req |-> c]}
                                                 ELSE Pending[d]]
      BY <1>14, <2>1 DEF WriteOwnedStep, Sends
    <3> QED BY <3>1
  <2>5. /\ \A d \in Caches : DataFor(d)' <=> DataFor(d)
        /\ Asked'[c] = "none" /\ \A d \in Caches : d # c => Asked'[d] = Asked[d]
        /\ UNCHANGED <<cstate, MemOp, MemFor>>
    BY <1>14 DEF WriteOwnedStep, Serves, DataFor, ControlType
  <2>6. ~DataFor(c) /\ (MemOp = "MEMORY_READ" => MemFor # c)
    BY <2>2, AskerFacts DEF DataFor
  <2>7. cstate[c] \in {"IM_AD", "SM_AD"} BY <1>14 DEF WriteOwnedStep, Serves, RequestInv, ControlInv
  <2> QED BY <2>3, <2>4, <2>5, <2>6, <2>7 DEF ControlInv, PromiseInv
<1>15. ASSUME NEW c \in Caches, PutStep(c) PROVE PromiseInv'
  BY <1>15 DEF ControlType, ControlInv, PromiseInv, Gets, PutStep, Serves,
      Sends, DataFor
<1>16. ASSUME NEW c \in Caches, OwnerLeavesStep(c) PROVE PromiseInv'
  BY <1>16 DEF ControlType, ControlInv, PromiseInv, Gets, OwnerLeavesStep,
      Serves, Sends, DataFor
<1>17. ASSUME NEW s \in Caches, OwnerDataStep(s) PROVE PromiseInv'
  BY <1>17 DEF ControlType, ControlInv, PromiseInv, Gets, OwnerDataStep,
      DataFor
<1>18. CASE MemDataStep
  <2>1. Delivered({MemFor}, Dir, "Data") /\ Dir \in Nodes BY <1>18 DEF MemDataStep, Nodes
  <2>2. \A d \in Caches : DataFor(d)' => DataFor(d) \/ d = MemFor
    BY <2>1, DeliveredData
  <2> QED BY <1>18, <2>2 DEF ControlInv, MemDataStep, PromiseInv
<1>19. CASE MemAckStep
  BY <1>19 DEF ControlType, ControlInv, PromiseInv, Gets, MemAckStep, DataFor
<1>20. CASE UNCHANGED control
  BY <1>20 DEF ControlType, ControlInv, PromiseInv, Gets, control, dirVars,
      DataFor
<1> QED
  BY <1>1, <1>2, <1>3, <1>4, <1>5, <1>6, <1>7, <1>8, <1>9, <1>10,
      <1>11, <1>12, <1>13, <1>14, <1>15, <1>16, <1>17, <1>18, <1>19, <1>20
  DEF ControlNext

(* No ack is outstanding, or only the one that arrives. *)
LEMMA FewAcks ==
  ASSUME NEW c \in Caches
  PROVE  /\ IsFiniteSet(InvTo(c)) /\ IsFiniteSet(AckTo(c)) /\ AcksOut(c) \in Nat
         /\ Cardinality(InvTo(c)) \in Nat /\ Cardinality(AckTo(c)) \in Nat
         /\ AcksOut(c) = 0 <=> InvTo(c) = {} /\ AckTo(c) = {}
         /\ AcksOut(c) = 1 => \A s \in AckTo(c) : InvTo(c) = {} /\ AckTo(c) = {s}
<1>1. InvTo(c) \subseteq Caches /\ AckTo(c) \subseteq Caches BY DEF InvTo, AckTo
<1>2. IsFiniteSet(InvTo(c)) /\ IsFiniteSet(AckTo(c)) BY <1>1, CachesAssumption, FS_Subset
<1>3. Cardinality(InvTo(c)) \in Nat /\ Cardinality(AckTo(c)) \in Nat
  BY <1>2, FS_CardinalityType
<1>4. /\ Cardinality(InvTo(c)) = 0 <=> InvTo(c) = {}
      /\ Cardinality(AckTo(c)) = 0 <=> AckTo(c) = {}
  BY <1>2, FS_EmptySet
<1>5. ASSUME AcksOut(c) = 1, NEW s \in AckTo(c) PROVE InvTo(c) = {} /\ AckTo(c) = {s}
  <2>1. /\ IsFiniteSet(AckTo(c) \ {s})
        /\ Cardinality(AckTo(c) \ {s}) = Cardinality(AckTo(c)) - 1
    BY <1>2, <1>5, FS_RemoveElement
  <2>2. Cardinality(AckTo(c)) # 0 BY <1>4, <1>5
  <2>3. Cardinality(InvTo(c)) = 0 /\ Cardinality(AckTo(c)) = 1
    BY <1>3, <1>5, <2>2 DEF AcksOut
  <2>4. AckTo(c) \ {s} = {} BY <2>1, <2>3, FS_EmptySet
  <2> QED BY <1>4, <1>5, <2>3, <2>4
<1>6. AcksOut(c) \in Nat /\ (AcksOut(c) = 0 <=> InvTo(c) = {} /\ AckTo(c) = {})
  BY <1>3, <1>4 DEF AcksOut
<1> QED BY <1>2, <1>3, <1>5, <1>6

(* A cache goes on collecting acks until it has them all. *)
LEMMA CollectingKept ==
  ASSUME ControlHyp, ControlNext, NEW d \in Caches, Collecting(d)
  PROVE  Collecting(d)' \/ (cstate'[d] = "M" /\ InvTo(d)' = {} /\ AckTo(d)' = {})
<1> DEFINE Goal == Collecting(d)' \/ (cstate'[d] = "M" /\ InvTo(d)' = {} /\ AckTo(d)' = {})
<1> USE DEF ControlHyp
<1>1. ASSUME NEW c \in Caches, NEW t, NEW from, NEW to, SendStep(c, t, from, to) PROVE Goal
  BY <1>1 DEF ControlType, SendStep, IsSend, dirVars, Collecting, Nodes,
      ControlInv, ArrivingInv, DataFor
<1>2. ASSUME NEW c \in Caches, NEW m \in Pending[c], GetSStep(c, m) PROVE Goal
  BY <1>2, CachesAssumption DEF ControlType, GetSStep, Takes, Delivered, To,
      dirVars, Collecting, Nodes
<1>3. ASSUME NEW c \in Caches, NEW m \in Pending[c], GetMStep(c, m) PROVE Goal
  BY <1>3, CachesAssumption DEF ControlType, GetMStep, Takes, Delivered, To,
      dirVars, Collecting, Nodes
<1>4. ASSUME NEW c \in Caches, NEW m \in Pending[c], InvStep(c, m) PROVE Goal
  BY <1>4, CachesAssumption DEF ControlType, InvStep, Takes, Delivered, To,
      dirVars, Collecting, Nodes
<1>5. ASSUME NEW c \in Caches, NEW m \in Pending[c], PutAckStep(c, m) PROVE Goal
  BY <1>5 DEF ControlType, PutAckStep, Takes, To, dirVars, Collecting, Nodes
<1>6. ASSUME NEW c \in Caches, NEW s \in Nodes, LoadFilledStep(s, c) PROVE Goal
  BY <1>6 DEF ControlType, LoadFilledStep, Receives, To, FreeTBE, dirVars,
      Collecting, Nodes, ControlInv, ArrivingInv, DataFor
<1>7. ASSUME NEW c \in Caches, NEW s \in Nodes, StoreFilledStep(s, c) PROVE Goal
  <2>1. CASE d # c BY <1>7, <2>1 DEF ControlType, StoreFilledStep, Receives, To, dirVars, Collecting, Nodes
  <2>2. CASE d = c /\ s # Dir
    <3>1. Arriving[c][s] = "Data" /\ DataFor(c) BY <1>7 DEF StoreFilledStep, Receives, DataFor
    <3>2. Arriving[c][Dir] # "Data" /\ cstate[c] \in {"IM_AD", "SM_AD"}
      BY <1>7, <2>2, <3>1 DEF ControlInv, ArrivingInv, StoreFilledStep, Nodes
    <3> QED BY <1>7, <2>2, <3>2 DEF StoreFilledStep, Receives, Collecting, dirVars
  <2>3. CASE d = c /\ s = Dir
    <3>1. DirAcks[c] + acks[c] = 0 /\ Arriving[c][Dir] = "Data"
      BY <1>7, <2>3 DEF StoreFilledStep, Receives
    <3>2. InvTo(c) = {} /\ AckTo(c) = {} BY <3>1, FewAcks DEF ControlInv, AcksInv
    <3>3. cstate'[c] = "M" /\ InvTo(c)' = InvTo(c) BY <1>7 DEF StoreFilledStep, Receives, To, ControlType, InvTo
    <3>4. AckTo(c)' \subseteq AckTo(c)
      BY <1>7 DEF StoreFilledStep, Receives, ControlType, AckTo, Nodes
    <3> QED BY <2>3, <3>2, <3>3, <3>4
  <2> QED BY <2>1, <2>2, <2>3
<1>8. ASSUME NEW c \in Caches, AwaitStep(c) PROVE Goal
  BY <1>8 DEF ControlType, AwaitStep, Receives, To, dirVars, Collecting, Nodes
<1>9. ASSUME NEW c \in Caches, NEW s \in Nodes, CountStep(s, c) PROVE Goal
  BY <1>9 DEF ControlType, CountStep, Receives, dirVars, Collecting, Nodes
<1>10. ASSUME NEW c \in Caches, NEW s \in Nodes, LastStep(s, c) PROVE Goal
  <2>1. CASE d # c BY <1>10, <2>1 DEF ControlType, LastStep, Receives, To, dirVars, Collecting, Nodes
  <2>2. CASE d = c
    <3>1. acks[c] = AcksOut(c) /\ acks[c] = 1 /\ s \in AckTo(c)
      BY <1>10 DEF LastStep, Receives, ControlInv, AcksInv, AckTo
    <3>2. InvTo(c) = {} /\ AckTo(c) = {s} BY <3>1, FewAcks
    <3>3. cstate'[c] = "M" /\ InvTo(c)' = InvTo(c) BY <1>10 DEF LastStep, Receives, To, ControlType, InvTo
    <3>4. AckTo(c)' = AckTo(c) \ {s}
      BY <1>10 DEF LastStep, Receives, ControlType, AckTo, Nodes
    <3> QED BY <2>2, <3>2, <3>3, <3>4
  <2> QED BY <2>1, <2>2
<1>11. ASSUME NEW c \in Caches, ReadStep(c) PROVE Goal
  BY <1>11 DEF ControlType, ReadStep, Serves, Reads, dirVars, Collecting,
      Nodes
<1>12. ASSUME NEW c \in Caches, ReadOwnedStep(c) PROVE Goal
  BY <1>12 DEF ControlType, ReadOwnedStep, Serves, Sends, dirVars, Collecting,
      Nodes
<1>13. ASSUME NEW c \in Caches, WriteStep(c) PROVE Goal
  BY <1>13 DEF ControlType, WriteStep, Serves, Reads, Sends, dirVars,
      Collecting, Nodes
<1>14. ASSUME NEW c \in Caches, WriteOwnedStep(c) PROVE Goal
  BY <1>14 DEF ControlType, WriteOwnedStep, Serves, Sends, dirVars, Collecting,
      Nodes
<1>15. ASSUME NEW c \in Caches, PutStep(c) PROVE Goal
  BY <1>15 DEF ControlType, PutStep, Serves, Sends, dirVars, Collecting, Nodes
<1>16. ASSUME NEW c \in Caches, OwnerLeavesStep(c) PROVE Goal
  BY <1>16 DEF ControlType, OwnerLeavesStep, Serves, Sends, dirVars,
      Collecting, Nodes
<1>17. ASSUME NEW s \in Caches, OwnerDataStep(s) PROVE Goal
  BY <1>17, CachesAssumption DEF ControlType, OwnerDataStep, dirVars,
      Collecting, Nodes
<1>18. CASE MemDataStep
  BY <1>18 DEF ControlType, MemDataStep, Delivered, AcksDelivered, dirVars,
      Collecting, Nodes, ControlInv, MemoryInv
<1>19. CASE MemAckStep
  BY <1>19 DEF ControlType, MemAckStep, dirVars, Collecting, Nodes
<1>20. CASE UNCHANGED control
  BY <1>20 DEF ControlType, control, dirVars, Collecting, Nodes
<1> QED
  BY <1>1, <1>2, <1>3, <1>4, <1>5, <1>6, <1>7, <1>8, <1>9, <1>10,
      <1>11, <1>12, <1>13, <1>14, <1>15, <1>16, <1>17, <1>18, <1>19, <1>20
  DEF ControlNext

(* Acks come from caches, and only to a cache that collects them. *)
LEMMA AcksArrive ==
  ASSUME ControlHyp, ControlNext, NEW d \in Caches, NEW x \in Nodes, Arriving'[d][x] = "InvAck"
  PROVE  x \in Caches /\ Collecting(d)'
<1> USE DEF ControlHyp
<1>1. ASSUME x \in Caches, Collecting(d) PROVE x \in Caches /\ Collecting(d)'
  <2>1. x \in AckTo(d)' BY <1>1 DEF AckTo
  <2> QED BY <1>1, <2>1, CollectingKept
<1>2. CASE Arriving[d][x] = "InvAck"
  BY <1>1, <1>2 DEF ControlInv, ArrivingInv
<1>3. ASSUME NEW c \in Caches, NEW m \in Pending[c], InvStep(c, m), m.req = d, x = c
      PROVE  x \in Caches /\ Collecting(d)'
  BY <1>1, <1>3 DEF ControlInv, InvalidationInv, InvStep
<1>4. \/ Arriving[d][x] = "InvAck"
      \/ \E c \in Caches : \E m \in Pending[c] : InvStep(c, m) /\ m.req = d /\ x = c
  <2> DEFINE Goal == \/ Arriving[d][x] = "InvAck"
                     \/ \E c \in Caches : \E m \in Pending[c] : InvStep(c, m) /\ m.req = d /\ x = c

  <2>1. ASSUME NEW c \in Caches, NEW t, NEW from, NEW to, SendStep(c, t, from, to) PROVE Goal
    BY <2>1 DEF SendStep, IsSend, ControlType, Nodes
  <2>2. ASSUME NEW c \in Caches, NEW m \in Pending[c], GetSStep(c, m) PROVE Goal
    BY <2>2 DEF GetSStep, Takes, Delivered, To, ControlType, Nodes
  <2>3. ASSUME NEW c \in Caches, NEW m \in Pending[c], GetMStep(c, m) PROVE Goal
    BY <2>3 DEF GetMStep, Takes, Delivered, To, ControlType, Nodes
  <2>4. ASSUME NEW c \in Caches, NEW m \in Pending[c], InvStep(c, m) PROVE Goal
    BY <2>4, CachesAssumption DEF InvStep, Delivered, Nodes
  <2>5. ASSUME NEW c \in Caches, NEW m \in Pending[c], PutAckStep(c, m) PROVE Goal
    BY <2>5 DEF PutAckStep, Takes, To, ControlType, Nodes
  <2>6. ASSUME NEW c \in Caches, NEW s \in Nodes, LoadFilledStep(s, c) PROVE Goal
    BY <2>6 DEF LoadFilledStep, Receives, To, FreeTBE, ControlType, Nodes
  <2>7. ASSUME NEW c \in Caches, NEW s \in Nodes, StoreFilledStep(s, c) PROVE Goal
    BY <2>7 DEF StoreFilledStep, Receives, To, FreeTBE, ControlType, Nodes
  <2>8. ASSUME NEW c \in Caches, AwaitStep(c) PROVE Goal
    BY <2>8 DEF AwaitStep, Receives, To, ControlType, Nodes
  <2>9. ASSUME NEW c \in Caches, NEW s \in Nodes, CountStep(s, c) PROVE Goal
    BY <2>9 DEF CountStep, Receives, ControlType, Nodes
  <2>10. ASSUME NEW c \in Caches, NEW s \in Nodes, LastStep(s, c) PROVE Goal
    BY <2>10 DEF LastStep, Receives, To, FreeTBE, ControlType, Nodes
  <2>11. ASSUME NEW c \in Caches, ReadStep(c) PROVE Goal
    BY <2>11 DEF ReadStep, Serves, Reads, ControlType, Nodes
  <2>12. ASSUME NEW c \in Caches, ReadOwnedStep(c) PROVE Goal
    BY <2>12 DEF ReadOwnedStep, Serves, Sends, ControlType, Nodes
  <2>13. ASSUME NEW c \in Caches, WriteStep(c) PROVE Goal
    BY <2>13 DEF WriteStep, Serves, Reads, Sends, ControlType, Nodes
  <2>14. ASSUME NEW c \in Caches, WriteOwnedStep(c) PROVE Goal
    BY <2>14 DEF WriteOwnedStep, Serves, Sends, ControlType, Nodes
  <2>15. ASSUME NEW c \in Caches, PutStep(c) PROVE Goal
    BY <2>15 DEF PutStep, Serves, Sends, ControlType, Nodes
  <2>16. ASSUME NEW c \in Caches, OwnerLeavesStep(c) PROVE Goal
    BY <2>16 DEF OwnerLeavesStep, Serves, Sends, ControlType, Nodes
  <2>17. ASSUME NEW s \in Caches, OwnerDataStep(s) PROVE Goal
    BY <2>17 DEF OwnerDataStep, ControlType, Nodes
  <2>18. CASE MemDataStep
    BY <2>18 DEF MemDataStep, Delivered, AcksDelivered, ControlType, Nodes
  <2>19. CASE MemAckStep
    BY <2>19 DEF MemAckStep, ControlType, Nodes
  <2>20. CASE UNCHANGED control
    BY <2>20 DEF control, dirVars, ControlType, Nodes
  <2> QED
  BY <2>1, <2>2, <2>3, <2>4, <2>5, <2>6, <2>7, <2>8, <2>9, <2>10,
      <2>11, <2>12, <2>13, <2>14, <2>15, <2>16, <2>17, <2>18, <2>19, <2>20
  DEF ControlNext
<1> QED BY <1>2, <1>3, <1>4

(* Data is on its way from one node, to a cache that waits for it or to a   *)
(* directory that does.                                                     *)
LEMMA ArrivingInvNext == ASSUME ControlHyp, ControlNext PROVE ArrivingInv'
<1> USE DEF ControlHyp
<1> DEFINE ToCache == \A d \in Caches : \A x \in Nodes : Arriving[d][x] = "Data" =>
                 /\ Asked[d] = "none" /\ cstate[d] \in {"IS_D", "IM_AD", "SM_AD"}
                 /\ \A y \in Nodes : Arriving[d][y] = "Data" => x = y
           ToDir == \A x \in Nodes : Arriving[Dir][x] # "none" =>
                 /\ Arriving[Dir][x] = "Data" /\ x \in Caches /\ dstate = "S_D"
                 /\ \A y \in Nodes : Arriving[Dir][y] # "none" => x = y
<1>0. ToCache /\ ToDir /\ (ToCache' /\ ToDir' => ArrivingInv')
  BY AcksArrive DEF ControlInv, ArrivingInv, DataFor

<1>1. ASSUME NEW c \in Caches, NEW t, NEW from, NEW to, SendStep(c, t, from, to) PROVE ToCache' /\ ToDir'
  BY <1>1, <1>0, CachesAssumption DEF SendStep, IsSend, ControlType, Nodes,
      dirVars
<1>2. ASSUME NEW c \in Caches, NEW m \in Pending[c], GetSStep(c, m) PROVE ToCache' /\ ToDir'
  <2>1. ~DataFor(m.req) /\ Asked[m.req] = "none" /\ m.req \in Caches
        /\ cstate[m.req] \in {"IS_D", "IM_AD", "SM_AD"}
    BY <1>2 DEF GetSStep, ControlInv, PromiseInv, Gets, ControlType, ForwardMsg
  <2>2. \A x \in Nodes : Arriving[m.req][x] # "Data" BY <2>1 DEF DataFor
  <2>3. dstate = "S_D" /\ \A x \in Nodes : Arriving[Dir][x] = "none"
    BY <1>2 DEF GetSStep, ControlInv, OwnerDataInv
  <2>4. \A d, x \in Nodes : Arriving'[d][x] =
             IF d \in {m.req, Dir} /\ x = c THEN "Data" ELSE Arriving[d][x]
    BY <1>2 DEF GetSStep, Delivered
  <2>5. /\ cstate[c] \in {"M", "MI_A"} /\ UNCHANGED <<Asked, dirVars>> /\ c \in Nodes
        /\ \A d \in Caches : d # c => cstate'[d] = cstate[d]
    BY <1>2 DEF GetSStep, Takes, To, ControlType, Nodes
  <2>6. ToCache' BY <1>0, <2>1, <2>2, <2>4, <2>5, CachesAssumption DEF Nodes
  <2>7. ToDir' BY <1>0, <2>1, <2>3, <2>4, <2>5, CachesAssumption DEF Nodes, dirVars
  <2> QED BY <2>6, <2>7
<1>3. ASSUME NEW c \in Caches, NEW m \in Pending[c], GetMStep(c, m) PROVE ToCache' /\ ToDir'
  <2>1. ~DataFor(m.req) /\ Asked[m.req] = "none" /\ m.req \in Caches
        /\ cstate[m.req] \in {"IS_D", "IM_AD", "SM_AD"}
    BY <1>3 DEF GetMStep, ControlInv, PromiseInv, Gets, ControlType, ForwardMsg
  <2>2. \A x \in Nodes : Arriving[m.req][x] # "Data" BY <2>1 DEF DataFor
  <2>4. \A d, x \in Nodes : Arriving'[d][x] =
             IF d \in {m.req} /\ x = c THEN "Data" ELSE Arriving[d][x]
    BY <1>3 DEF GetMStep, Delivered
  <2>5. /\ cstate[c] \in {"M", "MI_A"} /\ UNCHANGED <<Asked, dirVars>> /\ c \in Nodes
        /\ \A d \in Caches : d # c => cstate'[d] = cstate[d]
    BY <1>3 DEF GetMStep, Takes, To, ControlType, Nodes
  <2>6. ToCache' BY <1>0, <2>1, <2>2, <2>4, <2>5, CachesAssumption DEF Nodes
  <2>7. ToDir' BY <1>0, <2>1, <2>4, <2>5, CachesAssumption DEF Nodes, dirVars
  <2> QED BY <2>6, <2>7
<1>4. ASSUME NEW c \in Caches, NEW m \in Pending[c], InvStep(c, m) PROVE ToCache' /\ ToDir'
  <2>1. m.req \in Caches BY <1>4 DEF InvStep, ControlInv, InvalidationInv
  <2> QED BY <1>4, <1>0, <2>1, CachesAssumption DEF InvStep, Takes, Delivered, To, ControlType, Nodes, dirVars
<1>5. ASSUME NEW c \in Caches, NEW m \in Pending[c], PutAckStep(c, m) PROVE ToCache' /\ ToDir'
  BY <1>5, <1>0, CachesAssumption DEF PutAckStep, Takes, To, ControlType,
      Nodes, dirVars
<1>6. ASSUME NEW c \in Caches, NEW s \in Nodes, LoadFilledStep(s, c) PROVE ToCache' /\ ToDir'
  BY <1>6, <1>0, CachesAssumption DEF LoadFilledStep, Receives, To, FreeTBE,
      ControlType, Nodes, dirVars
<1>7. ASSUME NEW c \in Caches, NEW s \in Nodes, StoreFilledStep(s, c) PROVE ToCache' /\ ToDir'
  BY <1>7, <1>0, CachesAssumption DEF StoreFilledStep, Receives, To, FreeTBE,
      ControlType, Nodes, dirVars
<1>8. ASSUME NEW c \in Caches, AwaitStep(c) PROVE ToCache' /\ ToDir'
  BY <1>8, <1>0, CachesAssumption DEF AwaitStep, Receives, To, ControlType,
      Nodes, dirVars
<1>9. ASSUME NEW c \in Caches, NEW s \in Nodes, CountStep(s, c) PROVE ToCache' /\ ToDir'
  BY <1>9, <1>0, CachesAssumption DEF CountStep, Receives, ControlType, Nodes,
      dirVars
<1>10. ASSUME NEW c \in Caches, NEW s \in Nodes, LastStep(s, c) PROVE ToCache' /\ ToDir'
  BY <1>10, <1>0, CachesAssumption DEF LastStep, Receives, To, FreeTBE,
      ControlType, Nodes, dirVars
<1>11. ASSUME NEW c \in Caches, ReadStep(c) PROVE ToCache' /\ ToDir'
  BY <1>11, <1>0, CachesAssumption DEF ReadStep, Serves, Reads, ControlType,
      Nodes, dirVars
<1>12. ASSUME NEW c \in Caches, ReadOwnedStep(c) PROVE ToCache' /\ ToDir'
  BY <1>12, <1>0, CachesAssumption DEF ReadOwnedStep, Serves, Sends,
      ControlType, Nodes, dirVars
<1>13. ASSUME NEW c \in Caches, WriteStep(c) PROVE ToCache' /\ ToDir'
  BY <1>13, <1>0, CachesAssumption DEF WriteStep, Serves, Reads, Sends,
      ControlType, Nodes, dirVars
<1>14. ASSUME NEW c \in Caches, WriteOwnedStep(c) PROVE ToCache' /\ ToDir'
  BY <1>14, <1>0, CachesAssumption DEF WriteOwnedStep, Serves, Sends,
      ControlType, Nodes, dirVars
<1>15. ASSUME NEW c \in Caches, PutStep(c) PROVE ToCache' /\ ToDir'
  BY <1>15, <1>0, CachesAssumption DEF PutStep, Serves, Sends, ControlType,
      Nodes, dirVars
<1>16. ASSUME NEW c \in Caches, OwnerLeavesStep(c) PROVE ToCache' /\ ToDir'
  BY <1>16, <1>0, CachesAssumption DEF OwnerLeavesStep, Serves, Sends,
      ControlType, Nodes, dirVars
<1>17. ASSUME NEW s \in Caches, OwnerDataStep(s) PROVE ToCache' /\ ToDir'
  BY <1>17, <1>0, CachesAssumption DEF OwnerDataStep, ControlType, Nodes,
      dirVars
<1>18. CASE MemDataStep
  <2>1. /\ ~DataFor(MemFor) /\ Asked[MemFor] = "none" /\ MemFor \in Caches
        /\ cstate[MemFor] \in {"IS_D", "IM_AD", "SM_AD"}
    BY <1>18 DEF MemDataStep, ControlInv, MemoryInv
  <2>2. \A x \in Nodes : Arriving[MemFor][x] # "Data" BY <2>1 DEF DataFor
  <2>3. dstate \in {"S_m", "M_m"} BY <1>18 DEF MemDataStep
  <2> QED BY <1>18, <1>0, <2>1, <2>2, <2>3, CachesAssumption DEF MemDataStep, Delivered, AcksDelivered, ControlType, Nodes, dirVars
<1>19. CASE MemAckStep
  BY <1>19, <1>0, CachesAssumption DEF MemAckStep, ControlType, Nodes, dirVars
<1>20. CASE UNCHANGED control
  BY <1>20, <1>0, CachesAssumption DEF control, dirVars, ControlType, Nodes
<1> QED
  BY <1>0, <1>1, <1>2, <1>3, <1>4, <1>5, <1>6, <1>7, <1>8, <1>9, <1>10,
      <1>11, <1>12, <1>13, <1>14, <1>15, <1>16, <1>17, <1>18, <1>19, <1>20
  DEF ControlNext

(* The directory waits for memory exactly while memory has its message. *)
LEMMA MemoryInvNext == ASSUME ControlHyp, ControlNext PROVE MemoryInv'
<1> USE DEF ControlHyp
<1>0. MemoryInv /\ PromiseInv /\ ArrivingInv /\ DirInv /\ RequestInv BY DEF ControlInv

<1>1. ASSUME NEW c \in Caches, NEW t, NEW from, NEW to, SendStep(c, t, from, to) PROVE MemoryInv'
  BY <1>1, <1>0, CachesAssumption DEF SendStep, IsSend, MemoryInv, DirInv,
      ArrivingInv, DataFor, ControlType, Nodes, dirVars
<1>2. ASSUME NEW c \in Caches, NEW m \in Pending[c], GetSStep(c, m) PROVE MemoryInv'
  <2>1. m.req \in Caches /\ (MemOp = "MEMORY_READ" => MemFor # m.req)
    BY <1>2, <1>0 DEF GetSStep, PromiseInv, Gets
  <2>2. Delivered({m.req} \cup {Dir}, c, "Data") \/ Delivered({m.req}, c, "Data")
    BY <1>2 DEF GetSStep, Delivered
  <2>3. \A d \in Caches : DataFor(d)' => DataFor(d) \/ d = m.req
    BY <2>2, DeliveredData, CachesAssumption DEF Nodes
  <2> QED BY <1>2, <1>0, <2>1, <2>3 DEF GetSStep, Takes, To, MemoryInv, ControlType, dirVars
<1>3. ASSUME NEW c \in Caches, NEW m \in Pending[c], GetMStep(c, m) PROVE MemoryInv'
  <2>1. m.req \in Caches /\ (MemOp = "MEMORY_READ" => MemFor # m.req)
    BY <1>3, <1>0 DEF GetMStep, PromiseInv, Gets
  <2>2. Delivered({m.req} \cup {Dir}, c, "Data") \/ Delivered({m.req}, c, "Data")
    BY <1>3 DEF GetMStep, Delivered
  <2>3. \A d \in Caches : DataFor(d)' => DataFor(d) \/ d = m.req
    BY <2>2, DeliveredData, CachesAssumption DEF Nodes
  <2> QED BY <1>3, <1>0, <2>1, <2>3 DEF GetMStep, Takes, To, MemoryInv, ControlType, dirVars
<1>4. ASSUME NEW c \in Caches, NEW m \in Pending[c], InvStep(c, m) PROVE MemoryInv'
  <2>1. \A d \in Caches : DataFor(d)' => DataFor(d)
    BY <1>4, DeliveredData DEF InvStep, Nodes
  <2> QED BY <1>4, <1>0, <2>1 DEF InvStep, Takes, To, MemoryInv, ControlType, dirVars
<1>5. ASSUME NEW c \in Caches, NEW m \in Pending[c], PutAckStep(c, m) PROVE MemoryInv'
  BY <1>5, <1>0, CachesAssumption DEF PutAckStep, Takes, To, MemoryInv, DirInv,
      ArrivingInv, DataFor, ControlType, Nodes, dirVars
<1>6. ASSUME NEW c \in Caches, NEW s \in Nodes, LoadFilledStep(s, c) PROVE MemoryInv'
  BY <1>6, <1>0, CachesAssumption DEF LoadFilledStep, Receives, To, FreeTBE,
      MemoryInv, DirInv, ArrivingInv, DataFor, ControlType, Nodes, dirVars
<1>7. ASSUME NEW c \in Caches, NEW s \in Nodes, StoreFilledStep(s, c) PROVE MemoryInv'
  BY <1>7, <1>0, CachesAssumption DEF StoreFilledStep, Receives, To, FreeTBE,
      MemoryInv, DirInv, ArrivingInv, DataFor, ControlType, Nodes, dirVars
<1>8. ASSUME NEW c \in Caches, AwaitStep(c) PROVE MemoryInv'
  BY <1>8, <1>0, CachesAssumption DEF AwaitStep, Receives, To, MemoryInv,
      DirInv, ArrivingInv, DataFor, ControlType, Nodes, dirVars
<1>9. ASSUME NEW c \in Caches, NEW s \in Nodes, CountStep(s, c) PROVE MemoryInv'
  BY <1>9, <1>0, CachesAssumption DEF CountStep, Receives, MemoryInv, DirInv,
      ArrivingInv, DataFor, ControlType, Nodes, dirVars
<1>10. ASSUME NEW c \in Caches, NEW s \in Nodes, LastStep(s, c) PROVE MemoryInv'
  BY <1>10, <1>0, CachesAssumption DEF LastStep, Receives, To, FreeTBE,
      MemoryInv, DirInv, ArrivingInv, DataFor, ControlType, Nodes, dirVars
<1>11. ASSUME NEW c \in Caches, ReadStep(c) PROVE MemoryInv'
  <2>1. Asked[c] \in Gets BY <1>11 DEF ReadStep, Serves, Gets
  <2>2. \A x \in Nodes : Arriving[c][x] = "none" BY <2>1, AskerFacts
  <2> QED BY <1>11, <1>0, <2>2 DEF ReadStep, Serves, Reads, MemoryInv, RequestInv, DataFor, ControlType
<1>12. ASSUME NEW c \in Caches, ReadOwnedStep(c) PROVE MemoryInv'
  BY <1>12, <1>0, CachesAssumption DEF ReadOwnedStep, Serves, Sends, MemoryInv,
      DirInv, ArrivingInv, DataFor, ControlType, Nodes, dirVars
<1>13. ASSUME NEW c \in Caches, WriteStep(c) PROVE MemoryInv'
  <2>1. Asked[c] \in Gets BY <1>13 DEF WriteStep, Serves, Gets
  <2>2. \A x \in Nodes : Arriving[c][x] = "none" BY <2>1, AskerFacts
  <2> QED BY <1>13, <1>0, <2>2 DEF WriteStep, Serves, Reads, Sends, MemoryInv, RequestInv, DataFor, ControlType
<1>14. ASSUME NEW c \in Caches, WriteOwnedStep(c) PROVE MemoryInv'
  BY <1>14, <1>0, CachesAssumption DEF WriteOwnedStep, Serves, Sends,
      MemoryInv, DirInv, ArrivingInv, DataFor, ControlType, Nodes, dirVars
<1>15. ASSUME NEW c \in Caches, PutStep(c) PROVE MemoryInv'
  BY <1>15, <1>0, CachesAssumption DEF PutStep, Serves, Sends, MemoryInv,
      DirInv, ArrivingInv, DataFor, ControlType, Nodes, dirVars
<1>16. ASSUME NEW c \in Caches, OwnerLeavesStep(c) PROVE MemoryInv'
  BY <1>16, <1>0, CachesAssumption DEF OwnerLeavesStep, Serves, Sends,
      MemoryInv, DirInv, ArrivingInv, DataFor, ControlType, Nodes, dirVars
<1>17. ASSUME NEW s \in Caches, OwnerDataStep(s) PROVE MemoryInv'
  BY <1>17, <1>0, CachesAssumption DEF OwnerDataStep, MemoryInv, DirInv,
      ArrivingInv, DataFor, ControlType, Nodes, dirVars
<1>18. CASE MemDataStep
  BY <1>18, <1>0, CachesAssumption DEF MemDataStep, Delivered, AcksDelivered,
      MemoryInv, DirInv, ArrivingInv, DataFor, ControlType, Nodes, dirVars
<1>19. CASE MemAckStep
  BY <1>19, <1>0, CachesAssumption DEF MemAckStep, MemoryInv, DirInv,
      ArrivingInv, DataFor, ControlType, Nodes, dirVars
<1>20. CASE UNCHANGED control
  BY <1>20, <1>0, CachesAssumption DEF control, dirVars, MemoryInv, DirInv,
      ArrivingInv, DataFor, ControlType, Nodes
<1> QED
  BY <1>1, <1>2, <1>3, <1>4, <1>5, <1>6, <1>7, <1>8, <1>9, <1>10,
      <1>11, <1>12, <1>13, <1>14, <1>15, <1>16, <1>17, <1>18, <1>19, <1>20
  DEF ControlNext

(* The block has one owner to be, or none. *)
LEMMA BlockInvNext == ASSUME ControlHyp, ControlNext PROVE BlockInv'
<1> USE DEF ControlHyp
<1> DEFINE Free == \A x \in Nodes : Arriving[Dir][x] = "none"
<1>0. /\ BlockInv /\ OwnerInv /\ ArrivingInv /\ DirInv /\ RequestInv /\ PromiseInv
      /\ OwnerDataInv /\ MemoryInv
  BY DEF ControlInv
<1>a. ASSUME \A d \in Caches : HasBlock(d)' => HasBlock(d),
             (dstate \in {"M", "S_D"} /\ Free) => (dstate' \in {"M", "S_D"} /\ Free')
      PROVE  BlockInv'
  BY <1>0, <1>a DEF BlockInv
<1>b. ASSUME \A d \in Caches : ~HasBlock(d)' PROVE BlockInv'
  BY <1>b DEF BlockInv

<1>1. ASSUME NEW c \in Caches, NEW t, NEW from, NEW to, SendStep(c, t, from, to) PROVE BlockInv'
  <2>1. \A d \in Caches : HasBlock(d)' => HasBlock(d)
    BY <1>1, <1>0, CachesAssumption DEF SendStep, IsSend, HasBlock, Holds, Has,
      DataFor, ArrivingInv, ControlType, Nodes
  <2> QED BY <1>1, <1>a, <2>1, CachesAssumption DEF SendStep, IsSend, dirVars, ControlType, Nodes
<1>2. ASSUME NEW c \in Caches, NEW m \in Pending[c], GetSStep(c, m) PROVE BlockInv'
  <2>1. Has(c, Gets) /\ HasBlock(c) BY <1>2 DEF GetSStep, Has, Gets, HasBlock, Holds
  <2>2. \A d \in Caches : HasBlock(d) => d = c BY <1>0, <2>1 DEF BlockInv
  <2>3. \A d \in Caches : Has(d, Gets)' <=> Has(d, Gets) /\ d # c BY <1>2, TakesHas DEF GetSStep, Gets
  <2>4. Delivered({m.req} \cup {Dir}, c, "Data") \/ Delivered({m.req}, c, "Data")
    BY <1>2 DEF GetSStep, Delivered
  <2>5. \A d \in Caches : DataFor(d)' => DataFor(d) \/ d = m.req
    BY <2>4, DeliveredData, CachesAssumption DEF Nodes
  <2>6. m.req \in Caches /\ cstate[m.req] \in {"IS_D", "IM_AD", "SM_AD"} /\ cstate[m.req] = "IS_D"
    BY <1>2, <1>0 DEF GetSStep, PromiseInv, Gets
  <2>7. \A d \in Caches : ~HasBlock(d)'
    BY <1>2, <2>2, <2>3, <2>5, <2>6 DEF GetSStep, Takes, To, ControlType, HasBlock, Holds
  <2> QED BY <1>b, <2>7
<1>3. ASSUME NEW c \in Caches, NEW m \in Pending[c], GetMStep(c, m) PROVE BlockInv'
  <2>1. Has(c, Gets) /\ HasBlock(c) BY <1>3 DEF GetMStep, Has, Gets, HasBlock, Holds
  <2>2. \A d \in Caches : HasBlock(d) => d = c BY <1>0, <2>1 DEF BlockInv
  <2>3. \A d \in Caches : Has(d, Gets)' <=> Has(d, Gets) /\ d # c BY <1>3, TakesHas DEF GetMStep, Gets
  <2>4. Delivered({m.req} \cup {Dir}, c, "Data") \/ Delivered({m.req}, c, "Data")
    BY <1>3 DEF GetMStep, Delivered
  <2>5. \A d \in Caches : DataFor(d)' => DataFor(d) \/ d = m.req
    BY <2>4, DeliveredData, CachesAssumption DEF Nodes
  <2>6. m.req \in Caches /\ cstate[m.req] \in {"IS_D", "IM_AD", "SM_AD"}
    BY <1>3, <1>0 DEF GetMStep, PromiseInv, Gets
  <2>7. \A d \in Caches : HasBlock(d)' => d = m.req
    BY <1>3, <2>2, <2>3, <2>5, <2>6 DEF GetMStep, Takes, To, ControlType, HasBlock, Holds
  <2>8. dstate' \in {"M", "S_D"} /\ Free'
    BY <1>3, <1>0, <2>1, <2>6, CachesAssumption DEF BlockInv, GetMStep, Takes, dirVars, Delivered, Nodes
  <2> QED BY <2>7, <2>8 DEF BlockInv
<1>4. ASSUME NEW c \in Caches, NEW m \in Pending[c], InvStep(c, m) PROVE BlockInv'
  <2>1. \A d \in Caches : Has(d, Gets)' <=> Has(d, Gets) BY <1>4, TakesHas DEF InvStep, Gets
  <2>2. \A d \in Caches : DataFor(d)' => DataFor(d) BY <1>4, DeliveredData DEF InvStep, Nodes
  <2>3. \A d \in Caches : HasBlock(d)' => HasBlock(d)
    BY <1>4, <2>1, <2>2 DEF InvStep, Takes, To, ControlType, HasBlock, Holds
  <2>4. Free => Free'
    BY <1>4, <1>0, CachesAssumption DEF InvStep, Takes, dirVars, Delivered, Nodes, InvalidationInv, ControlInv
  <2>5. dstate' = dstate BY <1>4 DEF InvStep, Takes, dirVars
  <2> QED BY <1>a, <2>3, <2>4, <2>5
<1>5. ASSUME NEW c \in Caches, NEW m \in Pending[c], PutAckStep(c, m) PROVE BlockInv'
  <2>1. \A d \in Caches : Has(d, Gets)' <=> Has(d, Gets) BY <1>5, TakesHas DEF PutAckStep, Gets
  <2>2. \A d \in Caches : DataFor(d)' => DataFor(d) BY <1>5 DEF PutAckStep, DataFor, Nodes
  <2>3. \A d \in Caches : HasBlock(d)' => HasBlock(d)
    BY <1>5, <2>1, <2>2 DEF PutAckStep, Takes, To, ControlType, HasBlock, Holds
  <2>4. Free => Free'
    BY <1>5, <1>0, CachesAssumption DEF PutAckStep, Takes, dirVars, Delivered, Nodes, InvalidationInv, ControlInv
  <2>5. dstate' = dstate BY <1>5 DEF PutAckStep, Takes, dirVars
  <2> QED BY <1>a, <2>3, <2>4, <2>5
<1>6. ASSUME NEW c \in Caches, NEW s \in Nodes, LoadFilledStep(s, c) PROVE BlockInv'
  <2>1. \A d \in Caches : HasBlock(d)' => HasBlock(d)
    BY <1>6, <1>0, CachesAssumption DEF LoadFilledStep, Receives, To, FreeTBE,
      HasBlock, Holds, Has, DataFor, ArrivingInv, ControlType, Nodes
  <2> QED BY <1>6, <1>a, <2>1, CachesAssumption DEF LoadFilledStep, Receives, To, FreeTBE, dirVars, ControlType, Nodes
<1>7. ASSUME NEW c \in Caches, NEW s \in Nodes, StoreFilledStep(s, c) PROVE BlockInv'
  <2>1. \A d \in Caches : HasBlock(d)' => HasBlock(d)
    BY <1>7, <1>0, CachesAssumption DEF StoreFilledStep, Receives, To, FreeTBE,
      HasBlock, Holds, Has, DataFor, ArrivingInv, ControlType, Nodes
  <2> QED BY <1>7, <1>a, <2>1, CachesAssumption DEF StoreFilledStep, Receives, To, FreeTBE, dirVars, ControlType, Nodes
<1>8. ASSUME NEW c \in Caches, AwaitStep(c) PROVE BlockInv'
  <2>1. \A d \in Caches : HasBlock(d)' => HasBlock(d)
    BY <1>8, <1>0, CachesAssumption DEF AwaitStep, Receives, To, HasBlock, Holds,
      Has, DataFor, ArrivingInv, ControlType, Nodes
  <2> QED BY <1>8, <1>a, <2>1, CachesAssumption DEF AwaitStep, Receives, To, dirVars, ControlType, Nodes
<1>9. ASSUME NEW c \in Caches, NEW s \in Nodes, CountStep(s, c) PROVE BlockInv'
  <2>1. \A d \in Caches : HasBlock(d)' => HasBlock(d)
    BY <1>9, <1>0, CachesAssumption DEF CountStep, Receives, HasBlock, Holds, Has,
      DataFor, ArrivingInv, ControlType, Nodes
  <2> QED BY <1>9, <1>a, <2>1, CachesAssumption DEF CountStep, Receives, dirVars, ControlType, Nodes
<1>10. ASSUME NEW c \in Caches, NEW s \in Nodes, LastStep(s, c) PROVE BlockInv'
  <2>1. \A d \in Caches : HasBlock(d)' => HasBlock(d)
    BY <1>10, <1>0, CachesAssumption DEF LastStep, Receives, To, FreeTBE, HasBlock,
      Holds, Has, DataFor, ArrivingInv, ControlType, Nodes
  <2> QED BY <1>10, <1>a, <2>1, CachesAssumption DEF LastStep, Receives, To, FreeTBE, dirVars, ControlType, Nodes
<1>11. ASSUME NEW c \in Caches, ReadStep(c) PROVE BlockInv'
  <2>1. \A d \in Caches : ~HasBlock(d) BY <1>11, <1>0 DEF BlockInv, ReadStep
  <2>2. \A d \in Caches : ~HasBlock(d)' BY <1>11, <1>0, <2>1 DEF HasBlock, Holds, Has, DataFor, ReadStep, Serves, RequestInv, ControlType
  <2> QED BY <1>b, <2>2
<1>12. ASSUME NEW c \in Caches, ReadOwnedStep(c) PROVE BlockInv'
  <2>0. UNCHANGED <<cstate, Arriving>> BY <1>12 DEF ReadOwnedStep, Serves
  <2>1. \A d \in Caches : DataFor(d)' <=> DataFor(d) BY <2>0 DEF DataFor
  <2>2. \A d \in Caches : Has(d, Gets)' <=> Has(d, Gets) \/ d \in owner BY <1>12, SendsHas DEF ReadOwnedStep, Gets
  <2>3. \A d \in Caches : d # c => Asked'[d] = Asked[d] BY <1>12 DEF ReadOwnedStep, Serves, ControlType
  <2>4. \A d \in owner : Writer(d) BY <1>0, <1>12 DEF OwnerInv, DirInv, ControlType, DirType
  <2>5. \A d \in Caches : HasBlock(d)' => HasBlock(d)
    BY <1>12, <2>0, <2>1, <2>2, <2>3, <2>4, <1>0 DEF HasBlock, Holds, Writer, Granted, RequestInv, OwnerInv, ReadOwnedStep, Serves, ControlType
  <2> QED BY <1>12, <1>a, <2>0, <2>5 DEF ReadOwnedStep
<1>13. ASSUME NEW c \in Caches, WriteStep(c) PROVE BlockInv'
  <2>0. UNCHANGED <<cstate, Arriving>> BY <1>13 DEF WriteStep, Serves
  <2>1. \A d \in Caches : DataFor(d)' <=> DataFor(d) BY <2>0 DEF DataFor
  <2>2. \A d \in Caches : Has(d, Gets)' <=> Has(d, Gets) BY <1>13, SendsHas DEF WriteStep, Gets
  <2>3. \A d \in Caches : d # c => Asked'[d] = Asked[d] BY <1>13 DEF WriteStep, Serves, ControlType
  <2>5. \A d \in Caches : HasBlock(d)' => HasBlock(d)
    BY <1>13, <2>0, <2>1, <2>2, <2>3, <1>0 DEF HasBlock, Holds, Writer, Granted, RequestInv, OwnerInv, WriteStep, Serves, ControlType
  <2> QED BY <1>13, <1>b, <1>0, <2>5 DEF BlockInv, WriteStep
<1>14. ASSUME NEW c \in Caches, WriteOwnedStep(c) PROVE BlockInv'
  <2>0. UNCHANGED <<cstate, Arriving>> BY <1>14 DEF WriteOwnedStep, Serves
  <2>1. \A d \in Caches : DataFor(d)' <=> DataFor(d) BY <2>0 DEF DataFor
  <2>2. \A d \in Caches : Has(d, Gets)' <=> Has(d, Gets) \/ d \in owner BY <1>14, SendsHas DEF WriteOwnedStep, Gets
  <2>3. \A d \in Caches : d # c => Asked'[d] = Asked[d] BY <1>14 DEF WriteOwnedStep, Serves, ControlType
  <2>4. \A d \in owner : Writer(d) BY <1>0, <1>14 DEF OwnerInv, DirInv, ControlType, DirType
  <2>5. \A d \in Caches : HasBlock(d)' => HasBlock(d)
    BY <1>14, <2>0, <2>1, <2>2, <2>3, <2>4, <1>0 DEF HasBlock, Holds, Writer, Granted, RequestInv, OwnerInv, WriteOwnedStep, Serves, ControlType
  <2> QED BY <1>14, <1>a, <2>0, <2>5 DEF WriteOwnedStep
<1>15. ASSUME NEW c \in Caches, PutStep(c) PROVE BlockInv'
  <2>0. UNCHANGED <<cstate, Arriving>> BY <1>15 DEF PutStep, Serves
  <2>1. \A d \in Caches : DataFor(d)' <=> DataFor(d) BY <2>0 DEF DataFor
  <2>2. \A d \in Caches : Has(d, Gets)' <=> Has(d, Gets) BY <1>15, SendsHas DEF PutStep, Gets
  <2>3. \A d \in Caches : d # c => Asked'[d] = Asked[d] BY <1>15 DEF PutStep, Serves, ControlType
  <2>5. \A d \in Caches : HasBlock(d)' => HasBlock(d)
    BY <1>15, <2>0, <2>1, <2>2, <2>3, <1>0 DEF HasBlock, Holds, Writer, Granted, RequestInv, OwnerInv, PutStep, Serves, ControlType
  <2> QED BY <1>15, <1>a, <2>0, <2>5 DEF PutStep
<1>16. ASSUME NEW c \in Caches, OwnerLeavesStep(c) PROVE BlockInv'
  <2>0. UNCHANGED <<cstate, Arriving>> BY <1>16 DEF OwnerLeavesStep, Serves
  <2>1. \A d \in Caches : DataFor(d)' <=> DataFor(d) BY <2>0 DEF DataFor
  <2>2. \A d \in Caches : Has(d, Gets)' <=> Has(d, Gets) BY <1>16, SendsHas DEF OwnerLeavesStep, Gets
  <2>3. \A d \in Caches : d # c => Asked'[d] = Asked[d] BY <1>16 DEF OwnerLeavesStep, Serves, ControlType
  <2>5. \A d \in Caches : HasBlock(d)' => HasBlock(d) /\ d # c
    BY <1>16, <2>0, <2>1, <2>2, <2>3, <1>0 DEF HasBlock, Holds, Writer, Granted, RequestInv, OwnerInv, OwnerLeavesStep, Serves, ControlType
  <2>6. HasBlock(c) BY <1>16, <1>0 DEF OwnerInv, Writer, Granted, HasBlock, OwnerLeavesStep, Serves, RequestInv
  <2> QED BY <1>b, <1>0, <2>5, <2>6 DEF BlockInv
<1>17. ASSUME NEW s \in Caches, OwnerDataStep(s) PROVE BlockInv'
  <2>1. \A d \in Caches : ~HasBlock(d) BY <1>17, <1>0, CachesAssumption DEF BlockInv, OwnerDataStep, Nodes
  <2>2. \A d \in Caches : ~HasBlock(d)'
    BY <1>17, <2>1, CachesAssumption DEF HasBlock, Holds, Has, DataFor, OwnerDataStep, ControlType, Nodes
  <2> QED BY <1>b, <2>2
<1>18. CASE MemDataStep
  <2>1. Delivered({MemFor}, Dir, "Data") /\ Dir \in Nodes /\ MemFor \in Caches
    BY <1>18, <1>0 DEF MemDataStep, Nodes, MemoryInv
  <2>2. \A d \in Caches : DataFor(d)' => DataFor(d) \/ d = MemFor BY <2>1, DeliveredData
  <2>3. \A d \in Caches : ~HasBlock(d) BY <1>18, <1>0 DEF BlockInv, MemDataStep
  <2>4. \A d \in Caches : HasBlock(d)' => d = MemFor /\ dstate = "M_m"
    BY <1>18, <1>0, <2>2, <2>3 DEF MemDataStep, MemoryInv, HasBlock, Holds, Has
  <2>5. Free' BY <1>18, <1>0, <2>1, CachesAssumption DEF MemDataStep, ArrivingInv, Delivered, Nodes
  <2> QED BY <1>18, <2>4, <2>5 DEF BlockInv, MemDataStep
<1>19. CASE MemAckStep
  <2>1. \A d \in Caches : ~HasBlock(d) BY <1>19, <1>0, CachesAssumption DEF BlockInv, MemAckStep, Nodes
  <2>2. \A d \in Caches : ~HasBlock(d)'
    BY <1>19, <2>1, CachesAssumption DEF HasBlock, Holds, Has, DataFor, MemAckStep, ControlType, Nodes
  <2> QED BY <1>b, <2>2
<1>20. CASE UNCHANGED control
  <2>1. \A d \in Caches : HasBlock(d)' => HasBlock(d)
    BY <1>20, <1>0, CachesAssumption DEF control, dirVars, HasBlock, Holds, Has,
      DataFor, ArrivingInv, ControlType, Nodes
  <2> QED BY <1>20, <1>a, <2>1, CachesAssumption DEF control, dirVars, dirVars, ControlType, Nodes
<1> QED
  BY <1>1, <1>2, <1>3, <1>4, <1>5, <1>6, <1>7, <1>8, <1>9, <1>10,
      <1>11, <1>12, <1>13, <1>14, <1>15, <1>16, <1>17, <1>18, <1>19, <1>20
  DEF ControlNext

(* The owner that a GetS was forwarded to still owes the directory its data. *)
LEMMA OwnerDataInvNext == ASSUME ControlHyp, ControlNext PROVE OwnerDataInv'
<1> USE DEF ControlHyp
<1> DEFINE Free == \A x \in Nodes : Arriving[Dir][x] = "none"
<1>0. /\ OwnerDataInv /\ ArrivingInv /\ DirInv /\ RequestInv /\ PromiseInv /\ OwnerInv
      /\ MemoryInv
  BY DEF ControlInv
<1>a. ASSUME \A o \in Caches : \A n \in Pending'[o] : n.type = "GetS" => n \in Pending[o],
             \A o \in Caches : Has(o, {"GetS"}) => (Has(o, {"PutAck"})' <=> Has(o, {"PutAck"})),
             \A o \in Caches : Has(o, {"GetS"})' <=> Has(o, {"GetS"}),
             UNCHANGED <<dstate, sharers>>, Free => Free', ~Free => ~Free'
      PROVE  OwnerDataInv'
  BY <1>0, <1>a DEF OwnerDataInv
<1>b. ASSUME dstate \notin {"S_D", "M"}, dstate' # "S_D",
             \A o \in Caches : \A n \in Pending'[o] : n.type = "GetS" => n \in Pending[o]
      PROVE  OwnerDataInv'
  BY <1>0, <1>b DEF OwnerDataInv

<1>1. ASSUME NEW c \in Caches, NEW t, NEW from, NEW to, SendStep(c, t, from, to) PROVE OwnerDataInv'
  <2>1. UNCHANGED <<Pending, dstate, sharers>>
    BY <1>1 DEF SendStep, IsSend, dirVars
  <2>2. \A x \in Nodes : Arriving'[Dir][x] = Arriving[Dir][x]
    BY <1>1, CachesAssumption DEF SendStep, IsSend, Nodes, ControlType
  <2> QED BY <1>a, <2>1, <2>2 DEF Has
<1>2. ASSUME NEW c \in Caches, NEW m \in Pending[c], GetSStep(c, m) PROVE OwnerDataInv'
  <2>1. \A o \in Caches : \A n \in Pending'[o] : n \in Pending[o]
    BY <1>2, TakesPending DEF GetSStep
  <2>3. ~Has(c, {"GetS"})' BY <1>2, TakesHas DEF GetSStep, Gets
  <2>4. \A o \in Caches : Has(o, {"GetS"}) => o = c BY <1>2, <1>0 DEF OwnerDataInv, GetSStep
  <2>5. \A o \in Caches : ~Has(o, {"GetS"})' BY <2>1, <2>3, <2>4 DEF Has
  <2>6. Arriving'[Dir][c] = "Data" /\ c \in Nodes BY <1>2 DEF GetSStep, Delivered, Nodes
  <2> QED BY <2>5, <2>6 DEF OwnerDataInv, Has
<1>3. ASSUME NEW c \in Caches, NEW m \in Pending[c], GetMStep(c, m) PROVE OwnerDataInv'
  <2>1. \A o \in Caches : \A n \in Pending'[o] : n \in Pending[o]
    BY <1>3, TakesPending DEF GetMStep
  <2>3. \A o \in Caches : Has(o, {"GetS"})' <=> Has(o, {"GetS"}) BY <1>3, TakesHas DEF GetMStep
  <2>4. m.type = "PutAck" \/ m.req \in Caches
    BY <1>3, <1>0 DEF GetMStep, PromiseInv, InvalidationInv, ControlInv, Gets
  <2>5. \A x \in Nodes : Arriving'[Dir][x] = Arriving[Dir][x]
    BY <1>3, <2>4, CachesAssumption DEF GetMStep, Delivered, Nodes
  <2>6. \A o \in Caches : Has(o, {"GetS"}) => (Has(o, {"PutAck"})' <=> Has(o, {"PutAck"}))
    BY <1>3, TakesHas DEF GetMStep
  <2> QED BY <1>a, <2>1, <2>3, <2>5, <2>6, <1>3 DEF GetMStep, Takes, dirVars
<1>4. ASSUME NEW c \in Caches, NEW m \in Pending[c], InvStep(c, m) PROVE OwnerDataInv'
  <2>1. \A o \in Caches : \A n \in Pending'[o] : n \in Pending[o]
    BY <1>4, TakesPending DEF InvStep
  <2>3. \A o \in Caches : Has(o, {"GetS"})' <=> Has(o, {"GetS"}) BY <1>4, TakesHas DEF InvStep
  <2>4. m.type = "PutAck" \/ m.req \in Caches
    BY <1>4, <1>0 DEF InvStep, PromiseInv, InvalidationInv, ControlInv, Gets
  <2>5. \A x \in Nodes : Arriving'[Dir][x] = Arriving[Dir][x]
    BY <1>4, <2>4, CachesAssumption DEF InvStep, Delivered, Nodes
  <2>6. \A o \in Caches : Has(o, {"GetS"}) => (Has(o, {"PutAck"})' <=> Has(o, {"PutAck"}))
    BY <1>4, TakesHas DEF InvStep
  <2> QED BY <1>a, <2>1, <2>3, <2>5, <2>6, <1>4 DEF InvStep, Takes, dirVars
<1>5. ASSUME NEW c \in Caches, NEW m \in Pending[c], PutAckStep(c, m) PROVE OwnerDataInv'
  <2>1. \A o \in Caches : \A n \in Pending'[o] : n \in Pending[o]
    BY <1>5, TakesPending DEF PutAckStep
  <2>3. \A o \in Caches : Has(o, {"GetS"})' <=> Has(o, {"GetS"}) BY <1>5, TakesHas DEF PutAckStep
  <2>4. m.type = "PutAck" \/ m.req \in Caches
    BY <1>5, <1>0 DEF PutAckStep, PromiseInv, InvalidationInv, ControlInv, Gets
  <2>5. \A x \in Nodes : Arriving'[Dir][x] = Arriving[Dir][x]
    BY <1>5, <2>4, CachesAssumption DEF PutAckStep, Delivered, Nodes
  <2>6. \A o \in Caches : Has(o, {"GetS"}) => (Has(o, {"PutAck"})' <=> Has(o, {"PutAck"}))
    <3>1. ~Has(c, {"GetS"})' BY <1>5, TakesHas DEF PutAckStep
    <3>2. \A o \in Caches : o # c => (Has(o, {"PutAck"})' <=> Has(o, {"PutAck"}))
      BY <1>5, TakesHas DEF PutAckStep
    <3> QED BY <2>3, <3>1, <3>2
  <2> QED BY <1>a, <2>1, <2>3, <2>5, <2>6, <1>5 DEF PutAckStep, Takes, dirVars
<1>6. ASSUME NEW c \in Caches, NEW s \in Nodes, LoadFilledStep(s, c) PROVE OwnerDataInv'
  <2>1. UNCHANGED <<Pending, dstate, sharers>>
    BY <1>6 DEF LoadFilledStep, Receives, To, FreeTBE, dirVars
  <2>2. \A x \in Nodes : Arriving'[Dir][x] = Arriving[Dir][x]
    BY <1>6, CachesAssumption DEF LoadFilledStep, Receives, To, FreeTBE, Nodes, ControlType
  <2> QED BY <1>a, <2>1, <2>2 DEF Has
<1>7. ASSUME NEW c \in Caches, NEW s \in Nodes, StoreFilledStep(s, c) PROVE OwnerDataInv'
  <2>1. UNCHANGED <<Pending, dstate, sharers>>
    BY <1>7 DEF StoreFilledStep, Receives, To, FreeTBE, dirVars
  <2>2. \A x \in Nodes : Arriving'[Dir][x] = Arriving[Dir][x]
    BY <1>7, CachesAssumption DEF StoreFilledStep, Receives, To, FreeTBE, Nodes, ControlType
  <2> QED BY <1>a, <2>1, <2>2 DEF Has
<1>8. ASSUME NEW c \in Caches, AwaitStep(c) PROVE OwnerDataInv'
  <2>1. UNCHANGED <<Pending, dstate, sharers>>
    BY <1>8 DEF AwaitStep, Receives, To, dirVars
  <2>2. \A x \in Nodes : Arriving'[Dir][x] = Arriving[Dir][x]
    BY <1>8, CachesAssumption DEF AwaitStep, Receives, To, Nodes, ControlType
  <2> QED BY <1>a, <2>1, <2>2 DEF Has
<1>9. ASSUME NEW c \in Caches, NEW s \in Nodes, CountStep(s, c) PROVE OwnerDataInv'
  <2>1. UNCHANGED <<Pending, dstate, sharers>>
    BY <1>9 DEF CountStep, Receives, dirVars
  <2>2. \A x \in Nodes : Arriving'[Dir][x] = Arriving[Dir][x]
    BY <1>9, CachesAssumption DEF CountStep, Receives, Nodes, ControlType
  <2> QED BY <1>a, <2>1, <2>2 DEF Has
<1>10. ASSUME NEW c \in Caches, NEW s \in Nodes, LastStep(s, c) PROVE OwnerDataInv'
  <2>1. UNCHANGED <<Pending, dstate, sharers>>
    BY <1>10 DEF LastStep, Receives, To, FreeTBE, dirVars
  <2>2. \A x \in Nodes : Arriving'[Dir][x] = Arriving[Dir][x]
    BY <1>10, CachesAssumption DEF LastStep, Receives, To, FreeTBE, Nodes, ControlType
  <2> QED BY <1>a, <2>1, <2>2 DEF Has
<1>11. ASSUME NEW c \in Caches, ReadStep(c) PROVE OwnerDataInv'
  <2>1. \A o \in Caches : \A n \in Pending'[o] : n.type = "GetS" => n \in Pending[o]
    BY <1>11 DEF ReadStep
  <2> QED BY <1>11, <1>b, <2>1 DEF ReadStep
<1>12. ASSUME NEW c \in Caches, ReadOwnedStep(c) PROVE OwnerDataInv'
  <2>1. PICK o \in Caches : owner = {o} BY <1>12, <1>0 DEF ReadOwnedStep, DirInv
  <2>2. \A p \in Caches : \A n \in Pending[p] : n.type # "GetS"
    BY <1>12, <1>0 DEF OwnerDataInv, ReadOwnedStep
  <2>3. Pending' = [d \in Caches |-> IF d \in {o} THEN Pending[d] \cup {[type |-> "GetS", req |-> c]}
                                                  ELSE Pending[d]]
    BY <1>12, <2>1 DEF ReadOwnedStep, Sends
  <2>4. \A p \in Caches : \A n \in Pending'[p] : n.type = "GetS" => p = o /\ n.req = c
    BY <2>2, <2>3
  <2>5. \A p \in Caches : Has(p, {"GetS"})' => p = o BY <2>4 DEF Has
  <2>6. [type |-> "GetS", req |-> c] \in Pending'[o] BY <2>3
  <2>7. Has(o, {"GetS"})' BY <2>6 DEF Has
  <2>8. Free' BY <1>12, <1>0 DEF ArrivingInv, ReadOwnedStep, Serves
  <2>9. ~Has(o, {"PutAck"}) BY <1>0, <2>1 DEF OwnerInv, Writer, Holds, Granted, RequestInv
  <2>10. ~Has(o, {"PutAck"})' BY <1>12, <2>9, SendsHas DEF ReadOwnedStep
  <2>11. sharers' = {o, c} /\ dstate' = "S_D" BY <1>12, <1>0, <2>1 DEF ReadOwnedStep, DirInv
  <2> QED BY <2>4, <2>5, <2>7, <2>8, <2>10, <2>11 DEF OwnerDataInv
<1>13. ASSUME NEW c \in Caches, WriteStep(c) PROVE OwnerDataInv'
  <2>1. \A o \in Caches : \A n \in Pending'[o] : n.type = "GetS" => n \in Pending[o]
    BY <1>13 DEF WriteStep, Sends
  <2> QED BY <1>13, <1>b, <2>1 DEF WriteStep
<1>14. ASSUME NEW c \in Caches, WriteOwnedStep(c) PROVE OwnerDataInv'
  <2>1. \A p \in Caches : \A n \in Pending[p] : n.type # "GetS"
    BY <1>14, <1>0 DEF OwnerDataInv, WriteOwnedStep
  <2>2. \A p \in Caches : \A n \in Pending'[p] : n.type # "GetS"
    BY <1>14, <2>1 DEF WriteOwnedStep, Sends
  <2> QED BY <1>14, <2>2 DEF OwnerDataInv, WriteOwnedStep
<1>15. ASSUME NEW c \in Caches, PutStep(c) PROVE OwnerDataInv'
  <2>1. \A o \in Caches : \A n \in Pending'[o] : n.type = "GetS" => n \in Pending[o] /\ n.req # c
    BY <1>15, <1>0 DEF PutStep, Serves, Sends, PromiseInv, Gets
  <2>2. \A o \in Caches : Has(o, {"PutAck"})' <=> Has(o, {"PutAck"}) \/ o = c
    BY <1>15, SendsHas DEF PutStep
  <2>3. \A o \in Caches : Has(o, {"GetS"})' <=> Has(o, {"GetS"})
    BY <1>15, SendsHas DEF PutStep
  <2>4. UNCHANGED Arriving BY <1>15 DEF PutStep, Serves
  <2>5. CASE dstate = "S_D"
    BY <1>15, <1>0, <2>1, <2>2, <2>3, <2>4, <2>5 DEF PutStep, OwnerDataInv
  <2>6. CASE dstate # "S_D"
    BY <1>15, <1>0, <2>1, <2>6 DEF PutStep, OwnerDataInv
  <2> QED BY <2>5, <2>6
<1>16. ASSUME NEW c \in Caches, OwnerLeavesStep(c) PROVE OwnerDataInv'
  <2>1. \A o \in Caches : \A n \in Pending'[o] : n.type = "GetS" => n \in Pending[o]
    BY <1>16 DEF OwnerLeavesStep, Sends
  <2> QED BY <1>16, <1>0, <2>1 DEF OwnerDataInv, OwnerLeavesStep
<1>17. ASSUME NEW s \in Caches, OwnerDataStep(s) PROVE OwnerDataInv'
  <2>1. \A o \in Caches : \A n \in Pending[o] : n.type # "GetS"
    BY <1>17, <1>0 DEF OwnerDataInv, OwnerDataStep, Nodes
  <2> QED BY <1>17, <2>1 DEF OwnerDataInv, OwnerDataStep
<1>18. CASE MemDataStep
  <2>1. \A o \in Caches : \A n \in Pending'[o] : n.type = "GetS" => n \in Pending[o]
    BY <1>18 DEF MemDataStep
  <2> QED BY <1>18, <1>b, <2>1 DEF MemDataStep
<1>19. CASE MemAckStep
  <2>1. \A o \in Caches : \A n \in Pending'[o] : n.type = "GetS" => n \in Pending[o]
    BY <1>19 DEF MemAckStep
  <2> QED BY <1>19, <1>b, <2>1 DEF MemAckStep
<1>20. CASE UNCHANGED control
  <2>1. UNCHANGED <<Pending, dstate, sharers>>
    BY <1>20 DEF control, dirVars, dirVars
  <2>2. \A x \in Nodes : Arriving'[Dir][x] = Arriving[Dir][x]
    BY <1>20, CachesAssumption DEF control, dirVars, Nodes, ControlType
  <2> QED BY <1>a, <2>1, <2>2 DEF Has
<1> QED
  BY <1>1, <1>2, <1>3, <1>4, <1>5, <1>6, <1>7, <1>8, <1>9, <1>10,
      <1>11, <1>12, <1>13, <1>14, <1>15, <1>16, <1>17, <1>18, <1>19, <1>20
  DEF ControlNext

(* A cache that collects acks is the directory's next owner, or has the block. *)
LEMMA CollectingHas ==
  ASSUME NEW c \in Caches, Collecting(c)
  PROVE  HasBlock(c) \/ (dstate = "M_m" /\ c \in owner)
BY DEF Collecting, HasBlock, Holds, DataFor, Nodes

(* Nobody has the block to write, or collects acks, while it is shared. *)
LEMMA SharingFacts ==
  ASSUME ControlInv, Sharing, NEW c \in Caches
  PROVE  ~HasBlock(c) /\ ~Collecting(c)
<1>1. ~HasBlock(c) BY DEF ControlInv, BlockInv, Sharing
<1> QED BY <1>1, CollectingHas DEF Sharing

(* Whoever is a sharer while the block is shared has a copy or waits for one. *)
LEMMA SharersInvNext == ASSUME ControlHyp, ControlNext PROVE SharersInv'
<1> USE DEF ControlHyp
<1> DEFINE Copy(d) == \/ cstate[d] = "S"
                      \/ cstate[d] = "SI_A" /\ Asked[d] # "none"
                      \/ cstate[d] = "SM_AD" /\ Asked[d] = "GetM"
                      \/ cstate[d] = "IS_D" /\ Asked[d] = "none"
<1>0. /\ SharersInv /\ OwnerDataInv /\ ArrivingInv /\ DirInv /\ RequestInv /\ PromiseInv
      /\ sharers \subseteq Caches
  BY DEF ControlInv, ControlType, DirType
<1>a. ASSUME Sharing' => Sharing, sharers' \subseteq sharers,
             Sharing => \A d \in sharers' : Copy(d) => Copy(d)'
      PROVE  SharersInv'
  BY <1>0, <1>a DEF SharersInv
<1>b. ASSUME ~Sharing' PROVE SharersInv'
  BY <1>b DEF SharersInv

<1>1. ASSUME NEW c \in Caches, NEW t, NEW from, NEW to, SendStep(c, t, from, to) PROVE SharersInv'
  <2>1. Sharing' <=> Sharing
    BY <1>1, <1>0, CachesAssumption DEF SendStep, IsSend, Sharing, dirVars, ControlType, Nodes
  <2> QED BY <1>1, <1>0, <1>a, <2>1 DEF SendStep, IsSend, dirVars, RequestInv, ArrivingInv, DataFor, ControlType
<1>2. ASSUME NEW c \in Caches, NEW m \in Pending[c], GetSStep(c, m) PROVE SharersInv'
  <2>1. m.req \in sharers /\ sharers \subseteq {c, m.req} /\ (c \in sharers => ~Has(c, {"PutAck"}))
    BY <1>2, <1>0 DEF GetSStep, OwnerDataInv
  <2>2. cstate[m.req] = "IS_D" /\ Asked[m.req] = "none" /\ m.req \in Caches
    BY <1>2, <1>0 DEF GetSStep, PromiseInv, Gets
  <2>3. cstate[c] = "MI_A" /\ c \in sharers => Asked[c] # "none" BY <1>0, <2>1 DEF RequestInv
  <2>4. UNCHANGED <<sharers, Asked>> BY <1>2 DEF GetSStep, Takes, dirVars
  <2>5. /\ cstate[c] \in {"M", "MI_A"} /\ (cstate[c] = "M" => cstate'[c] = "S")
        /\ cstate[c] = "MI_A" => cstate'[c] = "SI_A"
        /\ \A d \in Caches : d # c => cstate'[d] = cstate[d]
    BY <1>2 DEF GetSStep, To, ControlType
  <2>6. \A d \in sharers : Copy(d)' BY <2>1, <2>2, <2>3, <2>4, <2>5
  <2> QED BY <2>4, <2>6 DEF SharersInv
<1>3. ASSUME NEW c \in Caches, NEW m \in Pending[c], GetMStep(c, m) PROVE SharersInv'
  <2>1. HasBlock(c) BY <1>3 DEF GetMStep, Has, Gets, HasBlock, Holds
  <2>2. ~Sharing BY <2>1, SharingFacts
  <2>3. m.req \in Caches BY <1>3, <1>0 DEF GetMStep, PromiseInv, Gets
  <2>4. Sharing' <=> Sharing
    BY <1>3, <2>3, CachesAssumption DEF GetMStep, Takes, Delivered, Sharing, dirVars, Nodes
  <2> QED BY <1>b, <2>2, <2>4
<1>4. ASSUME NEW c \in Caches, NEW m \in Pending[c], InvStep(c, m) PROVE SharersInv'
  <2>1. m.req \in Caches /\ Collecting(m.req) BY <1>4 DEF InvStep, InvalidationInv, ControlInv
  <2>2. ~Sharing BY <2>1, SharingFacts
  <2>3. Sharing' <=> Sharing
    BY <1>4, <2>1, CachesAssumption DEF InvStep, Takes, Delivered, Sharing, dirVars, Nodes
  <2> QED BY <1>b, <2>2, <2>3
<1>5. ASSUME NEW c \in Caches, NEW m \in Pending[c], PutAckStep(c, m) PROVE SharersInv'
  <2>1. Sharing' <=> Sharing
    BY <1>5, <1>0, CachesAssumption DEF PutAckStep, Takes, To, Sharing, dirVars, ControlType, Nodes
  <2>2. Has(c, {"PutAck"}) BY <1>5 DEF PutAckStep, Has
  <2> QED BY <1>5, <1>0, <1>a, <2>1, <2>2 DEF PutAckStep, Takes, To, RequestInv, ControlType, dirVars
<1>6. ASSUME NEW c \in Caches, NEW s \in Nodes, LoadFilledStep(s, c) PROVE SharersInv'
  <2>1. Sharing' <=> Sharing
    BY <1>6, <1>0, CachesAssumption DEF LoadFilledStep, Receives, To, FreeTBE, Sharing, dirVars, ControlType, Nodes
  <2> QED BY <1>6, <1>0, <1>a, <2>1 DEF LoadFilledStep, Receives, To, FreeTBE, dirVars, RequestInv, ArrivingInv, DataFor, ControlType
<1>7. ASSUME NEW c \in Caches, NEW s \in Nodes, StoreFilledStep(s, c) PROVE SharersInv'
  <2>1. Sharing' <=> Sharing
    BY <1>7, <1>0, CachesAssumption DEF StoreFilledStep, Receives, To, FreeTBE, Sharing, dirVars, ControlType, Nodes
  <2> QED BY <1>7, <1>0, <1>a, <2>1 DEF StoreFilledStep, Receives, To, FreeTBE, dirVars, RequestInv, ArrivingInv, DataFor, ControlType
<1>8. ASSUME NEW c \in Caches, AwaitStep(c) PROVE SharersInv'
  <2>1. Sharing' <=> Sharing
    BY <1>8, <1>0, CachesAssumption DEF AwaitStep, Receives, To, Sharing, dirVars, ControlType, Nodes
  <2> QED BY <1>8, <1>0, <1>a, <2>1 DEF AwaitStep, Receives, To, dirVars, RequestInv, ArrivingInv, DataFor, ControlType
<1>9. ASSUME NEW c \in Caches, NEW s \in Nodes, CountStep(s, c) PROVE SharersInv'
  <2>1. Sharing' <=> Sharing
    BY <1>9, <1>0, CachesAssumption DEF CountStep, Receives, Sharing, dirVars, ControlType, Nodes
  <2> QED BY <1>9, <1>0, <1>a, <2>1 DEF CountStep, Receives, dirVars, RequestInv, ArrivingInv, DataFor, ControlType
<1>10. ASSUME NEW c \in Caches, NEW s \in Nodes, LastStep(s, c) PROVE SharersInv'
  <2>1. Sharing' <=> Sharing
    BY <1>10, <1>0, CachesAssumption DEF LastStep, Receives, To, FreeTBE, Sharing, dirVars, ControlType, Nodes
  <2> QED BY <1>10, <1>0, <1>a, <2>1 DEF LastStep, Receives, To, FreeTBE, dirVars, RequestInv, ArrivingInv, DataFor, ControlType
<1>11. ASSUME NEW c \in Caches, ReadStep(c) PROVE SharersInv'
  <2>1. cstate[c] = "IS_D" BY <1>11, <1>0 DEF ReadStep, Serves, RequestInv
  <2>2. dstate = "S" => Sharing BY DEF Sharing
  <2> QED BY <1>11, <1>0, <2>1, <2>2 DEF ReadStep, Serves, DirInv, SharersInv, ControlType
<1>12. ASSUME NEW c \in Caches, ReadOwnedStep(c) PROVE SharersInv'
  <2> QED BY <1>12, <1>b, <1>0 DEF ReadOwnedStep, Serves, Sharing, ArrivingInv
<1>13. ASSUME NEW c \in Caches, WriteStep(c) PROVE SharersInv'
  <2> QED BY <1>13, <1>b, <1>0 DEF WriteStep, Serves, Sharing, ArrivingInv
<1>14. ASSUME NEW c \in Caches, WriteOwnedStep(c) PROVE SharersInv'
  <2> QED BY <1>14, <1>b, <1>0 DEF WriteOwnedStep, Serves, Sharing, ArrivingInv
<1>15. ASSUME NEW c \in Caches, PutStep(c) PROVE SharersInv'
  <2>1. UNCHANGED <<cstate, Arriving>> /\ \A d \in Caches : d # c => Asked'[d] = Asked[d]
    BY <1>15 DEF PutStep, Serves, ControlType
  <2>2. CASE Sharing'
    <3>1. Sharing /\ sharers' = sharers \ {c} BY <1>15, <2>1, <2>2 DEF PutStep, Sharing
    <3> QED BY <1>0, <1>a, <2>1, <3>1
  <2> QED BY <1>b, <2>2
<1>16. ASSUME NEW c \in Caches, OwnerLeavesStep(c) PROVE SharersInv'
  <2> QED BY <1>16, <1>b, <1>0 DEF OwnerLeavesStep, Serves, Sharing, ArrivingInv
<1>17. ASSUME NEW s \in Caches, OwnerDataStep(s) PROVE SharersInv'
  <2>1. Sharing BY <1>17 DEF OwnerDataStep, Sharing, Nodes
  <2> QED BY <1>17, <1>a, <2>1 DEF OwnerDataStep
<1>18. CASE MemDataStep
  <2>1. CASE dstate = "S_m" BY <1>18, <1>0, <1>a, <2>1 DEF MemDataStep, Sharing
  <2>2. CASE dstate = "M_m" BY <1>18, <1>b, <2>2 DEF MemDataStep, Sharing
  <2> QED BY <1>18, <2>1, <2>2 DEF MemDataStep
<1>19. CASE MemAckStep
  <2> QED BY <1>19, <1>a DEF MemAckStep, Sharing
<1>20. CASE UNCHANGED control
  <2>1. Sharing' <=> Sharing
    BY <1>20, <1>0, CachesAssumption DEF control, dirVars, Sharing, dirVars, ControlType, Nodes
  <2> QED BY <1>20, <1>0, <1>a, <2>1 DEF control, dirVars, dirVars, RequestInv, ArrivingInv, DataFor, ControlType
<1> QED
  BY <1>1, <1>2, <1>3, <1>4, <1>5, <1>6, <1>7, <1>8, <1>9, <1>10,
      <1>11, <1>12, <1>13, <1>14, <1>15, <1>16, <1>17, <1>18, <1>19, <1>20
  DEF ControlNext

(* A cache whose GetS was taken is served by memory, by the owner, or by    *)
(* data on its way.                                                         *)
LEMMA ReaderInvNext == ASSUME ControlHyp, ControlNext PROVE ReaderInv'
<1> USE DEF ControlHyp
<1> DEFINE Ask(d) == [type |-> "GetS", req |-> d]
           Reading(d) == cstate[d] = "IS_D" /\ Asked[d] = "none"
           Awaits(d) == \/ DataFor(d)
                        \/ dstate = "S_m" /\ MemFor = d
                        \/ \E o \in Caches : Ask(d) \in Pending[o]
<1>0. /\ ArrivingInv /\ DirInv /\ RequestInv /\ PromiseInv /\ InvalidationInv
      /\ \A d \in Caches : Reading(d) => Awaits(d)
  BY DEF ControlInv, ReaderInv
<1>a. ASSUME \A d \in Caches : Reading(d)' => Reading(d) /\ (DataFor(d) => DataFor(d)'),
             dstate = "S_m" => dstate' = "S_m" /\ MemFor' = MemFor,
             \A o, d \in Caches : Ask(d) \in Pending[o] => Ask(d) \in Pending'[o]
      PROVE  ReaderInv'
  BY <1>0, <1>a DEF ReaderInv

<1>1. ASSUME NEW c \in Caches, NEW t, NEW from, NEW to, SendStep(c, t, from, to) PROVE ReaderInv'
  <2>1. \A d \in Caches : Reading(d)' => Reading(d) /\ (DataFor(d) => DataFor(d)')
    BY <1>1, <1>0 DEF SendStep, IsSend, dirVars, DataFor, ControlType, Nodes
  <2>2. UNCHANGED <<Pending, dstate, MemFor>> BY <1>1 DEF SendStep, IsSend, dirVars
  <2> QED BY <1>a, <2>1, <2>2
<1>2. ASSUME NEW c \in Caches, NEW m \in Pending[c], GetSStep(c, m) PROVE ReaderInv'
  <2>2. \A o, d \in Caches : Ask(d) \in Pending[o] => Ask(d) \in Pending'[o] \/ d = m.req
    <3>1. \A d \in Caches : d # m.req => Ask(d) # m OBVIOUS
    <3>2. \A x \in Caches : Pending'[x] = IF x = c THEN Pending[x] \ {m} ELSE Pending[x]
      BY <1>2, TakesPending DEF GetSStep
    <3> HIDE DEF Ask
    <3> QED BY <3>1, <3>2
  <2>3. \A d \in Caches : (DataFor(d) => DataFor(d)') /\ (d = m.req => DataFor(d)')
    BY <1>2 DEF GetSStep, Delivered, DataFor, Nodes
  <2>4. \A d \in Caches : Reading(d)' => Reading(d)
    BY <1>2 DEF GetSStep, Takes, To, ControlType
  <2>5. UNCHANGED <<dstate, MemFor>> BY <1>2 DEF GetSStep, Takes, dirVars
  <2> HIDE DEF Reading, Ask
  <2> QED BY <1>0, <2>2, <2>3, <2>4, <2>5 DEF ReaderInv, Reading, Ask
<1>3. ASSUME NEW c \in Caches, NEW m \in Pending[c], GetMStep(c, m) PROVE ReaderInv'
  <2>1. \A o, d \in Caches : Ask(d) \in Pending[o] => Ask(d) \in Pending'[o]
    <3>1. \A d \in Caches : Ask(d) # m BY <1>3 DEF GetMStep
    <3>2. \A x \in Caches : Pending'[x] = IF x = c THEN Pending[x] \ {m} ELSE Pending[x]
      BY <1>3, TakesPending DEF GetMStep
    <3> HIDE DEF Ask
    <3> QED BY <3>1, <3>2
  <2>2. \A d \in Caches : DataFor(d) => DataFor(d)'
    BY <1>3 DEF GetMStep, Delivered, DataFor, Nodes
  <2>3. \A d \in Caches : Reading(d)' => Reading(d)
    BY <1>3 DEF GetMStep, Takes, To, ControlType
  <2>4. UNCHANGED <<dstate, MemFor>> BY <1>3 DEF GetMStep, Takes, dirVars
  <2> QED BY <1>a, <2>1, <2>2, <2>3, <2>4
<1>4. ASSUME NEW c \in Caches, NEW m \in Pending[c], InvStep(c, m) PROVE ReaderInv'
  <2>1. \A o, d \in Caches : Ask(d) \in Pending[o] => Ask(d) \in Pending'[o]
    <3>1. \A d \in Caches : Ask(d) # m BY <1>4 DEF InvStep
    <3>2. \A x \in Caches : Pending'[x] = IF x = c THEN Pending[x] \ {m} ELSE Pending[x]
      BY <1>4, TakesPending DEF InvStep
    <3> HIDE DEF Ask
    <3> QED BY <3>1, <3>2
  <2>2. \A d \in Caches : DataFor(d) => DataFor(d)'
    <3>1. Arriving[m.req][c] = "none" BY <1>4, <1>0 DEF InvStep, InvalidationInv
    <3> QED BY <1>4, <3>1 DEF InvStep, Delivered, DataFor, Nodes
  <2>3. \A d \in Caches : Reading(d)' => Reading(d)
    BY <1>4 DEF InvStep, Takes, To, ControlType
  <2>4. UNCHANGED <<dstate, MemFor>> BY <1>4 DEF InvStep, Takes, dirVars
  <2> QED BY <1>a, <2>1, <2>2, <2>3, <2>4
<1>5. ASSUME NEW c \in Caches, NEW m \in Pending[c], PutAckStep(c, m) PROVE ReaderInv'
  <2>1. \A o, d \in Caches : Ask(d) \in Pending[o] => Ask(d) \in Pending'[o]
    <3>1. \A d \in Caches : Ask(d) # m BY <1>5 DEF PutAckStep
    <3>2. \A x \in Caches : Pending'[x] = IF x = c THEN Pending[x] \ {m} ELSE Pending[x]
      BY <1>5, TakesPending DEF PutAckStep
    <3> HIDE DEF Ask
    <3> QED BY <3>1, <3>2
  <2>2. \A d \in Caches : DataFor(d) => DataFor(d)' BY <1>5 DEF PutAckStep, DataFor
  <2>3. \A d \in Caches : Reading(d)' => Reading(d)
    BY <1>5 DEF PutAckStep, Takes, To, ControlType
  <2>4. UNCHANGED <<dstate, MemFor>> BY <1>5 DEF PutAckStep, Takes, dirVars
  <2> QED BY <1>a, <2>1, <2>2, <2>3, <2>4
<1>6. ASSUME NEW c \in Caches, NEW s \in Nodes, LoadFilledStep(s, c) PROVE ReaderInv'
  <2>1. \A d \in Caches : Reading(d)' => Reading(d) /\ (DataFor(d) => DataFor(d)')
    BY <1>6, <1>0 DEF LoadFilledStep, Receives, To, FreeTBE, dirVars, DataFor, ControlType, Nodes
  <2>2. UNCHANGED <<Pending, dstate, MemFor>> BY <1>6 DEF LoadFilledStep, Receives, To, FreeTBE, dirVars
  <2> QED BY <1>a, <2>1, <2>2
<1>7. ASSUME NEW c \in Caches, NEW s \in Nodes, StoreFilledStep(s, c) PROVE ReaderInv'
  <2>1. \A d \in Caches : Reading(d)' => Reading(d) /\ (DataFor(d) => DataFor(d)')
    BY <1>7, <1>0 DEF StoreFilledStep, Receives, To, FreeTBE, dirVars, DataFor, ControlType, Nodes
  <2>2. UNCHANGED <<Pending, dstate, MemFor>> BY <1>7 DEF StoreFilledStep, Receives, To, FreeTBE, dirVars
  <2> QED BY <1>a, <2>1, <2>2
<1>8. ASSUME NEW c \in Caches, AwaitStep(c) PROVE ReaderInv'
  <2>1. \A d \in Caches : Reading(d)' => Reading(d) /\ (DataFor(d) => DataFor(d)')
    BY <1>8, <1>0 DEF AwaitStep, Receives, To, dirVars, DataFor, ControlType, Nodes
  <2>2. UNCHANGED <<Pending, dstate, MemFor>> BY <1>8 DEF AwaitStep, Receives, To, dirVars
  <2> QED BY <1>a, <2>1, <2>2
<1>9. ASSUME NEW c \in Caches, NEW s \in Nodes, CountStep(s, c) PROVE ReaderInv'
  <2>1. \A d \in Caches : Reading(d)' => Reading(d) /\ (DataFor(d) => DataFor(d)')
    BY <1>9, <1>0 DEF CountStep, Receives, dirVars, DataFor, ControlType, Nodes
  <2>2. UNCHANGED <<Pending, dstate, MemFor>> BY <1>9 DEF CountStep, Receives, dirVars
  <2> QED BY <1>a, <2>1, <2>2
<1>10. ASSUME NEW c \in Caches, NEW s \in Nodes, LastStep(s, c) PROVE ReaderInv'
  <2>1. \A d \in Caches : Reading(d)' => Reading(d) /\ (DataFor(d) => DataFor(d)')
    BY <1>10, <1>0 DEF LastStep, Receives, To, FreeTBE, dirVars, DataFor, ControlType, Nodes
  <2>2. UNCHANGED <<Pending, dstate, MemFor>> BY <1>10 DEF LastStep, Receives, To, FreeTBE, dirVars
  <2> QED BY <1>a, <2>1, <2>2
<1>11. ASSUME NEW c \in Caches, ReadStep(c) PROVE ReaderInv'
  <2>1. Awaits(c)' BY <1>11 DEF ReadStep, Reads
  <2>2. \A d \in Caches : d # c /\ Reading(d)' => Reading(d)
    BY <1>11 DEF ReadStep, Serves, ControlType
  <2>3. UNCHANGED <<Arriving, Pending>> /\ dstate # "S_m" BY <1>11 DEF ReadStep, Serves
  <2>4. \A d \in Caches : d # c /\ Reading(d)' => Awaits(d)'
    BY <1>0, <2>2, <2>3 DEF DataFor
  <2> QED BY <2>1, <2>4 DEF ReaderInv
<1>12. ASSUME NEW c \in Caches, ReadOwnedStep(c) PROVE ReaderInv'
  <2>1. PICK o \in Caches : owner = {o} BY <1>12, <1>0 DEF ReadOwnedStep, DirInv
  <2>2. Ask(c) \in Pending'[o] BY <1>12, <2>1 DEF ReadOwnedStep, Sends
  <2>3. \A p, d \in Caches : Ask(d) \in Pending[p] => Ask(d) \in Pending'[p]
    BY <1>12 DEF ReadOwnedStep, Sends
  <2>4. \A d \in Caches : d # c /\ Reading(d)' => Reading(d)
    BY <1>12 DEF ReadOwnedStep, Serves, ControlType
  <2>5. UNCHANGED Arriving /\ dstate = "M" BY <1>12 DEF ReadOwnedStep, Serves
  <2>6. \A d \in Caches : d # c /\ Reading(d)' => Awaits(d)'
    BY <1>0, <2>3, <2>4, <2>5 DEF DataFor
  <2> QED BY <2>2, <2>6 DEF ReaderInv
<1>13. ASSUME NEW c \in Caches, WriteStep(c) PROVE ReaderInv'
  <2>1. \A p, d \in Caches : Ask(d) \in Pending[p] => Ask(d) \in Pending'[p]
    BY <1>13 DEF WriteStep, Sends
  <2>2. \A d \in Caches : Reading(d)' => Reading(d)
    BY <1>13, <1>0 DEF WriteStep, Serves, RequestInv, ControlType
  <2>3. UNCHANGED Arriving /\ (dstate = "S_m" => dstate' = "S_m" /\ MemFor' = MemFor)
    BY <1>13 DEF WriteStep, Serves
  <2> QED BY <1>a, <2>1, <2>2, <2>3 DEF DataFor
<1>14. ASSUME NEW c \in Caches, WriteOwnedStep(c) PROVE ReaderInv'
  <2>1. \A p, d \in Caches : Ask(d) \in Pending[p] => Ask(d) \in Pending'[p]
    BY <1>14 DEF WriteOwnedStep, Sends
  <2>2. \A d \in Caches : Reading(d)' => Reading(d)
    BY <1>14, <1>0 DEF WriteOwnedStep, Serves, RequestInv, ControlType
  <2>3. UNCHANGED Arriving /\ (dstate = "S_m" => dstate' = "S_m" /\ MemFor' = MemFor)
    BY <1>14 DEF WriteOwnedStep, Serves
  <2> QED BY <1>a, <2>1, <2>2, <2>3 DEF DataFor
<1>15. ASSUME NEW c \in Caches, PutStep(c) PROVE ReaderInv'
  <2>1. \A p, d \in Caches : Ask(d) \in Pending[p] => Ask(d) \in Pending'[p]
    BY <1>15 DEF PutStep, Sends
  <2>2. \A d \in Caches : Reading(d)' => Reading(d)
    BY <1>15, <1>0 DEF PutStep, Serves, RequestInv, ControlType
  <2>3. UNCHANGED Arriving /\ (dstate = "S_m" => dstate' = "S_m" /\ MemFor' = MemFor)
    BY <1>15 DEF PutStep, Serves
  <2> QED BY <1>a, <2>1, <2>2, <2>3 DEF DataFor
<1>16. ASSUME NEW c \in Caches, OwnerLeavesStep(c) PROVE ReaderInv'
  <2>1. \A p, d \in Caches : Ask(d) \in Pending[p] => Ask(d) \in Pending'[p]
    BY <1>16 DEF OwnerLeavesStep, Sends
  <2>2. \A d \in Caches : Reading(d)' => Reading(d)
    BY <1>16, <1>0 DEF OwnerLeavesStep, Serves, RequestInv, ControlType
  <2>3. UNCHANGED Arriving /\ (dstate = "S_m" => dstate' = "S_m" /\ MemFor' = MemFor)
    BY <1>16 DEF OwnerLeavesStep, Serves
  <2> QED BY <1>a, <2>1, <2>2, <2>3 DEF DataFor
<1>17. ASSUME NEW s \in Caches, OwnerDataStep(s) PROVE ReaderInv'
  <2>1. \A d \in Caches : DataFor(d) => DataFor(d)'
    BY <1>17, CachesAssumption DEF OwnerDataStep, DataFor, Nodes
  <2>2. UNCHANGED <<cstate, Asked, Pending>> /\ dstate # "S_m" BY <1>17 DEF OwnerDataStep
  <2> QED BY <1>a, <2>1, <2>2
<1>18. CASE MemDataStep
  <2>1. \A d \in Caches : (DataFor(d) => DataFor(d)') /\ (d = MemFor => DataFor(d)')
    BY <1>18 DEF MemDataStep, Delivered, DataFor, Nodes
  <2>2. UNCHANGED <<cstate, Asked, Pending>> BY <1>18 DEF MemDataStep
  <2> QED BY <1>0, <2>1, <2>2 DEF ReaderInv
<1>19. CASE MemAckStep
  <2>1. \A d \in Caches : DataFor(d) => DataFor(d)'
    BY <1>19, CachesAssumption DEF MemAckStep, DataFor, Nodes
  <2>2. UNCHANGED <<cstate, Asked, Pending>> /\ dstate # "S_m" BY <1>19 DEF MemAckStep
  <2> QED BY <1>a, <2>1, <2>2
<1>20. CASE UNCHANGED control
  <2>1. \A d \in Caches : Reading(d)' => Reading(d) /\ (DataFor(d) => DataFor(d)')
    BY <1>20, <1>0 DEF control, dirVars, dirVars, DataFor, ControlType, Nodes
  <2>2. UNCHANGED <<Pending, dstate, MemFor>> BY <1>20 DEF control, dirVars, dirVars
  <2> QED BY <1>a, <2>1, <2>2
<1> QED
  BY <1>1, <1>2, <1>3, <1>4, <1>5, <1>6, <1>7, <1>8, <1>9, <1>10,
      <1>11, <1>12, <1>13, <1>14, <1>15, <1>16, <1>17, <1>18, <1>19, <1>20
  DEF ControlNext

(* Every copy is known to the directory, or is being given up. *)
LEMMA CopyInvNext == ASSUME ControlHyp, ControlNext PROVE CopyInv'
<1> USE DEF ControlHyp
<1> DEFINE Known(d) == \/ Sharing /\ d \in sharers
                       \/ Has(d, {"Inv"})
                       \/ cstate[d] = "SI_A" /\ Has(d, {"PutAck"})
                       \/ cstate[d] = "SM_AD" /\ Collecting(d)
<1>0. /\ ArrivingInv /\ DirInv /\ RequestInv /\ PromiseInv /\ OwnerDataInv /\ MemoryInv
      /\ \A d \in Caches : HasCopy(d) => Known(d)
  BY DEF ControlInv, CopyInv
<1>a. ASSUME NEW d \in Caches, HasCopy(d), HasCopy(d)',
             Sharing /\ d \in sharers => Sharing' /\ d \in sharers',
             Has(d, {"Inv"}) => Has(d, {"Inv"})', Has(d, {"PutAck"}) => Has(d, {"PutAck"})',
             cstate[d] \in {"SI_A", "SM_AD"} => cstate'[d] = cstate[d]
      PROVE  Known(d)'
  BY <1>0, <1>a, CollectingKept
<1> SUFFICES ASSUME NEW d \in Caches, HasCopy(d)' PROVE Known(d)'
  BY DEF CopyInv

<1>1. ASSUME NEW c \in Caches, NEW t, NEW from, NEW to, SendStep(c, t, from, to) PROVE Known(d)'
  <2>1. UNCHANGED <<dirVars, Pending>> BY <1>1 DEF SendStep, IsSend, dirVars
  <2>2. Sharing => Sharing' BY <1>1, <2>1, CachesAssumption DEF SendStep, IsSend, Sharing, dirVars, Nodes
  <2>3. HasCopy(d) /\ (cstate[d] \in {"SI_A", "SM_AD"} => cstate'[d] = cstate[d])
    BY <1>1, <1>0 DEF SendStep, IsSend, HasCopy, DataFor, ArrivingInv, ControlType
  <2> QED BY <1>a, <2>1, <2>2, <2>3 DEF Has, dirVars
<1>2. ASSUME NEW c \in Caches, NEW m \in Pending[c], GetSStep(c, m) PROVE Known(d)'
  <2>1. Has(d, {"Inv"})' <=> Has(d, {"Inv"})
    BY <1>2, TakesHas DEF GetSStep
  <2>2. Has(d, {"PutAck"})' <=> Has(d, {"PutAck"})
    BY <1>2, TakesHas DEF GetSStep
  <2>3. UNCHANGED <<dirVars, Asked>> /\ (d # c => cstate'[d] = cstate[d])
    BY <1>2 DEF GetSStep, Takes, To, ControlType
  <2>4. m.req \in sharers /\ (c \in sharers <=> ~Has(c, {"PutAck"})) /\ dstate = "S_D"
        /\ \A x \in Nodes : Arriving[Dir][x] = "none"
    BY <1>2, <1>0 DEF GetSStep, OwnerDataInv
  <2>5. Sharing' /\ ~Sharing
    <3>1. Arriving'[Dir][c] = "Data" /\ c \in Nodes BY <1>2 DEF GetSStep, Delivered, Nodes
    <3> QED BY <2>3, <2>4, <3>1 DEF Sharing, dirVars
  <2>6. CASE d = m.req BY <2>3, <2>4, <2>5, <2>6 DEF dirVars
  <2>7. CASE d = c
    <3>1. cstate'[c] = "SI_A" \/ cstate[c] = "M" BY <1>2 DEF GetSStep, To, ControlType
    <3>2. cstate[c] = "M" => ~Has(c, {"PutAck"}) BY <1>0 DEF RequestInv
    <3> QED BY <2>2, <2>3, <2>4, <2>5, <2>7, <3>1, <3>2 DEF dirVars
  <2>8. CASE d # c /\ d # m.req
    <3>1. DataFor(d)' => DataFor(d)
      BY <1>2, <2>8, CachesAssumption DEF GetSStep, Delivered, DataFor, Nodes
    <3>2. HasCopy(d) BY <2>3, <2>8, <3>1 DEF HasCopy
    <3> QED BY <1>a, <2>1, <2>2, <2>3, <2>5, <2>8, <3>2
  <2> QED BY <2>6, <2>7, <2>8
<1>3. ASSUME NEW c \in Caches, NEW m \in Pending[c], GetMStep(c, m) PROVE Known(d)'
  <2>1. Has(d, {"Inv"})' <=> Has(d, {"Inv"})
    BY <1>3, TakesHas DEF GetMStep
  <2>2. Has(d, {"PutAck"})' <=> Has(d, {"PutAck"})
    BY <1>3, TakesHas DEF GetMStep
  <2>3. UNCHANGED <<dirVars, Asked>> /\ (d # c => cstate'[d] = cstate[d])
    BY <1>3 DEF GetMStep, Takes, To, ControlType
  <2>4. HasBlock(c) BY <1>3 DEF GetMStep, Has, Gets, HasBlock, Holds
  <2>5. ~Sharing BY <2>4, SharingFacts
  <2>6. d # c BY <1>3 DEF GetMStep, To, HasCopy, ControlType
  <2>7. cstate[m.req] \in {"IM_AD", "SM_AD"} BY <1>3, <1>0 DEF GetMStep, PromiseInv, Gets
  <2>8. DataFor(d)' => DataFor(d) \/ d = m.req BY <1>3 DEF GetMStep, Delivered, DataFor, Nodes
  <2>9. HasCopy(d) BY <2>3, <2>6, <2>7, <2>8 DEF HasCopy
  <2> QED BY <1>a, <2>1, <2>2, <2>3, <2>5, <2>6, <2>9
<1>4. ASSUME NEW c \in Caches, NEW m \in Pending[c], InvStep(c, m) PROVE Known(d)'
  <2>1. d # c => (Has(d, {"Inv"})' <=> Has(d, {"Inv"}))
    BY <1>4, TakesHas DEF InvStep
  <2>2. Has(d, {"PutAck"})' <=> Has(d, {"PutAck"})
    BY <1>4, TakesHas DEF InvStep
  <2>3. UNCHANGED <<dirVars, Asked>> /\ (d # c => cstate'[d] = cstate[d])
    BY <1>4 DEF InvStep, Takes, To, ControlType
  <2>4. DataFor(d)' => DataFor(d) BY <1>4, DeliveredData DEF InvStep, Nodes
  <2>5. d # c /\ HasCopy(d)
    BY <1>4, <2>3, <2>4 DEF InvStep, To, HasCopy, ControlType
  <2>6. m.req \in Caches BY <1>4 DEF InvStep, InvalidationInv, ControlInv
  <2>7. Sharing => Sharing'
    BY <1>4, <2>6, CachesAssumption DEF InvStep, Takes, Delivered, Sharing, dirVars, Nodes
  <2> QED BY <1>a, <2>1, <2>2, <2>3, <2>5, <2>7 DEF dirVars
<1>5. ASSUME NEW c \in Caches, NEW m \in Pending[c], PutAckStep(c, m) PROVE Known(d)'
  <2>1. Has(d, {"Inv"})' <=> Has(d, {"Inv"})
    BY <1>5, TakesHas DEF PutAckStep
  <2>2. d # c => (Has(d, {"PutAck"})' <=> Has(d, {"PutAck"}))
    BY <1>5, TakesHas DEF PutAckStep
  <2>3. UNCHANGED <<dirVars, Asked>> /\ (d # c => cstate'[d] = cstate[d])
    BY <1>5 DEF PutAckStep, Takes, To, ControlType
  <2>4. DataFor(d)' => DataFor(d) BY <1>5 DEF PutAckStep, DataFor
  <2>5. d # c /\ HasCopy(d)
    BY <1>5, <2>3, <2>4 DEF PutAckStep, To, HasCopy, ControlType
  <2>6. Sharing => Sharing' BY <1>5, <2>3 DEF PutAckStep, Sharing, dirVars
  <2> QED BY <1>a, <2>1, <2>2, <2>3, <2>5, <2>6 DEF dirVars
<1>6. ASSUME NEW c \in Caches, NEW s \in Nodes, LoadFilledStep(s, c) PROVE Known(d)'
  <2>1. UNCHANGED <<dirVars, Pending>> BY <1>6 DEF LoadFilledStep, Receives, To, FreeTBE, dirVars
  <2>2. Sharing => Sharing' BY <1>6, <2>1, CachesAssumption DEF LoadFilledStep, Receives, To, FreeTBE, Sharing, dirVars, Nodes
  <2>3. HasCopy(d) /\ (cstate[d] \in {"SI_A", "SM_AD"} => cstate'[d] = cstate[d])
    BY <1>6, CachesAssumption DEF LoadFilledStep, Receives, To, FreeTBE, HasCopy, DataFor, ControlType, Nodes
  <2> QED BY <1>a, <2>1, <2>2, <2>3 DEF Has, dirVars
<1>7. ASSUME NEW c \in Caches, NEW s \in Nodes, StoreFilledStep(s, c) PROVE Known(d)'
  <2>1. UNCHANGED <<dirVars, Pending>> BY <1>7 DEF StoreFilledStep, Receives, To, FreeTBE, dirVars
  <2>2. Sharing => Sharing' BY <1>7, <2>1, CachesAssumption DEF StoreFilledStep, Receives, To, FreeTBE, Sharing, dirVars, Nodes
  <2>3. HasCopy(d) /\ (cstate[d] \in {"SI_A", "SM_AD"} => cstate'[d] = cstate[d])
    BY <1>7, CachesAssumption DEF StoreFilledStep, Receives, To, FreeTBE, HasCopy, DataFor, ControlType, Nodes
  <2> QED BY <1>a, <2>1, <2>2, <2>3 DEF Has, dirVars
<1>8. ASSUME NEW c \in Caches, AwaitStep(c) PROVE Known(d)'
  <2>1. UNCHANGED <<dirVars, Pending>> BY <1>8 DEF AwaitStep, Receives, To, dirVars
  <2>2. Sharing => Sharing' BY <1>8, <2>1, CachesAssumption DEF AwaitStep, Receives, To, Sharing, dirVars, Nodes
  <2>3. HasCopy(d) /\ (cstate[d] \in {"SI_A", "SM_AD"} => cstate'[d] = cstate[d])
    BY <1>8, CachesAssumption DEF AwaitStep, Receives, To, HasCopy, DataFor, ControlType, Nodes
  <2> QED BY <1>a, <2>1, <2>2, <2>3 DEF Has, dirVars
<1>9. ASSUME NEW c \in Caches, NEW s \in Nodes, CountStep(s, c) PROVE Known(d)'
  <2>1. UNCHANGED <<dirVars, Pending>> BY <1>9 DEF CountStep, Receives, dirVars
  <2>2. Sharing => Sharing' BY <1>9, <2>1, CachesAssumption DEF CountStep, Receives, Sharing, dirVars, Nodes
  <2>3. HasCopy(d) /\ (cstate[d] \in {"SI_A", "SM_AD"} => cstate'[d] = cstate[d])
    BY <1>9, CachesAssumption DEF CountStep, Receives, HasCopy, DataFor, ControlType, Nodes
  <2> QED BY <1>a, <2>1, <2>2, <2>3 DEF Has, dirVars
<1>10. ASSUME NEW c \in Caches, NEW s \in Nodes, LastStep(s, c) PROVE Known(d)'
  <2>1. UNCHANGED <<dirVars, Pending>> BY <1>10 DEF LastStep, Receives, To, FreeTBE, dirVars
  <2>2. Sharing => Sharing' BY <1>10, <2>1, CachesAssumption DEF LastStep, Receives, To, FreeTBE, Sharing, dirVars, Nodes
  <2>3. HasCopy(d) /\ (cstate[d] \in {"SI_A", "SM_AD"} => cstate'[d] = cstate[d])
    BY <1>10, CachesAssumption DEF LastStep, Receives, To, FreeTBE, HasCopy, DataFor, ControlType, Nodes
  <2> QED BY <1>a, <2>1, <2>2, <2>3 DEF Has, dirVars
<1>11. ASSUME NEW c \in Caches, ReadStep(c) PROVE Known(d)'
  <2>1. (Has(d, {"Inv"}) => Has(d, {"Inv"})') /\ (Has(d, {"PutAck"}) => Has(d, {"PutAck"})')
    BY <1>11 DEF ReadStep, Has
  <2>2. UNCHANGED <<cstate, Arriving>> BY <1>11 DEF ReadStep, Serves
  <2>3. HasCopy(d) BY <2>2 DEF HasCopy, DataFor
  <2>4. Sharing /\ d \in sharers => Sharing' /\ d \in sharers'
    BY <1>11, <1>0, <2>2 DEF ReadStep, Sharing, DirInv, ArrivingInv
  <2> QED BY <1>a, <2>1, <2>2, <2>3, <2>4
<1>12. ASSUME NEW c \in Caches, ReadOwnedStep(c) PROVE Known(d)'
  <2>1. (Has(d, {"Inv"}) => Has(d, {"Inv"})') /\ (Has(d, {"PutAck"}) => Has(d, {"PutAck"})')
    BY <1>12, SendsHas DEF ReadOwnedStep
  <2>2. UNCHANGED <<cstate, Arriving>> BY <1>12 DEF ReadOwnedStep, Serves
  <2>3. HasCopy(d) BY <2>2 DEF HasCopy, DataFor
  <2>4. Sharing /\ d \in sharers => Sharing' /\ d \in sharers'
    BY <1>12, <1>0, <2>2 DEF ReadOwnedStep, Sharing, DirInv, ArrivingInv
  <2> QED BY <1>a, <2>1, <2>2, <2>3, <2>4
<1>13. ASSUME NEW c \in Caches, WriteStep(c) PROVE Known(d)'
  <2>1. (Has(d, {"Inv"}) => Has(d, {"Inv"})') /\ (Has(d, {"PutAck"}) => Has(d, {"PutAck"})')
    BY <1>13, SendsHas DEF WriteStep
  <2>2. UNCHANGED <<cstate, Arriving>> BY <1>13 DEF WriteStep, Serves
  <2>3. HasCopy(d) BY <2>2 DEF HasCopy, DataFor
  <2>4. CASE d = c
    <3>1. Asked[c] \in Gets BY <1>13 DEF WriteStep, Serves, Gets
    <3>2. cstate[c] \in {"IM_AD", "SM_AD"} BY <1>13, <1>0 DEF WriteStep, Serves, RequestInv
    <3>3. cstate'[c] = "SM_AD" BY <2>2, <2>3, <2>4, <3>2 DEF HasCopy
    <3>4. Collecting(c)' BY <1>13 DEF WriteStep, Collecting
    <3> QED BY <2>4, <3>3, <3>4
  <2>5. CASE d # c /\ Sharing /\ d \in sharers
    <3>1. d \in sharers \ {c} BY <2>5
    <3>2. Has(d, {"Inv"})' BY <1>13, <3>1, SendsHas DEF WriteStep
    <3> QED BY <3>2
  <2>6. CASE ~(Sharing /\ d \in sharers) BY <1>a, <2>1, <2>2, <2>3, <2>6
  <2> QED BY <2>4, <2>5, <2>6
<1>14. ASSUME NEW c \in Caches, WriteOwnedStep(c) PROVE Known(d)'
  <2>1. (Has(d, {"Inv"}) => Has(d, {"Inv"})') /\ (Has(d, {"PutAck"}) => Has(d, {"PutAck"})')
    BY <1>14, SendsHas DEF WriteOwnedStep
  <2>2. UNCHANGED <<cstate, Arriving>> BY <1>14 DEF WriteOwnedStep, Serves
  <2>3. HasCopy(d) BY <2>2 DEF HasCopy, DataFor
  <2>4. Sharing /\ d \in sharers => Sharing' /\ d \in sharers'
    BY <1>14, <1>0, <2>2 DEF WriteOwnedStep, Sharing, DirInv, ArrivingInv
  <2> QED BY <1>a, <2>1, <2>2, <2>3, <2>4
<1>15. ASSUME NEW c \in Caches, PutStep(c) PROVE Known(d)'
  <2>1. (Has(d, {"Inv"}) => Has(d, {"Inv"})') /\ (Has(d, {"PutAck"}) => Has(d, {"PutAck"})')
    BY <1>15, SendsHas DEF PutStep
  <2>2. UNCHANGED <<cstate, Arriving>> BY <1>15 DEF PutStep, Serves
  <2>3. HasCopy(d) BY <2>2 DEF HasCopy, DataFor
  <2>4. CASE d = c /\ cstate[c] = "SI_A"
    <3>1. Has(c, {"PutAck"})' BY <1>15, SendsHas DEF PutStep
    <3> QED BY <2>2, <2>4, <3>1
  <2>5. CASE d # c
    <3>1. Sharing /\ d \in sharers => Sharing' /\ d \in sharers'
      BY <1>15, <2>2, <2>5 DEF PutStep, Sharing
    <3> QED BY <1>a, <2>1, <2>2, <2>3, <3>1
  <2>6. d = c => cstate[c] = "SI_A"
    BY <1>15, <1>0, <2>3 DEF PutStep, Serves, RequestInv, HasCopy
  <2> QED BY <2>4, <2>5, <2>6
<1>16. ASSUME NEW c \in Caches, OwnerLeavesStep(c) PROVE Known(d)'
  <2>1. (Has(d, {"Inv"}) => Has(d, {"Inv"})') /\ (Has(d, {"PutAck"}) => Has(d, {"PutAck"})')
    BY <1>16, SendsHas DEF OwnerLeavesStep
  <2>2. UNCHANGED <<cstate, Arriving>> BY <1>16 DEF OwnerLeavesStep, Serves
  <2>3. HasCopy(d) BY <2>2 DEF HasCopy, DataFor
  <2>4. Sharing /\ d \in sharers => Sharing' /\ d \in sharers'
    BY <1>16, <1>0, <2>2 DEF OwnerLeavesStep, Sharing, DirInv, ArrivingInv
  <2> QED BY <1>a, <2>1, <2>2, <2>3, <2>4
<1>17. ASSUME NEW s \in Caches, OwnerDataStep(s) PROVE Known(d)'
  <2>1. UNCHANGED <<cstate, Pending, sharers>> BY <1>17 DEF OwnerDataStep
  <2>2. Sharing => Sharing' BY <1>17 DEF OwnerDataStep, Sharing
  <2>3. HasCopy(d) BY <1>17, CachesAssumption DEF OwnerDataStep, HasCopy, DataFor, Nodes
  <2> QED BY <1>a, <2>1, <2>2, <2>3 DEF Has
<1>18. CASE MemDataStep
  <2>1. UNCHANGED <<cstate, Pending>> BY <1>18 DEF MemDataStep
  <2>2. CASE d = MemFor /\ dstate = "S_m"
    BY <1>18, <1>0, <2>2 DEF MemDataStep, MemoryInv, Sharing
  <2>3. CASE ~(d = MemFor /\ dstate = "S_m")
    <3>1. DataFor(d)' => DataFor(d) \/ d = MemFor
      BY <1>18 DEF MemDataStep, Delivered, DataFor, Nodes
    <3>2. d = MemFor => cstate[d] \in {"IM_AD", "SM_AD"}
      BY <1>18, <1>0, <2>3 DEF MemDataStep, MemoryInv
    <3>3. HasCopy(d) BY <2>1, <3>1, <3>2 DEF HasCopy
    <3>4. Sharing /\ d \in sharers => Sharing' /\ d \in sharers'
      BY <1>18, <2>1 DEF MemDataStep, Sharing
    <3> QED BY <1>a, <2>1, <3>3, <3>4 DEF Has
  <2> QED BY <2>2, <2>3
<1>19. CASE MemAckStep
  <2>1. UNCHANGED <<cstate, Pending, sharers>> BY <1>19 DEF MemAckStep
  <2>2. Sharing => Sharing' BY <1>19 DEF MemAckStep, Sharing
  <2>3. HasCopy(d) BY <1>19, CachesAssumption DEF MemAckStep, HasCopy, DataFor, Nodes
  <2> QED BY <1>a, <2>1, <2>2, <2>3 DEF Has
<1>20. CASE UNCHANGED control
  <2>1. UNCHANGED <<dirVars, Pending>> BY <1>20 DEF control, dirVars, dirVars
  <2>2. Sharing => Sharing' BY <1>20, <2>1, CachesAssumption DEF control, dirVars, Sharing, dirVars, Nodes
  <2>3. HasCopy(d) /\ (cstate[d] \in {"SI_A", "SM_AD"} => cstate'[d] = cstate[d])
    BY <1>20, CachesAssumption DEF control, dirVars, HasCopy, DataFor, ControlType, Nodes
  <2> QED BY <1>a, <2>1, <2>2, <2>3 DEF Has, dirVars
<1> QED
  BY <1>1, <1>2, <1>3, <1>4, <1>5, <1>6, <1>7, <1>8, <1>9, <1>10,
      <1>11, <1>12, <1>13, <1>14, <1>15, <1>16, <1>17, <1>18, <1>19, <1>20
  DEF ControlNext

(* Only a copy is invalidated, for another cache that collects the ack. *)
LEMMA InvalidationInvNext == ASSUME ControlHyp, ControlNext PROVE InvalidationInv'
<1> USE DEF ControlHyp
<1> DEFINE Due(d, n) == /\ HasCopy(d)
                        /\ n.req \in Caches /\ n.req # d /\ Collecting(n.req)
                        /\ Arriving[n.req][d] = "none"
<1>0. /\ ArrivingInv /\ DirInv /\ RequestInv /\ PromiseInv /\ OwnerDataInv /\ MemoryInv
      /\ BlockInv /\ SharersInv /\ ReaderInv
      /\ \A d \in Caches : \A n \in Pending[d] : n.type = "Inv" => Due(d, n)
  BY DEF ControlInv, InvalidationInv
<1>a. ASSUME NEW d \in Caches, NEW n \in Pending'[d], n.type = "Inv", n \in Pending[d],
             HasCopy(d)', Arriving'[n.req][d] = "none"
      PROVE  Due(d, n)'
  <2>1. n = [type |-> "Inv", req |-> n.req] BY <1>a DEF ControlType, ForwardMsg
  <2>2. n.req \in Caches /\ n.req # d /\ Collecting(n.req) BY <1>0, <1>a
  <2>3. d \in InvTo(n.req)' BY <1>a, <2>1 DEF InvTo
  <2> QED BY <1>a, <2>2, <2>3, CollectingKept
<1> SUFFICES ASSUME NEW d \in Caches, NEW n \in Pending'[d], n.type = "Inv" PROVE Due(d, n)'
  BY DEF InvalidationInv

<1>1. ASSUME NEW c \in Caches, NEW t, NEW from, NEW to, SendStep(c, t, from, to) PROVE Due(d, n)'
  <2>1. UNCHANGED Pending BY <1>1 DEF SendStep, IsSend
  <2>2. Due(d, n) BY <1>0, <2>1
  <2>3. HasCopy(d)'
    BY <1>1, <1>0, <2>2, CachesAssumption DEF SendStep, IsSend, HasCopy, DataFor, ControlType, Nodes
  <2>4. Arriving'[n.req][d] = "none"
    BY <1>1, <2>2, CachesAssumption DEF SendStep, IsSend, ControlType, Nodes
  <2> QED BY <1>a, <2>1, <2>3, <2>4
<1>2. ASSUME NEW c \in Caches, NEW m \in Pending[c], GetSStep(c, m) PROVE Due(d, n)'
  <2>1. n \in Pending[d] BY <1>2, TakesPending DEF GetSStep
  <2>2. d # c BY <1>2, TakesPending DEF GetSStep, Gets
  <2>3. Due(d, n) BY <1>0, <2>1
  <2>4. Arriving'[n.req][d] = "none"
    BY <1>2, <2>2, <2>3 DEF GetSStep, Delivered, Nodes
  <2>5. cstate'[d] = cstate[d] BY <1>2, <2>2 DEF GetSStep, To, ControlType
  <2>6. DataFor(d) => DataFor(d)'
    BY <1>2 DEF GetSStep, Delivered, DataFor, Nodes
  <2>7. HasCopy(d)' BY <2>3, <2>5, <2>6 DEF HasCopy
  <2> QED BY <1>a, <2>1, <2>4, <2>7
<1>3. ASSUME NEW c \in Caches, NEW m \in Pending[c], GetMStep(c, m) PROVE Due(d, n)'
  <2>1. n \in Pending[d] BY <1>3, TakesPending DEF GetMStep
  <2>2. d # c BY <1>3, TakesPending DEF GetMStep, Gets
  <2>3. Due(d, n) BY <1>0, <2>1
  <2>4. Arriving'[n.req][d] = "none"
    BY <1>3, <2>2, <2>3 DEF GetMStep, Delivered, Nodes
  <2>5. cstate'[d] = cstate[d] BY <1>3, <2>2 DEF GetMStep, To, ControlType
  <2>6. DataFor(d) => DataFor(d)'
    BY <1>3 DEF GetMStep, Delivered, DataFor, Nodes
  <2>7. HasCopy(d)' BY <2>3, <2>5, <2>6 DEF HasCopy
  <2> QED BY <1>a, <2>1, <2>4, <2>7
<1>4. ASSUME NEW c \in Caches, NEW m \in Pending[c], InvStep(c, m) PROVE Due(d, n)'
  <2>1. n \in Pending[d] BY <1>4, TakesPending DEF InvStep
  <2>2. d # c
    <3>1. SUFFICES ASSUME d = c PROVE FALSE OBVIOUS
    <3>2. n # m
      <4>1. Pending'[c] = Pending[c] \ {m} BY <1>4 DEF InvStep, Takes, ControlType
      <4> QED BY <3>1, <4>1
    <3>3. Rank(m.type) < Rank(n.type) BY <1>4, <2>1, <3>1, <3>2 DEF InvStep, Takes
    <3> QED BY <1>4, <3>3 DEF InvStep, Rank
  <2>3. Due(d, n) BY <1>0, <2>1
  <2>4. Arriving'[n.req][d] = "none"
    BY <1>4, <2>2, <2>3 DEF InvStep, Delivered, Nodes
  <2>5. cstate'[d] = cstate[d] BY <1>4, <2>2 DEF InvStep, To, ControlType
  <2>6. DataFor(d) => DataFor(d)'
    <3>1. Arriving[m.req][c] = "none" BY <1>4, <1>0 DEF InvStep
    <3> QED BY <1>4, <3>1 DEF InvStep, Delivered, DataFor, Nodes
  <2>7. HasCopy(d)' BY <2>3, <2>5, <2>6 DEF HasCopy
  <2> QED BY <1>a, <2>1, <2>4, <2>7
<1>5. ASSUME NEW c \in Caches, NEW m \in Pending[c], PutAckStep(c, m) PROVE Due(d, n)'
  <2>1. n \in Pending[d] BY <1>5, TakesPending DEF PutAckStep
  <2>2. d # c BY <1>5, TakesPending DEF PutAckStep, Gets
  <2>3. Due(d, n) BY <1>0, <2>1
  <2>4. Arriving'[n.req][d] = "none"
    BY <1>5, <2>2, <2>3 DEF PutAckStep, Delivered, Nodes
  <2>5. cstate'[d] = cstate[d] BY <1>5, <2>2 DEF PutAckStep, To, ControlType
  <2>6. DataFor(d) => DataFor(d)'
    BY <1>5 DEF PutAckStep, DataFor
  <2>7. HasCopy(d)' BY <2>3, <2>5, <2>6 DEF HasCopy
  <2> QED BY <1>a, <2>1, <2>4, <2>7
<1>6. ASSUME NEW c \in Caches, NEW s \in Nodes, LoadFilledStep(s, c) PROVE Due(d, n)'
  <2>1. UNCHANGED Pending BY <1>6 DEF LoadFilledStep, Receives, To, FreeTBE
  <2>2. Due(d, n) BY <1>0, <2>1
  <2>3. HasCopy(d)'
    BY <1>6, <1>0, <2>2, CachesAssumption DEF LoadFilledStep, Receives, To, FreeTBE, HasCopy, DataFor, ControlType, Nodes
  <2>4. Arriving'[n.req][d] = "none"
    BY <1>6, <2>2, CachesAssumption DEF LoadFilledStep, Receives, To, FreeTBE, ControlType, Nodes
  <2> QED BY <1>a, <2>1, <2>3, <2>4
<1>7. ASSUME NEW c \in Caches, NEW s \in Nodes, StoreFilledStep(s, c) PROVE Due(d, n)'
  <2>1. UNCHANGED Pending BY <1>7 DEF StoreFilledStep, Receives
  <2>2. Due(d, n) BY <1>0, <2>1
  <2>3. HasBlock(c) BY <1>7 DEF StoreFilledStep, Receives, HasBlock, DataFor, Nodes
  <2>4. d # c
    <3>1. HasBlock(n.req) \/ dstate = "M_m" BY <2>2, CollectingHas
    <3> QED BY <1>0, <2>2, <2>3, <3>1 DEF BlockInv
  <2>5. cstate'[d] = cstate[d] BY <1>7, <2>4 DEF StoreFilledStep, To, ControlType
  <2>6. DataFor(d) => DataFor(d)' BY <1>7, <2>4 DEF StoreFilledStep, Receives, DataFor, ControlType, Nodes
  <2>7. Arriving'[n.req][d] = "none" BY <1>7, <2>2 DEF StoreFilledStep, Receives, ControlType, Nodes
  <2> QED BY <1>a, <2>1, <2>2, <2>5, <2>6, <2>7 DEF HasCopy
<1>8. ASSUME NEW c \in Caches, AwaitStep(c) PROVE Due(d, n)'
  <2>1. UNCHANGED Pending BY <1>8 DEF AwaitStep, Receives
  <2>2. Due(d, n) BY <1>0, <2>1
  <2>3. HasBlock(c) BY <1>8 DEF AwaitStep, Receives, HasBlock, DataFor, Nodes
  <2>4. d # c
    <3>1. HasBlock(n.req) \/ dstate = "M_m" BY <2>2, CollectingHas
    <3> QED BY <1>0, <2>2, <2>3, <3>1 DEF BlockInv
  <2>5. cstate'[d] = cstate[d] BY <1>8, <2>4 DEF AwaitStep, To, ControlType
  <2>6. DataFor(d) => DataFor(d)' BY <1>8, <2>4 DEF AwaitStep, Receives, DataFor, ControlType, Nodes
  <2>7. Arriving'[n.req][d] = "none" BY <1>8, <2>2 DEF AwaitStep, Receives, ControlType, Nodes
  <2> QED BY <1>a, <2>1, <2>2, <2>5, <2>6, <2>7 DEF HasCopy
<1>9. ASSUME NEW c \in Caches, NEW s \in Nodes, CountStep(s, c) PROVE Due(d, n)'
  <2>1. UNCHANGED Pending BY <1>9 DEF CountStep, Receives
  <2>2. Due(d, n) BY <1>0, <2>1
  <2>3. HasCopy(d)'
    BY <1>9, <1>0, <2>2, CachesAssumption DEF CountStep, Receives, HasCopy, DataFor, ControlType, Nodes
  <2>4. Arriving'[n.req][d] = "none"
    BY <1>9, <2>2, CachesAssumption DEF CountStep, Receives, ControlType, Nodes
  <2> QED BY <1>a, <2>1, <2>3, <2>4
<1>10. ASSUME NEW c \in Caches, NEW s \in Nodes, LastStep(s, c) PROVE Due(d, n)'
  <2>1. UNCHANGED Pending BY <1>10 DEF LastStep, Receives, To, FreeTBE
  <2>2. Due(d, n) BY <1>0, <2>1
  <2>3. HasCopy(d)'
    BY <1>10, <1>0, <2>2, CachesAssumption DEF LastStep, Receives, To, FreeTBE, HasCopy, DataFor, ControlType, Nodes
  <2>4. Arriving'[n.req][d] = "none"
    BY <1>10, <2>2, CachesAssumption DEF LastStep, Receives, To, FreeTBE, ControlType, Nodes
  <2> QED BY <1>a, <2>1, <2>3, <2>4
<1>11. ASSUME NEW c \in Caches, ReadStep(c) PROVE Due(d, n)'
  <2>1. UNCHANGED <<cstate, Arriving>> BY <1>11 DEF ReadStep, Serves
  <2>2. n \in Pending[d] BY <1>11 DEF ReadStep
  <2> QED BY <1>0, <1>a, <2>1, <2>2 DEF HasCopy, DataFor
<1>12. ASSUME NEW c \in Caches, ReadOwnedStep(c) PROVE Due(d, n)'
  <2>1. UNCHANGED <<cstate, Arriving>> BY <1>12 DEF ReadOwnedStep, Serves
  <2>2. n \in Pending[d] BY <1>12 DEF ReadOwnedStep, Sends
  <2> QED BY <1>0, <1>a, <2>1, <2>2 DEF HasCopy, DataFor
<1>13. ASSUME NEW c \in Caches, WriteStep(c) PROVE Due(d, n)'
  <2>1. UNCHANGED <<cstate, Arriving>> BY <1>13 DEF WriteStep, Serves
  <2>2. CASE n \in Pending[d] BY <1>0, <1>a, <2>1, <2>2 DEF HasCopy, DataFor
  <2>3. CASE n \notin Pending[d]
    <3>1. d \in sharers \ {c} /\ n.req = c BY <1>13, <2>3 DEF WriteStep, Sends
    <3>2. Asked[c] \in Gets BY <1>13 DEF WriteStep, Serves, Gets
    <3>3. Arriving[c][d] = "none" BY <3>2, AskerFacts DEF Nodes
    <3>4. Collecting(c)' BY <1>13 DEF WriteStep, Collecting
    <3>5. dstate = "S" BY <1>13, <1>0, <3>1 DEF WriteStep, DirInv
    <3>6. \/ cstate[d] \in {"S", "SI_A", "SM_AD"}
          \/ cstate[d] = "IS_D" /\ Asked[d] = "none"
      BY <1>0, <3>1, <3>5 DEF SharersInv, Sharing
    <3>7. cstate[d] = "IS_D" /\ Asked[d] = "none" => DataFor(d)
      BY <1>0, <3>5 DEF ReaderInv, OwnerDataInv
    <3>8. HasCopy(d)' BY <2>1, <3>6, <3>7 DEF HasCopy, DataFor
    <3> QED BY <2>1, <3>1, <3>3, <3>4, <3>8
  <2> QED BY <2>2, <2>3
<1>14. ASSUME NEW c \in Caches, WriteOwnedStep(c) PROVE Due(d, n)'
  <2>1. UNCHANGED <<cstate, Arriving>> BY <1>14 DEF WriteOwnedStep, Serves
  <2>2. n \in Pending[d] BY <1>14 DEF WriteOwnedStep, Sends
  <2> QED BY <1>0, <1>a, <2>1, <2>2 DEF HasCopy, DataFor
<1>15. ASSUME NEW c \in Caches, PutStep(c) PROVE Due(d, n)'
  <2>1. UNCHANGED <<cstate, Arriving>> BY <1>15 DEF PutStep, Serves
  <2>2. n \in Pending[d] BY <1>15 DEF PutStep, Sends
  <2> QED BY <1>0, <1>a, <2>1, <2>2 DEF HasCopy, DataFor
<1>16. ASSUME NEW c \in Caches, OwnerLeavesStep(c) PROVE Due(d, n)'
  <2>1. UNCHANGED <<cstate, Arriving>> BY <1>16 DEF OwnerLeavesStep, Serves
  <2>2. n \in Pending[d] BY <1>16 DEF OwnerLeavesStep, Sends
  <2> QED BY <1>0, <1>a, <2>1, <2>2 DEF HasCopy, DataFor
<1>17. ASSUME NEW s \in Caches, OwnerDataStep(s) PROVE Due(d, n)'
  <2>1. UNCHANGED Pending BY <1>17 DEF OwnerDataStep
  <2>2. Due(d, n) BY <1>0, <2>1
  <2>3. HasCopy(d)'
    BY <1>17, <1>0, <2>2, CachesAssumption DEF OwnerDataStep, HasCopy, DataFor, ControlType, Nodes
  <2>4. Arriving'[n.req][d] = "none"
    BY <1>17, <2>2, CachesAssumption DEF OwnerDataStep, ControlType, Nodes
  <2> QED BY <1>a, <2>1, <2>3, <2>4
<1>18. CASE MemDataStep
  <2>1. UNCHANGED <<cstate, Pending>> BY <1>18 DEF MemDataStep
  <2>2. DataFor(d) => DataFor(d)' BY <1>18 DEF MemDataStep, Delivered, DataFor, Nodes
  <2>3. n.req \in Caches BY <1>0, <2>1
  <2>4. Arriving'[n.req][d] = Arriving[n.req][d]
    BY <1>18, <2>3, CachesAssumption DEF MemDataStep, Delivered, Nodes
  <2> QED BY <1>0, <1>a, <2>1, <2>2, <2>4 DEF HasCopy
<1>19. CASE MemAckStep
  <2>1. UNCHANGED Pending BY <1>19 DEF MemAckStep
  <2>2. Due(d, n) BY <1>0, <2>1
  <2>3. HasCopy(d)'
    BY <1>19, <1>0, <2>2, CachesAssumption DEF MemAckStep, HasCopy, DataFor, ControlType, Nodes
  <2>4. Arriving'[n.req][d] = "none"
    BY <1>19, <2>2, CachesAssumption DEF MemAckStep, ControlType, Nodes
  <2> QED BY <1>a, <2>1, <2>3, <2>4
<1>20. CASE UNCHANGED control
  <2>1. UNCHANGED Pending BY <1>20 DEF control, dirVars
  <2>2. Due(d, n) BY <1>0, <2>1
  <2>3. HasCopy(d)'
    BY <1>20, <1>0, <2>2, CachesAssumption DEF control, dirVars, HasCopy, DataFor, ControlType, Nodes
  <2>4. Arriving'[n.req][d] = "none"
    BY <1>20, <2>2, CachesAssumption DEF control, dirVars, ControlType, Nodes
  <2> QED BY <1>a, <2>1, <2>3, <2>4
<1> QED
  BY <1>1, <1>2, <1>3, <1>4, <1>5, <1>6, <1>7, <1>8, <1>9, <1>10,
      <1>11, <1>12, <1>13, <1>14, <1>15, <1>16, <1>17, <1>18, <1>19, <1>20
  DEF ControlNext

(* The acks outstanding are those of the messages in flight. *)
LEMMA SameAcks ==
  ASSUME NEW d \in Caches,
         \A x \in Caches : [type |-> "Inv", req |-> d] \in Pending'[x] <=>
                            [type |-> "Inv", req |-> d] \in Pending[x],
         \A x \in Caches : Arriving'[d][x] = "InvAck" <=> Arriving[d][x] = "InvAck"
  PROVE  AcksOut(d)' = AcksOut(d)
<1>1. InvTo(d)' = InvTo(d) /\ AckTo(d)' = AckTo(d) BY DEF InvTo, AckTo
<1> QED BY <1>1 DEF AcksOut

(* A cache that collects acks waits for them. *)
LEMMA CollectingWaits ==
  ASSUME ControlInv, NEW d \in Caches, Collecting(d)
  PROVE  cstate[d] \in {"IM_AD", "SM_AD", "IM_A", "SM_A"}
BY DEF ControlInv, Collecting, MemoryInv

(* One that does not has none to wait for. *)
LEMMA NoAcks ==
  ASSUME ControlInv, NEW d \in Caches, ~Collecting(d)
  PROVE  InvTo(d) = {} /\ AckTo(d) = {} /\ AcksOut(d) = 0
<1>1. InvTo(d) = {} BY DEF InvTo, ControlInv, InvalidationInv
<1>2. AckTo(d) = {} BY DEF AckTo, ControlInv, ArrivingInv, Nodes
<1> QED BY <1>1, <1>2, FewAcks

(* A collector knows of every ack on its way, or will be told. *)
LEMMA AcksInvNext == ASSUME ControlHyp, ControlNext PROVE AcksInv'
<1> USE DEF ControlHyp
<1> DEFINE Inv(d) == [type |-> "Inv", req |-> d]
           Waits(d) == cstate[d] \in {"IM_A", "SM_A"}
           Exact(d) == /\ Waits(d) => acks[d] > 0 /\ acks[d] = AcksOut(d)
                       /\ ~Waits(d) => acks[d] <= 0
                       /\ ~Collecting(d) => acks[d] = 0
                       /\ dstate = "M_m" /\ d \in owner => Cardinality(sharers) + acks[d] = AcksOut(d)
                       /\ Arriving[d][Dir] = "Data" => DirAcks[d] + acks[d] = AcksOut(d)
<1>0. /\ ArrivingInv /\ DirInv /\ RequestInv /\ PromiseInv /\ OwnerDataInv /\ MemoryInv
      /\ BlockInv /\ InvalidationInv /\ \A d \in Caches : Exact(d)
  BY DEF ControlInv, AcksInv
<1>a. ASSUME NEW d \in Caches, AcksOut(d)' = AcksOut(d), acks'[d] = acks[d],
             Waits(d)' <=> Waits(d), cstate'[d] = "M" => cstate[d] = "M",
             (dstate = "M_m" /\ d \in owner)' => dstate = "M_m" /\ d \in owner /\ sharers' = sharers,
             Arriving'[d][Dir] = "Data" => Arriving[d][Dir] = "Data" /\ DirAcks'[d] = DirAcks[d]
      PROVE  Exact(d)'
  <2>1. ~Collecting(d)' => ~Collecting(d)
    BY <1>a, CollectingKept, CollectingWaits
  <2> QED BY <1>0, <1>a, <2>1
<1> SUFFICES ASSUME NEW d \in Caches PROVE Exact(d)'
  BY DEF AcksInv
<1>b. acks[d] \in Int /\ DirAcks[d] \in Nat /\ AcksOut(d) \in Nat /\ DirAcks'[d] \in Nat
  BY FewAcks DEF ControlType

<1>1. ASSUME NEW c \in Caches, NEW t, NEW from, NEW to, SendStep(c, t, from, to) PROVE Exact(d)'
  <2>1. UNCHANGED <<acks, dirVars, Pending, Arriving, DirAcks>> BY <1>1 DEF SendStep, IsSend, dirVars
  <2>2. AcksOut(d)' = AcksOut(d) BY <2>1, SameAcks
  <2>3. (Waits(d)' <=> Waits(d)) /\ (cstate'[d] = "M" => cstate[d] = "M")
    BY <1>1 DEF SendStep, IsSend, ControlType
  <2> QED BY <1>a, <2>1, <2>2, <2>3 DEF dirVars
<1>2. ASSUME NEW c \in Caches, NEW m \in Pending[c], GetSStep(c, m) PROVE Exact(d)'
  <2>1. UNCHANGED <<acks, dirVars, DirAcks>> BY <1>2 DEF GetSStep, Takes
  <2>2. (Waits(d)' <=> Waits(d)) /\ (cstate'[d] = "M" => cstate[d] = "M")
    BY <1>2 DEF GetSStep, To, ControlType
  <2>3. \A x \in Caches : Inv(d) \in Pending'[x] <=> Inv(d) \in Pending[x]
    <3>1. Inv(d) # m BY <1>2 DEF GetSStep
    <3>2. \A x \in Caches : Pending'[x] = IF x = c THEN Pending[x] \ {m} ELSE Pending[x]
      BY <1>2, TakesPending DEF GetSStep
    <3> HIDE DEF Inv
    <3> QED BY <3>1, <3>2
  <2>4. Arriving'[d][Dir] = Arriving[d][Dir] BY <1>2, CachesAssumption DEF GetSStep, Delivered, Nodes
  <2>5. HasBlock(c) BY <1>2 DEF GetSStep, Has, Gets, HasBlock, Holds
  <2>6. Arriving[m.req][c] # "InvAck"
    <3>1. m.req \in Caches /\ cstate[m.req] \in {"IS_D", "IM_AD", "SM_AD"} /\ ~DataFor(m.req)
      BY <1>2, <1>0 DEF GetSStep, PromiseInv, Gets
    <3>2. dstate # "M_m" BY <1>0, <2>5 DEF BlockInv
    <3>3. ~Collecting(m.req) BY <3>1, <3>2 DEF Collecting, DataFor, Nodes
    <3> QED BY <1>0, <3>1, <3>3 DEF ArrivingInv, Nodes
  <2>7. \A x \in Caches : Arriving'[d][x] = "InvAck" <=> Arriving[d][x] = "InvAck"
    BY <1>2, <2>6, CachesAssumption DEF GetSStep, Delivered, Nodes
  <2>8. AcksOut(d)' = AcksOut(d) BY <2>3, <2>7, SameAcks
  <2> QED BY <1>a, <2>1, <2>2, <2>4, <2>8 DEF dirVars
<1>3. ASSUME NEW c \in Caches, NEW m \in Pending[c], GetMStep(c, m) PROVE Exact(d)'
  <2>1. UNCHANGED <<acks, dirVars, DirAcks>> BY <1>3 DEF GetMStep, Takes
  <2>2. (Waits(d)' <=> Waits(d)) /\ (cstate'[d] = "M" => cstate[d] = "M")
    BY <1>3 DEF GetMStep, To, ControlType
  <2>3. \A x \in Caches : Inv(d) \in Pending'[x] <=> Inv(d) \in Pending[x]
    <3>1. Inv(d) # m BY <1>3 DEF GetMStep
    <3>2. \A x \in Caches : Pending'[x] = IF x = c THEN Pending[x] \ {m} ELSE Pending[x]
      BY <1>3, TakesPending DEF GetMStep
    <3> HIDE DEF Inv
    <3> QED BY <3>1, <3>2
  <2>4. Arriving'[d][Dir] = Arriving[d][Dir] BY <1>3, CachesAssumption DEF GetMStep, Delivered, Nodes
  <2>5. HasBlock(c) BY <1>3 DEF GetMStep, Has, Gets, HasBlock, Holds
  <2>6. Arriving[m.req][c] # "InvAck"
    <3>1. m.req \in Caches /\ cstate[m.req] \in {"IS_D", "IM_AD", "SM_AD"} /\ ~DataFor(m.req)
      BY <1>3, <1>0 DEF GetMStep, PromiseInv, Gets
    <3>2. dstate # "M_m" BY <1>0, <2>5 DEF BlockInv
    <3>3. ~Collecting(m.req) BY <3>1, <3>2 DEF Collecting, DataFor, Nodes
    <3> QED BY <1>0, <3>1, <3>3 DEF ArrivingInv, Nodes
  <2>7. \A x \in Caches : Arriving'[d][x] = "InvAck" <=> Arriving[d][x] = "InvAck"
    BY <1>3, <2>6, CachesAssumption DEF GetMStep, Delivered, Nodes
  <2>8. AcksOut(d)' = AcksOut(d) BY <2>3, <2>7, SameAcks
  <2> QED BY <1>a, <2>1, <2>2, <2>4, <2>8 DEF dirVars
<1>4. ASSUME NEW c \in Caches, NEW m \in Pending[c], InvStep(c, m) PROVE Exact(d)'
  <2>1. /\ UNCHANGED <<acks, dirVars, DirAcks>> /\ cstate[c] \in {"S", "SM_AD", "SI_A"}
        /\ cstate' = [cstate EXCEPT ![c] = cstate'[c]] /\ cstate'[c] \in {"I", "IM_AD", "II_A"}
    BY <1>4 DEF InvStep, Takes, To, ControlType
  <2>2. m.req \in Caches /\ m.req # c /\ Arriving[m.req][c] = "none" BY <1>4, <1>0 DEF InvStep, InvalidationInv
  <2>3. m = Inv(m.req) BY <1>4 DEF InvStep, ControlType, ForwardMsg
  <2>4. Arriving'[d][Dir] = Arriving[d][Dir] BY <1>4, CachesAssumption DEF InvStep, Delivered, Nodes
  <2>5. AcksOut(d)' = AcksOut(d)
    <3>1. CASE d # m.req
      <4>1. Inv(d) # m BY <3>1
      <4>2. \A x \in Caches : Inv(d) \in Pending'[x] <=> Inv(d) \in Pending[x]
        <5>1. \A x \in Caches : Pending'[x] = IF x = c THEN Pending[x] \ {m} ELSE Pending[x]
          BY <1>4, TakesPending DEF InvStep
        <5> HIDE DEF Inv
        <5> QED BY <4>1, <5>1
      <4>3. \A x \in Caches : Arriving'[d][x] = Arriving[d][x]
        BY <1>4, <3>1 DEF InvStep, Delivered, Nodes
      <4> QED BY <4>2, <4>3, SameAcks
    <3>2. CASE d = m.req
      <4>1. InvTo(d)' = InvTo(d) \ {c} /\ c \in InvTo(d)
        <5>1. \A x \in Caches : Inv(d) \in Pending'[x] <=> Inv(d) \in Pending[x] /\ x # c
          <6>1. m = Inv(d) BY <2>3, <3>2
          <6>9. \A x \in Caches : Pending'[x] = IF x = c THEN Pending[x] \ {m} ELSE Pending[x]
            BY <1>4, TakesPending DEF InvStep
          <6> HIDE DEF Inv
          <6> QED BY <6>1, <6>9
        <5>2. Inv(d) \in Pending[c] BY <1>4, <2>3, <3>2
        <5> QED BY <5>1, <5>2 DEF InvTo
      <4>2. AckTo(d)' = AckTo(d) \cup {c} /\ c \notin AckTo(d)
        <5>1. \A x \in Caches : Arriving'[d][x] = IF x = c THEN "InvAck" ELSE Arriving[d][x]
          BY <1>4, <3>2 DEF InvStep, Delivered, Nodes
        <5> QED BY <2>2, <3>2, <5>1 DEF AckTo
      <4>3. Cardinality(InvTo(d) \ {c}) = Cardinality(InvTo(d)) - 1
        BY <4>1, FewAcks, FS_RemoveElement
      <4>4. Cardinality(AckTo(d) \cup {c}) = Cardinality(AckTo(d)) + 1
        BY <4>2, FewAcks, FS_AddElement
      <4> QED BY <4>1, <4>2, <4>3, <4>4, FewAcks DEF AcksOut
    <3> QED BY <3>1, <3>2
  <2> QED BY <1>a, <2>1, <2>4, <2>5 DEF dirVars, ControlType
<1>5. ASSUME NEW c \in Caches, NEW m \in Pending[c], PutAckStep(c, m) PROVE Exact(d)'
  <2>1. UNCHANGED <<acks, dirVars, DirAcks>> BY <1>5 DEF PutAckStep, Takes
  <2>2. (Waits(d)' <=> Waits(d)) /\ (cstate'[d] = "M" => cstate[d] = "M")
    BY <1>5 DEF PutAckStep, To, ControlType
  <2>3. \A x \in Caches : Inv(d) \in Pending'[x] <=> Inv(d) \in Pending[x]
    <3>1. Inv(d) # m BY <1>5 DEF PutAckStep
    <3>2. \A x \in Caches : Pending'[x] = IF x = c THEN Pending[x] \ {m} ELSE Pending[x]
      BY <1>5, TakesPending DEF PutAckStep
    <3> HIDE DEF Inv
    <3> QED BY <3>1, <3>2
  <2>4. UNCHANGED Arriving BY <1>5 DEF PutAckStep
  <2>5. AcksOut(d)' = AcksOut(d) BY <2>3, <2>4, SameAcks
  <2> QED BY <1>a, <2>1, <2>2, <2>4, <2>5 DEF dirVars
<1>6. ASSUME NEW c \in Caches, NEW s \in Nodes, LoadFilledStep(s, c) PROVE Exact(d)'
  <2>1. UNCHANGED <<dirVars, Pending>> BY <1>6 DEF LoadFilledStep, Receives
  <2>2. CASE d # c
    <3>1. \A x \in Nodes : Arriving'[d][x] = Arriving[d][x]
      BY <1>6, <2>2 DEF LoadFilledStep, Receives, ControlType, Nodes
    <3>2. AcksOut(d)' = AcksOut(d) BY <2>1, <3>1, SameAcks DEF Nodes
    <3>3. cstate'[d] = cstate[d] /\ acks'[d] = acks[d] /\ DirAcks'[d] = DirAcks[d]
      BY <1>6, <2>2 DEF LoadFilledStep, Receives, To, FreeTBE, ControlType
    <3> QED BY <1>a, <2>1, <3>1, <3>2, <3>3 DEF dirVars, Nodes
  <2>3. CASE d = c
    <3>1. acks'[c] = 0 /\ cstate'[c] \in {"M", "S"} BY <1>6 DEF LoadFilledStep, To, FreeTBE, ControlType
    <3>2. ~(dstate = "M_m" /\ c \in owner)
      BY <1>6, <1>0 DEF LoadFilledStep, Receives, MemoryInv, DataFor
    <3>3. Arriving'[c][Dir] # "Data"
      BY <1>6, <1>0, CachesAssumption DEF LoadFilledStep, Receives, ArrivingInv, DataFor, ControlType, Nodes
    <3>4. ~(dstate' = "M_m" /\ c \in owner') BY <2>1, <3>2 DEF dirVars
    <3> QED BY <2>3, <3>1, <3>3, <3>4
  <2> QED BY <2>2, <2>3
<1>7. ASSUME NEW c \in Caches, NEW s \in Nodes, StoreFilledStep(s, c) PROVE Exact(d)'
  <2>1. UNCHANGED <<dirVars, Pending>> BY <1>7 DEF StoreFilledStep, Receives
  <2>2. CASE d # c
    <3>1. \A x \in Nodes : Arriving'[d][x] = Arriving[d][x]
      BY <1>7, <2>2 DEF StoreFilledStep, Receives, ControlType, Nodes
    <3>2. AcksOut(d)' = AcksOut(d) BY <2>1, <3>1, SameAcks DEF Nodes
    <3>3. cstate'[d] = cstate[d] /\ acks'[d] = acks[d] /\ DirAcks'[d] = DirAcks[d]
      BY <1>7, <2>2 DEF StoreFilledStep, Receives, To, FreeTBE, ControlType
    <3> QED BY <1>a, <2>1, <3>1, <3>2, <3>3 DEF dirVars, Nodes
  <2>3. CASE d = c
    <3>1. acks'[c] = 0 /\ cstate'[c] \in {"M", "S"} BY <1>7 DEF StoreFilledStep, To, FreeTBE, ControlType
    <3>2. ~(dstate = "M_m" /\ c \in owner)
      BY <1>7, <1>0 DEF StoreFilledStep, Receives, MemoryInv, DataFor
    <3>3. Arriving'[c][Dir] # "Data"
      BY <1>7, <1>0, CachesAssumption DEF StoreFilledStep, Receives, ArrivingInv, DataFor, ControlType, Nodes
    <3>4. ~(dstate' = "M_m" /\ c \in owner') BY <2>1, <3>2 DEF dirVars
    <3> QED BY <2>3, <3>1, <3>3, <3>4
  <2> QED BY <2>2, <2>3
<1>8. ASSUME NEW c \in Caches, AwaitStep(c) PROVE Exact(d)'
  <2>1. UNCHANGED <<dirVars, Pending>> BY <1>8 DEF AwaitStep, Receives
  <2>2. CASE d # c
    <3>1. \A x \in Nodes : Arriving'[d][x] = Arriving[d][x]
      BY <1>8, <2>2 DEF AwaitStep, Receives, ControlType, Nodes
    <3>2. AcksOut(d)' = AcksOut(d) BY <2>1, <3>1, SameAcks DEF Nodes
    <3>3. cstate'[d] = cstate[d] /\ acks'[d] = acks[d] /\ DirAcks'[d] = DirAcks[d]
      BY <1>8, <2>2 DEF AwaitStep, Receives, To, ControlType
    <3> QED BY <1>a, <2>1, <3>1, <3>2, <3>3 DEF dirVars, Nodes
  <2>3. CASE d = c
    <3>1. DataFor(c) /\ cstate[c] \in {"IM_AD", "SM_AD"} /\ cstate'[c] \in {"IM_A", "SM_A"}
      BY <1>8 DEF AwaitStep, Receives, To, DataFor, ControlType, Nodes
    <3>2. DirAcks[c] + acks[c] = AcksOut(c) /\ acks'[c] = acks[c] + DirAcks[c] /\ DirAcks[c] + acks[c] # 0
      BY <1>8, <1>0 DEF AwaitStep, Receives, ControlType
    <3>3. \A x \in Caches : Arriving'[c][x] = Arriving[c][x]
      BY <1>8, CachesAssumption DEF AwaitStep, Receives, ControlType, Nodes
    <3>4. AcksOut(c)' = AcksOut(c) BY <2>1, <3>3, SameAcks
    <3>5. Collecting(c)' BY <3>1 DEF Collecting
    <3>6. ~(dstate = "M_m" /\ c \in owner) BY <1>0, <3>1 DEF MemoryInv
    <3>7. Arriving'[c][Dir] = "none" BY <1>8 DEF AwaitStep, Receives, ControlType, Nodes
    <3> QED BY <1>b, <2>1, <2>3, <3>1, <3>2, <3>4, <3>5, <3>6, <3>7 DEF dirVars
  <2> QED BY <2>2, <2>3
<1>9. ASSUME NEW c \in Caches, NEW s \in Nodes, CountStep(s, c) PROVE Exact(d)'
  <2>1. UNCHANGED <<dirVars, Pending>> BY <1>9 DEF CountStep, Receives
  <2>2. CASE d # c
    <3>1. \A x \in Nodes : Arriving'[d][x] = Arriving[d][x]
      BY <1>9, <2>2 DEF CountStep, Receives, ControlType, Nodes
    <3>2. AcksOut(d)' = AcksOut(d) BY <2>1, <3>1, SameAcks DEF Nodes
    <3>3. cstate'[d] = cstate[d] /\ acks'[d] = acks[d] /\ DirAcks'[d] = DirAcks[d]
      BY <1>9, <2>2 DEF CountStep, Receives, ControlType
    <3> QED BY <1>a, <2>1, <3>1, <3>2, <3>3 DEF dirVars, Nodes
  <2>3. CASE d = c
    <3>1. AckTo(c)' = AckTo(c) \ {s} /\ s \in AckTo(c) /\ InvTo(c)' = InvTo(c)
      BY <1>9 DEF CountStep, Receives, AckTo, InvTo, ControlType, Nodes
    <3>2. Cardinality(AckTo(c) \ {s}) = Cardinality(AckTo(c)) - 1
      BY <3>1, FewAcks, FS_RemoveElement
    <3>3. AcksOut(c)' = AcksOut(c) - 1 BY <3>1, <3>2, FewAcks DEF AcksOut
    <3>4. acks'[c] = acks[c] - 1 /\ acks[c] # 1 /\ cstate'[c] = cstate[c] /\ DirAcks'[c] = DirAcks[c]
      BY <1>9, CachesAssumption DEF CountStep, Receives, ControlType
    <3>5. Collecting(c) BY <1>9, <1>0 DEF CountStep, Receives, ArrivingInv
    <3>6. cstate[c] # "M" BY <3>5, CollectingWaits
    <3>7. Collecting(c)' BY <3>4, <3>5, <3>6, CollectingKept
    <3>8. Arriving'[c][Dir] = Arriving[c][Dir]
      BY <1>9, CachesAssumption DEF CountStep, Receives, ControlType, Nodes
    <3>9. Cardinality(sharers) \in Nat
      BY CachesAssumption, FS_Subset, FS_CardinalityType DEF ControlType, DirType
    <3> QED BY <1>0, <1>b, <2>1, <2>3, <3>3, <3>4, <3>7, <3>8, <3>9 DEF dirVars
  <2> QED BY <2>2, <2>3
<1>10. ASSUME NEW c \in Caches, NEW s \in Nodes, LastStep(s, c) PROVE Exact(d)'
  <2>1. UNCHANGED <<dirVars, Pending>> BY <1>10 DEF LastStep, Receives
  <2>2. CASE d # c
    <3>1. \A x \in Nodes : Arriving'[d][x] = Arriving[d][x]
      BY <1>10, <2>2 DEF LastStep, Receives, ControlType, Nodes
    <3>2. AcksOut(d)' = AcksOut(d) BY <2>1, <3>1, SameAcks DEF Nodes
    <3>3. cstate'[d] = cstate[d] /\ acks'[d] = acks[d] /\ DirAcks'[d] = DirAcks[d]
      BY <1>10, <2>2 DEF LastStep, Receives, To, FreeTBE, ControlType
    <3> QED BY <1>a, <2>1, <3>1, <3>2, <3>3 DEF dirVars, Nodes
  <2>3. CASE d = c
    <3>1. acks'[c] = 0 /\ ~Waits(c)'
      BY <1>10 DEF LastStep, To, FreeTBE, ControlType
    <3>2. ~(dstate = "M_m" /\ c \in owner)
      BY <1>10, <1>0 DEF LastStep, Receives, MemoryInv, DataFor
    <3>3. Arriving'[c][Dir] # "Data"
      <4>1. Arriving' = [Arriving EXCEPT ![c][s] = "none"] /\ cstate[c] \in {"IM_A", "SM_A"}
        BY <1>10 DEF LastStep, Receives
      <4>2. Arriving[c][Dir] # "Data" BY <1>0, <4>1 DEF ArrivingInv, DataFor, Nodes
      <4>3. c \in Nodes /\ Dir \in Nodes /\ Arriving[c] \in [Nodes -> {"none", "Data", "InvAck"}]
        BY <1>0 DEF ControlType, Nodes
      <4>4. Arriving'[c] = [Arriving[c] EXCEPT ![s] = "none"] BY <4>1, <4>3, <1>0 DEF ControlType
      <4> QED BY <4>2, <4>3, <4>4
    <3>4. ~(dstate' = "M_m" /\ c \in owner') BY <2>1, <3>2 DEF dirVars
    <3> QED BY <2>3, <3>1, <3>3, <3>4
  <2> QED BY <2>2, <2>3
<1>11. ASSUME NEW c \in Caches, ReadStep(c) PROVE Exact(d)'
  <2>1. UNCHANGED <<cstate, acks, Arriving, DirAcks>> BY <1>11 DEF ReadStep, Serves
  <2>2. \A x \in Caches : Inv(d) \in Pending'[x] <=> Inv(d) \in Pending[x]
    BY <1>11 DEF ReadStep
  <2>3. AcksOut(d)' = AcksOut(d) BY <2>1, <2>2, SameAcks
  <2>4. (dstate = "M_m")' => dstate = "M_m" /\ UNCHANGED <<sharers, owner>> BY <1>11 DEF ReadStep
  <2> QED BY <1>a, <2>1, <2>3, <2>4
<1>12. ASSUME NEW c \in Caches, ReadOwnedStep(c) PROVE Exact(d)'
  <2>1. UNCHANGED <<cstate, acks, Arriving, DirAcks>> BY <1>12 DEF ReadOwnedStep, Serves
  <2>2. \A x \in Caches : Inv(d) \in Pending'[x] <=> Inv(d) \in Pending[x]
    BY <1>12 DEF ReadOwnedStep, Sends
  <2>3. AcksOut(d)' = AcksOut(d) BY <2>1, <2>2, SameAcks
  <2>4. (dstate = "M_m")' => dstate = "M_m" /\ UNCHANGED <<sharers, owner>> BY <1>12 DEF ReadOwnedStep
  <2> QED BY <1>a, <2>1, <2>3, <2>4
<1>13. ASSUME NEW c \in Caches, WriteStep(c) PROVE Exact(d)'
  <2>1. UNCHANGED <<cstate, acks, Arriving, DirAcks>> BY <1>13 DEF WriteStep, Serves
  <2>2. Pending' = [x \in Caches |-> IF x \in sharers \ {c} THEN Pending[x] \cup {Inv(c)} ELSE Pending[x]]
    BY <1>13 DEF WriteStep, Sends
  <2>3. CASE d # c
    <3>1. Inv(d) # Inv(c) BY <2>3
    <3>2. \A x \in Caches : Inv(d) \in Pending'[x] <=> Inv(d) \in Pending[x] BY <2>2, <3>1
    <3>3. AcksOut(d)' = AcksOut(d) BY <2>1, <3>2, SameAcks
    <3>4. d \notin owner' BY <1>13, <2>3 DEF WriteStep
    <3> QED BY <1>a, <2>1, <3>3, <3>4
  <2>4. CASE d = c
    <3>1. Asked[c] \in Gets BY <1>13 DEF WriteStep, Serves, Gets
    <3>2. ~Collecting(c) /\ acks[c] = 0 /\ Arriving[c][Dir] = "none" BY <3>1, AskerFacts DEF Nodes
    <3>3. InvTo(c) = {} /\ AckTo(c) = {} BY <3>2, NoAcks
    <3>4. sharers \subseteq Caches BY DEF ControlType, DirType
    <3>5. InvTo(c)' = sharers' BY <1>13, <2>2, <3>3, <3>4 DEF InvTo, WriteStep
    <3>6. AckTo(c)' = {} BY <2>1, <3>3 DEF AckTo
    <3>7. Cardinality(AckTo(c)') = 0 BY <3>6, FS_EmptySet
    <3>8. sharers' \subseteq Caches /\ IsFiniteSet(sharers')
      BY <1>13, <3>4, CachesAssumption, FS_Subset DEF WriteStep
    <3>9. Cardinality(sharers') \in Nat BY <3>8, FS_CardinalityType
    <3>10. AcksOut(c)' = Cardinality(sharers') BY <3>5, <3>7, <3>9 DEF AcksOut
    <3>11. ~Waits(c) BY <1>13, <1>0 DEF WriteStep, Serves, RequestInv
    <3> QED BY <2>1, <2>4, <3>2, <3>9, <3>10, <3>11
  <2> QED BY <2>3, <2>4
<1>14. ASSUME NEW c \in Caches, WriteOwnedStep(c) PROVE Exact(d)'
  <2>1. UNCHANGED <<cstate, acks, Arriving, DirAcks>> BY <1>14 DEF WriteOwnedStep, Serves
  <2>2. \A x \in Caches : Inv(d) \in Pending'[x] <=> Inv(d) \in Pending[x]
    BY <1>14 DEF WriteOwnedStep, Sends
  <2>3. AcksOut(d)' = AcksOut(d) BY <2>1, <2>2, SameAcks
  <2>4. (dstate = "M_m")' => dstate = "M_m" /\ UNCHANGED <<sharers, owner>> BY <1>14 DEF WriteOwnedStep
  <2> QED BY <1>a, <2>1, <2>3, <2>4
<1>15. ASSUME NEW c \in Caches, PutStep(c) PROVE Exact(d)'
  <2>1. UNCHANGED <<cstate, acks, Arriving, DirAcks>> BY <1>15 DEF PutStep, Serves
  <2>2. \A x \in Caches : Inv(d) \in Pending'[x] <=> Inv(d) \in Pending[x]
    BY <1>15 DEF PutStep, Sends
  <2>3. AcksOut(d)' = AcksOut(d) BY <2>1, <2>2, SameAcks
  <2>4. (dstate = "M_m")' => dstate = "M_m" /\ UNCHANGED <<sharers, owner>> BY <1>15 DEF PutStep
  <2> QED BY <1>a, <2>1, <2>3, <2>4
<1>16. ASSUME NEW c \in Caches, OwnerLeavesStep(c) PROVE Exact(d)'
  <2>1. UNCHANGED <<cstate, acks, Arriving, DirAcks>> BY <1>16 DEF OwnerLeavesStep, Serves
  <2>2. \A x \in Caches : Inv(d) \in Pending'[x] <=> Inv(d) \in Pending[x]
    BY <1>16 DEF OwnerLeavesStep, Sends
  <2>3. AcksOut(d)' = AcksOut(d) BY <2>1, <2>2, SameAcks
  <2>4. (dstate = "M_m")' => dstate = "M_m" /\ UNCHANGED <<sharers, owner>> BY <1>16 DEF OwnerLeavesStep
  <2> QED BY <1>a, <2>1, <2>3, <2>4
<1>17. ASSUME NEW s \in Caches, OwnerDataStep(s) PROVE Exact(d)'
  <2>1. UNCHANGED <<cstate, acks, Pending, DirAcks>> /\ dstate' # "M_m" BY <1>17 DEF OwnerDataStep
  <2>2. \A x \in Nodes : Arriving'[d][x] = Arriving[d][x]
    BY <1>17, CachesAssumption DEF OwnerDataStep, ControlType, Nodes
  <2>3. AcksOut(d)' = AcksOut(d) BY <2>1, <2>2, SameAcks DEF Nodes
  <2> QED BY <1>a, <2>1, <2>2, <2>3 DEF Nodes
<1>18. CASE MemDataStep
  <2>1. UNCHANGED <<cstate, acks, Pending>> BY <1>18 DEF MemDataStep
  <2>2. \A x \in Caches : Arriving'[d][x] = Arriving[d][x]
    BY <1>18, CachesAssumption DEF MemDataStep, Delivered, Nodes
  <2>3. AcksOut(d)' = AcksOut(d) BY <2>1, <2>2, SameAcks
  <2>4. dstate' # "M_m" BY <1>18 DEF MemDataStep
  <2>5. CASE d # MemFor
    <3>1. Arriving'[d][Dir] = Arriving[d][Dir] /\ DirAcks'[d] = DirAcks[d]
      BY <1>18, <2>5 DEF MemDataStep, Delivered, AcksDelivered, Nodes
    <3> QED BY <1>a, <2>1, <2>3, <2>4, <3>1
  <2>6. CASE d = MemFor
    <3>1. DirAcks'[d] = AcksFor(d) /\ ~DataFor(d) BY <1>18, <1>0, <2>6 DEF MemDataStep, AcksDelivered, MemoryInv
    <3>2. CASE dstate = "M_m"
      <4>1. owner = {d} /\ AcksFor(d) = Cardinality(sharers) /\ cstate[d] \in {"IM_AD", "SM_AD"}
        BY <1>18, <1>0, <2>6, <3>2 DEF MemoryInv, AcksFor, MemDataStep
      <4>2. Arriving'[d][Dir] = "Data" BY <1>18, <2>6 DEF MemDataStep, Delivered, Nodes
      <4>3. Collecting(d)' BY <2>1, <4>1, <4>2 DEF Collecting
      <4> QED BY <1>0, <2>1, <2>3, <2>4, <3>1, <3>2, <4>1, <4>3
    <3>3. CASE dstate = "S_m"
      <4>1. owner = {} /\ cstate[d] = "IS_D" BY <1>18, <1>0, <2>6, <3>3 DEF MemoryInv, DirInv, MemDataStep
      <4>2. ~Collecting(d) BY <4>1 DEF Collecting
      <4>3. acks[d] = 0 /\ AcksOut(d) = 0 BY <1>0, <4>2, NoAcks
      <4>4. AcksFor(d) = 0 BY <4>1 DEF AcksFor
      <4> QED BY <2>1, <2>3, <2>4, <3>1, <4>1, <4>3, <4>4
    <3> QED BY <1>18, <3>2, <3>3 DEF MemDataStep
  <2> QED BY <2>5, <2>6
<1>19. CASE MemAckStep
  <2>1. UNCHANGED <<cstate, acks, Pending, DirAcks>> /\ dstate' # "M_m" BY <1>19 DEF MemAckStep
  <2>2. \A x \in Nodes : Arriving'[d][x] = Arriving[d][x]
    BY <1>19, CachesAssumption DEF MemAckStep, ControlType, Nodes
  <2>3. AcksOut(d)' = AcksOut(d) BY <2>1, <2>2, SameAcks DEF Nodes
  <2> QED BY <1>a, <2>1, <2>2, <2>3 DEF Nodes
<1>20. CASE UNCHANGED control
  <2>1. UNCHANGED <<acks, dirVars, Pending, Arriving, DirAcks>> BY <1>20 DEF control, dirVars, dirVars
  <2>2. AcksOut(d)' = AcksOut(d) BY <2>1, SameAcks
  <2>3. (Waits(d)' <=> Waits(d)) /\ (cstate'[d] = "M" => cstate[d] = "M")
    BY <1>20 DEF control, dirVars, ControlType
  <2> QED BY <1>a, <2>1, <2>2, <2>3 DEF dirVars
<1> QED
  BY <1>1, <1>2, <1>3, <1>4, <1>5, <1>6, <1>7, <1>8, <1>9, <1>10,
      <1>11, <1>12, <1>13, <1>14, <1>15, <1>16, <1>17, <1>18, <1>19, <1>20
  DEF ControlNext
---------------------------------------------------------------------------
(* Nothing is asked for and nothing is in flight at first. *)
LEMMA ControlInvInit == Init => ControlInv
<1> SUFFICES ASSUME Init PROVE ControlInv OBVIOUS
<1>1. /\ \A c \in Caches : request[c] = <<>> /\ forward[c] = <<>>
      /\ \A d, s \in Nodes : response[d][s] = <<>>
      /\ toMem = <<>> /\ fromMem = <<>>
  BY DEF Init
<1>2. /\ Asked = [c \in Caches |-> "none"] /\ Pending = [c \in Caches |-> {}]
      /\ \A d, s \in Nodes : Arriving[d][s] = "none"
      /\ MemOp = "none"
  BY <1>1 DEF Asked, Pending, Arriving, MemOp, MemMsg, NoMemMsg, Nodes
<1>3. QueueInv
  BY <1>1 DEF QueueInv, RequestQueues, ResponseQueues, MemoryQueues, ForwardQueues
<1>4. /\ \A c \in Caches : cstate[c] = "I" /\ acks[c] = 0
      /\ tbes = {} /\ dstate = "I" /\ sharers = {} /\ owner = {}
  BY DEF Init
<1>5. \A c \in Caches : ~DataFor(c) /\ ~Collecting(c) /\ ~Writer(c) /\ ~HasBlock(c) /\ ~HasCopy(c)
  BY <1>2, <1>4 DEF DataFor, Collecting, Writer, Holds, Granted, HasBlock, HasCopy, Nodes
<1>6. \A c \in Caches : \A types : ~Has(c, types) BY <1>2 DEF Has
<1>7. DirInv /\ RequestInv /\ OwnerInv /\ PromiseInv /\ MemoryInv /\ BlockInv
  BY <1>2, <1>4, <1>5, <1>6, DirInvInit
     DEF RequestInv, OwnerInv, PromiseInv, MemoryInv, BlockInv
<1>8. ArrivingInv /\ OwnerDataInv /\ SharersInv /\ ReaderInv /\ CopyInv /\ InvalidationInv
  BY <1>2, <1>4, <1>5, <1>6
     DEF ArrivingInv, OwnerDataInv, SharersInv, Sharing, ReaderInv, CopyInv, InvalidationInv, Nodes
<1>9. AcksInv BY <1>2, <1>4, <1>5 DEF AcksInv, Nodes
<1> QED BY <1>3, <1>7, <1>8, <1>9 DEF ControlInv

(* Every step of the protocol keeps the invariant. *)
LEMMA ControlInvNext ==
  ASSUME TypeOK, TypeOK', ControlInv, [Next]_vars
  PROVE  ControlInv'
<1>1. QueueInv' /\ ControlNext BY NextIsStep
<1>2. ControlType /\ ControlType'
  <2>1. ControlType BY ControlTypeCorrect
  <2>2. ControlType' BY ControlTypeCorrect, PTL
  <2> QED BY <2>1, <2>2
<1>3. DirInv' BY DirInvNext DEF ControlInv
<1>4. ControlHyp BY <1>2, <1>3 DEF ControlHyp
<1> QED
  BY <1>1, <1>3, <1>4, RequestInvNext, OwnerInvNext, PromiseInvNext, ArrivingInvNext,
     MemoryInvNext, BlockInvNext, OwnerDataInvNext, SharersInvNext, ReaderInvNext,
     CopyInvNext, InvalidationInvNext, AcksInvNext
  DEF ControlInv

(* The invariant of the protocol holds for any number of caches. *)
THEOREM ControlCorrect == Spec => []ControlInv
<1>1. TypeOK /\ TypeOK' /\ ControlInv /\ [Next]_vars => ControlInv' BY ControlInvNext
<1>2. TypeOK /\ [Next]_vars => TypeOK' BY TypeNext
<1> QED BY <1>1, <1>2, TypeInit, ControlInvInit, PTL DEF Spec
---------------------------------------------------------------------------
(* A cache has a copy that it may let the processor use, or will send on. *)
Current(c) == Holds(c) \/ cstate[c] \in {"S", "SM_AD"}

(* A cache in M has the only copy: nothing else in the system is read again. *)
Alone ==
    \A c \in Caches : cstate[c] = "M" =>
       /\ dstate \in {"M", "S_D"} /\ MemOp = "none"
       /\ \A d \in Caches : Current(d) => d = c
       /\ \A d, s \in Nodes : Arriving[d][s] # "Data"

(* Whoever is in M holds the block; a copy or data elsewhere would be a      *)
(* second holder, a sharer, or one the directory has yet to invalidate.      *)
LEMMA SoleCopy == ControlType /\ ControlInv => Alone
<1> SUFFICES ASSUME ControlType, ControlInv, NEW c \in Caches, cstate[c] = "M"
             PROVE  /\ dstate \in {"M", "S_D"} /\ MemOp = "none"
                    /\ \A d \in Caches : Current(d) => d = c
                    /\ \A d, s \in Nodes : Arriving[d][s] # "Data"
  BY DEF Alone
<1>1. HasBlock(c) BY DEF HasBlock, Holds
<1>2. /\ dstate \in {"M", "S_D"} /\ \A s \in Nodes : Arriving[Dir][s] = "none"
      /\ \A d \in Caches : HasBlock(d) => d = c
  BY <1>1 DEF ControlInv, BlockInv
<1>3. MemOp = "none" BY <1>2 DEF ControlInv, MemoryInv, ControlType
<1>4. \A d \in Caches : ~Collecting(d)
  <2>1. ~Collecting(c) BY CollectingWaits
  <2> QED BY <1>2, <2>1, CollectingHas
<1>5. ~Sharing BY <1>2 DEF Sharing
<1>6. ASSUME NEW d \in Caches PROVE ~HasCopy(d) \/ cstate[d] = "SI_A"
  <2>1. ~Has(d, {"Inv"}) BY <1>4 DEF ControlInv, InvalidationInv, Has
  <2> QED BY <1>4, <1>5, <2>1 DEF ControlInv, CopyInv
<1>7. ASSUME NEW d \in Caches, Current(d) PROVE d = c
  <2>1. cstate[d] \notin {"S", "SM_AD"} BY <1>6 DEF HasCopy
  <2>2. HasBlock(d) BY <1>7, <2>1 DEF Current, HasBlock
  <2> QED BY <1>2, <2>2
<1>8. ASSUME NEW d \in Nodes, NEW s \in Nodes, Arriving[d][s] = "Data" PROVE FALSE
  <2>1. d \in Caches BY <1>2, <1>8 DEF Nodes
  <2>2. DataFor(d) BY <1>8 DEF DataFor
  <2>3. cstate[d] \in {"IS_D", "IM_AD", "SM_AD"} BY <2>1, <2>2 DEF ControlInv, ArrivingInv
  <2>4. cstate[d] # "IS_D" BY <1>6, <2>1, <2>2 DEF HasCopy
  <2>5. HasBlock(d) BY <2>2, <2>3, <2>4 DEF HasBlock
  <2>6. d = c BY <1>2, <2>1, <2>5
  <2> QED BY <2>3, <2>6
<1> QED BY <1>2, <1>3, <1>7, <1>8

(* The writer of the block is alone with it. *)
LEMMA SingleWriterHolds == ASSUME ControlType, ControlInv PROVE SingleWriter
<1> SUFFICES ASSUME NEW c \in Caches, NEW n \in Nodes, Permission(c) = "Read_Write", n # c
             PROVE  Permission(n) \notin {"Read_Only", "Read_Write"}
  BY DEF SingleWriter
<1>1. cstate[c] = "M" BY CachesAssumption DEF Permission, CachePermission
<1>2. dstate \in {"M", "S_D"} /\ \A d \in Caches : Current(d) => d = c
  BY <1>1, SoleCopy DEF Alone
<1>3. CASE n = Dir BY <1>2, <1>3 DEF Permission, DirPermission
<1>4. CASE n # Dir
  <2>1. n \in Caches BY <1>4 DEF Nodes
  <2>2. cstate[n] \notin {"M", "S", "SM_AD", "SM_A"} BY <1>2, <2>1 DEF Current, Holds
  <2> QED BY <1>4, <2>2 DEF Permission, CachePermission
<1> QED BY <1>3, <1>4

(* The acks still to come, in the queues and as the invariant sees them. *)
LEMMA AcksToComeIs ==
  ASSUME TypeOK, ControlInv, NEW c \in Caches
  PROVE  AcksToCome(c) = AcksOut(c)
<1>1. ASSUME NEW d \in Caches
      PROVE  (\E i \in DOMAIN response[c][d] : response[c][d][i].type = "InvAck")
                <=> Arriving[c][d] = "InvAck"
  <2> DEFINE q == response[c][d]
  <2>1. q \in Seq(ResponseMsg) /\ Len(q) <= 1
    BY DEF TypeOK, ResponseType, ControlInv, QueueInv, ResponseQueues, Nodes
  <2>2. Arriving[c][d] = IF q = <<>> THEN "none" ELSE q[1].type BY DEF Arriving, Nodes
  <2> HIDE DEF q
  <2>3. (\E i \in DOMAIN q : q[i].type = "InvAck") <=> q # <<>> /\ q[1].type = "InvAck"
    BY <2>1
  <2>4. (\E i \in DOMAIN q : q[i].type = "InvAck") <=> Arriving[c][d] = "InvAck"
    BY <2>2, <2>3
  <2> QED BY <2>4 DEF q
<1>2. ASSUME NEW d \in Caches
      PROVE  (\E i \in DOMAIN forward[d] : forward[d][i] = [type |-> "Inv", req |-> c])
                <=> [type |-> "Inv", req |-> c] \in Pending[d]
  BY DEF Pending
<1> QED BY <1>1, <1>2 DEF AcksToCome, AcksOut, InvTo, AckTo

(* A writer's count of acks is right. *)
LEMMA AcksAddUpHolds == ASSUME TypeOK, ControlInv PROVE AcksAddUp
<1> SUFFICES ASSUME NEW c \in Caches
             PROVE  /\ dstate = "M_m" /\ c \in owner =>
                          Cardinality(sharers) + acks[c] = AcksToCome(c)
                    /\ \A i \in DOMAIN response[c][Dir] :
                          response[c][Dir][i].acks + acks[c] = AcksToCome(c)
                    /\ cstate[c] \in {"IM_A", "SM_A"} =>
                          acks[c] = AcksToCome(c) /\ acks[c] > 0
  BY DEF AcksAddUp
<1>1. AcksToCome(c) = AcksOut(c) BY AcksToComeIs
<1>2. AcksInv /\ ArrivingInv BY DEF ControlInv
<1>3. ASSUME NEW i \in DOMAIN response[c][Dir]
      PROVE  response[c][Dir][i].acks + acks[c] = AcksToCome(c)
  <2>1. response[c][Dir] \in Seq(ResponseMsg) /\ Len(response[c][Dir]) <= 1
    BY DEF TypeOK, ResponseType, ControlInv, QueueInv, ResponseQueues, Nodes
  <2>2. i = 1 /\ response[c][Dir] # <<>> BY <1>3, <2>1
  <2>3. Arriving[c][Dir] # "none" BY <2>2, NotArriving DEF TypeOK, Nodes
  <2>4. Arriving[c][Dir] = "Data"
    BY <1>2, <2>3, ControlTypeCorrect, CachesAssumption DEF ArrivingInv, ControlType, Nodes
  <2>5. DirAcks[c] + acks[c] = AcksOut(c) BY <1>2, <2>4 DEF AcksInv
  <2> QED BY <1>1, <2>2, <2>5 DEF DirAcks
<1> QED BY <1>1, <1>2, <1>3 DEF AcksInv

(* Whoever has a copy is known to the directory or about to be told. *)
LEMMA CopiesAreTrackedHolds == ASSUME ControlType, ControlInv PROVE CopiesAreTracked
<1> SUFFICES ASSUME NEW c \in Caches
             PROVE  /\ cstate[c] \in {"M", "MI_A"} =>
                          c \in owner \/ Forwarded(c, {"GetS", "GetM", "PutAck"})
                    /\ cstate[c] \in {"S", "SI_A"} =>
                          c \in sharers \/ Forwarded(c, {"Inv", "PutAck"})
                    /\ cstate[c] \in {"SM_AD", "SM_A"} =>
                          c \in sharers \cup owner \/ Forwarded(c, {"Inv", "GetS", "GetM"})
  BY DEF CopiesAreTracked
<1>1. ASSUME NEW types, NEW t \in types, Has(c, {t}) PROVE Forwarded(c, types)
  BY <1>1 DEF Has, Pending, Forwarded
<1>2. ASSUME Has(c, Gets) PROVE Has(c, {"GetS"}) \/ Has(c, {"GetM"})
  BY <1>2 DEF Has, Gets
<1>3. Writer(c) => c \in owner \/ Has(c, {"GetS"}) \/ Has(c, {"GetM"})
  BY <1>2 DEF ControlInv, OwnerInv
<1>4. ASSUME cstate[c] \in {"M", "MI_A"}
      PROVE  c \in owner \/ Forwarded(c, {"GetS", "GetM", "PutAck"})
  <2>1. Writer(c) \/ Has(c, {"PutAck"})
    BY <1>4 DEF Writer, Holds, ControlInv, RequestInv
  <2> QED BY <2>1, <1>1, <1>3
<1>5. ASSUME cstate[c] \in {"S", "SI_A"}
      PROVE  c \in sharers \/ Forwarded(c, {"Inv", "PutAck"})
  <2>1. c \in sharers \/ Has(c, {"Inv"}) \/ Has(c, {"PutAck"})
    BY <1>5 DEF ControlInv, CopyInv, HasCopy
  <2> QED BY <2>1, <1>1
<1>6. ASSUME cstate[c] \in {"SM_AD", "SM_A"}
      PROVE  c \in sharers \cup owner \/ Forwarded(c, {"Inv", "GetS", "GetM"})
  <2>1. c \in sharers \/ c \in owner \/ Has(c, {"Inv"}) \/ Writer(c)
    <3>1. CASE cstate[c] = "SM_A" BY <3>1 DEF Writer, Holds
    <3>2. CASE cstate[c] = "SM_AD"
      <4>1. c \in sharers \/ Has(c, {"Inv"}) \/ Collecting(c)
        BY <3>2 DEF ControlInv, CopyInv, HasCopy
      <4>2. Collecting(c) => c \in owner \/ Writer(c)
        BY <3>2 DEF Collecting, Writer, Granted, ControlInv, ArrivingInv, DataFor, Nodes
      <4> QED BY <4>1, <4>2
    <3> QED BY <1>6, <3>1, <3>2
  <2> QED BY <2>1, <1>1, <1>3
<1> QED BY <1>4, <1>5, <1>6
---------------------------------------------------------------------------
(* No forwarded message finds its cache in a state without a transition for it. *)
LEMMA NoForwardFault ==
  ASSUME TypeOK, ControlInv, NEW c \in Caches, forward[c] # <<>>
  PROVE  ForwardFault(c) = "none"
<1> DEFINE m == Head(forward[c])
<1>1. m \in ForwardMsg /\ m \in Pending[c]
  <2>1. forward[c] \in Seq(ForwardMsg) BY DEF TypeOK, ForwardType
  <2>2. m = forward[c][1] /\ forward[c][1] \in ForwardMsg /\ 1 \in DOMAIN forward[c]
    BY <2>1, TailFacts, FirstFacts
  <2> QED BY <2>2 DEF Pending
<1> HIDE DEF m
<1>2. m.type \in {"GetS", "GetM", "Inv", "PutAck"} BY <1>1 DEF ForwardMsg
<1>3. CASE m.type \in {"GetS", "GetM"}
  <2>1. Has(c, Gets) BY <1>1, <1>3 DEF Has, Gets
  <2>2. Writer(c) BY <2>1 DEF ControlInv, OwnerInv
  <2>3. cstate[c] \in {"IM_AD", "IM_A", "SM_AD", "SM_A", "M", "MI_A"}
    BY <2>2 DEF Writer, Holds, Granted
  <2>4. ForwardEvent(c) \in {"FwdGetS", "FwdGetM"} BY <1>3 DEF ForwardEvent, m
  <2> QED BY <2>3, <2>4 DEF ForwardFault, CacheTransitions
<1>4. CASE m.type = "Inv"
  <2>1. HasCopy(c) BY <1>1, <1>4 DEF ControlInv, InvalidationInv
  <2>2. cstate[c] \in {"IS_D", "S", "SM_AD", "SI_A"} BY <2>1 DEF HasCopy
  <2>3. ForwardEvent(c) = "Inv" BY <1>4 DEF ForwardEvent, m
  <2> QED BY <2>2, <2>3 DEF ForwardFault, CacheTransitions
<1>5. CASE m.type = "PutAck"
  <2>1. Has(c, {"PutAck"}) BY <1>1, <1>5 DEF Has
  <2>2. cstate[c] \in {"MI_A", "SI_A", "II_A"} BY <2>1 DEF ControlInv, RequestInv
  <2>3. ForwardEvent(c) = "PutAck" BY <1>5 DEF ForwardEvent, m
  <2> QED BY <2>2, <2>3 DEF ForwardFault, CacheTransitions
<1> QED BY <1>2, <1>3, <1>4, <1>5

(* Nor does a response find its cache in one. *)
LEMMA NoResponseFault ==
  ASSUME TypeOK, ControlInv, NEW c \in Caches, NEW s \in Nodes, response[c][s] # <<>>
  PROVE  ResponseFault(s, c) = "none"
<1> DEFINE m == Head(response[c][s])
<1>1. ControlType BY ControlTypeCorrect
<1>2. /\ m = response[c][s][1] /\ m \in ResponseMsg
      /\ m.type = Arriving[c][s] /\ m.type \in {"Data", "InvAck"}
      /\ s = Dir => m.acks = DirAcks[c]
  <2>1. response[c][s] \in Seq(ResponseMsg) BY DEF TypeOK, ResponseType, Nodes
  <2>2. m = response[c][s][1] /\ m \in ResponseMsg BY <2>1, TailFacts, FirstFacts
  <2>3. m.type = Arriving[c][s] BY <2>2 DEF Arriving, Nodes
  <2>4. s = Dir => m.acks = DirAcks[c] BY <2>2 DEF DirAcks
  <2> QED BY <2>2, <2>3, <2>4 DEF ResponseMsg
<1> HIDE DEF m
<1>3. acks[c] \in Int /\ DirAcks[c] \in Nat BY <1>1 DEF ControlType
<1>4. /\ ArrivingInv /\ AcksInv /\ RequestInv /\ OwnerInv BY DEF ControlInv
<1>5. CASE m.type = "Data"
  <2>1. Asked[c] = "none" /\ cstate[c] \in {"IS_D", "IM_AD", "SM_AD"}
    <3>1. DataFor(c) BY <1>2, <1>5 DEF DataFor
    <3> QED BY <1>4, <3>1 DEF ArrivingInv
  <2>2. c \in tbes BY <1>4, <2>1 DEF RequestInv
  <2>3. CASE s = Dir
    <3>1. m.acks + acks[c] = AcksOut(c) /\ AcksOut(c) \in Nat
      BY <1>2, <1>4, <1>5, <2>3, FewAcks DEF AcksInv
    <3>2. cstate[c] = "IS_D" => m.acks + acks[c] = 0
      <4>1. SUFFICES ASSUME cstate[c] = "IS_D" PROVE AcksOut(c) = 0 BY <3>1
      <4>2. ~Collecting(c) BY <4>1, CollectingWaits
      <4> QED BY <4>2, NoAcks
    <3>3. ResponseEvent(s, c) =
             IF m.acks + acks[c] = 0 THEN "DataDirNoAcks" ELSE "DataDirAcks"
      BY <2>3 DEF ResponseEvent, m
    <3>4. <<cstate[c], ResponseEvent(s, c)>> \in CacheTransitions
      BY <2>1, <3>2, <3>3 DEF CacheTransitions
    <3>5. m.acks + acks[c] >= 0 BY <3>1
    <3> QED BY <1>5, <2>2, <3>4, <3>5 DEF ResponseFault, m
  <2>4. CASE s # Dir
    <3>1. ResponseEvent(s, c) = "DataOwner" BY <1>5, <2>4 DEF ResponseEvent, m
    <3>2. <<cstate[c], ResponseEvent(s, c)>> \in CacheTransitions
      BY <2>1, <3>1 DEF CacheTransitions
    <3> QED BY <2>2, <2>4, <3>2 DEF ResponseFault
  <2> QED BY <2>3, <2>4
<1>6. CASE m.type = "InvAck"
  <2>1. s \in Caches /\ Collecting(c)
    <3>1. Arriving[c][s] = "InvAck" BY <1>2, <1>6
    <3>2. \A x \in Nodes : Arriving[c][x] = "InvAck" => x \in Caches /\ Collecting(c)
      BY <1>4, Zenon DEF ArrivingInv
    <3> QED BY <3>1, <3>2
  <2>2. s # Dir BY <2>1, CachesAssumption
  <2>3. cstate[c] \in {"IM_AD", "SM_AD", "IM_A", "SM_A"} BY <2>1, CollectingWaits
  <2>4. c \in tbes BY <1>4, <2>3 DEF RequestInv
  <2>5. cstate[c] \notin {"IM_A", "SM_A"} => acks[c] # 1 BY <1>3, <1>4 DEF AcksInv
  <2>6. ResponseEvent(s, c) = IF acks[c] = 1 THEN "LastInvAck" ELSE "InvAck"
    BY <1>6, <2>2 DEF ResponseEvent, m
  <2>7. <<cstate[c], ResponseEvent(s, c)>> \in CacheTransitions
    BY <2>3, <2>5, <2>6 DEF CacheTransitions
  <2> QED BY <2>2, <2>4, <2>7 DEF ResponseFault
<1> QED BY <1>2, <1>5, <1>6

(* A request that the directory has no transition for is one of the two PutS. *)
LEMMA RequestFaults ==
  ASSUME TypeOK, ControlInv, NEW c \in Caches, request[c] # <<>>
  PROVE  RequestFault(c) \in {"none", "stale PutS", "PutSLast in SS_m"}
<1> DEFINE t == Head(request[c]).type
<1>1. ControlType BY ControlTypeCorrect
<1>2. t = Asked[c] /\ t \in {"GetS", "GetM", "PutS", "PutM"}
  <2>1. request[c] \in Seq(RequestMsg) BY DEF TypeOK, RequestType
  <2>2. Head(request[c]) = request[c][1] /\ request[c][1] \in RequestMsg
    BY <2>1, TailFacts, FirstFacts
  <2> QED BY <2>2 DEF Asked, RequestMsg
<1>3. dstate \in DirStates /\ sharers \subseteq Caches BY <1>1 DEF ControlType, DirType
<1>4. RequestEvent(c) = CASE t = "PutS" /\ Cardinality(sharers) = 1 -> "PutSLast"
                          [] t = "PutS" /\ Cardinality(sharers) # 1 -> "PutSNotLast"
                          [] t = "PutM" /\ c \in owner              -> "PutMOwner"
                          [] t = "PutM" /\ c \notin owner           -> "PutMNonOwner"
                          [] OTHER                                  -> t
  BY DEF RequestEvent
<1>5. StalePutS(c) <=> t = "PutS" /\ Cardinality(sharers) = 1 /\ c \notin sharers
  BY DEF StalePutS
<1> HIDE DEF t
<1>6. SUFFICES ASSUME ~StalePutS(c), ~(dstate = "SS_m" /\ RequestEvent(c) = "PutSLast")
               PROVE  <<dstate, RequestEvent(c)>> \in DirTransitions
  BY DEF RequestFault
<1>7. CASE t \in Gets
  <2>1. RequestEvent(c) = t BY <1>4, <1>7 DEF Gets
  <2> QED BY <1>3, <1>7, <2>1 DEF DirTransitions, Gets
<1>8. CASE t = "PutS"
  <2>1. CASE Cardinality(sharers) # 1
    <3>1. RequestEvent(c) = "PutSNotLast" BY <1>4, <1>8, <2>1
    <3> QED BY <1>3, <3>1 DEF DirTransitions
  <2>2. CASE Cardinality(sharers) = 1
    <3>1. RequestEvent(c) = "PutSLast" BY <1>4, <1>8, <2>2
    <3>2. c \in sharers BY <1>5, <1>6, <1>8, <2>2
    <3>3. sharers = {c}
      <4>1. IsFiniteSet(sharers) BY <1>3, CachesAssumption, FS_Subset
      <4>2. PICK x : sharers = {x} BY <4>1, <2>2, FS_Singleton
      <4> QED BY <3>2, <4>2
    <3>4. dstate # "S_m"
      <4>1. SUFFICES ASSUME dstate = "S_m" PROVE FALSE OBVIOUS
      <4>2. MemFor \in sharers /\ Asked[MemFor] = "none" BY <4>1 DEF ControlInv, MemoryInv
      <4> QED BY <1>2, <1>8, <3>3, <4>2
    <3> QED BY <1>3, <1>6, <3>1, <3>4 DEF DirTransitions, DirStates
  <2> QED BY <2>1, <2>2
<1>9. CASE t = "PutM"
  <2>1. CASE c \notin owner
    <3>1. RequestEvent(c) = "PutMNonOwner" BY <1>4, <1>9, <2>1
    <3> QED BY <1>3, <3>1 DEF DirTransitions
  <2>2. CASE c \in owner
    <3>1. RequestEvent(c) = "PutMOwner" BY <1>4, <1>9, <2>2
    <3>2. Holds(c) BY <1>2, <1>9, <2>2 DEF ControlInv, OwnerInv, Writer, Granted, RequestInv
    <3>3. dstate \in {"M", "S_D"} BY <3>2 DEF ControlInv, BlockInv, HasBlock
    <3>4. dstate = "M" BY <2>2, <3>3 DEF ControlInv, DirInv
    <3> QED BY <3>1, <3>4 DEF DirTransitions
  <2> QED BY <2>1, <2>2
<1> QED BY <1>2, <1>7, <1>8, <1>9 DEF Gets

(* The directory always expects the data of an owner, and the answer of memory. *)
LEMMA NoDirFault ==
  ASSUME TypeOK, ControlInv
  PROVE  /\ \A s \in Nodes : response[Dir][s] # <<>> => OwnerDataFault(s) = "none"
         /\ fromMem # <<>> => MemoryFault = "none"
<1>1. ASSUME NEW s \in Nodes, response[Dir][s] # <<>> PROVE OwnerDataFault(s) = "none"
  <2>1. response[Dir][s] \in Seq(ResponseMsg) BY DEF TypeOK, ResponseType, Nodes
  <2>2. Head(response[Dir][s]) = response[Dir][s][1] BY <1>1, <2>1, TailFacts
  <2>3. Head(response[Dir][s]).type = Arriving[Dir][s] /\ Arriving[Dir][s] # "none"
    BY <1>1, <2>2, NotArriving DEF Arriving, TypeOK, Nodes
  <2>4. Arriving[Dir][s] = "Data" /\ dstate = "S_D" BY <2>3 DEF ControlInv, ArrivingInv
  <2> QED BY <2>3, <2>4 DEF OwnerDataFault, DirTransitions
<1>2. ASSUME fromMem # <<>> PROVE MemoryFault = "none"
  <2>1. toMem \in Seq(MemoryMsg) /\ fromMem \in Seq(MemoryMsg) BY DEF TypeOK, MemType
  <2>2. Len(fromMem) >= 1 /\ Len(toMem) \in Nat /\ Len(fromMem) \in Nat
    BY <1>2, <2>1, FirstFacts
  <2>3. toMem = <<>>
    <3>1. Len(toMem) = 0 BY <2>2 DEF ControlInv, QueueInv, MemoryQueues
    <3> QED BY <2>1, <3>1
  <2>4. Head(fromMem) = fromMem[1] /\ fromMem[1] \in MemoryMsg BY <1>2, <2>1, TailFacts, FirstFacts
  <2>5. Head(fromMem).type = MemOp /\ MemOp \in {"MEMORY_READ", "MEMORY_WB"}
    BY <1>2, <2>3, <2>4 DEF MemOp, MemMsg, MemoryMsg
  <2>6. /\ MemOp = "MEMORY_READ" => dstate \in {"S_m", "M_m"}
        /\ MemOp = "MEMORY_WB" => dstate \in {"MI_m", "SS_m"}
    BY DEF ControlInv, MemoryInv
  <2> QED BY <2>5, <2>6 DEF MemoryFault, DirTransitions
<1> QED BY <1>1, <1>2

(* So no other fault is among those a controller meets. *)
LEMMA FewFaults ==
  ASSUME TypeOK, ControlInv
  PROVE  Faults \subseteq {"none", "stale PutS", "PutSLast in SS_m"}
<1>1. ASSUME NEW s \in Nodes, NEW c \in Caches, response[c][s] # <<>>
      PROVE  ResponseFault(s, c) = "none"
  BY <1>1, NoResponseFault
<1>2. ASSUME NEW p \in Nodes \X Caches, response[p[2]][p[1]] # <<>>
      PROVE  ResponseFault(p[1], p[2]) = "none"
  BY <1>1, <1>2
<1>3. ASSUME NEW c \in Caches, forward[c] # <<>> PROVE ForwardFault(c) = "none"
  BY <1>3, NoForwardFault
<1>4. ASSUME NEW c \in Caches, request[c] # <<>>
      PROVE  RequestFault(c) \in {"none", "stale PutS", "PutSLast in SS_m"}
  BY <1>4, RequestFaults
<1> QED BY <1>2, <1>3, <1>4, NoDirFault DEF Faults
(* Only a fault changes panic. *)
LEMMA OnlyPutSAbortsNext ==
  ASSUME TypeOK, ControlInv, OnlyPutSAborts, [Next]_vars
  PROVE  OnlyPutSAborts'
<1>1. CASE UNCHANGED panic BY <1>1 DEF OnlyPutSAborts
<1>2. CASE Abort
  BY <1>2, FewFaults DEF Abort, OnlyPutSAborts
<1>3. ASSUME NEW c \in Caches,
             Cpu(c) \/ Mandatory(c) \/ Replacement(c) \/ ForwardIn(c) \/ RequestIn(c) \/ OwnerData(c)
      PROVE  UNCHANGED panic
  <2>1. Cpu(c) \/ Mandatory(c) \/ Replacement(c) => UNCHANGED panic
    BY DEF Cpu, Issue, Mandatory, LoadMiss, StoreMiss, Upgrade, Miss, LoadHit, StoreHit,
       Replacement, ReplaceShared, ReplaceModified
  <2>2. ForwardIn(c) \/ OwnerData(c) => UNCHANGED panic
    BY DEF ForwardIn, OwnerFwdGetS, OwnerFwdGetM, Invalidate, PutAcked, OwnerData
  <2>3. RequestIn(c) => UNCHANGED panic
    BY DEF RequestIn, GetSFromMemory, GetSFromOwner, GetMUncached, GetMShared,
       GetMFromOwner, PutIgnored, SharerLeaves, OwnerLeaves
  <2> QED BY <1>3, <2>1, <2>2, <2>3
<1>4. ASSUME NEW c \in Caches, NEW s \in Nodes, ResponseIn(s, c) PROVE UNCHANGED panic
  BY <1>4 DEF ResponseIn, LoadFilled, StoreFilled, DataAwaitingAcks, CountInvAck, LastAck
<1>5. CASE MemQueueIn \/ MemoryAccess \/ UNCHANGED vars
  <2>1. UNCHANGED panic BY <1>5 DEF MemQueueIn, MemData, MemAck, MemoryAccess, vars
  <2> QED BY <2>1, <1>1
<1> QED BY <1>1, <1>2, <1>3, <1>4, <1>5 DEF Next

---------------------------------------------------------------------------
(* A cache that may write is alone with the block: no other cache, and not  *)
(* the directory's memory, may then be read or written functionally.        *)
THEOREM WriterIsAlone == Spec => []SingleWriter
<1>1. TypeOK /\ ControlInv => SingleWriter BY ControlTypeCorrect, SingleWriterHolds
<1> QED BY <1>1, TypeCorrect, ControlCorrect, PTL

(* The acks a writer waits for are the acks that will come, however they    *)
(* overtake the data that says how many there are.                          *)
THEOREM AcksAreExact == Spec => []AcksAddUp
<1>1. TypeOK /\ ControlInv => AcksAddUp BY AcksAddUpHolds
<1> QED BY <1>1, TypeCorrect, ControlCorrect, PTL

(* The directory knows of every copy, or the message that takes it away is  *)
(* on its way.                                                              *)
THEOREM CopiesAreKnown == Spec => []CopiesAreTracked
<1>1. TypeOK /\ ControlInv => CopiesAreTracked BY ControlTypeCorrect, CopiesAreTrackedHolds
<1> QED BY <1>1, TypeCorrect, ControlCorrect, PTL

(* Whatever the order of the messages, no controller meets an event it has  *)
(* no transition for and no assertion of an in_port fails, but for the two  *)
(* of the directory's PutS handling.                                        *)
THEOREM AbortsArePutS == Spec => []OnlyPutSAborts
<1>1. Init => OnlyPutSAborts BY DEF Init, OnlyPutSAborts
<1>2. TypeOK /\ ControlInv /\ OnlyPutSAborts /\ [Next]_vars => OnlyPutSAborts'
  BY OnlyPutSAbortsNext
<1> QED BY <1>1, <1>2, TypeCorrect, ControlCorrect, PTL DEF Spec
---------------------------------------------------------------------------
(* Data.  The copies that may be read or sent on are as the last store left the block. *)
CopyData == \A c \in Caches : Current(c) => cdata[c] = latest

ResponseData ==
    \A d, s \in Nodes : Arriving[d][s] = "Data" => response[d][s][1].data = latest

(* A PutM of the owner carries the block as it is. *)
PutData ==
    \A c \in Caches : cstate[c] = "MI_A" /\ Asked[c] = "PutM" => request[c][1].data = latest

(* Memory is current unless a cache may write, or will be before it is read. *)
MemoryData ==
    /\ dstate \in {"I", "S", "S_m", "M_m"} => mem = latest
    /\ MemOp = "MEMORY_WB" =>
          IF toMem # <<>> THEN toMem[1].data = latest ELSE mem = latest
    /\ MemOp = "MEMORY_READ" /\ toMem = <<>> => fromMem[1].data = latest

DataInv == CopyData /\ ResponseData /\ PutData /\ MemoryData

DataHyp == /\ TypeOK /\ ControlType /\ ControlInv /\ DataInv
           /\ ControlType' /\ ControlInv'

(* So a store leaves one copy, the one it wrote. *)
LEMMA WriteKeepsData ==
  ASSUME ControlType', ControlInv', NEW c \in Caches, cstate'[c] = "M", cdata'[c] = latest'
  PROVE  DataInv'
<1>1. Alone' BY SoleCopy, PTL
<1>2. /\ dstate' \in {"M", "S_D"} /\ MemOp' = "none"
      /\ \A d \in Caches : Current(d)' => d = c
      /\ \A d, s \in Nodes : Arriving'[d][s] # "Data"
  BY <1>1 DEF Alone
<1>3. CopyData' /\ ResponseData' BY <1>2 DEF CopyData, ResponseData
<1>4. MemoryData' BY <1>2 DEF MemoryData
<1>5. PutData'
  <2>1. SUFFICES ASSUME NEW d \in Caches, cstate'[d] = "MI_A", Asked'[d] = "PutM" PROVE FALSE
    BY DEF PutData
  <2>2. Current(d)' BY <2>1 DEF Current, Holds
  <2> QED BY <1>2, <2>1, <2>2
<1> QED BY <1>3, <1>4, <1>5 DEF DataInv

(* What the other steps leave alone stays current. *)
LEMMA DataFrames ==
  ASSUME UNCHANGED latest
  PROVE  /\ ResponseData /\ UNCHANGED response => ResponseData'
         /\ MemoryData /\ UNCHANGED <<dstate, mem, toMem, fromMem>> => MemoryData'
<1>1. UNCHANGED response => UNCHANGED Arriving BY DEF Arriving
<1>2. UNCHANGED <<toMem, fromMem>> => UNCHANGED MemOp BY DEF MemOp, MemMsg
<1> QED BY <1>1, <1>2 DEF ResponseData, MemoryData

(* A cache that keeps its state and gets no new message is as current. *)
LEMMA SameCurrent ==
  ASSUME NEW d \in Caches, cstate'[d] = cstate[d],
         Asked'[d] # "none" => Asked[d] # "none",
         Has(d, Gets)' => Has(d, Gets)
  PROVE  Current(d)' => Current(d)
BY DEF Current, Holds

(* A message sent into a queue that then holds one is that one. *)
LEMMA OnlyMessage ==
  ASSUME NEW S, NEW q \in Seq(S), NEW m \in S, Len(Append(q, m)) <= 1
  PROVE  Append(q, m)[1] = m /\ Append(q, m) # <<>>
<1>1. Len(Append(q, m)) = Len(q) + 1 /\ Append(q, m)[Len(q) + 1] = m /\ Len(q) \in Nat
  BY AppendFacts
<1>2. Len(q) + 1 = 1 BY <1>1
<1>3. Append(q, m)[1] = m BY <1>1, <1>2, Zenon
<1>4. Append(q, m) # <<>> OBVIOUS
<1> QED BY <1>3, <1>4

(* A message is sent on the response network: data must be current. *)
LEMMA RespondData ==
  ASSUME ResponseType, ResponseQueues', ResponseData, UNCHANGED latest,
         NEW dests \in SUBSET Nodes, NEW s \in Nodes, NEW t \in {"Data", "InvAck"},
         NEW blk \in Block, NEW n \in Nat, Respond(s, dests, t, blk, n),
         t = "Data" => blk = latest
  PROVE  ResponseData'
<1> DEFINE msg == [type |-> t, data |-> blk, acks |-> n]
<1>1. SUFFICES ASSUME NEW d \in Nodes, NEW x \in Nodes, Arriving'[d][x] = "Data"
               PROVE  response'[d][x][1].data = latest
  BY DEF ResponseData
<1>2. response[d][x] \in Seq(ResponseMsg) /\ msg \in ResponseMsg
  BY DEF ResponseType, ResponseMsg
<1>3. response'[d][x] = IF d \in dests /\ x = s THEN Append(response[d][x], msg) ELSE response[d][x]
  BY DEF Respond, ResponseType
<1>4. msg.type = t /\ msg.data = blk OBVIOUS
<1> HIDE DEF msg
<1>5. CASE d \in dests /\ x = s
  <2>1. Len(Append(response[d][x], msg)) <= 1 BY <1>3, <1>5 DEF ResponseQueues
  <2>3. response'[d][x][1] = msg /\ response'[d][x] # <<>>
    BY <1>2, <1>3, <1>5, <2>1, OnlyMessage
  <2>4. t = "Data" BY <1>1, <1>4, <2>3 DEF Arriving
  <2> QED BY <1>4, <2>3, <2>4
<1>6. CASE ~(d \in dests /\ x = s)
  <2>1. Arriving[d][x] = "Data" BY <1>1, <1>3, <1>6 DEF Arriving
  <2> QED BY <1>3, <1>6, <2>1 DEF ResponseData
<1> QED BY <1>5, <1>6

(* One is taken: what it carried was current. *)
LEMMA PopData ==
  ASSUME ResponseType, ResponseQueues, ResponseData, NEW s \in Nodes, NEW d \in Nodes,
         response[d][s] # <<>>, PopResponse(s, d)
  PROVE  /\ UNCHANGED latest => ResponseData'
         /\ Head(response[d][s]).type = "Data" => Head(response[d][s]).data = latest
<1>1. /\ response' = [response EXCEPT ![d][s] = <<>>]
      /\ Arriving' = [Arriving EXCEPT ![d][s] = "none"]
      /\ Head(response[d][s]) = response[d][s][1]
      /\ Head(response[d][s]).type = Arriving[d][s]
  BY PopResponseFacts
<1>2. ASSUME UNCHANGED latest, NEW e \in Nodes, NEW x \in Nodes, Arriving'[e][x] = "Data"
      PROVE  response'[e][x][1].data = latest
  <2>1. Arriving[e][x] = "Data" /\ (e # d \/ x # s) BY <1>1, <1>2 DEF Arriving
  <2>2. response'[e][x] = response[e][x] BY <1>1, <2>1 DEF ResponseType
  <2> QED BY <2>1, <2>2 DEF ResponseData
<1> QED BY <1>1, <1>2 DEF ResponseData
(* A miss, an upgrade or a replacement: a PutM carries the copy. *)
LEMMA DataSend ==
  ASSUME DataHyp, NEW c \in Caches,
         LoadMiss(c) \/ StoreMiss(c) \/ Upgrade(c) \/ Replacement(c)
  PROVE  DataInv'
<1>0. /\ TypeOK /\ ControlType /\ ControlInv /\ ControlInv' /\ CopyData /\ ResponseData
      /\ PutData /\ MemoryData
  BY DEF DataHyp, DataInv
<1>1. PICK t, from, to : SendStep(c, t, from, to) BY <1>0, SendIsStep
<1>2. UNCHANGED <<cdata, latest, response, mem, toMem, fromMem, dstate>>
  BY DEF LoadMiss, StoreMiss, Upgrade, Miss, Replacement, ReplaceShared, ReplaceModified,
         cpuVars, dirVars, memVars
<1>3. ASSUME NEW d \in Caches, d # c
      PROVE  cstate'[d] = cstate[d] /\ Asked'[d] = Asked[d] /\ request'[d] = request[d]
  <2>1. cstate'[d] = cstate[d] /\ Asked'[d] = Asked[d]
    BY <1>0, <1>1, <1>3 DEF SendStep, ControlType
  <2>2. request'[d] = request[d]
    BY <1>0, <1>3 DEF LoadMiss, StoreMiss, Upgrade, Miss, Replacement, ReplaceShared,
       ReplaceModified, SendRequest, TypeOK, RequestType
  <2> QED BY <2>1, <2>2
<1>4. Pending' = Pending BY <1>1 DEF SendStep
<1>5. cstate[c] = from /\ cstate'[c] = to /\ IsSend(t, from, to) /\ Asked'[c] = t
  BY <1>0, <1>1 DEF SendStep, ControlType
<1>6. ASSUME NEW d \in Caches, Current(d)' PROVE Current(d)
  <2>1. CASE d # c BY <1>3, <1>4, <1>6, <2>1, SameCurrent DEF Has
  <2>2. CASE d = c
    <3>1. to \in {"SM_AD", "MI_A"} BY <1>5, <1>6, <2>2 DEF Current, Holds, IsSend
    <3>2. from \in {"S", "M"} BY <1>5, <3>1 DEF IsSend
    <3> QED BY <1>5, <2>2, <3>2 DEF Current, Holds
  <2> QED BY <2>1, <2>2
<1>7. CopyData' BY <1>0, <1>2, <1>6 DEF CopyData
<1>8. ASSUME NEW d \in Caches, cstate'[d] = "MI_A", Asked'[d] = "PutM"
      PROVE  request'[d][1].data = latest'
  <2>1. CASE d # c BY <1>0, <1>2, <1>3, <1>8, <2>1 DEF PutData
  <2>2. CASE d = c
    <3>1. from = "M" BY <1>5, <1>8, <2>2 DEF IsSend
    <3>2. cdata[c] = latest BY <1>0, <1>5, <3>1 DEF CopyData, Current, Holds
    <3>3. SendRequest(c, "PutM", cdata[c])
      BY <1>5, <3>1 DEF LoadMiss, StoreMiss, Upgrade, Replacement, ReplaceShared,
         ReplaceModified, On, CacheData
    <3> DEFINE msg == [type |-> "PutM", data |-> cdata[c]]
    <3>4. msg \in RequestMsg /\ msg.data = cdata[c] BY <1>0 DEF TypeOK, CacheType, RequestMsg
    <3>5. request'[c] = Append(request[c], msg) /\ request[c] \in Seq(RequestMsg)
      BY <1>0, <3>3 DEF SendRequest, TypeOK, RequestType
    <3> HIDE DEF msg
    <3>6. Len(Append(request[c], msg)) <= 1
      BY <1>0, <3>5 DEF ControlInv, QueueInv, RequestQueues
    <3>7. request'[c][1] = msg BY <3>4, <3>5, <3>6, OnlyMessage
    <3> QED BY <1>2, <2>2, <3>2, <3>4, <3>7
  <2> QED BY <2>1, <2>2
<1>9. PutData' BY <1>8 DEF PutData
<1>10. ResponseData' /\ MemoryData' BY <1>0, <1>2, DataFrames
<1> QED BY <1>7, <1>9, <1>10 DEF DataInv

(* An owner sends its copy on, or a copy is given up. *)
LEMMA DataForward ==
  ASSUME DataHyp, NEW c \in Caches, ForwardIn(c)
  PROVE  DataInv'
<1>0. /\ TypeOK /\ ControlType /\ ControlInv /\ ControlInv' /\ CopyData /\ ResponseData
      /\ PutData /\ MemoryData
  BY DEF DataHyp, DataInv
<1> DEFINE m == Head(forward[c])
<1>1. /\ UNCHANGED <<latest, request, mem, toMem, fromMem, dstate>>
      /\ PopForward(c) /\ forward[c] # <<>>
  BY DEF ForwardIn, OwnerFwdGetS, OwnerFwdGetM, Invalidate, PutAcked, CanForward,
         cpuVars, dirVars, memVars
<1>2. m \in Pending[c] /\ Pending' = [Pending EXCEPT ![c] = @ \ {m}]
  BY <1>0, <1>1, PopForwardFacts DEF TypeOK, ControlInv, QueueInv
<1>3. Asked' = Asked BY <1>1 DEF Asked
<1>4. m.req \in Nodes /\ m.type \in {"GetS", "GetM", "Inv", "PutAck"}
  BY <1>0, <1>2 DEF ControlType, ForwardMsg
<1>5. ForwardEvent(c) = CASE m.type = "GetS" -> "FwdGetS" [] m.type = "GetM" -> "FwdGetM"
                          [] OTHER -> m.type
  BY DEF ForwardEvent
<1> HIDE DEF m
<1>6. ASSUME NEW d \in Caches, d # c PROVE cstate'[d] = cstate[d] /\ cdata'[d] = cdata[d]
  BY <1>0, <1>6 DEF ForwardIn, OwnerFwdGetS, OwnerFwdGetM, Invalidate, PutAcked, Deallocate, To,
     ControlType, TypeOK, CacheType
<1>7. ASSUME NEW dests \in SUBSET Nodes, NEW t \in {"Data", "InvAck"},
             Respond(c, dests, t, cdata[c], 0), t = "Data" => Current(c)
      PROVE  ResponseData'
  <2>1. PICK n \in Nat : n = 0 OBVIOUS
  <2>2. PICK blk \in Block : blk = cdata[c] BY <1>0 DEF TypeOK, CacheType
  <2>3. t = "Data" => blk = latest BY <1>0, <1>7, <2>2 DEF CopyData
  <2>4. Respond(c, dests, t, blk, n) BY <1>7, <2>1, <2>2
  <2>5. ResponseType /\ ResponseQueues' /\ c \in Nodes
    BY <1>0 DEF TypeOK, ControlInv, QueueInv, Nodes
  <2> QED BY <1>0, <1>1, <2>3, <2>4, <2>5, RespondData
<1>8. m.type \in Gets /\ cstate[c] \in {"M", "MI_A"} => Current(c)
  BY <1>2 DEF Current, Holds, Has
<1>9. /\ cdata'[c] = cdata[c] \/ cstate'[c] = "I"
      /\ cstate'[c] \in {"I", "S", "SI_A", "II_A", "IM_AD"}
      /\ cstate'[c] = "S" => cstate[c] = "M"
      /\ ResponseData'
  <2>1. CASE OwnerFwdGetS(c)
    <3>1. m.type = "GetS" BY <1>4, <1>5, <2>1 DEF OwnerFwdGetS
    <3>2. Respond(c, {m.req, Dir}, "Data", cdata[c], 0) BY <2>1 DEF OwnerFwdGetS, CacheData, m
    <3>3. Current(c) BY <1>8, <2>1, <3>1 DEF OwnerFwdGetS, On, Gets
    <3>4. {m.req, Dir} \in SUBSET Nodes BY <1>4 DEF Nodes
    <3>5. ResponseData' BY <1>7, <3>2, <3>3, <3>4
    <3>6. cdata' = cdata /\ cstate'[c] = IF cstate[c] = "M" THEN "S" ELSE "SI_A"
      BY <1>0, <2>1 DEF OwnerFwdGetS, To, ControlType
    <3> QED BY <3>5, <3>6
  <2>2. CASE OwnerFwdGetM(c)
    <3>1. m.type = "GetM" BY <1>4, <1>5, <2>2 DEF OwnerFwdGetM
    <3>2. Respond(c, {m.req}, "Data", cdata[c], 0) BY <2>2 DEF OwnerFwdGetM, CacheData, m
    <3>3. Current(c) BY <1>8, <2>2, <3>1 DEF OwnerFwdGetM, On, Gets
    <3>4. {m.req} \in SUBSET Nodes BY <1>4
    <3>5. ResponseData' BY <1>7, <3>2, <3>3, <3>4
    <3>6. cstate'[c] = "I" \/ (cstate'[c] = "II_A" /\ cdata' = cdata)
      BY <1>0, <2>2 DEF OwnerFwdGetM, Deallocate, To, ControlType
    <3> QED BY <3>5, <3>6
  <2>3. CASE Invalidate(c)
    <3>1. Respond(c, {m.req}, "InvAck", cdata[c], 0) BY <2>3 DEF Invalidate, m
    <3>2. {m.req} \in SUBSET Nodes BY <1>4
    <3>3. ResponseData' BY <1>7, <3>1, <3>2
    <3>4. cstate'[c] = "I" \/ (cstate'[c] \in {"II_A", "IM_AD"} /\ cdata' = cdata)
      BY <1>0, <2>3 DEF Invalidate, Deallocate, To, ControlType
    <3> QED BY <3>3, <3>4
  <2>4. CASE PutAcked(c)
    <3>1. ResponseData' BY <1>0, <1>1, <2>4, DataFrames DEF PutAcked
    <3>2. cstate'[c] = "I" BY <1>0, <2>4 DEF PutAcked, Deallocate, To, ControlType
    <3> QED BY <3>1, <3>2
  <2> QED BY <2>1, <2>2, <2>3, <2>4 DEF ForwardIn
<1>10. ASSUME NEW d \in Caches, Current(d)' PROVE Current(d) /\ cdata'[d] = cdata[d]
  <2>1. CASE d # c
    <3>1. Pending'[d] = Pending[d] BY <1>0, <1>2, <2>1 DEF ControlType
    <3>2. Has(d, Gets)' => Has(d, Gets) BY <3>1 DEF Has
    <3> QED BY <1>3, <1>6, <1>10, <2>1, <3>2, SameCurrent
  <2>2. CASE d = c
    <3>1. cstate'[c] = "S" BY <1>9, <1>10, <2>2 DEF Current, Holds
    <3> QED BY <1>9, <2>2, <3>1 DEF Current, Holds
  <2> QED BY <2>1, <2>2
<1>11. CopyData' BY <1>0, <1>1, <1>10 DEF CopyData
<1>12. PutData'
  <2>1. \A d \in Caches : cstate'[d] = "MI_A" => cstate[d] = "MI_A" BY <1>6, <1>9
  <2> QED BY <1>0, <1>1, <1>3, <2>1 DEF PutData
<1>13. MemoryData' BY <1>0, <1>1, DataFrames
<1> QED BY <1>9, <1>11, <1>12, <1>13 DEF DataInv
(* Data arrives at a cache that loads, or that waits for acks; or an ack does. *)
LEMMA DataResponse ==
  ASSUME DataHyp, NEW s \in Nodes, NEW c \in Caches,
         LoadFilled(s, c) \/ DataAwaitingAcks(s, c) \/ CountInvAck(s, c)
  PROVE  DataInv'
<1>0. /\ TypeOK /\ ControlType /\ ControlInv /\ ControlInv' /\ CopyData /\ ResponseData
      /\ PutData /\ MemoryData
  BY DEF DataHyp, DataInv
<1>1. /\ UNCHANGED <<latest, request, forward, mem, toMem, fromMem, dstate>>
      /\ PopResponse(s, c) /\ response[c][s] # <<>> /\ ResponseFault(s, c) = "none"
  BY DEF LoadFilled, DataAwaitingAcks, CountInvAck, ReadCallback, CanRespond, cpuVars,
         dirVars, memVars
<1>2. UNCHANGED <<Asked, Pending>> BY <1>1 DEF Asked, Pending
<1>3. /\ ResponseData'
      /\ Head(response[c][s]).type = "Data" => Head(response[c][s]).data = latest
  BY <1>0, <1>1, PopData DEF TypeOK, ControlInv, QueueInv, Nodes
<1>4. \/ cstate' = cstate /\ cdata' = cdata
      \/ /\ \E st \in {"S", "IM_A", "SM_A"} : cstate' = [cstate EXCEPT ![c] = st]
         /\ cdata' = [cdata EXCEPT ![c] = Head(response[c][s]).data]
         /\ Head(response[c][s]).type = "Data"
  <2>1. ResponseEvent(s, c) \in {"DataDirNoAcks", "DataDirAcks", "DataOwner"} =>
           Head(response[c][s]).type = "Data"
    BY <1>1 DEF ResponseEvent, ResponseFault
  <2> QED BY <2>1 DEF LoadFilled, DataAwaitingAcks, CountInvAck, WithAllData, Filled, To
<1>5. ASSUME NEW d \in Caches, Current(d)' PROVE cdata'[d] = latest'
  <2>1. CASE cstate'[d] = cstate[d] /\ cdata'[d] = cdata[d]
    <3>1. Current(d) BY <1>2, <1>5, <2>1, SameCurrent DEF Has
    <3> QED BY <1>0, <1>1, <2>1, <3>1 DEF CopyData
  <2>2. CASE ~(cstate'[d] = cstate[d] /\ cdata'[d] = cdata[d])
    <3>1. cdata'[d] = Head(response[c][s]).data /\ Head(response[c][s]).type = "Data"
      BY <1>0, <1>4, <2>2 DEF TypeOK, CacheType
    <3> QED BY <1>1, <1>3, <3>1
  <2> QED BY <2>1, <2>2
<1>6. CopyData' BY <1>5 DEF CopyData
<1>7. PutData'
  <2>1. \A d \in Caches : cstate'[d] = "MI_A" => cstate[d] = "MI_A" BY <1>0, <1>4 DEF ControlType
  <2> QED BY <1>0, <1>1, <1>2, <2>1 DEF PutData
<1>8. MemoryData' BY <1>0, <1>1, DataFrames
<1> QED BY <1>3, <1>6, <1>7, <1>8 DEF DataInv

(* A store: it overwrites words of the current block. *)
LEMMA DataStore ==
  ASSUME DataHyp, NEW c \in Caches,
         StoreHit(c) \/ \E s \in Nodes : StoreFilled(s, c) \/ LastAck(s, c)
  PROVE  DataInv'
<1>0. TypeOK /\ ControlType /\ ControlInv /\ CopyData /\ ResponseData /\ ControlType' /\ ControlInv'
  BY DEF DataHyp, DataInv
<1>1. PICK blk : WriteCallback(c, blk) /\ blk = latest /\ cstate'[c] = "M"
  <2>1. CASE StoreHit(c)
    <3>1. WriteCallback(c, cdata[c]) /\ cstate[c] = "M" /\ cstate' = cstate
      BY <2>1 DEF StoreHit, On
    <3>2. cdata[c] = latest BY <1>0, <3>1 DEF CopyData, Current, Holds
    <3> QED BY <3>1, <3>2
  <2>2. ASSUME NEW s \in Nodes, StoreFilled(s, c)
        PROVE  \E blk : WriteCallback(c, blk) /\ blk = latest /\ cstate'[c] = "M"
    <3>1. /\ WriteCallback(c, Head(response[c][s]).data) /\ cstate'[c] = "M"
          /\ PopResponse(s, c) /\ response[c][s] # <<>> /\ ResponseFault(s, c) = "none"
          /\ ResponseEvent(s, c) \in {"DataDirNoAcks", "DataOwner"}
      BY <1>0, <2>2 DEF StoreFilled, To, Filled, CanRespond, WithAllData, ControlType
    <3>2. Head(response[c][s]).type = "Data" BY <3>1 DEF ResponseEvent, ResponseFault
    <3>3. Head(response[c][s]).data = latest
      BY <1>0, <3>1, <3>2, PopData DEF TypeOK, ControlInv, QueueInv, Nodes
    <3> QED BY <3>1, <3>3
  <2>3. ASSUME NEW s \in Nodes, LastAck(s, c)
        PROVE  \E blk : WriteCallback(c, blk) /\ blk = latest /\ cstate'[c] = "M"
    <3>1. /\ WriteCallback(c, cdata[c]) /\ cstate'[c] = "M"
          /\ ResponseEvent(s, c) = "LastInvAck" /\ ResponseFault(s, c) = "none"
      BY <1>0, <2>3 DEF LastAck, To, CanRespond, ControlType
    <3>2. cstate[c] \in {"IM_A", "SM_A"} BY <3>1 DEF ResponseFault, CacheTransitions
    <3>3. cdata[c] = latest BY <1>0, <3>2 DEF CopyData, Current, Holds
    <3> QED BY <3>1, <3>3
  <2> QED BY <2>1, <2>2, <2>3
<1>2. cdata'[c] = latest' BY <1>0, <1>1 DEF WriteCallback, TypeOK, CacheType
<1> QED BY <1>0, <1>1, <1>2, WriteKeepsData
(* The directory takes a request: it reads memory when that is current, and *)
(* writes back the block of its owner.                                      *)
LEMMA DataRequest ==
  ASSUME DataHyp, NEW c \in Caches, RequestIn(c)
  PROVE  DataInv'
<1>0. /\ TypeOK /\ ControlType /\ ControlInv /\ ControlInv' /\ CopyData /\ ResponseData
      /\ PutData /\ MemoryData
  BY DEF DataHyp, DataInv
<1>1. /\ UNCHANGED <<latest, cstate, cdata, response, mem>>
      /\ CanRequest(c) /\ PopRequest(c)
  BY DEF RequestIn, GetSFromMemory, GetSFromOwner, GetMUncached, GetMShared, GetMFromOwner,
     PutIgnored, SharerLeaves, OwnerLeaves, cpuVars, cacheVars, memVars
<1>2. /\ Asked' = [Asked EXCEPT ![c] = "none"] /\ Head(request[c]).type = Asked[c]
  BY <1>0, <1>1, PopRequestFacts DEF CanRequest, TypeOK, ControlInv, QueueInv
<1>3. \/ ReadStep(c) \/ ReadOwnedStep(c) \/ WriteStep(c) \/ WriteOwnedStep(c)
      \/ PutStep(c) \/ OwnerLeavesStep(c)
  BY <1>0, RequestIsStep
<1>4. ASSUME NEW d \in Caches, Current(d)' PROVE Current(d)
  <2>1. Asked'[d] # "none" => Asked[d] # "none" BY <1>0, <1>2 DEF ControlType
  <2>2. Has(d, Gets)' => Has(d, Gets) \/ d \in owner
    <3>1. ASSUME NEW dests, NEW t, NEW r, Sends(dests, t, r), t \in Gets => dests = owner,
                 Has(d, Gets)'
          PROVE  Has(d, Gets) \/ d \in owner
      <4>1. Has(d, Gets) \/ (d \in dests /\ t \in Gets) BY <3>1, SendsHas
      <4> QED BY <3>1, <4>1
    <3>2. UNCHANGED Pending => (Has(d, Gets)' => Has(d, Gets)) BY DEF Has
    <3>3. CASE ReadStep(c) BY <3>2, <3>3 DEF ReadStep
    <3>4. CASE ReadOwnedStep(c) BY <3>1, <3>4 DEF ReadOwnedStep
    <3>5. CASE WriteStep(c) BY <3>1, <3>5 DEF WriteStep, Gets
    <3>6. CASE WriteOwnedStep(c) BY <3>1, <3>6 DEF WriteOwnedStep
    <3>7. CASE PutStep(c) BY <3>1, <3>7 DEF PutStep, Gets
    <3>8. CASE OwnerLeavesStep(c) BY <3>1, <3>8 DEF OwnerLeavesStep, Gets
    <3> QED BY <1>3, <3>3, <3>4, <3>5, <3>6, <3>7, <3>8
  <2>3. CASE Has(d, Gets)' => Has(d, Gets) BY <1>1, <1>4, <2>1, <2>3, SameCurrent
  <2>4. CASE d \in owner
    <3>1. Writer(d) BY <1>0, <2>4 DEF ControlInv, OwnerInv
    <3>2. cstate[d] \notin {"IM_AD"} BY <1>1, <1>4 DEF Current, Holds
    <3> QED BY <3>1, <3>2 DEF Writer, Granted, Current
  <2> QED BY <2>2, <2>3, <2>4
<1>5. CopyData' BY <1>0, <1>1, <1>4 DEF CopyData
<1>6. PutData'
  <2>1. ASSUME NEW d \in Caches, Asked'[d] = "PutM"
        PROVE  Asked[d] = "PutM" /\ request'[d] = request[d]
    <3>1. d # c BY <1>0, <1>2, <2>1 DEF ControlType
    <3> QED BY <1>0, <1>1, <1>2, <2>1, <3>1 DEF PopRequest, TypeOK, RequestType, ControlType
  <2> QED BY <1>0, <1>1, <2>1 DEF PutData
<1>7. ResponseData' BY <1>0, <1>1, DataFrames
<1>8. dstate \in {"I", "S", "M"} => MemOp = "none" BY <1>0 DEF ControlInv, MemoryInv, ControlType
<1>9. ASSUME NEW t \in {"MEMORY_READ", "MEMORY_WB"}, NEW blk \in Block,
             dstate \in {"I", "S", "M"}, QueueMemory(t, c, blk), UNCHANGED fromMem
      PROVE  MemOp' = t /\ toMem' = <<[type |-> t, req |-> c, data |-> blk]>> /\ toMem' # <<>>
  <2>1. MemOp' = t /\ toMem' = <<[type |-> t, req |-> c, data |-> blk]>>
    BY <1>0, <1>8, <1>9, QueueMemoryFacts DEF TypeOK, ControlInv, QueueInv, Nodes
  <2> QED BY <2>1
<1>10. MemoryData'
  <2>1. ASSUME UNCHANGED <<toMem, fromMem>>, dstate' \in {"I", "S", "S_m", "M_m"} => mem = latest
        PROVE  MemoryData'
    <3>1. UNCHANGED MemOp BY <2>1 DEF MemOp, MemMsg
    <3> QED BY <1>0, <1>1, <2>1, <3>1 DEF MemoryData
  <2>2. CASE GetSFromMemory(c) \/ GetMUncached(c) \/ GetMShared(c)
    <3>1. /\ dstate \in {"I", "S"} /\ QueueMemory("MEMORY_READ", c, Blank) /\ UNCHANGED fromMem
      BY <2>2 DEF GetSFromMemory, GetMUncached, GetMShared
    <3>2. MemOp' = "MEMORY_READ" /\ toMem' # <<>> BY <1>9, <3>1, BlankType
    <3>3. mem' = latest' BY <1>0, <1>1, <3>1 DEF MemoryData
    <3> QED BY <3>2, <3>3 DEF MemoryData
  <2>3. CASE GetSFromOwner(c) \/ GetMFromOwner(c)
    BY <2>1, <2>3 DEF GetSFromOwner, GetMFromOwner, memVars
  <2>4. CASE PutIgnored(c) \/ SharerLeaves(c)
    BY <1>0, <2>1, <2>4 DEF PutIgnored, SharerLeaves, memVars, dirVars, MemoryData
  <2>5. CASE OwnerLeaves(c)
    <3>1. /\ dstate = "M" /\ dstate' = "MI_m" /\ c \in owner /\ Asked[c] = "PutM"
      <4>1. RequestEvent(c) = "PutMOwner" /\ RequestFault(c) = "none" /\ dstate' = "MI_m"
        BY <2>5 DEF OwnerLeaves, CanRequest
      <4>2. dstate = "M" BY <4>1 DEF RequestFault, DirTransitions
      <4>3. c \in owner /\ Asked[c] = "PutM" BY <1>0, <1>2, <4>1 DEF RequestEvent, ControlType
      <4> QED BY <4>1, <4>2, <4>3
    <3>2. cstate[c] = "MI_A"
      BY <1>0, <3>1 DEF ControlInv, OwnerInv, RequestInv, Writer, Granted, Holds
    <3>3. request[c] # <<>> /\ request[c] \in Seq(RequestMsg)
      BY <1>0, <1>1 DEF CanRequest, TypeOK, RequestType
    <3>4. Head(request[c]) = request[c][1] /\ request[c][1] \in RequestMsg
      BY <3>3, TailFacts, FirstFacts
    <3>5. request[c][1].data = latest BY <1>0, <3>1, <3>2 DEF PutData
    <3>6. PICK blk \in Block : blk = Head(request[c]).data BY <3>4 DEF RequestMsg
    <3>7. QueueMemory("MEMORY_WB", c, blk) /\ UNCHANGED fromMem BY <2>5, <3>6 DEF OwnerLeaves
    <3>8. /\ MemOp' = "MEMORY_WB" /\ toMem' # <<>>
          /\ toMem' = <<[type |-> "MEMORY_WB", req |-> c, data |-> blk]>>
      BY <1>9, <3>1, <3>7
    <3>9. toMem'[1].data = latest' BY <1>1, <3>4, <3>5, <3>6, <3>8
    <3> QED BY <3>1, <3>8, <3>9 DEF MemoryData
  <2> QED BY <2>2, <2>3, <2>4, <2>5 DEF RequestIn
<1> QED BY <1>5, <1>6, <1>7, <1>10 DEF DataInv

(* The directory writes back the data an owner sent it. *)
LEMMA DataOwnerData ==
  ASSUME DataHyp, NEW s \in Caches, OwnerData(s)
  PROVE  DataInv'
<1>0. /\ TypeOK /\ ControlType /\ ControlInv /\ ControlInv' /\ CopyData /\ ResponseData
      /\ PutData /\ MemoryData
  BY DEF DataHyp, DataInv
<1>1. /\ UNCHANGED <<latest, cstate, cdata, request, forward, mem, fromMem>>
      /\ PopResponse(s, Dir) /\ response[Dir][s] # <<>> /\ dstate' = "SS_m"
      /\ QueueMemory("MEMORY_WB", s, Head(response[Dir][s]).data)
  BY DEF OwnerData, cpuVars, cacheVars
<1>2. UNCHANGED <<Asked, Pending>> BY <1>1 DEF Asked, Pending
<1>3. \A d \in Caches : Current(d)' => Current(d) BY <1>1, <1>2, SameCurrent DEF Has
<1>4. CopyData' BY <1>0, <1>1, <1>3 DEF CopyData
<1>5. PutData' BY <1>0, <1>1, <1>2 DEF PutData
<1>6. s \in Nodes /\ Dir \in Nodes BY DEF Nodes
<1>7. /\ ResponseData'
      /\ Head(response[Dir][s]).type = "Data" => Head(response[Dir][s]).data = latest
  BY <1>0, <1>1, <1>6, PopData DEF TypeOK, ControlInv, QueueInv
<1>8. /\ Head(response[Dir][s]).type = "Data" /\ dstate = "S_D"
      /\ Head(response[Dir][s]) \in ResponseMsg
  <2>1. /\ Head(response[Dir][s]).type = Arriving[Dir][s] /\ Arriving[Dir][s] # "none"
        /\ Head(response[Dir][s]) \in ResponseMsg
    BY <1>0, <1>1, <1>6, PopResponseFacts DEF TypeOK, ControlInv, QueueInv
  <2> QED BY <1>0, <1>6, <2>1 DEF ControlInv, ArrivingInv
<1>9. MemOp = "none" BY <1>0, <1>8 DEF ControlInv, MemoryInv, ControlType
<1>10. PICK blk \in Block : blk = Head(response[Dir][s]).data BY <1>8 DEF ResponseMsg
<1>11. /\ MemOp' = "MEMORY_WB" /\ toMem' = <<[type |-> "MEMORY_WB", req |-> s, data |-> blk]>>
  <2>1. QueueMemory("MEMORY_WB", s, blk) BY <1>1, <1>10
  <2> QED BY <1>0, <1>1, <1>6, <1>9, <2>1, QueueMemoryFacts DEF TypeOK, ControlInv, QueueInv
<1>12. toMem'[1].data = latest' /\ toMem' # <<>> BY <1>1, <1>7, <1>8, <1>10, <1>11
<1>13. MemoryData' BY <1>1, <1>11, <1>12 DEF MemoryData
<1> QED BY <1>4, <1>5, <1>7, <1>13 DEF DataInv

(* Memory stores what is written back, and answers a read with the current block. *)
LEMMA DataMemoryAccess == ASSUME DataHyp, MemoryAccess PROVE DataInv'
<1>0. /\ TypeOK /\ ControlType /\ ControlInv /\ ControlInv' /\ CopyData /\ ResponseData
      /\ PutData /\ MemoryData
  BY DEF DataHyp, DataInv
<1>1. /\ UNCHANGED <<latest, cstate, cdata, request, forward, response, dstate>>
      /\ mem' = IF Head(toMem).type = "MEMORY_WB" THEN Head(toMem).data ELSE mem
  BY DEF MemoryAccess, cpuVars, cacheVars, dirVars
<1>2. UNCHANGED <<Asked, Pending>> BY <1>1 DEF Asked, Pending
<1>3. \A d \in Caches : Current(d)' => Current(d) BY <1>1, <1>2, SameCurrent DEF Has
<1>4. CopyData' BY <1>0, <1>1, <1>3 DEF CopyData
<1>5. PutData' /\ ResponseData' BY <1>0, <1>1, <1>2, DataFrames DEF PutData
<1>6. /\ MemOp' = MemOp /\ toMem # <<>> /\ toMem' = <<>> /\ Head(toMem) = toMem[1]
      /\ toMem[1] \in MemoryMsg /\ MemOp = toMem[1].type
      /\ fromMem' = <<[toMem[1] EXCEPT !.data = mem']>>
  BY <1>0, MemoryAccessFacts DEF TypeOK, ControlInv, QueueInv
<1>7. fromMem'[1].data = mem' BY <1>6 DEF MemoryMsg
<1>8. ASSUME MemOp = "MEMORY_WB" PROVE MemoryData'
  <2>1. mem' = latest' BY <1>0, <1>1, <1>6, <1>8 DEF MemoryData
  <2> QED BY <1>6, <1>8, <2>1 DEF MemoryData
<1>9. ASSUME MemOp = "MEMORY_READ" PROVE MemoryData'
  <2>1. mem' = mem /\ dstate \in {"S_m", "M_m"}
    BY <1>0, <1>1, <1>6, <1>9 DEF ControlInv, MemoryInv
  <2>2. mem' = latest' BY <1>0, <1>1, <2>1 DEF MemoryData
  <2> QED BY <1>6, <1>7, <1>9, <2>2 DEF MemoryData
<1>10. MemOp \in {"MEMORY_READ", "MEMORY_WB"} BY <1>6 DEF MemoryMsg
<1>11. MemoryData' BY <1>8, <1>9, <1>10
<1> QED BY <1>4, <1>5, <1>11 DEF DataInv
(* The directory passes on what memory read, or learns that it has written. *)
LEMMA DataMemQueue == ASSUME DataHyp, MemQueueIn PROVE DataInv'
<1>0. /\ TypeOK /\ ControlType /\ ControlInv /\ ControlInv' /\ CopyData /\ ResponseData
      /\ PutData /\ MemoryData
  BY DEF DataHyp, DataInv
<1>1. /\ UNCHANGED <<latest, cstate, cdata, request, forward, mem, toMem>>
      /\ fromMem # <<>> /\ fromMem' = Tail(fromMem) /\ MemoryFault = "none"
  BY DEF MemQueueIn, MemData, MemAck, cpuVars, cacheVars
<1>2. UNCHANGED <<Asked, Pending>> BY <1>1 DEF Asked, Pending
<1>3. \A d \in Caches : Current(d)' => Current(d) BY <1>1, <1>2, SameCurrent DEF Has
<1>4. CopyData' BY <1>0, <1>1, <1>3 DEF CopyData
<1>5. PutData' BY <1>0, <1>1, <1>2 DEF PutData
<1>6. /\ MemOp' = "none" /\ Head(fromMem) = fromMem[1] /\ fromMem[1] \in MemoryMsg
      /\ Head(fromMem).type = MemOp /\ Head(fromMem).req = MemFor /\ toMem = <<>>
  BY <1>0, <1>1, PopMemoryFacts DEF TypeOK, ControlInv, QueueInv
<1>7. CASE MemData
  <2>1. MemOp = "MEMORY_READ" BY <1>6, <1>7 DEF MemData
  <2>2. dstate \in {"S_m", "M_m"} BY <1>0, <2>1 DEF ControlInv, MemoryInv
  <2>3. mem' = latest' BY <1>0, <1>1, <2>2 DEF MemoryData
  <2>4. MemoryData' BY <1>6, <2>3 DEF MemoryData
  <2>5. fromMem[1].data = latest BY <1>0, <1>6, <2>1 DEF MemoryData
  <2>6. PICK blk \in Block : blk = fromMem[1].data BY <1>6 DEF MemoryMsg
  <2>7. PICK n \in Nat : n = AcksFor(Head(fromMem).req)
    BY <1>0, AcksForType DEF TypeOK
  <2>8. PICK dests \in SUBSET Nodes : dests = {Head(fromMem).req}
    BY <1>0, <1>6 DEF ControlType
  <2>9. Respond(Dir, dests, "Data", blk, n) BY <1>6, <1>7, <2>6, <2>7, <2>8 DEF MemData
  <2>10. ResponseData'
    BY <1>0, <1>1, <2>5, <2>6, <2>9, RespondData DEF TypeOK, ControlInv, QueueInv, Nodes
  <2> QED BY <1>4, <1>5, <2>4, <2>10 DEF DataInv
<1>8. CASE MemAck
  <2>1. MemOp = "MEMORY_WB" BY <1>6, <1>8 DEF MemAck
  <2>2. mem' = latest' BY <1>0, <1>1, <1>6, <2>1 DEF MemoryData
  <2>3. MemoryData' BY <1>6, <2>2 DEF MemoryData
  <2>4. ResponseData' BY <1>0, <1>1, <1>8, DataFrames DEF MemAck
  <2> QED BY <1>4, <1>5, <2>3, <2>4 DEF DataInv
<1> QED BY <1>7, <1>8 DEF MemQueueIn

(* Steps that move no block. *)
LEMMA DataSame ==
  ASSUME DataHyp, UNCHANGED <<latest, cacheVars, dirVars, memVars, request, forward, response>>
  PROVE  DataInv'
<1>1. UNCHANGED <<cstate, cdata, dstate, mem, toMem, fromMem, request, forward, response, latest>>
  BY DEF cacheVars, dirVars, memVars
<1>2. UNCHANGED <<Asked, Pending>> BY <1>1 DEF Asked, Pending
<1>3. \A d \in Caches : Current(d)' => Current(d) BY <1>1, <1>2, SameCurrent DEF Has
<1>4. CopyData' BY <1>1, <1>3 DEF CopyData, DataHyp, DataInv
<1>5. PutData' BY <1>1, <1>2 DEF PutData, DataHyp, DataInv
<1>6. ResponseData' /\ MemoryData' BY <1>1, DataFrames DEF DataHyp, DataInv
<1> QED BY <1>4, <1>5, <1>6 DEF DataInv

(* Every step of the protocol keeps the data that will be read current. *)
LEMMA DataInvNext ==
  ASSUME TypeOK, TypeOK', ControlInv, ControlInv', DataInv, [Next]_vars
  PROVE  DataInv'
<1>1. DataHyp
  <2>1. ControlType BY ControlTypeCorrect
  <2>2. ControlType' BY ControlTypeCorrect, PTL
  <2> QED BY <2>1, <2>2 DEF DataHyp
<1>2. CASE UNCHANGED vars BY <1>1, <1>2, DataSame DEF vars, cpuVars
<1>3. ASSUME NEW c \in Caches, Cpu(c) PROVE DataInv'
  BY <1>1, <1>3, DataSame DEF Cpu, Issue
<1>4. ASSUME NEW c \in Caches, Mandatory(c) PROVE DataInv'
  <2>1. CASE LoadHit(c) BY <1>1, <2>1, DataSame DEF LoadHit, ReadCallback
  <2>2. CASE StoreHit(c) BY <1>1, <2>2, DataStore
  <2>3. CASE LoadMiss(c) \/ StoreMiss(c) \/ Upgrade(c) BY <1>1, <2>3, DataSend
  <2> QED BY <1>4, <2>1, <2>2, <2>3 DEF Mandatory
<1>5. ASSUME NEW c \in Caches, Replacement(c) PROVE DataInv' BY <1>1, <1>5, DataSend
<1>6. ASSUME NEW c \in Caches, ForwardIn(c) PROVE DataInv' BY <1>1, <1>6, DataForward
<1>7. ASSUME NEW c \in Caches, NEW s \in Nodes, ResponseIn(s, c) PROVE DataInv'
  BY <1>1, <1>7, DataResponse, DataStore DEF ResponseIn
<1>8. ASSUME NEW c \in Caches, RequestIn(c) PROVE DataInv' BY <1>1, <1>8, DataRequest
<1>9. ASSUME NEW c \in Caches, OwnerData(c) PROVE DataInv' BY <1>1, <1>9, DataOwnerData
<1>10. CASE MemQueueIn BY <1>1, <1>10, DataMemQueue
<1>11. CASE MemoryAccess BY <1>1, <1>11, DataMemoryAccess
<1>12. CASE Abort BY <1>1, <1>12, DataSame DEF Abort, cpuVars
<1> QED
  BY <1>2, <1>3, <1>4, <1>5, <1>6, <1>7, <1>8, <1>9, <1>10, <1>11, <1>12 DEF Next

(* At first memory holds the only block. *)
LEMMA DataInvInit == Init => DataInv
<1> SUFFICES ASSUME Init PROVE DataInv OBVIOUS
<1>1. /\ \A c \in Caches : cstate[c] = "I"
      /\ \A d, s \in Nodes : response[d][s] = <<>>
      /\ toMem = <<>> /\ fromMem = <<>> /\ mem = latest
  BY DEF Init
<1>2. /\ \A c \in Caches : ~Current(c)
      /\ \A d, s \in Nodes : Arriving[d][s] = "none"
      /\ MemOp = "none"
  BY <1>1 DEF Current, Holds, Arriving, MemOp, MemMsg, NoMemMsg
<1> QED BY <1>1, <1>2 DEF DataInv, CopyData, ResponseData, PutData, MemoryData

(* The invariant of the data. *)
LEMMA DataCorrect == Spec => []DataInv
<1>1. TypeOK /\ TypeOK' /\ ControlInv /\ ControlInv' /\ DataInv /\ [Next]_vars => DataInv'
  BY DataInvNext
<1> QED BY <1>1, DataInvInit, TypeCorrect, ControlCorrect, PTL DEF Spec

(* What a load may read is current, and what a functional read finds but   *)
(* for a cache that upgrades, ...                                          *)
LEMMA ReadableIsCurrentHolds ==
  ASSUME ControlType, ControlInv, DataInv, Dir \notin tbes PROVE ReadableIsCurrent
<1> SUFFICES ASSUME NEW n \in Nodes, Readable(n)
             PROVE  /\ n \in Caches => cdata[n] = latest
                    /\ CopyAt(n) = latest \/ (n \in Caches /\ Upgrading(n))
  BY DEF ReadableIsCurrent
<1>1. CASE n = Dir
  <2>1. dstate \in {"I", "S", "S_m", "M_m"}
    BY <1>1 DEF Readable, Permission, DirPermission
  <2>2. mem = latest BY <2>1 DEF DataInv, MemoryData
  <2> QED BY <1>1, <2>2, CachesAssumption DEF CopyAt
<1>2. CASE n # Dir
  <2>1. n \in Caches BY <1>2 DEF Nodes
  <2>2. cstate[n] \in {"M", "S", "SM_AD", "SM_A"}
    BY <1>2 DEF Readable, Permission, CachePermission
  <2>3. Current(n) BY <2>2 DEF Current, Holds
  <2>4. cdata[n] = latest BY <2>1, <2>3 DEF DataInv, CopyData
  <2>5. ~ Upgrading(n) => n \notin tbes BY <2>1, <2>2 DEF RequestInv, ControlInv, Upgrading
  <2> QED BY <1>2, <2>1, <2>4, <2>5 DEF CopyAt
<1> QED BY <1>1, <1>2

(* ... and so is the data on its way. *)
LEMMA DataIsUpToDateHolds == ASSUME TypeOK, ControlInv, DataInv PROVE DataIsUpToDate
<1> SUFFICES ASSUME NEW d \in Nodes, NEW s \in Nodes, NEW i \in DOMAIN response[d][s],
                    response[d][s][i].type = "Data"
             PROVE  response[d][s][i].data = latest
  BY DEF DataIsUpToDate
<1>1. response[d][s] \in Seq(ResponseMsg) /\ Len(response[d][s]) <= 1
  BY DEF TypeOK, ResponseType, ControlInv, QueueInv, ResponseQueues
<1>2. i = 1 /\ response[d][s] # <<>> BY <1>1
<1>3. Arriving[d][s] = "Data" BY <1>2 DEF Arriving
<1> QED BY <1>2, <1>3 DEF DataInv, ResponseData
---------------------------------------------------------------------------
(* The caches together are one atomic block.  A cache that waits for a      *)
(* block has the one request it waits for, and no other comes before it.    *)
CpuInv ==
    \A c \in Caches :
       /\ cstate[c] = "IS_D" => cpu[c].op = "Load" /\ c \notin mandatory
       /\ cstate[c] \in {"IM_AD", "IM_A", "SM_AD", "SM_A"} =>
             cpu[c].op = "Store" /\ c \notin mandatory

(* The request of a cache that waits stays: the mandatory queue is blocked. *)
LEMMA CpuInvNext ==
  ASSUME TypeOK, CpuInv, [Next]_vars
  PROVE  CpuInv'
<1> DEFINE Waiting == {"IM_AD", "IM_A", "SM_AD", "SM_A"}
           Answers(d) == /\ cstate[d] = "IS_D" => cpu[d].op = "Load" /\ d \notin mandatory
                         /\ cstate[d] \in Waiting => cpu[d].op = "Store" /\ d \notin mandatory
           Same(d) == /\ cstate'[d] = cstate[d] /\ cpu'[d] = cpu[d]
                      /\ d \in mandatory' => d \in mandatory
<1>0. /\ cstate \in [Caches -> CacheStates] /\ DOMAIN cpu = Caches
      /\ \A d \in Caches : Answers(d)
  BY DEF TypeOK, CacheType, CpuType, CpuInv
<1> SUFFICES \A d \in Caches : Answers(d)' BY DEF CpuInv
<1>1. ASSUME NEW d \in Caches, Same(d) PROVE Answers(d)' BY <1>0, <1>1
<1>2. ASSUME UNCHANGED <<cstate, cpu, mandatory>> PROVE \A d \in Caches : Answers(d)'
  BY <1>1, <1>2
<1>3. ASSUME NEW c \in Caches, \A d \in Caches \ {c} : Same(d), Answers(c)'
      PROVE  \A d \in Caches : Answers(d)'
  BY <1>1, <1>3
<1>4. ASSUME NEW c \in Caches, Cpu(c) PROVE \A d \in Caches : Answers(d)'
  <2>1. PICK op, wr : Issue(c, op, wr) BY <1>4 DEF Cpu
  <2>2. \A d \in Caches \ {c} : Same(d) BY <1>0, <2>1 DEF Issue, cacheVars
  <2>3. cstate'[c] \notin {"IS_D", "IM_AD", "IM_A", "SM_AD", "SM_A"}
    BY <1>0, <2>1 DEF Issue, cacheVars
  <2>4. Answers(c)' BY <2>3
  <2> QED BY <1>3, <2>2, <2>4
<1>5. ASSUME NEW c \in Caches, LoadMiss(c) \/ StoreMiss(c) \/ Upgrade(c)
      PROVE  \A d \in Caches : Answers(d)'
  <2>1. \A d \in Caches \ {c} : Same(d)
    BY <1>0, <1>5 DEF LoadMiss, StoreMiss, Upgrade, Miss, To
  <2>2. /\ cpu'[c] = cpu[c] /\ c \notin mandatory'
        /\ \/ cstate'[c] = "IS_D" /\ cpu[c].op = "Load"
           \/ cstate'[c] \in Waiting /\ cpu[c].op = "Store"
    BY <1>0, <1>5 DEF LoadMiss, StoreMiss, Upgrade, Miss, To, AtHead
  <2>3. Answers(c)' BY <2>2
  <2> QED BY <1>3, <2>1, <2>3
<1>6. ASSUME NEW c \in Caches, LoadHit(c) \/ StoreHit(c) PROVE \A d \in Caches : Answers(d)'
  <2>1. \A d \in Caches \ {c} : Same(d)
    BY <1>0, <1>6 DEF LoadHit, StoreHit, ReadCallback, WriteCallback, cacheVars
  <2>2. c \in mandatory /\ cstate' = cstate
    BY <1>6 DEF LoadHit, StoreHit, AtHead, cacheVars
  <2>3. Answers(c)' BY <1>0, <2>2
  <2> QED BY <1>3, <2>1, <2>3
<1>7. ASSUME NEW c \in Caches, Replacement(c) \/ ForwardIn(c) PROVE \A d \in Caches : Answers(d)'
  <2>1. /\ UNCHANGED <<cpu, mandatory>>
        /\ \/ \E st \in {"SI_A", "MI_A", "S", "I", "II_A"} : cstate' = [cstate EXCEPT ![c] = st]
           \/ cstate[c] = "SM_AD" /\ cstate' = [cstate EXCEPT ![c] = "IM_AD"]
    <3>1. CASE Replacement(c)
      BY <3>1 DEF Replacement, ReplaceShared, ReplaceModified, To, cpuVars
    <3>2. CASE OwnerFwdGetS(c) BY <3>2 DEF OwnerFwdGetS, To, cpuVars
    <3>3. CASE OwnerFwdGetM(c) BY <3>3 DEF OwnerFwdGetM, Deallocate, To, cpuVars
    <3>4. CASE Invalidate(c) BY <3>4 DEF Invalidate, Deallocate, On, To, cpuVars
    <3>5. CASE PutAcked(c) BY <3>5 DEF PutAcked, Deallocate, To, cpuVars
    <3> QED BY <1>7, <3>1, <3>2, <3>3, <3>4, <3>5 DEF ForwardIn
  <2>2. \A d \in Caches \ {c} : Same(d) BY <1>0, <2>1
  <2>3. Answers(c)' BY <1>0, <2>1
  <2> QED BY <1>3, <2>2, <2>3
<1>8. ASSUME NEW c \in Caches, NEW s \in Nodes, ResponseIn(s, c)
      PROVE  \A d \in Caches : Answers(d)'
  <2>1. CASE LoadFilled(s, c) \/ StoreFilled(s, c) \/ LastAck(s, c)
    <3>1. \A d \in Caches \ {c} : Same(d)
      BY <1>0, <2>1 DEF LoadFilled, StoreFilled, LastAck, ReadCallback, WriteCallback, To
    <3>2. cstate'[c] \in {"S", "M"} BY <1>0, <2>1 DEF LoadFilled, StoreFilled, LastAck, To
    <3>3. Answers(c)' BY <3>2
    <3> QED BY <1>3, <3>1, <3>3
  <2>2. CASE DataAwaitingAcks(s, c)
    <3>1. cstate[c] \in {"IM_AD", "SM_AD"}
      BY <2>2 DEF DataAwaitingAcks, CanRespond, ResponseFault, CacheTransitions
    <3>2. UNCHANGED <<cpu, mandatory>> /\ \E st \in Waiting : cstate' = [cstate EXCEPT ![c] = st]
      BY <2>2 DEF DataAwaitingAcks, To, cpuVars
    <3>3. \A d \in Caches \ {c} : Same(d) BY <1>0, <3>2
    <3>4. Answers(c)' BY <1>0, <3>1, <3>2
    <3> QED BY <1>3, <3>3, <3>4
  <2>3. CASE CountInvAck(s, c) BY <1>2, <2>3 DEF CountInvAck, cpuVars
  <2> QED BY <1>8, <2>1, <2>2, <2>3 DEF ResponseIn
<1>9. ASSUME NEW c \in Caches, RequestIn(c) \/ OwnerData(c) PROVE UNCHANGED <<cstate, cpu, mandatory>>
  BY <1>9 DEF RequestIn, GetSFromMemory, GetSFromOwner, GetMUncached, GetMShared, GetMFromOwner,
     PutIgnored, SharerLeaves, OwnerLeaves, OwnerData, cpuVars, cacheVars
<1>10. MemQueueIn \/ MemoryAccess \/ Abort \/ UNCHANGED vars => UNCHANGED <<cstate, cpu, mandatory>>
  BY DEF MemQueueIn, MemData, MemAck, MemoryAccess, Abort, vars, cpuVars, cacheVars
<1> HIDE DEF Answers
<1> QED
  BY <1>2, <1>4, <1>5, <1>6, <1>7, <1>8, <1>9, <1>10 DEF Next, Mandatory

(* A step of the protocol is one of the atomic block, or none of its business. *)
LEMMA AtomicNext ==
  ASSUME TypeOK, ControlType, ControlInv, DataInv, CpuInv, [Next]_vars
  PROVE  [Atomic!Next]_<<latest, cpu>>
<1>0. CopyData /\ ResponseData BY DEF DataInv
<1>1. ASSUME NEW c \in Caches, Cpu(c) PROVE Atomic!Next
  <2>1. CASE Issue(c, "Load", NoWrite)
    <3>1. Atomic!AskLoad(c) BY <2>1 DEF Issue, Atomic!AskLoad, Atomic!NoBytes, NoWrite
    <3> QED BY <3>1 DEF Atomic!Next
  <2>2. ASSUME NEW wr \in Stores, Issue(c, "Store", wr) PROVE Atomic!Next
    <3>1. PICK w \in Words : wr \in [{w} -> Bytes] BY DEF Stores
    <3>2. wr[w] \in Bytes /\ wr = [x \in {w} |-> wr[w]] BY <3>1
    <3>3. Atomic!AskStore(c, w, wr[w]) BY <2>2, <3>2 DEF Issue, Atomic!AskStore
    <3> QED BY <3>2, <3>3 DEF Atomic!Next
  <2> QED BY <1>1, <2>1, <2>2 DEF Cpu
<1>2. ASSUME NEW c \in Caches, NEW blk, ReadCallback(c, blk), blk = latest, cpu[c].op = "Load"
      PROVE  Atomic!Next
  BY <1>2 DEF ReadCallback, Atomic!Load, Atomic!Idle, Atomic!Next
<1>3. ASSUME NEW c \in Caches, NEW blk, WriteCallback(c, blk), cpu[c].op = "Store"
      PROVE  Atomic!Next
  <2>1. Atomic!Store(c)
    BY <1>3 DEF WriteCallback, NoWrite, Overlay, Atomic!Store, Atomic!Idle, Atomic!NoBytes,
       Atomic!Overlay
  <2> QED BY <2>1 DEF Atomic!Next
<1>4. ASSUME NEW c \in Caches, LoadHit(c) PROVE Atomic!Next
  <2>1. ReadCallback(c, cdata[c]) /\ cpu[c].op = "Load" /\ cstate[c] \in {"S", "SM_AD", "SM_A", "M"}
    BY <1>4 DEF LoadHit, AtHead, On
  <2>2. cdata[c] = latest BY <1>0, <2>1 DEF CopyData, Current, Holds
  <2> QED BY <1>2, <2>1, <2>2
<1>5. ASSUME NEW c \in Caches, StoreHit(c) PROVE Atomic!Next
  BY <1>3, <1>5 DEF StoreHit, AtHead
<1>6. ASSUME NEW c \in Caches, NEW s \in Nodes, LoadFilled(s, c) PROVE Atomic!Next
  <2>1. /\ ReadCallback(c, Head(response[c][s]).data) /\ cstate[c] = "IS_D"
        /\ PopResponse(s, c) /\ response[c][s] # <<>> /\ ResponseFault(s, c) = "none"
        /\ ResponseEvent(s, c) \in {"DataDirNoAcks", "DataOwner"}
    BY <1>6 DEF LoadFilled, On, Filled, CanRespond, WithAllData
  <2>2. Head(response[c][s]).type = "Data" BY <2>1 DEF ResponseEvent, ResponseFault
  <2>3. Head(response[c][s]).data = latest
    BY <1>0, <2>1, <2>2, PopData DEF TypeOK, ControlInv, QueueInv, Nodes
  <2>4. cpu[c].op = "Load" BY <2>1 DEF CpuInv
  <2> QED BY <1>2, <2>1, <2>3, <2>4
<1>7. ASSUME NEW c \in Caches, NEW s \in Nodes, StoreFilled(s, c) \/ LastAck(s, c)
      PROVE  Atomic!Next
  <2>1. cstate[c] \in {"IM_AD", "IM_A", "SM_AD", "SM_A"}
    BY <1>7 DEF StoreFilled, On, LastAck, CanRespond, ResponseFault, CacheTransitions
  <2>2. cpu[c].op = "Store" BY <2>1 DEF CpuInv
  <2> QED BY <1>3, <1>7, <2>2 DEF StoreFilled, LastAck
<1>8. ASSUME NEW c \in Caches, LoadMiss(c) \/ StoreMiss(c) \/ Upgrade(c) \/ Replacement(c) \/ ForwardIn(c)
      PROVE  UNCHANGED <<latest, cpu>>
  BY <1>8 DEF LoadMiss, StoreMiss, Upgrade, Miss, Replacement, ReplaceShared, ReplaceModified,
     ForwardIn, OwnerFwdGetS, OwnerFwdGetM, Invalidate, PutAcked, cpuVars
<1>9. ASSUME NEW c \in Caches, RequestIn(c) \/ OwnerData(c) PROVE UNCHANGED <<latest, cpu>>
  BY <1>9 DEF RequestIn, GetSFromMemory, GetSFromOwner, GetMUncached, GetMShared, GetMFromOwner,
     PutIgnored, SharerLeaves, OwnerLeaves, OwnerData, cpuVars
<1>10. ASSUME NEW c \in Caches, NEW s \in Nodes, DataAwaitingAcks(s, c) \/ CountInvAck(s, c)
       PROVE  UNCHANGED <<latest, cpu>>
  BY <1>10 DEF DataAwaitingAcks, CountInvAck, cpuVars
<1>11. MemQueueIn \/ MemoryAccess \/ Abort \/ UNCHANGED vars => UNCHANGED <<latest, cpu>>
  BY DEF MemQueueIn, MemData, MemAck, MemoryAccess, Abort, vars, cpuVars
<1> QED
  BY <1>1, <1>4, <1>5, <1>6, <1>7, <1>8, <1>9, <1>10, <1>11 DEF Next, Mandatory, ResponseIn
---------------------------------------------------------------------------
(* Where the permission lets a block be read, a load is given what the last *)
(* store left, and so is a functional read of memory or of any cache that   *)
(* is not upgrading.                                                        *)
THEOREM ReadersAreCurrent == Spec => []ReadableIsCurrent
<1>1. TypeOK /\ ControlInv /\ DataInv => ReadableIsCurrent
  <2>1. TypeOK => Dir \notin tbes BY CachesAssumption DEF TypeOK, CacheType
  <2> QED BY <2>1, ControlTypeCorrect, ReadableIsCurrentHolds
<1> QED BY <1>1, TypeCorrect, ControlCorrect, DataCorrect, PTL

(* Every Data response on its way, to a cache or to the directory, carries  *)
(* what the last store left, until it is consumed.                          *)
THEOREM MessagesAreCurrent == Spec => []DataIsUpToDate
<1>1. TypeOK /\ ControlInv /\ DataInv => DataIsUpToDate BY DataIsUpToDateHolds
<1> QED BY <1>1, TypeCorrect, ControlCorrect, DataCorrect, PTL

(* The caches, the directory and the memory implement one atomic block:     *)
(* every load returns what the last store left, for any number of caches.   *)
THEOREM CachesAreAtomic == Spec => AtomicMemory
<1>1. Init => Atomic!Init
  BY DEF Init, Blank, NoWrite, Atomic!Init, Atomic!Idle, Atomic!NoBytes
<1>2. Init => CpuInv BY DEF Init, CpuInv
<1>3. TypeOK /\ CpuInv /\ [Next]_vars => CpuInv' BY CpuInvNext
<1>4. TypeOK /\ ControlInv /\ DataInv /\ CpuInv /\ [Next]_vars => [Atomic!Next]_<<latest, cpu>>
  BY ControlTypeCorrect, AtomicNext
<1> QED
  BY <1>1, <1>2, <1>3, <1>4, TypeCorrect, ControlCorrect, DataCorrect, PTL
  DEF Spec, AtomicMemory, Atomic!Spec
=============================================================================
