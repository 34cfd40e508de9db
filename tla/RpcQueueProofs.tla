--------------------------- MODULE RpcQueueProofs ---------------------------
(***************************************************************************)
(* Proofs about the queue, for any number of threads, items and sizes.     *)
(***************************************************************************)
EXTENDS RpcQueue, FiniteSetTheorems, SequenceTheorems, TLAPS

(* What an append and a removal do to a sequence that was split in two.    *)
LEMMA AppendSplit ==
    ASSUME NEW S, NEW r \in Seq(S), NEW q \in Seq(S), NEW i \in S,
           NEW q2, q2 = Append(q, i), NEW a, a = r \o q, NEW a2, a2 = Append(a, i)
    PROVE  a2 = r \o q2 /\ a2 \in Seq(S) /\ q2 \in Seq(S)
<1>1. a2 \in Seq(S) /\ r \o q2 \in Seq(S) /\ q2 \in Seq(S)
  OBVIOUS
<1>2. Len(a2) = Len(r \o q2)
  OBVIOUS
<1>3. \A j \in 1 .. Len(a2) : a2[j] = (r \o q2)[j]
  OBVIOUS
<1> QED BY <1>1, <1>2, <1>3, SeqEqual

(* The first item of the second part becomes the last of the first.        *)
LEMMA RemoveSplit ==
    ASSUME NEW S, NEW r \in Seq(S), NEW q \in Seq(S), q # <<>>
    PROVE  /\ r \o q = Append(r, Head(q)) \o Tail(q)
           /\ Append(r, Head(q)) \in Seq(S)
           /\ Tail(q) \in Seq(S)
           /\ Len(Tail(q)) = Len(q) - 1
           /\ Head(q) \in S
<1>1. /\ Head(q) \in S /\ Tail(q) \in Seq(S) /\ Len(Tail(q)) = Len(q) - 1
      /\ \A i \in 1 .. Len(Tail(q)) : Tail(q)[i] = q[i+1]
  BY HeadTailProperties
<1>2. Len(q) \in Nat \ {0} /\ Head(q) = q[1]
  BY EmptySeq
<1>3. /\ r \o q \in Seq(S) /\ Append(r, Head(q)) \in Seq(S)
      /\ Append(r, Head(q)) \o Tail(q) \in Seq(S)
  BY <1>1
<1>4. Len(r \o q) = Len(Append(r, Head(q)) \o Tail(q))
  BY <1>1, <1>2
<1>5. ASSUME NEW j \in 1 .. Len(r \o q)
      PROVE  (r \o q)[j] = (Append(r, Head(q)) \o Tail(q))[j]
  BY <1>1, <1>2
<1>6. r \o q = Append(r, Head(q)) \o Tail(q)
  BY <1>3, <1>4, <1>5, SeqEqual
<1> QED BY <1>1, <1>3, <1>6

-----------------------------------------------------------------------------
(* A producer that waits has an item to push.                              *)
WaiterHasItem == \A p \in Producers : pc[p] = "waiting" => item[p] \in Items

(* The inductive invariant of FifoOrder.                                   *)
FifoInv == TypeOK /\ WaiterHasItem /\ FifoOrder

(* The three ways the contents change keep the order.                      *)
LEMMA StoreOrder ==
    ASSUME TypeOK, FifoOrder, NEW i \in Items,
           accepted' = Append(accepted, i), m_queue' = Append(m_queue, i), removed' = removed
    PROVE  /\ m_queue' \in Seq(Items) /\ removed' \in Seq(Items) /\ accepted' \in Seq(Items)
           /\ FifoOrder'
<1>1. m_queue \in Seq(Items) /\ removed \in Seq(Items)
  BY DEF TypeOK
<1>2. accepted = removed \o m_queue
  BY DEF FifoOrder
<1>3. accepted' = removed \o m_queue' /\ accepted' \in Seq(Items) /\ m_queue' \in Seq(Items)
  BY <1>1, <1>2, AppendSplit
<1> QED BY <1>1, <1>3 DEF FifoOrder

(* pop takes the oldest item.                                              *)
LEMMA RemoveOrder ==
    ASSUME TypeOK, FifoOrder, m_queue # <<>>, accepted' = accepted,
           m_queue' = Tail(m_queue), removed' = Append(removed, Head(m_queue))
    PROVE  /\ m_queue' \in Seq(Items) /\ removed' \in Seq(Items) /\ accepted' \in Seq(Items)
           /\ FifoOrder'
BY RemoveSplit, SMTT(60) DEF TypeOK, FifoOrder

(* A push that drops the oldest item makes room for the newest.            *)
LEMMA ReplaceOrder ==
    ASSUME TypeOK, FifoOrder, m_queue # <<>>, NEW i \in Items,
           accepted' = Append(accepted, i), DropFront(i)
    PROVE  /\ m_queue' \in Seq(Items) /\ removed' \in Seq(Items) /\ accepted' \in Seq(Items)
           /\ FifoOrder'
<1>1. m_queue \in Seq(Items) /\ removed \in Seq(Items)
  BY DEF TypeOK
<1>2. /\ m_queue' = Append(Tail(m_queue), i)
      /\ removed' = Append(removed, Head(m_queue))
  BY DEF DropFront
<1>3. accepted = removed \o m_queue
  BY DEF FifoOrder
<1>4. /\ Head(m_queue) \in Items /\ Tail(m_queue) \in Seq(Items)
      /\ Len(Tail(m_queue)) = Len(m_queue) - 1 /\ Len(m_queue) \in Nat \ {0}
      /\ \A n \in 1 .. Len(Tail(m_queue)) : Tail(m_queue)[n] = m_queue[n+1]
      /\ Head(m_queue) = m_queue[1]
  BY <1>1, HeadTailProperties, EmptySeq
<1>5. m_queue' \in Seq(Items) /\ removed' \in Seq(Items) /\ accepted' \in Seq(Items)
  BY <1>1, <1>2, <1>3, <1>4
<1>6. removed' \o m_queue' \in Seq(Items) /\ Len(accepted') = Len(removed' \o m_queue')
  BY <1>1, <1>2, <1>3, <1>4
<1>7. ASSUME NEW n \in 1 .. Len(accepted') PROVE accepted'[n] = (removed' \o m_queue')[n]
  <2> DEFINE k == Len(removed)
             l == Len(m_queue)
  <2>0. n \in 1 .. k + l + 1 /\ k \in Nat /\ l \in Nat \ {0}
    BY <1>1, <1>3, <1>4
  <2>1. CASE n <= k
    BY <1>1, <1>2, <1>3, <1>4, <2>1
  <2>2. CASE n = k + 1
    BY <1>1, <1>2, <1>3, <1>4, <2>2
  <2>3. CASE n > k + 1 /\ n <= k + l
    BY <1>1, <1>2, <1>3, <1>4, <2>3
  <2>4. CASE n = k + l + 1
    BY <1>1, <1>2, <1>3, <1>4, <2>4
  <2> HIDE DEF k, l
  <2>5. n <= k \/ n = k + 1 \/ (n > k + 1 /\ n <= k + l) \/ n = k + l + 1
    BY <2>0
  <2> QED BY <2>1, <2>2, <2>3, <2>4, <2>5
<1>8. accepted' = removed' \o m_queue'
  BY <1>5, <1>6, <1>7, SeqEqual
<1> QED BY <1>5, <1>8 DEF FifoOrder

(* A full queue is not empty.                                              *)
LEMMA FullNotEmpty == ASSUME TypeOK, Full PROVE m_queue # <<>>
<1>1. m_max_q_len \in Nat \ {0} /\ Len(m_queue) >= m_max_q_len
  BY QueueAssumption DEF TypeOK, Full
<1> QED BY <1>1, EmptySeq DEF TypeOK

(* FifoInv is an inductive invariant: one step per operation of the queue. *)
LEMMA FifoInvStep == FifoInv /\ [Next]_vars => FifoInv'
<1> SUFFICES ASSUME FifoInv, [Next]_vars PROVE FifoInv'
  OBVIOUS
<1> USE DEF FifoInv, settings
<1> DEFINE Order == /\ m_queue' \in Seq(Items) /\ removed' \in Seq(Items)
                    /\ accepted' \in Seq(Items) /\ FifoOrder'
<1>0. UNCHANGED <<m_queue, accepted, removed>> => Order
  BY DEF TypeOK, FifoOrder
<1>1. ASSUME NEW p \in Producers, Offer(p)
      PROVE  /\ tried + 1 \in Items /\ tried' \in 0..MaxItems
             /\ item' \in [Producers -> 0..MaxItems] /\ item'[p] \in Items
             /\ \A b \in Producers \ {p} : item'[b] = item[b]
  BY <1>1, QueueAssumption DEF Offer, TypeOK, Items
<1>2. ASSUME NEW p \in Producers, Push(p) PROVE FifoInv'
  <2>1. Offer(p) /\ tried + 1 \in Items
    BY <1>1, <1>2 DEF Push
  <2>2. Order
    BY <1>2, <2>1, StoreOrder, ReplaceOrder, FullNotEmpty DEF Push, Store
  <2>3. TypeOK'
    BY <1>1, <1>2, <2>1, <2>2 DEF Push, Store, TypeOK, condVars, Threads
  <2>4. WaiterHasItem'
    BY <1>1, <1>2, <2>1 DEF Push, Store, TypeOK, WaiterHasItem, Threads
  <2> QED BY <2>2, <2>3, <2>4
<1>3. ASSUME NEW p \in Producers, PushRefused(p) PROVE FifoInv'
  <2>1. Offer(p) /\ Order
    BY <1>0, <1>3 DEF PushRefused
  <2>2. TypeOK'
    BY <1>1, <1>3, <2>1 DEF PushRefused, TypeOK, condVars
  <2>3. WaiterHasItem'
    BY <1>1, <1>3, <2>1 DEF PushRefused, WaiterHasItem
  <2> QED BY <2>1, <2>2, <2>3
<1>4. ASSUME NEW p \in Producers, PushWait(p) PROVE FifoInv'
  <2>1. Offer(p) /\ Order
    BY <1>0, <1>4 DEF PushWait
  <2>2. TypeOK'
    BY <1>1, <1>4, <2>1 DEF PushWait, TypeOK, Threads
  <2>3. WaiterHasItem'
    BY <1>1, <1>4, <2>1 DEF PushWait, WaiterHasItem, TypeOK, Threads
  <2> QED BY <2>1, <2>2, <2>3
<1>5. ASSUME NEW p \in Producers, PushWoken(p) PROVE FifoInv'
  <2>1. item[p] \in Items
    BY <1>5 DEF PushWoken, WaiterHasItem
  <2>2. Order
    BY <1>5, <2>1, StoreOrder DEF PushWoken, Store
  <2>3. TypeOK' /\ WaiterHasItem'
    BY <1>5, <2>2 DEF PushWoken, Store, TypeOK, WaiterHasItem, Threads
  <2> QED BY <2>2, <2>3
<1>6. ASSUME NEW p \in Producers, PushTimeout(p) PROVE FifoInv'
  <2>1. Order
    BY <1>0, <1>6 DEF PushTimeout
  <2>2. TypeOK' /\ WaiterHasItem'
    BY <1>6, <2>1 DEF PushTimeout, TypeOK, WaiterHasItem, Threads
  <2> QED BY <2>1, <2>2
<1>7. ASSUME NEW p \in Producers, PushReturn(p) PROVE FifoInv'
  <2>1. Order
    BY <1>0, <1>7 DEF PushReturn
  <2>2. TypeOK' /\ WaiterHasItem'
    BY <1>7, <2>1 DEF PushReturn, PushNotify, TypeOK, WaiterHasItem, Threads
  <2> QED BY <2>1, <2>2
<1>8. ASSUME NEW c \in Consumers, Pop(c) PROVE FifoInv'
  <2>1. Order
    BY <1>8, RemoveOrder DEF Pop, Remove
  <2>2. TypeOK' /\ WaiterHasItem'
    BY <1>8, <2>1, QueueAssumption DEF Pop, Remove, TypeOK, WaiterHasItem, condVars, Threads
  <2> QED BY <2>1, <2>2
<1>9. ASSUME NEW c \in Consumers, PopWait(c) PROVE FifoInv'
  <2>1. Order
    BY <1>0, <1>9 DEF PopWait
  <2>2. TypeOK' /\ WaiterHasItem'
    BY <1>9, <2>1, QueueAssumption DEF PopWait, TypeOK, WaiterHasItem, Threads
  <2> QED BY <2>1, <2>2
<1>10. ASSUME NEW c \in Consumers, PopWoken(c) PROVE FifoInv'
  <2>1. Order
    BY <1>0, <1>10, RemoveOrder DEF PopWoken, Remove
  <2>2. TypeOK' /\ WaiterHasItem'
    BY <1>10, <2>1, QueueAssumption DEF PopWoken, Remove, TypeOK, WaiterHasItem, Threads
  <2> QED BY <2>1, <2>2
<1>11. ASSUME NEW c \in Consumers, PopTimeout(c) PROVE FifoInv'
  <2>1. Order
    BY <1>0, <1>11 DEF PopTimeout
  <2>2. TypeOK' /\ WaiterHasItem'
    BY <1>11, <2>1, QueueAssumption DEF PopTimeout, TypeOK, WaiterHasItem, Threads
  <2> QED BY <2>1, <2>2
<1>12. ASSUME NEW c \in Consumers, PopReturn(c) PROVE FifoInv'
  <2>1. Order
    BY <1>0, <1>12 DEF PopReturn
  <2>2. TypeOK' /\ WaiterHasItem'
    BY <1>12, <2>1, QueueAssumption DEF PopReturn, TypeOK, WaiterHasItem, Threads
  <2> QED BY <2>1, <2>2
<1>13. ASSUME NEW c \in Consumers, PopRefused(c) PROVE FifoInv'
  <2>1. Order
    BY <1>0, <1>13 DEF PopRefused
  <2>2. TypeOK' /\ WaiterHasItem'
    BY <1>13, <2>1, QueueAssumption DEF PopRefused, TypeOK, WaiterHasItem, condVars, Threads
  <2> QED BY <2>1, <2>2
<1>14. ASSUME UNCHANGED vars PROVE FifoInv'
  BY <1>14 DEF vars, condVars, TypeOK, WaiterHasItem, FifoOrder
<1> HIDE DEF FifoInv
<1> QED
  BY <1>2, <1>3, <1>4, <1>5, <1>6, <1>7, <1>8, <1>9, <1>10, <1>11, <1>12, <1>13,
     <1>14
  DEF Next, UntimedNext, TimedPush, ConsumerStep

(* FifoInv holds in every reachable state.                                 *)
THEOREM FifoInvariant == Spec => []FifoInv
<1>1. Init => FifoInv
  <2> SUFFICES ASSUME Init PROVE FifoInv
    OBVIOUS
  <2>1. <<>> \in Seq(Items) /\ <<>> = <<>> \o <<>>
    BY EmptySeq, ConcatEmptySeq
  <2>2. TypeOK
    BY <2>1, QueueAssumption DEF Init, TypeOK, Items
  <2>3. WaiterHasItem
    BY DEF Init, WaiterHasItem, Threads
  <2> QED BY <2>1, <2>2, <2>3 DEF Init, FifoInv, FifoOrder
<1> QED BY <1>1, FifoInvStep, PTL DEF Spec

(* The type invariant holds for any constants.                             *)
THEOREM TypeCorrect == Spec => []TypeOK
<1>1. FifoInv => TypeOK
  BY DEF FifoInv
<1> QED BY <1>1, FifoInvariant, PTL

(* Nothing that push accepted is lost, doubled or overtaken, for any mix   *)
(* of threads and of timed, untimed and dropping calls.                    *)
THEOREM QueueIsFifo == Spec => []FifoOrder
<1>1. FifoInv => FifoOrder
  BY DEF FifoInv
<1> QED BY <1>1, FifoInvariant, PTL

-----------------------------------------------------------------------------
(* When no push has a timeout, as in the thread pools of the framework and *)
(* in the response queues, no producer is ever inside wait_for.            *)
NobodyWaits == \A p \in Producers : pc[p] # "waiting"

(* The inductive invariant of Capacity.                                    *)
CapacityInv == NobodyWaits /\ Capacity

(* CapacityInv is preserved by every step when no push is timed.           *)
LEMMA CapacityInvStep ==
    ASSUME PushMs \subseteq {0}, FifoInv, CapacityInv, [Next]_vars
    PROVE  CapacityInv'
<1> USE DEF FifoInv, CapacityInv, settings
<1>0. m_queue \in Seq(Items) /\ Len(m_queue) \in Nat /\ m_max_q_len \in Nat
  BY QueueAssumption DEF TypeOK
<1>1. ASSUME NEW p \in Producers, Push(p) PROVE CapacityInv'
  <2>1. tried + 1 \in Items
    BY <1>1, QueueAssumption DEF Push, Offer, TypeOK, Items
  <2>2. CASE ~Full /\ m_queue' = Append(m_queue, tried + 1)
    BY <1>0, <1>1, <2>1, <2>2 DEF Push, Full, Capacity, Store, NobodyWaits, TypeOK, Threads
  <2>3. CASE Full /\ DropFront(tried + 1)
    <3>1. Tail(m_queue) \in Seq(Items) /\ Len(Tail(m_queue)) = Len(m_queue) - 1
      BY <2>3, FullNotEmpty, RemoveSplit DEF TypeOK
    <3>2. Len(m_queue') = Len(m_queue)
      BY <1>0, <2>1, <2>3, <3>1 DEF DropFront
    <3> QED BY <1>1, <3>2 DEF Push, Capacity, Store, NobodyWaits, TypeOK, Threads
  <2> QED BY <1>1, <2>2, <2>3 DEF Push
<1>2. ASSUME NEW c \in Consumers, m_queue # <<>>, Remove(c), m_max_q_len' = m_max_q_len
      PROVE  CapacityInv'
  <2>1. Len(m_queue') = Len(m_queue) - 1
    BY <1>2, RemoveSplit DEF Remove, TypeOK
  <2> QED BY <1>0, <1>2, <2>1, QueueAssumption
          DEF Remove, Capacity, NobodyWaits, TypeOK, Threads
<1>3. ASSUME NEW p \in Producers, PushRefused(p) \/ PushReturn(p) PROVE CapacityInv'
  BY <1>3 DEF PushRefused, PushReturn, Capacity, NobodyWaits, TypeOK, Threads
<1>4. ASSUME NEW p \in Producers, PushWait(p) \/ PushWoken(p) \/ PushTimeout(p) PROVE FALSE
  BY <1>4 DEF PushWait, PushWoken, PushTimeout, NobodyWaits
<1>5. ASSUME NEW c \in Consumers, ConsumerStep(c), ~Remove(c) PROVE CapacityInv'
  BY <1>5, QueueAssumption DEF ConsumerStep, Pop, PopWait, PopWoken, PopTimeout, PopReturn,
     Capacity, NobodyWaits, TypeOK, Threads
<1>6. ASSUME NEW c \in Consumers, ConsumerStep(c), Remove(c)
      PROVE  m_max_q_len' = m_max_q_len /\ (m_queue # <<>> \/ UNCHANGED m_queue)
  BY <1>6 DEF ConsumerStep, Pop, PopWait, PopWoken, PopTimeout, PopReturn
<1>7. ASSUME NEW c \in Consumers, ConsumerStep(c), Remove(c), m_queue = <<>> PROVE FALSE
  BY <1>7 DEF ConsumerStep, Remove, Pop, PopWait, PopWoken, PopTimeout, PopReturn, TypeOK, Threads
<1>8. ASSUME NEW c \in Consumers, PopRefused(c) PROVE CapacityInv'
  BY <1>8, QueueAssumption DEF PopRefused, Capacity, NobodyWaits, TypeOK, Threads
<1>9. ASSUME UNCHANGED vars PROVE CapacityInv'
  BY <1>9 DEF vars, Capacity, NobodyWaits
<1> HIDE DEF FifoInv, CapacityInv
<1> QED
  BY <1>1, <1>2, <1>3, <1>4, <1>5, <1>6, <1>7, <1>8, <1>9
  DEF Next, UntimedNext, TimedPush

(* CapacityInv holds in every reachable state when no push is timed.       *)
THEOREM CapacityInvariant == ASSUME PushMs \subseteq {0} PROVE Spec => []CapacityInv
<1>1. Init => CapacityInv
  <2> SUFFICES ASSUME Init PROVE CapacityInv
    OBVIOUS
  <2>1. Len(m_queue) = 0 /\ m_max_q_len \in Nat
    BY EmptySeq, QueueAssumption DEF Init
  <2> QED BY <2>1 DEF Init, CapacityInv, Capacity, NobodyWaits, Threads
<1>2. FifoInv /\ CapacityInv /\ [Next]_vars => CapacityInv'
  BY CapacityInvStep
<1> QED BY <1>1, <1>2, FifoInvariant, PTL DEF Spec

(* Without timed pushes the queue never exceeds m_max_q_len.               *)
THEOREM QueueIsBounded == ASSUME PushMs \subseteq {0} PROVE Spec => []Capacity
<1>1. CapacityInv => Capacity
  BY DEF CapacityInv
<1> QED BY <1>1, CapacityInvariant, PTL

-----------------------------------------------------------------------------
(* A step of the queue is a step of the bounded FIFO, or leaves it alone.  *)
LEMMA FifoStep ==
    ASSUME PushMs \subseteq {0}, FifoInv, CapacityInv, [Next]_vars
    PROVE  [Fifo!Next]_<<m_queue, m_max_q_len, m_dropOldOnFull>>
<1> USE DEF FifoInv, CapacityInv, settings
<1>1. ASSUME NEW p \in Producers, Push(p) PROVE Fifo!Next
  <2>1. tried + 1 \in Items
    BY <1>1, QueueAssumption DEF Push, Offer, TypeOK, Items
  <2>2. CASE ~Full /\ m_queue' = Append(m_queue, tried + 1)
    <3>1. Len(m_queue) < m_max_q_len
      BY <2>2, QueueAssumption DEF Full, TypeOK
    <3>2. Fifo!Put(tried + 1)
      BY <1>1, <2>2, <3>1 DEF Push, Fifo!Put
    <3> QED BY <2>1, <3>2 DEF Fifo!Next
  <2>3. CASE Full /\ m_dropOldOnFull /\ DropFront(tried + 1)
    <3>1. Fifo!Replace(tried + 1)
      BY <1>1, <2>3, FullNotEmpty DEF Push, DropFront, Capacity, Fifo!Replace
    <3> QED BY <2>1, <3>1 DEF Fifo!Next
  <2> QED BY <1>1, <2>2, <2>3 DEF Push
<1>2. ASSUME NEW c \in Consumers, Pop(c) \/ PopWoken(c)
      PROVE  [Fifo!Next]_<<m_queue, m_max_q_len, m_dropOldOnFull>>
  BY <1>2 DEF Pop, PopWoken, Remove, Fifo!Next, Fifo!Take
<1>3. ASSUME NEW p \in Producers, PushRefused(p) \/ PushReturn(p)
      PROVE  UNCHANGED <<m_queue, m_max_q_len, m_dropOldOnFull>>
  BY <1>3 DEF PushRefused, PushReturn
<1>4. ASSUME NEW p \in Producers, PushWait(p) \/ PushWoken(p) \/ PushTimeout(p) PROVE FALSE
  BY <1>4 DEF PushWait, PushWoken, PushTimeout, NobodyWaits
<1>5. ASSUME NEW c \in Consumers, PopWait(c) \/ PopRefused(c) \/ PopTimeout(c) \/ PopReturn(c)
      PROVE  UNCHANGED <<m_queue, m_max_q_len, m_dropOldOnFull>>
  BY <1>5 DEF PopWait, PopRefused, PopTimeout, PopReturn
<1>6. UNCHANGED vars => UNCHANGED <<m_queue, m_max_q_len, m_dropOldOnFull>>
  BY DEF vars
<1> HIDE DEF FifoInv, CapacityInv
<1> QED
  BY <1>1, <1>2, <1>3, <1>4, <1>5, <1>6 DEF Next, UntimedNext, TimedPush, ConsumerStep

(* Without timed pushes the threads, the condition variables and their     *)
(* spurious or late wakeups add nothing that a bounded FIFO would not do.  *)
THEOREM QueueImplementsFifo == ASSUME PushMs \subseteq {0} PROVE Spec => ImplementsFifo
<1>1. Init => Fifo!Init
  BY QueueAssumption DEF Init, Fifo!Init
<1>2. FifoInv /\ CapacityInv /\ [Next]_vars => [Fifo!Next]_<<m_queue, m_max_q_len, m_dropOldOnFull>>
  BY FifoStep
<1> QED BY <1>1, <1>2, FifoInvariant, CapacityInvariant, PTL DEF Spec, ImplementsFifo, Fifo!Spec

-----------------------------------------------------------------------------
(* The producers that stored an item and have still to notify, and the     *)
(* consumers whose notification went to a pop that reported a timeout.     *)
Notifiers == {p \in Producers : pc[p] = "notify"}
LateConsumers == {c \in Consumers : pc[c] = "late"}

(* How many threads an item of the queue may wait for.                     *)
Coming == Cardinality(wokenPop) + Cardinality(Notifiers) + Cardinality(LateConsumers)

(* A consumer in one of the sets of m_cond_pop is blocked, and in one of   *)
(* them only.                                                              *)
BlockedConsumers ==
    /\ waitPop \cap wokenPop = {}
    /\ \A c \in waitPop \cup wokenPop : pc[c] = "waiting"

(* While a consumer sleeps, every item in the queue has a consumer that    *)
(* was woken for it, a producer that will still notify or a consumer that  *)
(* is late for it: the inductive invariant of NoLostWakeup.                *)
WakeupInv ==
    /\ BlockedConsumers
    /\ IsFiniteSet(wokenPop) /\ IsFiniteSet(Notifiers) /\ IsFiniteSet(LateConsumers)
    /\ waitPop # {} => Len(m_queue) <= Coming

(* One more, or one less, in a finite set.                                 *)
LEMMA OneMoreOrLess ==
    ASSUME NEW S, IsFiniteSet(S), NEW x
    PROVE  /\ IsFiniteSet(S \ {x}) /\ IsFiniteSet(S \cup {x})
           /\ Cardinality(S) \in Nat /\ Cardinality(S \ {x}) \in Nat
           /\ Cardinality(S) <= Cardinality(S \ {x}) + 1
           /\ x \in S => Cardinality(S \ {x}) = Cardinality(S) - 1
           /\ x \notin S => S \ {x} = S
           /\ x \notin S => Cardinality(S \cup {x}) = Cardinality(S) + 1
<1>1. /\ IsFiniteSet(S \ {x})
      /\ Cardinality(S \ {x}) = IF x \in S THEN Cardinality(S) - 1 ELSE Cardinality(S)
  BY FS_RemoveElement
<1>2. /\ IsFiniteSet(S \cup {x})
      /\ Cardinality(S \cup {x}) = IF x \in S THEN Cardinality(S) ELSE Cardinality(S) + 1
  BY FS_AddElement
<1>3. Cardinality(S) \in Nat /\ Cardinality(S \ {x}) \in Nat
  BY <1>1, FS_CardinalityType
<1>4. x \notin S => S \ {x} = S
  OBVIOUS
<1> QED BY <1>1, <1>2, <1>3, <1>4

(* One more, or one less, of what NoLostWakeup counts.                     *)
LEMMA WakeupCounts ==
    ASSUME FifoInv, WakeupInv
    PROVE  /\ Len(m_queue) \in Nat /\ Cardinality(wokenPop) \in Nat
           /\ Cardinality(Notifiers) \in Nat /\ Cardinality(LateConsumers) \in Nat
           /\ \A c \in Consumers :
                 /\ IsFiniteSet(wokenPop \ {c}) /\ IsFiniteSet(wokenPop \cup {c})
                 /\ Cardinality(wokenPop \ {c}) \in Nat
                 /\ Cardinality(wokenPop) <= Cardinality(wokenPop \ {c}) + 1
                 /\ c \notin wokenPop => wokenPop \ {c} = wokenPop
                 /\ c \notin wokenPop => Cardinality(wokenPop \cup {c}) = Cardinality(wokenPop) + 1
           /\ \A c \in Consumers :
                 /\ IsFiniteSet(LateConsumers \ {c}) /\ IsFiniteSet(LateConsumers \cup {c})
                 /\ Cardinality(LateConsumers \ {c}) \in Nat
                 /\ Cardinality(LateConsumers) <= Cardinality(LateConsumers \ {c}) + 1
                 /\ c \notin LateConsumers =>
                       Cardinality(LateConsumers \cup {c}) = Cardinality(LateConsumers) + 1
           /\ \A p \in Producers :
                 /\ IsFiniteSet(Notifiers \ {p}) /\ IsFiniteSet(Notifiers \cup {p})
                 /\ p \in Notifiers => Cardinality(Notifiers \ {p}) = Cardinality(Notifiers) - 1
                 /\ p \notin Notifiers =>
                       Cardinality(Notifiers \cup {p}) = Cardinality(Notifiers) + 1
<1>1. /\ m_queue \in Seq(Items) /\ IsFiniteSet(wokenPop) /\ IsFiniteSet(Notifiers)
      /\ IsFiniteSet(LateConsumers)
  BY DEF FifoInv, TypeOK, WakeupInv
<1>2. /\ Len(m_queue) \in Nat /\ Cardinality(wokenPop) \in Nat
      /\ Cardinality(Notifiers) \in Nat /\ Cardinality(LateConsumers) \in Nat
  BY <1>1, LenProperties, FS_CardinalityType
<1>3. ASSUME NEW c \in Consumers
      PROVE  /\ IsFiniteSet(wokenPop \ {c}) /\ IsFiniteSet(wokenPop \cup {c})
             /\ Cardinality(wokenPop \ {c}) \in Nat
             /\ Cardinality(wokenPop) <= Cardinality(wokenPop \ {c}) + 1
             /\ c \notin wokenPop => wokenPop \ {c} = wokenPop
             /\ c \notin wokenPop => Cardinality(wokenPop \cup {c}) = Cardinality(wokenPop) + 1
  BY <1>1, OneMoreOrLess
<1>4. ASSUME NEW c \in Consumers
      PROVE  /\ IsFiniteSet(LateConsumers \ {c}) /\ IsFiniteSet(LateConsumers \cup {c})
             /\ Cardinality(LateConsumers \ {c}) \in Nat
             /\ Cardinality(LateConsumers) <= Cardinality(LateConsumers \ {c}) + 1
             /\ c \notin LateConsumers =>
                   Cardinality(LateConsumers \cup {c}) = Cardinality(LateConsumers) + 1
  BY <1>1, OneMoreOrLess
<1>5. ASSUME NEW p \in Producers
      PROVE  /\ IsFiniteSet(Notifiers \ {p}) /\ IsFiniteSet(Notifiers \cup {p})
             /\ p \in Notifiers => Cardinality(Notifiers \ {p}) = Cardinality(Notifiers) - 1
             /\ p \notin Notifiers => Cardinality(Notifiers \cup {p}) = Cardinality(Notifiers) + 1
  BY <1>1, OneMoreOrLess
<1> QED BY <1>2, <1>3, <1>4, <1>5

(* WakeupInv is inductive over FifoInv: one step per operation.            *)
LEMMA WakeupStep ==
    ASSUME FifoInv, WakeupInv, [Next]_vars
    PROVE  WakeupInv'
<1> USE DEF settings
<1>0. /\ m_queue \in Seq(Items) /\ pc \in [Threads -> {"idle", "waiting", "notify", "late"}]
      /\ waitPop \subseteq Consumers /\ wokenPop \subseteq Consumers
      /\ BlockedConsumers /\ IsFiniteSet(wokenPop) /\ IsFiniteSet(Notifiers)
      /\ IsFiniteSet(LateConsumers)
      /\ waitPop # {} => Len(m_queue) <= Coming
  BY DEF FifoInv, TypeOK, WakeupInv
<1>a. ASSUME NEW t \in Threads, NEW v, pc' = [pc EXCEPT ![t] = v], t \in Producers
      PROVE  /\ v = "notify" => Notifiers' = Notifiers \cup {t}
             /\ v # "notify" => Notifiers' = Notifiers \ {t}
             /\ \A c \in Consumers : pc'[c] = pc[c]
             /\ LateConsumers' = LateConsumers
  BY <1>0, <1>a, QueueAssumption DEF Notifiers, LateConsumers, Threads
<1>b. ASSUME NEW c \in Consumers, NEW v, pc' = [pc EXCEPT ![c] = v]
      PROVE  /\ Notifiers' = Notifiers
             /\ pc'[c] = v /\ \A d \in Consumers \ {c} : pc'[d] = pc[d]
             /\ v = "late" => LateConsumers' = LateConsumers \cup {c}
             /\ v # "late" => LateConsumers' = LateConsumers \ {c}
             /\ pc[c] # "late" => c \notin LateConsumers /\ LateConsumers \ {c} = LateConsumers
  BY <1>0, <1>b, QueueAssumption DEF Notifiers, LateConsumers, Threads
<1>c. pc' = pc => Notifiers' = Notifiers /\ LateConsumers' = LateConsumers
  BY DEF Notifiers, LateConsumers
(* A producer stores an item and owes a notification. *)
<1>1. ASSUME NEW p \in Producers, Push(p) \/ PushWoken(p) PROVE WakeupInv'
  <2>1. /\ pc[p] # "notify" /\ pc' = [pc EXCEPT ![p] = "notify"] /\ p \in Threads
        /\ UNCHANGED <<waitPop, wokenPop>>
    BY <1>1 DEF Push, Offer, PushWoken, Store, condVars, Threads
  <2>2. Len(m_queue') <= Len(m_queue) + 1 /\ Len(m_queue') \in Nat
    <3>1. CASE \E i \in Items : m_queue' = Append(m_queue, i)
      BY <1>0, <3>1, AppendProperties, LenProperties
    <3>2. CASE \E i \in Items : Full /\ m_queue' = Append(Tail(m_queue), i)
      <4>1. Tail(m_queue) \in Seq(Items) /\ Len(Tail(m_queue)) = Len(m_queue) - 1
        BY <1>0, <3>2, FullNotEmpty, RemoveSplit DEF FifoInv
      <4> QED BY <1>0, <3>2, <4>1, AppendProperties, LenProperties
    <3>3. tried + 1 \in Items \/ PushWoken(p)
      BY <1>1, QueueAssumption DEF Push, Offer, FifoInv, TypeOK, Items
    <3>4. PushWoken(p) => item[p] \in Items
      BY DEF PushWoken, FifoInv, WaiterHasItem
    <3> QED BY <1>1, <3>1, <3>2, <3>3, <3>4 DEF Push, PushWoken, DropFront
  <2>3. Notifiers' = Notifiers \cup {p} /\ p \notin Notifiers /\ LateConsumers' = LateConsumers
    BY <1>a, <2>1 DEF Notifiers
  <2>4. BlockedConsumers'
    BY <1>0, <1>a, <2>1 DEF BlockedConsumers
  <2>5. /\ IsFiniteSet(Notifiers') /\ Cardinality(Notifiers') = Cardinality(Notifiers) + 1
        /\ Cardinality(Notifiers) \in Nat /\ Cardinality(wokenPop) \in Nat
        /\ Cardinality(LateConsumers) \in Nat /\ Len(m_queue) \in Nat
    BY <2>3, WakeupCounts
  <2>6. waitPop' # {} => Len(m_queue') <= Coming'
    BY <1>0, <2>1, <2>2, <2>3, <2>5 DEF Coming
  <2> QED BY <1>0, <2>1, <2>3, <2>4, <2>5, <2>6 DEF WakeupInv
(* A producer is refused, begins to wait or gives up. *)
<1>2. ASSUME NEW p \in Producers, PushRefused(p) \/ PushWait(p) \/ PushTimeout(p)
      PROVE  WakeupInv'
  <2>1. /\ UNCHANGED <<m_queue, waitPop, wokenPop>> /\ p \in Threads
        /\ \/ pc' = pc
           \/ /\ pc[p] # "notify"
              /\ pc' = [pc EXCEPT ![p] = "waiting"] \/ pc' = [pc EXCEPT ![p] = "idle"]
    BY <1>2 DEF PushRefused, PushWait, PushTimeout, Offer, condVars, Threads
  <2>2. Notifiers' = Notifiers /\ LateConsumers' = LateConsumers
    BY <1>a, <1>c, <2>1 DEF Notifiers
  <2>3. \A c \in Consumers : pc'[c] = pc[c]
    BY <1>a, <2>1
  <2> QED BY <1>0, <2>1, <2>2, <2>3 DEF WakeupInv, BlockedConsumers, Coming
(* The notification itself: one owed less, one consumer woken more. *)
<1>3. ASSUME NEW p \in Producers, PushReturn(p) PROVE WakeupInv'
  <2>1. /\ pc[p] = "notify" /\ pc' = [pc EXCEPT ![p] = "idle"] /\ p \in Threads
        /\ m_queue' = m_queue /\ PushNotify(p)
    BY <1>3 DEF PushReturn, Threads
  <2>2. /\ Notifiers' = Notifiers \ {p} /\ p \in Notifiers /\ LateConsumers' = LateConsumers
        /\ \A c \in Consumers : pc'[c] = pc[c]
    <3>1. p \in Notifiers
      BY <2>1 DEF Notifiers
    <3>2. Notifiers' = Notifiers \ {p}
      BY <1>0, <2>1 DEF Notifiers, Threads
    <3>3. LateConsumers' = LateConsumers /\ \A c \in Consumers : pc'[c] = pc[c]
      BY <1>a, <2>1
    <3> QED BY <3>1, <3>2, <3>3
  <2>3. /\ IsFiniteSet(Notifiers') /\ Cardinality(Notifiers') = Cardinality(Notifiers) - 1
        /\ Cardinality(Notifiers) \in Nat /\ Cardinality(wokenPop) \in Nat
        /\ Cardinality(LateConsumers) \in Nat /\ Len(m_queue) \in Nat
    BY <2>2, WakeupCounts
  <2>4. CASE waitPop = {} /\ UNCHANGED <<waitPop, wokenPop>>
    BY <1>0, <2>2, <2>3, <2>4 DEF WakeupInv, BlockedConsumers
  <2>5. ASSUME NEW c \in waitPop, waitPop' = waitPop \ {c}, wokenPop' = wokenPop \cup {c}
        PROVE  WakeupInv'
    <3>1. c \in Consumers /\ c \notin wokenPop
      BY <1>0 DEF BlockedConsumers
    <3>2. /\ IsFiniteSet(wokenPop') /\ Cardinality(wokenPop') = Cardinality(wokenPop) + 1
      BY <2>5, <3>1, WakeupCounts
    <3>3. BlockedConsumers'
      BY <1>0, <2>2, <2>5 DEF BlockedConsumers
    <3>4. Len(m_queue) <= Coming
      BY <1>0
    <3>5. Len(m_queue') <= Coming'
      BY <2>1, <2>2, <2>3, <3>2, <3>4 DEF Coming
    <3> QED BY <1>0, <2>2, <2>3, <3>2, <3>3, <3>5 DEF WakeupInv
  <2> QED BY <2>1, <2>4, <2>5 DEF PushNotify
(* A consumer that was not blocked takes an item; it may have been late. *)
<1>4. ASSUME NEW c \in Consumers, Pop(c) PROVE WakeupInv'
  <2>1. /\ pc[c] # "waiting" /\ pc' = [pc EXCEPT ![c] = "notify"]
        /\ m_queue # <<>> /\ m_queue' = Tail(m_queue)
        /\ UNCHANGED <<waitPop, wokenPop>>
    BY <1>4 DEF Pop, CallsPop, Remove, condVars
  <2>2. Len(m_queue') = Len(m_queue) - 1 /\ Len(m_queue) \in Nat
    BY <1>0, <2>1, RemoveSplit, LenProperties
  <2>3. /\ Notifiers' = Notifiers /\ LateConsumers' = LateConsumers \ {c}
        /\ \A d \in Consumers \ {c} : pc'[d] = pc[d]
    BY <1>b, <2>1
  <2>4. BlockedConsumers'
    BY <1>0, <2>1, <2>3 DEF BlockedConsumers
  <2>5. /\ IsFiniteSet(LateConsumers') /\ Cardinality(LateConsumers') \in Nat
        /\ Cardinality(LateConsumers) <= Cardinality(LateConsumers') + 1
        /\ Cardinality(LateConsumers) \in Nat
        /\ Cardinality(Notifiers) \in Nat /\ Cardinality(wokenPop) \in Nat
    BY <2>3, WakeupCounts
  <2>6. waitPop' # {} => Len(m_queue') <= Coming'
    BY <1>0, <2>1, <2>2, <2>3, <2>5 DEF Coming
  <2> QED BY <1>0, <2>1, <2>3, <2>4, <2>5, <2>6 DEF WakeupInv
(* A consumer finds the queue empty: it returns, or blocks, for the first *)
(* time or again. *)
<1>5. ASSUME NEW c \in Consumers,
             PopRefused(c) \/ PopWait(c) \/ (PopWoken(c) /\ m_queue = <<>>)
      PROVE  WakeupInv'
  <2>1. /\ m_queue = <<>> /\ m_queue' = <<>>
        /\ \/ /\ pc[c] # "waiting" /\ UNCHANGED <<waitPop, wokenPop>>
              /\ pc' = [pc EXCEPT ![c] = "idle"]
           \/ /\ pc[c] # "waiting" /\ waitPop' = waitPop \cup {c} /\ wokenPop' = wokenPop
              /\ pc' = [pc EXCEPT ![c] = "waiting"]
           \/ /\ pc[c] = "waiting" /\ waitPop' = waitPop \cup {c} /\ wokenPop' = wokenPop \ {c}
              /\ pc' = pc
    BY <1>5 DEF PopRefused, PopWait, PopWoken, CallsPop, condVars
  <2>2. /\ Notifiers' = Notifiers
        /\ LateConsumers' = LateConsumers \/ LateConsumers' = LateConsumers \ {c}
        /\ \A d \in Consumers \ {c} : pc'[d] = pc[d]
    BY <1>b, <1>c, <2>1
  <2>3. BlockedConsumers'
    <3>1. pc'[c] = "waiting" \/ UNCHANGED <<waitPop, wokenPop>>
      BY <1>b, <1>c, <2>1
    <3> QED BY <1>0, <2>1, <2>2, <3>1 DEF BlockedConsumers
  <2>4. IsFiniteSet(wokenPop') /\ IsFiniteSet(Notifiers') /\ IsFiniteSet(LateConsumers')
    BY <1>0, <2>1, <2>2, WakeupCounts
  <2>5. /\ Len(m_queue') = 0 /\ Cardinality(wokenPop') \in Nat
        /\ Cardinality(Notifiers') \in Nat /\ Cardinality(LateConsumers') \in Nat
    BY <2>1, <2>4, EmptySeq, FS_CardinalityType
  <2>6. Len(m_queue') <= Coming'
    BY <2>5 DEF Coming
  <2> QED BY <2>3, <2>4, <2>6 DEF WakeupInv
(* A blocked consumer takes an item: it is woken no more. *)
<1>6. ASSUME NEW c \in Consumers, PopWoken(c), m_queue # <<>> PROVE WakeupInv'
  <2>1. /\ pc[c] = "waiting" /\ pc' = [pc EXCEPT ![c] = "notify"] /\ m_queue' = Tail(m_queue)
        /\ waitPop' = waitPop \ {c} /\ wokenPop' = wokenPop \ {c}
    BY <1>6 DEF PopWoken, Remove
  <2>2. Len(m_queue') = Len(m_queue) - 1 /\ Len(m_queue) \in Nat
    BY <1>0, <1>6, <2>1, RemoveSplit, LenProperties
  <2>3. /\ Notifiers' = Notifiers /\ LateConsumers' = LateConsumers
        /\ \A d \in Consumers \ {c} : pc'[d] = pc[d]
    BY <1>b, <2>1
  <2>4. BlockedConsumers'
    BY <1>0, <2>1, <2>3 DEF BlockedConsumers
  <2>5. /\ IsFiniteSet(wokenPop') /\ Cardinality(wokenPop') \in Nat
        /\ Cardinality(wokenPop) <= Cardinality(wokenPop') + 1
        /\ Cardinality(Notifiers) \in Nat /\ Cardinality(wokenPop) \in Nat
        /\ Cardinality(LateConsumers) \in Nat
    BY <2>1, WakeupCounts
  <2>6. waitPop' # {} => waitPop # {}
    BY <2>1
  <2>7. waitPop' # {} => Len(m_queue') <= Coming'
    BY <1>0, <2>2, <2>3, <2>5, <2>6 DEF Coming
  <2> QED BY <1>0, <2>3, <2>4, <2>5, <2>7 DEF WakeupInv
(* A consumer gives up: it was not notified, or it is late. *)
<1>7. ASSUME NEW c \in Consumers, PopTimeout(c) PROVE WakeupInv'
  <2>1. /\ pc[c] = "waiting" /\ c \notin LateConsumers /\ m_queue' = m_queue
        /\ waitPop' = waitPop \ {c} /\ wokenPop' = wokenPop \ {c}
    BY <1>7 DEF PopTimeout, LateConsumers
  <2>2. CASE c \in waitPop /\ pc' = [pc EXCEPT ![c] = "idle"]
    <3>1. wokenPop' = wokenPop
      BY <1>0, <2>1, <2>2, WakeupCounts DEF BlockedConsumers
    <3>2. /\ Notifiers' = Notifiers /\ LateConsumers' = LateConsumers
          /\ \A d \in Consumers \ {c} : pc'[d] = pc[d]
      BY <1>b, <2>1, <2>2
    <3>3. BlockedConsumers'
      BY <1>0, <2>1, <3>1, <3>2 DEF BlockedConsumers
    <3>4. waitPop' # {} => Len(m_queue') <= Coming'
      BY <1>0, <2>1, <3>1, <3>2 DEF Coming
    <3> QED BY <1>0, <3>1, <3>2, <3>3, <3>4 DEF WakeupInv
  <2>3. CASE c \in wokenPop /\ pc' = [pc EXCEPT ![c] = "late"]
    <3>1. waitPop' = waitPop
      BY <1>0, <2>1, <2>3 DEF BlockedConsumers
    <3>2. /\ Notifiers' = Notifiers /\ LateConsumers' = LateConsumers \cup {c}
          /\ \A d \in Consumers \ {c} : pc'[d] = pc[d]
      BY <1>b, <2>3
    <3>3. BlockedConsumers'
      BY <1>0, <2>1, <3>1, <3>2, <2>3 DEF BlockedConsumers
    <3>4. /\ IsFiniteSet(wokenPop') /\ IsFiniteSet(LateConsumers')
          /\ Cardinality(wokenPop') \in Nat /\ Cardinality(wokenPop) \in Nat
          /\ Cardinality(wokenPop) <= Cardinality(wokenPop') + 1
          /\ Cardinality(LateConsumers') = Cardinality(LateConsumers) + 1
          /\ Cardinality(LateConsumers) \in Nat /\ Cardinality(Notifiers) \in Nat
          /\ Len(m_queue) \in Nat
      BY <2>1, <3>2, WakeupCounts
    <3>5. waitPop' # {} => Len(m_queue') <= Coming'
      BY <1>0, <2>1, <3>1, <3>2, <3>4 DEF Coming
    <3> QED BY <1>0, <3>2, <3>3, <3>4, <3>5 DEF WakeupInv
  <2> QED BY <1>7, <2>2, <2>3 DEF PopTimeout
<1>8. ASSUME NEW c \in Consumers, PopReturn(c) PROVE WakeupInv'
  <2>1. /\ pc[c] = "notify" /\ pc' = [pc EXCEPT ![c] = "idle"]
        /\ UNCHANGED <<m_queue, waitPop, wokenPop>>
    BY <1>8 DEF PopReturn
  <2>2. /\ Notifiers' = Notifiers /\ LateConsumers' = LateConsumers
        /\ \A d \in Consumers \ {c} : pc'[d] = pc[d]
    BY <1>b, <2>1
  <2>3. BlockedConsumers'
    BY <1>0, <2>1, <2>2 DEF BlockedConsumers
  <2> QED BY <1>0, <2>1, <2>2, <2>3 DEF WakeupInv, Coming
<1>9. ASSUME UNCHANGED vars PROVE WakeupInv'
  BY <1>0, <1>c, <1>9 DEF vars, condVars, WakeupInv, BlockedConsumers, Coming
<1> QED
  BY <1>1, <1>2, <1>3, <1>4, <1>5, <1>6, <1>7, <1>8, <1>9
  DEF Next, UntimedNext, TimedPush, ConsumerStep

(* A consumer never sleeps through an item, for any number of threads,     *)
(* with timed pushes, spurious wakeups and timeouts reported to threads    *)
(* that were notified: an item that nobody was woken for has a producer    *)
(* that will still notify or a consumer that is late for it.               *)
THEOREM WakeupsKept == Spec => []NoLostWakeup
<1>1. Init => WakeupInv
  <2> SUFFICES ASSUME Init PROVE WakeupInv
    OBVIOUS
  <2>1. waitPop = {} /\ wokenPop = {} /\ Notifiers = {} /\ LateConsumers = {}
    BY DEF Init, Notifiers, LateConsumers, Threads
  <2> QED BY <2>1, FS_EmptySet DEF WakeupInv, BlockedConsumers
<1>2. FifoInv /\ WakeupInv /\ [Next]_vars => WakeupInv'
  BY WakeupStep
<1>3. WakeupInv => NoLostWakeup
  BY DEF WakeupInv, Coming, NoLostWakeup, Notifiers, LateConsumers
<1> QED BY <1>1, <1>2, <1>3, FifoInvariant, PTL DEF Spec
=============================================================================
