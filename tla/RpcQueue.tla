------------------------------ MODULE RpcQueue ------------------------------
(***************************************************************************)
(* common/include/Queue.h: the bounded queue between the event loops and   *)
(* the worker threads, and the thread that pops from it in ThreadPool.     *)
(*                                                                         *)
(* A critical section of m_mutex is one step; notify_one comes after the   *)
(* unlock and is a step of its own. A thread blocked on a condition        *)
(* variable is in its wait set until it is notified, then in its woken set *)
(* until it has the mutex again. A consumer whose pop reported a timeout   *)
(* although it was notified is "late" until it calls pop again: its        *)
(* notification is gone.                                                   *)
(***************************************************************************)
EXTENDS Naturals, Sequences, FiniteSets

CONSTANTS
    Producers, Consumers,
    MaxItems,       \* how many items the producers try to push
    MaxSizes,       \* values m_max_q_len may be given
    DropOld,        \* values m_dropOldOnFull may be given
    PushMs, PopMs,  \* values of ms_val that push and pop are called with
    Spurious,       \* a wait may end though nobody notified
    LateTimeout     \* wait_for may report timeout though somebody notified

ASSUME QueueAssumption ==
    /\ Producers \cap Consumers = {}
    /\ MaxItems \in Nat
    /\ MaxSizes \in SUBSET (Nat \ {0})
    /\ DropOld \in SUBSET BOOLEAN
    /\ PushMs \in SUBSET Nat /\ PopMs \in SUBSET Nat
    /\ Spurious \in BOOLEAN /\ LateTimeout \in BOOLEAN

Items   == 1..MaxItems
Threads == Producers \cup Consumers

VARIABLES
    m_queue,
    m_max_q_len,
    m_dropOldOnFull,
    tried,              \* how many items were offered to push
    pc,                 \* where each thread is
    item,               \* the item a producer is pushing
    waitPop, wokenPop,  \* the consumers blocked on m_cond_pop, and notified
    waitPush, wokenPush,\* the producers blocked on m_cond_push, and notified
    accepted,           \* history: the items push accepted, in order
    removed             \* history: the items pop returned or push dropped

condVars == <<waitPop, wokenPop, waitPush, wokenPush>>
settings == <<m_max_q_len, m_dropOldOnFull>>
vars == <<m_queue, settings, tried, pc, item, condVars, accepted, removed>>

(* The type invariant.                                                     *)
TypeOK ==
    /\ m_queue \in Seq(Items)
    /\ m_max_q_len \in MaxSizes
    /\ m_dropOldOnFull \in DropOld
    /\ tried \in 0..MaxItems
    /\ pc \in [Threads -> {"idle", "waiting", "notify", "late"}]
    /\ item \in [Producers -> 0..MaxItems]
    /\ waitPop \in SUBSET Consumers
    /\ wokenPop \in SUBSET Consumers
    /\ waitPush \in SUBSET Producers
    /\ wokenPush \in SUBSET Producers
    /\ accepted \in Seq(Items)
    /\ removed \in Seq(Items)

Init ==
    /\ m_queue = <<>>
    /\ m_max_q_len \in MaxSizes
    /\ m_dropOldOnFull \in DropOld
    /\ tried = 0
    /\ pc = [t \in Threads |-> "idle"]
    /\ item = [p \in Producers |-> 0]
    /\ waitPop = {} /\ wokenPop = {} /\ waitPush = {} /\ wokenPush = {}
    /\ accepted = <<>>
    /\ removed = <<>>

-----------------------------------------------------------------------------
(* Mutants: the bound is off by one; the newest item is dropped.           *)
FullLate == Len(m_queue) > m_max_q_len
DropNewest(i) ==
    /\ m_queue' = Append(SubSeq(m_queue, 1, Len(m_queue) - 1), i)
    /\ removed' = Append(removed, m_queue[Len(m_queue)])

Full == Len(m_queue) >= m_max_q_len

(* The front of a full queue makes room for item i.                        *)
DropFront(i) ==
    /\ m_queue' = Append(Tail(m_queue), i)
    /\ removed' = Append(removed, Head(m_queue))

(* push begins with the next item.                                         *)
Offer(p) ==
    /\ pc[p] = "idle"
    /\ tried < MaxItems
    /\ tried' = tried + 1
    /\ item' = [item EXCEPT ![p] = tried + 1]

(* m_queue.push(item), and the notification is still to come.              *)
Store(p, i) ==
    /\ pc' = [pc EXCEPT ![p] = "notify"]
    /\ accepted' = Append(accepted, i)

(* push: there is room, or m_dropOldOnFull makes some.                     *)
Push(p) ==
    /\ Offer(p)
    /\ Store(p, tried + 1)
    /\ \/ ~Full /\ m_queue' = Append(m_queue, tried + 1) /\ UNCHANGED removed
       \/ Full /\ m_dropOldOnFull /\ DropFront(tried + 1)
    /\ UNCHANGED <<settings, condVars>>

(* push(item, 0) on a full queue returns false.                            *)
PushRefused(p) ==
    /\ Offer(p)
    /\ Full /\ ~m_dropOldOnFull /\ 0 \in PushMs
    /\ UNCHANGED <<m_queue, settings, pc, condVars, accepted, removed>>

(* push(item, ms) on a full queue waits for a pop.                         *)
PushWait(p) ==
    /\ Offer(p)
    /\ Full /\ ~m_dropOldOnFull /\ (\E ms \in PushMs : ms > 0)
    /\ pc' = [pc EXCEPT ![p] = "waiting"]
    /\ waitPush' = waitPush \cup {p}
    /\ UNCHANGED <<m_queue, settings, waitPop, wokenPop, wokenPush, accepted,
                   removed>>

(* wait_for came back: the item is stored without another look at the size.*)
PushWoken(p) ==
    /\ pc[p] = "waiting"
    /\ p \in wokenPush \/ Spurious
    /\ waitPush' = waitPush \ {p}
    /\ wokenPush' = wokenPush \ {p}
    /\ Store(p, item[p])
    /\ m_queue' = Append(m_queue, item[p])
    /\ UNCHANGED <<settings, tried, item, waitPop, wokenPop, removed>>

(* wait_for reports a timeout: push returns false.                         *)
PushTimeout(p) ==
    /\ pc[p] = "waiting"
    /\ p \in waitPush \/ LateTimeout
    /\ pc' = [pc EXCEPT ![p] = "idle"]
    /\ waitPush' = waitPush \ {p}
    /\ wokenPush' = wokenPush \ {p}
    /\ UNCHANGED <<m_queue, settings, tried, item, waitPop, wokenPop, accepted,
                   removed>>

(* m_cond_pop.notify_one() wakes one waiter, if there is one.              *)
PushNotifyLost(p) == wokenPop' = wokenPop /\ waitPop' = waitPop    \* mutant
PushNotify(p) ==
    \/ /\ waitPop = {}
       /\ UNCHANGED <<waitPop, wokenPop>>
    \/ \E c \in waitPop :
          /\ waitPop' = waitPop \ {c}
          /\ wokenPop' = wokenPop \cup {c}

PushReturn(p) ==
    /\ pc[p] = "notify"
    /\ PushNotify(p)
    /\ pc' = [pc EXCEPT ![p] = "idle"]
    /\ UNCHANGED <<m_queue, settings, tried, item, waitPush, wokenPush, accepted,
                   removed>>

-----------------------------------------------------------------------------
(* Mutant: the newest item is returned.                                    *)
RemoveNewest(c) ==
    /\ m_queue' = SubSeq(m_queue, 1, Len(m_queue) - 1)
    /\ removed' = Append(removed, m_queue[Len(m_queue)])
    /\ pc' = [pc EXCEPT ![c] = "notify"]

(* m_queue.front() and m_queue.pop(), and the notification is to come.     *)
Remove(c) ==
    /\ m_queue' = Tail(m_queue)
    /\ removed' = Append(removed, Head(m_queue))
    /\ pc' = [pc EXCEPT ![c] = "notify"]

(* pop begins.                                                             *)
CallsPop(c) == pc[c] \in {"idle", "late"}

(* pop(item, 0) on an empty queue returns false.                           *)
PopRefused(c) ==
    /\ CallsPop(c)
    /\ m_queue = <<>>
    /\ 0 \in PopMs
    /\ pc' = [pc EXCEPT ![c] = "idle"]
    /\ UNCHANGED <<m_queue, settings, tried, item, condVars, accepted, removed>>

(* pop on a queue that is not empty.                                       *)
Pop(c) ==
    /\ CallsPop(c)
    /\ m_queue # <<>>
    /\ Remove(c)
    /\ UNCHANGED <<settings, tried, item, condVars, accepted>>

(* Mutant: pop waits on the other condition variable.                      *)
PopWaitPush(c) ==
    /\ CallsPop(c)
    /\ m_queue = <<>>
    /\ \E ms \in PopMs : ms > 0
    /\ pc' = [pc EXCEPT ![c] = "waiting"]
    /\ waitPush' = waitPush \cup {c}
    /\ UNCHANGED <<m_queue, settings, tried, item, waitPop, wokenPop, wokenPush,
                   accepted, removed>>

(* pop(item, ms) on an empty queue waits for a push.                       *)
PopWait(c) ==
    /\ CallsPop(c)
    /\ m_queue = <<>>
    /\ \E ms \in PopMs : ms > 0
    /\ pc' = [pc EXCEPT ![c] = "waiting"]
    /\ waitPop' = waitPop \cup {c}
    /\ UNCHANGED <<m_queue, settings, tried, item, wokenPop, waitPush, wokenPush,
                   accepted, removed>>

(* wait_for came back: pop looks again, and waits again if there is        *)
(* nothing.                                                                *)
PopWoken(c) ==
    /\ pc[c] = "waiting"
    /\ c \in wokenPop \/ Spurious
    /\ wokenPop' = wokenPop \ {c}
    /\ \/ /\ m_queue = <<>>
          /\ waitPop' = waitPop \cup {c}
          /\ UNCHANGED <<m_queue, pc, removed>>
       \/ /\ m_queue # <<>>
          /\ waitPop' = waitPop \ {c}
          /\ Remove(c)
    /\ UNCHANGED <<settings, tried, item, waitPush, wokenPush, accepted>>

(* Mutant: after a timeout pop waits again without looking at the queue.   *)
PopTimeoutAgain(c) ==
    /\ pc[c] = "waiting"
    /\ c \in waitPop \/ LateTimeout
    /\ waitPop' = waitPop \cup {c}
    /\ wokenPop' = wokenPop \ {c}
    /\ UNCHANGED <<m_queue, settings, tried, pc, item, waitPush, wokenPush, accepted,
                   removed>>

(* wait_for reports a timeout: pop returns false, whatever the queue holds.*)
PopTimeout(c) ==
    /\ pc[c] = "waiting"
    /\ \/ c \in waitPop /\ pc' = [pc EXCEPT ![c] = "idle"]
       \/ c \in wokenPop /\ LateTimeout /\ pc' = [pc EXCEPT ![c] = "late"]
    /\ waitPop' = waitPop \ {c}
    /\ wokenPop' = wokenPop \ {c}
    /\ UNCHANGED <<m_queue, settings, tried, item, waitPush, wokenPush, accepted,
                   removed>>

(* m_cond_push.notify_one(), after the unlock.                             *)
PopReturn(c) ==
    /\ pc[c] = "notify"
    /\ \/ /\ waitPush = {}
          /\ UNCHANGED <<waitPush, wokenPush>>
       \/ \E p \in waitPush :
             /\ waitPush' = waitPush \ {p}
             /\ wokenPush' = wokenPush \cup {p}
    /\ pc' = [pc EXCEPT ![c] = "idle"]
    /\ UNCHANGED <<m_queue, settings, tried, item, waitPop, wokenPop, accepted,
                   removed>>

(* A thread goes on. The framework pushes without a timeout; a push with   *)
(* one may wait.                                                           *)
TimedPush(p) == PushWait(p) \/ PushWoken(p) \/ PushTimeout(p)

ConsumerStep(c) ==
    Pop(c) \/ PopWait(c) \/ PopWoken(c) \/ PopTimeout(c) \/ PopReturn(c)

UntimedNext ==
    \/ \E p \in Producers : Push(p) \/ PushRefused(p) \/ PushReturn(p)
    \/ \E c \in Consumers : PopRefused(c) \/ ConsumerStep(c)

Next == UntimedNext \/ \E p \in Producers : TimedPush(p)

Spec == Init /\ [][Next]_vars

(* The queue as the framework uses it. The threads are scheduled, and a    *)
(* consumer pops in a loop, as the workers of ThreadPool do; nothing       *)
(* obliges a producer to push.                                             *)
UntimedSpec ==
    /\ Init /\ [][UntimedNext]_vars
    /\ \A p \in Producers : WF_vars(PushReturn(p))
    /\ \A c \in Consumers : WF_vars(ConsumerStep(c))

-----------------------------------------------------------------------------
(* The queue holds what was accepted and not yet removed, in order: nothing*)
(* is lost, doubled or overtaken, with any mix of timed and untimed calls. *)
FifoOrder == accepted = removed \o m_queue

(* The queue never holds more than m_max_q_len items.                      *)
Capacity == Len(m_queue) <= m_max_q_len

(* A consumer does not sleep through an item: while one is blocked and not *)
(* notified, each item has a notified consumer, a notification that is     *)
(* still to come, or a consumer that lost its notification to a timeout    *)
(* and has not called pop since.                                           *)
NoLostWakeup ==
    waitPop # {} =>
        Len(m_queue) <= Cardinality(wokenPop)
                          + Cardinality({p \in Producers : pc[p] = "notify"})
                          + Cardinality({c \in Consumers : pc[c] = "late"})

(* An accepted item is eventually removed.                                 *)
EveryItemRemoved ==
    \A i \in Items :
        (\E n \in DOMAIN accepted : accepted[n] = i)
            ~> (\E n \in DOMAIN removed : removed[n] = i)

(* The queue implements the bounded FIFO.                                  *)
Fifo == INSTANCE BoundedFifo WITH queue <- m_queue, max <- m_max_q_len,
                                    drops <- m_dropOldOnFull
ImplementsFifo == Fifo!Spec
=============================================================================
