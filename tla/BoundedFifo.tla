---------------------------- MODULE BoundedFifo ----------------------------
(***************************************************************************)
(* What the users of rpcframe's Queue rely on: items leave in the order in *)
(* which they were accepted, each once, and no more than max are held. A   *)
(* full queue may give up its oldest item if it is told to drop.           *)
(***************************************************************************)
EXTENDS Naturals, Sequences

CONSTANT Items

VARIABLES queue, max, drops

Init == queue = <<>> /\ max \in Nat /\ drops \in BOOLEAN

Put(i) ==
    /\ Len(queue) < max
    /\ queue' = Append(queue, i)
    /\ UNCHANGED <<max, drops>>

Replace(i) ==
    /\ drops
    /\ queue # <<>>
    /\ Len(queue) <= max
    /\ queue' = Append(Tail(queue), i)
    /\ UNCHANGED <<max, drops>>

Take ==
    /\ queue # <<>>
    /\ queue' = Tail(queue)
    /\ UNCHANGED <<max, drops>>

Next == (\E i \in Items : Put(i) \/ Replace(i)) \/ Take

Spec == Init /\ [][Next]_<<queue, max, drops>>
=============================================================================
