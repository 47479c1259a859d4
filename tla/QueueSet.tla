------------------------------ MODULE QueueSet ------------------------------
(***************************************************************************)
(* A FreeRTOS queue set is a queue of handles: a member queue posts its    *)
(* own handle for every message it takes.                                  *)
(***************************************************************************)
EXTENDS Integers, Sequences, FiniteSets

\* The places of a handle in a sequence of handles, and how many they are.
Places(handles, queue) == {k \in 1 .. Len(handles) : handles[k] = queue}

Occurrences(handles, queue) == Cardinality(Places(handles, queue))

\* Which of its queue's messages the k-th handle stands for: the first handle
\* of a queue for the first message, and so on.
Rank(handles, k) == Cardinality({j \in 1 .. k : handles[j] = handles[k]})

=============================================================================
