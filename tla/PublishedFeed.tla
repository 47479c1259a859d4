---------------------------- MODULE PublishedFeed ----------------------------
(***************************************************************************)
(* What the filter queues, their queue set and the controller of practice  *)
(* 2 promise together: one feed.  Means published by different sensors are *)
(* shown one by one in the order in which they were published; none is     *)
(* lost, repeated or overtaken.  The board may restart only while nothing  *)
(* has been shown.                                                         *)
(***************************************************************************)
EXTENDS Sequences

CONSTANTS
  Items,      \* what can be published: a sensor and its sample
  Nothing     \* no item has been shown yet

VARIABLES
  feed,       \* published and not yet shown, oldest first
  lastShown   \* the item shown last, or Nothing

feedVars == <<feed, lastShown>>

Init ==
  /\ feed = <<>>
  /\ lastShown = Nothing

Publish(item) ==
  /\ feed' = Append(feed, item)
  /\ UNCHANGED lastShown

Show ==
  /\ feed # <<>>
  /\ lastShown' = Head(feed)
  /\ feed' = Tail(feed)

Restart ==
  /\ lastShown = Nothing
  /\ feed' = <<>>
  /\ UNCHANGED lastShown

Next == Show \/ Restart \/ \E item \in Items : Publish(item)

Spec == Init /\ [][Next]_feedVars

=============================================================================
