----------------------------- MODULE EventLinks -----------------------------
(***************************************************************************)
(* The links of event items.  vListInsert and vListInsertEnd do not look   *)
(* whether the item they link is still in a list: after a wait that ended  *)
(* by its time it may be.  From then on the lists are no longer rings that *)
(* share no item, and QueueIPC and EventGroup keep what the code keeps:    *)
(*                                                                         *)
(*   next, prev  the links of every node; a list's name is its marker      *)
(*   in          the container of every item, Free if it has none          *)
(*   count       what uxNumberOfItems of every list says                   *)
(*                                                                         *)
(* A removal mends the links next to the item and lowers the count of its  *)
(* container, whichever list the item was found through.  The serving      *)
(* index of these lists always stands on the marker.                       *)
(***************************************************************************)
EXTENDS Integers, FiniteSets, Sequences, SequencesExt

Free == "free"

ItemsOf(links) == DOMAIN links.in

(* The links of lists that share no item, given as sequences. *)
LinksOf(lists, items) ==
  LET names == DOMAIN lists
      ringOf == [l \in names |-> <<l>> \o lists[l]]
      nodes == items \cup names
      holders == [x \in nodes |-> {l \in names : Contains(ringOf[l], x)}]
      Neighbour(x, d) ==
        IF holders[x] = {} THEN x
        ELSE LET r == ringOf[CHOOSE l \in holders[x] : TRUE]
                 i == CHOOSE k \in 1 .. Len(r) : r[k] = x
             IN  r[((i - 1 + d) % Len(r)) + 1]
  IN  [next  |-> [x \in nodes |-> Neighbour(x, 1)],
       prev  |-> [x \in nodes |-> Neighbour(x, -1)],
       in    |-> [x \in items |-> IF holders[x] = {} THEN Free
                                  ELSE CHOOSE l \in holders[x] : TRUE],
       count |-> [l \in names |-> Len(lists[l])]]

(* The assignments of insert and insert_end, in their order: the node may  *)
(* be the item itself.                                                     *)
InsertedBefore(links, list, node, x) ==
  LET pre == links.prev[node]
  IN  [next  |-> [links.next EXCEPT ![x] = node, ![pre] = x],
       prev  |-> [links.prev EXCEPT ![x] = pre, ![node] = x],
       in    |-> [links.in EXCEPT ![x] = list],
       count |-> [links.count EXCEPT ![list] = @ + 1]]

InsertedAtEnd(links, list, x) == InsertedBefore(links, list, list, x)

(* The walk of insert meets the nodes after the marker and stops at the    *)
(* first of a set.  A walk that does not stop within as many steps as      *)
(* there are nodes never does.                                             *)
NodeAfter(links, list, steps) ==
  LET at[k \in 0 .. steps] == IF k = 0 THEN list ELSE links.next[at[k - 1]]
  IN  at[steps]

StepsTo(links, list, stops) ==
  {k \in 1 .. Cardinality(DOMAIN links.next) :
     NodeAfter(links, list, k) \in stops}

InsertedInOrder(links, list, stops, x) ==
  LET k == CHOOSE i \in StepsTo(links, list, stops) :
             \A j \in StepsTo(links, list, stops) : i <= j
  IN  InsertedBefore(links, list, NodeAfter(links, list, k), x)

(* uxListRemove, which does nothing for an item without a container. *)
Removed(links, x) ==
  IF links.in[x] = Free THEN links
  ELSE [next  |-> [links.next EXCEPT ![links.prev[x]] = links.next[x]],
        prev  |-> [links.prev EXCEPT ![links.next[x]] = links.prev[x]],
        in    |-> [links.in EXCEPT ![x] = Free],
        count |-> [links.count EXCEPT ![links.in[x]] = @ - 1]]

(* Wakeups while the scheduler is suspended, at most n of them: the head of *)
(* list goes to the end of list to, as long as list says it has items.  A   *)
(* marker in the place of the head has no owner, and unwrapping it panics.  *)
MovedHeads(links, list, to, n) ==
  LET after[k \in 0 .. n] ==
        IF k = 0 THEN [links |-> links, moved |-> {}, panics |-> FALSE]
        ELSE LET before == after[k - 1]
                 head == before.links.next[list]
             IN  IF before.panics \/ before.links.count[list] = 0 THEN before
                 ELSE IF head \notin ItemsOf(links)
                 THEN [before EXCEPT !.panics = TRUE]
                 ELSE [links  |-> InsertedAtEnd(Removed(before.links, head), to,
                                                head),
                       moved  |-> before.moved \cup {head},
                       panics |-> FALSE]
  IN  after[n]
=============================================================================
