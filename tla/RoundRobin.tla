----------------------------- MODULE RoundRobin -----------------------------
(***************************************************************************)
(* The service a ready list gives its tasks.  The list is used the way the *)
(* scheduler uses it: items enter with vListInsertEnd only, leave at any   *)
(* time, and getOwnerOfNextEntry picks the next to run.  A history counts, *)
(* for every item i, how often every other was served while i waited.      *)
(***************************************************************************)
EXTENDS XList

CONSTANT CountBound   \* the history counts no further

VARIABLE passed       \* passed[i][j]: j served since i was served or entered

rrvars == <<vars, passed>>

Fresh == [j \in Items |-> 0]

RRInit == Init /\ passed = [i \in Items |-> Fresh]

(* A waiting item enters or is served: its count starts again; the others  *)
(* note whom they saw served.                                              *)
Enter(l, i) ==
  /\ vListInsertEnd(l, i)
  /\ passed' = [passed EXCEPT ![i] = Fresh]

Leave(i) ==
  /\ uxListRemove(i)
  /\ passed' = [passed EXCEPT ![i] = Fresh]

ServeNext(l) ==
  /\ getOwnerOfNextEntry(l)
  /\ owner' # None
  /\ passed' =
       [i \in Items |->
          IF pxContainer[i] # l THEN passed[i]
          ELSE IF i = owner' THEN Fresh
          ELSE [passed[i] EXCEPT ![owner'] = IF @ < CountBound THEN @ + 1
                                             ELSE @]]

RRNext ==
  \/ \E l \in Lists, i \in Items : Enter(l, i)
  \/ \E i \in Items : Leave(i)
  \/ \E l \in Lists : ServeNext(l)

RRSpec == RRInit /\ [][RRNext]_rrvars
-----------------------------------------------------------------------------
(* An item that leaves and comes back, as a task that delays, can be       *)
(* served a second time before one that stayed, because the index steps    *)
(* back when the running item leaves; never a third time.                  *)
AtMostTwice == \A i, j \in Items : passed[i][j] <= 2
=============================================================================
