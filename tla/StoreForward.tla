---------------------------- MODULE StoreForward ----------------------------
(***************************************************************************)
(* What the server promises its subscribers, with no log, no cursors and   *)
(* no pointers: for every client ID and topic the mode the client asked    *)
(* for last, and the messages it missed while it was away and still has    *)
(* to get.                                                                 *)
(*                                                                         *)
(* A send loop of the server writes one batch of messages to one           *)
(* connection; out holds the batches the last handler wrote, by receiving  *)
(* ID and by topic.                                                        *)
(*                                                                         *)
(* The promise has three grades.  It is exact for an ordinary pair.  It is *)
(* "at least once" for a pair in doubled, the pairs that ever had two      *)
(* subscription entries at the same time.  It is void for a topic in       *)
(* corrupt, the topics whose subscribers were read through a pointer to    *)
(* freed memory.                                                           *)
(***************************************************************************)
EXTENDS Sequences

CONSTANTS IDs,      \* the client IDs
          Topics,   \* the topic names
          Msgs      \* the messages publishers send

VARIABLES online,   \* the IDs with a connection
          mode,     \* mode[id][t]: "none", "live" or "sf"
          queue,    \* queue[id][t]: what id still has to get on topic t
          out,      \* out[id][t]: the batches the last handler wrote
          doubled,  \* pairs with the weaker promise
          corrupt   \* topics with no promise

vars == <<online, mode, queue, out, doubled, corrupt>>

Nothing == [id \in IDs |-> [t \in Topics |-> << >>]]

Init ==
  /\ online = {}
  /\ mode = [id \in IDs |-> [t \in Topics |-> "none"]]
  /\ queue = Nothing
  /\ out = Nothing
  /\ doubled = {}
  /\ corrupt = {}

(***************************************************************************)
(* The batches a step writes and what it leaves queued, each pair held to  *)
(* its grade.  A pair that becomes doubled, or a topic that becomes        *)
(* corrupt, is held to the weaker grade from that very step on; no pair    *)
(* and no topic ever goes back.                                            *)
(***************************************************************************)
Holds(id, t, batches) ==
  IF <<id, t>> \in doubled'
    THEN \A i \in DOMAIN batches : \E j \in DOMAIN out'[id][t] : out'[id][t][j] = batches[i]
    ELSE out'[id][t] = batches

Delivers(batches, left) ==
  /\ doubled \subseteq doubled'
  /\ corrupt \subseteq corrupt'
  /\ \A id \in IDs, t \in Topics \ corrupt' :
       /\ Holds(id, t, batches[id][t])
       /\ queue'[id][t] = left[id][t]

(***************************************************************************)
(* A client that returns gets, on each store-and-forward topic, one batch: *)
(* all it missed, in order.  A client that leaves loses no subscription.   *)
(***************************************************************************)
Connect(id) ==
  /\ id \notin online
  /\ online' = online \cup {id}
  /\ mode' = mode
  /\ Delivers([Nothing EXCEPT ![id] = [t \in Topics |->
                 IF mode[id][t] = "sf" THEN <<queue[id][t]>> ELSE << >>]],
              [queue EXCEPT ![id] = [t \in Topics |-> << >>]])

Disconnect(id) ==
  /\ online' = online \ {id}
  /\ mode' = mode
  /\ Delivers(Nothing, queue)

\* A refused connection, or a command that concerns no topic.
Ignore ==
  /\ UNCHANGED <<online, mode>>
  /\ Delivers(Nothing, queue)

\* subscribe t 0, subscribe t 1 and unsubscribe t set the mode of the pair.
Ask(id, t, m) ==
  /\ id \in online
  /\ mode' = [mode EXCEPT ![id][t] = m]
  /\ online' = online
  /\ Delivers(Nothing, queue)

(***************************************************************************)
(* A message goes at once to every connected subscriber, and is kept for   *)
(* every absent one with store-and-forward.                                *)
(***************************************************************************)
Publish(t, m) ==
  /\ UNCHANGED <<online, mode>>
  /\ Delivers([id \in IDs |-> [u \in Topics |->
                 IF u = t /\ id \in online /\ mode[id][t] # "none"
                   THEN << <<m>> >> ELSE << >>]],
              [id \in IDs |-> [u \in Topics |->
                 IF u = t /\ id \notin online /\ mode[id][t] = "sf"
                   THEN Append(queue[id][t], m) ELSE queue[id][u]]])

Next ==
  \/ \E id \in IDs : Connect(id) \/ Disconnect(id)
  \/ \E id \in IDs, t \in Topics, m \in {"none", "live", "sf"} : Ask(id, t, m)
  \/ \E t \in Topics, m \in Msgs : Publish(t, m)
  \/ Ignore

Spec == Init /\ [][Next]_vars
=============================================================================
