------------------------- MODULE MCBroadcastPresence --------------------------
(* Instances of BroadcastPresence for TLC. *)
EXTENDS BroadcastPresence

CONSTANTS n1, n2, s1, s2, s3, s4, alice, bob

(* Bob watches on both workers or on the second; alice comes to one, or to both. *)
TwoHomes == [s \in Sockets |-> IF s \in {s1, s4} THEN n1 ELSE n2]
AliceTwice == [s \in Sockets |-> IF s \in {s3, s4} THEN bob ELSE alice]

(* One fault happens while alice comes to stay where bob is connected too, or to a worker of
   her own, or she comes to both workers without faults. *)
OneOrBoth ==
    {[absent |-> {s1}, faults |-> 1], [absent |-> {s2, s4}, faults |-> 1], [absent |-> {s4}, faults |-> 0]}

(* The commands whose rejection the code makes up for. *)
Recovered ==
    ({"own"} \X {"own_read", "own_tell", "own_delete", "own_set", "own_add"})
    \cup ({"check"} \X {"read", "probe", "evict", "delete"})
    \cup {<<"clean", "clean_delete">>, <<"undo", "delete">>,
          <<"join", "lease">>, <<"join", "set">>, <<"join", "announce">>,
          <<"leave", "leave_delete">>, <<"leave", "leave_tell">>}
===============================================================================
