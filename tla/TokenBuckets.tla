---------------------------- MODULE TokenBuckets ----------------------------
(***************************************************************************)
(* What the rate limit of the collector's HTTP server promises, whatever   *)
(* map, lock and race for a limiter lie between: each address has a single *)
(* bucket of its own, full from the start, and a call takes a token from   *)
(* its address's bucket or is refused because that one is empty.           *)
(***************************************************************************)
EXTENDS Naturals

CONSTANTS Calls,    \* HTTP requests
          Client,   \* Client[c]: the address a request comes from
          Rate,     \* tokens per tick
          Burst     \* size of a bucket

Addresses == {Client[c] : c \in Calls}

VARIABLES bucket,   \* tokens of an address
          answer    \* what a call was told

vars == <<bucket, answer>>

Init == /\ bucket = [a \in Addresses |-> Burst]
        /\ answer = [c \in Calls |-> "none"]

Refill == /\ bucket' = [a \in Addresses |->
                          IF bucket[a] + Rate < Burst THEN bucket[a] + Rate ELSE Burst]
          /\ UNCHANGED answer

Take(c) == /\ answer[c] = "none"
           /\ bucket[Client[c]] > 0
           /\ bucket' = [bucket EXCEPT ![Client[c]] = @ - 1]
           /\ answer' = [answer EXCEPT ![c] = "passed"]

Refuse(c) == /\ answer[c] = "none"
             /\ bucket[Client[c]] = 0
             /\ answer' = [answer EXCEPT ![c] = "refused"]
             /\ UNCHANGED bucket

Next == Refill \/ \E c \in Calls : Take(c) \/ Refuse(c)

Spec == Init /\ [][Next]_vars
=============================================================================
