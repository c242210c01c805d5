---------------------------- MODULE RateLimiter -----------------------------
(***************************************************************************)
(* The rate limit of the collector's HTTP server                           *)
(* (cmd/collector/ratelimit.go): a map from client addresses to limiters   *)
(* behind a mutex.  Concurrent handlers look their limiter up, or create   *)
(* it, under the lock, and ask it for a token after they have released it. *)
(* A limiter is the token bucket of golang.org/x/time/rate.                *)
(***************************************************************************)
EXTENDS Integers, FiniteSetsExt

CONSTANTS Calls,    \* HTTP requests
          Client,   \* Client[c]: the address a request comes from
          Rate,     \* tokens per tick (100 a second)
          Burst,    \* size of a bucket (200)
          MaxTicks  \* bound of the clock

None == "none"

ASSUME LimiterAssumption == /\ Rate \in Nat /\ Burst \in Nat /\ MaxTicks \in Nat
                            /\ None \notin Calls

Addresses == {Client[c] : c \in Calls}

VARIABLES
    clients,  \* the map: the call that created an address's limiter, or None
    limiter,  \* the limiter a call has looked up
    tokens,   \* tokens in the limiter created by a call
    time,     \* the clock
    passed,   \* when a call was let through
    refused   \* when it was answered with 429

limitVars == <<clients, limiter, tokens, time, passed, refused>>

NotYet == -1
Times == 0..MaxTicks

LimitTypeOK == /\ clients \in [Addresses -> Calls \cup {None}]
               /\ limiter \in [Calls -> Calls \cup {None}]
               /\ tokens \in [Calls -> 0..Burst]
               /\ time \in Times
               /\ passed \in [Calls -> Times \cup {NotYet}]
               /\ refused \in [Calls -> Times \cup {NotYet}]

LimitInit == /\ clients = [a \in Addresses |-> None]
             /\ limiter = [c \in Calls |-> None]
             /\ tokens = [c \in Calls |-> Burst]
             /\ time = 0
             /\ passed = [c \in Calls |-> NotYet]
             /\ refused = [c \in Calls |-> NotYet]

\* Every bucket takes in Rate tokens and holds Burst at most.
Refill == /\ time < MaxTicks
          /\ time' = time + 1
          /\ tokens' = [c \in Calls |-> IF tokens[c] + Rate < Burst THEN tokens[c] + Rate ELSE Burst]
          /\ UNCHANGED <<clients, limiter, passed, refused>>

\* Mutant: Unlock before the entry is made: two calls may each create one.
LookUpUnlocked(c) ==
    /\ limiter[c] = None
    /\ \E l \in {clients[Client[c]], c} \ {None} :
          /\ clients' = [clients EXCEPT ![Client[c]] = l]
          /\ limiter' = [limiter EXCEPT ![c] = l]
    /\ UNCHANGED <<tokens, time, passed, refused>>

\* Mutant: one limiter for all addresses.
LookUpShared(c) ==
    LET l == CHOOSE l \in Calls : TRUE IN
    /\ limiter[c] = None
    /\ clients' = [clients EXCEPT ![Client[c]] = l]
    /\ limiter' = [limiter EXCEPT ![c] = l]
    /\ UNCHANGED <<tokens, time, passed, refused>>

\* limiter(ip), under the lock
LookUp(c) ==
    LET found == clients[Client[c]]
        l == IF found = None THEN c ELSE found IN
    /\ limiter[c] = None
    /\ clients' = [clients EXCEPT ![Client[c]] = l]
    /\ limiter' = [limiter EXCEPT ![c] = l]
    /\ UNCHANGED <<tokens, time, passed, refused>>

Asking(c) == limiter[c] # None /\ passed[c] = NotYet /\ refused[c] = NotYet

\* Allow() takes a token: the handler goes on.
Allow(c) == /\ Asking(c)
            /\ tokens[limiter[c]] > 0
            /\ tokens' = [tokens EXCEPT ![limiter[c]] = @ - 1]
            /\ passed' = [passed EXCEPT ![c] = time]
            /\ UNCHANGED <<clients, limiter, time, refused>>

\* 429: the bucket is empty.
Refuse(c) == /\ Asking(c)
             /\ tokens[limiter[c]] = 0
             /\ refused' = [refused EXCEPT ![c] = time]
             /\ UNCHANGED <<clients, limiter, tokens, time, passed>>

LimitNext == Refill \/ \E c \in Calls : LookUp(c) \/ Allow(c) \/ Refuse(c)

LimitSpec == LimitInit /\ [][LimitNext]_limitVars

-----------------------------------------------------------------------------
(* Properties *)

PassedOf(a, from, to) ==
    Cardinality({c \in Calls : Client[c] = a /\ passed[c] \in from..to})

Capacity(from, to) == Burst + Rate * (to - from)

\* "limits each IP to rps requests/second with a burst": in no span of time
\* does an address get more through than the rate and one burst allow, however
\* its first calls race for the limiter.
BurstIsBound ==
    \A a \in Addresses : \A from, to \in Times :
       from <= to => PassedOf(a, from, to) <= Capacity(from, to)

\* A call is refused only for its own address's flood: up to that moment the
\* address has used up all that some span of time allowed it.
RefusedForOwnFlood ==
    \A c \in Calls :
       refused[c] # NotYet =>
          \E from \in 0..refused[c] :
             PassedOf(Client[c], from, refused[c]) >= Capacity(from, refused[c])

\* An address without a limiter is about to get a full one.
Bucket == INSTANCE TokenBuckets WITH
   bucket <- [a \in Addresses |-> IF clients[a] = None THEN Burst ELSE tokens[clients[a]]],
   answer <- [c \in Calls |-> CASE passed[c] # NotYet -> "passed"
                                [] refused[c] # NotYet -> "refused"
                                [] OTHER -> "none"]

\* Looking the limiter up under the lock and asking it for a token after its
\* release comes to one atomic bucket for each address.
OneBucketEach == Bucket!Spec
=============================================================================
