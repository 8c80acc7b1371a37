------------------------------ MODULE RateLimit ------------------------------
(***************************************************************************)
(* Request throttling: rate_limit.rs and require_rate_limit of             *)
(* auth/guard.rs.  A request is charged to its client's address and then   *)
(* to the identifier it names, each first in a bounded map of the process  *)
(* and then in a counter of the datastore that all processes share and     *)
(* whose key carries the number of the 60 s window.  Time is counted in    *)
(* ticks, Window of them to a window; a request takes less than a window.  *)
(***************************************************************************)
EXTENDS Integers, Sequences, FiniteSets

CONSTANTS
  Requests, Clients, Identifiers, Forged,   \* Forged: addresses a client may write in a header
  Budget, Window, Hops,                     \* Hops: trusted proxies in front of the service
  Traffic,                                    \* traffic and capacity: clients, identifiers, capacity
  Nobody

VARIABLES
  windows,    \* the map of the process: key -> requests counted and age of the window
  shared,     \* counters of the current and of the last epoch, per key, up to Budget
  phase,      \* ticks since the current epoch began
  call,       \* requests under way
  load,       \* the traffic, and the capacity of the map
  watched,    \* the address or identifier whose admitted requests are counted
  admitted    \* how many, by the age of their arrival

limitVars == <<windows, shared, phase, call, load, watched, admitted>>

Keys == {"addr"} \X (Clients \cup Forged \cup {Nobody}) \cup {"subj"} \X Identifiers

\* client_address: as many entries from the right as there are trusted proxies.
client_address(peer, forwarded, hops) ==
  IF hops = 0 \/ Len(forwarded) < hops THEN peer ELSE forwarded[Len(forwarded) - hops + 1]

\* joined_forwarded_for: what the client wrote, what each proxy on the way appended.
joined_forwarded_for(client, forged) ==
  forged \o (IF Hops = 0 THEN <<>> ELSE [i \in 1..Hops |-> IF i = 1 THEN client ELSE Nobody])

Peer(client) == IF Hops = 0 THEN client ELSE Nobody

LimitInit ==
  /\ windows = <<>> /\ phase = 0 /\ call = <<>>
  /\ shared = [now |-> [k \in Keys |-> 0], last |-> [k \in Keys |-> 0]]
  /\ load \in Traffic
  /\ watched \in {"addr"} \X load.clients \cup {"subj"} \X load.identifiers
  /\ admitted = [age \in 0..Window-1 |-> 0]

-----------------------------------------------------------------------------
Arrive(r, client, forged, identifier) ==
  /\ r \notin DOMAIN call
  /\ LET addr == client_address(Peer(client), joined_forwarded_for(client, forged), Hops)
         keys == <<<<"addr", addr>>>> \o (IF identifier = Nobody THEN <<>> ELSE <<<<"subj", identifier>>>>)
     IN  call' = [x \in DOMAIN call \cup {r} |->
                    IF x = r THEN [client |-> client, keys |-> keys, i |-> 1, at |-> "local",
                                   allowed |-> TRUE, epoch |-> "now", age |-> 0]
                    ELSE call[x]]
  /\ UNCHANGED <<windows, shared, phase, load, watched, admitted>>

\* A full map first drops the windows that have passed.
Live == {k \in DOMAIN windows : windows[k].age < Window}
Room(key) == key \in DOMAIN windows \/ Cardinality(DOMAIN windows) < load.capacity
               \/ Cardinality(Live) < load.capacity

Kept(key) ==
  IF key \in DOMAIN windows \/ Cardinality(DOMAIN windows) < load.capacity THEN DOMAIN windows ELSE Live

Counted(key) ==
  IF key \in DOMAIN windows /\ windows[key].age < Window
  THEN [windows[key] EXCEPT !.count = IF @ <= Budget THEN @ + 1 ELSE @]
  ELSE [count |-> 1, age |-> 0]

\* The next of the two checks, or the answer.
Decided(r, allowed) ==
  LET c == call[r] IN
  call' = [call EXCEPT ![r].allowed = @ /\ allowed, ![r].i = @ + 1, ![r].epoch = "now",
                       ![r].at = IF c.i = Len(c.keys) THEN "answer" ELSE "local"]

\* check_at, under the mutex of the map.
check_at(r) ==
  /\ call[r].at = "local"
  /\ LET key == call[r].keys[call[r].i]
     IN  IF Room(key)
         THEN /\ windows' = [k \in Kept(key) \cup {key} |-> IF k = key THEN Counted(key) ELSE windows[k]]
              /\ IF Counted(key).count <= Budget
                 THEN call' = [call EXCEPT ![r].at = "shared", ![r].epoch = "now"]
                 ELSE Decided(r, FALSE)
         ELSE Decided(r, FALSE) /\ windows' = [k \in Live |-> windows[k]]
  /\ UNCHANGED <<shared, phase, load, watched, admitted>>

\* The shared counter decides nothing.
BugCheck(r, ok) ==
  /\ call[r].at = "shared"
  /\ Decided(r, ok)
  /\ UNCHANGED <<windows, shared, phase, load, watched, admitted>>

\* The shared check: INCR under the epoch read before it; an error refuses the request.
check(r, ok) ==
  /\ call[r].at = "shared"
  /\ LET key == call[r].keys[call[r].i]
         e   == call[r].epoch
     IN  IF ok
         THEN /\ shared' = [shared EXCEPT ![e][key] = IF @ < Budget THEN @ + 1 ELSE @]
              /\ Decided(r, shared[e][key] < Budget)
         ELSE Decided(r, FALSE) /\ UNCHANGED shared
  /\ UNCHANGED <<windows, phase, load, watched, admitted>>

\* require_rate_limit: the request goes ahead if both checks allow it.
require_rate_limit(r) ==
  /\ call[r].at = "answer"
  /\ admitted' = IF call[r].allowed /\ (\E i \in DOMAIN call[r].keys : call[r].keys[i] = watched)
                 THEN [admitted EXCEPT ![call[r].age] = @ + 1] ELSE admitted
  /\ call' = [x \in DOMAIN call \ {r} |-> call[x]]
  /\ UNCHANGED <<windows, shared, phase, load, watched>>

\* A new process starts with an empty map; requests of the old one are gone.
LimitRestart ==
  /\ windows' = <<>> /\ call' = <<>>
  /\ UNCHANGED <<shared, phase, load, watched, admitted>>

LimitTick ==
  /\ \A r \in DOMAIN call : call[r].age < Window - 1
  /\ phase' = (phase + 1) % Window
  /\ LET zero == [k \in Keys |-> 0]     \* last epoch's counters matter to requests that read it
     IN  shared' = IF phase' # 0 THEN shared
                   ELSE [now |-> zero, last |-> IF \A r \in DOMAIN call : call[r].at # "shared"
                                               THEN zero ELSE shared.now]
  /\ call' = [r \in DOMAIN call |-> [call[r] EXCEPT !.age = @ + 1,
                                       !.epoch = IF phase' = 0 /\ call[r].at = "shared" THEN "last" ELSE @]]
  /\ windows' = [k \in DOMAIN windows |-> [windows[k] EXCEPT !.age = IF @ < Window THEN @ + 1 ELSE @]]
  /\ admitted' = [age \in 0..Window-1 |-> IF age = 0 THEN 0 ELSE admitted[age - 1]]
  /\ UNCHANGED <<load, watched>>

LimitNext ==
  \/ LimitTick \/ LimitRestart
  \/ \E r \in Requests, client \in load.clients, id \in load.identifiers \cup {Nobody} :
       \E forged \in {<<>>} \cup {<<f>> : f \in Forged} : Arrive(r, client, forged, id)
  \/ \E r \in DOMAIN call : check_at(r) \/ require_rate_limit(r) \/ \E ok \in BOOLEAN : check(r, ok)

LimitSpec == LimitInit /\ [][LimitNext]_limitVars

-----------------------------------------------------------------------------
\* In no stretch of one window's length are more than twice the budget admitted for an
\* address or an identifier, also when the process is replaced within it, and whichever
\* of the datastore's answers are lost.
TwiceTheBudgetAtMost ==
  LET total[age \in 0..Window-1] == admitted[age] + (IF age = 0 THEN 0 ELSE total[age - 1])
  IN  total[Window - 1] <= 2 * Budget

\* A request is charged to the client that sent it, whatever it wrote in its headers.
ChargedToItsClient == \A r \in DOMAIN call : call[r].keys[1] = <<"addr", call[r].client>>

\* The limits hold: no window's length admits more than twice the budget, every request is
\* charged to its sender, and the process's map stays within its capacity.
LimitsHold ==
  /\ TwiceTheBudgetAtMost /\ ChargedToItsClient
  /\ Cardinality(DOMAIN windows) <= load.capacity
=============================================================================
