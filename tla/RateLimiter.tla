----------------------------- MODULE RateLimiter -----------------------------
(***************************************************************************)
(* internal/api/middleware/rate_limit.go.  One limiter is a map from       *)
(* identifiers to the times of their admitted requests.  Allow and a pass  *)
(* of the cleanup goroutine each run under the mutex from end to end and   *)
(* read the clock inside it, so each is one step.  The map only remembers  *)
(* what the last prune left; the history of SlidingWindow is carried along *)
(* to state what the limiter promises.                                     *)
(***************************************************************************)
EXTENDS Integers, FiniteSets

CONSTANTS Identifiers, Window, MaxReqs, MaxNow

ASSUME WindowAssumption == Window \in Nat \ {0}
ASSUME MaxReqsAssumption == MaxReqs \in Nat
ASSUME MaxNowAssumption == MaxNow \in Nat

VARIABLES
  requests,  \* RateLimiter.requests: a function of the keys in the map
  now, served, admitted, verdict  \* as in SlidingWindow

history == <<served, admitted, verdict>>
vars == <<requests, now, history>>

Promise == INSTANCE SlidingWindow

Init ==
  /\ requests = [id \in {} |-> {}]
  /\ Promise!Init

\* A key that is not in the map reads as an empty slice.
Entries(id) == IF id \in DOMAIN requests THEN requests[id] ELSE {}

\* The entries that the loop over req.After(cutoff) keeps.
ValidRequests(id) == {r \in Entries(id) : r.at > now - Window}

\* rl.requests[identifier] = validRequests, which makes the key if need be.
Store(id, validRequests) ==
  requests' = [k \in DOMAIN requests \cup {id} |->
                 IF k = id THEN validRequests ELSE requests[k]]

\* Mutant: the limit is compared with > instead of >=.
AllowOneMore(id) ==
  IF Cardinality(ValidRequests(id)) > MaxReqs
    THEN /\ verdict' = [verdict EXCEPT ![id] = "denied"]
         /\ UNCHANGED <<requests, now, served, admitted>>
    ELSE LET stamp == [at |-> now, nth |-> served] IN
         /\ Store(id, ValidRequests(id) \cup {stamp})
         /\ admitted' = [admitted EXCEPT ![id] = @ \cup {stamp}]
         /\ served' = served + 1
         /\ verdict' = [verdict EXCEPT ![id] = "admitted"]
         /\ UNCHANGED now

\* Mutant: denied requests are recorded as well.
AllowRecordsDenied(id) ==
  LET stamp == [at |-> now, nth |-> served]
      allowed == Cardinality(ValidRequests(id)) < MaxReqs IN
  /\ Store(id, ValidRequests(id) \cup {stamp})
  /\ admitted' = IF allowed THEN [admitted EXCEPT ![id] = @ \cup {stamp}] ELSE admitted
  /\ served' = served + 1
  /\ verdict' = [verdict EXCEPT ![id] = IF allowed THEN "admitted" ELSE "denied"]
  /\ UNCHANGED now

\* A denied request returns before the pruned slice is stored.
Allow(id) ==
  IF Cardinality(ValidRequests(id)) >= MaxReqs
    THEN /\ verdict' = [verdict EXCEPT ![id] = "denied"]
         /\ UNCHANGED <<requests, now, served, admitted>>
    ELSE LET stamp == [at |-> now, nth |-> served] IN
         /\ Store(id, ValidRequests(id) \cup {stamp})
         /\ admitted' = [admitted EXCEPT ![id] = @ \cup {stamp}]
         /\ served' = served + 1
         /\ verdict' = [verdict EXCEPT ![id] = "admitted"]
         /\ UNCHANGED now

\* Mutant: a pass drops the keys that have any expired entry.
CleanupDropsKey ==
  /\ requests' = [id \in {k \in DOMAIN requests : ValidRequests(k) = requests[k]} |->
                    requests[id]]
  /\ UNCHANGED <<now, history>>

\* Mutant: a pass stores empty slices instead of deleting their keys.
CleanupKeepsKeys ==
  /\ requests' = [id \in DOMAIN requests |-> ValidRequests(id)]
  /\ UNCHANGED <<now, history>>

\* One pass of the cleanup goroutine: what is left of each slice is stored, and
\* the keys with nothing left are deleted.
Cleanup ==
  /\ requests' = [id \in {k \in DOMAIN requests : ValidRequests(k) # {}} |->
                    ValidRequests(id)]
  /\ UNCHANGED <<now, history>>

Tick == Promise!Tick /\ UNCHANGED requests

Next == Tick \/ Cleanup \/ \E id \in Identifiers : Allow(id)

Spec == Init /\ [][Next]_vars

\* The cleanup goroutine's ticker fires every window, forever, and the mutex is
\* never held across anything that blocks.
FairSpec == Spec /\ WF_vars(Cleanup)

-----------------------------------------------------------------------------

TypeOK ==
  /\ DOMAIN requests \subseteq Identifiers
  /\ requests \in [DOMAIN requests -> SUBSET Promise!Admissions]
  /\ admitted \in [Identifiers -> SUBSET Promise!Admissions]
  /\ now \in Nat /\ served \in Nat
  /\ verdict \in [Identifiers -> {"none", "admitted", "denied"}]

\* The pruned slice of an identifier still has every admission of the current
\* window, and nothing that was not admitted.
RemembersWindow ==
  \A id \in Identifiers :
    /\ Entries(id) \subseteq admitted[id]
    /\ Promise!Within(admitted[id], now) \subseteq Entries(id)

\* Allow stores a slice only with the new admission in it, and a pass deletes the
\* key of a slice that comes out empty.
KeysHaveEntries == \A id \in DOMAIN requests : requests[id] # {}

\* Admissions are finite in number and lie in the past.
HistoryOK ==
  \A id \in Identifiers :
    /\ IsFiniteSet(admitted[id])
    /\ \A r \in admitted[id] : r.at <= now

\* The inductive invariant.
Inv == TypeOK /\ RemembersWindow /\ KeysHaveEntries /\ HistoryOK

\* No window of time holds more than MaxReqs admissions of an identifier, however
\* requests, prunes and cleanup passes follow each other.
AdmittedPerWindow == Promise!AdmittedPerWindow

\* The limiter decides on its pruned slices exactly as it would on the whole
\* history: pruning neither admits too many nor turns anybody away.
ImplementsSlidingWindow == Promise!Spec

\* A pass would change the slice of id, or delete its key.
Stale(id) ==
  id \in DOMAIN requests /\ (ValidRequests(id) = {} \/ ValidRequests(id) # requests[id])

\* An identifier that never comes back does not stay in the map: an entry older
\* than the window is eventually dropped, and a key that has no other is deleted.
ExpiredEntriesAreDropped ==
  \A id \in Identifiers : Stale(id) ~> ~Stale(id)

=============================================================================
