---------------------------- MODULE SlidingWindow ----------------------------
(***************************************************************************)
(* What the rate limiter promises: at most MaxReqs requests of one         *)
(* identifier in any Window of time, and no request turned away without    *)
(* need.  It decides on the whole history of admissions and forgets none.  *)
(***************************************************************************)
EXTENDS Integers, FiniteSets

CONSTANTS
  Identifiers,  \* client IPs, or user ids
  Window,       \* the length of the window, in ticks of the clock
  MaxReqs,      \* admissions per window
  MaxNow        \* bound on the clock

VARIABLES
  now,       \* the process's monotonic clock
  served,    \* admissions so far, which tells those of one instant apart
  admitted,  \* every admission of each identifier: when, and the how manieth
  verdict    \* the last answer to each identifier

vars == <<now, served, admitted, verdict>>

Admissions == [at : Nat, nth : Nat]

Init ==
  /\ now = 0
  /\ served = 0
  /\ admitted = [id \in Identifiers |-> {}]
  /\ verdict = [id \in Identifiers |-> "none"]

\* The admissions in the window that ends at time t.
Within(stamps, t) == {r \in stamps : t - Window < r.at /\ r.at <= t}

Admit(id) ==
  /\ Cardinality(Within(admitted[id], now)) < MaxReqs
  /\ admitted' = [admitted EXCEPT ![id] = @ \cup {[at |-> now, nth |-> served]}]
  /\ served' = served + 1
  /\ verdict' = [verdict EXCEPT ![id] = "admitted"]
  /\ UNCHANGED now

Deny(id) ==
  /\ Cardinality(Within(admitted[id], now)) >= MaxReqs
  /\ verdict' = [verdict EXCEPT ![id] = "denied"]
  /\ UNCHANGED <<now, served, admitted>>

Tick ==
  /\ now < MaxNow
  /\ now' = now + 1
  /\ UNCHANGED <<served, admitted, verdict>>

Next == Tick \/ \E id \in Identifiers : Admit(id) \/ Deny(id)

Spec == Init /\ [][Next]_vars

\* No window of time, wherever it ends, holds more admissions of an identifier
\* than the middleware was configured with: bursts on the two sides of a
\* window's edge are counted together.
AdmittedPerWindow ==
  \A id \in Identifiers : \A t \in 0..now : Cardinality(Within(admitted[id], t)) <= MaxReqs

=============================================================================
