------------------------------ MODULE Accounts -------------------------------
(***************************************************************************)
(* internal/auth behind its handlers and its middleware: registration,     *)
(* login, refresh and the check of an access token.  The users table is    *)
(* the only state of the server; tokens are signed statements that only    *)
(* clients keep, so nothing withdraws one before it expires.               *)
(*                                                                         *)
(* Each client has a password of its own, and a row holds the password of  *)
(* the client that created it.  Nobody calls Update or Delete of the user  *)
(* repository.  Signatures and hashes do what they are for, and a client   *)
(* uses its own tokens.  Steps that only refuse a request change nothing   *)
(* and are left out.                                                       *)
(***************************************************************************)
EXTENDS Integers

CONSTANTS
  Clients,
  Addresses,   \* as clients spell them: neither case nor blanks are normalised
  AccessTTL, RefreshTTL,  \* JWTConfig, in ticks
  MaxNow,      \* bound on the clock
  Faults,      \* whether statements fail and replies get lost
  Nobody       \* in place of the row of an address that has none

ASSUME TTLAssumption == AccessTTL \in Nat \ {0} /\ RefreshTTL \in Nat \ {0}
ASSUME NobodyAssumption == Nobody \notin Clients
ASSUME ClockAssumption == MaxNow \in Nat
ASSUME AccountFaultsAssumption == Faults \in BOOLEAN

VARIABLES
  now,     \* the clock
  users,   \* the password in the row of each address
  req,     \* the request each client is being served
  wallet,  \* the tokens each client has been sent
  last     \* when a pair was last made that the client may have been sent

vars == <<now, users, req, wallet, last>>

TTL == [access |-> AccessTTL, refresh |-> RefreshTTL]

Tokens == [type : {"access", "refresh"}, user : Addresses, exp : Nat]

\* pc: the statement that the request has reached.  seen: the password in the row
\* that Login has read.  pair: the tokens that RefreshToken has made.
Waiting == [pc : {"create", "verify", "lookup", "load"}, user : Addresses,
            seen : Clients \cup {Nobody}, pair : SUBSET Tokens]

Idle == [pc |-> "idle"]

Init ==
  /\ now = 0
  /\ users = [a \in Addresses |-> Nobody]
  /\ req = [c \in Clients |-> Idle]
  /\ wallet = [c \in Clients |-> {}]
  /\ last = [c \in Clients |-> [a \in Addresses |-> 0]]

\* The request of c waits for the database or for bcrypt.
Wait(c, pc, a, seen, pair) ==
  req' = [req EXCEPT ![c] = [pc |-> pc, user |-> a, seen |-> seen, pair |-> pair]]

Answer(c) == req' = [req EXCEPT ![c] = Idle]

GenerateTokenPair(a) ==
  {[type |-> k, user |-> a, exp |-> now + TTL[k]] : k \in {"access", "refresh"}}

Remember(c, a) == last' = [last EXCEPT ![c][a] = now]

\* A pair is made and sent with the answer.
Grant(c, a) ==
  /\ wallet' = [wallet EXCEPT ![c] = @ \cup GenerateTokenPair(a)]
  /\ Remember(c, a)

-----------------------------------------------------------------------------

\* Register: the SELECT finds no user; hashing the password takes its time.
Register(c, a) ==
  /\ req[c] = Idle
  /\ users[a] = Nobody
  /\ Wait(c, "create", a, Nobody, {})
  /\ UNCHANGED <<now, users, wallet, last>>

\* Mutant: the INSERT replaces the row that is there (ON CONFLICT DO UPDATE).
CreateOrReplace(c) ==
  LET a == req[c].user IN
  /\ req[c].pc = "create"
  /\ users' = [users EXCEPT ![a] = c]
  /\ Grant(c, a)
  /\ Answer(c)
  /\ UNCHANGED now

\* The INSERT, which the unique index refuses if somebody else was faster.  The
\* row may be there although the reply is lost.
CreateUser(c) ==
  LET a == req[c].user IN
  /\ req[c].pc = "create"
  /\ \/ /\ users[a] = Nobody
        /\ users' = [users EXCEPT ![a] = c]
        /\ Grant(c, a) \/ (Faults /\ UNCHANGED <<wallet, last>>)
     \/ (users[a] # Nobody \/ Faults) /\ UNCHANGED <<users, wallet, last>>
  /\ Answer(c)
  /\ UNCHANGED now

\* Login: the SELECT.
Login(c, a) ==
  /\ req[c] = Idle
  /\ users[a] # Nobody
  /\ Wait(c, "verify", a, users[a], {})
  /\ UNCHANGED <<now, users, wallet, last>>

\* Mutant: the result of the comparison is not looked at.
SkipVerification(c) ==
  /\ req[c].pc = "verify"
  /\ Grant(c, req[c].user)
  /\ Answer(c)
  /\ UNCHANGED <<now, users>>

\* The comparison with the hash, and the tokens.
VerifyPassword(c) ==
  /\ req[c].pc = "verify"
  /\ \/ req[c].seen = c /\ Grant(c, req[c].user)
     \/ (req[c].seen # c \/ Faults) /\ UNCHANGED <<wallet, last>>
  /\ Answer(c)
  /\ UNCHANGED <<now, users>>

\* A token is good until the instant it expires.
IsUnexpired(t) == now < t.exp

\* RefreshToken makes the new pair from the claims of the old token, which stays
\* good, and looks the user up afterwards.
RefreshToken(c, t) ==
  /\ req[c] = Idle
  /\ t.type = "refresh" /\ IsUnexpired(t)
  /\ Wait(c, "lookup", t.user, Nobody, GenerateTokenPair(t.user))
  /\ Remember(c, t.user)
  /\ UNCHANGED <<now, users, wallet>>

\* Without the user the pair is thrown away, and so it is when the user ID cannot be
\* read from it or the statement fails.
LookUpUser(c) ==
  /\ req[c].pc = "lookup"
  /\ \/ /\ users[req[c].user] # Nobody
        /\ wallet' = [wallet EXCEPT ![c] = @ \cup req[c].pair]
     \/ (users[req[c].user] = Nobody \/ Faults) /\ UNCHANGED wallet
  /\ Answer(c)
  /\ UNCHANGED <<now, users, last>>

\* Mutant: any token of ours will do.
AcceptAnyToken(c, t) ==
  /\ req[c] = Idle
  /\ IsUnexpired(t)
  /\ Wait(c, "load", t.user, Nobody, {})
  /\ UNCHANGED <<now, users, wallet, last>>

\* RequireAuth: the token is checked, then the user is loaded.
ValidateAccessToken(c, t) ==
  /\ req[c] = Idle
  /\ t.type = "access" /\ IsUnexpired(t)
  /\ Wait(c, "load", t.user, Nobody, {})
  /\ UNCHANGED <<now, users, wallet, last>>

\* The handler runs for the user that was loaded, or the request is refused.
LoadUser(c) ==
  /\ req[c].pc = "load"
  /\ Answer(c)
  /\ UNCHANGED <<now, users, wallet, last>>

Tick ==
  /\ now < MaxNow
  /\ now' = now + 1
  /\ UNCHANGED <<users, req, wallet, last>>

Next ==
  \/ Tick
  \/ \E c \in Clients :
       \/ CreateUser(c) \/ VerifyPassword(c) \/ LookUpUser(c) \/ LoadUser(c)
       \/ \E a \in Addresses : Register(c, a) \/ Login(c, a)
       \/ \E t \in wallet[c] : RefreshToken(c, t) \/ ValidateAccessToken(c, t)

Spec == Init /\ [][Next]_vars

-----------------------------------------------------------------------------

TypeOK ==
  /\ now \in Nat
  /\ users \in [Addresses -> Clients \cup {Nobody}]
  /\ req \in [Clients -> Waiting \cup {Idle}]
  /\ wallet \in [Clients -> SUBSET Tokens]
  /\ last \in [Clients -> [Addresses -> Nat]]

\* The tokens of a client, those on their way included.
TokensOf(c) == wallet[c] \cup (IF req[c].pc = "lookup" THEN req[c].pair ELSE {})

\* One address has one owner: every token, and every request that has passed its
\* checks, belongs to the client whose password the row holds, although several
\* clients may register the address at once and the tokens outlive the requests.
OwnersOnlyHoldTokens ==
  \A c \in Clients :
    /\ \A t \in TokensOf(c) : users[t.user] = c
    /\ req[c].pc \in {"lookup", "load"} => users[req[c].user] = c

\* What Login has read is still in the row.
LoginReadsTheRow ==
  \A c \in Clients :
    req[c].pc = "verify" => users[req[c].user] = req[c].seen /\ req[c].seen # Nobody

\* No token outlives the last pair made for its client by more than its time.
TokensLapse ==
  \A c \in Clients : \A t \in TokensOf(c) : t.exp <= last[c][t.user] + TTL[t.type]

LastIsPast == \A c \in Clients : \A a \in Addresses : last[c][a] <= now

\* The inductive invariant.
Inv == TypeOK /\ OwnersOnlyHoldTokens /\ LoginReadsTheRow /\ TokensLapse /\ LastIsPast

\* A client that asks for no tokens is admitted for the life of an access token and
\* may refresh for that of a refresh token; after that it has to give its password.
SilenceEndsSessions ==
  [][\A c \in Clients : \A t \in wallet[c] :
       /\ ValidateAccessToken(c, t) => now < last[c][t.user] + AccessTTL
       /\ RefreshToken(c, t) => now < last[c][t.user] + RefreshTTL]_vars

=============================================================================
