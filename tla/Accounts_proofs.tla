--------------------------- MODULE Accounts_proofs ----------------------------
(***************************************************************************)
(* Accounts for any number of clients and addresses and any lifetimes.     *)
(***************************************************************************)
EXTENDS Accounts, TLAPS

USE TTLAssumption, NobodyAssumption

\* The part of the invariant that is about one client.
Local(c) ==
  /\ \A t \in TokensOf(c) : users[t.user] = c /\ t.exp <= last[c][t.user] + TTL[t.type]
  /\ req[c].pc \in {"lookup", "load"} => users[req[c].user] = c
  /\ req[c].pc = "verify" => users[req[c].user] = req[c].seen /\ req[c].seen # Nobody
  /\ \A a \in Addresses : last[c][a] <= now

LEMMA InvIsLocal == Inv <=> TypeOK /\ \A c \in Clients : Local(c)
  BY DEF Inv, Local, OwnersOnlyHoldTokens, LoginReadsTheRow, TokensLapse, LastIsPast

LEMMA TTLType == TTL.access = AccessTTL /\ TTL.refresh = RefreshTTL /\
                 \A k \in {"access", "refresh"} : TTL[k] \in Nat
  BY DEF TTL

\* A new pair has the right type and its full life before it.
LEMMA PairOK ==
  ASSUME TypeOK, NEW a \in Addresses
  PROVE  /\ GenerateTokenPair(a) \subseteq Tokens
         /\ \A t \in GenerateTokenPair(a) : t.user = a /\ t.exp = now + TTL[t.type]
  BY TTLType DEF TypeOK, GenerateTokenPair, Tokens

\* The records in req.
LEMMA RequestType ==
  ASSUME TypeOK, NEW c \in Clients
  PROVE  /\ req[c] \in Waiting \cup {Idle}
         /\ req[c].pc \in {"create", "verify", "lookup", "load"} =>
              /\ req[c].user \in Addresses
              /\ req[c].pair \subseteq Tokens
              /\ req[c].seen \in Clients \cup {Nobody}
  BY DEF TypeOK, Waiting, Idle

LEMMA WaitStep ==
  ASSUME TypeOK, NEW c \in Clients, NEW pc \in {"create", "verify", "lookup", "load"},
         NEW a \in Addresses, NEW seen \in Clients \cup {Nobody}, NEW pair \in SUBSET Tokens,
         Wait(c, pc, a, seen, pair)
  PROVE  /\ req' \in [Clients -> Waiting \cup {Idle}]
         /\ req'[c].pc = pc /\ req'[c].user = a /\ req'[c].seen = seen /\ req'[c].pair = pair
         /\ \A d \in Clients \ {c} : req'[d] = req[d]
  BY DEF TypeOK, Waiting, Wait

LEMMA AnswerStep ==
  ASSUME TypeOK, NEW c \in Clients, Answer(c)
  PROVE  /\ req' \in [Clients -> Waiting \cup {Idle}]
         /\ req'[c].pc = "idle"
         /\ \A d \in Clients \ {c} : req'[d] = req[d]
  BY DEF TypeOK, Idle, Answer

LEMMA RememberStep ==
  ASSUME TypeOK, NEW c \in Clients, NEW a \in Addresses, Remember(c, a)
  PROVE  /\ last' \in [Clients -> [Addresses -> Nat]]
         /\ last'[c][a] = now
         /\ \A b \in Addresses \ {a} : last'[c][b] = last[c][b]
         /\ \A d \in Clients \ {c} : last'[d] = last[d]
  BY DEF TypeOK, Remember

\* Rows are never overwritten, and what was made before stays made.
Grown(c) ==
  /\ \A a \in Addresses : users[a] # Nobody => users'[a] = users[a]
  /\ \A a \in Addresses : last[c][a] <= last'[c][a] /\ last'[c][a] <= now'

\* What a client has, a step leaves as it was or adds tokens to it that are its
\* own and new; then it is still what the invariant says.
LEMMA LocalStep ==
  ASSUME TypeOK, NEW c \in Clients, Local(c), Grown(c),
         last' \in [Clients -> [Addresses -> Nat]],
         NEW a \in Addresses,
         \A t \in TokensOf(c)' \ TokensOf(c) :
           /\ t \in Tokens /\ t.user = a /\ t.exp <= last'[c][a] + TTL[t.type]
           /\ users'[a] = c,
         \/ req'[c] = req[c]
         \/ req'[c].pc = "idle"
         \/ /\ req'[c].pc \in {"lookup", "load", "create"} /\ req'[c].user = a
            /\ req'[c].pc # "create" => users'[a] = c
         \/ /\ req'[c].pc = "verify" /\ req'[c].user = a /\ users'[a] = req'[c].seen
            /\ req'[c].seen # Nobody
  PROVE  Local(c)'
<1>1. req[c] \in Waiting \cup {Idle} /\ TokensOf(c) \subseteq Tokens
  BY RequestType DEF TypeOK, TokensOf
<1>2. \A t \in TokensOf(c)' : users'[t.user] = c /\ t.exp <= last'[c][t.user] + TTL[t.type]
  <2> SUFFICES ASSUME NEW t \in TokensOf(c)'
               PROVE  users'[t.user] = c /\ t.exp <= last'[c][t.user] + TTL[t.type]
    OBVIOUS
  <2>1. CASE t \in TokensOf(c)
    <3>1. t.user \in Addresses /\ t.exp \in Nat /\ TTL[t.type] \in Nat
      BY <1>1, <2>1, TTLType DEF Tokens
    <3>2. users[t.user] = c /\ t.exp <= last[c][t.user] + TTL[t.type] BY <2>1 DEF Local
    <3>3. last[c][t.user] \in Nat /\ last'[c][t.user] \in Nat BY <3>1 DEF TypeOK
    <3>4. users'[t.user] = c /\ last[c][t.user] <= last'[c][t.user] BY <3>1, <3>2 DEF Grown
    <3> QED BY <3>1, <3>2, <3>3, <3>4
  <2>2. CASE t \notin TokensOf(c) BY <2>2
  <2> QED BY <2>1, <2>2
<1>3. /\ req'[c].pc \in {"lookup", "load"} => users'[req'[c].user] = c
      /\ req'[c].pc = "verify" =>
           users'[req'[c].user] = req'[c].seen /\ req'[c].seen # Nobody
  <2>1. CASE req'[c] = req[c]
    <3>1. req[c].pc \in {"lookup", "load", "verify"} => req[c].user \in Addresses
      BY RequestType
    <3>2. /\ req[c].pc \in {"lookup", "load"} => users[req[c].user] = c
          /\ req[c].pc = "verify" =>
               users[req[c].user] = req[c].seen /\ req[c].seen # Nobody
      BY DEF Local
    <3> QED BY <2>1, <3>1, <3>2 DEF Grown
  <2> QED BY <2>1
<1>4. \A b \in Addresses : last'[c][b] <= now' BY DEF Grown
<1> QED BY <1>2, <1>3, <1>4 DEF Local

\* A client that the step is not about.
LEMMA OthersStep ==
  ASSUME TypeOK, NEW c \in Clients, Local(c), Grown(c),
         last' \in [Clients -> [Addresses -> Nat]],
         req'[c] = req[c], wallet'[c] = wallet[c]
  PROVE  Local(c)'
<1>1. TokensOf(c)' = TokensOf(c) BY DEF TokensOf
<1>2. CASE Addresses # {}
  <2>1. PICK a \in Addresses : TRUE BY <1>2
  <2> QED BY <1>1, <2>1, LocalStep
<1>3. CASE Addresses = {}
  <2>1. TokensOf(c) = {} BY <1>3, RequestType DEF TypeOK, TokensOf, Tokens
  <2>2. req[c].pc \notin {"lookup", "load", "verify"} BY <1>3, RequestType
  <2> QED BY <1>1, <1>3, <2>1, <2>2 DEF Local
<1> QED BY <1>2, <1>3

LEMMA StepOfOne ==
  ASSUME Inv, NEW c \in Clients, TypeOK', Local(c)',
         \A d \in Clients \ {c} : Grown(d) /\ req'[d] = req[d] /\ wallet'[d] = wallet[d]
  PROVE  Inv'
<1>1. last' \in [Clients -> [Addresses -> Nat]] BY DEF TypeOK
<1>2. \A d \in Clients : Local(d)'
  <2> SUFFICES ASSUME NEW d \in Clients PROVE Local(d)' OBVIOUS
  <2>1. CASE d = c BY <2>1
  <2>2. CASE d # c BY <1>1, <2>2, OthersStep, InvIsLocal
  <2> QED BY <2>1, <2>2
<1>3. Inv' <=> TypeOK' /\ \A d \in Clients : Local(d)'
  BY DEF Inv, Local, OwnersOnlyHoldTokens, LoginReadsTheRow, TokensLapse, LastIsPast
<1> QED BY <1>2, <1>3

\* Nothing but the request of c changes.
LEMMA OnlyRequest ==
  ASSUME Inv, NEW d \in Clients, UNCHANGED <<now, users, wallet, last>>
  PROVE  Grown(d)
<1>1. \A a \in Addresses : last[d][a] \in Nat /\ last[d][a] <= now
  BY InvIsLocal DEF TypeOK, Local
<1> QED BY <1>1 DEF Grown

\* The server remembers when it made a pair.
LEMMA RememberGrows ==
  ASSUME Inv, NEW c \in Clients, NEW a \in Addresses, Remember(c, a) \/ UNCHANGED last,
         now' = now, \A b \in Addresses : users[b] # Nobody => users'[b] = users[b]
  PROVE  /\ last' \in [Clients -> [Addresses -> Nat]]
         /\ \A d \in Clients : Grown(d)
<1>1. TypeOK /\ \A d \in Clients, b \in Addresses : last[d][b] <= now
  BY InvIsLocal DEF Local
<1>2. CASE Remember(c, a)
  <2>1. /\ last' \in [Clients -> [Addresses -> Nat]] /\ last'[c][a] = now
        /\ \A b \in Addresses \ {a} : last'[c][b] = last[c][b]
        /\ \A d \in Clients \ {c} : last'[d] = last[d]
    BY <1>1, <1>2, RememberStep
  <2>2. now \in Nat /\ \A d \in Clients, b \in Addresses : last[d][b] \in Nat
    BY <1>1 DEF TypeOK
  <2>3. ASSUME NEW d \in Clients, NEW b \in Addresses
        PROVE  last[d][b] <= last'[d][b] /\ last'[d][b] <= now'
    BY <1>1, <2>1, <2>2, <2>3
  <2> QED BY <2>1, <2>3 DEF Grown
<1>3. CASE UNCHANGED last
  <2>1. \A d \in Clients, b \in Addresses : last[d][b] \in Nat BY <1>1 DEF TypeOK
  <2> QED BY <1>1, <1>3, <2>1 DEF Grown, TypeOK
<1> QED BY <1>2, <1>3

-----------------------------------------------------------------------------
(* The actions. *)

LEMMA KeepRegister ==
  ASSUME Inv, NEW c \in Clients, NEW a \in Addresses, Register(c, a)
  PROVE  Inv'
<1>1. TypeOK /\ Local(c) BY InvIsLocal
<1>2. /\ req' \in [Clients -> Waiting \cup {Idle}]
      /\ req'[c].pc = "create" /\ req'[c].user = a
      /\ \A d \in Clients \ {c} : req'[d] = req[d]
  BY <1>1, WaitStep DEF Register
<1>3. TypeOK' BY <1>1, <1>2 DEF Register, TypeOK
<1>4. \A d \in Clients : Grown(d) BY OnlyRequest DEF Register
<1>5. TokensOf(c)' \subseteq TokensOf(c) BY <1>2 DEF Register, TokensOf
<1>6. Local(c)' BY <1>1, <1>2, <1>3, <1>4, <1>5, LocalStep DEF TypeOK
<1> QED BY <1>2, <1>3, <1>4, <1>6, StepOfOne DEF Register

LEMMA KeepLogin ==
  ASSUME Inv, NEW c \in Clients, NEW a \in Addresses, Login(c, a)
  PROVE  Inv'
<1>1. TypeOK /\ Local(c) BY InvIsLocal
<1>2. users[a] \in Clients \cup {Nobody} BY <1>1 DEF TypeOK
<1>3. /\ req' \in [Clients -> Waiting \cup {Idle}]
      /\ req'[c].pc = "verify" /\ req'[c].user = a /\ req'[c].seen = users[a]
      /\ \A d \in Clients \ {c} : req'[d] = req[d]
  BY <1>1, <1>2, WaitStep DEF Login
<1>4. TypeOK' BY <1>1, <1>3 DEF Login, TypeOK
<1>5. \A d \in Clients : Grown(d) BY OnlyRequest DEF Login
<1>6. TokensOf(c)' \subseteq TokensOf(c) BY <1>3 DEF Login, TokensOf
<1>7. Local(c)' BY <1>1, <1>3, <1>4, <1>5, <1>6, LocalStep DEF TypeOK, Login
<1> QED BY <1>3, <1>4, <1>5, <1>7, StepOfOne DEF Login

\* A request that ends, with a pair or without.
LEMMA GrantStep ==
  ASSUME Inv, NEW c \in Clients, NEW a \in Addresses, Answer(c), now' = now,
         users' \in [Addresses -> Clients \cup {Nobody}],
         \A b \in Addresses : users[b] # Nobody => users'[b] = users[b],
         (Grant(c, a) /\ users'[a] = c) \/ UNCHANGED <<wallet, last>>
  PROVE  Inv'
<1>1. TypeOK /\ Local(c) BY InvIsLocal
<1>2. /\ req' \in [Clients -> Waiting \cup {Idle}] /\ req'[c].pc = "idle"
      /\ \A d \in Clients \ {c} : req'[d] = req[d]
  BY <1>1, AnswerStep
<1>3. last' \in [Clients -> [Addresses -> Nat]] /\ \A d \in Clients : Grown(d)
  BY RememberGrows DEF Grant
<1>4. GenerateTokenPair(a) \subseteq Tokens BY <1>1, PairOK
<1>5. /\ wallet' \in [Clients -> SUBSET Tokens]
      /\ \A d \in Clients \ {c} : wallet'[d] = wallet[d]
      /\ wallet'[c] \subseteq wallet[c] \cup GenerateTokenPair(a)
  BY <1>1, <1>4 DEF Grant, TypeOK
<1>6. TypeOK' BY <1>1, <1>2, <1>3, <1>5 DEF TypeOK
<1>7. \A t \in TokensOf(c)' \ TokensOf(c) :
        /\ t \in Tokens /\ t.user = a /\ t.exp <= last'[c][a] + TTL[t.type] /\ users'[a] = c
  <2> SUFFICES ASSUME NEW t \in TokensOf(c)' \ TokensOf(c)
               PROVE  /\ t \in Tokens /\ t.user = a
                      /\ t.exp <= last'[c][a] + TTL[t.type] /\ users'[a] = c
    OBVIOUS
  <2>1. t \in wallet'[c] /\ t \notin wallet[c] BY <1>2 DEF TokensOf
  <2>2. t \in GenerateTokenPair(a) /\ Grant(c, a) /\ users'[a] = c BY <1>5, <2>1
  <2>3. t \in Tokens /\ t.user = a /\ t.exp = now + TTL[t.type] BY <1>1, <2>2, PairOK
  <2>4. last'[c][a] = now BY <1>1, <2>2, RememberStep DEF Grant
  <2>5. now \in Nat /\ TTL[t.type] \in Nat BY <1>1, <2>3, TTLType DEF TypeOK, Tokens
  <2> QED BY <2>2, <2>3, <2>4, <2>5
<1>8. Local(c)' BY <1>1, <1>2, <1>3, <1>7, LocalStep
<1> QED BY <1>2, <1>3, <1>5, <1>6, <1>8, StepOfOne

LEMMA KeepCreateUser ==
  ASSUME Inv, NEW c \in Clients, CreateUser(c)
  PROVE  Inv'
<1> DEFINE a == req[c].user
<1>1. TypeOK /\ a \in Addresses BY InvIsLocal, RequestType DEF CreateUser
<1>2. \/ UNCHANGED users
      \/ users[a] = Nobody /\ users' = [users EXCEPT ![a] = c]
  BY DEF CreateUser
<1>3. (Grant(c, a) /\ users' = [users EXCEPT ![a] = c]) \/ UNCHANGED <<wallet, last>>
  BY DEF CreateUser
<1>4. Answer(c) /\ now' = now BY DEF CreateUser
<1> HIDE DEF a
<1>5. /\ users' \in [Addresses -> Clients \cup {Nobody}]
      /\ \A b \in Addresses : users[b] # Nobody => users'[b] = users[b]
  BY <1>1, <1>2 DEF TypeOK
<1>6. (Grant(c, a) /\ users'[a] = c) \/ UNCHANGED <<wallet, last>> BY <1>1, <1>3 DEF TypeOK
<1> QED BY <1>1, <1>4, <1>5, <1>6, GrantStep

LEMMA KeepVerifyPassword ==
  ASSUME Inv, NEW c \in Clients, VerifyPassword(c)
  PROVE  Inv'
<1> DEFINE a == req[c].user
<1>1. TypeOK /\ Local(c) /\ a \in Addresses BY InvIsLocal, RequestType DEF VerifyPassword
<1>2. (Grant(c, a) /\ users'[a] = c) \/ UNCHANGED <<wallet, last>>
  BY <1>1 DEF VerifyPassword, Local
<1>3. Answer(c) /\ now' = now /\ users' = users BY DEF VerifyPassword
<1>4. users' \in [Addresses -> Clients \cup {Nobody}] BY <1>1, <1>3 DEF TypeOK
<1> HIDE DEF a
<1> QED BY <1>1, <1>2, <1>3, <1>4, GrantStep

LEMMA KeepRefreshToken ==
  ASSUME Inv, NEW c \in Clients, NEW t \in wallet[c], RefreshToken(c, t)
  PROVE  Inv'
<1>1. TypeOK /\ Local(c) BY InvIsLocal
<1> DEFINE a == t.user
           pair == GenerateTokenPair(a)
<1>2. t \in TokensOf(c) /\ a \in Addresses /\ users[a] = c
  BY <1>1 DEF TypeOK, Tokens, TokensOf, Local
<1>3. pair \subseteq Tokens /\ \A u \in pair : u.user = a /\ u.exp = now + TTL[u.type]
  BY <1>1, <1>2, PairOK
<1>4. Wait(c, "lookup", a, Nobody, pair) /\ Remember(c, a) /\ UNCHANGED <<now, users, wallet>>
  BY DEF RefreshToken
<1> HIDE DEF a, pair
<1>5. /\ req' \in [Clients -> Waiting \cup {Idle}]
      /\ req'[c].pc = "lookup" /\ req'[c].user = a /\ req'[c].pair = pair
      /\ \A d \in Clients \ {c} : req'[d] = req[d]
  BY <1>1, <1>2, <1>3, <1>4, WaitStep
<1>6. last' \in [Clients -> [Addresses -> Nat]] /\ \A d \in Clients : Grown(d)
  BY <1>2, <1>4, RememberGrows
<1>7. TypeOK' BY <1>1, <1>4, <1>5, <1>6 DEF TypeOK
<1>8. last'[c][a] = now BY <1>1, <1>2, <1>4, RememberStep
<1>9. \A u \in TokensOf(c)' \ TokensOf(c) :
        /\ u \in Tokens /\ u.user = a /\ u.exp <= last'[c][a] + TTL[u.type] /\ users'[a] = c
  <2> SUFFICES ASSUME NEW u \in TokensOf(c)' \ TokensOf(c)
               PROVE  /\ u \in Tokens /\ u.user = a
                      /\ u.exp <= last'[c][a] + TTL[u.type] /\ users'[a] = c
    OBVIOUS
  <2>1. u \in pair BY <1>4, <1>5 DEF TokensOf
  <2>2. now \in Nat /\ TTL[u.type] \in Nat BY <1>1, <1>3, <2>1, TTLType DEF TypeOK, Tokens
  <2> QED BY <1>2, <1>3, <1>4, <1>8, <2>1, <2>2
<1>10. Local(c)' BY <1>1, <1>2, <1>4, <1>5, <1>6, <1>9, LocalStep
<1> QED BY <1>4, <1>5, <1>6, <1>7, <1>10, StepOfOne

LEMMA KeepLookUpUser ==
  ASSUME Inv, NEW c \in Clients, LookUpUser(c)
  PROVE  Inv'
<1>1. TypeOK /\ Local(c) BY InvIsLocal
<1>2. /\ req' \in [Clients -> Waiting \cup {Idle}] /\ req'[c].pc = "idle"
      /\ \A d \in Clients \ {c} : req'[d] = req[d]
  BY <1>1, AnswerStep DEF LookUpUser
<1>3. req[c].pc = "lookup" /\ req[c].pair \subseteq Tokens /\ req[c].user \in Addresses
  BY <1>1, RequestType DEF LookUpUser
<1>4. /\ wallet' \in [Clients -> SUBSET Tokens]
      /\ \A d \in Clients \ {c} : wallet'[d] = wallet[d]
      /\ wallet'[c] \subseteq wallet[c] \cup req[c].pair
  BY <1>1, <1>3 DEF LookUpUser, TypeOK
<1>5. TypeOK' BY <1>1, <1>2, <1>4 DEF LookUpUser, TypeOK
<1>6. last' \in [Clients -> [Addresses -> Nat]] /\ \A d \in Clients : Grown(d)
  BY <1>3, RememberGrows DEF LookUpUser
<1>7. TokensOf(c)' \subseteq TokensOf(c) BY <1>2, <1>3, <1>4 DEF TokensOf
<1>8. Local(c)' BY <1>1, <1>2, <1>3, <1>6, <1>7, LocalStep
<1> QED BY <1>2, <1>4, <1>5, <1>6, <1>8, StepOfOne

LEMMA KeepValidateAccessToken ==
  ASSUME Inv, NEW c \in Clients, NEW t \in wallet[c], ValidateAccessToken(c, t)
  PROVE  Inv'
<1>1. TypeOK /\ Local(c) BY InvIsLocal
<1> DEFINE a == t.user
<1>2. t \in TokensOf(c) /\ a \in Addresses /\ users[a] = c
  BY <1>1 DEF TypeOK, Tokens, TokensOf, Local
<1>3. Wait(c, "load", a, Nobody, {}) /\ UNCHANGED <<now, users, wallet, last>>
  BY DEF ValidateAccessToken
<1> HIDE DEF a
<1>4. /\ req' \in [Clients -> Waiting \cup {Idle}]
      /\ req'[c].pc = "load" /\ req'[c].user = a
      /\ \A d \in Clients \ {c} : req'[d] = req[d]
  BY <1>1, <1>2, <1>3, WaitStep
<1>5. TypeOK' BY <1>1, <1>3, <1>4 DEF TypeOK
<1>6. \A d \in Clients : Grown(d) BY <1>3, OnlyRequest
<1>7. TokensOf(c)' \subseteq TokensOf(c) BY <1>3, <1>4 DEF TokensOf
<1>8. Local(c)' BY <1>1, <1>2, <1>3, <1>4, <1>5, <1>6, <1>7, LocalStep DEF TypeOK
<1> QED BY <1>3, <1>4, <1>5, <1>6, <1>8, StepOfOne

LEMMA KeepLoadUser ==
  ASSUME Inv, NEW c \in Clients, LoadUser(c)
  PROVE  Inv'
<1>1. TypeOK /\ Local(c) BY InvIsLocal
<1>2. /\ req' \in [Clients -> Waiting \cup {Idle}] /\ req'[c].pc = "idle"
      /\ \A d \in Clients \ {c} : req'[d] = req[d]
  BY <1>1, AnswerStep DEF LoadUser
<1>3. TypeOK' BY <1>1, <1>2 DEF LoadUser, TypeOK
<1>4. \A d \in Clients : Grown(d) BY OnlyRequest DEF LoadUser
<1>5. TokensOf(c)' \subseteq TokensOf(c) BY <1>2 DEF LoadUser, TokensOf
<1>6. req[c].user \in Addresses BY <1>1, RequestType DEF LoadUser
<1>7. Local(c)' BY <1>1, <1>2, <1>3, <1>4, <1>5, <1>6, LocalStep DEF TypeOK
<1> QED BY <1>2, <1>3, <1>4, <1>7, StepOfOne DEF LoadUser

LEMMA KeepOthers ==
  ASSUME Inv, Tick \/ UNCHANGED vars
  PROVE  Inv'
<1>1. TypeOK /\ \A c \in Clients : Local(c) BY InvIsLocal
<1>2. UNCHANGED <<users, req, wallet, last>> /\ now' \in Nat /\ now <= now'
  BY <1>1 DEF Tick, vars, TypeOK
<1>3. TypeOK' BY <1>1, <1>2 DEF TypeOK
<1>4. ASSUME NEW c \in Clients, NEW a \in Addresses
      PROVE  last[c][a] <= last'[c][a] /\ last'[c][a] <= now'
  <2>1. last[c][a] \in Nat /\ now \in Nat /\ last[c][a] <= now BY <1>1 DEF TypeOK, Local
  <2> QED BY <1>2, <2>1
<1>5. \A c \in Clients : Grown(c) BY <1>2, <1>4 DEF Grown
<1>6. \A c \in Clients : Local(c)' BY <1>1, <1>2, <1>3, <1>5, OthersStep DEF TypeOK
<1>7. Inv' <=> TypeOK' /\ \A c \in Clients : Local(c)'
  BY DEF Inv, Local, OwnersOnlyHoldTokens, LoginReadsTheRow, TokensLapse, LastIsPast
<1> QED BY <1>3, <1>6, <1>7

-----------------------------------------------------------------------------
(* The theorems. *)

LEMMA InitInv == Init => Inv
<1> SUFFICES ASSUME Init PROVE Inv OBVIOUS
<1>1. TypeOK BY DEF Init, TypeOK, Idle
<1>2. ASSUME NEW c \in Clients PROVE Local(c)
  <2>1. req[c].pc = "idle" /\ wallet[c] = {} BY DEF Init, Idle
  <2>2. TokensOf(c) = {} BY <2>1 DEF TokensOf
  <2>3. \A a \in Addresses : last[c][a] = 0 /\ now = 0 BY DEF Init
  <2> QED BY <2>1, <2>2, <2>3 DEF Local
<1> QED BY <1>1, <1>2, InvIsLocal

LEMMA InvStep == Inv /\ [Next]_vars => Inv'
  BY KeepOthers, KeepCreateUser, KeepVerifyPassword, KeepLookUpUser, KeepLoadUser,
     KeepRegister, KeepLogin, KeepRefreshToken, KeepValidateAccessToken DEF Next

\* The invariant: whose tokens, requests and rows belong together, and how long a
\* token can live.
THEOREM Invariance == Spec => []Inv
  BY InitInv, InvStep, PTL DEF Spec

\* However many clients register one address at once, and whatever replies are
\* lost, all tokens of the address are those of the client whose password is stored.
THEOREM OneOwner == Spec => []OwnersOnlyHoldTokens
<1>1. Inv => OwnersOnlyHoldTokens BY DEF Inv
<1> QED BY <1>1, Invariance, PTL

\* For all lifetimes: whoever asks for no tokens loses access when the last access
\* token lapses, and has to log in again when the last refresh token has.
THEOREM Silence == Spec => SilenceEndsSessions
<1>1. ASSUME Inv, NEW c \in Clients, NEW t \in wallet[c]
      PROVE  /\ ValidateAccessToken(c, t) => now < last[c][t.user] + AccessTTL
             /\ RefreshToken(c, t) => now < last[c][t.user] + RefreshTTL
  <2>1. TypeOK /\ t \in Tokens /\ t.exp <= last[c][t.user] + TTL[t.type]
    BY <1>1, InvIsLocal DEF Local, TokensOf, TypeOK
  <2>2. now \in Nat /\ t.exp \in Nat /\ last[c][t.user] \in Nat BY <2>1 DEF TypeOK, Tokens
  <2>3. now < t.exp => now < last[c][t.user] + TTL[t.type] BY <2>1, <2>2, TTLType DEF Tokens
  <2> QED BY <2>3, TTLType DEF ValidateAccessToken, RefreshToken, IsUnexpired
<1>2. Inv => \A c \in Clients : \A t \in wallet[c] :
               /\ ValidateAccessToken(c, t) => now < last[c][t.user] + AccessTTL
               /\ RefreshToken(c, t) => now < last[c][t.user] + RefreshTTL
  BY <1>1
<1> QED BY <1>2, Invariance, PTL DEF SilenceEndsSessions

=============================================================================
