---------------------------- MODULE SignInProofs ----------------------------
(***************************************************************************)
(* Proofs about signing in, for any number of requests, flows, users and   *)
(* accounts and all limits.                                                *)
(*                                                                         *)
(* The properties of SignIn are not inductive by themselves.  That a flow  *)
(* gives one token needs that it is in one place at a time: pending, with  *)
(* one request, or in one code.  That one client is let in needs that a    *)
(* session id belongs to one login.  IInv says so, and what a request that *)
(* is under way may rely on.                                               *)
(***************************************************************************)
EXTENDS SignIn, FiniteSetTheorems, SequenceTheorems, TLAPS

AuthTokens == [flow : Flows \cup {None}, user : Users \cup {None}, key : 0 .. Old]
Account(n) == [session : 0 .. n, temp : 0 .. n]
Link == [user : Users, key : DOMAIN accounts, carried : BOOLEAN]
Requested ==
  [by : {"nobody", "callback", "token", "carry", "login", "page"},
   at : {"idle", "approved", "issue", "take", "identity", "link", "login", "temp"},
   token : AuthTokens \cup {None}, code : Flows \cup Nat, user : Users \cup {None},
   key : Nat, login : Nat]

(* The types of the counters and of requests; a token from before is of an *)
(* account there is.                                                       *)
Typed ==
  /\ TypeOK
  /\ misses \in Nat /\ drawn \in Nat /\ logins \in Nat
  /\ given \in [Flows -> Nat]
  /\ request \in [Requests -> Requested]
  /\ Old <= Len(accounts)
  /\ \A t \in tokens : t.user = None => t.key \in 1 .. Old

(* What a request holds for its next step, when there are these accounts,  *)
(* n carry-over codes and m logins.                                        *)
Prepared(q, keys, n, m) ==
  /\ q.at \in {"approved", "issue"} => q.code \in Flows /\ q.user \in Users
  /\ q.by = "carry" => q.at \in {"take", "identity", "link"}
  /\ q.by = "carry" /\ q.at # "take" => q.key \in keys /\ q.code \in 1 .. n
  /\ q.at = "link" => q.user \in Users
  /\ q.at \in {"login", "temp"} => q.key \in keys
  /\ q.at = "temp" => q.login \in 1 .. m
RequestsPrepared == \A r \in Requests : Prepared(request[r], DOMAIN accounts, drawn, logins)

(* A flow is in one place: started or not, with a request, in a code, or   *)
(* done.                                                                   *)
Holds(r, f) == request[r].at \in {"approved", "issue"} /\ request[r].code = f
InCode(f) == \E c \in codes : c.flow = f
FlowsApart ==
  \A f \in Flows :
    /\ flow[f] # "over" => given[f] = 0
    /\ flow[f] # "over" \/ given[f] # 0 => ~ InCode(f) /\ \A r \in Requests : ~ Holds(r, f)
    /\ InCode(f) => \A r \in Requests : ~ Holds(r, f)
    /\ \A c, d \in codes : c.flow = f /\ d.flow = f => c = d
    /\ \A r, s \in Requests : Holds(r, f) /\ Holds(s, f) => r = s

(* A code that a request carries is no longer there to take. *)
Carries(r) == request[r].by = "carry" /\ request[r].at # "take"
CarriedGone == \A r \in Requests, c \in carry : Carries(r) => c.code # request[r].code

(* A session id belongs to one login: one answer or one request. *)
SessionsApart ==
  /\ \A a, b \in answers : a.session = b.session => a = b
  /\ \A r \in Requests : request[r].at = "temp" =>
       /\ \A a \in answers : a.session # request[r].login
       /\ \A s \in Requests : request[s].at = "temp" /\ request[s].login = request[r].login
                                => r = s

IInv ==
  /\ Typed /\ RequestsPrepared
  /\ OneTokenPerFlow /\ FlowsApart
  /\ CodesSingle /\ CarriedGone
  /\ LimitsKept
  /\ SessionsApart

-----------------------------------------------------------------------------
(* A request that goes on is the only one that changes. *)
LEMMA Moved ==
  ASSUME Typed, NEW r \in Requests, NEW q \in Requested, Goes(r, q)
  PROVE  /\ request' \in [Requests -> Requested]
         /\ request'[r] = q
         /\ \A s \in Requests : s # r => request'[s] = request[s]
  BY DEF Goes, Typed

(* What a request holds stays good when there are more accounts, codes and *)
(* logins.                                                                 *)
LEMMA PreparedStays ==
  ASSUME NEW q \in Requested, NEW keys, NEW more, keys \subseteq more,
         NEW n \in Nat, NEW n2 \in Nat, n <= n2, NEW m \in Nat, NEW m2 \in Nat, m <= m2,
         Prepared(q, keys, n, m)
  PROVE  Prepared(q, more, n2, m2)
  BY DEF Prepared, Requested

(* A request that is over holds nothing. *)
LEMMA IdleFits ==
  Idle \in Requested /\ \A keys, n, m : Prepared(Idle, keys, n, m)
  BY DEF Idle, Requested, Prepared

(* One request goes on; the others stay prepared.                          *)
LEMMA RequestsMove ==
  ASSUME IInv, NEW r \in Requests, NEW q \in Requested, Goes(r, q),
         Prepared(q, DOMAIN accounts', drawn', logins'),
         drawn' \in Nat, drawn <= drawn', logins' \in Nat, logins <= logins',
         DOMAIN accounts \subseteq DOMAIN accounts'
  PROVE  request' \in [Requests -> Requested] /\ RequestsPrepared'
<1>1. Typed /\ RequestsPrepared
  BY DEF IInv
<1>2. ASSUME NEW s \in Requests PROVE Prepared(request'[s], DOMAIN accounts', drawn', logins')
  <2>1. CASE s = r
    BY <1>1, <2>1, Moved
  <2>2. CASE s # r
    <3>1. /\ request[s] \in Requested /\ drawn \in Nat /\ logins \in Nat
          /\ Prepared(request[s], DOMAIN accounts, drawn, logins)
      BY <1>1 DEF Typed, RequestsPrepared
    <3>2. Prepared(request[s], DOMAIN accounts', drawn', logins')
      BY <3>1, PreparedStays
    <3> QED
      BY <1>1, <2>2, <3>2, Moved
  <2> QED
    BY <2>1, <2>2
<1>3. RequestsPrepared'
  BY <1>2 DEF RequestsPrepared
<1> QED
  BY <1>1, <1>3, Moved

-----------------------------------------------------------------------------
(* Types, and what requests hold. *)
Kept == Typed /\ RequestsPrepared

(* A step that leaves accounts, logins and the codes issued. *)
LEMMA SameRows ==
  ASSUME IInv, UNCHANGED <<accounts, drawn, logins>>,
         NEW r \in Requests, NEW q \in Requested, Goes(r, q),
         Prepared(q, DOMAIN accounts, drawn, logins)
  PROVE  request' \in [Requests -> Requested] /\ RequestsPrepared'
<1>1. drawn \in Nat /\ logins \in Nat
  BY DEF IInv, Typed
<1> QED
  BY <1>1, RequestsMove

(* Signing in with the provider. *)
LEMMA FlowSteps ==
  ASSUME IInv,
         \/ \E f \in Flows : ServeStart(f)
         \/ \E r \in Requests :
              \/ \E f \in Flows : ServeCallback(r, f)
              \/ IssueCode(r)
              \/ \E c \in codes, verified \in BOOLEAN : ServeToken(r, c, verified)
              \/ IssueAuthToken(r)
         \/ \E t \in tokens : RevokeAuthToken(t)
         \/ Expire
  PROVE  Kept'
<1> USE DEF Kept
<1>1. /\ Typed /\ RequestsPrepared
      /\ \A r \in Requests : /\ request[r] \in Requested
                             /\ Prepared(request[r], DOMAIN accounts, drawn, logins)
  BY DEF IInv, Typed, RequestsPrepared
<1>2. ASSUME NEW f \in Flows, ServeStart(f) PROVE Kept'
  BY <1>1, <1>2 DEF ServeStart, Typed, TypeOK, RequestsPrepared
<1>3. ASSUME NEW r \in Requests, NEW f \in Flows, ServeCallback(r, f) PROVE Kept'
  <2>1. flow' \in [Flows -> {"new", "pending", "over"}]
    BY <1>1, <1>3 DEF ServeCallback, Used, Typed, TypeOK
  <2>2. request' \in [Requests -> Requested] /\ RequestsPrepared'
    <3>1. CASE UNCHANGED request
      BY <1>1, <1>3, <3>1 DEF ServeCallback, Typed, RequestsPrepared
    <3>2. ASSUME NEW u \in Users,
                 Goes(r, [Idle EXCEPT !.by = "callback", !.at = "approved", !.code = f, !.user = u])
          PROVE  request' \in [Requests -> Requested] /\ RequestsPrepared'
      <4> DEFINE q == [Idle EXCEPT !.by = "callback", !.at = "approved", !.code = f, !.user = u]
      <4>1. q \in Requested /\ Prepared(q, DOMAIN accounts, drawn, logins)
        BY DEF Idle, Requested, Prepared
      <4> QED
        BY <1>3, <3>2, <4>1, SameRows DEF ServeCallback
    <3> QED
      BY <1>3, <3>1, <3>2 DEF ServeCallback, ProviderUser, Starts, Goes
  <2> QED
    BY <1>1, <1>3, <2>1, <2>2 DEF ServeCallback, Typed, TypeOK
<1>4. ASSUME NEW r \in Requests, IssueCode(r) PROVE Kept'
  <2>1. codes' \subseteq [flow : Flows, user : Users]
    BY <1>1, <1>4 DEF IssueCode, Typed, TypeOK, Prepared
  <2>2. request' \in [Requests -> Requested] /\ RequestsPrepared'
    BY <1>1, <1>4, IdleFits, SameRows DEF IssueCode, Ends, Goes
  <2> QED
    BY <1>1, <1>4, <2>1, <2>2 DEF IssueCode, Typed, TypeOK
<1>5. ASSUME NEW r \in Requests, NEW c \in codes, NEW verified \in BOOLEAN,
             ServeToken(r, c, verified)
      PROVE  Kept'
  <2> DEFINE q == [Idle EXCEPT !.by = "token", !.at = "issue", !.code = c.flow, !.user = c.user]
  <2>1. c.flow \in Flows /\ c.user \in Users
    BY <1>1 DEF Typed, TypeOK
  <2>2. q \in Requested /\ Prepared(q, DOMAIN accounts, drawn, logins)
    BY <2>1 DEF Idle, Requested, Prepared
  <2>3. CASE verified
    BY <1>1, <1>5, <2>2, <2>3, SameRows DEF ServeToken, Starts, Goes, Typed, TypeOK
  <2>4. CASE ~ verified
    BY <1>1, <1>5, <2>4 DEF ServeToken, Typed, TypeOK, RequestsPrepared
  <2> QED
    BY <2>3, <2>4
<1>6. ASSUME NEW r \in Requests, IssueAuthToken(r) PROVE Kept'
  <2> DEFINE t == [flow |-> request[r].code, user |-> request[r].user, key |-> 0]
  <2>1. request[r].code \in Flows /\ request[r].user \in Users
    BY <1>1, <1>6 DEF IssueAuthToken, Prepared
  <2>2. t \in AuthTokens /\ t.user # None
    BY <2>1, SignInAssumption DEF AuthTokens
  <2>3. given' \in [Flows -> Nat]
    <3>1. given' = [given EXCEPT ![request[r].code] = @ + 1]
      BY <1>6 DEF IssueAuthToken
    <3> QED
      BY <1>1, <2>1, <3>1 DEF Typed
  <2>4. request' \in [Requests -> Requested] /\ RequestsPrepared'
    BY <1>1, <1>6, IdleFits, SameRows DEF IssueAuthToken, Ends, Goes
  <2> QED
    BY <1>1, <1>6, <2>2, <2>3, <2>4 DEF IssueAuthToken, Typed, TypeOK, AuthTokens
<1>7. ASSUME NEW t \in tokens, RevokeAuthToken(t) PROVE Kept'
  BY <1>1, <1>7 DEF RevokeAuthToken, flowVars, Typed, TypeOK, RequestsPrepared
<1>8. CASE Expire
  BY <1>1, <1>8 DEF Expire, Typed, TypeOK, RequestsPrepared
<1> QED
  BY <1>2, <1>3, <1>4, <1>5, <1>6, <1>7, <1>8

(* Rows have their types when there are more accounts and logins. *)
LEMMA RowsStay ==
  ASSUME Typed, NEW n \in Nat, logins <= n, NEW rows, DOMAIN accounts \subseteq rows
  PROVE  /\ accounts \in Seq(Account(n))
         /\ links \in Seq([user : Users, key : rows, carried : BOOLEAN])
         /\ carry \subseteq [code : 1 .. drawn, key : rows]
         /\ answers \subseteq [account : rows, key : 0 .. n, session : 1 .. n]
<1>1. Account(logins) \subseteq Account(n) /\ accounts \in Seq(Account(logins))
  BY DEF Typed, TypeOK, Account
<1>2. accounts \in Seq(Account(n))
  BY <1>1, SeqMonotonic
<1>3. links \in Seq([user : Users, key : rows, carried : BOOLEAN])
  <2>1. Link \subseteq [user : Users, key : rows, carried : BOOLEAN] /\ links \in Seq(Link)
    BY DEF Typed, TypeOK, Link
  <2> QED
    BY <2>1, SeqMonotonic
<1>4. answers \subseteq [account : rows, key : 0 .. n, session : 1 .. n]
  BY DEF Typed, TypeOK
<1> QED
  BY <1>2, <1>3, <1>4 DEF Typed, TypeOK

(* One account more. *)
LEMMA AccountAdded ==
  ASSUME Typed, accounts' = Append(accounts, [session |-> Never, temp |-> Never])
  PROVE  /\ accounts' \in Seq(Account(logins))
         /\ Len(accounts') = Len(accounts) + 1
         /\ DOMAIN accounts = 1 .. Len(accounts)
         /\ DOMAIN accounts' = 1 .. Len(accounts) + 1
         /\ \A a \in DOMAIN accounts : accounts'[a] = accounts[a]
<1>1. [session |-> Never, temp |-> Never] \in Account(logins)
  BY DEF Never, Account, Typed
<1>2. accounts \in Seq(Account(logins))
  BY DEF Typed, TypeOK, Account
<1> QED
  BY <1>1, <1>2, AppendProperties, LenProperties

(* One account changed. *)
LEMMA AccountChanged ==
  ASSUME Typed, NEW key \in DOMAIN accounts, NEW n \in Nat, logins <= n,
         NEW account \in Account(n), accounts' = [accounts EXCEPT ![key] = account]
  PROVE  /\ accounts' \in Seq(Account(n))
         /\ Len(accounts') = Len(accounts)
         /\ DOMAIN accounts' = DOMAIN accounts
<1>1. accounts \in Seq(Account(n))
  BY RowsStay
<1> QED
  BY <1>1, ExceptSeq, LenProperties

(* No request goes on. *)
LEMMA RequestsStay ==
  ASSUME IInv, UNCHANGED request,
         drawn' \in Nat, drawn <= drawn', logins' \in Nat, logins <= logins',
         DOMAIN accounts \subseteq DOMAIN accounts'
  PROVE  request' \in [Requests -> Requested] /\ RequestsPrepared'
<1>1. Typed /\ RequestsPrepared
  BY DEF IInv
<1>2. ASSUME NEW s \in Requests PROVE Prepared(request[s], DOMAIN accounts', drawn', logins')
  <2>1. /\ request[s] \in Requested /\ drawn \in Nat /\ logins \in Nat
        /\ Prepared(request[s], DOMAIN accounts, drawn, logins)
    BY <1>1 DEF Typed, RequestsPrepared
  <2> QED
    BY <2>1, PreparedStays
<1> QED
  BY <1>1, <1>2 DEF RequestsPrepared, Typed

(* A token stands for a user or for nobody, and its accounts exist. *)
LEMMA TokenUsers ==
  ASSUME Typed, NEW t \in tokens
  PROVE  /\ TokenUser(t) \in Users \cup {None}
         /\ TokenAccounts(t) \subseteq DOMAIN accounts
<1>1. t \in AuthTokens /\ (t.user = None => t.key \in 1 .. Old)
  BY DEF Typed, TypeOK, AuthTokens
<1>2. /\ links \in Seq(Link) /\ DOMAIN links = 1 .. Len(links)
      /\ \A i \in DOMAIN links : links[i] \in Link
  <2>1. links \in Seq(Link)
    BY DEF Typed, TypeOK, Link
  <2> QED
    BY <2>1, LenProperties, ElementOfSeq
<1>3. 1 .. Old \subseteq DOMAIN accounts
  <2>1. accounts \in Seq(Account(logins)) /\ Old <= Len(accounts) /\ Old \in Nat
    BY SignInAssumption DEF Typed, TypeOK, Account
  <2> QED
    BY <2>1, LenProperties
<1>4. TokenUser(t) \in Users \cup {None}
  <2>1. CASE t.user # None \/ LinksOf(t.key) = {}
    BY <1>1, <2>1 DEF TokenUser, AuthTokens
  <2>2. CASE ~ (t.user # None \/ LinksOf(t.key) = {})
    <3> DEFINE i == CHOOSE j \in LinksOf(t.key) : TRUE
    <3>1. i \in DOMAIN links
      BY <2>2 DEF LinksOf
    <3>2. TokenUser(t) = links[i].user
      BY <2>2 DEF TokenUser
    <3> HIDE DEF i
    <3> QED
      BY <1>2, <3>1, <3>2 DEF Link
  <2> QED
    BY <2>1, <2>2
<1>5. CASE TokenUser(t) = None
  <2>1. t.user = None
    <3>1. CASE LinksOf(t.key) = {}
      BY <1>5, <3>1 DEF TokenUser
    <3>2. CASE t.user # None
      BY <1>5, <3>2 DEF TokenUser
    <3> QED
      BY <3>1, <3>2
  <2> QED
    BY <1>1, <1>3, <1>4, <1>5, <2>1 DEF TokenAccounts
<1>6. CASE TokenUser(t) # None
  BY <1>2, <1>4, <1>6 DEF TokenAccounts, IdentityKeys, Link
<1> QED
  BY <1>4, <1>5, <1>6

(* Accounts made, and codes issued, by nobody's request. *)
LEMMA IssueSteps ==
  ASSUME IInv, RegisterAccount \/ \E key \in DOMAIN accounts : LobbyChatCarry(key)
  PROVE  Kept'
<1> USE DEF Kept
<1>1. Typed /\ RequestsPrepared /\ drawn \in Nat /\ logins \in Nat
  BY DEF IInv, Typed
<1>2. CASE RegisterAccount
  <2>1. /\ accounts' \in Seq(Account(logins)) /\ Len(accounts') = Len(accounts) + 1
        /\ DOMAIN accounts \subseteq DOMAIN accounts' /\ Len(accounts) \in Nat
    <3>1. accounts \in Seq(Account(logins))
      BY <1>1 DEF Typed, TypeOK, Account
    <3> QED
      BY <1>1, <1>2, <3>1, AccountAdded, LenProperties DEF RegisterAccount
  <2>2. request' \in [Requests -> Requested] /\ RequestsPrepared'
    BY <1>1, <1>2, <2>1, RequestsStay DEF RegisterAccount
  <2>3. /\ links \in Seq([user : Users, key : DOMAIN accounts', carried : BOOLEAN])
        /\ carry \subseteq [code : 1 .. drawn, key : DOMAIN accounts']
        /\ answers \subseteq [account : DOMAIN accounts', key : 0 .. logins, session : 1 .. logins]
    <3>1. logins <= logins
      BY <1>1
    <3> QED
      BY <1>1, <2>1, <3>1, RowsStay
  <2>4. Old <= Len(accounts')
    BY <1>1, <2>1, SignInAssumption DEF Typed
  <2> QED
    BY <1>1, <1>2, <2>1, <2>2, <2>3, <2>4
       DEF RegisterAccount, flowVars, Typed, TypeOK, Account
<1>3. ASSUME NEW key \in DOMAIN accounts, LobbyChatCarry(key) PROVE Kept'
  <2>1. drawn' = drawn + 1 /\ UNCHANGED <<accounts, logins, request>>
    BY <1>3 DEF LobbyChatCarry, IssueCarryCode
  <2>2. carry' \subseteq [code : 1 .. drawn', key : DOMAIN accounts]
    BY <1>1, <1>3, <2>1 DEF LobbyChatCarry, IssueCarryCode, Typed, TypeOK
  <2>3. request' \in [Requests -> Requested] /\ RequestsPrepared'
    BY <1>1, <2>1, RequestsStay
  <2> QED
    <3>1. UNCHANGED <<flow, codes, given, tokens, accounts, links, misses, logins, answers>>
      BY <1>3 DEF LobbyChatCarry, flowVars
    <3>2. drawn' \in Nat
      BY <1>1, <2>1
    <3> QED
      BY <1>1, <2>2, <2>3, <3>1, <3>2 DEF Typed, TypeOK
<1> QED
  BY <1>2, <1>3

(* Tokens, carry-over codes and links. *)
LEMMA CarrySteps ==
  ASSUME IInv, NEW r \in Requests,
         \/ \E t \in tokens, code \in 0 .. drawn : ServeAccounts(r, t, code)
         \/ CarryAccount(r) \/ TokenIdentity(r) \/ LinkIdentity(r) \/ Fails(r)
  PROVE  Kept'
<1> USE DEF Kept
<1>1. /\ Typed /\ RequestsPrepared /\ request[r] \in Requested
      /\ drawn \in Nat /\ logins \in Nat
      /\ Prepared(request[r], DOMAIN accounts, drawn, logins)
  BY DEF IInv, Typed, RequestsPrepared
<1>2. ASSUME NEW t \in tokens, NEW code \in 0 .. drawn, ServeAccounts(r, t, code)
      PROVE  Kept'
  <2> DEFINE q == [Idle EXCEPT !.by = "carry", !.at = "take", !.token = t, !.code = code]
  <2>1. t \in AuthTokens /\ code \in Nat
    BY <1>1 DEF Typed, TypeOK, AuthTokens
  <2>2. q \in Requested /\ Prepared(q, DOMAIN accounts, drawn, logins)
    BY <2>1 DEF Idle, Requested, Prepared
  <2>3. request' \in [Requests -> Requested] /\ RequestsPrepared'
    BY <1>2, <2>2, SameRows DEF ServeAccounts, Starts, Goes
  <2> QED
    BY <1>1, <1>2, <2>3 DEF ServeAccounts, flowVars, Typed, TypeOK
<1>3. CASE CarryAccount(r)
  <2>1. misses' \in Nat /\ misses' <= CarryMaxMisses
    <3>1. CarryMaxMisses \in Nat /\ misses \in Nat /\ misses <= CarryMaxMisses
      BY <1>1, SignInAssumption DEF Typed, TypeOK
    <3>2. misses' = misses \/ (misses < CarryMaxMisses /\ misses' = misses + 1)
      BY <1>3, <3>1 DEF CarryAccount, MayTry
    <3> QED
      BY <3>1, <3>2
  <2>2. carry' \subseteq carry
    BY <1>3 DEF CarryAccount, Taken
  <2>3. request' \in [Requests -> Requested] /\ RequestsPrepared'
    <3>1. CASE Ends(r)
      BY <1>3, <3>1, IdleFits, SameRows DEF CarryAccount, Ends, Goes
    <3>2. ASSUME NEW c \in carry, c.code = request[r].code, request[r].at = "take",
                 Goes(r, [request[r] EXCEPT !.at = "identity", !.key = c.key])
          PROVE  request' \in [Requests -> Requested] /\ RequestsPrepared'
      <4> DEFINE q == [request[r] EXCEPT !.at = "identity", !.key = c.key]
      <4>1. c.code \in 1 .. drawn /\ c.key \in DOMAIN accounts /\ c.key \in Nat
        <5>1. accounts \in Seq(Account(logins))
          BY <1>1 DEF Typed, TypeOK, Account
        <5> QED
          BY <1>1, <5>1, LenProperties DEF Typed, TypeOK
      <4>2. q \in Requested /\ Prepared(q, DOMAIN accounts, drawn, logins)
        BY <1>1, <3>2, <4>1 DEF Requested, Prepared
      <4> QED
        BY <1>3, <3>2, <4>2, SameRows DEF CarryAccount
    <3> QED
      BY <1>3, <3>1, <3>2 DEF CarryAccount
  <2> QED
    BY <1>1, <1>3, <2>1, <2>2, <2>3 DEF CarryAccount, flowVars, Typed, TypeOK
<1>4. CASE TokenIdentity(r)
  <2> DEFINE u == TokenUser(request[r].token)
             q == [request[r] EXCEPT !.at = "link", !.token = None, !.user = u]
  <2>1. request' \in [Requests -> Requested] /\ RequestsPrepared'
    <3>1. CASE request[r].token \in tokens /\ u # None
      <4>1. u \in Users
        BY <1>1, <3>1, TokenUsers
      <4>2. request[r].at = "identity" /\ Goes(r, q)
        BY <1>4, <3>1 DEF TokenIdentity
      <4> HIDE DEF u
      <4>3. q \in Requested /\ Prepared(q, DOMAIN accounts, drawn, logins)
        BY <1>1, <4>1, <4>2 DEF Requested, Prepared
      <4> QED
        BY <1>4, <4>2, <4>3, SameRows DEF TokenIdentity
    <3>2. CASE ~ (request[r].token \in tokens /\ u # None)
      BY <1>4, <3>2, IdleFits, SameRows DEF TokenIdentity, Ends, Goes
    <3> QED
      BY <3>1, <3>2
  <2> QED
    BY <1>1, <1>4, <2>1 DEF TokenIdentity, flowVars, Typed, TypeOK
<1>5. CASE LinkIdentity(r)
  <2>1. request' \in [Requests -> Requested] /\ RequestsPrepared'
    BY <1>5, IdleFits, SameRows DEF LinkIdentity, Ends, Goes
  <2>2. links' \in Seq(Link)
    <3> DEFINE l == [user |-> request[r].user, key |-> request[r].key, carried |-> TRUE]
    <3>1. links \in Seq(Link)
      BY <1>1 DEF Typed, TypeOK, Link
    <3>2. l \in Link
      BY <1>1, <1>5 DEF LinkIdentity, Prepared, Link
    <3>3. links' = links \/ links' = Append(links, l)
      BY <1>5 DEF LinkIdentity
    <3> QED
      BY <3>1, <3>2, <3>3, AppendProperties
  <2> QED
    BY <1>1, <1>5, <2>1, <2>2 DEF LinkIdentity, flowVars, Typed, TypeOK, Link
<1>6. CASE Fails(r)
  <2>1. request' \in [Requests -> Requested] /\ RequestsPrepared'
    BY <1>6, IdleFits, SameRows DEF Fails, Ends, Goes
  <2> QED
    BY <1>1, <1>6, <2>1 DEF Fails, flowVars, Typed, TypeOK
<1> QED
  BY <1>2, <1>3, <1>4, <1>5, <1>6

(* A request that logs in to an account. *)
LEMMA LoginFits ==
  ASSUME NEW way, way \in {"login", "page"}, NEW key, key \in Nat,
         NEW q, q = [Idle EXCEPT !.by = way, !.at = "login", !.key = key],
         NEW keys, key \in keys, NEW n, NEW m
  PROVE  q \in Requested /\ Prepared(q, keys, n, m)
<1>1. Idle \in Requested
  BY IdleFits
<1>2. q \in Requested
  BY <1>1 DEF Requested
<1>3. q.by # "carry" /\ q.at = "login" /\ q.key = key
  BY <1>1 DEF Requested
<1> QED
  BY <1>2, <1>3 DEF Prepared

(* A request whose login has drawn a session. *)
LEMMA SessionFits ==
  ASSUME NEW old \in Requested, NEW keys, NEW n, NEW m \in Nat, NEW m2 \in Nat, NEW l \in 1 .. m2,
         Prepared(old, keys, n, m), old.at = "login"
  PROVE  LET q == [old EXCEPT !.at = "temp", !.login = l]
         IN  q \in Requested /\ Prepared(q, keys, n, m2)
<1> DEFINE q == [old EXCEPT !.at = "temp", !.login = l]
<1>1. q \in Requested
  <2>1. l \in Nat /\ "temp" \in {"idle", "approved", "issue", "take", "identity", "link", "login", "temp"}
    OBVIOUS
  <2> QED
    BY <2>1 DEF Requested
<1>2. q.by = old.by /\ q.at = "temp" /\ q.key = old.key /\ q.login = l
  BY DEF Requested
<1>3. old.by # "carry" /\ old.key \in keys
  BY DEF Prepared
<1> QED
  BY <1>1, <1>2, <1>3 DEF Prepared

(* Logins. *)
LEMMA LoginSteps ==
  ASSUME IInv, NEW r \in Requests, Login(r)
  PROVE  Kept'
<1> USE DEF Kept
<1>1. /\ Typed /\ RequestsPrepared /\ request[r] \in Requested
      /\ drawn \in Nat /\ logins \in Nat /\ drawn <= drawn /\ logins <= logins
      /\ Prepared(request[r], DOMAIN accounts, drawn, logins)
  BY DEF IInv, Typed, RequestsPrepared
<1>2. accounts \in Seq(Account(logins)) /\ DOMAIN accounts = 1 .. Len(accounts) /\ Len(accounts) \in Nat
  <2>1. accounts \in Seq(Account(logins))
    BY <1>1 DEF Typed, TypeOK, Account
  <2> QED
    BY <2>1, LenProperties
<1>3. ASSUME NEW t \in tokens, HandleAPILogin(r, t) PROVE Kept'
  <2>1. t \in AuthTokens
    BY <1>1 DEF Typed, TypeOK, AuthTokens
  <2>2. request' \in [Requests -> Requested] /\ RequestsPrepared'
    <3>1. CASE Goes(r, [Idle EXCEPT !.by = "login", !.at = "identity", !.token = t])
      <4> DEFINE q == [Idle EXCEPT !.by = "login", !.at = "identity", !.token = t]
      <4>1. q \in Requested /\ Prepared(q, DOMAIN accounts, drawn, logins)
        BY <2>1 DEF Idle, Requested, Prepared
      <4> QED
        BY <1>3, <3>1, <4>1, SameRows DEF HandleAPILogin
    <3>2. ASSUME NEW key \in TokenAccounts(t),
                 Goes(r, [Idle EXCEPT !.by = "login", !.at = "login", !.key = key])
          PROVE  request' \in [Requests -> Requested] /\ RequestsPrepared'
      <4> DEFINE q == [Idle EXCEPT !.by = "login", !.at = "login", !.key = key]
      <4>1. key \in DOMAIN accounts
        BY <1>1, TokenUsers
      <4>2. q \in Requested /\ Prepared(q, DOMAIN accounts, drawn, logins)
        <5>1. key \in Nat
          BY <1>2, <4>1
        <5> QED
          BY <4>1, <5>1, LoginFits
      <4> QED
        BY <1>3, <3>2, <4>2, SameRows DEF HandleAPILogin
    <3> QED
      BY <1>3, <3>1, <3>2 DEF HandleAPILogin, Starts, Goes
  <2> QED
    BY <1>1, <1>3, <2>2 DEF HandleAPILogin, flowVars, Typed, TypeOK
<1>4. ASSUME NEW key \in DOMAIN accounts, HandleLoginPage(r, key) PROVE Kept'
  <2> DEFINE q == [Idle EXCEPT !.by = "page", !.at = "login", !.key = key]
  <2>1. q \in Requested /\ Prepared(q, DOMAIN accounts, drawn, logins)
    <3>1. key \in Nat
      BY <1>2
    <3> QED
      BY <3>1, LoginFits
  <2>2. request' \in [Requests -> Requested] /\ RequestsPrepared'
    BY <1>4, <2>1, SameRows DEF HandleLoginPage, Starts, Goes
  <2> QED
    BY <1>1, <1>4, <2>2 DEF HandleLoginPage, flowVars, Typed, TypeOK
<1>5. CASE RegisterIdentityAccount(r)
  <2> DEFINE key == Len(accounts) + 1
             l == [user |-> request[r].user, key |-> key, carried |-> FALSE]
             q == [Idle EXCEPT !.by = "login", !.at = "login", !.key = key]
  <2>1. CASE UNCHANGED <<accounts, links>> /\ Ends(r)
    <3>1. request' \in [Requests -> Requested] /\ RequestsPrepared'
      BY <1>5, <2>1, IdleFits, SameRows DEF RegisterIdentityAccount, Ends, Goes
    <3> QED
      BY <1>1, <1>5, <2>1, <3>1 DEF RegisterIdentityAccount, flowVars, Typed, TypeOK
  <2>2. CASE /\ accounts' = Append(accounts, [session |-> Never, temp |-> Never])
             /\ links' = Append(links, l)
             /\ Goes(r, q)
    <3>1. /\ accounts' \in Seq(Account(logins)) /\ Len(accounts') = Len(accounts) + 1
          /\ DOMAIN accounts \subseteq DOMAIN accounts' /\ key \in DOMAIN accounts'
      BY <1>1, <1>2, <2>2, AccountAdded
    <3>2. q \in Requested /\ Prepared(q, DOMAIN accounts', drawn, logins)
      <4>1. key \in Nat
        BY <1>2
      <4> QED
        BY <3>1, <4>1, LoginFits
    <3>3. request' \in [Requests -> Requested] /\ RequestsPrepared'
      <4>1. UNCHANGED <<drawn, logins>>
        BY <1>5 DEF RegisterIdentityAccount
      <4> QED
        BY <1>1, <2>2, <3>1, <3>2, <4>1, RequestsMove
    <3>4. /\ links \in Seq([user : Users, key : DOMAIN accounts', carried : BOOLEAN])
          /\ carry \subseteq [code : 1 .. drawn, key : DOMAIN accounts']
          /\ answers \subseteq [account : DOMAIN accounts', key : 0 .. logins, session : 1 .. logins]
      BY <1>1, <3>1, RowsStay
    <3>5. links' \in Seq([user : Users, key : DOMAIN accounts', carried : BOOLEAN])
      <4>1. l \in [user : Users, key : DOMAIN accounts', carried : BOOLEAN]
        BY <1>1, <1>5, <3>1 DEF RegisterIdentityAccount, Prepared
      <4> QED
        BY <2>2, <3>4, <4>1, AppendProperties
    <3>6. Old <= Len(accounts')
      BY <1>1, <1>2, <3>1, SignInAssumption DEF Typed
    <3> QED
      BY <1>1, <1>5, <3>1, <3>3, <3>4, <3>5, <3>6
         DEF RegisterIdentityAccount, flowVars, Typed, TypeOK, Account
  <2> QED
    BY <1>5, <2>1, <2>2 DEF RegisterIdentityAccount
<1>6. CASE LoginAccount(r)
  <2> DEFINE key == request[r].key
             account == [accounts[key] EXCEPT !.session = logins + 1]
  <2>1. /\ key \in DOMAIN accounts /\ logins' = logins + 1 /\ logins' \in Nat
        /\ logins <= logins' /\ UNCHANGED drawn
    BY <1>1, <1>6 DEF LoginAccount, Prepared
  <2>2. account \in Account(logins')
    <3>1. accounts[key] \in Account(logins)
      BY <1>2, <2>1, ElementOfSeq
    <3> QED
      BY <1>1, <2>1, <3>1 DEF Account
  <2>3. accounts' = [accounts EXCEPT ![key] = account]
    BY <1>6 DEF LoginAccount
  <2> HIDE DEF account
  <2>4. /\ accounts' \in Seq(Account(logins')) /\ Len(accounts') = Len(accounts)
        /\ DOMAIN accounts' = DOMAIN accounts
    BY <1>1, <2>1, <2>2, <2>3, AccountChanged
  <2>5. answers' \subseteq [account : DOMAIN accounts, key : 0 .. logins', session : 1 .. logins']
    <3>1. answers \subseteq [account : DOMAIN accounts, key : 0 .. logins', session : 1 .. logins']
      BY <1>1, <2>1, RowsStay
    <3>2. Answer(request[r], logins + 1)
            \in [account : DOMAIN accounts, key : 0 .. logins', session : 1 .. logins']
      BY <1>1, <2>1 DEF Answer, Never
    <3> QED
      BY <1>6, <3>1, <3>2 DEF LoginAccount
  <2>6. request' \in [Requests -> Requested] /\ RequestsPrepared'
    <3>1. CASE Ends(r)
      BY <1>1, <2>1, <2>4, <3>1, IdleFits, RequestsMove DEF Ends, Goes
    <3>2. CASE Goes(r, [request[r] EXCEPT !.at = "temp", !.login = logins + 1])
      <4> DEFINE q == [request[r] EXCEPT !.at = "temp", !.login = logins + 1]
      <4>1. request[r].at = "login"
        BY <1>6 DEF LoginAccount
      <4>2. q \in Requested /\ Prepared(q, DOMAIN accounts', drawn', logins')
        <5>1. logins + 1 \in 1 .. logins'
          BY <1>1, <2>1
        <5>2. q \in Requested /\ Prepared(q, DOMAIN accounts, drawn, logins')
          BY <1>1, <2>1, <4>1, <5>1, SessionFits
        <5> QED
          BY <2>1, <2>4, <5>2
      <4> QED
        BY <1>1, <2>1, <2>4, <3>2, <4>2, RequestsMove
    <3> QED
      BY <1>6, <3>1, <3>2 DEF LoginAccount
  <2> QED
    BY <1>1, <1>6, <2>1, <2>4, <2>5, <2>6 DEF LoginAccount, flowVars, Typed, TypeOK, Account
<1>7. CASE RotateTempKey(r)
  <2> DEFINE key == request[r].key
             account == [accounts[key] EXCEPT !.temp = request[r].login]
  <2>1. key \in DOMAIN accounts /\ request[r].login \in 1 .. logins
    BY <1>1, <1>7 DEF RotateTempKey, Prepared
  <2>2. account \in Account(logins)
    <3>1. accounts[key] \in Account(logins)
      BY <1>2, <2>1, ElementOfSeq
    <3> QED
      BY <1>1, <2>1, <3>1 DEF Account
  <2>3. accounts' = [accounts EXCEPT ![key] = account]
    BY <1>7 DEF RotateTempKey
  <2> HIDE DEF account
  <2>4. /\ accounts' \in Seq(Account(logins)) /\ Len(accounts') = Len(accounts)
        /\ DOMAIN accounts' = DOMAIN accounts
    BY <1>1, <2>1, <2>2, <2>3, AccountChanged
  <2>5. answers' \subseteq [account : DOMAIN accounts, key : 0 .. logins, session : 1 .. logins]
    <3>1. Answer(request[r], request[r].login)
            \in [account : DOMAIN accounts, key : 0 .. logins, session : 1 .. logins]
      BY <1>1, <2>1 DEF Answer, Never
    <3> QED
      BY <1>1, <1>7, <3>1 DEF RotateTempKey, Typed, TypeOK
  <2>6. request' \in [Requests -> Requested] /\ RequestsPrepared'
    <3>1. UNCHANGED <<drawn, logins>>
      BY <1>7 DEF RotateTempKey
    <3> QED
      BY <1>1, <1>7, <2>4, <3>1, IdleFits, RequestsMove DEF RotateTempKey, Ends, Goes
  <2> QED
    BY <1>1, <1>7, <2>4, <2>5, <2>6 DEF RotateTempKey, flowVars, Typed, TypeOK, Account
<1> QED
  BY <1>3, <1>4, <1>5, <1>6, <1>7 DEF Login

(* Types and what requests hold are kept by every step. *)
LEMMA KeptStep == ASSUME IInv, Next PROVE Kept'
<1>1. ASSUME NEW r \in Requests, Site(r) PROVE Kept'
  BY <1>1, FlowSteps, CarrySteps DEF Site
<1>2. ASSUME NEW r \in Requests, Login(r) \/ Fails(r) PROVE Kept'
  BY <1>2, CarrySteps, LoginSteps
<1>3. CASE RegisterAccount \/ \E key \in DOMAIN accounts : LobbyChatCarry(key)
  BY <1>3, IssueSteps
<1>4. CASE \/ \E f \in Flows : ServeStart(f)
           \/ \E t \in tokens : RevokeAuthToken(t)
           \/ Expire
  BY <1>4, FlowSteps
<1> QED
  BY <1>1, <1>2, <1>3, <1>4 DEF Next

-----------------------------------------------------------------------------
(* What becomes of a request that signs in with the provider. *)
HoldsNow(r, way, f) ==
  \/ UNCHANGED request
  \/ /\ request'[r].by = way /\ request'[r].at \in {"approved", "issue"}
     /\ request'[r].code = f
     /\ \A s \in Requests : s # r => request'[s] = request[s]

(* A slot that takes up a request holds it. *)
LEMMA Begins ==
  ASSUME Typed, NEW r \in Requests, NEW q, Starts(r, q)
  PROVE  request'[r] = q /\ \A s \in Requests : s # r => request'[s] = request[s]
  BY DEF Typed, Starts

(* The callback's request holds the flow it was approved in. *)
LEMMA CallbackHolds ==
  ASSUME Typed, NEW r \in Requests, NEW f \in Flows, ServeCallback(r, f)
  PROVE  HoldsNow(r, "callback", f)
<1>1. ASSUME NEW u,
             Starts(r, [Idle EXCEPT !.by = "callback", !.at = "approved", !.code = f, !.user = u])
      PROVE  HoldsNow(r, "callback", f)
  <2> DEFINE q == [Idle EXCEPT !.by = "callback", !.at = "approved", !.code = f, !.user = u]
  <2>1. q.by = "callback" /\ q.at = "approved" /\ q.code = f
    BY DEF Idle
  <2> HIDE DEF q
  <2> QED
    BY <1>1, <2>1, Begins DEF HoldsNow, q
<1> QED
  BY <1>1 DEF ServeCallback, HoldsNow

(* The token's request holds the flow of the code. *)
LEMMA TokenHolds ==
  ASSUME Typed, NEW r \in Requests, NEW c \in codes, NEW verified \in BOOLEAN,
         ServeToken(r, c, verified)
  PROVE  HoldsNow(r, "token", c.flow)
<1> DEFINE q == [Idle EXCEPT !.by = "token", !.at = "issue", !.code = c.flow, !.user = c.user]
<1>1. CASE Starts(r, q)
  <2>1. q.by = "token" /\ q.at = "issue" /\ q.code = c.flow
    BY DEF Idle
  <2> HIDE DEF q
  <2> QED
    BY <1>1, <2>1, Begins DEF HoldsNow
<1> QED
  BY <1>1 DEF ServeToken, HoldsNow

(* What becomes of requests in the steps that follow the flows. *)
OtherStep(r) ==
  \/ \E t \in tokens, code \in 0 .. drawn : ServeAccounts(r, t, code)
  \/ CarryAccount(r) \/ TokenIdentity(r) \/ LinkIdentity(r)
  \/ Login(r) \/ Fails(r)

Becomes(r) ==
  /\ \A s \in Requests : s # r => request'[s] = request[s]
  /\ request'[r].at \in {"idle", "take", "identity", "link", "login", "temp"}
  /\ Carries(r)' => \/ CarryAccount(r)
                    \/ Carries(r) /\ request'[r].code = request[r].code
  /\ request'[r].at = "temp" => LoginAccount(r)

(* A request that ends holds nothing. *)
LEMMA BecomesIdle ==
  ASSUME Typed, NEW r \in Requests, Ends(r)
  PROVE  Becomes(r) /\ request'[r].at = "idle" /\ request'[r].by = "nobody"
<1>1. request'[r] = Idle /\ \A s \in Requests : s # r => request'[s] = request[s]
  BY DEF Ends, Typed
<1>2. request'[r].at = "idle" /\ request'[r].by = "nobody"
  BY <1>1 DEF Idle
<1> QED
  BY <1>1, <1>2 DEF Becomes, Carries

(* Only CarryAccount begins to carry a code, only LoginAccount has a session.*)
LEMMA OtherStepBecomes ==
  ASSUME Typed, NEW r \in Requests, OtherStep(r)
  PROVE  Becomes(r)
<1>1. request \in [Requests -> Requested] /\ request[r] \in Requested
  BY DEF Typed
<1>2. ASSUME NEW t \in tokens, NEW code \in 0 .. drawn, ServeAccounts(r, t, code)
      PROVE  Becomes(r)
  <2>1. request'[r].at = "take" /\ \A s \in Requests : s # r => request'[s] = request[s]
    BY <1>1, <1>2 DEF ServeAccounts, Starts, Idle
  <2> QED
    BY <2>1 DEF Becomes, Carries
<1>3. CASE CarryAccount(r)
  <2>1. ASSUME NEW c \in carry, Goes(r, [request[r] EXCEPT !.at = "identity", !.key = c.key])
        PROVE  Becomes(r)
    <3>1. request'[r].at = "identity" /\ \A s \in Requests : s # r => request'[s] = request[s]
      BY <1>1, <2>1 DEF Goes, Requested
    <3> QED
      BY <1>3, <3>1 DEF Becomes
  <2> QED
    BY <1>3, <2>1, BecomesIdle DEF CarryAccount
<1>4. CASE TokenIdentity(r)
  <2> DEFINE u == TokenUser(request[r].token)
  <2>1. CASE Goes(r, [request[r] EXCEPT !.at = "link", !.token = None, !.user = u])
    <3> HIDE DEF u
    <3>1. /\ request'[r].at = "link" /\ request'[r].by = request[r].by
          /\ request'[r].code = request[r].code
          /\ \A s \in Requests : s # r => request'[s] = request[s]
      BY <1>1, <2>1 DEF Goes, Requested
    <3>2. request[r].at = "identity"
      BY <1>4 DEF TokenIdentity
    <3> QED
      BY <3>1, <3>2 DEF Becomes, Carries
  <2> QED
    BY <1>4, <2>1, BecomesIdle DEF TokenIdentity
<1>5. CASE LinkIdentity(r) \/ Fails(r) \/ RotateTempKey(r)
  BY <1>5, BecomesIdle DEF LinkIdentity, Fails, RotateTempKey
<1>6. ASSUME NEW t \in tokens, HandleAPILogin(r, t) PROVE Becomes(r)
  <2>1. /\ request'[r].at \in {"identity", "login"} /\ request'[r].by = "login"
        /\ \A s \in Requests : s # r => request'[s] = request[s]
    BY <1>1, <1>6 DEF HandleAPILogin, Starts, Idle
  <2> QED
    BY <2>1 DEF Becomes, Carries
<1>7. ASSUME NEW key \in DOMAIN accounts, HandleLoginPage(r, key) PROVE Becomes(r)
  <2>1. /\ request'[r].at = "login" /\ request'[r].by = "page"
        /\ \A s \in Requests : s # r => request'[s] = request[s]
    BY <1>1, <1>7 DEF HandleLoginPage, Starts, Idle
  <2> QED
    BY <2>1 DEF Becomes, Carries
<1>8. CASE RegisterIdentityAccount(r)
  <2>1. ASSUME NEW key, Goes(r, [Idle EXCEPT !.by = "login", !.at = "login", !.key = key])
        PROVE  Becomes(r)
    <3>1. /\ request'[r].at = "login" /\ request'[r].by = "login"
          /\ \A s \in Requests : s # r => request'[s] = request[s]
      BY <1>1, <2>1 DEF Goes, Idle
    <3> QED
      BY <3>1 DEF Becomes, Carries
  <2> QED
    BY <1>8, <2>1, BecomesIdle DEF RegisterIdentityAccount
<1>9. CASE LoginAccount(r)
  <2>1. CASE Goes(r, [request[r] EXCEPT !.at = "temp", !.login = logins + 1])
    <3>1. /\ request'[r].at = "temp" /\ request'[r].by = request[r].by
          /\ request'[r].code = request[r].code /\ request[r].at = "login"
          /\ \A s \in Requests : s # r => request'[s] = request[s]
      BY <1>1, <1>9, <2>1 DEF LoginAccount, Goes, Requested
    <3> QED
      BY <1>9, <3>1 DEF Becomes, Carries
  <2> QED
    BY <1>9, <2>1, BecomesIdle DEF LoginAccount
<1> QED
  BY <1>2, <1>3, <1>4, <1>5, <1>6, <1>7, <1>8, <1>9 DEF OtherStep, Login

-----------------------------------------------------------------------------
(* One token for a flow. *)
Once == OneTokenPerFlow /\ FlowsApart

(* A step that leaves flows and codes, and lets no request hold a flow     *)
(* that did not.                                                           *)
LEMMA FlowsStay ==
  ASSUME IInv, UNCHANGED flowVars,
         \A r \in Requests, f \in Flows : Holds(r, f)' => Holds(r, f)
  PROVE  Once'
  BY DEF IInv, flowVars, Once, OneTokenPerFlow, FlowsApart, InCode

(* Every step keeps each flow in one place, and its tokens to one. *)
LEMMA OnceStep == ASSUME IInv, Next, Kept' PROVE Once'
<1>1. /\ Typed /\ RequestsPrepared /\ OneTokenPerFlow /\ FlowsApart
      /\ flow \in [Flows -> {"new", "pending", "over"}] /\ given \in [Flows -> Nat]
      /\ codes \subseteq [flow : Flows, user : Users]
      /\ request \in [Requests -> Requested] /\ request' \in [Requests -> Requested]
  BY DEF IInv, Typed, TypeOK, Kept
<1> USE DEF Once
<1>2. ASSUME NEW r \in Requests, NEW f \in Flows, ServeCallback(r, f) PROVE Once'
  <2>1. flow[f] = "pending" /\ flow' = [flow EXCEPT ![f] = "over"] /\ UNCHANGED <<codes, given>>
    BY <1>2 DEF ServeCallback, Used
  <2>2. \A s \in Requests, g \in Flows : Holds(s, g)' => Holds(s, g) \/ (s = r /\ g = f)
    BY <1>1, <1>2, CallbackHolds DEF HoldsNow, Holds
  <2>3. given[f] = 0 /\ ~ InCode(f) /\ \A s \in Requests : ~ Holds(s, f)
    BY <1>1, <2>1 DEF FlowsApart
  <2> QED
    BY <1>1, <2>1, <2>2, <2>3 DEF OneTokenPerFlow, FlowsApart, InCode
<1>3. ASSUME NEW r \in Requests, IssueCode(r) PROVE Once'
  <2> DEFINE f == request[r].code
             code == [flow |-> f, user |-> request[r].user]
  <2>1. f \in Flows /\ Holds(r, f) /\ codes' = codes \cup {code} /\ UNCHANGED <<flow, given>>
    BY <1>1, <1>3 DEF IssueCode, RequestsPrepared, Prepared, Holds
  <2>2. \A s \in Requests, g \in Flows : Holds(s, g)' => Holds(s, g) /\ s # r
    BY <1>1, <1>3 DEF IssueCode, Ends, Holds, Idle
  <2>3. /\ flow[f] = "over" /\ given[f] = 0 /\ ~ InCode(f)
        /\ \A s \in Requests : Holds(s, f) => s = r
    BY <1>1, <2>1 DEF FlowsApart
  <2>4. \A g \in Flows : InCode(g)' => InCode(g) \/ g = f
    BY <2>1 DEF InCode
  <2>5. ASSUME NEW g \in Flows, NEW c \in codes', NEW d \in codes', c.flow = g, d.flow = g
        PROVE  c = d
    <3>1. CASE g = f
      BY <2>1, <2>3, <2>5, <3>1 DEF InCode
    <3>2. CASE g # f
      BY <1>1, <2>1, <2>5, <3>2 DEF FlowsApart
    <3> QED
      BY <3>1, <3>2
  <2> QED
    BY <1>1, <2>1, <2>2, <2>3, <2>4, <2>5 DEF OneTokenPerFlow, FlowsApart
<1>4. ASSUME NEW r \in Requests, NEW c \in codes, NEW verified \in BOOLEAN,
             ServeToken(r, c, verified)
      PROVE  Once'
  <2>1. codes' = codes \ {c} /\ UNCHANGED <<flow, given>>
    BY <1>4 DEF ServeToken
  <2>2. \A s \in Requests, g \in Flows : Holds(s, g)' => Holds(s, g) \/ (s = r /\ g = c.flow)
    BY <1>1, <1>4, TokenHolds DEF HoldsNow, Holds
  <2>3. c.flow \in Flows /\ InCode(c.flow)
    BY <1>1 DEF InCode
  <2>4. /\ flow[c.flow] = "over" /\ given[c.flow] = 0
        /\ \A s \in Requests : ~ Holds(s, c.flow)
        /\ \A d \in codes : d.flow = c.flow => d = c
    BY <1>1, <2>3 DEF FlowsApart
  <2>5. \A g \in Flows : InCode(g)' => InCode(g) /\ g # c.flow
    BY <2>1, <2>4 DEF InCode
  <2> QED
    BY <1>1, <2>1, <2>2, <2>3, <2>4, <2>5 DEF OneTokenPerFlow, FlowsApart
<1>5. ASSUME NEW r \in Requests, IssueAuthToken(r) PROVE Once'
  <2> DEFINE f == request[r].code
  <2>1. f \in Flows /\ Holds(r, f) /\ given' = [given EXCEPT ![f] = @ + 1] /\ UNCHANGED <<flow, codes>>
    BY <1>1, <1>5 DEF IssueAuthToken, RequestsPrepared, Prepared, Holds
  <2>2. \A s \in Requests, g \in Flows : Holds(s, g)' => Holds(s, g) /\ s # r
    BY <1>1, <1>5 DEF IssueAuthToken, Ends, Holds, Idle
  <2>3. /\ flow[f] = "over" /\ given[f] = 0 /\ ~ InCode(f)
        /\ \A s \in Requests : Holds(s, f) => s = r
    BY <1>1, <2>1 DEF FlowsApart
  <2>4. given'[f] = 1 /\ \A g \in Flows : g # f => given'[g] = given[g]
    BY <1>1, <2>1, <2>3
  <2> QED
    BY <1>1, <2>1, <2>2, <2>3, <2>4 DEF OneTokenPerFlow, FlowsApart, InCode
<1>6. ASSUME NEW f \in Flows, ServeStart(f) PROVE Once'
  BY <1>1, <1>6 DEF ServeStart, OneTokenPerFlow, FlowsApart, InCode, Holds
<1>7. CASE Expire
  BY <1>1, <1>7 DEF Expire, OneTokenPerFlow, FlowsApart, InCode, Holds
<1>8. CASE \/ RegisterAccount \/ \E key \in DOMAIN accounts : LobbyChatCarry(key)
           \/ \E t \in tokens : RevokeAuthToken(t)
  BY <1>8, FlowsStay DEF RegisterAccount, LobbyChatCarry, RevokeAuthToken, Holds
<1>9. ASSUME NEW r \in Requests, OtherStep(r) PROVE Once'
  <2>1. UNCHANGED flowVars
    BY <1>9 DEF OtherStep, ServeAccounts, CarryAccount, TokenIdentity, LinkIdentity, Login,
                HandleAPILogin, HandleLoginPage, RegisterIdentityAccount, LoginAccount,
                RotateTempKey, Fails
  <2>2. \A s \in Requests, f \in Flows : Holds(s, f)' => Holds(s, f)
    BY <1>1, <1>9, OtherStepBecomes DEF Becomes, Holds
  <2> QED
    BY <2>1, <2>2, FlowsStay
<1> QED
  BY <1>2, <1>3, <1>4, <1>5, <1>6, <1>7, <1>8, <1>9 DEF Next, Site, OtherStep

-----------------------------------------------------------------------------
(* Carry-over codes. *)
Single == CodesSingle /\ CarriedGone

(* A step that issues no code and lets no request carry one.               *)
LEMMA CodesStay ==
  ASSUME IInv, carry' \subseteq carry,
         \A r \in Requests : Carries(r)' => Carries(r) /\ request'[r].code = request[r].code
  PROVE  Single'
  BY DEF IInv, Single, CodesSingle, CarriedGone, Carries

(* Every step keeps carry-over codes single. *)
LEMMA SingleStep == ASSUME IInv, Next, Kept' PROVE Single'
<1>1. /\ Typed /\ RequestsPrepared /\ CodesSingle /\ CarriedGone /\ drawn \in Nat
      /\ carry \subseteq [code : 1 .. drawn, key : DOMAIN accounts]
      /\ request \in [Requests -> Requested] /\ request' \in [Requests -> Requested]
  BY DEF IInv, Typed, TypeOK, Kept
<1>2. ASSUME NEW key \in DOMAIN accounts, LobbyChatCarry(key) PROVE Single'
  <2> DEFINE new == [code |-> drawn + 1, key |-> key]
  <2>1. carry' = {c \in carry : c.key # key} \cup {new} /\ UNCHANGED request
    BY <1>2 DEF LobbyChatCarry, IssueCarryCode
  <2>2. \A c \in carry' : c = new \/ (c \in carry /\ c.key # key)
    BY <2>1
  <2>3. \A r \in Requests : Carries(r) => request[r].code \in 1 .. drawn
    BY <1>1 DEF RequestsPrepared, Prepared, Carries
  <2>4. CodesSingle'
    BY <1>1, <2>1, <2>2 DEF CodesSingle
  <2>5. \A r \in Requests : Carries(r)' => Carries(r)
    BY <2>1 DEF Carries
  <2>6. ASSUME NEW r \in Requests, Carries(r), NEW c \in carry' PROVE c.code # request[r].code
    <3>1. CASE c = new
      <4>1. request[r].code \in 1 .. drawn /\ c.code = drawn + 1
        BY <2>3, <2>6, <3>1
      <4> QED
        BY <1>1, <4>1
    <3>2. CASE c \in carry
      BY <1>1, <2>6, <3>2 DEF CarriedGone
    <3> QED
      BY <2>2, <3>1, <3>2
  <2> QED
    BY <2>1, <2>4, <2>5, <2>6 DEF Single, CarriedGone
<1>3. ASSUME NEW r \in Requests, CarryAccount(r) PROVE Single'
  <2>1. CASE Ends(r) /\ carry' = carry
    <3>1. \A s \in Requests : Carries(s)' => Carries(s) /\ request'[s].code = request[s].code
      BY <1>1, <2>1, BecomesIdle DEF Becomes, Carries
    <3> QED
      BY <2>1, <3>1, CodesStay
  <2>2. ASSUME NEW c \in carry, c.code = request[r].code, carry' = Taken(c.code),
               Goes(r, [request[r] EXCEPT !.at = "identity", !.key = c.key])
        PROVE  Single'
    <3>1. request'[r].code = c.code /\ \A s \in Requests : s # r => request'[s] = request[s]
      BY <1>1, <2>2 DEF Goes, Requested
    <3>2. carry' = {d \in carry : d.code # c.code}
      BY <2>2 DEF Taken
    <3>3. \A s \in Requests : Carries(s)' => s = r \/ (Carries(s) /\ request'[s] = request[s])
      BY <3>1 DEF Carries
    <3>4. \A s \in Requests : Carries(s) => request[s].code # c.code
      BY <1>1 DEF CarriedGone
    <3>5. CodesSingle'
      BY <1>1, <3>1, <3>2, <3>3, <3>4 DEF CodesSingle, Carries
    <3>6. CarriedGone'
      BY <1>1, <3>1, <3>2, <3>3, <3>4 DEF CarriedGone
    <3> QED
      BY <3>5, <3>6 DEF Single
  <2> QED
    BY <1>3, <2>1, <2>2 DEF CarryAccount
<1>4. ASSUME NEW r \in Requests, OtherStep(r), ~ CarryAccount(r) PROVE Single'
  <2>1. carry' = carry
    BY <1>4 DEF OtherStep, ServeAccounts, TokenIdentity, LinkIdentity, Login, HandleAPILogin,
                HandleLoginPage, RegisterIdentityAccount, LoginAccount, RotateTempKey, Fails
  <2>2. \A s \in Requests : Carries(s)' => Carries(s) /\ request'[s].code = request[s].code
    BY <1>1, <1>4, OtherStepBecomes DEF Becomes, Carries
  <2> QED
    BY <2>1, <2>2, CodesStay
<1>5. ASSUME NEW r \in Requests, NEW f \in Flows, ServeCallback(r, f) PROVE Single'
  <2>1. \A s \in Requests : Carries(s)' => Carries(s) /\ request'[s].code = request[s].code
    BY <1>1, <1>5, CallbackHolds DEF HoldsNow, Carries
  <2> QED
    BY <1>5, <2>1, CodesStay DEF ServeCallback
<1>6. ASSUME NEW r \in Requests, NEW c \in codes, NEW verified \in BOOLEAN,
             ServeToken(r, c, verified)
      PROVE  Single'
  <2>1. \A s \in Requests : Carries(s)' => Carries(s) /\ request'[s].code = request[s].code
    BY <1>1, <1>6, TokenHolds DEF HoldsNow, Carries
  <2> QED
    BY <1>6, <2>1, CodesStay DEF ServeToken
<1>7. ASSUME NEW r \in Requests, IssueCode(r) \/ IssueAuthToken(r) PROVE Single'
  <2>1. Ends(r) /\ carry' = carry
    BY <1>7 DEF IssueCode, IssueAuthToken
  <2>2. \A s \in Requests : Carries(s)' => Carries(s) /\ request'[s].code = request[s].code
    BY <1>1, <2>1, BecomesIdle DEF Becomes, Carries
  <2> QED
    BY <2>1, <2>2, CodesStay
<1>8. CASE \/ \E f \in Flows : ServeStart(f)
           \/ \E t \in tokens : RevokeAuthToken(t)
           \/ RegisterAccount \/ Expire
  <2>1. carry' \subseteq carry /\ UNCHANGED request
    BY <1>8 DEF ServeStart, RevokeAuthToken, RegisterAccount, Expire
  <2> QED
    BY <2>1, CodesStay DEF Carries
<1> QED
  BY <1>2, <1>3, <1>4, <1>5, <1>6, <1>7, <1>8 DEF Next, Site, OtherStep

-----------------------------------------------------------------------------
(* The limits on links. *)

(* A link is added where there is room, for an account that has none. *)
LEMMA LinkAdded ==
  ASSUME Typed, LimitsKept, NEW l, l.user \in Users, l.carried \in BOOLEAN,
         links' = Append(links, l),
         RoomFor(l.user, l.carried), LinksOf(l.key) = {}
  PROVE  LimitsKept'
<1> DEFINE n == Len(links)
           Of(u, carried) == {i \in DOMAIN links : links[i].user = u /\ links[i].carried = carried}
           OfNext(u, carried) == {i \in DOMAIN links' : links'[i].user = u /\ links'[i].carried = carried}
<1>1. /\ n \in Nat /\ DOMAIN links = 1 .. n /\ DOMAIN links' = 1 .. n + 1
      /\ \A i \in 1 .. n : links'[i] = links[i]
      /\ links'[n + 1] = l
  <2>1. links \in Seq(Link \cup {l}) /\ l \in Link \cup {l}
    <3>1. links \in Seq(Link)
      BY DEF Typed, TypeOK, Link
    <3> QED
      BY <3>1, SeqMonotonic
  <2> QED
    BY <2>1, AppendProperties, LenProperties
<1>2. MaxNew \in Nat /\ MaxCarried \in Nat
  BY SignInAssumption
<1>3. ASSUME NEW u \in Users, NEW carried \in BOOLEAN
      PROVE  Cardinality(OfNext(u, carried)) <= (IF carried THEN MaxCarried ELSE MaxNew)
  <2>1. IsFiniteSet(Of(u, carried)) /\ Cardinality(Of(u, carried)) \in Nat
    <3>1. IsFiniteSet(1 .. n)
      BY <1>1, FS_Interval
    <3>2. Of(u, carried) \in SUBSET (1 .. n)
      BY <1>1
    <3> QED
      BY <3>1, <3>2, FS_Subset, FS_CardinalityType
  <2>2. Cardinality(Of(u, carried)) <= (IF carried THEN MaxCarried ELSE MaxNew)
    BY DEF LimitsKept, Has
  <2>3. CASE l.user = u /\ l.carried = carried
    <3>1. OfNext(u, carried) = Of(u, carried) \cup {n + 1}
      BY <1>1, <2>3
    <3>2. n + 1 \notin Of(u, carried)
      BY <1>1
    <3>3. Cardinality(Of(u, carried)) < (IF carried THEN MaxCarried ELSE MaxNew)
      BY <2>3 DEF RoomFor, Has
    <3>4. Cardinality(OfNext(u, carried)) = Cardinality(Of(u, carried)) + 1
      BY <2>1, <3>1, <3>2, FS_AddElement
    <3>5. (IF carried THEN MaxCarried ELSE MaxNew) \in Nat
      BY <1>2
    <3> HIDE DEF Of, OfNext
    <3> QED
      BY <2>1, <3>3, <3>4, <3>5
  <2>4. CASE ~ (l.user = u /\ l.carried = carried)
    <3>1. OfNext(u, carried) = Of(u, carried)
      BY <1>1, <2>4
    <3> QED
      BY <2>2, <3>1
  <2> QED
    BY <2>3, <2>4
<1>4. ASSUME NEW i \in DOMAIN links', NEW j \in DOMAIN links', links'[i].key = links'[j].key
      PROVE  i = j
  <2>1. \A k \in 1 .. n : links[k].key # l.key
    BY <1>1 DEF LinksOf
  <2>2. \A k \in DOMAIN links' : k \in 1 .. n \/ k = n + 1
    BY <1>1
  <2>3. \A k, m \in 1 .. n : links[k].key = links[m].key => k = m
    BY <1>1 DEF LimitsKept
  <2> QED
    BY <1>1, <1>4, <2>1, <2>2, <2>3
<1> QED
  BY <1>3, <1>4 DEF LimitsKept, Has

(* Every step keeps the limits; only two add a link. *)
LEMMA LimitsStep == ASSUME IInv, Next, Kept' PROVE LimitsKept'
<1>1. Typed /\ RequestsPrepared /\ LimitsKept
  BY DEF IInv
<1>2. ASSUME NEW r \in Requests, LinkIdentity(r) PROVE LimitsKept'
  <2> DEFINE l == [user |-> request[r].user, key |-> request[r].key, carried |-> TRUE]
  <2>1. CASE links' = links
    BY <1>1, <2>1 DEF LimitsKept, Has
  <2>2. CASE links' = Append(links, l) /\ RoomFor(l.user, TRUE) /\ LinksOf(l.key) = {}
    <3>1. l.user \in Users
      BY <1>1, <1>2 DEF LinkIdentity, RequestsPrepared, Prepared
    <3> QED
      BY <1>1, <2>2, <3>1, LinkAdded
  <2> QED
    BY <1>2, <2>1, <2>2 DEF LinkIdentity
<1>3. ASSUME NEW r \in Requests, RegisterIdentityAccount(r) PROVE LimitsKept'
  <2> DEFINE l == [user |-> request[r].user, key |-> Len(accounts) + 1, carried |-> FALSE]
  <2>1. CASE links' = links
    BY <1>1, <2>1 DEF LimitsKept, Has
  <2>2. CASE links' = Append(links, l) /\ RoomFor(l.user, FALSE)
    <3>1. l.user \in Users
      BY <1>1, <1>3 DEF RegisterIdentityAccount, RequestsPrepared, Prepared
    <3>2. LinksOf(l.key) = {}
      <4>1. /\ accounts \in Seq(Account(logins)) /\ links \in Seq(Link)
        BY <1>1 DEF Typed, TypeOK, Account, Link
      <4>2. Len(accounts) \in Nat /\ DOMAIN accounts = 1 .. Len(accounts)
        BY <4>1, LenProperties
      <4>3. \A i \in DOMAIN links : links[i].key \in DOMAIN accounts
        <5>1. \A i \in DOMAIN links : links[i] \in Link
          BY <4>1, LenProperties, ElementOfSeq
        <5> QED
          BY <5>1 DEF Link
      <4> QED
        BY <4>2, <4>3 DEF LinksOf
    <3> QED
      BY <1>1, <2>2, <3>1, <3>2, LinkAdded
  <2> QED
    BY <1>3, <2>1, <2>2 DEF RegisterIdentityAccount
<1>4. CASE UNCHANGED links
  BY <1>1, <1>4 DEF LimitsKept, Has
<1>5. ASSUME NEW r \in Requests, Site(r) \/ Login(r) \/ Fails(r),
             ~ LinkIdentity(r), ~ RegisterIdentityAccount(r)
      PROVE  UNCHANGED links
  BY <1>5 DEF Site, Login, ServeCallback, IssueCode, ServeToken, IssueAuthToken, ServeAccounts,
              CarryAccount, TokenIdentity, HandleAPILogin, HandleLoginPage, LoginAccount,
              RotateTempKey, Fails
<1>6. ASSUME \/ \E f \in Flows : ServeStart(f)
             \/ \E t \in tokens : RevokeAuthToken(t)
             \/ \E key \in DOMAIN accounts : LobbyChatCarry(key)
             \/ RegisterAccount \/ Expire
      PROVE  UNCHANGED links
  BY <1>6 DEF ServeStart, RevokeAuthToken, LobbyChatCarry, RegisterAccount, Expire
<1> QED
  BY <1>2, <1>3, <1>4, <1>5, <1>6 DEF Next

-----------------------------------------------------------------------------
(* Sessions. *)

(* A step that answers nobody, and after which the requests with a session *)
(* have had it before.                                                     *)
LEMMA SessionsStay ==
  ASSUME IInv, UNCHANGED answers,
         \A r \in Requests : request'[r].at = "temp" =>
           request[r].at = "temp" /\ request'[r].login = request[r].login
  PROVE  SessionsApart'
  BY DEF IInv, SessionsApart

(* Every step keeps a session id to one login. *)
LEMMA SessionsStep == ASSUME IInv, Next, Kept' PROVE SessionsApart'
<1>1. /\ Typed /\ RequestsPrepared /\ SessionsApart /\ logins \in Nat
      /\ answers \subseteq [account : DOMAIN accounts, key : 0 .. logins, session : 1 .. logins]
      /\ request \in [Requests -> Requested] /\ request' \in [Requests -> Requested]
      /\ \A r \in Requests : request[r].at = "temp" => request[r].login \in 1 .. logins
  BY DEF IInv, Typed, TypeOK, Kept, RequestsPrepared, Prepared
<1>2. ASSUME NEW r \in Requests, LoginAccount(r) PROVE SessionsApart'
  <2> DEFINE new == Answer(request[r], logins + 1)
  <2>1. \A a \in answers : a.session # logins + 1
    BY <1>1
  <2>2. \A s \in Requests : request[s].at = "temp" => request[s].login # logins + 1
    BY <1>1
  <2>3. \A s \in Requests : s # r => request'[s] = request[s]
    BY <1>1, <1>2, OtherStepBecomes DEF Becomes, OtherStep, Login
  <2>4. request[r].at = "login"
    BY <1>2 DEF LoginAccount
  <2>5. CASE answers' = answers \cup {new} /\ Ends(r)
    <3>1. new.session = logins + 1
      BY DEF Answer
    <3>2. request'[r].at # "temp"
      BY <1>1, <2>5, BecomesIdle
    <3> HIDE DEF new
    <3> QED
      BY <1>1, <2>1, <2>2, <2>3, <2>5, <3>1, <3>2 DEF SessionsApart
  <2>6. CASE /\ answers' = answers
             /\ Goes(r, [request[r] EXCEPT !.at = "temp", !.login = logins + 1])
    <3>1. request'[r].login = logins + 1
      BY <1>1, <2>6 DEF Goes, Requested
    <3> QED
      BY <1>1, <2>1, <2>2, <2>3, <2>6, <3>1 DEF SessionsApart
  <2> QED
    BY <1>2, <2>5, <2>6 DEF LoginAccount
<1>3. ASSUME NEW r \in Requests, RotateTempKey(r) PROVE SessionsApart'
  <2> DEFINE new == Answer(request[r], request[r].login)
  <2>1. /\ request[r].at = "temp" /\ answers' = answers \cup {new} /\ Ends(r)
        /\ new.session = request[r].login
    BY <1>3 DEF RotateTempKey, Answer
  <2>2. request'[r].at # "temp" /\ \A s \in Requests : s # r => request'[s] = request[s]
    BY <1>1, <2>1, BecomesIdle DEF Becomes
  <2> HIDE DEF new
  <2> QED
    BY <1>1, <2>1, <2>2 DEF SessionsApart
<1>4. ASSUME NEW r \in Requests, OtherStep(r), ~ LoginAccount(r), ~ RotateTempKey(r)
      PROVE  SessionsApart'
  <2>1. UNCHANGED answers
    BY <1>4 DEF OtherStep, ServeAccounts, CarryAccount, TokenIdentity, LinkIdentity, Login,
                HandleAPILogin, HandleLoginPage, RegisterIdentityAccount, Fails
  <2>2. \A s \in Requests : request'[s].at = "temp" => request'[s] = request[s]
    BY <1>1, <1>4, OtherStepBecomes DEF Becomes
  <2> QED
    BY <2>1, <2>2, SessionsStay
<1>5. ASSUME NEW r \in Requests,
             \/ \E f \in Flows : ServeCallback(r, f)
             \/ \E c \in codes, verified \in BOOLEAN : ServeToken(r, c, verified)
             \/ IssueCode(r) \/ IssueAuthToken(r)
      PROVE  SessionsApart'
  <2>1. UNCHANGED answers
    BY <1>5 DEF ServeCallback, ServeToken, IssueCode, IssueAuthToken
  <2>2. ASSUME NEW f \in Flows, ServeCallback(r, f), NEW s \in Requests, request'[s].at = "temp"
        PROVE  request'[s] = request[s]
    BY <1>1, <2>2, CallbackHolds DEF HoldsNow
  <2>3. ASSUME NEW c \in codes, NEW verified \in BOOLEAN, ServeToken(r, c, verified),
               NEW s \in Requests, request'[s].at = "temp"
        PROVE  request'[s] = request[s]
    BY <1>1, <2>3, TokenHolds DEF HoldsNow
  <2>4. ASSUME IssueCode(r) \/ IssueAuthToken(r), NEW s \in Requests, request'[s].at = "temp"
        PROVE  request'[s] = request[s]
    BY <1>1, <2>4, BecomesIdle DEF IssueCode, IssueAuthToken, Becomes
  <2> QED
    BY <1>5, <2>1, <2>2, <2>3, <2>4, SessionsStay
<1>6. CASE \/ \E f \in Flows : ServeStart(f)
           \/ \E t \in tokens : RevokeAuthToken(t)
           \/ \E key \in DOMAIN accounts : LobbyChatCarry(key)
           \/ RegisterAccount \/ Expire
  <2>1. UNCHANGED <<answers, request>>
    BY <1>6 DEF ServeStart, RevokeAuthToken, LobbyChatCarry, RegisterAccount, Expire
  <2> QED
    BY <2>1, SessionsStay
<1> QED
  BY <1>2, <1>3, <1>4, <1>5, <1>6 DEF Next, Site, OtherStep

-----------------------------------------------------------------------------
(* The invariant holds at first. *)
LEMMA InitHolds == ASSUME Init PROVE IInv
<1>1. /\ Old \in Nat /\ CarryMaxMisses \in Nat /\ MaxNew \in Nat /\ MaxCarried \in Nat
  BY SignInAssumption
<1>2. /\ accounts \in Seq(Account(0)) /\ Len(accounts) = Old /\ DOMAIN accounts = 1 .. Old
  BY <1>1 DEF Init, Account, Never
<1>3. links \in Seq(Link) /\ DOMAIN links = {}
  BY EmptySeq, LenProperties DEF Init
<1>4. tokens \subseteq AuthTokens /\ \A t \in tokens : t.key \in 1 .. Old
  BY <1>1 DEF Init, AuthTokens
<1>5. Typed
  <2>1. request \in [Requests -> Requested]
    BY IdleFits DEF Init
  <2> QED
    BY <1>1, <1>2, <1>3, <1>4, <2>1 DEF Init, Typed, TypeOK, Account, Link, AuthTokens
<1>6. \A r \in Requests : request[r].by = "nobody" /\ request[r].at = "idle"
  BY DEF Init, Idle
<1>7. RequestsPrepared
  BY IdleFits DEF Init, RequestsPrepared
<1>8. OneTokenPerFlow /\ FlowsApart
  BY <1>6 DEF Init, OneTokenPerFlow, FlowsApart, InCode, Holds
<1>9. CodesSingle /\ CarriedGone /\ SessionsApart
  BY <1>6 DEF Init, CodesSingle, CarriedGone, Carries, SessionsApart
<1>10. LimitsKept
  <2>1. \A u \in Users : Has(u, FALSE) = 0 /\ Has(u, TRUE) = 0
    <3>1. ASSUME NEW u, NEW carried PROVE Has(u, carried) = 0
      <4>1. {i \in DOMAIN links : links[i].user = u /\ links[i].carried = carried} = {}
        BY <1>3
      <4> QED
        BY <4>1, FS_EmptySet DEF Has
    <3> QED
      BY <3>1, Zenon
  <2>2. \A u \in Users : Has(u, FALSE) <= MaxNew /\ Has(u, TRUE) <= MaxCarried
    <3>1. 0 <= MaxNew /\ 0 <= MaxCarried
      BY <1>1
    <3> QED
      BY <2>1, <3>1, Zenon
  <2> QED
    BY <1>3, <2>2 DEF LimitsKept
<1> QED
  BY <1>5, <1>7, <1>8, <1>9, <1>10 DEF IInv

(* The invariant is kept by every step. *)
LEMMA StepHolds == ASSUME IInv, [Next]_vars PROVE IInv'
<1>1. CASE Next
  BY <1>1, KeptStep, OnceStep, SingleStep, LimitsStep, SessionsStep
     DEF IInv, Kept, Once, Single
<1>2. CASE UNCHANGED vars
  <2>1. Typed'
    BY <1>2 DEF vars, IInv, Typed, TypeOK
  <2>2. RequestsPrepared'
    BY <1>2 DEF vars, IInv, RequestsPrepared
  <2>3. OneTokenPerFlow' /\ FlowsApart'
    BY <1>2 DEF vars, IInv, OneTokenPerFlow, FlowsApart, InCode, Holds
  <2>4. CodesSingle' /\ CarriedGone'
    BY <1>2 DEF vars, IInv, CodesSingle, CarriedGone, Carries
  <2>5. LimitsKept'
    BY <1>2 DEF vars, IInv, LimitsKept, Has
  <2>6. SessionsApart'
    BY <1>2 DEF vars, IInv, SessionsApart
  <2> QED
    BY <2>1, <2>2, <2>3, <2>4, <2>5, <2>6 DEF IInv
<1> QED
  BY <1>1, <1>2

(* The strengthened invariant, of which each property below is a part or a *)
(* consequence.                                                            *)
THEOREM InductiveInvariant == Spec => []IInv
<1> QED
  BY InitHolds, StepHolds, PTL DEF Spec

(* A flow of the provider, a code and a carry-over code serve once         *)
(* (pkg/auth/auth.go: serveCallback, serveToken, carryAccount).            *)
THEOREM ServeOnce == Spec => []SingleUse
<1>1. IInv => SingleUse
  BY DEF IInv, Typed, SingleUse
<1> QED
  BY <1>1, InductiveInvariant, PTL

(* No user gets past its limits and no account is linked twice             *)
(* (pkg/db/auth.go: LinkIdentity, RegisterIdentityAccount).                *)
THEOREM LimitsHold == Spec => []LimitsKept
<1>1. IInv => LimitsKept
  BY DEF IInv
<1> QED
  BY <1>1, InductiveInvariant, PTL

(* The lobby lets in one client of an account (pkg/login/top.go:           *)
(* HandleLoginPage, HandleAPILogin; pkg/lobby: OnKeePair).                 *)
THEOREM OneClient == Spec => []OneLetIn
<1>1. IInv => OneLetIn
  BY DEF IInv, SessionsApart, OneLetIn, LetsIn
<1> QED
  BY <1>1, InductiveInvariant, PTL
=============================================================================
