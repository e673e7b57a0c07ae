------------------------------- MODULE SignIn -------------------------------
(***************************************************************************)
(* Signing in: the flow through an outside provider that ends in a token   *)
(* (pkg/auth/auth.go), the accounts of a provider's user (pkg/db/auth.go), *)
(* carry-over codes that link an account made on a PS2, and the two ways   *)
(* to log in to an account (pkg/login/top.go) with what the lobby then     *)
(* lets in (OnKeePair).                                                    *)
(*                                                                         *)
(* Every request is a goroutine.  A step is a locked region of the server, *)
(* one statement or one transaction of the database, which SQLite makes    *)
(* serial; between steps anything may happen, and a request may end.       *)
(***************************************************************************)
EXTENDS Naturals, Sequences, FiniteSets

CONSTANTS
  Requests,      \* slots for requests that are handled at a time
  Flows,         \* sign-ins, each started by one client that keeps a verifier
  Users,         \* users of the provider
  Old,           \* accounts linked to nobody that hold a token from before
  MaxPending,    \* maxPending (10000)
  MaxNew,        \* MaxIdentityNewAccounts (2)
  MaxCarried,    \* MaxIdentityCarriedAccounts (2)
  CarryMaxMisses,\* carryMaxMisses (5); all carry requests come from one IP
  MaxAccounts,   \* bound: accounts ever made
  MaxLogins,     \* bound: logins ever made
  MaxCodes,      \* bound: carry-over codes ever issued
  None

ASSUME SignInAssumption ==
  /\ {MaxPending, MaxNew, MaxCarried, CarryMaxMisses, MaxAccounts, MaxLogins,
      MaxCodes} \subseteq Nat
  /\ Old \in 0 .. MaxAccounts /\ None \notin Users

VARIABLES
  flow,      \* flow[f]: "new", "pending", or over
  codes,     \* Server.codes: the flow a code was made in and who approved it
  tokens,    \* auth_token: the user of a token, or an account
  given,     \* how many tokens each flow gave
  accounts,  \* account: by login key, the login that set its session and temp_key
  links,     \* auth_identity, in order
  carry,     \* Server.carry: codes and their accounts
  drawn,     \* how many codes were issued; they are numbered
  misses,    \* Server.misses of the IP
  logins,    \* how many logins drew a session id; they are numbered
  answers,   \* what clients were answered: account, key and session
  request    \* request[r]: what is handled in slot r

flowVars == <<flow, codes, given>>
vars == <<flow, codes, tokens, given, accounts, links, carry, drawn, misses,
          logins, answers, request>>

(* by: what is asked for.  code: a flow or a carry-over code. *)
Idle == [by |-> "nobody", at |-> "idle", token |-> None, code |-> 0, user |-> None,
         key |-> 0, login |-> 0]
Never == 0   \* no login has set it

Init ==
  /\ flow = [f \in Flows |-> "new"]
  /\ codes = {} /\ given = [f \in Flows |-> 0]
  /\ tokens = {[flow |-> None, user |-> None, key |-> a] : a \in 1 .. Old}
  /\ accounts = [a \in 1 .. Old |-> [session |-> Never, temp |-> Never]]
  /\ links = <<>>
  /\ carry = {} /\ drawn = 0 /\ misses = 0
  /\ logins = 0 /\ answers = {}
  /\ request = [r \in Requests |-> Idle]

Starts(r, next) == request[r] = Idle /\ request' = [request EXCEPT ![r] = next]
Goes(r, next) == request' = [request EXCEPT ![r] = next]
Ends(r) == request' = [request EXCEPT ![r] = Idle]

-----------------------------------------------------------------------------
(* serveStart: a browser is sent to the provider with the flow's id; the   *)
(* server keeps the challenge of the client's verifier.                    *)
ServeStart(f) ==
  /\ flow[f] = "new"
  /\ Cardinality({g \in Flows : flow[g] = "pending"}) < MaxPending
  /\ flow' = [flow EXCEPT ![f] = "pending"]
  /\ UNCHANGED <<codes, tokens, given, accounts, links, carry, drawn, misses,
                 logins, answers, request>>

(* Mutant of Used: an id stays good until it expires. *)
UsedLater(f) == flow

Used(f) == [flow EXCEPT ![f] = "over"]

(* providerUser: the provider names the user that approved, or fails. *)
ProviderUser == Users \cup {None}

(* serveCallback: the flow is taken; if the user approved, a code goes     *)
(* back to the client of the flow.                                         *)
ServeCallback(r, f) ==
  /\ flow[f] = "pending"
  /\ flow' = Used(f)
  /\ \E u \in ProviderUser :
       IF u = None THEN UNCHANGED request
       ELSE Starts(r, [Idle EXCEPT !.by = "callback", !.at = "approved",
                                   !.code = f, !.user = u])
  /\ UNCHANGED <<codes, tokens, given, accounts, links, carry, drawn, misses,
                 logins, answers>>
IssueCode(r) ==
  /\ request[r].at = "approved"
  /\ codes' = codes \cup {[flow |-> request[r].code, user |-> request[r].user]}
  /\ Ends(r)
  /\ UNCHANGED <<flow, tokens, given, accounts, links, carry, drawn, misses,
                 logins, answers>>

(* serveToken takes the code; only who holds the verifier of its flow gets *)
(* the token.                                                              *)
ServeToken(r, c, verified) ==
  /\ c \in codes
  /\ codes' = codes \ {c}
  /\ IF verified
     THEN Starts(r, [Idle EXCEPT !.by = "token", !.at = "issue", !.code = c.flow,
                                  !.user = c.user])
     ELSE UNCHANGED request
  /\ UNCHANGED <<flow, tokens, given, accounts, links, carry, drawn, misses,
                 logins, answers>>
IssueAuthToken(r) ==
  LET token == [flow |-> request[r].code, user |-> request[r].user, key |-> 0]
  IN  /\ request[r].at = "issue"
      /\ tokens' = tokens \cup {token}
      /\ given' = [given EXCEPT ![token.flow] = @ + 1]
      /\ Ends(r)
      /\ UNCHANGED <<flow, codes, accounts, links, carry, drawn, misses, logins, answers>>
RevokeAuthToken(token) ==
  /\ token \in tokens
  /\ tokens' = tokens \ {token}
  /\ UNCHANGED <<flowVars, accounts, links, carry, drawn, misses, logins, answers, request>>

(* gc, and the checks of expires: what is late is as good as gone. *)
Expire ==
  /\ \/ /\ \E f \in Flows : flow[f] = "pending" /\ flow' = [flow EXCEPT ![f] = "over"]
        /\ UNCHANGED <<codes, carry>>
     \/ /\ \E c \in codes : codes' = codes \ {c}
        /\ UNCHANGED <<flow, carry>>
     \/ /\ \E c \in carry : carry' = carry \ {c}
        /\ UNCHANGED <<flow, codes>>
  /\ UNCHANGED <<tokens, given, accounts, links, drawn, misses, logins, answers, request>>

-----------------------------------------------------------------------------
(* tokenIdentity: an old token is for an account and stands for whoever    *)
(* the account is linked to.                                               *)
LinksOf(key) == {i \in DOMAIN links : links[i].key = key}
TokenUser(token) ==
  IF token.user # None \/ LinksOf(token.key) = {} THEN token.user
  ELSE links[CHOOSE i \in LinksOf(token.key) : TRUE].user

(* identityKeys and TokenAccounts. *)
IdentityKeys(u) == {links[i].key : i \in {j \in DOMAIN links : links[j].user = u}}
TokenAccounts(token) ==
  IF TokenUser(token) = None THEN {token.key} ELSE IdentityKeys(TokenUser(token))

(* RegisterAccount: an account made by the page of the game's browser. *)
RegisterAccount ==
  /\ Len(accounts) < MaxAccounts
  /\ accounts' = Append(accounts, [session |-> Never, temp |-> Never])
  /\ UNCHANGED <<flowVars, tokens, links, carry, drawn, misses, logins, answers, request>>

(* IssueCarryCode: an earlier code of the account is void. *)
IssueCarryCode(key) ==
  /\ drawn' = drawn + 1
  /\ carry' = {c \in carry : c.key # key} \cup {[code |-> drawn + 1, key |-> key]}

(* The chat command of a player in the lobby who has fought enough. *)
LobbyChatCarry(key) ==
  /\ drawn < MaxCodes
  /\ IssueCarryCode(key)
  /\ UNCHANGED <<flowVars, tokens, accounts, links, misses, logins, answers, request>>

(* serveAccounts with a code (of no account when it is 0). *)
ServeAccounts(r, token, code) ==
  /\ token \in tokens
  /\ Starts(r, [Idle EXCEPT !.by = "carry", !.at = "take", !.token = token,
                            !.code = code])
  /\ UNCHANGED <<flowVars, tokens, accounts, links, carry, drawn, misses, logins, answers>>

Taken(code) == {c \in carry : c.code # code}

MayTry(count) == count < CarryMaxMisses

(* carryAccount's locked part: a code is taken before it is known whether  *)
(* it can be used; wrong ones are counted.                                 *)
CarryAccount(r) ==
  LET found == {c \in carry : c.code = request[r].code}
  IN  /\ request[r].at = "take"
      /\ \/ ~ MayTry(misses) /\ Ends(r) /\ UNCHANGED <<carry, misses>>
         \/ /\ MayTry(misses) /\ found = {}
            /\ misses' = misses + 1
            /\ Ends(r) /\ UNCHANGED carry
         \/ \E c \in found :
              /\ MayTry(misses)
              /\ carry' = Taken(c.code)
              /\ Goes(r, [request[r] EXCEPT !.at = "identity", !.key = c.key])
              /\ UNCHANGED misses
      /\ UNCHANGED <<flowVars, tokens, accounts, links, drawn, logins, answers>>

(* tokenIdentity in CarryTokenAccount and AddTokenAccount. *)
TokenIdentity(r) ==
  LET u == TokenUser(request[r].token)
  IN  /\ request[r].at = "identity"
      /\ IF request[r].token \in tokens /\ u # None
         THEN Goes(r, [request[r] EXCEPT !.at = "link", !.token = None, !.user = u])
         ELSE Ends(r)
      /\ UNCHANGED <<flowVars, tokens, accounts, links, carry, drawn, misses, logins, answers>>

Has(u, carried) ==
  Cardinality({i \in DOMAIN links : links[i].user = u /\ links[i].carried = carried})

(* Mutant of RoomFor: both kinds count together. *)
RoomForEither(u, carried) ==
  Has(u, TRUE) + Has(u, FALSE) < MaxNew + MaxCarried

RoomFor(u, carried) == Has(u, carried) < (IF carried THEN MaxCarried ELSE MaxNew)

(* LinkIdentity: one transaction. *)
LinkIdentity(r) ==
  LET u == request[r].user
      key == request[r].key
  IN  /\ request[r].at = "link" /\ request[r].by = "carry"
      /\ links' = IF RoomFor(u, TRUE) /\ LinksOf(key) = {}
                  THEN Append(links, [user |-> u, key |-> key, carried |-> TRUE])
                  ELSE links
      /\ Ends(r)
      /\ UNCHANGED <<flowVars, tokens, accounts, carry, drawn, misses, logins, answers>>

-----------------------------------------------------------------------------
(* HandleAPILogin: to one of the token's accounts, or to a new one; the    *)
(* first is made when there is none.                                       *)
HandleAPILogin(r, token) ==
  /\ token \in tokens
  /\ \/ Starts(r, [Idle EXCEPT !.by = "login", !.at = "identity", !.token = token])
     \/ \E key \in TokenAccounts(token) :
          Starts(r, [Idle EXCEPT !.by = "login", !.at = "login", !.key = key])
  /\ UNCHANGED <<flowVars, tokens, accounts, links, carry, drawn, misses, logins, answers>>

(* RegisterIdentityAccount: one transaction. *)
RegisterIdentityAccount(r) ==
  LET u == request[r].user
      key == Len(accounts) + 1
  IN  /\ request[r].at = "link" /\ request[r].by = "login"
      /\ IF RoomFor(u, FALSE)
         THEN /\ Len(accounts) < MaxAccounts
              /\ accounts' = Append(accounts, [session |-> Never, temp |-> Never])
              /\ links' = Append(links, [user |-> u, key |-> key, carried |-> FALSE])
              /\ Goes(r, [Idle EXCEPT !.by = "login", !.at = "login", !.key = key])
         ELSE UNCHANGED <<accounts, links>> /\ Ends(r)
      /\ UNCHANGED <<flowVars, tokens, carry, drawn, misses, logins, answers>>

(* HandleLoginPage: a PS2 logs in by its login key. *)
HandleLoginPage(r, key) ==
  /\ Starts(r, [Idle EXCEPT !.by = "page", !.at = "login", !.key = key])
  /\ UNCHANGED <<flowVars, tokens, accounts, links, carry, drawn, misses, logins, answers>>

(* What a client is answered: a PS2 keeps its login key, an emulator gets  *)
(* the temporary key of this login.                                        *)
Answer(req, login) ==
  [account |-> req.key, key |-> IF req.by = "page" THEN Never ELSE login, session |-> login]

(* LoginAccount: a new session id. *)
LoginAccount(r) ==
  LET key == request[r].key
  IN  /\ request[r].at = "login" /\ logins < MaxLogins
      /\ accounts' = [accounts EXCEPT ![key].session = logins + 1]
      /\ logins' = logins + 1
      /\ IF request[r].by = "page"
         THEN answers' = answers \cup {Answer(request[r], logins + 1)} /\ Ends(r)
         ELSE /\ Goes(r, [request[r] EXCEPT !.at = "temp", !.login = logins + 1])
              /\ UNCHANGED answers
      /\ UNCHANGED <<flowVars, tokens, links, carry, drawn, misses>>

(* RotateTempKey: a key of its own for this login. *)
RotateTempKey(r) ==
  /\ request[r].at = "temp"
  /\ accounts' = [accounts EXCEPT ![request[r].key].temp = request[r].login]
  /\ answers' = answers \cup {Answer(request[r], request[r].login)}
  /\ Ends(r)
  /\ UNCHANGED <<flowVars, tokens, links, carry, drawn, misses, logins>>

(* A FindBan says that the account is banned, or a statement fails. *)
Fails(r) ==
  /\ request[r] # Idle
  /\ Ends(r)
  /\ UNCHANGED <<flowVars, tokens, accounts, links, carry, drawn, misses, logins, answers>>

(* Mutant of LetsIn: the session id is not compared. *)
LetsInByKey(answer) == answer.key \in {Never, accounts[answer.account].temp}

(* OnKeePair: the lobby lets in who has the login key or the temporary key *)
(* of an account and its session id.                                       *)
LetsIn(answer) ==
  LET account == accounts[answer.account]
  IN  answer.key \in {Never, account.temp} /\ answer.session = account.session

-----------------------------------------------------------------------------
Site(r) ==
  \/ \E f \in Flows : ServeCallback(r, f)
  \/ IssueCode(r)
  \/ \E c \in codes, verified \in BOOLEAN : ServeToken(r, c, verified)
  \/ IssueAuthToken(r)
  \/ \E t \in tokens, code \in 0 .. drawn : ServeAccounts(r, t, code)
  \/ CarryAccount(r) \/ TokenIdentity(r) \/ LinkIdentity(r)
Login(r) ==
  \/ \E t \in tokens : HandleAPILogin(r, t)
  \/ \E key \in DOMAIN accounts : HandleLoginPage(r, key)
  \/ RegisterIdentityAccount(r) \/ LoginAccount(r) \/ RotateTempKey(r)
Next ==
  \/ \E r \in Requests : Site(r) \/ Login(r) \/ Fails(r)
  \/ \E f \in Flows : ServeStart(f)
  \/ \E t \in tokens : RevokeAuthToken(t)
  \/ RegisterAccount
  \/ \E key \in DOMAIN accounts : LobbyChatCarry(key)
  \/ Expire

Spec == Init /\ [][Next]_vars

-----------------------------------------------------------------------------
TypeOK ==
  /\ flow \in [Flows -> {"new", "pending", "over"}]
  /\ codes \subseteq [flow : Flows, user : Users]
  /\ tokens \subseteq [flow : Flows \cup {None}, user : Users \cup {None}, key : 0 .. Old]
  /\ accounts \in Seq([session : 0 .. logins, temp : 0 .. logins])
  /\ links \in Seq([user : Users, key : DOMAIN accounts, carried : BOOLEAN])
  /\ carry \subseteq [code : 1 .. drawn, key : DOMAIN accounts]
  /\ misses <= CarryMaxMisses
  /\ answers \subseteq [account : DOMAIN accounts, key : 0 .. logins, session : 1 .. logins]

(* A sign-in gives one token at most, however often the provider's answer  *)
(* and the code are sent again: the flow and the code are each good once.  *)
OneTokenPerFlow == \A f \in Flows : given[f] <= 1

(* A user never gets past the number of accounts it may make nor of those  *)
(* it may carry over, and an account is linked once, whatever requests     *)
(* with several tokens of the user are under way.                          *)
LimitsKept ==
  /\ \A u \in Users : Has(u, FALSE) <= MaxNew /\ Has(u, TRUE) <= MaxCarried
  /\ \A i, j \in DOMAIN links : links[i].key = links[j].key => i = j

(* A carry-over code is used by one request at most, and only the last     *)
(* that was issued for an account can be taken.                            *)
CodesSingle ==
  /\ \A c, d \in carry : c.key = d.key => c = d
  /\ \A r, s \in Requests :
       LET carries(q) == request[q].by = "carry" /\ request[q].at # "take"
       IN  carries(r) /\ carries(s) /\ request[r].code = request[s].code => r = s

(* What is good for one use serves one. *)
SingleUse == TypeOK /\ OneTokenPerFlow /\ CodesSingle

(* The lobby lets in one of the clients that logged in to an account at    *)
(* most, by whichever of the two ways and in whatever order their logins   *)
(* passed one another.                                                     *)
OneLetIn ==
  \A a, b \in answers : a.account = b.account /\ LetsIn(a) /\ LetsIn(b) => a = b

=============================================================================
