--------------------------------- MODULE Api ---------------------------------
(***************************************************************************)
(* The HTTP handlers of internal/httpapi over the services of              *)
(* internal/wallet: authentication, validation, authorization, the store   *)
(* calls of each operation and the status it answers with.                 *)
(*                                                                         *)
(* Procs are the goroutines net/http runs the handlers on.  A token is the *)
(* identity it carries: HS256 with a secret key lets a client present only *)
(* a token the server signed.  tokens and acked are what clients have      *)
(* received; a restart does not take it from them.                         *)
(***************************************************************************)
EXTENDS Store

CONSTANTS
    Requests,       \* the requests clients may send
    NoToken,        \* a request with no (valid) bearer token
    NoSecret,       \* an account created without a secret
    Malformed       \* a parameter that cannot be decoded, as "%zz"

VARIABLES
    req,            \* the request each handler is serving
    id,             \* the identity the Authenticator put in its context
    tokens,         \* tokens clients hold
    sent,           \* the response that this step sent, if it sent one
    acked           \* the transactions clients were told were created

apiVars == <<vars, req, id, tokens, sent, acked>>

NoRequest == [op |-> "none"]
NoResponse == [status |-> 0]

TxnOps == {"createTransaction", "redeemPoints"}
TargetOps == TxnOps \cup {"getAccount", "getBalance", "listTransactions"}
AdminOps == {"listAccounts", "listAudit"}

\* HandlerWithOptions: the method and the path, with its parameter, of every
\* operation that this module models.
Routes ==
    [listAccounts |-> [method |-> "GET", path |-> "/accounts"],
     createAccount |-> [method |-> "POST", path |-> "/accounts"],
     getAccount |-> [method |-> "GET", path |-> "/accounts/:account_id"],
     getBalance |-> [method |-> "GET", path |-> "/accounts/:account_id/balance"],
     redeemPoints |-> [method |-> "POST", path |-> "/accounts/:account_id/redeem"],
     listTransactions |->
        [method |-> "GET", path |-> "/accounts/:account_id/transactions"],
     listAudit |-> [method |-> "GET", path |-> "/audit"],
     getHealth |-> [method |-> "GET", path |-> "/healthz"],
     login |-> [method |-> "POST", path |-> "/login"],
     createTransaction |-> [method |-> "POST", path |-> "/transactions"]]

\* The one operation of the contract that Batch models.
BatchRoute == [method |-> "POST", path |-> "/batch"]

InfraPaths == {"/openapi.yaml", "/swagger"}

KnownPaths ==
    InfraPaths \cup {BatchRoute.path} \cup {Routes[op].path : op \in DOMAIN Routes}

\* A request for anything else: the infra routes are served, a known path with
\* another method and an unknown path are not.  None of it is authenticated.
OffContract(r) ==
    IF r.path \notin KnownPaths THEN 404
    ELSE IF r.path \in InfraPaths /\ r.method = "GET" THEN 200 ELSE 405

ASSUME ApiAssumption ==
    \A r \in Requests : r.op \notin DOMAIN Routes =>
        LET route == [method |-> r.method, path |-> r.path]
        IN  route # BatchRoute /\ \A op \in DOMAIN Routes : route # Routes[op]

\* The wrappers of the operations with a path parameter, and of GET /audit with
\* its query parameter, decode it before any middleware runs.
PathOps == {"getAccount", "getBalance", "redeemPoints", "listTransactions"}
Bound(r) == r.op \in PathOps => r.account # Malformed
BoundQuery(r) == r.op = "listAudit" => r.account # Malformed

\* Mutant: opening POST /accounts opens the path, GET /accounts included.
publicPathsSignup == {"/healthz", "/login", "/openapi.yaml", "/swagger", "/accounts"}
publicPaths == {"/healthz", "/login", "/openapi.yaml", "/swagger"}

\* The Authenticator is passed by path, whatever the method is.
Public(r) == Routes[r.op].path \in publicPaths

\* The contract that the validator checks at the edge, and the handlers check
\* again: the points are a positive int64, the kind is one of the operation's
\* and a redemption says for what.
Valid(r) ==
    /\ r.op \in TxnOps => r.points \in Points
    /\ r.op = "createTransaction" => r.kind \in {"earn", "spend"}
    /\ r.op = "redeemPoints" => r.reward # NoReward

Authorize(t, target) == t.role = "admin" \/ t.account = target

\* Mutant: POST /transactions trusts the account in the body.
AllowedBodyAccount(r, t) ==
    /\ r.op \in TargetOps \ {"createTransaction"} => Authorize(t, r.account)
    /\ r.op \in AdminOps => t.role = "admin"

\* authorizeTarget and requireAdmin, before the store is touched.
Allowed(r, t) ==
    /\ r.op \in TargetOps => Authorize(t, r.account)
    /\ r.op \in AdminOps => t.role = "admin"

\* bcrypt refuses a secret of more than 72 bytes: Secrets are the others.
Hashable(r) == r.op = "createAccount" => r.secret \in Secrets \cup {NoSecret}

\* What newValidator makes answers whatever breaks the contract with one 400.
Validator(r) == IF Valid(r) THEN 0 ELSE 400

\* Mutant: the validator is not mounted, and the handlers leave it to it.
MiddlewaresNoContract(r, t) ==
    IF ~Public(r) /\ t = NoToken THEN 401 ELSE 0

\* NewRouter's middlewares; 0 lets the request through.  The wrapper applies
\* them in the order of the list, so that the last one, the validator, runs
\* before the Authenticator.
Middlewares(r, t) ==
    IF Validator(r) # 0 THEN Validator(r)
    ELSE IF ~Public(r) /\ t = NoToken THEN 401 ELSE 0

\* What the handlers check before they call the store.
Checks(r, t) ==
    IF ~Public(r) /\ ~Allowed(r, t) THEN 403
    ELSE IF ~Hashable(r) THEN 400 ELSE 0

\* The status of a request that never reaches the store; 0 if it does.
EdgeStatus(r, t) ==
    IF r.op \notin DOMAIN Routes THEN OffContract(r)
    ELSE IF ~Bound(r) \/ ~BoundQuery(r) THEN 400
    ELSE IF Middlewares(r, t) # 0 THEN Middlewares(r, t)
    ELSE Checks(r, t)

\* The first store call of a request; a secret is stored as its hash only.
StoreCall(r) ==
    LET On(op) == [op |-> op, account |-> r.account]
    IN  CASE r.op = "createTransaction" -> Recording(r, r.kind, NoReward)
          [] r.op = "redeemPoints" -> Recording(r, "redeem", r.reward)
          [] r.op = "createAccount" ->
                [op |-> "CreateAccount", account |-> r.account,
                 hash |-> IF r.secret = NoSecret THEN NoHash ELSE Bcrypt(r.secret)]
          [] r.op = "login" -> On("GetCredential")
          [] r.op = "getAccount" -> On("GetAccount")
          [] r.op = "getBalance" -> On("Balance")
          [] r.op = "listTransactions" -> On("ListTransactions")
          [] r.op = "listAudit" -> On("ListAudit")
          [] r.op = "listAccounts" -> [op |-> "ListAccounts"]
          [] r.op = "getHealth" -> [op |-> "Ping"]

\* What a request that passes every check of its content leads to are calls
\* that the store knows: a ref, an account and a reward are texts.
ASSUME RequestAssumption ==
    \A r \in Requests :
        /\ r.op \in DOMAIN Routes
        /\ Bound(r) /\ BoundQuery(r) /\ Valid(r) /\ Hashable(r)
        => /\ StoreCall(r) \in Calls
           /\ r.op = "createAccount" =>
                 [op |-> "GetAccount", account |-> r.account] \in Calls

-----------------------------------------------------------------------------
(***************************************************************************)
(* The answer of a handler whose last store call is done.                  *)
(***************************************************************************)
\* Mutant: the secret is not compared.
AuthenticatedByName(c, r) == c.err = "none"

\* Login: any failed read, a missing account and a missing hash are all the
\* same to the caller as a wrong secret.
Authenticated(c, r) ==
    c.err = "none" /\ c.val.row.hash # NoHash /\ Matches(c.val.row.hash, r.secret)

writeDomainError(e) ==
    CASE e = "ErrNotFound" -> 404
      [] e \in {"ErrAccountExists", "ErrInsufficientBalance"} -> 409
      [] OTHER -> 500

LoginStatus(r, c) == IF Authenticated(c, r) THEN 200 ELSE 401

\* HealthService.Check: one ping, any error is "degraded".
Check(c) == IF c.err = "none" THEN "ok" ELSE "degraded"
HealthStatus(c) == IF Check(c) = "ok" THEN 200 ELSE 503

\* A replayed transaction is no creation.
SuccessStatus(r, c) ==
    CASE r.op = "createAccount" -> 201
      [] r.op \in TxnOps -> IF c.created THEN 201 ELSE 200
      [] OTHER -> 200

Status(r, c) ==
    CASE r.op = "login" -> LoginStatus(r, c)
      [] r.op = "getHealth" -> HealthStatus(c)
      [] OTHER -> IF c.err # "none" THEN writeDomainError(c.err)
                                    ELSE SuccessStatus(r, c)

\* A redemption is labelled "redeem" whatever the stored row says.
RedemptionBody(t) ==
    [ref |-> t.ref, account |-> t.account, kind |-> "redeem",
     points |-> t.points, reward |-> t.reward]

auditToWire(e) ==
    [ref |-> e.ref, account |-> e.account, kind |-> e.kind, points |-> e.points,
     outcome |-> e.outcome]

\* Only a successful answer has a body worth looking at; the body of a login is
\* the identity its token carries.
Body(r, c) ==
    LET t == c.val.row
    IN  CASE r.op = "createTransaction" ->
                [ref |-> t.ref, account |-> t.account, kind |-> t.kind,
                 points |-> t.points]
          [] r.op = "redeemPoints" -> RedemptionBody(t)
          [] r.op \in {"createAccount", "getAccount"} -> [account |-> t.account]
          [] r.op = "login" -> [account |-> t.account, role |-> t.role]
          [] r.op = "listAudit" ->
                ListVal([i \in DOMAIN c.val.list |-> auditToWire(c.val.list[i])])
          [] OTHER -> c.val

Response(r, t, c) ==
    LET status == Status(r, c)
    IN  [status |-> status, req |-> r, by |-> t,
         body |-> IF status \in {200, 201} THEN Body(r, c) ELSE NoVal]

-----------------------------------------------------------------------------
ApiInit ==
    /\ Init
    /\ req = [p \in Procs |-> NoRequest]
    /\ id = [p \in Procs |-> NoToken]
    /\ tokens = {}
    /\ sent = NoResponse
    /\ acked = <<>>

\* A step that answers nobody.
NoAnswer == sent' = NoResponse /\ UNCHANGED <<tokens, acked>>

\* Middleware and handler up to the first store call.
Receive(p, r, t) ==
    /\ pc[p] = "idle"
    /\ EdgeStatus(r, t) = 0
    /\ Call(p, StoreCall(r))
    /\ req' = [req EXCEPT ![p] = r]
    /\ id' = [id EXCEPT ![p] = IF Public(r) THEN NoToken ELSE t]
    /\ NoAnswer

\* Refused at the edge, with no effect but the answer.
Refuse(p, r, t) ==
    /\ pc[p] = "idle"
    /\ EdgeStatus(r, t) # 0
    /\ sent' = [status |-> EdgeStatus(r, t), req |-> r, by |-> t, body |-> NoVal]
    /\ UNCHANGED <<vars, req, id, tokens, acked>>

\* CreateAccount reads the new account back in a second call.
MoreToDo(p) == arg[p].op = "CreateAccount" /\ ret[p].err = "none"

ReadAccountBack(p) ==
    /\ pc[p] = "done" /\ MoreToDo(p)
    /\ Call(p, [op |-> "GetAccount", account |-> req[p].account])
    /\ UNCHANGED <<req, id>>
    /\ NoAnswer

Finished(p) ==
    /\ pc[p] = "done" /\ ~MoreToDo(p)
    /\ Return(p)
    /\ req' = [req EXCEPT ![p] = NoRequest]
    /\ id' = [id EXCEPT ![p] = NoToken]

Reply(p) ==
    LET r == req[p]
        answer == Response(r, id[p], ret[p])
    IN  /\ Finished(p)
        /\ ~gone[p]
        /\ sent' = answer
        /\ tokens' = IF r.op = "login" /\ answer.status = 200
                     THEN tokens \cup {answer.body} ELSE tokens
        /\ acked' = IF r.op \in TxnOps /\ answer.status = 201
                    THEN Append(acked, arg[p].row) ELSE acked

\* The client has hung up, or does so while the answer is on its way.
LoseReply(p) == Finished(p) /\ NoAnswer

ApiCrash ==
    /\ Crash
    /\ req' = [p \in Procs |-> NoRequest]
    /\ id' = [p \in Procs |-> NoToken]
    /\ NoAnswer

Serve(p) == Work(p) \/ Disconnect(p) \/ Cancelled(p) \/ Fault(p)

ApiNext ==
    \/ \E p \in Procs :
          \/ \E r \in Requests, t \in tokens \cup {NoToken} :
                Receive(p, r, t) \/ Refuse(p, r, t)
          \/ ReadAccountBack(p) \/ Reply(p) \/ LoseReply(p)
          \/ Serve(p) /\ UNCHANGED <<req, id>> /\ NoAnswer
    \/ ApiCrash

ApiSpec == ApiInit /\ [][ApiNext]_apiVars

-----------------------------------------------------------------------------
(***************************************************************************)
(* Properties.                                                             *)
(***************************************************************************)

\* A handler carries a request and an identity exactly while it serves it,
\* and the identity of a protected request is a token that was issued.
ApiTypeOK ==
    /\ \A p \in Procs :
          /\ req[p] \in Requests \cup {NoRequest}
          /\ (req[p] = NoRequest) <=> (pc[p] = "idle")
          /\ req[p].op \notin {"none", "login", "getHealth"} => id[p] \in tokens
    /\ tokens \subseteq [account : AccountIds, role : Roles]
    /\ acked \in Seq(Transaction)

\* INV-1, INV-5 as a client sees them: a transaction that was answered 201 is
\* in the ledger, through every crash, and no ref is ever answered 201 twice,
\* whatever was retried after a lost answer (httpapi/accounts.go:188-198).
AckedOnceAndForAll ==
    \A i \in 1 .. Len(acked) :
        /\ \E k \in 1 .. Len(db) : db[k] = acked[i]
        /\ \A j \in 1 .. Len(acked) : acked[j].ref = acked[i].ref => j = i

\* INV-7, INV-13, INV-16, INV-27: points of an account move only in a request
\* of somebody who holds a token for that account, or for an account that the
\* database itself calls admin.
OnlyOwnerOrAdminMoves ==
    [][\A i \in Len(db) + 1 .. Len(db') :
          IsTxn(db'[i]) =>
             \E p \in Procs :
                /\ pc[p] = "commit" /\ pc'[p] = "done"
                /\ id[p] \in tokens
                /\ \/ id[p].account = db'[i].account
                   \/ AccountExists(db, id[p].account)
                      /\ GetAccount(db, id[p].account).role = "admin"]_apiVars

\* INV-14, INV-16: a token is handed out only for a stored account, with the
\* role stored for it, to a request that knows the secret stored for it.
TokenEarned ==
    [][\A t \in tokens' \ tokens :
          /\ AccountExists(db, t.account)
          /\ GetAccount(db, t.account).role = t.role
          /\ \E p \in Procs :
                /\ req[p].op = "login" /\ req[p].account = t.account
                /\ Matches(GetAccount(db, t.account).hash, req[p].secret)]_apiVars

\* INV-18, INV-19, INV-20: a member reads nothing but rows of the account of
\* its token; every entry of a listing is a transaction of that account.
MemberReadsOwn ==
    sent.status = 200 /\ sent.req.op \in {"getAccount", "getBalance",
                                          "listTransactions"} \cup AdminOps
    => \/ sent.by.role = "admin"
       \/ /\ sent.req.op \notin AdminOps
          /\ sent.req.account = sent.by.account
          /\ sent.req.op = "listTransactions" =>
                \A k \in 1 .. Len(sent.body.list) :
                   GetTransactionByRef(db, sent.body.list[k].ref).account
                      = sent.by.account

\* "ErrAccountExists if the id is taken" (wallet.go:132-133), of two requests
\* that race for one account_id with different secrets: whoever is answered
\* 201 owns the account, the stored credential is that request's, and it is
\* only a member.
CreatorOwns ==
    sent.status = 201 /\ sent.req.op = "createAccount"
    => LET row == GetAccount(db, sent.req.account)
       IN  /\ AccountExists(db, sent.req.account)
           /\ row.role = "member"
           /\ sent.req.secret = NoSecret => row.hash = NoHash
           /\ sent.req.secret # NoSecret => Matches(row.hash, sent.req.secret)

\* The account is inserted and then read back in a second call, which may
\* fail, be cancelled or be overtaken (httpapi/accounts.go:31-40).  Even the
\* client that is answered 500 owns what its retry finds taken: the account
\* has this request's credential, and the read-back never misses it.
CreateSticks ==
    \A p \in Procs :
        req[p].op = "createAccount" /\ arg[p].op = "GetAccount"
        => /\ AccountExists(db, req[p].account)
           /\ GetAccount(db, req[p].account).hash =
                 IF req[p].secret = NoSecret THEN NoHash ELSE Bcrypt(req[p].secret)
           /\ ret[p].err # "ErrNotFound"

\* The handlers use the store as Store lets them.
ImplementsStore == Spec

\* INV-6: "N users hitting their own accounts only ever see their own data":
\* the transaction in a member's answer is one of the member's own account.
NoWireCrossing ==
    sent.status \in {200, 201} /\ sent.req.op \in TxnOps
    => sent.by.role = "admin" \/ sent.body.account = sent.by.account

\* INV-28, openapi.yaml: "the existing redemption for this ref": a redemption
\* that is reported exists in the ledger.
RedemptionExists ==
    sent.status \in {200, 201} /\ sent.req.op = "redeemPoints"
    => \E i \in 1 .. Len(db) :
          /\ IsTxn(db[i]) /\ db[i].kind = "redeem"
          /\ db[i].ref = sent.body.ref /\ db[i].reward = sent.body.reward

=============================================================================
