------------------------------ MODULE ApiProofs ------------------------------
(***************************************************************************)
(* What clients of the HTTP interface can rely on, for any number of       *)
(* handlers, any requests and every failure, hang-up and crash: who moves  *)
(* points, who gets a token and who reads what, that a creation that was   *)
(* answered 201 happened once and for all, and who owns a new account.     *)
(***************************************************************************)
EXTENDS Api, PromiseProofs

\* A request that passes every check of its content.
Passes(r) ==
    /\ r.op \in DOMAIN Routes
    /\ Bound(r) /\ BoundQuery(r) /\ Valid(r) /\ Hashable(r)

OpenOps == {"login", "getHealth"}

-----------------------------------------------------------------------------
(***************************************************************************)
(* Routes, checks and store calls.                                         *)
(***************************************************************************)
LEMMA OpNames ==
  DOMAIN Routes = {"listAccounts", "createAccount", "getAccount", "getBalance",
                   "redeemPoints", "listTransactions", "listAudit", "getHealth",
                   "login", "createTransaction"}
BY DEF Routes

\* Only login and the health check need no token.
LEMMA PublicOps ==
  ASSUME NEW r, r.op \in DOMAIN Routes
  PROVE  Public(r) <=> r.op \in OpenOps
<1>1. CASE r.op = "listAccounts"
  BY <1>1 DEF Public, publicPaths, OpenOps, Routes
<1>2. CASE r.op = "createAccount"
  BY <1>2 DEF Public, publicPaths, OpenOps, Routes
<1>3. CASE r.op = "getAccount"
  BY <1>3 DEF Public, publicPaths, OpenOps, Routes
<1>4. CASE r.op = "getBalance"
  BY <1>4 DEF Public, publicPaths, OpenOps, Routes
<1>5. CASE r.op = "redeemPoints"
  BY <1>5 DEF Public, publicPaths, OpenOps, Routes
<1>6. CASE r.op = "listTransactions"
  BY <1>6 DEF Public, publicPaths, OpenOps, Routes
<1>7. CASE r.op = "listAudit"
  BY <1>7 DEF Public, publicPaths, OpenOps, Routes
<1>8. CASE r.op = "getHealth"
  BY <1>8 DEF Public, publicPaths, OpenOps, Routes
<1>9. CASE r.op = "login"
  BY <1>9 DEF Public, publicPaths, OpenOps, Routes
<1>10. CASE r.op = "createTransaction"
  BY <1>10 DEF Public, publicPaths, OpenOps, Routes
<1>11. QED
  BY <1>1, <1>2, <1>3, <1>4, <1>5, <1>6, <1>7, <1>8, <1>9, <1>10, OpNames

\* A request that reaches the store has passed every check, and what is not
\* public comes with a token that is allowed to.
LEMMA EdgePasses ==
  ASSUME NEW r, NEW t, EdgeStatus(r, t) = 0
  PROVE  /\ Passes(r)
         /\ r.op \notin OpenOps => ~Public(r) /\ t # NoToken /\ Allowed(r, t)
         /\ r.op \in OpenOps => Public(r)
<1>1. r.op \in DOMAIN Routes
  <2>1. OffContract(r) # 0
    BY DEF OffContract
  <2>2. QED
    BY <2>1 DEF EdgeStatus
<1>2. Bound(r) /\ BoundQuery(r) /\ Middlewares(r, t) = 0 /\ Checks(r, t) = 0
  BY <1>1 DEF EdgeStatus
<1>3. Valid(r) /\ (~Public(r) => t # NoToken)
  BY <1>2 DEF Middlewares, Validator
<1>4. Hashable(r) /\ (~Public(r) => Allowed(r, t))
  BY <1>2 DEF Checks
<1>5. QED
  BY <1>1, <1>2, <1>3, <1>4, PublicOps DEF Passes

\* An edge status is never the one of a creation.
LEMMA EdgeCreatesNothing ==
  ASSUME NEW r, NEW t
  PROVE  EdgeStatus(r, t) # 201
BY DEF EdgeStatus, OffContract, Middlewares, Validator, Checks

\* What the store is asked, by the name of the operation.
LEMMA StoreCallOps ==
  ASSUME NEW r, r.op \in DOMAIN Routes
  PROVE  /\ StoreCall(r).op # "AppendAudit" /\ StoreCall(r).op # "none"
         /\ StoreCall(r).op = "CreateAccount" <=> r.op = "createAccount"
         /\ StoreCall(r).op = "RecordTransaction" <=> r.op \in TxnOps
         /\ StoreCall(r).op = "GetCredential" <=> r.op = "login"
         /\ StoreCall(r).op = "GetAccount" <=> r.op = "getAccount"
         /\ StoreCall(r).op = "ListTransactions" <=> r.op = "listTransactions"
<1>1. CASE r.op \in TxnOps
  BY <1>1 DEF StoreCall, TxnOps, Recording
<1>2. CASE r.op \in {"createAccount", "login", "getAccount", "getBalance"}
  BY <1>2 DEF StoreCall, TxnOps
<1>3. CASE r.op \in {"listTransactions", "listAudit", "listAccounts", "getHealth"}
  BY <1>3 DEF StoreCall, TxnOps
<1>4. QED
  BY <1>1, <1>2, <1>3, OpNames DEF TxnOps

LEMMA StoreCallArgs ==
  ASSUME NEW r
  PROVE  /\ r.op \in TxnOps => StoreCall(r).row.account = r.account
         /\ r.op \in {"login", "getAccount", "listTransactions"} =>
               StoreCall(r).account = r.account
         /\ r.op = "createAccount" =>
               /\ StoreCall(r).account = r.account
               /\ StoreCall(r).hash = IF r.secret = NoSecret THEN NoHash
                                                             ELSE Bcrypt(r.secret)
BY DEF StoreCall, TxnOps, Recording

\* What a handler concludes from the answer of the store.
LEMMA StatusFacts ==
  ASSUME NEW r, NEW c, c.created \in BOOLEAN
  PROVE  /\ r.op \in TxnOps /\ Status(r, c) = 201 => c.err = "none" /\ c.created
         /\ r.op = "createAccount" /\ Status(r, c) = 201 => c.err = "none"
         /\ r.op = "login" /\ Status(r, c) = 200 => Authenticated(c, r)
         /\ r.op \notin OpenOps /\ Status(r, c) = 200 => c.err = "none"
<1>1. writeDomainError(c.err) \notin {200, 201}
  BY DEF writeDomainError
<1>2. ASSUME r.op = "login", Status(r, c) = 200 PROVE Authenticated(c, r)
  BY <1>2 DEF Status, LoginStatus
<1>3. ASSUME r.op \notin OpenOps, Status(r, c) \in {200, 201} PROVE c.err = "none"
  BY <1>1, <1>3 DEF Status, OpenOps
<1>4. ASSUME r.op \in TxnOps, Status(r, c) = 201 PROVE c.err = "none" /\ c.created
  <2>1. r.op \notin OpenOps /\ r.op # "createAccount"
    BY <1>4 DEF TxnOps, OpenOps
  <2>2. c.err = "none"
    BY <1>3, <1>4, <2>1
  <2>3. Status(r, c) = IF c.created THEN 201 ELSE 200
    BY <1>4, <2>1, <2>2 DEF Status, SuccessStatus, OpenOps
  <2>4. QED
    BY <1>4, <2>2, <2>3
<1>5. QED
  BY <1>2, <1>3, <1>4 DEF OpenOps

-----------------------------------------------------------------------------
(***************************************************************************)
(* The invariant: what a handler asks the store is what its request asks   *)
(* for, its identity is a token that allows that, a token is for a stored  *)
(* account with the stored role, and an account that is being read back is *)
(* the one that was created.                                               *)
(***************************************************************************)
ReadBackCall(r) == [op |-> "GetAccount", account |-> r.account]

Sticks(p) ==
    /\ AccountExists(db, req[p].account)
    /\ GetAccount(db, req[p].account) = NewAccount(StoreCall(req[p]))
    /\ ret[p].err # "ErrNotFound"

Asks(p) ==
    \/ arg[p] = StoreCall(req[p])
    \/ req[p].op = "createAccount" /\ arg[p] = ReadBackCall(req[p]) /\ Sticks(p)

Serving(p) ==
    /\ pc[p] = "idle" => req[p] = NoRequest /\ arg[p] = NoCall
    /\ pc[p] # "idle" =>
          /\ req[p] \in Requests /\ Passes(req[p]) /\ Asks(p)
          /\ req[p].op \notin OpenOps => id[p] \in tokens /\ Allowed(req[p], id[p])

TokenSound(t) ==
    /\ t \in [account : AccountIds, role : Roles]
    /\ AccountExists(db, t.account) /\ GetAccount(db, t.account).role = t.role

ApiInv ==
    /\ DOMAIN req = Procs /\ DOMAIN id = Procs
    /\ \A p \in Procs : Serving(p)
    /\ \A t \in tokens : TokenSound(t)

ServerStep(p) ==
    \/ \E r \in Requests, t \in tokens \cup {NoToken} : Receive(p, r, t) \/ Refuse(p, r, t)
    \/ ReadAccountBack(p) \/ Reply(p) \/ LoseReply(p)
    \/ Serve(p) /\ UNCHANGED <<req, id>> /\ NoAnswer

\* A handler that creates an account is the only kind that goes on to a
\* second call.
LEMMA SecondCall ==
  ASSUME ApiInv, NEW p \in Procs, pc[p] = "done", MoreToDo(p)
  PROVE  /\ req[p] \in Requests /\ Passes(req[p]) /\ req[p].op = "createAccount"
         /\ arg[p] = StoreCall(req[p])
<1>1. req[p] \in Requests /\ Passes(req[p]) /\ Asks(p) /\ arg[p].op = "CreateAccount"
  BY DEF ApiInv, Serving, MoreToDo
<1>2. arg[p] = StoreCall(req[p])
  BY <1>1 DEF Asks, ReadBackCall
<1>3. QED
  BY <1>1, <1>2, StoreCallOps DEF Passes

\* What the handlers do, the store allows.
LEMMA ServerIsStep ==
  ASSUME ApiInv, NEW p \in Procs, ServerStep(p)
  PROVE  Step(p) \/ UNCHANGED vars
<1>1. ASSUME NEW r \in Requests, NEW t \in tokens \cup {NoToken}, Receive(p, r, t)
      PROVE  Step(p)
  <2>1. Call(p, StoreCall(r)) /\ Passes(r)
    BY <1>1, EdgePasses DEF Receive
  <2>2. StoreCall(r) \in Calls
    BY <2>1, RequestAssumption DEF Passes
  <2>3. QED
    BY <2>1, <2>2 DEF Step
<1>2. ASSUME NEW r \in Requests, NEW t \in tokens \cup {NoToken}, Refuse(p, r, t)
      PROVE  UNCHANGED vars
  BY <1>2 DEF Refuse
<1>3. CASE ReadAccountBack(p)
  <2>1. req[p] \in Requests /\ Passes(req[p]) /\ req[p].op = "createAccount"
    BY <1>3, SecondCall DEF ReadAccountBack
  <2>2. ReadBackCall(req[p]) \in Calls
    BY <2>1, RequestAssumption DEF Passes, ReadBackCall
  <2>3. Call(p, ReadBackCall(req[p]))
    BY <1>3 DEF ReadAccountBack, ReadBackCall
  <2>4. QED
    BY <2>2, <2>3 DEF Step
<1>4. CASE Reply(p) \/ LoseReply(p)
  BY <1>4 DEF Reply, LoseReply, Finished, Step
<1>5. CASE Serve(p)
  BY <1>5 DEF Serve, Step
<1>6. QED
  BY <1>1, <1>2, <1>3, <1>4, <1>5 DEF ServerStep

LEMMA ServerKeeps ==
  ASSUME IInv, ApiInv, NEW p \in Procs, ServerStep(p)
  PROVE  /\ [Next]_vars /\ IInv' /\ Kept /\ Apart(p)
         /\ \A q \in Procs \ {p} : req'[q] = req[q] /\ id'[q] = id[q]
         /\ DOMAIN req' = Procs /\ DOMAIN id' = Procs
         /\ tokens \subseteq tokens'
<1>1. [Next]_vars
  BY ServerIsStep DEF Step, Next
<1>2. IInv'
  BY <1>1, NextKeeps
<1>3. Kept /\ Apart(p)
  <2>1. CASE Step(p)
    BY <1>2, <2>1, StepKept, StepApart
  <2>2. CASE UNCHANGED vars
    BY <2>2 DEF vars, Kept, Apart
  <2>3. QED
    BY <2>1, <2>2, ServerIsStep
<1>4. /\ \A q \in Procs \ {p} : req'[q] = req[q] /\ id'[q] = id[q]
      /\ DOMAIN req' = Procs /\ DOMAIN id' = Procs
      /\ tokens \subseteq tokens'
  <2>0. DOMAIN req = Procs /\ DOMAIN id = Procs
    BY DEF ApiInv
  <2>1. CASE \E r \in Requests, t \in tokens \cup {NoToken} :
                Receive(p, r, t) \/ Refuse(p, r, t)
    BY <2>0, <2>1 DEF Receive, Refuse, NoAnswer
  <2>2. CASE ReadAccountBack(p) \/ (Serve(p) /\ UNCHANGED <<req, id>> /\ NoAnswer)
    BY <2>0, <2>2 DEF ReadAccountBack, NoAnswer
  <2>3. CASE Finished(p) /\ tokens \subseteq tokens'
    BY <2>0, <2>3 DEF Finished
  <2>4. (Reply(p) \/ LoseReply(p)) => Finished(p) /\ tokens \subseteq tokens'
    BY DEF Reply, LoseReply, NoAnswer
  <2>5. QED
    BY <2>1, <2>2, <2>3, <2>4 DEF ServerStep
<1>5. QED
  BY <1>1, <1>2, <1>3, <1>4

-----------------------------------------------------------------------------
(***************************************************************************)
(* The invariant holds.                                                    *)
(***************************************************************************)
LEMMA StoredAccount ==
  ASSUME IInv, NEW a, AccountExists(db, a)
  PROVE  GetAccount(db, a) \in Account /\ GetAccount(db, a).account = a
<1>1. PICK i \in 1 .. Len(db) :
         GetAccount(db, a) = db[i] /\ IsAccount(db[i]) /\ db[i].account = a
  BY DEF AccountExists, GetAccount
<1>2. db[i] \in Row
  BY <1>1 DEF IInv, TypeOK
<1>3. QED
  BY <1>1, <1>2 DEF Row, IsAccount, Transaction, AuditEntry

\* The second call of POST /accounts never misses the account.
LEMMA ReadFinds ==
  ASSUME IInv, NEW p \in Procs, Work(p) \/ Disconnect(p) \/ Cancelled(p) \/ Fault(p),
         arg[p].op = "GetAccount", AccountExists(db, arg[p].account),
         ret[p].err # "ErrNotFound"
  PROVE  ret'[p].err # "ErrNotFound"
<1>0. DOMAIN ret = Procs /\ TxSound /\ tx = {q \in Procs : pc[q] \in TxSteps}
  BY DEF IInv, TypeOK
<1>l. ASSUME NEW e, NEW made, NEW v, Leave(p, e, made, v), e # "ErrNotFound"
      PROVE  ret'[p].err # "ErrNotFound"
  BY <1>0, <1>l DEF Leave
<1>1. CASE Record(p)
  <2>1. arg[p].op = "RecordTransaction"
    BY <1>0, <1>1 DEF Record, BeginTx, LookupAccount, InsertTransaction, CheckBalance,
                      ReadBack, Commit, Statement, At, TxSteps, TxSound
  <2>2. QED
    BY <2>1
<1>2. CASE Write(p)
  BY <1>2 DEF Write, CreateAccount, AppendAudit, Statement
<1>3. CASE Read(p)
  BY <1>3, <1>l DEF Read, GetAccountRow, CheckAccount, BalanceForAccount,
                    ListTransactions, ListAccounts, ListAudit, Ping, Statement
<1>4. CASE Disconnect(p) \/ Cancelled(p) \/ Fault(p)
  BY <1>4, <1>l DEF Disconnect, Cancelled, Fault, Fail
<1>5. QED
  BY <1>1, <1>2, <1>3, <1>4 DEF Work

LEMMA OthersServe ==
  ASSUME IInv, ApiInv, NEW p \in Procs, ServerStep(p), NEW q \in Procs, q # p
  PROVE  Serving(q)'
<1>1. /\ pc'[q] = pc[q] /\ arg'[q] = arg[q] /\ ret'[q] = ret[q]
      /\ req'[q] = req[q] /\ id'[q] = id[q]
  BY ServerKeeps DEF Apart
<1>2. Serving(q) /\ Kept /\ tokens \subseteq tokens'
  BY ServerKeeps DEF ApiInv
<1>3. Sticks(q) => Sticks(q)'
  BY <1>1, <1>2 DEF Sticks, Kept
<1>4. Asks(q) => Asks(q)'
  BY <1>1, <1>3 DEF Asks
<1>5. QED
  BY <1>1, <1>2, <1>4 DEF Serving

LEMMA MoverServes ==
  ASSUME IInv, Promised, ApiInv, NEW p \in Procs, ServerStep(p)
  PROVE  Serving(p)'
<1>0. DOMAIN req = Procs /\ DOMAIN id = Procs /\ Serving(p) /\ Answered(p)
  BY DEF ApiInv, Promised, Promise
<1>1. ASSUME NEW r \in Requests, NEW t \in tokens \cup {NoToken}, Receive(p, r, t)
      PROVE  Serving(p)'
  <2>1. /\ Passes(r)
        /\ r.op \notin OpenOps => ~Public(r) /\ t # NoToken /\ Allowed(r, t)
    BY <1>1, EdgePasses DEF Receive
  <2>2. Call(p, StoreCall(r))
    BY <1>1 DEF Receive
  <2>3. /\ pc'[p] = "call" /\ arg'[p] = StoreCall(r) /\ req'[p] = r
        /\ id'[p] = (IF Public(r) THEN NoToken ELSE t) /\ tokens' = tokens
    BY <1>0, <1>1, <2>2, CallShape DEF Receive, NoAnswer
  <2>4. QED
    BY <2>1, <2>3 DEF Serving, Asks
<1>2. ASSUME NEW r \in Requests, NEW t \in tokens \cup {NoToken}, Refuse(p, r, t)
      PROVE  Serving(p)'
  BY <1>0, <1>2 DEF Refuse, vars, Serving, Asks, Sticks
<1>3. CASE ReadAccountBack(p)
  <2>1. /\ pc[p] = "done" /\ MoreToDo(p) /\ Call(p, ReadBackCall(req[p]))
        /\ req' = req /\ id' = id /\ tokens' = tokens
    BY <1>3 DEF ReadAccountBack, ReadBackCall, NoAnswer
  <2>2. /\ req[p] \in Requests /\ Passes(req[p]) /\ req[p].op = "createAccount"
        /\ arg[p] = StoreCall(req[p])
    BY <2>1, SecondCall
  <2>3. pc'[p] = "call" /\ arg'[p] = ReadBackCall(req[p]) /\ ret'[p] = NoRet /\ db' = db
    BY <2>1, CallShape
  <2>4. AccountExists(db, arg[p].account) /\ GetAccount(db, arg[p].account) = NewAccount(arg[p])
    BY <1>0, <2>1 DEF Answered, MoreToDo
  <2>5. Sticks(p)'
    BY <2>1, <2>2, <2>3, <2>4, StoreCallArgs DEF Sticks, NoRet
  <2>6. req[p].op \notin OpenOps => id[p] \in tokens /\ Allowed(req[p], id[p])
    BY <1>0, <2>1 DEF Serving
  <2>7. QED
    BY <2>1, <2>2, <2>3, <2>5, <2>6 DEF Serving, Asks
<1>4. CASE Reply(p) \/ LoseReply(p)
  <2>1. Return(p) /\ req'[p] = NoRequest
    BY <1>0, <1>4 DEF Reply, LoseReply, Finished
  <2>2. QED
    BY <2>1, ReturnShape DEF Serving
<1>5. CASE Serve(p) /\ UNCHANGED <<req, id>> /\ NoAnswer
  <2>1. /\ Work(p) \/ Disconnect(p) \/ Cancelled(p) \/ Fault(p)
        /\ req' = req /\ id' = id /\ tokens' = tokens
    BY <1>5 DEF Serve, NoAnswer
  <2>2. arg' = arg /\ pc[p] # "idle" /\ pc'[p] # "idle"
    BY <2>1, WorkInFlight, WorkKeeps DEF InFlight
  <2>3. /\ req[p] \in Requests /\ Passes(req[p]) /\ Asks(p)
        /\ req[p].op \notin OpenOps => id[p] \in tokens /\ Allowed(req[p], id[p])
    BY <1>0, <2>2 DEF Serving
  <2>4. Kept
    BY ServerKeeps
  <2>5. arg[p] = ReadBackCall(req[p]) /\ Sticks(p) => Sticks(p)'
    BY <2>1, <2>4, ReadFinds DEF ReadBackCall, Sticks, Kept
  <2>6. Asks(p)'
    BY <2>1, <2>2, <2>3, <2>5 DEF Asks
  <2>7. QED
    BY <2>1, <2>2, <2>3, <2>6 DEF Serving
<1>6. QED
  BY <1>1, <1>2, <1>3, <1>4, <1>5 DEF ServerStep

\* A token is new only in the answer to a login that the stored hash matches.
LEMMA NewToken ==
  ASSUME IInv, Promised, ApiInv, NEW p \in Procs, ServerStep(p),
         NEW t \in tokens' \ tokens
  PROVE  /\ req[p].op = "login" /\ req[p].account = t.account /\ TokenSound(t)
         /\ Matches(GetAccount(db, t.account).hash, req[p].secret)
<1> DEFINE r == req[p]
           row == GetAccount(db, r.account)
<1>1. Reply(p)
  BY DEF ServerStep, Receive, Refuse, ReadAccountBack, LoseReply, NoAnswer
<1>2. /\ r.op = "login" /\ Status(r, ret[p]) = 200 /\ t = Body(r, ret[p])
      /\ pc[p] = "done"
  BY <1>1 DEF Reply, Response, Finished
<1>3. Authenticated(ret[p], r)
  BY <1>2, StatusFacts DEF IInv, TypeOK
<1>4. arg[p] = StoreCall(r) /\ r.op \in DOMAIN Routes
  BY <1>2 DEF ApiInv, Serving, Asks, Passes
<1>5. arg[p].op = "GetCredential" /\ arg[p].account = r.account
  BY <1>2, <1>4, StoreCallOps, StoreCallArgs
<1>6. AccountExists(db, r.account) /\ ret[p].val = RowVal(row)
  BY <1>2, <1>3, <1>5 DEF Promised, Promise, Answered, Authenticated
<1>7. row \in Account /\ row.account = r.account
  BY <1>6, StoredAccount
<1>8. t = [account |-> row.account, role |-> row.role]
  BY <1>2, <1>6 DEF Body, RowVal
<1>9. Matches(row.hash, r.secret)
  BY <1>3, <1>6 DEF Authenticated, RowVal
<1> HIDE DEF row
<1>10. t.account = r.account /\ t.role = row.role /\ row.role \in Roles
       /\ t \in [account : AccountIds, role : Roles]
  BY <1>7, <1>8 DEF Account
<1>11. QED
  BY <1>2, <1>6, <1>9, <1>10 DEF TokenSound, row

LEMMA ServerInv ==
  ASSUME IInv, Promised, ApiInv, NEW p \in Procs, ServerStep(p)
  PROVE  ApiInv'
<1>1. \A q \in Procs : Serving(q)'
  BY MoverServes, OthersServe
<1>2. ASSUME NEW t \in tokens'
      PROVE  TokenSound(t)'
  <2>1. TokenSound(t)
    BY <1>2, NewToken DEF ApiInv
  <2>2. QED
    BY <2>1, ServerKeeps DEF TokenSound, Kept
<1>3. QED
  BY <1>1, <1>2, ServerKeeps DEF ApiInv

LEMMA ApiStep ==
  ASSUME IInv, Promised, ApiInv, [ApiNext]_apiVars
  PROVE  /\ [Next]_vars /\ IInv' /\ Promised' /\ ApiInv' /\ Kept
         /\ tokens \subseteq tokens'
<1>1. ASSUME NEW p \in Procs, ServerStep(p)
      PROVE  [Next]_vars /\ ApiInv' /\ Kept /\ tokens \subseteq tokens'
  BY <1>1, ServerInv, ServerKeeps
<1>2. ASSUME ApiCrash
      PROVE  [Next]_vars /\ ApiInv' /\ Kept /\ tokens \subseteq tokens'
  <2>1. Crash /\ db' = db /\ tokens' = tokens
    BY <1>2 DEF ApiCrash, Crash, NoAnswer
  <2>2. \A p \in Procs : pc'[p] = "idle" /\ arg'[p] = NoCall /\ req'[p] = NoRequest
    BY <1>2 DEF ApiCrash, Crash, Restart
  <2>3. DOMAIN req' = Procs /\ DOMAIN id' = Procs
    BY <1>2 DEF ApiCrash
  <2>4. ApiInv'
    BY <2>1, <2>2, <2>3 DEF ApiInv, Serving, TokenSound
  <2>5. QED
    BY <2>1, <2>4 DEF Next, Kept
<1>3. ASSUME UNCHANGED apiVars
      PROVE  [Next]_vars /\ ApiInv' /\ Kept /\ tokens \subseteq tokens'
  <2>1. UNCHANGED vars /\ UNCHANGED <<req, id, tokens, sent, acked>>
    BY <1>3 DEF apiVars
  <2>2. ApiInv'
    BY <2>1 DEF vars, ApiInv, Serving, Asks, Sticks, TokenSound
  <2>3. QED
    BY <2>1, <2>2 DEF vars, Kept
<1>4. [Next]_vars /\ ApiInv' /\ Kept /\ tokens \subseteq tokens'
  BY <1>1, <1>2, <1>3 DEF ApiNext, ServerStep
<1>5. IInv'
  BY <1>4, NextKeeps
<1>6. QED
  BY <1>4, <1>5, PromiseStep

LEMMA ApiInitSound ==
  ApiInit => Init /\ IInv /\ Promised /\ ApiInv
<1> SUFFICES ASSUME ApiInit PROVE Init /\ IInv /\ Promised /\ ApiInv
  OBVIOUS
<1>1. Init /\ IInv /\ Promised
  BY InitSound, PromiseInit DEF ApiInit
<1>2. \A p \in Procs : pc[p] = "idle" /\ arg[p] = NoCall /\ req[p] = NoRequest
  BY <1>1 DEF ApiInit, Init
<1>3. QED
  BY <1>1, <1>2 DEF ApiInit, ApiInv, Serving

\* A handler that is serving holds a request that passed every check, and the
\* store call that is made of it (Receive, StoreCall); every token that was
\* handed out is for a stored account and its stored role (auth.go:65-108).
THEOREM ApiInvariance == ApiSpec => [](IInv /\ Promised /\ ApiInv)
<1>1. IInv /\ Promised /\ ApiInv /\ [ApiNext]_apiVars => (IInv /\ Promised /\ ApiInv)'
  BY ApiStep
<1>2. QED
  BY <1>1, ApiInitSound, PTL DEF ApiSpec

\* The handlers use the store as Store lets them: everything that is proved of
\* Spec holds of the server.
THEOREM HandlersUseTheStore == ApiSpec => ImplementsStore
<1>1. IInv /\ Promised /\ ApiInv /\ [ApiNext]_apiVars => [Next]_vars
  BY ApiStep
<1>2. QED
  BY <1>1, ApiInitSound, ApiInvariance, PTL DEF ApiSpec, ImplementsStore, Spec

\* Seen over HTTP, through lost answers, retries and crashes, the server is the
\* wallet of Points.
THEOREM ServerIsAWallet == ApiSpec => ImplementsPoints
BY HandlersUseTheStore, StoreIsAWallet, PTL DEF ImplementsStore

-----------------------------------------------------------------------------
(***************************************************************************)
(* Who may do what, and who owns a new account.                            *)
(***************************************************************************)

\* Points of an account move only in a request of somebody who holds a token
\* for that account, or for an account that the database calls admin.
THEOREM Authorization == ApiSpec => OnlyOwnerOrAdminMoves
<1> DEFINE Entitled(row) ==
               \E p \in Procs :
                  /\ pc[p] = "commit" /\ pc'[p] = "done"
                  /\ id[p] \in tokens
                  /\ \/ id[p].account = row.account
                     \/ AccountExists(db, id[p].account)
                        /\ GetAccount(db, id[p].account).role = "admin"
           A == \A i \in Len(db) + 1 .. Len(db') : IsTxn(db'[i]) => Entitled(db'[i])
<1>1. ASSUME IInv, ApiInv, NEW p \in Procs, Paid(p)
      PROVE  Entitled(arg[p].row)
  <2> DEFINE r == req[p]
  <2>1. /\ pc[p] = "commit" /\ pc'[p] = "done" /\ arg[p].op = "RecordTransaction"
    BY <1>1 DEF Paid, Commit, At, Leave, Goto, IInv, TypeOK
  <2>2. /\ Passes(r) /\ Asks(p)
        /\ r.op \notin OpenOps => id[p] \in tokens /\ Allowed(r, id[p])
    BY <1>1, <2>1 DEF ApiInv, Serving
  <2>3. arg[p] = StoreCall(r)
    BY <2>1, <2>2 DEF Asks, ReadBackCall
  <2>4. r.op \in TxnOps
    BY <2>1, <2>2, <2>3, StoreCallOps DEF Passes
  <2>5. arg[p].row.account = r.account
    BY <2>3, <2>4, StoreCallArgs
  <2>6. id[p] \in tokens /\ Authorize(id[p], r.account)
    BY <2>2, <2>4 DEF TxnOps, OpenOps, Allowed, TargetOps
  <2>7. /\ AccountExists(db, id[p].account)
        /\ GetAccount(db, id[p].account).role = id[p].role
    BY <1>1, <2>6 DEF ApiInv, TokenSound
  <2>8. QED
    BY <2>1, <2>5, <2>6, <2>7 DEF Authorize
<1>2. ASSUME IInv, ApiInv, [ApiNext]_apiVars
      PROVE  A
  <2>0. db \in Seq(Row)
    BY <1>2 DEF IInv, TypeOK
  <2>1. ASSUME db' = db PROVE A
    <3>1. Len(db) + 1 .. Len(db) = {}
      BY <2>0
    <3>2. QED
      BY <2>1, <3>1
  <2>2. ASSUME NEW row \in Row, db' = Append(db, row), IsTxn(row) => Entitled(row)
        PROVE  A
    <3>1. Len(db') = Len(db) + 1 /\ db'[Len(db) + 1] = row /\ Len(db) \in Nat
      BY <2>0, <2>2
    <3>2. \A i \in Len(db) + 1 .. Len(db') : i = Len(db) + 1
      BY <3>1
    <3> HIDE DEF Entitled
    <3>3. QED
      BY <2>2, <3>1, <3>2
  <2>3. ASSUME NEW p \in Procs, ServerStep(p)
        PROVE  A
    <3>1. CASE Paid(p)
      <4>1. arg[p].row \in Row /\ db' = Append(db, arg[p].row)
        BY <3>1 DEF Paid, Row
      <4> HIDE DEF A
      <4>2. QED
        BY <1>1, <1>2, <2>2, <3>1, <4>1
    <3>2. CASE Opened(p) \/ Audited(p)
      <4>1. PICK row \in Row : db' = Append(db, row) /\ ~IsTxn(row)
        BY <3>2 DEF Opened, Audited, Row, Account, AuditEntry, IsTxn
      <4> HIDE DEF A
      <4>2. QED
        BY <2>2, <4>1
    <3>3. db' = db \/ Paid(p) \/ Opened(p) \/ Audited(p)
      BY <1>2, <2>3, ServerIsStep, Growth DEF vars
    <3> HIDE DEF A
    <3>4. QED
      BY <2>1, <3>1, <3>2, <3>3
  <2>4. ApiCrash \/ UNCHANGED apiVars => db' = db
    BY DEF ApiCrash, Crash, apiVars, vars
  <2> HIDE DEF A
  <2>5. QED
    BY <1>2, <2>1, <2>3, <2>4 DEF ApiNext, ServerStep
<1>3. QED
  BY <1>2, ApiInvariance, PTL DEF ApiSpec, OnlyOwnerOrAdminMoves

\* A token is handed out only for a stored account, with the role stored for
\* it, to a request that knows the secret stored for it.
THEOREM LoginEarnsToken == ApiSpec => TokenEarned
<1> DEFINE A == \A t \in tokens' \ tokens :
                   /\ AccountExists(db, t.account)
                   /\ GetAccount(db, t.account).role = t.role
                   /\ \E p \in Procs :
                         /\ req[p].op = "login" /\ req[p].account = t.account
                         /\ Matches(GetAccount(db, t.account).hash, req[p].secret)
<1>1. ASSUME IInv, Promised, ApiInv, [ApiNext]_apiVars
      PROVE  A
  <2>1. ASSUME NEW p \in Procs, ServerStep(p)
        PROVE  A
    BY <1>1, <2>1, NewToken DEF TokenSound
  <2>2. ASSUME ApiCrash \/ UNCHANGED apiVars
        PROVE  A
    BY <2>2 DEF ApiCrash, NoAnswer, apiVars
  <2> HIDE DEF A
  <2>3. QED
    BY <1>1, <2>1, <2>2 DEF ApiNext, ServerStep
<1>2. QED
  BY <1>1, ApiInvariance, PTL DEF ApiSpec, TokenEarned

\* The read-back of POST /accounts finds the account of this very request,
\* even where it fails.
THEOREM ReadBackFindsOwn == ApiSpec => []CreateSticks
<1>1. ASSUME ApiInv PROVE CreateSticks
  <2> SUFFICES ASSUME NEW p \in Procs, req[p].op = "createAccount",
                      arg[p].op = "GetAccount"
               PROVE  /\ AccountExists(db, req[p].account)
                      /\ GetAccount(db, req[p].account).hash =
                            IF req[p].secret = NoSecret THEN NoHash
                                                        ELSE Bcrypt(req[p].secret)
                      /\ ret[p].err # "ErrNotFound"
    BY DEF CreateSticks
  <2>1. Passes(req[p]) /\ Asks(p)
    BY <1>1 DEF ApiInv, Serving, NoRequest
  <2>2. Sticks(p)
    BY <2>1, StoreCallOps DEF Asks, Passes
  <2>3. QED
    BY <2>2, StoreCallArgs DEF Sticks, NewAccount
<1>2. QED
  BY <1>1, ApiInvariance, PTL

LEMMA CreatedByReply ==
  ASSUME IInv, Promised, ApiInv, NEW p \in Procs, Reply(p),
         sent'.status = 201, sent'.req.op = "createAccount"
  PROVE  CreatorOwns'
<1> DEFINE r == req[p]
<1>1. /\ sent'.req = r /\ Status(r, ret[p]) = 201 /\ pc[p] = "done" /\ ~MoreToDo(p)
      /\ Return(p)
  BY DEF Reply, Response, Finished
<1>2. ret[p].err = "none" /\ r.op = "createAccount"
  BY <1>1, StatusFacts DEF IInv, TypeOK
<1>3. Passes(r) /\ Asks(p) /\ arg[p].op # "CreateAccount"
  BY <1>1, <1>2 DEF ApiInv, Serving, MoreToDo
<1>4. Sticks(p)
  BY <1>2, <1>3, StoreCallOps DEF Asks, Passes
<1>5. /\ AccountExists(db, r.account) /\ GetAccount(db, r.account).role = "member"
      /\ GetAccount(db, r.account).hash =
            IF r.secret = NoSecret THEN NoHash ELSE Bcrypt(r.secret)
  BY <1>2, <1>4, StoreCallArgs DEF Sticks, NewAccount
<1>6. db' = db
  BY <1>1 DEF Return
<1>7. QED
  BY <1>1, <1>5, <1>6 DEF CreatorOwns, Matches

\* Whoever is answered 201 to POST /accounts owns the account: the stored
\* credential is that request's, and it is only a member's.
THEOREM OwnershipOfNewAccounts == ApiSpec => []CreatorOwns
<1>1. ApiInit => CreatorOwns
  BY DEF ApiInit, NoResponse, CreatorOwns
<1>2. ASSUME IInv, Promised, ApiInv, CreatorOwns, [ApiNext]_apiVars
      PROVE  CreatorOwns'
  <2>1. CASE sent' = NoResponse
    BY <2>1 DEF CreatorOwns, NoResponse
  <2>2. ASSUME NEW p \in Procs, Reply(p) PROVE CreatorOwns'
    <3>1. CASE sent'.status = 201 /\ sent'.req.op = "createAccount"
      BY <1>2, <2>2, <3>1, CreatedByReply
    <3>2. QED
      BY <3>1 DEF CreatorOwns
  <2>3. ASSUME NEW p \in Procs, NEW r \in Requests, NEW t, Refuse(p, r, t)
        PROVE  CreatorOwns'
    BY <2>3, EdgeCreatesNothing DEF Refuse, CreatorOwns
  <2>4. CASE UNCHANGED apiVars
    BY <1>2, <2>4 DEF apiVars, vars, CreatorOwns
  <2>5. ASSUME NEW p \in Procs, ServerStep(p) PROVE CreatorOwns'
    BY <2>1, <2>2, <2>3, <2>5
       DEF ServerStep, Receive, ReadAccountBack, LoseReply, NoAnswer
  <2>6. CASE ApiCrash
    BY <2>1, <2>6 DEF ApiCrash, NoAnswer
  <2>7. QED
    BY <1>2, <2>4, <2>5, <2>6 DEF ApiNext, ServerStep
<1>3. QED
  BY <1>1, <1>2, ApiInvariance, PTL DEF ApiSpec

-----------------------------------------------------------------------------
(***************************************************************************)
(* What a member reads.  A listing is read in a second statement, with no  *)
(* transaction around the two, and answered later still: it shows rows of  *)
(* the account that was asked for, and goes on to show them until the      *)
(* answer is sent.                                                         *)
(***************************************************************************)
OwnRef(ref, a) == RefExists(db, ref) /\ GetTransactionByRef(db, ref).account = a

Listed(p) ==
    pc[p] = "done" /\ arg[p].op = "ListTransactions" /\ ret[p].err = "none" =>
        LET list == ret[p].val.list
        IN  \A k \in 1 .. Len(list) : OwnRef(list[k].ref, arg[p].account)

ReadInv == MemberReadsOwn /\ \A p \in Procs : Listed(p)

\* A row of an account is found under its ref, and stays there.
LEMMA OwnRefOfRow ==
  ASSUME IInv, NEW a, NEW j \in 1 .. Len(db), IsTxn(db[j]), db[j].account = a
  PROVE  OwnRef(db[j].ref, a)
BY UniqueKeys, RowOfRef DEF OwnRef

LEMMA OwnRefStays ==
  ASSUME Kept, NEW ref, NEW a, OwnRef(ref, a)
  PROVE  OwnRef(ref, a)'
BY DEF Kept, OwnRef

\* The second statement of ListTransactions finds rows of the account only.
LEMMA ListingRead ==
  ASSUME IInv, NEW p \in Procs, ListTransactions(p)
  PROVE  Listed(p)'
<1> DEFINE a == arg[p].account
           list == ListTransactionsByAccount(db, a)
<1>1. /\ db' = db /\ arg' = arg /\ db \in Seq(Row)
      /\ ret'[p].val.list = list
  BY DEF IInv, TypeOK, ListTransactions, Leave, ListVal
<1>2. ASSUME NEW k \in 1 .. Len(list)
      PROVE  OwnRef(list[k].ref, a)
  <2>1. PICK j \in 1 .. Len(db) :
           IsTxn(db[j]) /\ db[j].account = a /\ db[j].ref = list[k].ref
    BY <1>1, ListingIsOwn
  <2>2. QED
    BY <2>1, OwnRefOfRow
<1>3. SUFFICES ASSUME NEW k \in 1 .. Len(ret'[p].val.list)
               PROVE  /\ RefExists(db', ret'[p].val.list[k].ref)
                      /\ GetTransactionByRef(db', ret'[p].val.list[k].ref).account
                            = arg'[p].account
  BY DEF Listed, OwnRef
<1>4. k \in 1 .. Len(list) /\ ret'[p].val.list[k] = list[k]
  BY <1>1, <1>3
<1>5. OwnRef(list[k].ref, a)
  BY <1>2, <1>4
<1>6. QED
  BY <1>1, <1>4, <1>5 DEF OwnRef

\* Nothing else comes back from the store as a listing.
LEMMA MoverListed ==
  ASSUME IInv, NEW p \in Procs, Work(p) \/ Disconnect(p) \/ Cancelled(p) \/ Fault(p)
  PROVE  Listed(p)'
<1>0. /\ pc \in [Procs -> Steps] /\ DOMAIN ret = Procs /\ arg' = arg
      /\ TxSound /\ tx = {q \in Procs : pc[q] \in TxSteps}
  BY WorkKeeps DEF IInv, TypeOK
<1>1. SUFFICES ASSUME pc'[p] = "done", arg[p].op = "ListTransactions",
                      ret'[p].err = "none", ~ListTransactions(p)
               PROVE  FALSE
  BY <1>0, ListingRead DEF Listed
<1>2. ASSUME NEW e, Fail(p, e) PROVE e = "none"
  BY <1>0, <1>1, <1>2 DEF Fail, Leave
<1>3. CASE Disconnect(p) \/ Cancelled(p) \/ Fault(p)
  BY <1>1, <1>2, <1>3 DEF Disconnect, Cancelled, Fault, InFlight
<1>4. CASE Record(p)
  <2>1. arg[p].op = "RecordTransaction"
    BY <1>0, <1>4 DEF Record, BeginTx, LookupAccount, InsertTransaction, CheckBalance,
                      ReadBack, Commit, Statement, At, TxSteps, TxSound
  <2>2. QED
    BY <1>1, <2>1
<1>5. CASE Write(p)
  BY <1>1, <1>5 DEF Write, CreateAccount, AppendAudit, Statement
<1>6. CASE CheckAccount(p)
  BY <1>0, <1>1, <1>2, <1>6 DEF CheckAccount, Goto
<1>7. CASE Read(p) /\ ~CheckAccount(p)
  BY <1>1, <1>7 DEF Read, GetAccountRow, BalanceForAccount, ListAccounts, ListAudit,
                    Ping, Statement
<1>8. QED
  BY <1>3, <1>4, <1>5, <1>6, <1>7 DEF Work

LEMMA AllListed ==
  ASSUME IInv, ApiInv, NEW p \in Procs, ServerStep(p),
         NEW q \in Procs, Listed(q)
  PROVE  Listed(q)'
<1>1. Kept
  BY ServerKeeps
<1>2. CASE q # p \/ UNCHANGED vars
  <2>1. pc'[q] = pc[q] /\ arg'[q] = arg[q] /\ ret'[q] = ret[q]
    BY <1>2, ServerKeeps DEF Apart, vars
  <2>2. QED
    BY <1>1, <2>1, OwnRefStays DEF Listed
<1>3. CASE q = p /\ Step(p)
  <2>1. ASSUME NEW c, Call(p, c) PROVE Listed(q)'
    BY <1>3, <2>1, CallShape DEF Listed
  <2>2. ASSUME Return(p) PROVE Listed(q)'
    BY <1>3, <2>2, ReturnShape DEF Listed
  <2>3. QED
    BY <1>3, <2>1, <2>2, MoverListed DEF Step
<1>4. QED
  BY <1>2, <1>3, ServerIsStep

\* The edge serves nothing of the database.
LEMMA EdgeServesNoData ==
  ASSUME NEW r, NEW t, EdgeStatus(r, t) = 200
  PROVE  r.op \notin DOMAIN Routes
BY DEF EdgeStatus, Middlewares, Validator, Checks

LEMMA ReadByReply ==
  ASSUME IInv, ApiInv, NEW p \in Procs, Listed(p), Reply(p),
         sent'.status = 200,
         sent'.req.op \in {"getAccount", "getBalance", "listTransactions"} \cup AdminOps
  PROVE  MemberReadsOwn'
<1> DEFINE r == req[p]
           t == id[p]
<1>1. /\ sent' = Response(r, t, ret[p]) /\ pc[p] = "done" /\ Return(p)
  BY DEF Reply, Finished
<1>2. /\ sent'.req = r /\ sent'.by = t /\ Status(r, ret[p]) = 200
      /\ sent'.body = Body(r, ret[p])
  BY <1>1 DEF Response
<1>3. r.op \in {"getAccount", "getBalance", "listTransactions"} \cup AdminOps
  BY <1>2
<1>4. r.op \notin OpenOps /\ r.op # "createAccount"
  BY <1>3 DEF OpenOps, AdminOps
<1>5. Passes(r) /\ arg[p] = StoreCall(r) /\ Allowed(r, t)
  BY <1>1, <1>4 DEF ApiInv, Serving, Asks
<1>6. t.role = "admin" \/ (r.op \notin AdminOps /\ r.account = t.account)
  BY <1>3, <1>5 DEF Allowed, Authorize, TargetOps
<1>7. ret[p].err = "none" /\ db' = db
  BY <1>1, <1>2, <1>4, StatusFacts DEF IInv, TypeOK, Return
<1>8. ASSUME r.op = "listTransactions"
      PROVE  /\ sent'.body = ret[p].val
             /\ \A k \in 1 .. Len(ret[p].val.list) :
                   OwnRef(ret[p].val.list[k].ref, r.account)
  <2>1. sent'.body = ret[p].val
    BY <1>2, <1>8 DEF Body
  <2>2. arg[p].op = "ListTransactions" /\ arg[p].account = r.account
    BY <1>5, <1>8, StoreCallOps, StoreCallArgs DEF Passes
  <2>3. QED
    BY <1>1, <1>7, <2>1, <2>2 DEF Listed
<1>9. QED
  BY <1>2, <1>6, <1>7, <1>8 DEF MemberReadsOwn, OwnRef

\* A member reads nothing but rows of the account of its token, and only an
\* admin lists accounts or the audit log: authorizeTarget and requireAdmin stand
\* before every read (accounts.go, audit.go), and a listing is filtered by the
\* account that they looked at.
THEOREM Privacy == ApiSpec => []MemberReadsOwn
<1>1. ApiInit => ReadInv
  BY DEF ApiInit, Init, NoResponse, ReadInv, MemberReadsOwn, Listed
<1>2. ASSUME IInv, Promised, ApiInv, ReadInv, [ApiNext]_apiVars
      PROVE  ReadInv'
  <2>1. CASE UNCHANGED apiVars
    BY <1>2, <2>1 DEF apiVars, vars, ReadInv, MemberReadsOwn, Listed, OwnRef
  <2>2. CASE ApiCrash
    BY <2>2 DEF ApiCrash, Crash, Restart, NoAnswer, NoResponse, ReadInv,
                MemberReadsOwn, Listed
  <2>3. ASSUME NEW p \in Procs, ServerStep(p) PROVE ReadInv'
    <3>1. \A q \in Procs : Listed(q)'
      BY <1>2, <2>3, AllListed DEF ReadInv
    <3>2. CASE sent' = NoResponse
      BY <3>1, <3>2 DEF ReadInv, MemberReadsOwn, NoResponse
    <3>3. ASSUME NEW r \in Requests, NEW t, Refuse(p, r, t)
          PROVE  MemberReadsOwn'
      <4>1. sent'.status = EdgeStatus(r, t) /\ sent'.req = r
        BY <3>3 DEF Refuse
      <4>2. EdgeStatus(r, t) = 200 => r.op \notin DOMAIN Routes
        BY EdgeServesNoData
      <4>3. {"getAccount", "getBalance", "listTransactions"} \cup AdminOps
               \subseteq DOMAIN Routes
        BY OpNames DEF AdminOps
      <4>4. QED
        BY <4>1, <4>2, <4>3 DEF MemberReadsOwn
    <3>4. ASSUME Reply(p) PROVE MemberReadsOwn'
      BY <1>2, <3>4, ReadByReply DEF ReadInv, MemberReadsOwn
    <3>5. QED
      BY <2>3, <3>1, <3>2, <3>3, <3>4
         DEF ServerStep, Receive, ReadAccountBack, LoseReply, NoAnswer, ReadInv
  <2>4. QED
    BY <1>2, <2>1, <2>2, <2>3 DEF ApiNext, ServerStep
<1>3. QED
  BY <1>1, <1>2, ApiInvariance, PTL DEF ApiSpec, ReadInv

-----------------------------------------------------------------------------
(***************************************************************************)
(* A creation that was answered is there, and was answered once.  While a  *)
(* handler has yet to answer for the transaction it created, nobody else   *)
(* has been, or is about to be, told the same of that ref.                 *)
(***************************************************************************)
AckInv ==
    /\ acked \in Seq(Transaction) /\ AckedOnceAndForAll
    /\ \A p \in Procs : Fresh(p) =>
          /\ \A i \in 1 .. Len(acked) : acked[i].ref # arg[p].row.ref
          /\ \A q \in Procs : Fresh(q) /\ arg[q].row.ref = arg[p].row.ref => q = p

\* A handler has something new to answer for only after its commit.
LEMMA NewlyFresh ==
  ASSUME IInv, ApiInv, NEW p \in Procs, ServerStep(p), NEW q \in Procs, Fresh(q)'
  PROVE  /\ arg'[q] = arg[q]
         /\ Fresh(q) \/ (q = p /\ Paid(p))
<1>1. CASE q # p
  BY <1>1, ServerKeeps DEF Apart, Fresh
<1>2. CASE q = p /\ Serve(p)
  <2>1. Work(p) \/ Disconnect(p) \/ Cancelled(p) \/ Fault(p)
    BY <1>2 DEF Serve
  <2>2. QED
    BY <1>2, <2>1, FreshlyCommitted, WorkKeeps
<1>3. CASE q = p /\ ~Serve(p)
  <2>1. ASSUME NEW c, Call(p, c) PROVE FALSE
    BY <1>3, <2>1, CallShape DEF Fresh
  <2>2. ASSUME Return(p) PROVE FALSE
    BY <1>3, <2>2, ReturnShape DEF Fresh
  <2>3. PICK r \in Requests, t \in tokens \cup {NoToken} : Refuse(p, r, t)
    BY <1>3, <2>1, <2>2 DEF ServerStep, Receive, ReadAccountBack, Reply, LoseReply,
                            Finished
  <2>4. QED
    BY <2>3 DEF Refuse, vars, Fresh
<1>4. QED
  BY <1>1, <1>2, <1>3

\* Only an answer adds to what clients were told, and only what was created.
LEMMA NewAck ==
  ASSUME IInv, ApiInv, NEW p \in Procs, ServerStep(p)
  PROVE  \/ acked' = acked
         \/ acked' = Append(acked, arg[p].row) /\ Fresh(p) /\ ~Fresh(p)'
<1>1. CASE ~Reply(p)
  BY <1>1 DEF ServerStep, Receive, Refuse, ReadAccountBack, LoseReply, NoAnswer
<1>2. ASSUME Reply(p), acked' # acked
      PROVE  acked' = Append(acked, arg[p].row) /\ Fresh(p) /\ ~Fresh(p)'
  <2> DEFINE r == req[p]
  <2>1. /\ acked' = Append(acked, arg[p].row) /\ r.op \in TxnOps
        /\ Status(r, ret[p]) = 201 /\ pc[p] = "done" /\ Return(p)
    BY <1>2 DEF Reply, Response, Finished
  <2>2. ret[p].err = "none" /\ ret[p].created
    BY <2>1, StatusFacts DEF IInv, TypeOK
  <2>3. arg[p] = StoreCall(r) /\ r.op \in DOMAIN Routes
    BY <2>1 DEF ApiInv, Serving, Asks, Passes, TxnOps
  <2>4. arg[p].op = "RecordTransaction"
    BY <2>1, <2>3, StoreCallOps
  <2>5. ~Fresh(p)'
    BY <2>1, ReturnShape DEF Fresh
  <2>6. QED
    BY <2>1, <2>2, <2>4, <2>5 DEF Fresh
<1>3. QED
  BY <1>1, <1>2

\* The rows that clients were told of stay where they are.
LEMMA AckedStay ==
  ASSUME IInv, NEW p \in Procs, Step(p) \/ UNCHANGED vars, NEW t,
         \E k \in 1 .. Len(db) : db[k] = t
  PROVE  \E k \in 1 .. Len(db') : db'[k] = t
<1>0. db \in Seq(Row)
  BY DEF IInv, TypeOK
<1>1. CASE db' = db
  BY <1>1
<1>2. ASSUME NEW row \in Row, db' = Append(db, row)
      PROVE  \E k \in 1 .. Len(db') : db'[k] = t
  <2>1. PICK k \in 1 .. Len(db) : db[k] = t
    OBVIOUS
  <2>2. k \in 1 .. Len(db') /\ db'[k] = db[k]
    BY <1>0, <1>2
  <2>3. QED
    BY <2>1, <2>2
<1>3. QED
  BY <1>1, <1>2, AtMostOneRow DEF vars

LEMMA AckStep ==
  ASSUME IInv, Promised, ApiInv, AckInv, NEW p \in Procs, ServerStep(p)
  PROVE  AckInv'
<1> DEFINE Stored(t) == \E k \in 1 .. Len(db') : db'[k] = t
           Told(ref) == \E i \in 1 .. Len(acked) : acked[i].ref = ref
<1>0. /\ acked \in Seq(Transaction)
      /\ \A i, j \in 1 .. Len(acked) : acked[j].ref = acked[i].ref => j = i
  BY DEF AckInv, AckedOnceAndForAll
<1>1. ASSUME NEW i \in 1 .. Len(acked)
      PROVE  Stored(acked[i])
  <2>1. \E k \in 1 .. Len(db) : db[k] = acked[i]
    BY DEF AckInv, AckedOnceAndForAll
  <2>2. QED
    BY <2>1, ServerIsStep, AckedStay
<1>2. ASSUME NEW ref, Told(ref)
      PROVE  RefExists(db, ref)
  <2>1. PICK i \in 1 .. Len(acked) : acked[i].ref = ref
    BY <1>2
  <2>2. PICK k \in 1 .. Len(db) : db[k] = acked[i]
    BY <2>1 DEF AckInv, AckedOnceAndForAll
  <2>3. IsTxn(acked[i])
    <3>1. acked[i] \in Transaction
      BY <1>0, <2>1
    <3>2. QED
      BY <3>1 DEF Transaction, IsTxn
  <2>4. QED
    BY <2>1, <2>2, <2>3 DEF RefExists
\* Nobody has been told of what is newly created, and nobody else created it.
<1>3. ASSUME NEW q \in Procs, Fresh(q)'
      PROVE  /\ ~Told(arg'[q].row.ref)
             /\ \A s \in Procs : Fresh(s)' /\ arg'[s].row.ref = arg'[q].row.ref => s = q
  <2>1. /\ arg'[q] = arg[q]
        /\ Fresh(q) \/ (q = p /\ Paid(p))
    BY <1>3, NewlyFresh
  <2>2. \A s \in Procs : Fresh(s)' =>
           arg'[s] = arg[s] /\ (Fresh(s) \/ (s = p /\ Paid(p)))
    BY NewlyFresh
  <2>3. Paid(p) => ~RefExists(db, arg[p].row.ref)
    BY DEF Paid
  <2>4. \A s \in Procs : Fresh(s) => RefExists(db, arg[s].row.ref)
    BY FreshRow
  <2>5. ~Told(arg[q].row.ref)
    BY <1>2, <2>1, <2>3 DEF AckInv
  <2>6. ASSUME NEW s \in Procs, Fresh(s)', arg[s].row.ref = arg[q].row.ref
        PROVE  s = q
    BY <2>1, <2>2, <2>3, <2>4, <2>6 DEF AckInv
  <2>7. QED
    BY <2>1, <2>2, <2>5, <2>6
<1> HIDE DEF Stored, Told
<1>4. CASE acked' = acked
  <2>1. AckedOnceAndForAll'
    BY <1>0, <1>1, <1>4 DEF AckedOnceAndForAll, Stored
  <2>2. QED
    BY <1>0, <1>3, <1>4, <2>1 DEF AckInv, Told
<1>5. ASSUME acked' = Append(acked, arg[p].row), Fresh(p), ~Fresh(p)'
      PROVE  AckInv'
  <2> DEFINE t == arg[p].row
             n == Len(acked)
  <2>1. t \in Transaction /\ Stored(t)
    BY <1>5, FreshRow, ServerIsStep, AckedStay DEF Stored
  <2>2. ~Told(t.ref)
    BY <1>5 DEF AckInv, Told
  <2>3. /\ n \in Nat /\ Len(acked') = n + 1 /\ acked'[n + 1] = t
        /\ \A i \in 1 .. n : acked'[i] = acked[i]
        /\ acked' \in Seq(Transaction)
        /\ 1 .. n + 1 = (1 .. n) \cup {n + 1}
    BY <1>0, <1>5, <2>1
  <2>4. \A i \in 1 .. n : acked[i].ref # t.ref
    BY <2>2 DEF Told
  <2>5. ASSUME NEW q \in Procs, Fresh(q)'
        PROVE  arg'[q].row.ref # t.ref
    <3>1. q # p /\ arg'[q] = arg[q] /\ Fresh(q)
      BY <1>5, <2>5, NewlyFresh
    <3>2. QED
      BY <1>5, <3>1 DEF AckInv
  <2> HIDE DEF t, n
  <2>6. \A i \in 1 .. Len(acked') : Stored(acked'[i])
    BY <1>1, <2>1, <2>3 DEF n
  <2>7. \A i, j \in 1 .. Len(acked') : acked'[j].ref = acked'[i].ref => j = i
    BY <1>0, <2>3, <2>4 DEF n
  <2>8. \A q \in Procs : Fresh(q)' =>
           \A i \in 1 .. Len(acked') : acked'[i].ref # arg'[q].row.ref
    BY <1>3, <2>3, <2>5 DEF Told, n
  <2>9. AckedOnceAndForAll'
    BY <2>6, <2>7 DEF AckedOnceAndForAll, Stored
  <2>10. QED
    BY <1>3, <2>3, <2>8, <2>9 DEF AckInv
<1>6. QED
  BY <1>4, <1>5, NewAck

\* What was answered 201 is stored and was answered once, and a handler that has
\* yet to answer 201 is the only one that will for its ref (accounts.go:188-199).
THEOREM AckInvariance == ApiSpec => []AckInv
<1>1. ApiInit => AckInv
  BY DEF ApiInit, Init, AckInv, AckedOnceAndForAll, Fresh
<1>2. ASSUME IInv, Promised, ApiInv, AckInv, [ApiNext]_apiVars
      PROVE  AckInv'
  <2>1. CASE ApiCrash
    <3>1. acked' = acked /\ db' = db /\ \A p \in Procs : ~Fresh(p)'
      BY <2>1 DEF ApiCrash, Crash, Restart, NoAnswer, Fresh
    <3>2. QED
      BY <1>2, <3>1 DEF AckInv, AckedOnceAndForAll
  <2>2. CASE UNCHANGED apiVars
    BY <1>2, <2>2 DEF apiVars, vars, AckInv, AckedOnceAndForAll, Fresh
  <2>3. QED
    BY <1>2, <2>1, <2>2, AckStep DEF ApiNext, ServerStep
<1>3. QED
  BY <1>1, <1>2, ApiInvariance, PTL DEF ApiSpec

\* A transaction that was answered 201 is in the ledger through every crash,
\* and no ref is ever answered 201 twice.
THEOREM ExactlyOnce == ApiSpec => []AckedOnceAndForAll
<1>1. AckInv => AckedOnceAndForAll
  BY DEF AckInv
<1>2. QED
  BY <1>1, AckInvariance, PTL

\* A handler carries a request and an identity exactly while it serves it, and
\* the identity of a protected request is a token that was issued.
THEOREM ApiTypes == ApiSpec => []ApiTypeOK
<1>1. ASSUME IInv, ApiInv, AckInv PROVE ApiTypeOK
  <2>1. ASSUME NEW p \in Procs
        PROVE  /\ req[p] \in Requests \cup {NoRequest}
               /\ (req[p] = NoRequest) <=> (pc[p] = "idle")
               /\ req[p].op \notin {"none", "login", "getHealth"} => id[p] \in tokens
    <3>1. CASE pc[p] = "idle"
      BY <1>1, <3>1 DEF ApiInv, Serving, NoRequest
    <3>2. CASE pc[p] # "idle"
      <4>1. /\ req[p] \in Requests /\ req[p].op \in DOMAIN Routes
            /\ req[p].op \notin OpenOps => id[p] \in tokens
        BY <1>1, <3>2 DEF ApiInv, Serving, Passes
      <4>2. req[p] # NoRequest
        BY <4>1, OpNames DEF NoRequest
      <4>3. QED
        BY <3>2, <4>1, <4>2 DEF OpenOps
    <3>3. QED
      BY <3>1, <3>2
  <2>2. tokens \subseteq [account : AccountIds, role : Roles]
    BY <1>1 DEF ApiInv, TokenSound
  <2>3. QED
    BY <1>1, <2>1, <2>2 DEF ApiTypeOK, AckInv
<1>2. QED
  BY <1>1, ApiInvariance, AckInvariance, PTL

=============================================================================
