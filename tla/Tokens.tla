------------------------------- MODULE Tokens --------------------------------
(***************************************************************************)
(* The life of a bearer token: the configuration a server starts with      *)
(* (cmd/gowallet/main.go), the token that POST /login mints and the        *)
(* Authenticator that checks it (internal/httpapi/auth.go).                *)
(*                                                                         *)
(* now is the wall clock in ticks, TicksPerSecond of them to a second; the *)
(* claims of a token hold whole seconds.  issued remembers every token and *)
(* when it was minted, under which TTL; seen is the last request to a      *)
(* protected route that checks nothing itself, as POST /accounts does.     *)
(***************************************************************************)
EXTENDS Integers, FiniteSets

CONSTANTS
    TicksPerSecond,
    Keys,           \* HMAC secrets an operator may configure
    NoKey,          \* GOWALLET_JWT_SECRET is not set
    TTLs,           \* values of GOWALLET_JWT_TTL that parse, in ticks
    Unset, Garbled, \* GOWALLET_JWT_TTL is not set, or does not parse
    DefaultTTL,     \* time.Hour
    Subjects,       \* the identities that log in
    NoToken,        \* a request without a well-formed Authorization header
    MaxTime,        \* bound: the clock stops here
    MaxTokens       \* bound: tokens that are minted

ASSUME TokensAssumption ==
    /\ TicksPerSecond \in Nat \ {0}
    /\ NoKey \notin Keys
    /\ TTLs \subseteq Int /\ DefaultTTL \in Nat
    /\ Unset \notin Int /\ Garbled \notin Int /\ Unset # Garbled
    /\ MaxTime \in Nat /\ MaxTokens \in Nat

VARIABLES now, cfg, issued, seen

tokenVars == <<now, cfg, issued, seen>>

Token ==
    [sub : Subjects, key : Keys, exp : Int, at : Nat, ttl : Int]

Environment == [key : Keys \cup {NoKey}, ttl : TTLs \cup {Unset, Garbled}]

Config == [up : {TRUE}, key : Keys, ttl : Int]
Answer == [status : {200, 401}, by : Token \cup {NoToken}, at : Nat, key : Keys]

Down == [up |-> FALSE]
NoRequest == [status |-> 0]

-----------------------------------------------------------------------------
\* Mutant: a missing secret is not an error.
BootsAnyhow(env) == env.ttl # Garbled
\* loadConfig refuses a missing secret and a duration that does not parse.
Boots(env) == env.key # NoKey /\ env.ttl # Garbled

loadConfig(env) ==
    [up |-> TRUE, key |-> env.key,
     ttl |-> IF env.ttl = Unset THEN DefaultTTL ELSE env.ttl]

\* jwt.NewNumericDate drops what is less than a second.
NumericDate(t) == t \div TicksPerSecond

IssueToken(id) ==
    [sub |-> id, key |-> cfg.key, exp |-> NumericDate(now + cfg.ttl),
     at |-> now, ttl |-> cfg.ttl]

\* expires_in is the TTL in seconds; Go's division drops the fraction, towards
\* zero.
ExpiresIn(ttl) ==
    IF ttl >= 0 THEN ttl \div TicksPerSecond ELSE -((-ttl) \div TicksPerSecond)

\* Mutant: the signature is not checked against the configured secret.
verifyTokenAnyKey(t) == now < t.exp * TicksPerSecond
\* Mutant: the expiry is not checked.
verifyTokenForEver(t) == t.key = cfg.key
\* The signature is checked with the current secret, then the expiry.
verifyToken(t) == t.key = cfg.key /\ now < t.exp * TicksPerSecond

\* NewRouter mounts the Authenticator only if there is a secret.
Admitted(t) == cfg.key = NoKey \/ (t # NoToken /\ verifyToken(t))

-----------------------------------------------------------------------------
TokenInit ==
    /\ now = 0
    /\ cfg = Down
    /\ issued = {}
    /\ seen = NoRequest

\* Time passes, by any number of ticks.
Tick ==
    /\ \E t \in now + 1 .. MaxTime : now' = t
    /\ UNCHANGED <<cfg, issued, seen>>

\* main: the server starts with what its environment says, or does not.
Start(env) ==
    /\ ~cfg.up
    /\ Boots(env)
    /\ cfg' = loadConfig(env)
    /\ UNCHANGED <<now, issued, seen>>

Stop ==
    /\ cfg.up
    /\ cfg' = Down
    /\ UNCHANGED <<now, issued, seen>>

\* A login whose secret is right; the rest of it is in Api.
Login(id) ==
    /\ cfg.up
    /\ Cardinality(issued) < MaxTokens
    /\ issued' = issued \cup {IssueToken(id)}
    /\ UNCHANGED <<now, cfg, seen>>

\* A request arrives with some token, or none.
Present(t) ==
    /\ cfg.up
    /\ seen' = [status |-> IF Admitted(t) THEN 200 ELSE 401, by |-> t,
                at |-> now, key |-> cfg.key]
    /\ UNCHANGED <<now, cfg, issued>>

TokenNext ==
    \/ Tick
    \/ \E env \in Environment : Start(env)
    \/ Stop
    \/ \E id \in Subjects : Login(id)
    \/ \E t \in issued \cup {NoToken} : Present(t)

TokenSpec == TokenInit /\ [][TokenNext]_tokenVars

-----------------------------------------------------------------------------
(***************************************************************************)
(* Properties.                                                             *)
(***************************************************************************)

\* Every variable has its type; tokens are only minted in the past.
TokenTypeOK ==
    /\ now \in Nat
    /\ cfg \in {Down} \cup Config
    /\ issued \subseteq Token
    /\ \A t \in issued : t.at <= now
    /\ seen \in {NoRequest} \cup Answer

\* Rounding the expiry to a second never prolongs a token and costs it less
\* than a second: at any time, of the tokens minted with the current secret,
\* those past their TTL are refused and those with a second of it left are
\* accepted, and so is a client that comes back a second before the expires_in
\* it was told is over (auth.go:36-38, login.go:52).
LifeWithinASecond ==
    cfg.up => \A t \in issued : t.key = cfg.key =>
        /\ verifyToken(t) => now < t.at + t.ttl
        /\ now + TicksPerSecond <= t.at + t.ttl => verifyToken(t)
        /\ now + TicksPerSecond <= t.at + ExpiresIn(t.ttl) * TicksPerSecond
              => verifyToken(t)

\* "an empty JWT secret would silently disable auth - we refuse to start
\* instead" (main.go:30-32): through restarts and changes of the secret, who
\* is let in has a token of this server's secret, minted less than its TTL
\* before.
AdmittedFresh ==
    seen.status = 200 =>
        /\ seen.by \in issued
        /\ seen.by.key = seen.key
        /\ seen.at < seen.by.at + seen.by.ttl

=============================================================================
