---------------------------- MODULE TokensProofs -----------------------------
(***************************************************************************)
(* What a token is worth, for every length of a second, every TTL, every   *)
(* secret and every history of restarts.                                   *)
(***************************************************************************)
EXTENDS Tokens, TLAPS

\* Rounding down to a second loses less than one.
LEMMA RoundingDown ==
  ASSUME NEW t \in Int
  PROVE  /\ NumericDate(t) \in Int
         /\ NumericDate(t) * TicksPerSecond <= t
         /\ t < NumericDate(t) * TicksPerSecond + TicksPerSecond
BY TokensAssumption, Z3 DEF NumericDate

\* What a client is told never exceeds a TTL that makes sense.
LEMMA ToldAtMost ==
  ASSUME NEW ttl \in Int
  PROVE  /\ ExpiresIn(ttl) * TicksPerSecond \in Int
         /\ ttl >= 0 => ExpiresIn(ttl) * TicksPerSecond <= ttl
         /\ ttl < 0 => ExpiresIn(ttl) * TicksPerSecond <= 0
<1>1. CASE ttl >= 0
  <2>1. ExpiresIn(ttl) = ttl \div TicksPerSecond
    BY <1>1 DEF ExpiresIn
  <2>2. QED
    BY <1>1, <2>1, RoundingDown, TokensAssumption DEF NumericDate
<1>2. CASE ttl < 0
  <2> DEFINE k == (-ttl) \div TicksPerSecond
  <2>1. ExpiresIn(ttl) = -k
    BY <1>2 DEF ExpiresIn
  <2>2. k \in Int /\ -ttl < k * TicksPerSecond + TicksPerSecond
    BY RoundingDown DEF NumericDate
  <2>3. k >= 0
    BY <1>2, TokensAssumption, Z3
  <2> HIDE DEF k
  <2>4. k * TicksPerSecond >= 0 /\ (-k) * TicksPerSecond = -(k * TicksPerSecond)
    BY <2>2, <2>3, TokensAssumption, Z3
  <2>5. QED
    BY <1>2, <2>1, <2>2, <2>4, TokensAssumption
<1>3. QED
  BY <1>1, <1>2

\* The expiry of every token is the one IssueToken gave it.
Minted == \A t \in issued : t.exp = NumericDate(t.at + t.ttl)

TokenInv == TokenTypeOK /\ Minted /\ AdmittedFresh

\* What a running server accepts has its secret and is younger than its TTL.
LEMMA VerifiedIsFresh ==
  ASSUME TokenInv, cfg.up, NEW t \in issued, verifyToken(t)
  PROVE  t.key = cfg.key /\ now < t.at + t.ttl
<1>1. t \in Token /\ now \in Nat
  BY DEF TokenInv, TokenTypeOK
<1>2. t.exp = NumericDate(t.at + t.ttl) /\ t.at + t.ttl \in Int
  BY <1>1 DEF TokenInv, Minted, Token
<1>3. t.exp * TicksPerSecond <= t.at + t.ttl /\ t.exp * TicksPerSecond \in Int
  BY <1>2, RoundingDown, TokensAssumption
<1>4. QED
  BY <1>1, <1>2, <1>3 DEF verifyToken

\* A server that is not down has a configuration.
LEMMA Running ==
  ASSUME TokenTypeOK, cfg.up
  PROVE  cfg \in Config /\ cfg.key \in Keys /\ cfg.ttl \in Int /\ now \in Nat
<1>1. cfg # Down
  <2>1. ~Down.up
    BY DEF Down
  <2>2. QED
    BY <2>1
<1>2. QED
  BY <1>1 DEF TokenTypeOK, Config

\* A server that starts has a secret and a TTL that is a number.
LEMMA ConfigType ==
  ASSUME NEW env \in Environment, Boots(env)
  PROVE  loadConfig(env) \in Config
<1> DEFINE ttl == IF env.ttl = Unset THEN DefaultTTL ELSE env.ttl
<1>1. env.key \in Keys
  BY DEF Environment, Boots
<1>2. env.ttl = Unset \/ env.ttl \in TTLs
  BY DEF Environment, Boots
<1>3. ttl \in Int
  <2>1. CASE env.ttl = Unset
    BY <2>1, TokensAssumption
  <2>2. CASE env.ttl # Unset
    <3>1. ttl = env.ttl /\ env.ttl \in TTLs
      BY <1>2, <2>2
    <3>2. QED
      BY <3>1, TokensAssumption
  <2>3. QED
    BY <2>1, <2>2
<1>4. loadConfig(env) = [up |-> TRUE, key |-> env.key, ttl |-> ttl]
  BY DEF loadConfig
<1> HIDE DEF ttl
<1>5. QED
  BY <1>1, <1>3, <1>4 DEF Config

LEMMA TokenStep ==
  ASSUME TokenInv, [TokenNext]_tokenVars
  PROVE  TokenInv'
<1>1. CASE Tick
  <2>1. now' \in Nat /\ now < now' /\ UNCHANGED <<cfg, issued, seen>>
    BY <1>1, TokensAssumption DEF Tick, TokenInv, TokenTypeOK
  <2>2. \A t \in issued : t.at \in Nat
    BY DEF TokenInv, TokenTypeOK, Token
  <2>3. TokenTypeOK'
    BY <2>1, <2>2 DEF TokenInv, TokenTypeOK
  <2>4. QED
    BY <2>1, <2>3 DEF TokenInv, Minted, AdmittedFresh
<1>2. ASSUME NEW env \in Environment, Start(env)
      PROVE  TokenInv'
  <2>1. cfg' \in Config
        /\ UNCHANGED <<now, issued, seen>>
    BY <1>2, ConfigType DEF Start
  <2>2. QED
    BY <2>1 DEF TokenInv, TokenTypeOK, Minted, AdmittedFresh
<1>3. CASE Stop
  BY <1>3 DEF Stop, TokenInv, TokenTypeOK, Minted, AdmittedFresh
<1>4. ASSUME NEW id \in Subjects, Login(id)
      PROVE  TokenInv'
  <2> DEFINE t == IssueToken(id)
  <2>1. issued' = issued \cup {t} /\ UNCHANGED <<now, cfg, seen>> /\ cfg.up
    BY <1>4 DEF Login
  <2>2. /\ cfg.key \in Keys /\ cfg.ttl \in Int /\ now \in Nat
        /\ now + cfg.ttl \in Int
    BY <2>1, Running DEF TokenInv
  <2>3. t \in Token /\ t.at = now /\ t.exp = NumericDate(t.at + t.ttl)
    BY <2>2, RoundingDown DEF IssueToken, Token
  <2> HIDE DEF t
  <2>4. TokenTypeOK'
    BY <2>1, <2>2, <2>3 DEF TokenInv, TokenTypeOK
  <2>5. Minted'
    BY <2>1, <2>3 DEF TokenInv, Minted
  <2>6. AdmittedFresh'
    BY <2>1 DEF TokenInv, AdmittedFresh
  <2>7. QED
    BY <2>4, <2>5, <2>6 DEF TokenInv
<1>5. ASSUME NEW t \in issued \cup {NoToken}, Present(t)
      PROVE  TokenInv'
  <2> DEFINE status == IF Admitted(t) THEN 200 ELSE 401
  <2>1. /\ UNCHANGED <<now, cfg, issued>> /\ cfg.up
        /\ seen' = [status |-> status, by |-> t, at |-> now, key |-> cfg.key]
    BY <1>5 DEF Present
  <2>2. cfg.key \in Keys /\ now \in Nat
    BY <2>1, Running DEF TokenInv
  <2>3. status \in {200, 401} /\ (status = 200 => Admitted(t))
    OBVIOUS
  <2> HIDE DEF status
  <2>4. t \in Token \cup {NoToken}
    BY DEF TokenInv, TokenTypeOK
  <2>5. seen' \in Answer
    BY <2>1, <2>2, <2>3, <2>4 DEF Answer
  <2>6. TokenTypeOK'
    BY <2>1, <2>5 DEF TokenInv, TokenTypeOK
  <2>7. Minted'
    BY <2>1 DEF TokenInv, Minted
  <2>8. ASSUME Admitted(t)
        PROVE  t \in issued /\ t.key = cfg.key /\ now < t.at + t.ttl
    <3>1. cfg.key # NoKey
      BY <2>2, TokensAssumption
    <3>2. t \in issued /\ verifyToken(t)
      BY <2>8, <3>1 DEF Admitted
    <3>3. QED
      BY <2>1, <3>2, VerifiedIsFresh
  <2>9. AdmittedFresh'
    BY <2>1, <2>3, <2>8 DEF AdmittedFresh
  <2>10. QED
    BY <2>6, <2>7, <2>9 DEF TokenInv
<1>6. CASE UNCHANGED tokenVars
  BY <1>6 DEF tokenVars, TokenInv, TokenTypeOK, Minted, AdmittedFresh
<1>7. QED
  BY <1>1, <1>2, <1>3, <1>4, <1>5, <1>6 DEF TokenNext

LEMMA TokenInvariance == TokenSpec => []TokenInv
<1>1. TokenInit => TokenInv
  BY DEF TokenInit, TokenInv, TokenTypeOK, Minted, AdmittedFresh, NoRequest
<1>2. TokenInv /\ [TokenNext]_tokenVars => TokenInv'
  BY TokenStep
<1>3. QED
  BY <1>1, <1>2, PTL DEF TokenSpec

\* Every variable has its type, and no token is from the future.
THEOREM TokenTypes == TokenSpec => []TokenTypeOK
BY TokenInvariance, PTL DEF TokenInv

\* Through restarts and changes of the secret, nobody is let in without a
\* token of the running server's secret that is younger than its TTL.
THEOREM Admission == TokenSpec => []AdmittedFresh
BY TokenInvariance, PTL DEF TokenInv

\* A token is accepted for its TTL, less the fraction of a second that the
\* claims cannot hold, and never for longer, whatever the TTL is.
THEOREM Lifetime == TokenSpec => []LifeWithinASecond
<1>1. TokenInv => LifeWithinASecond
  <2> SUFFICES ASSUME TokenInv, cfg.up, NEW t \in issued, t.key = cfg.key
               PROVE  /\ verifyToken(t) => now < t.at + t.ttl
                      /\ now + TicksPerSecond <= t.at + t.ttl => verifyToken(t)
                      /\ now + TicksPerSecond
                            <= t.at + ExpiresIn(t.ttl) * TicksPerSecond
                         => verifyToken(t)
    BY DEF LifeWithinASecond
  <2>1. t \in Token /\ now \in Nat
    BY DEF TokenInv, TokenTypeOK
  <2>2. t.exp = NumericDate(t.at + t.ttl) /\ t.at + t.ttl \in Int
    BY <2>1 DEF TokenInv, Minted, Token
  <2>3. /\ t.at + t.ttl < t.exp * TicksPerSecond + TicksPerSecond
        /\ t.exp * TicksPerSecond \in Int
    BY <2>2, RoundingDown, TokensAssumption
  <2>4. now + TicksPerSecond <= t.at + t.ttl => verifyToken(t)
    BY <2>1, <2>2, <2>3, TokensAssumption DEF verifyToken
  <2>5. /\ t.at \in Nat /\ t.ttl \in Int /\ t.at <= now
        /\ TicksPerSecond \in Nat /\ TicksPerSecond > 0
    BY <2>1, TokensAssumption DEF TokenInv, TokenTypeOK, Token
  <2>6. ASSUME now + TicksPerSecond <= t.at + ExpiresIn(t.ttl) * TicksPerSecond
        PROVE  now + TicksPerSecond <= t.at + t.ttl
    <3> DEFINE told == ExpiresIn(t.ttl) * TicksPerSecond
    <3>1. told \in Int /\ (t.ttl >= 0 => told <= t.ttl) /\ (t.ttl < 0 => told <= 0)
      BY <2>5, ToldAtMost
    <3>2. now + TicksPerSecond <= t.at + told
      BY <2>6
    <3> HIDE DEF told
    <3>3. QED
      BY <2>1, <2>5, <3>1, <3>2
  <2>7. QED
    BY <2>4, <2>6, VerifiedIsFresh
<1>2. QED
  BY <1>1, TokenInvariance, PTL

=============================================================================
