------------------------------- MODULE Server -------------------------------
(***************************************************************************)
(* The process: cmd/server/main.go, internal/config/config.go, what        *)
(* time.Duration and time.NewTicker make of the configured numbers, and    *)
(* the tokens of internal/auth/jwt.go and internal/api/middleware/auth.go. *)
(*                                                                         *)
(* main reads the environment, dies of a missing variable, a database or a *)
(* node it cannot reach, starts three goroutines and serves.  Each of the  *)
(* goroutines makes its ticker in its own time, also when main serves      *)
(* already, and a panic there ends the process.  Whoever runs the process  *)
(* starts it again, perhaps with another environment.                      *)
(*                                                                         *)
(* Data.  A number in the environment is an integer, or Junk or Unset.     *)
(* int and time.Duration hold -Half..Half-1.  The clock counts hours.      *)
(* Redis, Kafka and telemetry only warn, and have no step here.            *)
(***************************************************************************)
EXTENDS Integers, FiniteSets

CONSTANTS
  Half,      \* 2^63
  Second,    \* time.Second
  Envs,      \* the environments the process may be given
  Users, Secrets,
  Junk,      \* a value that strconv.Atoi refuses
  Unset,     \* an empty variable
  MaxTokens, \* bound: how many tokens are ever handed out
  MaxNow     \* bound: how far the clock goes

Hour     == 3600 * Second
Required == {"MASTER_DATABASE_URL", "ETHEREUM_NODE_URL", "JWT_SECRET", "ENCRYPTION_KEY"}
Loops    == {"PRICE_SYNC_INTERVAL_S", "EXCHANGE_SYNC_INTERVAL_S", "DEFI_SYNC_INTERVAL_S"}
Settings == Loops \cup {"JWT_EXPIRY_HOURS"}
Env      == [given : SUBSET Required, secret : Secrets,
             number : [Settings -> Int \cup {Junk, Unset}]]

Default ==
  [s \in Settings |->
     CASE s = "PRICE_SYNC_INTERVAL_S"    -> 60
       [] s = "EXCHANGE_SYNC_INTERVAL_S" -> 300
       [] s = "DEFI_SYNC_INTERVAL_S"     -> 900
       [] s = "JWT_EXPIRY_HOURS"         -> 24]

ASSUME ServerAssumption ==
  /\ Second \in Nat \ {0}
  /\ Half \in Nat /\ 24 * Hour < Half
  /\ Junk \notin Int /\ Unset \notin Int
  /\ MaxTokens \in Nat /\ MaxNow \in Nat
ASSUME EnvAssumption ==
  \A e \in Envs :
    /\ e.given \subseteq Required /\ e.secret \in Secrets
    /\ DOMAIN e.number = Settings
    /\ \A s \in Settings : e.number[s] \in {Junk, Unset} \/ e.number[s] \in Int

VARIABLES
  env,      \* the environment
  proc,     \* where main stands
  starting, \* goroutines that have not made their ticker yet
  ended,    \* how the last process ended, while there is none
  tokens,   \* the tokens that were ever handed out
  now       \* the clock

server == <<env, proc, starting, ended, tokens, now>>

-----------------------------------------------------------------------------
(* config.Load.                                                            *)

(* Mutant: any number will do, zero included.                              *)
Number_NotChecked(s) ==
  IF env.number[s] \in 0..(Half - 1) THEN env.number[s] ELSE Default[s]

(* os.Getenv, strconv.Atoi and n > 0.                                      *)
Number(s) == IF env.number[s] \in 1..(Half - 1) THEN env.number[s] ELSE Default[s]

(* What a product of Durations is in 64 bits.                              *)
Wrap(x) == ((x + Half) % (2 * Half)) - Half

Fits(n, unit) == n * unit < Half

(* Mutant: the interval is taken as it is.                                 *)
Interval_Unguarded(loop) == Wrap(Number(loop) * Second)

(* StartSync of the prices replaces an interval it cannot use.             *)
Interval(loop) ==
  LET d == Wrap(Number(loop) * Second) IN
  IF loop = "PRICE_SYNC_INTERVAL_S" /\ d <= 0 THEN Default[loop] * Second ELSE d

-----------------------------------------------------------------------------
(* main.                                                                   *)
Stages == {"down", "connect", "dial", "wire", "serve"}
Ends   == {"none", "fatal", "panic", "killed"}

InitServer ==
  /\ env \in Envs
  /\ proc = "down"
  /\ starting = {}
  /\ ended = "none"
  /\ tokens = {}
  /\ now = 0

End(how) == proc' = "down" /\ starting' = {} /\ ended' = how

(* The environment of the next process.                                    *)
Redeploy ==
  /\ proc = "down"
  /\ env' \in Envs \ {env}
  /\ UNCHANGED <<proc, starting, ended, tokens, now>>

(* config.Load never fails; the four checks may.                           *)
Load ==
  /\ proc = "down"
  /\ IF Required \subseteq env.given
       THEN proc' = "connect" /\ ended' = "none" /\ UNCHANGED starting
       ELSE End("fatal")
  /\ UNCHANGED <<env, tokens, now>>

Connect ==
  /\ proc = "connect"
  /\ proc' = "dial"
  /\ UNCHANGED <<env, starting, ended, tokens, now>>

(* ethclient.Dial, and the three StartSync.                                *)
Dial ==
  /\ proc = "dial"
  /\ proc' = "wire"
  /\ starting' = Loops
  /\ UNCHANGED <<env, ended, tokens, now>>

(* RegisterRoutes and r.Run.                                               *)
Run ==
  /\ proc = "wire"
  /\ proc' = "serve"
  /\ UNCHANGED <<env, starting, ended, tokens, now>>

(* pgxpool.Connect, Dial or Run fails: log.Fatalf.                         *)
Fatal ==
  /\ proc \in {"connect", "dial", "wire", "serve"}
  /\ End("fatal")
  /\ UNCHANGED <<env, tokens, now>>

(* time.NewTicker panics unless its interval is positive.                  *)
NewTicker(loop) ==
  /\ loop \in starting
  /\ IF Interval(loop) > 0
       THEN starting' = starting \ {loop} /\ UNCHANGED <<proc, ended>>
       ELSE End("panic")
  /\ UNCHANGED <<env, tokens, now>>

Kill ==
  /\ proc # "down"
  /\ End("killed")
  /\ UNCHANGED <<env, tokens, now>>

-----------------------------------------------------------------------------
(* Tokens.  hours is history: the expiry that was configured.              *)
Token == [user : Users, secret : Secrets, born : Nat, exp : Int, hours : Nat]

(* Mutant: the hours are taken for seconds.                                *)
Fresh_Seconds(u) ==
  LET h == Number("JWT_EXPIRY_HOURS") IN
  [user |-> u, secret |-> env.secret, born |-> now,
   exp |-> now * Hour + Wrap(h * Second), hours |-> h]

Fresh(u) ==
  LET h == Number("JWT_EXPIRY_HOURS") IN
  [user |-> u, secret |-> env.secret, born |-> now,
   exp |-> now * Hour + Wrap(h * Hour), hours |-> h]

(* Registering or logging in: GenerateToken.                               *)
GenerateToken(u) ==
  /\ proc = "serve"
  /\ Cardinality(tokens) < MaxTokens
  /\ tokens' = tokens \cup {Fresh(u)}
  /\ UNCHANGED <<env, proc, starting, ended, now>>

(* Mutant: the signature is not verified.                                  *)
Accepts_Unverified(t) == now * Hour < t.exp

(* The Auth middleware, by ValidateToken: the signature by the secret of   *)
(* this process, then the expiry.                                          *)
Accepts(t) == t.secret = env.secret /\ now * Hour < t.exp

Clock ==
  /\ now < MaxNow
  /\ now' = now + 1
  /\ UNCHANGED <<env, proc, starting, ended, tokens>>

ServerNext ==
  \/ Redeploy
  \/ Load
  \/ Connect
  \/ Dial
  \/ Run
  \/ Fatal
  \/ \E loop \in Loops : NewTicker(loop)
  \/ Kill
  \/ \E u \in Users : GenerateToken(u)
  \/ Clock

-----------------------------------------------------------------------------
ServerTypeOK ==
  /\ env \in Envs
  /\ proc \in Stages
  /\ starting \subseteq Loops
  /\ ended \in Ends
  /\ tokens \subseteq Token
  /\ now \in 0..MaxNow

IntervalsFit == \A loop \in Loops \ {"PRICE_SYNC_INTERVAL_S"} : Fits(Number(loop), Second)

(* The process panics only if a sync interval of the exchanges or of DeFi, *)
(* in nanoseconds, is more than a time.Duration holds.                     *)
PanicsOnlyOnOverflow ==
  [][proc # "down" /\ proc' = "down" /\ ended' = "panic" => ~IntervalsFit]_server

(* A token lets its user in for the hours configured when it was issued,   *)
(* and no longer, under every process with the same secret, if those hours *)
(* are less than a time.Duration holds.                                    *)
TokensLiveAsConfigured ==
  \A t \in tokens :
    Fits(t.hours, Hour) =>
      /\ t.hours >= 1
      /\ Accepts(t) <=> t.secret = env.secret /\ now < t.born + t.hours

(* With all its variables and intervals that fit, a process that is only   *)
(* killed, or refused a connection, so many times serves in the end: it    *)
(* does not go down of itself.                                             *)
Healthy == Required \subseteq env.given /\ IntervalsFit

ServesInTheEnd ==
  <>[]Healthy /\ <>[](ended \notin {"killed", "fatal"}) => <>[](proc = "serve")
=============================================================================
