--------------------------- MODULE TokenBlacklist ---------------------------
(***************************************************************************)
(* The API's bearer tokens: AuthService.loginApi, logout and               *)
(* isTokenBlacklisted, behind JwtStrategy.                                 *)
(*                                                                         *)
(* A token carries its own expiry; a logout puts its jti in a Map in the   *)
(* memory of the process (instance) that handles it.  None of the handlers *)
(* waits for anything between its reads and its writes of the Map, so each *)
(* is one step.                                                            *)
(***************************************************************************)
EXTENDS Naturals

CONSTANTS
    Instance,    \* processes serving the API
    Token,       \* jtis, never issued twice
    Ttl,         \* JWT_EXPIRES_IN
    MaxTime,     \* bound on the clock
    Undefined    \* JavaScript's undefined

ASSUME TimeAssumption == Ttl \in Nat \ {0} /\ MaxTime \in Nat /\ Undefined \notin Nat

VARIABLES
    now,          \* the clock
    exp,          \* exp claim of the tokens issued
    tokenBlacklist,  \* per instance: jti -> expiry
    (***********************************************************************)
    (* History.  The program does not have these variables.                *)
    (***********************************************************************)
    out           \* tokens logged out at an instance since it started

tokenVars == <<now, exp, tokenBlacklist, out>>

Time == 0..(MaxTime + Ttl)
Maps == UNION {[J -> Time \cup {Undefined}] : J \in SUBSET Token}
EmptyMap == [t \in {} |-> Undefined]

TokenTypeOK ==
    /\ now \in 0..MaxTime
    /\ exp \in [Token -> Time \cup {Undefined}]
    /\ tokenBlacklist \in [Instance -> Maps]
    /\ out \in [Instance -> SUBSET Token]

\* The comparison `expiry < now`: false when there is no number to compare.
Passed(e) == e # Undefined /\ e < now

\* The Map without the entries of the tokens J.
Without(map, J) == [t \in DOMAIN map \ J |-> map[t]]

\* AuthService.isTokenBlacklisted: its answer, and the Map after it.
IsTokenBlacklisted(i, t) == t \in DOMAIN tokenBlacklist[i] /\ ~Passed(tokenBlacklist[i][t])
Checked(i, t) ==
    IF IsTokenBlacklisted(i, t) THEN tokenBlacklist[i] ELSE Without(tokenBlacklist[i], {t})

\* passport-jwt takes a token until it expires; then JwtStrategy.validate.
Accepted(i, t) == exp[t] # Undefined /\ now < exp[t] /\ ~IsTokenBlacklisted(i, t)

\* What validate hands on of the token's expiry: nothing.
UserExp(t) == Undefined

\* logout's loop over the Map after the entry for t is set.
Swept_Lapsed(map) ==                             \* mutant: deletes unless expiry >= now
    Without(map, {t \in DOMAIN map : ~(map[t] # Undefined /\ map[t] >= now)})
Swept(map) == Without(map, {t \in DOMAIN map : Passed(map[t])})

-----------------------------------------------------------------------------
\* AuthService.loginApi.
LoginApi_Millis(t) ==                            \* mutant: exp in milliseconds
    /\ exp[t] = Undefined
    /\ exp' = [exp EXCEPT ![t] = (now + Ttl) * 1000]
    /\ UNCHANGED <<now, tokenBlacklist, out>>
LoginApi(t) ==
    /\ exp[t] = Undefined
    /\ exp' = [exp EXCEPT ![t] = now + Ttl]
    /\ UNCHANGED <<now, tokenBlacklist, out>>

\* A request with token t that changes nothing else (GET me and all of the API).
Use(i, t) ==
    /\ Accepted(i, t)
    /\ tokenBlacklist' = [tokenBlacklist EXCEPT ![i] = Checked(i, t)]
    /\ UNCHANGED <<now, exp, out>>

\* AuthApiController.logout.
Logout(i, t) ==
    /\ Accepted(i, t)
    /\ LET map == Checked(i, t)
           set == [x \in DOMAIN map \cup {t} |-> IF x = t THEN UserExp(t) ELSE map[x]]
       IN  tokenBlacklist' = [tokenBlacklist EXCEPT ![i] = Swept(set)]
    /\ out' = [out EXCEPT ![i] = @ \cup {t}]
    /\ UNCHANGED <<now, exp>>

\* An instance stops and starts again: the Map is not kept anywhere.
Restart(i) ==
    /\ tokenBlacklist' = [tokenBlacklist EXCEPT ![i] = EmptyMap]
    /\ out' = [out EXCEPT ![i] = {}]
    /\ UNCHANGED <<now, exp>>

Tick ==
    /\ now < MaxTime
    /\ now' = now + 1
    /\ UNCHANGED <<exp, tokenBlacklist, out>>

TokenInit ==
    /\ now = 0
    /\ exp = [t \in Token |-> Undefined]
    /\ tokenBlacklist = [i \in Instance |-> EmptyMap]
    /\ out = [i \in Instance |-> {}]

TokenNext ==
    \/ \E t \in Token : LoginApi(t) \/ \E i \in Instance : Use(i, t) \/ Logout(i, t)
    \/ \E i \in Instance : Restart(i)
    \/ Tick

TokenSpec == TokenInit /\ [][TokenNext]_tokenVars

-----------------------------------------------------------------------------
\* An instance that has handled a token's logout does not accept it again while
\* it runs: no sweep of a later logout and no check forgets it before the
\* token itself has expired.
RevokedHere == \A i \in Instance : \A t \in out[i] : ~Accepted(i, t)

-----------------------------------------------------------------------------
\* The inductive invariant behind RevokedHere: the entry a logout makes has no
\* expiry to compare, so nothing but a restart takes it out of the Map.
EntriesInv ==
    \A i \in Instance :
        /\ out[i] \subseteq DOMAIN tokenBlacklist[i]
        /\ \A t \in DOMAIN tokenBlacklist[i] : tokenBlacklist[i][t] = Undefined

TokenInv == TokenTypeOK /\ EntriesInv

=============================================================================
