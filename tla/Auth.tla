-------------------------------- MODULE Auth --------------------------------
(***************************************************************************)
(* internal/engine/auth.go: the JWT validator with its cache of the key    *)
(* server's keys (JWKS), and the OAuth introspector with its cache of      *)
(* answers.  Neither holds its lock while it asks its server, so answers   *)
(* may be stored in another order than they were given.                    *)
(*                                                                         *)
(* A token is what Validate reads of it: algorithm, key ID ("" if absent), *)
(* claims, and who signed it over which digest of its text.  A JWK is its  *)
(* ID, its kind and its material.  A tick is at most the timeout of the    *)
(* HTTP clients; what runs between two calls takes less than a tick.       *)
(***************************************************************************)
EXTENDS Integers, FiniteSets

CONSTANTS JwtTokens, JwtKeys,         \* the tokens presented; the keys ever published
          Malformed,                  \* the tokens that do not split and decode
          Algorithms, Issuers, Audiences, Secret, HasJwksURL, \* config.JWTConfig
          AccessTokens,               \* the tokens the introspector is shown
          TokenExpiry,                \* access token -> "exp" of its answer, 0 if absent
          Verifiers,                  \* goroutines in Inspect
          JwksTTL, IntrospectTTL, FetchTimeout, MaxAuthTime, MaxRotations,
          NoSecret, NoAnswer

ASSUME AuthAssumption ==
    /\ JwksTTL \in Nat /\ IntrospectTTL \in Nat /\ FetchTimeout \in Nat
    /\ FetchTimeout <= JwksTTL   \* ten seconds, an hour
    /\ MaxAuthTime \in Nat /\ MaxRotations \in Nat /\ HasJwksURL \in BOOLEAN
    /\ TokenExpiry \in [AccessTokens -> Nat]
    /\ \A k, l \in JwtKeys : k.kid = l.kid => k = l
    /\ NoAnswer \notin [active : BOOLEAN, expiresAt : Nat]

VARIABLES
    authTime,
    published, since, withdrawn, \* the key server: its keys; history: when each came and went
    jwks,            \* jwksCache: [keys, expiresAt]
    verifying,       \* verifier -> its call of JWTValidator.Inspect
    active, changed, \* the OAuth server: active tokens; history: when each last changed
    introspected,    \* cache.tokens: token -> [active, expiresAt], or NoAnswer
    asking,          \* verifier -> its call of OAuthIntrospector.Inspect
    judged,          \* history: what the last step has decided, or NoAnswer
    rotations        \* bound: changes at the two servers

jwtVars == <<published, since, withdrawn, jwks, verifying>>
oauthVars == <<active, changed, introspected, asking>>
authVars == <<authTime, rotations, judged, jwtVars, oauthVars>>

IdleCall == [pc |-> "idle", token |-> NoAnswer, began |-> 0, answer |-> NoAnswer]
Call(t) == [pc |-> "fetch", token |-> t, began |-> authTime, answer |-> NoAnswer]
Judge(by, call, verdict) == [by |-> by, token |-> call.token, began |-> call.began, verdict |-> verdict]
Kids(keys) == {k.kid : k \in keys}
KeyOf(keys, kid) == CHOOSE k \in keys : k.kid = kid

\* NewJWTValidator: no keys, and a cache that has expired
NewJWTValidator == [keys |-> {}, expiresAt |-> 0]

AuthInit ==
    /\ authTime = 0 /\ rotations = 0 /\ judged = NoAnswer
    /\ published \in SUBSET JwtKeys
    /\ since = [k \in JwtKeys |-> 0] /\ withdrawn = [k \in JwtKeys |-> 0]
    /\ jwks = NewJWTValidator
    /\ verifying = [v \in Verifiers |-> IdleCall]
    /\ active \in SUBSET AccessTokens
    /\ changed = [t \in AccessTokens |-> 0]
    /\ introspected = [t \in AccessTokens |-> NoAnswer]
    /\ asking = [v \in Verifiers |-> IdleCall]

(***************************************************************************)
(* The checks of one token                                                 *)
(***************************************************************************)
isAllowedAlgorithm(alg) == Algorithms = {} \/ alg \in Algorithms

\* A claim of 0 is absent.  The first claim that fails names the error.
validateClaims(t, now) ==
    IF t.exp > 0 /\ t.exp < now THEN "expired"
    ELSE IF t.nbf > 0 /\ t.nbf > now THEN "not yet valid"
    ELSE IF Issuers # {} /\ t.iss \notin Issuers THEN "issuer"
    ELSE IF Audiences # {} /\ t.aud \cap Audiences = {} THEN "audience"
    ELSE "ok"

\* Every RSA signature is checked over SHA-256, whatever the algorithm says.
verifyRSASignature(t, key) ==
    key.kind = "RSA" /\ t.signer = key.material /\ t.digest = "SHA256"

\* The text itself, not a digest of it, is given to VerifyASN1.
verifyECSignature(t, key) ==
    key.kind = "EC" /\ t.signer = key.material /\ t.digest = "text"

verifySignature(t, key) ==
    \/ t.alg \in {"RS256", "RS384", "RS512"} /\ verifyRSASignature(t, key)
    \/ t.alg \in {"ES256", "ES384", "ES512"} /\ verifyECSignature(t, key)

\* The names are compared without case above, and with case here.
computeHMAC(alg) ==
    CASE alg = "HS384" -> "SHA384" [] alg = "HS512" -> "SHA512" [] OTHER -> "SHA256"

hmacVerdict(t) ==
    IF t.alg \notin {"HS256", "HS384", "HS512", "hs256", "hs384", "hs512"} THEN "algorithm"
    ELSE IF t.signer # Secret \/ t.digest # computeHMAC(t.alg) THEN "signature"
    ELSE "accepted"

keyVerdict(t, keys) == IF verifySignature(t, KeyOf(keys, t.kid)) THEN "accepted" ELSE "signature"

\* Validate up to the key: the verdict, or "key" if a published key is needed
precheck(t, now) ==
    IF t \in Malformed THEN "format"
    ELSE IF ~isAllowedAlgorithm(t.alg) \/ t.alg = "none" THEN "algorithm"
    ELSE IF validateClaims(t, now) # "ok" THEN validateClaims(t, now)
    ELSE IF t.kid # "" THEN IF HasJwksURL THEN "key" ELSE "no jwks url"
    ELSE IF Secret # NoSecret THEN hmacVerdict(t)
    ELSE "no signing key"

(***************************************************************************)
(* JWTValidator.Inspect and Validate; getKey looks in a cache that has not *)
(* expired, and asks the server for the keys on every miss.                *)
(***************************************************************************)
\* Mutant: the cache does not expire.
CacheHitForever(kid) == kid \in Kids(jwks.keys)

CacheHit(kid) == authTime < jwks.expiresAt /\ kid \in Kids(jwks.keys)

Validate(v, t) ==
    LET first == precheck(t, authTime) IN
    /\ verifying[v].pc = "idle"
    /\ \/ /\ first # "key" \/ CacheHit(t.kid)
          /\ judged' = Judge("jwt", Call(t),
                             IF first # "key" THEN first ELSE keyVerdict(t, jwks.keys))
          /\ UNCHANGED verifying
       \/ /\ first = "key" /\ ~CacheHit(t.kid)
          /\ verifying' = [verifying EXCEPT ![v] = Call(t)]
          /\ judged' = NoAnswer
    /\ UNCHANGED <<authTime, rotations, published, since, withdrawn, jwks, oauthVars>>

\* The server's answer, or an error of the connection, the status or the body
FetchJWKS(v) ==
    /\ verifying[v].pc = "fetch"
    /\ \/ /\ verifying' = [verifying EXCEPT ![v].pc = "install", ![v].answer = published]
          /\ judged' = NoAnswer
       \/ /\ verifying' = [verifying EXCEPT ![v] = IdleCall]
          /\ judged' = Judge("jwt", verifying[v], "no keys")
    /\ UNCHANGED <<authTime, rotations, published, since, withdrawn, jwks, oauthVars>>

\* Mutant: keys that are there are not replaced.
refreshJWKSOnce(v) ==
    /\ verifying[v].pc = "install"
    /\ jwks' = [keys |-> IF jwks.keys = {} THEN verifying[v].answer ELSE jwks.keys,
                expiresAt |-> authTime + JwksTTL]
    /\ verifying' = [verifying EXCEPT ![v].pc = "lookup", ![v].answer = NoAnswer]
    /\ judged' = NoAnswer
    /\ UNCHANGED <<authTime, rotations, published, since, withdrawn, oauthVars>>

\* refreshJWKS, under j.mu: the answer replaces all keys
refreshJWKS(v) ==
    /\ verifying[v].pc = "install"
    /\ jwks' = [keys |-> verifying[v].answer, expiresAt |-> authTime + JwksTTL]
    /\ verifying' = [verifying EXCEPT ![v].pc = "lookup", ![v].answer = NoAnswer]
    /\ judged' = NoAnswer
    /\ UNCHANGED <<authTime, rotations, published, since, withdrawn, oauthVars>>

\* getKey looks again, in what the cache holds by then
getKey(v) ==
    LET t == verifying[v].token IN
    /\ verifying[v].pc = "lookup"
    /\ verifying' = [verifying EXCEPT ![v] = IdleCall]
    /\ judged' = Judge("jwt", verifying[v],
           IF t.kid \in Kids(jwks.keys) THEN keyVerdict(t, jwks.keys) ELSE "unknown key")
    /\ UNCHANGED <<authTime, rotations, published, since, withdrawn, jwks, oauthVars>>

\* The key server publishes or withdraws a key.
Rotate(k) ==
    /\ rotations < MaxRotations
    /\ rotations' = rotations + 1 /\ judged' = NoAnswer
    /\ IF k \in published
       THEN /\ published' = published \ {k}
            /\ withdrawn' = [withdrawn EXCEPT ![k] = authTime]
            /\ since' = since
       ELSE /\ published' = published \cup {k}
            /\ since' = [since EXCEPT ![k] = authTime]
            /\ withdrawn' = withdrawn
    /\ UNCHANGED <<authTime, jwks, verifying, oauthVars>>

(***************************************************************************)
(* OAuthIntrospector.Inspect and Introspect                                *)
(***************************************************************************)
\* Mutant: an answer is kept forever.
getCachedForever(t) == introspected[t]

getCached(t) ==
    IF introspected[t] # NoAnswer /\ authTime <= introspected[t].expiresAt
    THEN introspected[t] ELSE NoAnswer

ActiveVerdict(isActive) == IF isActive THEN "accepted" ELSE "inactive"

Introspect(v, t) ==
    /\ asking[v].pc = "idle"
    /\ \/ /\ getCached(t) # NoAnswer
          /\ judged' = Judge("oauth", Call(t), ActiveVerdict(getCached(t).active))
          /\ UNCHANGED asking
       \/ /\ getCached(t) = NoAnswer
          /\ asking' = [asking EXCEPT ![v] = Call(t)]
          /\ judged' = NoAnswer
    /\ UNCHANGED <<authTime, rotations, jwtVars, active, changed, introspected>>

\* The server's answer, or an error of the connection, the status or the body
AnswerIntrospection(v) ==
    /\ asking[v].pc = "fetch"
    /\ \/ /\ asking' = [asking EXCEPT ![v].pc = "store", ![v].answer = asking[v].token \in active]
          /\ judged' = NoAnswer
       \/ /\ asking' = [asking EXCEPT ![v] = IdleCall]
          /\ judged' = Judge("oauth", asking[v], "introspection failed")
    /\ UNCHANGED <<authTime, rotations, jwtVars, active, changed, introspected>>

\* The "exp" of an answer: the expiry of an active token, if it has one; the
\* answer about an inactive token may name it or not.
NamedExpiry(t, isActive) == IF isActive THEN {TokenExpiry[t]} ELSE {0, TokenExpiry[t]}

\* An answer that names an expiry is kept until then, whatever it says of the
\* token; any other is kept for the TTL.
cacheToken(v) ==
    LET call == asking[v] t == call.token IN
    /\ call.pc = "store"
    /\ \E exp \in NamedExpiry(t, call.answer) :
           introspected' = [introspected EXCEPT ![t] =
               [active |-> call.answer,
                expiresAt |-> IF exp > 0 THEN exp ELSE authTime + IntrospectTTL]]
    /\ asking' = [asking EXCEPT ![v] = IdleCall]
    /\ judged' = Judge("oauth", call, ActiveVerdict(call.answer))
    /\ UNCHANGED <<authTime, rotations, jwtVars, active, changed>>

\* The OAuth server grants or revokes a token.
Revoke(t) ==
    /\ rotations < MaxRotations
    /\ rotations' = rotations + 1 /\ judged' = NoAnswer
    /\ active' = IF t \in active THEN active \ {t} ELSE active \cup {t}
    /\ changed' = [changed EXCEPT ![t] = authTime]
    /\ UNCHANGED <<authTime, jwtVars, introspected, asking>>

(***************************************************************************)
(* Time passes only as far as the clients' timeout lets a call take.       *)
(***************************************************************************)
AuthTick ==
    /\ authTime < MaxAuthTime
    /\ \A v \in Verifiers : \A call \in {verifying[v], asking[v]} :
           call.pc # "idle" => authTime < call.began + FetchTimeout
    /\ authTime' = authTime + 1 /\ judged' = NoAnswer
    /\ UNCHANGED <<rotations, jwtVars, oauthVars>>

JwtNext ==
    \/ \E v \in Verifiers : FetchJWKS(v) \/ refreshJWKS(v) \/ getKey(v)
    \/ \E v \in Verifiers, t \in JwtTokens : Validate(v, t)
    \/ \E k \in JwtKeys : Rotate(k)
    \/ AuthTick

OAuthNext ==
    \/ \E v \in Verifiers : AnswerIntrospection(v) \/ cacheToken(v)
    \/ \E v \in Verifiers, t \in AccessTokens : Introspect(v, t)
    \/ \E t \in AccessTokens : Revoke(t)
    \/ AuthTick

AuthSpec == AuthInit /\ [][JwtNext \/ OAuthNext]_authVars

-----------------------------------------------------------------------------
(***************************************************************************)
(* Properties                                                              *)
(***************************************************************************)
Says(by, verdict) == judged # NoAnswer /\ judged.by = by /\ judged.verdict = verdict

\* A token the JWT validator lets pass had claims in force, and was signed
\* with the shared secret or with a key the key server had not withdrawn
\* more than the cache's TTL and one fetch before.
AcceptedTokenIsCurrent ==
    Says("jwt", "accepted") =>
        LET t == judged.token IN
        /\ validateClaims(t, judged.began) = "ok" /\ t.alg # "none"
        /\ \/ t.kid = "" /\ t.signer = Secret
           \/ \E k \in JwtKeys :
                /\ k.kid = t.kid /\ k.material = t.signer
                /\ k \notin published => withdrawn[k] >= authTime - JwksTTL - FetchTimeout

\* A token is refused for an unknown key only if the key server had not
\* published that key throughout the time of two fetches: one of its own,
\* and a slower one of somebody else that installed an older answer over it.
UnknownKeyIsNew ==
    Says("jwt", "unknown key") =>
        \A k \in published : k.kid = judged.token.kid => since[k] >= authTime - 2 * FetchTimeout

\* What the introspector says of a token is what the OAuth server said of it
\* no longer ago than the TTL and a fetch; or the token has an expiry that has
\* not passed: until then an answer that named it stands, and a revocation, or
\* a reactivation, goes unnoticed.
IntrospectionIsCurrent ==
    \/ Says("oauth", "accepted") /\ judged.token \notin active
    \/ Says("oauth", "inactive") /\ judged.token \in active
    => \/ changed[judged.token] >= authTime - IntrospectTTL - FetchTimeout
       \/ authTime <= TokenExpiry[judged.token]

\* No cache of keys or answers makes a verdict older than its TTL and the fetches that
\* filled it.
TokensCurrent == AcceptedTokenIsCurrent /\ UnknownKeyIsNew /\ IntrospectionIsCurrent
=============================================================================
