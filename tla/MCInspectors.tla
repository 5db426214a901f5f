---------------------------- MODULE MCInspectors ----------------------------
(* The inspectors that keep state and the clients of remote services, each *)
(* checked by itself: one of them is chosen at the start.                  *)
EXTENDS CredentialProtection, DDoSProtection, WebSocketInspector, AdaptiveChallenge,
        BehavioralEngine, Auth, Reputation, MLClient, TLC

VARIABLE inspector

\* Counting inspectors
MCBackoffs == {[above |-> 0, wait |-> 0], [above |-> 3, wait |-> 1]}
MCRate == "global" :> 3 @@ "ip1" :> 2 @@ "ip2" :> 2 @@ "/a" :> 2 @@ "s" :> 1
MCFloodKeys == DOMAIN MCRate
Web(ip, s, post, len, expect, slow, bust) ==
    [ip |-> ip, path |-> "/a", session |-> s, post |-> post, length |-> len, expect |-> expect,
     slow |-> slow, busting |-> bust]
MCRequests == {Web("ip1", "s", TRUE, FALSE, FALSE, FALSE, FALSE),
               Web("ip1", "", TRUE, TRUE, FALSE, TRUE, FALSE),
               Web("ip2", "s", FALSE, FALSE, TRUE, FALSE, TRUE)}
Frame(o, n, i, d, l) == [opcode |-> o, size |-> n, injection |-> i, nesting |-> d, lie |-> l]
MCFrames == {Frame("text", 1, FALSE, 1, FALSE), Frame("close", 0, FALSE, 0, FALSE)}

\* Remote services
Jwt(a, k, s, d, e, n, i, u) == [alg |-> a, kid |-> k, signer |-> s, digest |-> d,
                                exp |-> e, nbf |-> n, iss |-> i, aud |-> u]
MCKeys == {[kid |-> "k1", kind |-> "RSA", material |-> "m1"],
           [kid |-> "k2", kind |-> "EC", material |-> "m2"]}
MCMalformed == {Jwt("HS256", "", "m0", "text", 0, 0, "iss", {"aud"})}
MCTokens == MCMalformed \cup
    {Jwt("RS256", "k1", "m1", "SHA256", 3, 0, "iss", {"aud"}),
     Jwt("ES256", "k2", "m2", "SHA256", 0, 1, "iss", {"aud"}),
     Jwt("hs384", "", "secret", "SHA256", 1, 0, "iss", {"aud"}),
     Jwt("none", "", "m1", "text", 0, 0, "iss", {"aud"})}
MCExpiry == [t \in {"a", "b"} |-> IF t = "a" THEN 0 ELSE 2]

countingVars == <<credVars, floodVars, wsVars, adaptVars, behVars>>
remoteVars == <<authVars, repVars, mlVars>>
inspectorVars == <<inspector, countingVars, remoteVars>>

InspectorsInit ==
    /\ inspector \in {"credential", "ddos", "websocket", "adaptive", "behavioral",
                      "jwt", "oauth", "reputation", "ml"}
    /\ CredInit /\ FloodInit /\ WsInit /\ AdaptInit /\ BehInit
    /\ AuthInit /\ RepInit /\ MLInit
    \* what the inspector does not use has one initial value
    /\ inspector # "jwt" => published = {}
    /\ inspector # "oauth" => active = {}

InspectorsNext ==
    \/ /\ \/ inspector = "credential" /\ CredNext /\ UNCHANGED <<floodVars, wsVars, adaptVars, behVars>>
          \/ inspector = "ddos" /\ FloodNext /\ UNCHANGED <<credVars, wsVars, adaptVars, behVars>>
          \/ inspector = "websocket" /\ WsNext /\ UNCHANGED <<credVars, floodVars, adaptVars, behVars>>
          \/ inspector = "adaptive" /\ AdaptNext /\ UNCHANGED <<credVars, floodVars, wsVars, behVars>>
          \/ inspector = "behavioral" /\ BehNext /\ UNCHANGED <<credVars, floodVars, wsVars, adaptVars>>
       /\ UNCHANGED <<inspector, remoteVars>>
    \/ /\ \/ inspector = "jwt" /\ JwtNext /\ UNCHANGED <<repVars, mlVars>>
          \/ inspector = "oauth" /\ OAuthNext /\ UNCHANGED <<repVars, mlVars>>
          \/ inspector = "reputation" /\ RepNext /\ UNCHANGED <<authVars, mlVars>>
          \/ inspector = "ml" /\ MLNext /\ UNCHANGED <<authVars, repVars>>
       /\ UNCHANGED <<inspector, countingVars>>

InspectorsSpec == InspectorsInit /\ [][InspectorsNext]_inspectorVars
Interchangeable == Permutations(Verifiers)
=============================================================================
