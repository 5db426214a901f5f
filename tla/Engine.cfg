\* Two concurrent requests, in and out of shadow mode, with every kind of
\* answer, while inspectors are being replaced.
SPECIFICATION FairSpec
CONSTANTS
    sqli1 = sqli1  sqli2 = sqli2  xss1 = xss1  ddos1 = ddos1  ddos2 = ddos2
    Nil = Nil
    Requests = {r1, r2}
    Inspectors = {sqli1, sqli2, xss1, ddos1, ddos2}
    NameOf <- MCNameOf
    InitialPipeline <- ShortPipeline
    UpdateNames <- SqliAndDDoS
    Replacements <- BothReplacements
    Answers <- MCAnswers
    BlockScore = 9
    ChallengeScore = 5
    PerformanceIsolation = FALSE
    ShadowModes = {TRUE, FALSE}
INVARIANTS OutcomeMatchesReference PipelineConsistent
PROPERTY NobodyStarves
