SPECIFICATION Spec
CONSTANTS
    Nil = Nil
    Empty = Empty
    p1 = p1
    p2 = p2
    p3 = p3
    c1 = c1
    c2 = c2
    d1 = d1
    d2 = d2
    t1 = t1
    t2 = t2
    Deployments <- MCDeployments
    Client = {c1}
    Password = {p1, p2}
    Domain = {d1, d2}
    Timer = {t1, t2}
    MaxStarts = 3
    MaxCert = 2
    MaxMinute = 2
INVARIANTS  LoginHonoured CertMatchesKey ChallengeAnswered OneReport
CHECK_DEADLOCK FALSE
