---------------------------- MODULE MCWebServer ----------------------------
(***************************************************************************)
(* Seven deployments of the web server, each for a part that makes it      *)
(* interesting: a password in a file, a password of the environment,       *)
(* certificates of Let's Encrypt by either challenge, HTTPS switched on    *)
(* without files, and the usage report.                                    *)
(***************************************************************************)
EXTENDS WebServer, TLC

CONSTANTS p1, p2, p3, c1, c2, d1, d2, t1, t2

Deployment(tls, secret, given, usage) ==
    [tls |-> tls, secret |-> secret, password |-> given, reports |-> usage]

MCDeployments ==
    {Deployment("off", FALSE, Nil, FALSE), Deployment("off", TRUE, p1, FALSE),
     Deployment("http", TRUE, p1, FALSE), Deployment("dns", FALSE, p1, FALSE),
     Deployment("unset", FALSE, p1, FALSE), Deployment("files", FALSE, p1, FALSE),
     Deployment("off", FALSE, p1, TRUE)}
=============================================================================
