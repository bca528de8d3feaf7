------------------------------ MODULE MCRequests ------------------------------
(* An instance of Requests for TLC: a domain, the name of one of its ports,  *)
(* an address, and starts with either password, each method and each flag.  *)
EXTENDS Requests

Apex == <<"domain", "tld">>
Port == <<"code-8080", "domain", "tld">>
Address == <<"127.0.0.1">>

MCHosts == {Apex, Port, Address}
MCAddresses == {Address}
MCDomains == <<Apex, <<"code-{{port}}", "{{host}}">>>>
MCPortLabel == [t \in {"{{port}}", "code-{{port}}"} |->
                   IF t = "{{port}}" THEN {"8080"} ELSE {"code-8080"}]
MCTrusted == {<<"*", "domain", "tld">>}

Start(method, password) ==
    [auth |-> "password", method |-> method, password |-> password,
     disableProxy |-> FALSE, skipAuthPreflight |-> FALSE, cert |-> FALSE]
Plain == Start("PLAIN_TEXT", "p1")
MCArgs ==
    {Plain, Start("PLAIN_TEXT", "p2"), Start("ARGON2", "p1"), Start("SHA256", "p1"),
     [Plain EXCEPT !.auth = "none"], [Plain EXCEPT !.disableProxy = TRUE],
     [Plain EXCEPT !.skipAuthPreflight = TRUE], [Plain EXCEPT !.cert = TRUE]}
=============================================================================
