------------------------------ MODULE MCDocuments ------------------------------
(***************************************************************************)
(* Two machines that share nothing, in one state graph: an operator at work *)
(* on a document (the clock stands at 0), or the renewals of a certificate *)
(* over time (the document stays empty).                                   *)
(***************************************************************************)
EXTENDS Documents, Renewal

vars == <<documentVars, renewalVars>>

org == <<"example", "org">>
host == <<"www">> \o org

LowerCase == [w \in {"www", "WWW", "deep", "example", "org", "*", "owa", "OWA", "auth",
                     "ews", "mapi", "activesync", "x", "%2e"} |->
                 CASE w = "WWW" -> "www" [] w = "OWA" -> "owa" [] OTHER -> w]

Once == [w \in {"www", "owa", "OWA", "auth", "x", "ews", "", ".", "..", "%2e%2e", "%252e",
                "owa%2fauth"} |->
            CASE w = "%2e%2e" -> <<"..">> [] w = "%252e" -> <<"%2e">>
              [] w = "owa%2fauth" -> <<"owa", "auth">> [] OTHER -> <<w>>]

Member == [id |-> <<"m">>, port |-> 8080]
Asked(name, address) ==
    [name |-> name, address |-> address, node |-> <<"n1">>, members |-> <<Member>>,
     domain |-> None, port |-> None]
Call(template, arguments) == [template |-> template, arguments |-> arguments]

Applications ==
    {Call("website", [Asked(<<"a">>, 1) EXCEPT !.domain = host]),
     Call("website", [Asked(<<"a", "owa">>, 2) EXCEPT !.domain = <<"*">> \o org]),
     Call("exchange", [Asked(<<"a">>, 1) EXCEPT !.domain = host]),
     Call("exchange", Asked(<<"a">>, 1)),
     Call("dns", Asked(<<"b">>, 2)),
     Call("smtp_relay", [Asked(<<"b">>, 2) EXCEPT !.members = << >>]),
     Call("smtp_relay", [Asked(<<"c">>, 2) EXCEPT !.node = <<"n2">>]),
     Call("generic_tcp", [Asked(<<"c">>, 1) EXCEPT !.port = 443])}

TwoNodes == {[id |-> <<"n1">>, control |-> TRUE], [id |-> <<"n2">>, control |-> TRUE]}

At(hosts, parts, slash, sense) ==
    [host |-> hosts, prefix |-> IF parts = None THEN None ELSE [parts |-> parts, slash |-> slash],
     case |-> sense]
Written ==
    {At(None, <<"owa">>, FALSE, "insensitive"), At(None, <<"OWA">>, FALSE, "sensitive"),
     At(host, <<"owa", "auth">>, FALSE, "insensitive"),
     At(<<"*">> \o org, None, FALSE, "insensitive"),
     At(<<"deep">> \o host, None, FALSE, "insensitive"),
     At(<<"WWW">> \o org, <<"owa">>, FALSE, "insensitive")}
SniWritten == {<<"*">> \o org, host}

AskedFor == {host, <<"WWW">> \o org, <<"deep">> \o host, org}
Requested ==
    {<<"">>, <<"owa">>, <<"owa", "">>, <<"OWA">>, <<"owa", "auth">>, <<"owa%2fauth">>,
     <<"ews", "..", "owa">>, <<"..", "owa", "x">>, <<"owa", "%252e">>, <<"x">>}

\* Outages around the last third and the last day of a certificate.
Hours == {<<from, to>> : from \in {50, 64, 180}, to \in (60 .. 80) \cup (230 .. 250)}

Init == \/ DocumentInit /\ now = 0 /\ lifetime = 0 /\ outage = <<0, 0>> /\ until = 1
            /\ attempts = NoAttempts
        \/ RenewalInit /\ document = Empty /\ receipts = {} /\ steps = MaxSteps

Next == \/ lifetime = 0 /\ DocumentNext /\ UNCHANGED renewalVars
        \/ lifetime # 0 /\ RenewalNext /\ UNCHANGED documentVars

Spec == Init /\ [][Next]_vars
=============================================================================
