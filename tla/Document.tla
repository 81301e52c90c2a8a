-------------------------------- MODULE Document --------------------------------
(***************************************************************************)
(* The configuration document and the rules it is checked against          *)
(* (ek-ek-config/src/validation.rs), the listeners a data plane opens for   *)
(* it (ek-ek-dataplane/src/server.rs, udpproxy.rs) and the comparison of    *)
(* two documents (ek-ek-store/src/diff.rs).                                *)
(*                                                                         *)
(* A document is a record of sequences, as in the JSON.  An identity or a  *)
(* name is a sequence of words: identities are put together from the name  *)
(* an operator gave, and two of them may come out the same.  Settings      *)
(* nothing here depends on (timeouts of requests, algorithms, logging) are *)
(* left out; an error is its code and the place it is reported at.         *)
(***************************************************************************)
EXTENDS Integers, Sequences, FiniteSets

CONSTANTS
    None,
    Fold,           \* the lower case of each word
    VRIDS           \* how many virtual router ids a segment has

ASSUME DocumentAssumption == VRIDS \in Nat \ {0}

ShortestKey == 32
HTTP01_PORT == 80

\* Reading a document ------------------------------------------------------------

Ids(objects) == {objects[i].id : i \in DOMAIN objects}

\* iter().find(): the first object of that identity.
Find(objects, id) ==
    objects[CHOOSE i \in DOMAIN objects :
                /\ objects[i].id = id
                /\ \A j \in 1 .. (i - 1) : objects[j].id # id]

Error(code, at) == [code |-> code, at |-> at]

Proxies(rule) == rule.action.kind = "proxy"

\* Every pool a frontend names.
Named(f) == {f.pool} \cup {f.sni[i].backend : i \in DOMAIN f.sni}
                     \cup {f.rules[i].action.backend : i \in {j \in DOMAIN f.rules : Proxies(f.rules[j])}}

Reaches(f, backend) == backend \in Named(f) \ {None}

Lower(name) == [i \in DOMAIN name |-> Fold[name[i]]]

\* "*." in front; a star anywhere else is a letter.
IsWildcard(name) == Len(name) > 1 /\ name[1] = "*"

\* Errors ------------------------------------------------------------------------

Repeated(kind, objects) ==
    {Error("DuplicateId", <<kind, i>>) :
        i \in {j \in DOMAIN objects : \E k \in 1 .. (j - 1) : objects[k].id = objects[j].id}}

CheckDuplicateIds(c) ==
    Repeated("node", c.nodes) \cup Repeated("vip", c.vips)
        \cup Repeated("frontend", c.frontends) \cup Repeated("backend", c.backends)
        \cup Repeated("certificate", c.certificates) \cup Repeated("provider", c.providers)
        \cup UNION {Repeated(<<"member", i>>, c.backends[i].members) : i \in DOMAIN c.backends}

\* The first frontend to name a VIP, a port and a transport has them.
Binding(f) == <<f.vip, f.port, f.transport>>
CheckFrontendBindings(c) ==
    {Error("FrontendDuplicateBinding", <<"frontends", i>>) :
        i \in {j \in DOMAIN c.frontends :
                  \E k \in 1 .. (j - 1) : Binding(c.frontends[k]) = Binding(c.frontends[j])}}

\* Mutant: the pools of routing rules are not looked up.
UnknownPoolOfFrontend(c, f) == f.pool # None /\ f.pool \notin Ids(c.backends)

UnknownPool(c, f) == \E b \in Named(f) \ {None} : b \notin Ids(c.backends)

\* One error for each reference in the code; here one for each frontend and kind
\* of reference, which is empty exactly when the code reports none.
CheckFrontendReferences(c) ==
    UNION {LET f == c.frontends[i]
               here(code, bad) == IF bad THEN {Error(code, <<"frontends", i>>)} ELSE {}
           IN  here("FrontendUnknownVip", f.vip \notin Ids(c.vips))
                 \cup here("PortOutOfRange", f.port = 0)
                 \cup here("FrontendUnknownBackend", UnknownPool(c, f))
                 \cup here("FrontendUnknownCertificate",
                           /\ f.tls # None
                           /\ \E k \in DOMAIN f.tls.certificates :
                                  f.tls.certificates[k] \notin Ids(c.certificates))
                 \cup here("FrontendUnknownDefaultCertificate",
                           /\ f.tls # None /\ f.tls.default # None
                           /\ \A k \in DOMAIN f.tls.certificates :
                                  f.tls.certificates[k] # f.tls.default)
           : i \in DOMAIN c.frontends}

CheckTlsPlacement(c) ==
    UNION {LET f == c.frontends[i]
               here(code, bad) == IF bad THEN {Error(code, <<"frontends", i>>)} ELSE {}
           IN  here("FrontendTlsOnPassthrough", f.application = "passthrough" /\ f.tls # None)
                 \cup here("FrontendTlsWithoutHttp", f.application = "raw" /\ f.tls # None)
                 \cup here("FrontendSniRulesWithoutPassthrough",
                           f.application # "passthrough" /\ f.sni # << >>)
           : i \in DOMAIN c.frontends}

CheckRedirects(c) ==
    UNION {LET f == c.frontends[i]
           IN  {Error("FrontendRedirectWithoutHttp", <<"frontends", i, k>>) :
                    k \in {j \in DOMAIN f.rules : ~Proxies(f.rules[j])}}
           : i \in {j \in DOMAIN c.frontends : ~(/\ c.frontends[j].application = "http"
                                                 /\ c.frontends[j].transport = "tcp")}}

CheckVips(c) ==
    (IF Len(c.vips) > VRIDS THEN {Error("VipTooMany", <<"vips">>)} ELSE {})
        \cup {Error("VipUnknownPreferredNode", <<"vips", i>>) :
                 i \in {j \in DOMAIN c.vips : /\ c.vips[j].preferred # None
                                              /\ c.vips[j].preferred \notin Ids(c.nodes)}}

CheckCertificates(c) ==
    {Error("CertificateUnknownDnsProvider", <<"certificates", i>>) :
        i \in {j \in DOMAIN c.certificates :
                  /\ c.certificates[j].source = "dns-01"
                  /\ c.certificates[j].provider \notin Ids(c.providers)}}

CheckDnsProviders(c) ==
    {Error("DnsProviderPropagationTimeoutZero", <<"providers", i>>) :
        i \in {j \in DOMAIN c.providers : c.providers[j].timeout = 0}}
    \cup {Error("DnsProviderApiBaseInvalid", <<"providers", i>>) :
             i \in {j \in DOMAIN c.providers : c.providers[j].base = "http"}}

CheckBackends(c) ==
    UNION {LET b == c.backends[i]
               here(code, bad) == IF bad THEN {Error(code, <<"backends", i>>)} ELSE {}
           IN  here("BackendNoMembers", b.members = << >>)
                 \cup here("PortOutOfRange", \E k \in DOMAIN b.members : b.members[k].port = 0)
                 \cup here("HealthCheckTimeoutAboveInterval",
                           b.check # None /\ b.check.timeout > b.check.interval)
           : i \in DOMAIN c.backends}

\* A pool's cookie is the name it is set under, or None.
Sticky(c) == {i \in DOMAIN c.backends : c.backends[i].cookie # None}

CheckStickinessAgainstTransport(c) ==
    {Error("BackendCookieStickinessOnUdp", <<"backends", i>>) :
        i \in {j \in Sticky(c) :
                  \E k \in DOMAIN c.frontends : /\ c.frontends[k].transport = "udp"
                                                /\ Reaches(c.frontends[k], c.backends[j].id)}}

\* The key is the number of bytes its hex names, or None where it is not hex.
CheckStickinessKey(c) ==
    IF Sticky(c) # {} /\ (c.key = None \/ c.key < ShortestKey)
    THEN {Error("StickinessKeyMissing", <<"stickiness_key">>)} ELSE {}

CheckStickinessCookieName(c) ==
    {Error("BackendStickinessCookieNameInvalid", <<"backends", i>>) :
        i \in {j \in Sticky(c) : c.backends[j].cookie # "token"}}

\* sample is None where the access log is off.
CheckAccessLog(c) ==
    {Error("FrontendAccessLogSampleZero", <<"frontends", i>>) :
        i \in {j \in DOMAIN c.frontends : c.frontends[j].sample = 0}}

Validate(c) ==
    CheckDuplicateIds(c) \cup CheckFrontendBindings(c) \cup CheckFrontendReferences(c)
        \cup CheckTlsPlacement(c) \cup CheckRedirects(c) \cup CheckVips(c)
        \cup CheckCertificates(c) \cup CheckDnsProviders(c) \cup CheckBackends(c)
        \cup CheckStickinessAgainstTransport(c) \cup CheckStickinessKey(c)
        \cup CheckStickinessCookieName(c) \cup CheckAccessLog(c)

\* Removals ----------------------------------------------------------------------

Offers(f, certificate) ==
    /\ f.tls # None
    /\ \/ \E i \in DOMAIN f.tls.certificates : f.tls.certificates[i] = certificate
       \/ f.tls.default = certificate

\* The frontends that would be left dangling.
ValidateVipRemoval(c, vip) ==
    {c.frontends[i].id : i \in {j \in DOMAIN c.frontends : c.frontends[j].vip = vip}}

ValidateCertificateRemoval(c, certificate) ==
    {c.frontends[i].id : i \in {j \in DOMAIN c.frontends : Offers(c.frontends[j], certificate)}}

\* Warnings ----------------------------------------------------------------------

\* The plaintext listeners an authority can find an answer on.
Http01Listeners(c) ==
    {i \in DOMAIN c.frontends : /\ c.frontends[i].port = HTTP01_PORT
                                /\ c.frontends[i].application = "http"
                                /\ c.frontends[i].transport = "tcp"
                                /\ c.frontends[i].tls = None}

\* Everything that stops an order, of one certificate (only) or of any (None).
AcmeFaults(c, only) ==
    LET ordered == {i \in DOMAIN c.certificates :
                        /\ only = None \/ c.certificates[i].id = only
                        /\ c.certificates[i].source \in {"http-01", "dns-01"}}
        http01 == {i \in ordered : c.certificates[i].source = "http-01"}
        each(code, S) == {Error(code, <<"certificates", i>>) : i \in S}
    IN  IF ordered = {} THEN {}
        ELSE IF c.acme = None THEN each("AcmeMissing", ordered)
        ELSE (IF c.acme.https THEN {} ELSE {Error("AcmeDirectoryUrlInvalid", <<"acme">>)})
             \cup (IF c.acme.accepted THEN {} ELSE {Error("AcmeTermsNotAccepted", <<"acme">>)})
             \cup each("AcmeNoHttp01Listener", IF Http01Listeners(c) = {} THEN http01 ELSE {})
             \cup each("AcmeWildcardNeedsDns01",
                       {i \in http01 : \E k \in DOMAIN c.certificates[i].names :
                                           IsWildcard(c.certificates[i].names[k])})

\* What a data plane opens ----------------------------------------------------------

Over(c, transport) == {i \in DOMAIN c.frontends : c.frontends[i].transport = transport}

\* bindings: fails as a whole when a frontend names a missing VIP.
BindingsFail(c) == \E i \in Over(c, "tcp") : c.frontends[i].vip \notin Ids(c.vips)

Address(c, f) == <<Find(c.vips, f.vip).address, f.port>>

Bindings(c) == {[frontend |-> i, address |-> Address(c, c.frontends[i])] : i \in Over(c, "tcp")}

\* udp_bindings: leaves such a frontend out.
UdpBindings(c) ==
    {[frontend |-> i, address |-> Address(c, c.frontends[i])] :
        i \in {j \in Over(c, "udp") : c.frontends[j].vip \in Ids(c.vips)}}

\* Comparing two documents ----------------------------------------------------------

\* index: of two objects of one identity the last one counts.
Indexed(objects) ==
    [id \in Ids(objects) |->
        objects[CHOOSE i \in DOMAIN objects :
                    /\ objects[i].id = id
                    /\ \A j \in DOMAIN objects : j > i => objects[j].id # id]]

Compare(kind, before, after) ==
    {<<kind, id, "removed">> : id \in Ids(before) \ Ids(after)}
        \cup {<<kind, id, "modified">> : id \in {x \in Ids(before) \cap Ids(after) :
                                                Indexed(before)[x] # Indexed(after)[x]}}
        \cup {<<kind, id, "added">> : id \in Ids(after) \ Ids(before)}

Diff(before, after) ==
    Compare("node", before.nodes, after.nodes)
        \cup Compare("vip", before.vips, after.vips)
        \cup Compare("frontend", before.frontends, after.frontends)
        \cup Compare("backend", before.backends, after.backends)
        \cup Compare("certificate", before.certificates, after.certificates)
        \cup Compare("provider", before.providers, after.providers)
=============================================================================
