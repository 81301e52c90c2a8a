-------------------------------- MODULE Template --------------------------------
(***************************************************************************)
(* The templates that ship with the product: what each one adds to a       *)
(* document, taking it away again, and saving a frontend as a template of  *)
(* one's own (ek-ek-config/src/template.rs).                               *)
(*                                                                         *)
(* The arguments of a template are a record: name, address, node, members, *)
(* and domain or port where the template asks for them, None where the     *)
(* operator left one out.  A name is a sequence of words, and "pool-{name}- *)
(* owa" is <<"pool">> \o name \o <<"owa">>.                                  *)
(***************************************************************************)
EXTENDS Document

Parameters ==
    [website     |-> {"name", "address", "node", "members", "domain"},
     dns         |-> {"name", "address", "node", "members"},
     exchange    |-> {"name", "address", "node", "members", "domain"},
     smtp_relay  |-> {"name", "address", "node", "members"},
     generic_tcp |-> {"name", "address", "node", "members", "port"}]

\* Missing or unknown.  The kinds of values are the model's types.
CheckArguments(template, arguments) ==
    {Error("TemplateParameterMissing", <<p>>) :
        p \in {q \in Parameters[template] : arguments[q] = None}}
    \cup {Error("TemplateParameterUnknown", <<p>>) :
             p \in {q \in DOMAIN arguments \ Parameters[template] : arguments[q] # None}}

\* Objects ------------------------------------------------------------------------

\* Only the intervals of a check are told apart here.
Check(interval, timeout) == [interval |-> interval, timeout |-> timeout]

Backend(id, members, check) ==
    [id |-> id, members |-> members, check |-> check, cookie |-> None]

MembersOn(members, suffix, port) ==
    [i \in DOMAIN members |-> [id |-> members[i].id \o <<suffix>>, port |-> port]]

Frontend(id, vip, port, transport, application) ==
    [id |-> id, vip |-> vip, port |-> port, transport |-> transport,
     application |-> application, tls |-> None, rules |-> << >>, sni |-> << >>,
     pool |-> None, sample |-> 1]

RawFrontend(id, vip, port, transport, pool) ==
    [Frontend(id, vip, port, transport, "raw") EXCEPT !.pool = pool]

Rule(prefix, action) ==
    [host |-> None, prefix |-> prefix, case |-> "insensitive", action |-> action]

Proxy(backend) == [kind |-> "proxy", backend |-> backend]
Redirect == [kind |-> "redirect"]

Below(part) == [parts |-> <<part>>, slash |-> FALSE]

\* What each template adds, beside its VIP ------------------------------------------

Nothing == [frontends |-> << >>, backends |-> << >>, certificates |-> << >>]

Website(a, vip) ==
    LET certificate == <<"cert">> \o a.name
        pool == <<"pool">> \o a.name
        https == Frontend(a.name \o <<"https">>, vip, 443, "tcp", "http")
        http == Frontend(a.name \o <<"http">>, vip, 80, "tcp", "http")
    IN  [certificates |-> <<[id |-> certificate, names |-> <<a.domain>>, source |-> "http-01",
                             provider |-> None, until |-> None]>>,
         backends |-> <<Backend(pool, a.members, Check(5, 3))>>,
         frontends |->
            <<[https EXCEPT !.tls = [certificates |-> <<certificate>>, default |-> None,
                                     policy |-> "balanced"],
                            !.pool = pool],
              [http EXCEPT !.rules = <<Rule(None, Redirect)>>]>>]

Dns(a, vip) ==
    LET pool == <<"pool">> \o a.name
    IN  [Nothing EXCEPT
            !.backends = <<Backend(pool, MembersOn(a.members, "dns", 53), Check(5, 2))>>,
            !.frontends = <<RawFrontend(a.name \o <<"udp">>, vip, 53, "udp", pool),
                            RawFrontend(a.name \o <<"tcp">>, vip, 53, "tcp", pool)>>]

Exchange(a, vip) ==
    LET pool(service) == <<"pool">> \o a.name \o <<service>>
        web(service) == Backend(pool(service), MembersOn(a.members, service, 443), Check(5, 3))
        mail(service, port) == Backend(pool(service), MembersOn(a.members, service, port),
                                       Check(10, 5))
        https == Frontend(a.name \o <<"https">>, vip, 443, "tcp", "http")
    IN  [Nothing EXCEPT
            !.backends = <<web("owa"), web("activesync"), web("ews"), web("mapi"),
                           mail("smtp", 25), mail("imap", 143)>>,
            !.frontends =
                <<[https EXCEPT
                      !.tls = [certificates |-> << >>, default |-> None, policy |-> "balanced"],
                      !.rules = <<Rule(Below("activesync"), Proxy(pool("activesync"))),
                                  Rule(Below("mapi"), Proxy(pool("mapi"))),
                                  Rule(Below("ews"), Proxy(pool("ews"))),
                                  Rule(Below("owa"), Proxy(pool("owa")))>>,
                      !.pool = pool("owa")],
                  RawFrontend(a.name \o <<"smtp">>, vip, 25, "tcp", pool("smtp")),
                  RawFrontend(a.name \o <<"imap">>, vip, 143, "tcp", pool("imap"))>>]

SmtpRelay(a, vip) ==
    LET pool == <<"pool">> \o a.name
    IN  [Nothing EXCEPT
            !.backends = <<Backend(pool, MembersOn(a.members, "smtp", 25), Check(10, 5))>>,
            !.frontends = <<RawFrontend(a.name \o <<"smtp">>, vip, 25, "tcp", pool)>>]

GenericTcp(a, vip) ==
    LET pool == <<"pool">> \o a.name
    IN  [Nothing EXCEPT
            !.backends = <<Backend(pool, a.members, Check(5, 2))>>,
            !.frontends = <<RawFrontend(a.name \o <<"tcp">>, vip, a.port, "tcp", pool)>>]

Adds(template, a, vip) ==
    CASE template = "website"     -> Website(a, vip)
      [] template = "dns"         -> Dns(a, vip)
      [] template = "exchange"    -> Exchange(a, vip)
      [] template = "smtp_relay"  -> SmtpRelay(a, vip)
      [] template = "generic_tcp" -> GenericTcp(a, vip)

\* Applying and undoing --------------------------------------------------------------

Build(template, c, a) ==
    LET vip == <<"vip">> \o a.name
        added == Adds(template, a, vip)
    IN  [c EXCEPT !.vips = Append(@, [id |-> vip, address |-> a.address, preferred |-> a.node]),
                  !.frontends = @ \o added.frontends,
                  !.backends = @ \o added.backends,
                  !.certificates = @ \o added.certificates]

\* Mutant: what the website template says it created leaves its certificate out.
CreatedWithoutCertificate(template, a) ==
    LET vip == <<"vip">> \o a.name
        added == Adds(template, a, vip)
    IN  {<<"vip", vip>>} \cup {<<"frontend", id>> : id \in Ids(added.frontends)}
            \cup {<<"backend", id>> : id \in Ids(added.backends)}

Created(template, a) ==
    LET vip == <<"vip">> \o a.name
        added == Adds(template, a, vip)
    IN  {<<"vip", vip>>} \cup {<<"frontend", id>> : id \in Ids(added.frontends)}
            \cup {<<"backend", id>> : id \in Ids(added.backends)}
            \cup {<<"certificate", id>> : id \in Ids(added.certificates)}

\* apply: the errors of the arguments alone, or of the document it makes.
ApplyErrors(template, c, a) ==
    IF CheckArguments(template, a) # {} THEN CheckArguments(template, a)
    ELSE Validate(Build(template, c, a))

Undo(c, created) ==
    LET retain(kind, objects) ==
            SelectSeq(objects, LAMBDA object : <<kind, object.id>> \notin created)
    IN  [c EXCEPT !.vips = retain("vip", @), !.frontends = retain("frontend", @),
                  !.backends = retain("backend", @),
                  !.certificates = retain("certificate", @)]

\* from_frontend: the list of certificates is emptied, the pools it reaches go
\* along with their members.
FromFrontend(c, id) ==
    LET found == Find(c.frontends, id)
        stripped == IF found.tls = None THEN found
                    ELSE [found EXCEPT !.tls.certificates = << >>]
    IN  [frontend |-> stripped,
         backends |-> SelectSeq(c.backends, LAMBDA b : Reaches(stripped, b.id))]
=============================================================================
