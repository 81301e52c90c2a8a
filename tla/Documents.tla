------------------------------- MODULE Documents -------------------------------
(***************************************************************************)
(* An operator at work on the document: templates are applied and undone,  *)
(* addresses and certificates are removed, frontends are edited, nodes come *)
(* and go.  What is proposed is stored when it passes Validate (read_config *)
(* in ek-ek/src/report.rs); a removal is checked on its own.  The properties *)
(* ask what the data planes and the node agents make of a stored document.  *)
(***************************************************************************)
EXTENDS Template, Routing, Matrix

CONSTANTS
    Calls,          \* templates an operator applies: [template, arguments]
    Spares,         \* nodes that may join
    Patterns,       \* hosts, prefixes and cases of rules an operator writes
    SniPatterns,
    Hosts, Paths,   \* of the requests asked about
    MaxSteps        \* bound: changes to the document

VARIABLES
    document,
    receipts,       \* what applied templates said they created
    steps

documentVars == <<document, receipts, steps>>

Stored(c) ==
    /\ Validate(c) = {}
    /\ document' = c

ApplyTemplate(call) ==
    /\ ApplyErrors(call.template, document, call.arguments) = {}
    /\ document' = Build(call.template, document, call.arguments)
    /\ receipts' = receipts \cup {Created(call.template, call.arguments)}

UndoTemplate(created) ==
    /\ Stored(Undo(document, created))
    /\ receipts' = receipts \ {created}

RemoveVip(i) ==
    /\ ValidateVipRemoval(document, document.vips[i].id) = {}
    /\ document' = [document EXCEPT !.vips = RemoveAt(@, i)]
    /\ UNCHANGED receipts

RemoveCertificate(i) ==
    /\ ValidateCertificateRemoval(document, document.certificates[i].id) = {}
    /\ document' = [document EXCEPT !.certificates = RemoveAt(@, i)]
    /\ UNCHANGED receipts

RemoveFrontend(i) ==
    /\ Stored([document EXCEPT !.frontends = RemoveAt(@, i)])
    /\ UNCHANGED receipts

RemoveBackend(i) ==
    /\ Stored([document EXCEPT !.backends = RemoveAt(@, i)])
    /\ UNCHANGED receipts

\* The pools an operator names (bound: the first and the last one there is), and
\* a slip of the pen.
Pools == {document.backends[i].id : i \in {1, Len(document.backends)} \cap DOMAIN document.backends}
            \cup {<<"typo">>}

EditPool(i) ==
    /\ \E b \in Pools \cup {None} : Stored([document EXCEPT !.frontends[i].pool = b])
    /\ UNCHANGED receipts

EditRules(i) ==
    /\ \E p \in Patterns, action \in {Redirect} \cup {Proxy(b) : b \in Pools} :
           Stored([document EXCEPT !.frontends[i].rules =
                      Append(@, [host |-> p.host, prefix |-> p.prefix, case |-> p.case,
                                 action |-> action])])
    /\ UNCHANGED receipts

EditSni(i) ==
    /\ \E p \in SniPatterns, b \in Pools :
           Stored([document EXCEPT !.frontends[i].application = "passthrough",
                                   !.frontends[i].tls = None,
                                   !.frontends[i].sni = Append(@, [pattern |-> p, backend |-> b])])
    /\ UNCHANGED receipts

\* Offer one more certificate, and perhaps fall back to it.
EditTls(i) ==
    /\ document.frontends[i].tls # None
    /\ \E id \in Ids(document.certificates) \cup {<<"typo">>}, default \in BOOLEAN :
           Stored([document EXCEPT
                      !.frontends[i].tls.certificates = Append(@, id),
                      !.frontends[i].tls.default = IF default THEN id ELSE @])
    /\ UNCHANGED receipts

\* The account's settings: the directory over HTTPS or not, the terms accepted or not.
EditAcme ==
    /\ \E acme \in [https : BOOLEAN, accepted : BOOLEAN] :
           Stored([document EXCEPT !.acme = acme])
    /\ UNCHANGED receipts

AddNode(n) ==
    /\ Stored([document EXCEPT !.nodes = Append(@, n)])
    /\ UNCHANGED receipts

RemoveNode(i) ==
    /\ Stored([document EXCEPT !.nodes = RemoveAt(@, i)])
    /\ UNCHANGED receipts

Empty == [nodes |-> << >>, vips |-> << >>, frontends |-> << >>, backends |-> << >>,
          certificates |-> << >>, providers |-> << >>, acme |-> None, key |-> None]

DocumentInit ==
    /\ document \in {[Empty EXCEPT !.nodes = <<n>>] : n \in Spares}
    /\ receipts = {} /\ steps = 0

DocumentNext ==
    /\ steps < MaxSteps /\ steps' = steps + 1
    /\ \/ \E call \in Calls : ApplyTemplate(call)
       \/ \E created \in receipts : UndoTemplate(created)
       \/ \E i \in DOMAIN document.vips : RemoveVip(i)
       \/ \E i \in DOMAIN document.certificates : RemoveCertificate(i)
       \/ \E i \in DOMAIN document.backends : RemoveBackend(i)
       \/ \E i \in DOMAIN document.frontends :
              \/ RemoveFrontend(i) \/ EditPool(i) \/ EditRules(i)
              \/ EditSni(i) \/ EditTls(i)
       \/ EditAcme
       \/ \E n \in Spares : AddNode(n)
       \/ \E i \in DOMAIN document.nodes : RemoveNode(i)

\* Properties -------------------------------------------------------------------

Frontends == {document.frontends[i] : i \in DOMAIN document.frontends}

Serves(b) == b \in Ids(document.backends) /\ Find(document.backends, b).members # << >>

\* A certificate an operator was warned about is exactly the one an order refuses,
\* and none is refused for another's sake (ek-ek/src/acme.rs:258-260).
WarnedIsRefused ==
    /\ AcmeFaults(document, None)
           = UNION {AcmeFaults(document, id) : id \in Ids(document.certificates)}
    /\ \A i \in DOMAIN document.certificates :
           \A fault \in AcmeFaults(document, document.certificates[i].id) :
               fault.at \in {<<"acme">>, <<"certificates", i>>}

\* Whatever the operator did in whatever order, removals included, the stored
\* document passes validation, and a data plane finds every listener's address
\* and, for every request and every handshake, a pool with members behind each
\* decision (bindings, udp_bindings, decide, StreamProxy::route); and a warning
\* about a certificate is what its order is refused for.
ServesWhatItSays ==
    /\ Validate(document) = {}
    /\ ~BindingsFail(document)
    /\ {b.frontend : b \in UdpBindings(document)} = Over(document, "udp")
    /\ WarnedIsRefused
    /\ \A f \in Frontends :
        /\ \A path \in Paths, host \in Hosts \cup {None} :
               LET d == Decide(f, host, path) IN d.kind = "pool" => Serves(d.name)
        /\ \A name \in Hosts \cup {None} : Passed(f, name) # None => Serves(Passed(f, name))
        /\ \A b \in Named(f) \ {None} : b \in Ids(FromFrontend(document, f.id).backends)

\* A rule warned about as unreachable takes no request (check_unreachable_rules
\* against decide), as long as the rules compare paths in the wider way.
UnreachableIsNotTaken ==
    \A f \in {g \in Frontends : CheckUnreachableRules(g) # {}} :
        (\A i \in DOMAIN f.rules : f.rules[i].case = "insensitive") =>
            \A host \in Hosts \cup {None}, path \in Paths :
                Deciding(f, host, path) \notin CheckUnreachableRules(f)

\* A handshake is answered with a certificate for the name that was asked for
\* where one is offered and held, otherwise with the default or not at all,
\* never with somebody else's (Certificates::choose, ADR-0070).
OwnCertificate ==
    \A f \in {g \in Frontends : g.tls # None} :
        \A name \in Hosts, held \in SUBSET Ids(document.certificates) :
            LET chosen == Choose(document, f, held, name)
                for(id) == \E k \in DOMAIN Find(document.certificates, id).names :
                              HostMatches(Find(document.certificates, id).names[k], name)
                offered == {id \in held : \E i \in DOMAIN f.tls.certificates :
                                              f.tls.certificates[i] = id}
            IN  IF \E id \in offered : for(id) THEN chosen \in offered /\ for(chosen)
                ELSE chosen = (IF f.tls.default \in held THEN f.tls.default ELSE None)

Detours == {<<".">>, <<"">>, <<"x", "..">>, <<"x", "%2e%2e">>}

\* A way around that leads back changes nothing: a request is decided the same
\* with a detour spliced in anywhere before its last part (normalise), however
\* the way is spelt.
DetoursChangeNothing ==
    \A f \in {g \in Frontends : \E i \in DOMAIN g.rules : g.rules[i].prefix # None} :
        \A path \in Paths, detour \in Detours : \A at \in 0 .. (Len(path) - 1) :
            Decide(f, None, SubSeq(path, 1, at) \o detour \o SubSeq(path, at + 1, Len(path)))
                = Decide(f, None, path)

\* Requests and handshakes go where the document as written sends them: a rule
\* said to be unreachable takes none, a spelling changes no decision, and a
\* certificate is one for the name asked for (route.rs, certs.rs, ADR-0070).
RoutesAsWritten == UnreachableIsNotTaken /\ DetoursChangeNothing /\ OwnCertificate

\* What a template says it created is what a comparison of the two documents
\* shows, and undoing it at once leaves nothing behind (apply, undo, diff).
TemplateIsItsDiff ==
    [][\A created \in receipts' \ receipts :
          /\ Diff(document, document') = {<<o[1], o[2], "added">> : o \in created}
          /\ Undo(document', created) = document]_documentVars

\* Every pair of digests the two documents can have, as far as they matter.
Digests(c, d) ==
    LET vips == Ids(c.vips) \cup Ids(d.vips)
        nodes == Ids(c.nodes) \cup Ids(d.nodes)
        sorted == SetToSeq(vips \cup nodes)
    IN  {[first |-> first, weight |-> [x \in vips \X nodes |-> weight[x[2]]],
          place |-> [x \in vips \cup nodes |-> CHOOSE i \in DOMAIN sorted : sorted[i] = x]] :
            first \in [vips -> 1 .. VRIDS], weight \in [nodes -> 0 .. 1]}

\* Each address has a number of its own after the change, and what the change
\* does not touch keeps its number and its order.
KeepsItsPlace(c, d, h) ==
    LET before == Routers(c, h)
        after == Routers(d, h)
        stays == DOMAIN before \cap DOMAIN after
        common(v, r) == SelectSeq(r[v].ranking, LAMBDA n : n \in Carriers(c) \cap Carriers(d))
    IN  /\ DOMAIN after = Ids(d.vips)
        /\ \A v, w \in DOMAIN after : v # w => after[v].vrid # after[w].vrid
        /\ \A v \in stays :
            /\ after[v].vrid # before[v].vrid =>
                  IF Ids(d.vips) \subseteq Ids(c.vips) THEN ~before[v].firstChoice
                                                       ELSE ~after[v].firstChoice
            /\ common(v, before) = common(v, after)

\* Every node works the same numbers out on its own, so they must hold still:
\* whatever the digests are, each address has a number of its own; one that has
\* the number its identity points at keeps it when others are removed, and gives
\* it up to nobody but a newcomer with the same number; and nodes that stay keep
\* their order for an address (matrix, free_from, ranking).
NumbersHoldStill ==
    [][Ids(document.vips) # Ids(document'.vips) \/ document.nodes # document'.nodes =>
          \A h \in Digests(document, document') : KeepsItsPlace(document, document', h)]_documentVars

\* An address and port belong to one listener ("A VIP and port already in use
\* therefore comes back as the ordinary field-level error", template.rs:406-408).
SocketsAreDistinct ==
    \A a, b \in Bindings(document) : a # b => a.address # b.address
=============================================================================
