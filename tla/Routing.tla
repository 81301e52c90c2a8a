-------------------------------- MODULE Routing --------------------------------
(***************************************************************************)
(* What a data plane does with a request, a connection or a handshake,     *)
(* given the document: the rule a request falls under (ek-ek-dataplane/src/ *)
(* route.rs), the pool of a passed-through connection (stream.rs), the     *)
(* certificate a handshake is answered with (certs.rs), and the warning    *)
(* about rules that are never reached (ek-ek-config/src/validation.rs).     *)
(*                                                                         *)
(* A host is a sequence of labels.  A path is what stands between its      *)
(* slashes, as sent; Decode gives what a part comes to when its escapes    *)
(* are decoded once, which may be several parts.  A prefix is its parts    *)
(* and whether it ends in a slash.                                         *)
(***************************************************************************)
EXTENDS Document, SequencesExt

CONSTANT Decode

\* Paths ------------------------------------------------------------------------

\* One part of the path after another; there is nothing above the root.
StepInto(parts, part) ==
    CASE part \in {"", "."} -> parts
      [] part = ".."        -> IF parts = << >> THEN parts ELSE Front(parts)
      [] OTHER              -> Append(parts, part)

Normalise(path) ==
    LET decoded == FoldLeft(LAMBDA parts, part : parts \o Decode[part], << >>, path)
        parts == FoldLeft(StepInto, << >>, decoded)
    IN  [parts |-> parts,
         slash |-> parts = << >> \/ Last(decoded) = ""]

\* A prefix covers whole parts.  One that ends in a slash wants the slash.
PathMatches(prefix, path, case) ==
    LET seen(p) == IF case = "insensitive" THEN Lower(p) ELSE p
    IN  /\ IsPrefix(seen(prefix.parts), seen(path.parts))
        /\ prefix.slash => (Len(path.parts) > Len(prefix.parts) \/ path.slash)

\* Hosts ------------------------------------------------------------------------

HostMatches(pattern, host) ==
    IF IsWildcard(pattern)
    THEN Len(host) > 1 /\ host[1] # "" /\ Tail(Lower(host)) = Tail(Lower(pattern))
    ELSE Lower(host) = Lower(pattern)

\* Rules ------------------------------------------------------------------------

Matches(rule, host, path) ==
    /\ rule.host # None => host # None /\ HostMatches(rule.host, host)
    /\ rule.prefix # None => PathMatches(rule.prefix, path, rule.case)

\* The first rule that takes the request, 0 where none does.
Deciding(f, host, path) ==
    LET normal == Normalise(path)
        taking == {i \in DOMAIN f.rules : Matches(f.rules[i], host, normal)}
    IN  IF taking = {} THEN 0 ELSE CHOOSE i \in taking : \A j \in taking : i <= j

Decide(f, host, path) ==
    LET i == Deciding(f, host, path)
    IN  CASE i # 0 /\ Proxies(f.rules[i]) -> [kind |-> "pool", name |-> f.rules[i].action.backend]
          [] i # 0 /\ ~Proxies(f.rules[i]) -> [kind |-> "redirect"]
          [] i = 0 /\ f.pool # None -> [kind |-> "pool", name |-> f.pool]
          [] i = 0 /\ f.pool = None -> [kind |-> "nowhere"]

\* StreamProxy::route: the first SNI rule that covers the name, or the default.
Passed(f, name) ==
    LET taking == {i \in DOMAIN f.sni : name # None /\ HostMatches(f.sni[i].pattern, name)}
    IN  IF taking = {} THEN f.pool
        ELSE f.sni[CHOOSE i \in taking : \A j \in taking : i <= j].backend

\* Rules never reached ------------------------------------------------------------

\* Mutant: a pattern covers whatever ends the way it does.
HostCoversDeeper(earlier, later) ==
    \/ earlier = None
    \/ later # None /\ (\/ Lower(earlier) = Lower(later)
                        \/ IsWildcard(earlier) /\ IsSuffix(Tail(Lower(earlier)), Lower(later)))

HostCovers(earlier, later) ==
    \/ earlier = None
    \/ later # None /\ (\/ Lower(earlier) = Lower(later)
                        \/ /\ IsWildcard(earlier) /\ Len(later) > 1
                           /\ Tail(Lower(later)) = Tail(Lower(earlier)))

\* Compared in lower case whatever the rules compare in.
PathCovers(earlier, later) ==
    \/ earlier = None
    \/ later # None /\ PathMatches(earlier, later, "insensitive")

Covers(earlier, later) ==
    HostCovers(earlier.host, later.host) /\ PathCovers(earlier.prefix, later.prefix)

CheckUnreachableRules(f) ==
    {i \in DOMAIN f.rules : \E j \in 1 .. (i - 1) : Covers(f.rules[j], f.rules[i])}

\* Certificates -------------------------------------------------------------------

\* Certificates::build of one frontend, with material for the certificates in
\* held: the names it answers to.  Of two certificates for one name the one
\* listed last is served.
Offered(c, f, held) ==
    UNION {{<<i, k>> : k \in DOMAIN Find(c.certificates, f.tls.certificates[i]).names} :
               i \in {j \in DOMAIN f.tls.certificates :
                         f.tls.certificates[j] \in held \cap Ids(c.certificates)}}

Listed(c, f, at) == Find(c.certificates, f.tls.certificates[at[1]]).names[at[2]]

LastOf(f, S) == f.tls.certificates[CHOOSE i \in {at[1] : at \in S} : \A at \in S : at[1] <= i]

Fallback(f, held) == IF f.tls.default \in held THEN f.tls.default ELSE None

\* parent_of: a wildcard stands for one label.
Under(wildcard, name) ==
    IsWildcard(wildcard) /\ Len(name) > 1 /\ Tail(Lower(wildcard)) = Tail(Lower(name))

\* Exact names first, wildcards second, then the default.
Choose(c, f, held, name) ==
    LET offered == Offered(c, f, held)
        exact == {at \in offered : name # None /\ ~IsWildcard(Listed(c, f, at))
                                   /\ Lower(Listed(c, f, at)) = Lower(name)}
        wild == {at \in offered : name # None /\ Under(Listed(c, f, at), name)}
    IN  IF f.transport # "tcp" THEN None
        ELSE IF exact # {} THEN LastOf(f, exact)
        ELSE IF wild # {} THEN LastOf(f, wild)
        ELSE Fallback(f, held)
=============================================================================
