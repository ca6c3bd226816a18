------------------------------- MODULE Matching -------------------------------
(***************************************************************************)
(* The pure parts of answering a request: how a rule's path is matched,    *)
(* which rule is taken, and how a host loses its port.  Paths and hosts    *)
(* are sequences of characters; digits and the characters "/" and ":" are  *)
(* told apart from the rest.                                               *)
(***************************************************************************)
EXTENDS Naturals, FiniteSets, Sequences, SequencesExt

Slash == "/"
Colon == ":"
Digits == {"0", "1", "2", "3", "4", "5", "6", "7", "8", "9"}

\* Mutant: a plain prefix match.
matchPrefix(pattern, path) == IsPrefix(pattern, path)

\* A pattern matches itself and what is below it.
matchPath(pattern, path) ==
  \/ pattern = path
  \/ /\ pattern # <<>> /\ Last(pattern) = Slash
     /\ IsPrefix(pattern, path)
  \/ /\ ~(pattern # <<>> /\ Last(pattern) = Slash)
     /\ IsPrefix(Append(pattern, Slash), path)

-----------------------------------------------------------------------------
(* A rule is a record [path, priority, target]. *)

\* Mutant: the rules in any order.
OrdersOfAll(S) == SetToSeqs(S)

\* What a query ordered by priority and an unstable sort by priority may come to.
Orders(S) ==
  {s \in SetToSeqs(S) : \A i, j \in DOMAIN s : i < j => s[i].priority >= s[j].priority}

\* Mutant: the loop is not left at the first match.
TakenLast(s, path, default) ==
  FoldLeft(LAMBDA taken, r : IF matchPath(r.path, path) THEN r.target ELSE taken, default, s)

\* The target of the first rule that matches, or the domain's own.
Taken(s, path, default) ==
  LET matching == {i \in DOMAIN s : matchPath(s[i].path, path)}
  IN  IF matching = {} THEN default ELSE s[Min(matching)].target

-----------------------------------------------------------------------------
(* Hosts *)

Colons(host) == {i \in DOMAIN host : host[i] = Colon}
LastColon(host) == CHOOSE i \in Colons(host) : \A j \in Colons(host) : j <= i

\* redirect.stripPort cuts at the last colon.
engineStripPort(host) ==
  IF Colons(host) = {} THEN host ELSE SubSeq(host, 1, LastColon(host) - 1)

DigitsOnly(s) == ToSet(s) \subseteq Digits
AfterColon(host) == SubSeq(host, LastColon(host) + 1, Len(host))

\* server.stripPort and main's stripHostPort look for the colon from the end and
\* give up at the first character that is no digit.
stripHostPort(host) ==
  IF Colons(host) # {} /\ DigitsOnly(AfterColon(host))
  THEN SubSeq(host, 1, LastColon(host) - 1)
  ELSE host

HasDomain(host, domains) == engineStripPort(host) \in domains

\* Mutant: the host as it stands.
RouteOfHost(host, admin, domains) ==
  IF host = admin THEN "admin"
  ELSE IF HasDomain(host, domains) THEN "redirect" ELSE "404"

\* Port 443 in the single-binary mode: HostMux, then the engine.
RouteTLS(host, admin, domains) ==
  IF stripHostPort(host) = admin THEN "admin"
  ELSE IF HasDomain(host, domains) THEN "redirect" ELSE "404"

\* Port 80: the fallback of main, then the engine.
RoutePlain(host, domains) ==
  IF HasDomain(stripHostPort(host), domains)
  THEN IF HasDomain(host, domains) THEN "redirect" ELSE "404"
  ELSE "https"

\* Mutant: the admin domain is forgotten.
DecisionOfDomains(name, admin, domains) == HasDomain(name, domains)

\* DecisionFunc: whether a certificate is obtained for a name.
DecisionFunc(name, admin, domains) == name = admin \/ HasDomain(name, domains)
=============================================================================
