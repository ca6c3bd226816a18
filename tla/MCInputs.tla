------------------------------- MODULE MCInputs -------------------------------
(***************************************************************************)
(* The operators whose result depends on their input alone, on all small   *)
(* inputs: a step makes the pattern, the path or the host of Matching      *)
(* longer by a character, or changes the table that CertStore lists.       *)
(***************************************************************************)
EXTENDS Matching, CertStore

CONSTANTS
  PathChars, HostChars,   \* the characters of paths and of hosts
  MaxPath, MaxHost        \* bounds on the lengths

VARIABLES pattern, path, host

inputs == <<pattern, path, host>>

InputInit == Init /\ pattern = <<>> /\ path = <<>> /\ host = <<>>

LongerPattern ==
  /\ Len(pattern) < MaxPath /\ host = <<>> /\ table = <<>>
  /\ \E c \in PathChars : pattern' = Append(pattern, c)
  /\ UNCHANGED <<path, host, table>>

LongerPath ==
  /\ Len(path) < MaxPath /\ host = <<>> /\ table = <<>>
  /\ \E c \in PathChars : path' = Append(path, c)
  /\ UNCHANGED <<pattern, host, table>>

LongerHost ==
  /\ Len(host) < MaxHost /\ pattern \o path = <<>> /\ table = <<>>
  /\ \E c \in HostChars : host' = Append(host, c)
  /\ UNCHANGED <<pattern, path, table>>

Change ==
  /\ pattern \o path \o host = <<>>
  /\ Next
  /\ UNCHANGED inputs

InputNext == LongerPattern \/ LongerPath \/ LongerHost \/ Change
InputSpec == InputInit /\ [][InputNext]_<<inputs, table>>

\* A rule takes whole segments: it matches its own path and what continues it
\* after a slash (engine.go:150).
MatchesSegments ==
  matchPath(pattern, path) <=>
    \/ path = pattern
    \/ /\ IsStrictPrefix(pattern, path)
       /\ path[Len(pattern) + 1] = Slash \/ (pattern # <<>> /\ Last(pattern) = Slash)

IsName(s) == s # <<>> /\ Colons(s) = {}
WellFormed(h) ==
  \/ IsName(h)
  \/ \E i \in DOMAIN h : /\ h[i] = Colon
                         /\ IsName(SubSeq(h, 1, i - 1))
                         /\ DigitsOnly(SubSeq(h, i + 1, Len(h)))

Names == {engineStripPort(host), stripHostPort(host), host}

\* The port in a well-formed host makes no difference to what it is answered,
\* though three functions take it off in two ways, and a domain that port 80
\* finds is never not found by the engine behind it (main.go:259, mux.go:17,
\* engine.go:91).
PortsIgnored ==
  \A domains \in SUBSET Names, admin \in Names : WellFormed(host) =>
    LET name == stripHostPort(host)
    IN  /\ RouteTLS(host, admin, domains) = RouteTLS(name, admin, domains)
        /\ RoutePlain(host, domains) = RoutePlain(name, domains)
        /\ RoutePlain(host, domains) # "404"

\* In the single-binary mode a certificate is obtained for exactly the names
\* that port 443 answers with something else than not found (certs.go:49).
CertificateIffServed ==
  \A domains \in SUBSET Names, admin \in Names :
    IsName(host) => (DecisionFunc(host, admin, domains) <=> RouteTLS(host, admin, domains) # "404")
-----------------------------------------------------------------------------
(* Keys as code points: letters are a, b and c; the rest is - and the slash. *)

\* "a/b/a", "a/b/b", "a/bc", "a/b", "a/c/a", "a", "a/b-b" and "bc"
MCKeys == {<<97, 47, 98, 47, 97>>, <<97, 47, 98, 47, 98>>, <<97, 47, 98, 99>>,
           <<97, 47, 98>>, <<97, 47, 99, 47, 97>>, <<97>>, <<97, 47, 98, 45, 98>>, <<98, 99>>}

\* "", "a", "a/", "a/b" and "a/b/"
MCPrefixes == {<<>>, <<97>>, <<97, 47>>, <<97, 47, 98>>, <<97, 47, 98, 47>>}
=============================================================================
