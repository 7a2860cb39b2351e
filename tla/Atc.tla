------------------------------- MODULE Atc -------------------------------
(***************************************************************************)
(* Kong router expressions (internal/dataplane/translator/atc) and what    *)
(* the two Kong routers do with the routes the controller writes.          *)
(*                                                                         *)
(* A matcher is kept as the tree the package builds.  Its Expression() is  *)
(* text for Kong's router, so it is modelled by what that text denotes:    *)
(* Holds(m, r) says whether request r satisfies matcher m.                 *)
(*                                                                         *)
(* Text is a sequence of symbols.  A path is a sequence over "/" and       *)
(* letters, a host is the sequence of its labels, every other value is a   *)
(* sequence of one symbol.  Regular expressions are sequences too, with    *)
(* the symbols "^" and "$", ".+", ".*" and the parentheses of a capture    *)
(* group besides literal symbols.                                          *)
(***************************************************************************)
EXTENDS Integers, Sequences, SequencesExt, FiniteSets

CONSTANT Malformed   \* hosts, methods and SNIs the patterns below refuse

----------------------------------------------------------------------------
(* Regular expressions, as Kong evaluates them. *)

Drop(s, n) == SubSeq(s, n + 1, Len(s))

RECURSIVE MatchesHere(_, _)

\* A match of re at the beginning of s, which may leave a rest of s unread.
MatchesHere(re, s) ==
    IF re = <<>> THEN TRUE
    ELSE LET rest == Tail(re) IN
         CASE Head(re) = "$"  -> s = <<>>
           [] Head(re) = ".+" -> \E n \in 1 .. Len(s) : MatchesHere(rest, Drop(s, n))
           [] Head(re) = ".*" -> \E n \in 0 .. Len(s) : MatchesHere(rest, Drop(s, n))
           [] Head(re) \in {"(", ")"} -> MatchesHere(rest, s)
           [] OTHER -> s # <<>> /\ Head(s) = Head(re) /\ MatchesHere(rest, Tail(s))

\* A match of re anywhere in s unless re starts with "^".
RegexMatches(re, s) ==
    IF re # <<>> /\ Head(re) = "^"
    THEN MatchesHere(Tail(re), s)
    ELSE \E n \in 0 .. Len(s) : MatchesHere(re, Drop(s, n))

----------------------------------------------------------------------------
(* Matchers. *)

\* The nil Matcher and the zero Predicate, which carry no value.
NoMatcher == [kind |-> "none"]

Predicate(field, op, value) ==
    [kind |-> "pred", field |-> field, op |-> op, value |-> value]

StringFields == {"net.protocol", "tls.sni", "http.method", "http.host", "http.path",
                 "http.headers", "http.queries"}

\* The type check of NewPredicate: a string field takes no ordering operator
\* and an integer field no operator on text.
NewPredicate(field, literalType, op, value) ==
    LET isString == Head(field) \in StringFields
        invalid == IF isString THEN {">", ">=", "<", "<="} ELSE {"contains", "^=", "=^", "~"}
    IN IF (isString <=> literalType = "string") /\ op \notin invalid
       THEN Predicate(field, op, value)
       ELSE NoMatcher

IsEmpty(m) == m.kind = "none" \/ (m.kind \in {"or", "and"} /\ m.subMatchers = <<>>)

NonEmpty(ms) == SelectSeq(ms, LAMBDA m : ~IsEmpty(m))

\* Or and And leave out the empty matchers they are given.
Or(ms) == [kind |-> "or", subMatchers |-> NonEmpty(ms)]

And(ms) == [kind |-> "and", subMatchers |-> NonEmpty(ms)]

----------------------------------------------------------------------------
(* What an expression denotes. *)

\* The value the field has in a request: a set, empty when it has none.
FieldValue(field, r) ==
    CASE Head(field) = "http.path"    -> {r.path}
      [] Head(field) = "http.host"    -> {r.host}
      [] Head(field) = "http.method"  -> {r.method}
      [] Head(field) = "net.protocol" -> {r.protocol}
      [] Head(field) = "tls.sni"      -> r.sni
      [] Head(field) = "net.dst.port" -> {r.port}
      [] Head(field) = "http.headers" -> {h.value : h \in {x \in r.headers : x.name = field[2]}}
      [] Head(field) = "http.queries" -> {h.value : h \in {x \in r.queries : x.name = field[2]}}

\* The suffix of a host starts with a dot, so one label at least precedes it.
Compare(op, v, w) ==
    CASE op = "==" -> v = w
      [] op = "^=" -> IsPrefix(w, v)
      [] op = "=^" -> IsSuffix(w, v) /\ Len(v) > Len(w)
      [] op = "~"  -> RegexMatches(w, v)

RECURSIVE Holds(_, _)

\* Whether Kong's expression router takes request r for Expression() of m.
Holds(m, r) ==
    CASE m.kind = "pred" -> \E v \in FieldValue(m.field, r) : Compare(m.op, v, m.value)
      [] m.kind = "or"  -> \E i \in DOMAIN m.subMatchers : Holds(m.subMatchers[i], r)
      [] m.kind = "and" -> \A i \in DOMAIN m.subMatchers : Holds(m.subMatchers[i], r)

\* CatchAllHTTPExpression: every HTTP and HTTPS request.
CatchAllHTTPExpression ==
    Or(<<Predicate(<<"net.protocol">>, "==", <<"http">>),
         Predicate(<<"net.protocol">>, "==", <<"https">>)>>)

\* ApplyExpression writes the expression, empty ones too, and the priority.
ApplyExpression(route, m, priority) ==
    [route EXCEPT !.expression = m, !.priority = priority]

----------------------------------------------------------------------------
(* Kong's routers. *)

IsWildcard(host) == host # <<>> /\ Head(host) = "*"

\* A hostname of the Kubernetes API covers a host of a request.
HostCovers(hostname, host) ==
    IF IsWildcard(hostname)
    THEN IsSuffix(Tail(hostname), host) /\ Len(host) >= Len(hostname)
    ELSE hostname = host

\* One entry of "paths" of a traditional route: a regular expression when it
\* starts with "~", a prefix otherwise.
KongPathMatches(p, path) ==
    IF p # <<>> /\ Head(p) = "~" THEN MatchesHere(Tail(p), path) ELSE IsPrefix(p, path)

\* One value of a header of a traditional route; "~*" starts a regular
\* expression.
KongHeaderMatches(v, value) ==
    IF v # <<>> /\ Head(v) = "~*" THEN RegexMatches(Tail(v), value) ELSE v = value

\* A traditional route: an empty list of hosts, paths, methods, headers or
\* SNIs restricts nothing; a header has one of the values listed for it.
TraditionalMatches(route, r) ==
    /\ route.hosts # {} => \E h \in route.hosts : HostCovers(h, r.host)
    /\ route.paths # {} => \E p \in route.paths : KongPathMatches(p, r.path)
    /\ route.methods # {} => r.method \in route.methods
    /\ \A name \in {h.name : h \in route.headers} :
          \E h \in r.headers, x \in route.headers :
              h.name = name /\ x.name = name /\ KongHeaderMatches(x.value, h.value)
    /\ route.snis # {} => \E s \in route.snis : s \in r.sni

\* Among the expression routes a request satisfies, the router takes one of
\* the highest priority.
ExpressionChoice(routes, r) ==
    LET matching == {x \in routes : Holds(x.expression, r)}
    IN {x \in matching : \A y \in matching : y.priority <= x.priority}

----------------------------------------------------------------------------
(* Matchers the translators of all kinds share. *)

\* The patterns validHosts, validMethods and validSNIs.  They refuse "", blanks
\* and, in a host, a label with two hyphens in a row.
WellFormed(text) == text # <<>> /\ Head(text) # " " /\ text \notin Malformed

\* validSNIs refuses wildcards as well.
WellFormedSNI(text) == WellFormed(text) /\ ~IsWildcard(text)

\* Hosts the pattern refuses are skipped; a wildcard becomes a suffix.
hostMatcherFromHosts(hosts) ==
    Or([i \in 1 .. Len(hosts) |->
          IF ~WellFormed(hosts[i]) THEN NoMatcher
          ELSE IF IsWildcard(hosts[i])
               THEN Predicate(<<"http.host">>, "=^", Tail(hosts[i]))
               ELSE Predicate(<<"http.host">>, "==", hosts[i])])

methodMatcherFromMethods(methods) ==
    Or([i \in 1 .. Len(methods) |->
          IF WellFormed(methods[i])
          THEN Predicate(<<"http.method">>, "==", methods[i]) ELSE NoMatcher])

sniMatcherFromSNIs(snis) ==
    Or([i \in 1 .. Len(snis) |->
          IF WellFormedSNI(snis[i])
          THEN Predicate(<<"tls.sni">>, "==", snis[i]) ELSE NoMatcher])
============================================================================
