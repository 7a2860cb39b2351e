------------------------- MODULE HTTPRouteFilters -------------------------
(***************************************************************************)
(* How the filters of an HTTPRoute rule become Kong plugins and changes to *)
(* the Kong route (subtranslator/httproute.go, SetRoutePlugins and below). *)
(*                                                                         *)
(* An optional field is a sequence of at most one element.  A header entry *)
(* of a transformer plugin is a record of its name and value.  A Kong      *)
(* route carries its plugins, the KongPlugin names of its annotation, and  *)
(* the fields both flavours of routes are matched on.                      *)
(***************************************************************************)
EXTENDS Atc

\* The zero value of a transformer plugin's configuration.  replaceURI is
\* the template of request-transformer: prefix$(uri_captures[1] == nil and
\* none or lead .. uri_captures[1]); a constant URI captures nothing.
EmptyTransformer(type) ==
    [type |-> type, replace |-> <<>>, replaceURI |-> <<>>, add |-> <<>>,
     append |-> <<>>, remove |-> <<>>]

URI(prefix, none, lead, captures) ==
    <<[prefix |-> prefix, none |-> none, lead |-> lead, captures |-> captures]>>

Slash == <<"/">>

\* strings.TrimSuffix(path, "/"): at most one slash goes.
TrimSlash(path) ==
    IF path # <<>> /\ Last(path) = "/" THEN Front(path) ELSE path

normalizePath(path) ==
    IF path \in {<<>>, Slash} THEN Slash ELSE TrimSlash(path)

isPathRoot(path) == path = Slash

----------------------------------------------------------------------------
(* The plugin of each filter. *)

\* Set is a pair of "replace" and "add", Add is "append".
generateHeaderModifierKongPlugin(modifier, type) ==
    [EmptyTransformer(type) EXCEPT
        !.replace = modifier.set, !.add = modifier.set,
        !.append = modifier.add, !.remove = modifier.remove]

\* A request-termination plugin and a Location header; only a full path
\* replaces the path of the match.
generateRequestRedirectKongPlugin(modifier, path) ==
    LET target == IF modifier.fullPath # <<>> THEN modifier.fullPath[1] ELSE path
        location == [name |-> "Location", value |-> <<modifier.hostname, target>>]
    IN [termination |-> [name |-> "request-termination", status |-> modifier.statusCode],
        transformer |-> [EmptyTransformer("response-transformer") EXCEPT !.add = <<location>>]]

\* Only KongPlugins of the Kong group can be referred to.
generateExtensionRefKongPlugin(ref) ==
    IF ref.supported THEN <<ref.name>> ELSE <<>>

generateRequestTransformerForURLRewriteHostname(hostname) ==
    LET header == <<[name |-> "host", value |-> hostname]>>
    IN [EmptyTransformer("request-transformer") EXCEPT !.replace = header, !.add = header]

\* The URI template for a replaced prefix: without a prefix to put first, the
\* path still starts with a slash; the capture of the root path has none.
generateRequestTransformerReplaceURIForURLRewritePrefixMatch(replacePrefixMatch, path) ==
    IF replacePrefixMatch = <<>> THEN URI(Slash, <<>>, <<>>, FALSE)
    ELSE LET prefix == TrimSlash(replacePrefixMatch[1])
             lead == IF isPathRoot(path) THEN Slash ELSE <<>>
         IN IF prefix = <<>>
            THEN URI(<<>>, Slash, lead, TRUE)
            ELSE URI(prefix, <<>>, lead, TRUE)

\* The two paths a route with a replaced prefix is given: the prefix itself,
\* and what is below it with a capture group that holds the slash unless the
\* prefix is the root.
RewriteExact(path) == path \o <<"$">>

RewriteBelow(path) ==
    IF isPathRoot(path) THEN <<"/", "(", ".*", ")">> ELSE path \o <<"(", "/", ".*", ")">>

\* The route modifier: expression routes get a new expression, which keeps
\* nothing of the one they had; traditional routes get new paths.
generateKongRouteModifierForURLRewritePrefixMatch(route, path, expressions) ==
    IF expressions
    THEN [route EXCEPT !.expression =
            Or(<<Predicate(<<"http.path">>, "==", path),
                 Predicate(<<"http.path">>, "~", <<"^">> \o RewriteBelow(path))>>)]
    ELSE [route EXCEPT !.paths = {<<"~">> \o RewriteExact(path), <<"~">> \o RewriteBelow(path)}]

\* generateRequestTransformerForURLRewrite(Path, FullPath, PrefixMatch): the
\* plugins, the path the route is modified for, and whether it is an error.
generateRequestTransformerForURLRewrite(filter, path) ==
    LET mod == filter.path[1]
        prefixPath == normalizePath(path)
        full == [EmptyTransformer("request-transformer") EXCEPT
                   !.replaceURI = URI(mod.value[1], <<>>, <<>>, FALSE)]
        prefix == [EmptyTransformer("request-transformer") EXCEPT
                     !.replaceURI = generateRequestTransformerReplaceURIForURLRewritePrefixMatch(
                                        mod.value, prefixPath)]
        isFull == filter.path # <<>> /\ mod.type = "ReplaceFullPath"
        isPrefix == filter.path # <<>> /\ mod.type = "ReplacePrefixMatch"
    IN [error |-> \/ filter.path = <<>> /\ filter.hostname = <<>>
                  \/ isFull /\ mod.value = <<>>
                  \/ filter.path # <<>> /\ ~isFull /\ ~isPrefix,
        plugins |-> (IF isFull /\ mod.value # <<>> THEN <<full>>
                     ELSE IF isPrefix THEN <<prefix>> ELSE <<>>)
                    \o (IF filter.hostname = <<>> THEN <<>>
                        ELSE <<generateRequestTransformerForURLRewriteHostname(
                                   filter.hostname[1])>>),
        modifiers |-> IF isPrefix THEN <<prefixPath>> ELSE <<>>]

----------------------------------------------------------------------------
(* All the filters of a rule. *)

Nothing == [error |-> FALSE, transformers |-> <<>>, terminations |-> <<>>,
            extensions |-> <<>>, modifiers |-> <<>>]

\* One turn of the loop over the filters.
AddFilter(acc, filter, path) ==
    CASE filter.type = "RequestHeaderModifier" ->
            [acc EXCEPT !.transformers = Append(@,
                generateHeaderModifierKongPlugin(filter, "request-transformer"))]
      [] filter.type = "ResponseHeaderModifier" ->
            [acc EXCEPT !.transformers = Append(@,
                generateHeaderModifierKongPlugin(filter, "response-transformer"))]
      [] filter.type = "RequestRedirect" ->
            LET p == generateRequestRedirectKongPlugin(filter, path)
            IN [acc EXCEPT !.transformers = Append(@, p.transformer),
                           !.terminations = Append(@, p.termination)]
      [] filter.type = "ExtensionRef" ->
            [acc EXCEPT !.extensions = @ \o generateExtensionRefKongPlugin(filter),
                        !.error = @ \/ ~filter.supported]
      [] filter.type = "URLRewrite" ->
            LET p == generateRequestTransformerForURLRewrite(filter, path)
            IN [acc EXCEPT !.transformers = @ \o p.plugins,
                           !.modifiers = @ \o p.modifiers, !.error = @ \/ p.error]
      [] filter.type = "RequestMirror" -> [acc EXCEPT !.error = TRUE]

\* mergo.Merge with appended slices: lists are joined, the first URI stays.
MergeTransformers(p, q) ==
    [type |-> p.type, replace |-> p.replace \o q.replace,
     replaceURI |-> IF p.replaceURI # <<>> THEN p.replaceURI ELSE q.replaceURI,
     add |-> p.add \o q.add, append |-> p.append \o q.append, remove |-> p.remove \o q.remove]

\* One plugin of each type, sorted by type.
mergePluginsOfTheSameType(plugins) ==
    LET ofType(t) == SelectSeq(plugins, LAMBDA p : p.type = t)
        merged(t) == IF ofType(t) = <<>> THEN <<>>
                     ELSE <<FoldLeft(MergeTransformers, EmptyTransformer(t), ofType(t))>>
    IN merged("request-transformer") \o merged("response-transformer")

generatePluginsFromHTTPRouteFilters(filters, path) ==
    LET all == FoldLeft(LAMBDA acc, f : AddFilter(acc, f, path), Nothing, filters)
    IN [all EXCEPT !.transformers = mergePluginsOfTheSameType(@)]

\* The plugins are added to those the route has, then the modifiers run;
\* ExtensionRefs extend the annotation of the route.
AddPlugins(route, gen, expressions) ==
    [error |-> gen.error,
     route |-> FoldLeft(LAMBDA r, p : generateKongRouteModifierForURLRewritePrefixMatch(r, p, expressions),
                        [route EXCEPT !.transformers = @ \o gen.transformers,
                                      !.terminations = @ \o gen.terminations,
                                      !.annotation = @ \o gen.extensions],
                        gen.modifiers)]

SetRoutePlugins(route, filters, path, expressions) ==
    AddPlugins(route, generatePluginsFromHTTPRouteFilters(filters, path), expressions)

----------------------------------------------------------------------------
(* What Kong makes of the plugins (external). *)

\* The text the capture group of a regular expression takes: the group ends
\* the expression and takes the rest of the path.
Captures(re, path) ==
    IF MatchesHere(re, path) /\ \E i \in DOMAIN re : re[i] = "("
    THEN {Drop(path, (CHOOSE i \in DOMAIN re : re[i] = "(") - 1)}
    ELSE {}

\* The URIs request-transformer may put in the place of the path, when the
\* router may match the path with any of the regular expressions.
ReplacedURIs(uri, regexes, path) ==
    IF ~uri.captures THEN {uri.prefix}
    ELSE UNION {IF Captures(re, path) = {} THEN {uri.prefix \o uri.none}
                ELSE {uri.prefix \o uri.lead \o c : c \in Captures(re, path)} :
                re \in {x \in regexes : MatchesHere(x, path)}}

\* Headers of a request after request-transformer: remove, replace what is
\* there, add what is not, append.
TransformedHeaders(plugin, headers) ==
    LET names(s) == {s[i].name : i \in DOMAIN s}
        entries(s) == {s[i] : i \in DOMAIN s}
        kept == {h \in headers : h.name \notin names([i \in DOMAIN plugin.remove |->
                                                       [name |-> plugin.remove[i]]])}
        had == {h.name : h \in kept}
        replaced == {h \in kept : h.name \notin names(plugin.replace)}
                      \cup {h \in entries(plugin.replace) : h.name \in had}
        added == replaced \cup {h \in entries(plugin.add) :
                                  h.name \notin {x.name : x \in replaced}}
    IN added \cup entries(plugin.append)
============================================================================
