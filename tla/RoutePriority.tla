--------------------------- MODULE RoutePriority ---------------------------
(***************************************************************************)
(* The priorities of the expression routes the controller writes for       *)
(* HTTPRoutes, GRPCRoutes and Ingresses                                    *)
(* (internal/dataplane/translator/subtranslator: httproute_atc.go,         *)
(* grpcroute_atc.go, ingress_atc.go, atc_utils.go).                        *)
(*                                                                         *)
(* A priority is a 64-bit word made of bit fields.  A field of w bits has  *)
(* the span 2^w and a shift by n bits is a multiplication by the product   *)
(* of the spans below it.  The spans are constants: the code's are in the  *)
(* comments, the checked instances use smaller ones.                       *)
(***************************************************************************)
EXTENDS Integers

CONSTANTS
    HostnameSpan,       \* length of the hostname: 8 bits
    PathSpan,           \* length of the path of an HTTPRoute: 10 bits
    HeaderSpan,         \* number of header matches: 5 bits
    QuerySpan,          \* number of query matches: 5 bits
    OrderSpan,          \* relative order of HTTPRoute matches: 12 bits
    ServiceSpan,        \* length of the gRPC service: 11 bits
    MethodSpan,         \* length of the gRPC method: 11 bits
    GRPCOrderSpan,      \* relative order of GRPCRoute matches: 8 bits
    IngressPathSpan,    \* maximum path length of an Ingress: 16 bits
    PreservedSpan,      \* bits of an Ingress kept for later: 15 bits
    HeaderNumberSpan,   \* number of headers of an Ingress: 8 bits
    MatchFieldsSpan,    \* number of fields an Ingress matches on: 3 bits
    WordSpan            \* uint64: 64 bits

ASSUME SpansAssumption ==
    /\ HostnameSpan \in Nat \ {0} /\ PathSpan \in Nat \ {0} /\ HeaderSpan \in Nat \ {0}
    /\ QuerySpan \in Nat \ {0} /\ OrderSpan \in Nat \ {0} /\ ServiceSpan \in Nat \ {0}
    /\ MethodSpan \in Nat \ {0} /\ GRPCOrderSpan \in Nat \ {0}
    /\ IngressPathSpan \in Nat \ {0} /\ PreservedSpan \in Nat \ {0}
    /\ HeaderNumberSpan \in Nat \ {0} /\ MatchFieldsSpan \in Nat \ {0}
    /\ WordSpan \in Nat \ {0}

Bit(b) == IF b THEN 1 ELSE 0

----------------------------------------------------------------------------
(* HTTPRoute: the shift of each field, from the lowest to the highest. *)

QueryShift     == OrderSpan
HeaderShift    == QuerySpan * QueryShift
MethodShift    == HeaderSpan * HeaderShift
PathShift      == 2 * MethodShift
RegexShift     == PathSpan * PathShift
ExactShift     == 2 * RegexShift
HostnameShift  == 2 * ExactShift
PreciseShift   == HostnameSpan * HostnameShift

\* FromResourceKindPriorityShiftBits: the two highest bits tell the kind.
KindShift      == 2 * PreciseShift

PathTypes == {"", "Exact", "PathPrefix", "RegularExpression"}

\* Lengths and counts as the Gateway API bounds them (a path starts with "/").
HTTPRoutePriorityTraits ==
    [PreciseHostname : BOOLEAN, HostnameLength : 0 .. HostnameSpan - 1,
     PathType : PathTypes, PathLength : 0 .. PathSpan,
     HasMethodMatch : BOOLEAN, HeaderCount : 0 .. HeaderSpan - 1,
     QueryParamCount : 0 .. QuerySpan - 1]

\* The path length field: one less than the length, the leading "/" is sure.
PathBits(t) == IF t.PathLength > 0 THEN t.PathLength - 1 ELSE 0

EncodeHTTPRoutePriority(t) ==
    Bit(t.PreciseHostname) * PreciseShift
      + t.HostnameLength * HostnameShift
      + Bit(t.PathType = "Exact") * ExactShift
      + Bit(t.PathType = "RegularExpression") * RegexShift
      + PathBits(t) * PathShift
      + t.HeaderCount * HeaderShift
      + Bit(t.HasMethodMatch) * MethodShift
      + t.QueryParamCount * QueryShift
      + 2 * KindShift

----------------------------------------------------------------------------
(* GRPCRoute. *)

GRPCHeaderShift   == GRPCOrderSpan
GRPCMethodShift   == HeaderSpan * GRPCHeaderShift
GRPCServiceShift  == MethodSpan * GRPCMethodShift
GRPCHostnameShift == ServiceSpan * GRPCServiceShift
GRPCPreciseShift  == HostnameSpan * GRPCHostnameShift

GRPCRoutePriorityTraits ==
    [PreciseHostname : BOOLEAN, HostnameLength : 0 .. HostnameSpan - 1,
     ServiceLength : 0 .. ServiceSpan - 1, MethodLength : 0 .. MethodSpan - 1,
     HeaderCount : 0 .. HeaderSpan - 1]

\* Mutant: the header count is shifted as far as the method length.
HeadersOverMethod(t) ==
    Bit(t.PreciseHostname) * GRPCPreciseShift
      + t.HostnameLength * GRPCHostnameShift
      + t.ServiceLength * GRPCServiceShift
      + t.MethodLength * GRPCHeaderShift
      + t.HeaderCount * GRPCMethodShift
      + KindShift

EncodeGRPCRoutePriority(t) ==
    Bit(t.PreciseHostname) * GRPCPreciseShift
      + t.HostnameLength * GRPCHostnameShift
      + t.ServiceLength * GRPCServiceShift
      + t.MethodLength * GRPCMethodShift
      + t.HeaderCount * GRPCHeaderShift
      + KindShift

----------------------------------------------------------------------------
(* Ingress. *)

IngressRegexShift  == IngressPathSpan
PlainHostShift     == PreservedSpan * 2 * IngressRegexShift
HeaderNumberShift  == 2 * PlainHostShift
MatchFieldsShift   == HeaderNumberSpan * HeaderNumberShift

IngressRoutePriorityTraits ==
    [MatchFields : 0 .. MatchFieldsSpan - 1, PlainHostOnly : BOOLEAN, HeaderCount : Nat,
     MaxPathLength : Nat, HasRegexPath : BOOLEAN]

\* Counts over the limit of their field are cut to the limit.
AtMost(limit, n) == IF n > limit THEN limit ELSE n

EncodeIngressPriority(t) ==
    AtMost(IngressPathSpan - 1, t.MaxPathLength)
      + Bit(t.HasRegexPath) * IngressRegexShift
      + Bit(t.PlainHostOnly) * PlainHostShift
      + AtMost(HeaderNumberSpan - 1, t.HeaderCount) * HeaderNumberShift
      + t.MatchFields * MatchFieldsShift
      + 3 * KindShift

\* All three layouts fit below the kind bits, and those in a word.
ASSUME WidthAssumption ==
    /\ 2 * GRPCPreciseShift <= KindShift
    /\ MatchFieldsSpan * MatchFieldsShift <= KindShift
    /\ 4 * KindShift <= WordSpan

\* IngressDefaultBackendPriority.
IngressDefaultBackendPriority == 0

----------------------------------------------------------------------------
(* Ties: the matches of one priority are sorted and the i-th of them, from *)
(* zero, gets the relative order span - 1 - i.  The test for "at least 0"  *)
(* compares an unsigned word, which is never below 0.                      *)

\* relativeOrderBits of the i-th of several matches.
RelativeOrderBits(span, i) ==
    LET bits == (span - 1 - i) % WordSpan
    IN IF bits <= 0 THEN 0 ELSE bits

\* priority + relativeOrderBits.
WithOrder(priority, bits) == (priority + bits) % WordSpan

----------------------------------------------------------------------------
(* The order the fields are meant to give, the most important one first. *)

\* The first position at which two sequences of numbers differ decides.
Outranks(s, t) ==
    \E i \in DOMAIN s : s[i] > t[i] /\ \A j \in 1 .. i - 1 : s[j] = t[j]

HTTPRouteRank(t) ==
    <<Bit(t.PreciseHostname), t.HostnameLength, Bit(t.PathType = "Exact"),
      Bit(t.PathType = "RegularExpression"), PathBits(t), Bit(t.HasMethodMatch),
      t.HeaderCount, t.QueryParamCount>>

GRPCRouteRank(t) ==
    <<Bit(t.PreciseHostname), t.HostnameLength, t.ServiceLength, t.MethodLength, t.HeaderCount>>

\* As the comment on calculateExpressionRoutePriority lists the criteria: the
\* number of fields, hosts without wildcards when both routes have hosts, the
\* number of headers, a regular expression, the length of the path.
IngressRouteRank(t, bothHosts) ==
    <<t.MatchFields, Bit(bothHosts /\ t.PlainHostOnly), AtMost(HeaderNumberSpan - 1, t.HeaderCount),
      Bit(t.HasRegexPath), AtMost(IngressPathSpan - 1, t.MaxPathLength)>>

\* The layout puts the bit for plain hosts below the headers and sets it
\* whether or not the other route has hosts.  For these t and u the comment
\* may put t first and EncodeToPriority puts u first: u has more headers
\* and a wildcard host; or as many, and is the one with a plain host.
LayoutPrefers(u, t, bothHosts) ==
    LET headers(x) == AtMost(HeaderNumberSpan - 1, x.HeaderCount)
    IN /\ t.MatchFields = u.MatchFields
       /\ \/ bothHosts /\ t.PlainHostOnly /\ ~u.PlainHostOnly /\ headers(u) > headers(t)
          \/ ~bothHosts /\ ~t.PlainHostOnly /\ u.PlainHostOnly /\ headers(u) = headers(t)
============================================================================
