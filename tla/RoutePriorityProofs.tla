------------------------ MODULE RoutePriorityProofs ------------------------
(***************************************************************************)
(* Packing the traits of a route into one word keeps their order, for      *)
(* every width of the fields: the word is a number written with digits of  *)
(* different bases, and each shift is the number of values that the digits *)
(* below it can take.                                                      *)
(***************************************************************************)
EXTENDS RoutePriority, TLAPS

(* The digit x is larger than y, or the same with a larger number below.   *)
Ahead(x, y, l, m) == x > y \/ (x = y /\ l > m)

(* Digits x and y of base n are put before the numbers l and m of the      *)
(* digits below them, which take S values: the results take n * S values   *)
(* and are compared by the digits first.                                   *)
Digits(S, n, x, y, l, m) ==
    /\ n * S \in Nat \ {0}
    /\ x * S + l \in 0 .. n * S - 1
    /\ y * S + m \in 0 .. n * S - 1
    /\ x * S \in Nat /\ y * S \in Nat
    /\ Ahead(x, y, l, m) => x * S + l > y * S + m

(* Digits of their bases make numbers that are compared digit by digit.    *)
LEMMA Digit ==
    ASSUME NEW S \in Nat \ {0}, NEW n \in Nat \ {0},
           NEW x \in 0 .. n - 1, NEW y \in 0 .. n - 1,
           NEW l \in 0 .. S - 1, NEW m \in 0 .. S - 1
    PROVE  Digits(S, n, x, y, l, m)
<1>1. \A a \in Nat : a * S \in Nat
  OBVIOUS
<1>2. \A a, b \in Nat : a < b => a * S + S <= b * S
  <2> SUFFICES ASSUME NEW a \in Nat, NEW b \in Nat, a < b
               PROVE  a * S + S <= b * S
    OBVIOUS
  <2>1. PICK c \in Nat : b = a + 1 + c
    <3>1. b - a - 1 \in Nat /\ b = a + 1 + (b - a - 1)
      OBVIOUS
    <3> QED
      BY <3>1
  <2>2. b * S = a * S + S + c * S
    BY <2>1
  <2> QED
    BY <1>1, <2>1, <2>2
<1>3. x * S + S <= n * S /\ y * S + S <= n * S
  BY <1>2
<1>4. x * S \in Nat /\ y * S \in Nat /\ n * S \in Nat
  BY <1>1
<1>5. x > y => y * S + S <= x * S
  BY <1>2
<1> QED
  BY <1>3, <1>4, <1>5 DEF Digits, Ahead

(* A number below a bound is what it is modulo the bound: words that fit   *)
(* do not wrap around.                                                     *)
LEMMA Fits ==
    ASSUME NEW n \in Nat \ {0}, NEW a \in 0 .. n - 1
    PROVE  a % n = a
  OBVIOUS

(* The ties that fit in the span get the bits span - 1, span - 2 and so    *)
(* on: the test for unsigned bits "at least 0" has no effect on them.      *)
LEMMA OrderBits ==
    ASSUME NEW span \in Nat \ {0}, span <= WordSpan, NEW i \in 0 .. span - 1
    PROVE  RelativeOrderBits(span, i) = span - 1 - i
<1>1. span - 1 - i \in 0 .. WordSpan - 1
  BY SpansAssumption
<1>2. (span - 1 - i) % WordSpan = span - 1 - i
  BY <1>1, Fits, SpansAssumption
<1> QED
  BY <1>1, <1>2 DEF RelativeOrderBits

(* A shift over a field of at least one value is no smaller.               *)
LEMMA Product ==
    ASSUME NEW S \in Nat \ {0}, NEW n \in Nat \ {0}
    PROVE  n * S \in Nat \ {0} /\ n * S >= S
<1>1. PICK c \in Nat : n = 1 + c
  <2>1. n - 1 \in Nat /\ n = 1 + (n - 1)
    OBVIOUS
  <2> QED
    BY <2>1
<1>2. n * S = S + c * S /\ c * S \in Nat
  BY <1>1
<1> QED
  BY <1>2

(* The order bits of HTTPRoutes and GRPCRoutes are below the kind bits.    *)
LEMMA Kind ==
    /\ KindShift \in Nat \ {0} /\ 4 * KindShift <= WordSpan
    /\ OrderSpan <= KindShift /\ GRPCOrderSpan <= KindShift
<1>1. HeaderShift \in Nat \ {0} /\ HeaderShift >= OrderSpan
  BY Product, SpansAssumption DEF QueryShift, HeaderShift
<1>2. MethodShift \in Nat \ {0} /\ MethodShift >= HeaderShift
  BY <1>1, Product, SpansAssumption DEF MethodShift
<1>3. RegexShift \in Nat \ {0} /\ RegexShift >= 2 * MethodShift
  <2>1. PathShift \in Nat \ {0}
    BY <1>2 DEF PathShift
  <2> QED
    BY <2>1, Product, SpansAssumption DEF RegexShift, PathShift
<1>4. PreciseShift \in Nat \ {0} /\ PreciseShift >= 4 * RegexShift
  <2>1. HostnameShift \in Nat \ {0} /\ HostnameShift = 4 * RegexShift
    BY <1>3 DEF HostnameShift, ExactShift
  <2> QED
    BY <2>1, Product, SpansAssumption DEF PreciseShift
<1>5. GRPCMethodShift \in Nat \ {0} /\ GRPCMethodShift >= GRPCOrderSpan
  BY Product, SpansAssumption DEF GRPCMethodShift, GRPCHeaderShift
<1>6. GRPCServiceShift \in Nat \ {0} /\ GRPCServiceShift >= GRPCMethodShift
  BY <1>5, Product, SpansAssumption DEF GRPCServiceShift
<1>7. GRPCHostnameShift \in Nat \ {0} /\ GRPCHostnameShift >= GRPCServiceShift
  BY <1>6, Product, SpansAssumption DEF GRPCHostnameShift
<1>8. GRPCPreciseShift \in Nat \ {0} /\ GRPCPreciseShift >= GRPCHostnameShift
  BY <1>7, Product, SpansAssumption DEF GRPCPreciseShift
<1> QED
  BY <1>1, <1>2, <1>3, <1>4, <1>5, <1>6, <1>7, <1>8, SpansAssumption, WidthAssumption
    DEF KindShift

(* The comparison of sequences of 5 numbers, written out.                  *)
LEMMA Outranks5 ==
    ASSUME NEW s, NEW t, DOMAIN s = 1 .. 5, Outranks(s, t)
    PROVE  \/ s[1] > t[1]
           \/ s[1] = t[1] /\ s[2] > t[2]
           \/ s[1] = t[1] /\ s[2] = t[2] /\ s[3] > t[3]
           \/ s[1] = t[1] /\ s[2] = t[2] /\ s[3] = t[3] /\ s[4] > t[4]
           \/ s[1] = t[1] /\ s[2] = t[2] /\ s[3] = t[3] /\ s[4] = t[4] /\ s[5] > t[5]
<1>1. PICK i \in 1 .. 5 : s[i] > t[i] /\ \A j \in 1 .. i - 1 : s[j] = t[j]
  BY DEF Outranks
<1>2. i = 2 => s[1] = t[1]
  BY <1>1
<1>3. i = 3 => s[1] = t[1] /\ s[2] = t[2]
  BY <1>1
<1>4. i = 4 => s[1] = t[1] /\ s[2] = t[2] /\ s[3] = t[3]
  BY <1>1
<1>5. i = 5 => s[1] = t[1] /\ s[2] = t[2] /\ s[3] = t[3] /\ s[4] = t[4]
  BY <1>1
<1>6. i = 1 \/ i = 2 \/ i = 3 \/ i = 4 \/ i = 5
  OBVIOUS
<1> QED
  BY <1>1, <1>2, <1>3, <1>4, <1>5, <1>6

(* The comparison of sequences of 8 numbers, written out.                  *)
LEMMA Outranks8 ==
    ASSUME NEW s, NEW t, DOMAIN s = 1 .. 8, Outranks(s, t)
    PROVE  \/ s[1] > t[1]
           \/ s[1] = t[1] /\ s[2] > t[2]
           \/ s[1] = t[1] /\ s[2] = t[2] /\ s[3] > t[3]
           \/ s[1] = t[1] /\ s[2] = t[2] /\ s[3] = t[3] /\ s[4] > t[4]
           \/ s[1] = t[1] /\ s[2] = t[2] /\ s[3] = t[3] /\ s[4] = t[4] /\ s[5] > t[5]
           \/ (s[1] = t[1] /\ s[2] = t[2] /\ s[3] = t[3]
                /\ s[4] = t[4] /\ s[5] = t[5] /\ s[6] > t[6])
           \/ (s[1] = t[1] /\ s[2] = t[2] /\ s[3] = t[3] /\ s[4] = t[4]
                /\ s[5] = t[5] /\ s[6] = t[6] /\ s[7] > t[7])
           \/ (s[1] = t[1] /\ s[2] = t[2] /\ s[3] = t[3] /\ s[4] = t[4]
                /\ s[5] = t[5] /\ s[6] = t[6] /\ s[7] = t[7] /\ s[8] > t[8])
<1>1. PICK i \in 1 .. 8 : s[i] > t[i] /\ \A j \in 1 .. i - 1 : s[j] = t[j]
  BY DEF Outranks
<1>2. i = 2 => s[1] = t[1]
  BY <1>1
<1>3. i = 3 => s[1] = t[1] /\ s[2] = t[2]
  BY <1>1
<1>4. i = 4 => s[1] = t[1] /\ s[2] = t[2] /\ s[3] = t[3]
  BY <1>1
<1>5. i = 5 => s[1] = t[1] /\ s[2] = t[2] /\ s[3] = t[3] /\ s[4] = t[4]
  BY <1>1
<1>6. i = 6 => s[1] = t[1] /\ s[2] = t[2] /\ s[3] = t[3] /\ s[4] = t[4] /\ s[5] = t[5]
  BY <1>1
<1>7. i = 7 => s[1] = t[1] /\ s[2] = t[2] /\ s[3] = t[3]
              /\ s[4] = t[4] /\ s[5] = t[5] /\ s[6] = t[6]
  BY <1>1
<1>8. i = 8 => s[1] = t[1] /\ s[2] = t[2] /\ s[3] = t[3]
              /\ s[4] = t[4] /\ s[5] = t[5] /\ s[6] = t[6] /\ s[7] = t[7]
  BY <1>1
<1>9. i = 1 \/ i = 2 \/ i = 3 \/ i = 4 \/ i = 5 \/ i = 6 \/ i = 7 \/ i = 8
  OBVIOUS
<1> QED
  BY <1>1, <1>2, <1>3, <1>4, <1>5, <1>6, <1>7, <1>8, <1>9

----------------------------------------------------------------------------
(* HTTPRoutes. *)

(* With any order bits: the priority of an HTTPRoute match stays within    *)
(* its kind, and the order bits never outweigh a trait.                    *)
LEMMA HTTPRouteLevels ==
    ASSUME NEW t \in HTTPRoutePriorityTraits, NEW u \in HTTPRoutePriorityTraits,
           NEW o \in 0 .. OrderSpan - 1, NEW p \in 0 .. OrderSpan - 1
    PROVE  /\ EncodeHTTPRoutePriority(t) + o \in 2 * KindShift .. 2 * KindShift + KindShift - 1
           /\ Outranks(HTTPRouteRank(t), HTTPRouteRank(u)) =>
                EncodeHTTPRoutePriority(t) + o > EncodeHTTPRoutePriority(u) + p
<1> DEFINE a1 == t.QueryParamCount * QueryShift
           b1 == u.QueryParamCount * QueryShift
           a2 == t.HeaderCount * HeaderShift
           b2 == u.HeaderCount * HeaderShift
           a3 == Bit(t.HasMethodMatch) * MethodShift
           b3 == Bit(u.HasMethodMatch) * MethodShift
           a4 == PathBits(t) * PathShift
           b4 == PathBits(u) * PathShift
           a5 == Bit(t.PathType = "RegularExpression") * RegexShift
           b5 == Bit(u.PathType = "RegularExpression") * RegexShift
           a6 == Bit(t.PathType = "Exact") * ExactShift
           b6 == Bit(u.PathType = "Exact") * ExactShift
           a7 == t.HostnameLength * HostnameShift
           b7 == u.HostnameLength * HostnameShift
           a8 == Bit(t.PreciseHostname) * PreciseShift
           b8 == Bit(u.PreciseHostname) * PreciseShift
           l1 == a1 + o
           m1 == b1 + p
           l2 == a2 + l1
           m2 == b2 + m1
           l3 == a3 + l2
           m3 == b3 + m2
           l4 == a4 + l3
           m4 == b4 + m3
           l5 == a5 + l4
           m5 == b5 + m4
           l6 == a6 + l5
           m6 == b6 + m5
           l7 == a7 + l6
           m7 == b7 + m6
           l8 == a8 + l7
           m8 == b8 + m7
<1> HIDE DEF a1, b1, a2, b2, a3, b3, a4, b4, a5, b5, a6, b6, a7, b7, a8, b8,
             l1, m1, l2, m2, l3, m3, l4, m4, l5, m5, l6, m6, l7, m7, l8, m8
<1>0. /\ t.QueryParamCount \in 0 .. QuerySpan - 1
      /\ u.QueryParamCount \in 0 .. QuerySpan - 1
      /\ t.HeaderCount \in 0 .. HeaderSpan - 1
      /\ u.HeaderCount \in 0 .. HeaderSpan - 1
      /\ Bit(t.HasMethodMatch) \in 0 .. 2 - 1
      /\ Bit(u.HasMethodMatch) \in 0 .. 2 - 1
      /\ PathBits(t) \in 0 .. PathSpan - 1
      /\ PathBits(u) \in 0 .. PathSpan - 1
      /\ Bit(t.PathType = "RegularExpression") \in 0 .. 2 - 1
      /\ Bit(u.PathType = "RegularExpression") \in 0 .. 2 - 1
      /\ Bit(t.PathType = "Exact") \in 0 .. 2 - 1
      /\ Bit(u.PathType = "Exact") \in 0 .. 2 - 1
      /\ t.HostnameLength \in 0 .. HostnameSpan - 1
      /\ u.HostnameLength \in 0 .. HostnameSpan - 1
      /\ Bit(t.PreciseHostname) \in 0 .. 2 - 1
      /\ Bit(u.PreciseHostname) \in 0 .. 2 - 1
  BY SpansAssumption DEF HTTPRoutePriorityTraits, Bit, PathBits
<1>1. /\ HeaderShift \in Nat \ {0} /\ l1 \in 0 .. HeaderShift - 1
      /\ m1 \in 0 .. HeaderShift - 1
      /\ a1 \in Nat /\ b1 \in Nat
      /\ Ahead(t.QueryParamCount, u.QueryParamCount, o, p) => l1 > m1
  <2>1. Digits(QueryShift, QuerySpan, t.QueryParamCount, u.QueryParamCount, o, p)
    BY <1>0, Digit, SpansAssumption DEF QueryShift
  <2> QED
    BY <2>1 DEF Digits, l1, m1, a1, b1, HeaderShift
<1>2. /\ MethodShift \in Nat \ {0} /\ l2 \in 0 .. MethodShift - 1
      /\ m2 \in 0 .. MethodShift - 1
      /\ a2 \in Nat /\ b2 \in Nat
      /\ Ahead(t.HeaderCount, u.HeaderCount, l1, m1) => l2 > m2
  <2>1. Digits(HeaderShift, HeaderSpan, t.HeaderCount, u.HeaderCount, l1, m1)
    BY <1>1, <1>0, Digit, SpansAssumption
  <2> QED
    BY <2>1 DEF Digits, l2, m2, a2, b2, MethodShift
<1>3. /\ PathShift \in Nat \ {0} /\ l3 \in 0 .. PathShift - 1 /\ m3 \in 0 .. PathShift - 1
      /\ a3 \in Nat /\ b3 \in Nat
      /\ Ahead(Bit(t.HasMethodMatch), Bit(u.HasMethodMatch), l2, m2) => l3 > m3
  <2>1. Digits(MethodShift, 2, Bit(t.HasMethodMatch), Bit(u.HasMethodMatch), l2, m2)
    BY <1>2, <1>0, Digit, SpansAssumption
  <2> QED
    BY <2>1 DEF Digits, l3, m3, a3, b3, PathShift
<1>4. /\ RegexShift \in Nat \ {0} /\ l4 \in 0 .. RegexShift - 1
      /\ m4 \in 0 .. RegexShift - 1
      /\ a4 \in Nat /\ b4 \in Nat
      /\ Ahead(PathBits(t), PathBits(u), l3, m3) => l4 > m4
  <2>1. Digits(PathShift, PathSpan, PathBits(t), PathBits(u), l3, m3)
    BY <1>3, <1>0, Digit, SpansAssumption
  <2> QED
    BY <2>1 DEF Digits, l4, m4, a4, b4, RegexShift
<1>5. /\ ExactShift \in Nat \ {0} /\ l5 \in 0 .. ExactShift - 1
      /\ m5 \in 0 .. ExactShift - 1
      /\ a5 \in Nat /\ b5 \in Nat
      /\ Ahead(Bit(t.PathType = "RegularExpression"),
               Bit(u.PathType = "RegularExpression"), l4, m4) => l5 > m5
  <2>1. Digits(RegexShift, 2, Bit(t.PathType = "RegularExpression"),
               Bit(u.PathType = "RegularExpression"), l4, m4)
    BY <1>4, <1>0, Digit, SpansAssumption
  <2> QED
    BY <2>1 DEF Digits, l5, m5, a5, b5, ExactShift
<1>6. /\ HostnameShift \in Nat \ {0} /\ l6 \in 0 .. HostnameShift - 1
      /\ m6 \in 0 .. HostnameShift - 1
      /\ a6 \in Nat /\ b6 \in Nat
      /\ Ahead(Bit(t.PathType = "Exact"), Bit(u.PathType = "Exact"), l5, m5) => l6 > m6
  <2>1. Digits(ExactShift, 2, Bit(t.PathType = "Exact"), Bit(u.PathType = "Exact"), l5, m5)
    BY <1>5, <1>0, Digit, SpansAssumption
  <2> QED
    BY <2>1 DEF Digits, l6, m6, a6, b6, HostnameShift
<1>7. /\ PreciseShift \in Nat \ {0} /\ l7 \in 0 .. PreciseShift - 1
      /\ m7 \in 0 .. PreciseShift - 1
      /\ a7 \in Nat /\ b7 \in Nat
      /\ Ahead(t.HostnameLength, u.HostnameLength, l6, m6) => l7 > m7
  <2>1. Digits(HostnameShift, HostnameSpan, t.HostnameLength, u.HostnameLength, l6, m6)
    BY <1>6, <1>0, Digit, SpansAssumption
  <2> QED
    BY <2>1 DEF Digits, l7, m7, a7, b7, PreciseShift
<1>8. /\ KindShift \in Nat \ {0} /\ l8 \in 0 .. KindShift - 1 /\ m8 \in 0 .. KindShift - 1
      /\ a8 \in Nat /\ b8 \in Nat
      /\ Ahead(Bit(t.PreciseHostname), Bit(u.PreciseHostname), l7, m7) => l8 > m8
  <2>1. Digits(PreciseShift, 2, Bit(t.PreciseHostname), Bit(u.PreciseHostname), l7, m7)
    BY <1>7, <1>0, Digit, SpansAssumption
  <2> QED
    BY <2>1 DEF Digits, l8, m8, a8, b8, KindShift
<1>9. /\ EncodeHTTPRoutePriority(t) = a8 + a7 + a6 + a5 + a4 + a2 + a3 + a1 + 2 * KindShift
      /\ EncodeHTTPRoutePriority(u) = b8 + b7 + b6 + b5 + b4 + b2 + b3 + b1 + 2 * KindShift
  BY DEF EncodeHTTPRoutePriority,
         a8, b8, a7, b7, a6, b6, a5, b5, a4, b4, a2, b2, a3, b3, a1, b1
<1>10. /\ EncodeHTTPRoutePriority(t) + o = 2 * KindShift + l8
       /\ EncodeHTTPRoutePriority(u) + p = 2 * KindShift + m8
  <2>1. /\ a1 \in Nat /\ a2 \in Nat /\ a3 \in Nat /\ a4 \in Nat
        /\ a5 \in Nat /\ a6 \in Nat /\ a7 \in Nat /\ a8 \in Nat
        /\ b1 \in Nat /\ b2 \in Nat /\ b3 \in Nat /\ b4 \in Nat
        /\ b5 \in Nat /\ b6 \in Nat /\ b7 \in Nat /\ b8 \in Nat
        /\ KindShift \in Nat
    BY <1>1, <1>2, <1>3, <1>4, <1>5, <1>6, <1>7, <1>8, Kind
  <2> QED
    BY <2>1, <1>9 DEF l1, m1, l2, m2, l3, m3, l4, m4, l5, m5, l6, m6, l7, m7, l8, m8
<1>11. Outranks(HTTPRouteRank(t), HTTPRouteRank(u)) => l8 > m8
  <2> SUFFICES ASSUME Outranks(HTTPRouteRank(t), HTTPRouteRank(u))
               PROVE  l8 > m8
    OBVIOUS
  <2>1. DOMAIN HTTPRouteRank(t) = 1 .. 8
    BY DEF HTTPRouteRank
  <2>2. /\ HTTPRouteRank(t)[1] = Bit(t.PreciseHostname)
        /\ HTTPRouteRank(u)[1] = Bit(u.PreciseHostname)
        /\ HTTPRouteRank(t)[2] = t.HostnameLength
        /\ HTTPRouteRank(u)[2] = u.HostnameLength
        /\ HTTPRouteRank(t)[3] = Bit(t.PathType = "Exact")
        /\ HTTPRouteRank(u)[3] = Bit(u.PathType = "Exact")
        /\ HTTPRouteRank(t)[4] = Bit(t.PathType = "RegularExpression")
        /\ HTTPRouteRank(u)[4] = Bit(u.PathType = "RegularExpression")
        /\ HTTPRouteRank(t)[5] = PathBits(t)
        /\ HTTPRouteRank(u)[5] = PathBits(u)
        /\ HTTPRouteRank(t)[6] = Bit(t.HasMethodMatch)
        /\ HTTPRouteRank(u)[6] = Bit(u.HasMethodMatch)
        /\ HTTPRouteRank(t)[7] = t.HeaderCount
        /\ HTTPRouteRank(u)[7] = u.HeaderCount
        /\ HTTPRouteRank(t)[8] = t.QueryParamCount
        /\ HTTPRouteRank(u)[8] = u.QueryParamCount
    BY DEF HTTPRouteRank
  <2> QED
    BY <2>1, <2>2, Outranks8, <1>0, <1>1, <1>2, <1>3, <1>4, <1>5, <1>6, <1>7, <1>8 DEF Ahead
<1> QED
  BY <1>8, <1>10, <1>11, Kind

----------------------------------------------------------------------------
(* GRPCRoutes. *)

(* With any order bits: the priority of a GRPCRoute match stays within its *)
(* kind, and the order bits never outweigh a trait.                        *)
LEMMA GRPCRouteLevels ==
    ASSUME NEW t \in GRPCRoutePriorityTraits, NEW u \in GRPCRoutePriorityTraits,
           NEW o \in 0 .. GRPCOrderSpan - 1, NEW p \in 0 .. GRPCOrderSpan - 1
    PROVE  /\ EncodeGRPCRoutePriority(t) + o \in KindShift .. KindShift + KindShift - 1
           /\ Outranks(GRPCRouteRank(t), GRPCRouteRank(u)) =>
                EncodeGRPCRoutePriority(t) + o > EncodeGRPCRoutePriority(u) + p
<1> DEFINE a1 == t.HeaderCount * GRPCHeaderShift
           b1 == u.HeaderCount * GRPCHeaderShift
           a2 == t.MethodLength * GRPCMethodShift
           b2 == u.MethodLength * GRPCMethodShift
           a3 == t.ServiceLength * GRPCServiceShift
           b3 == u.ServiceLength * GRPCServiceShift
           a4 == t.HostnameLength * GRPCHostnameShift
           b4 == u.HostnameLength * GRPCHostnameShift
           a5 == Bit(t.PreciseHostname) * GRPCPreciseShift
           b5 == Bit(u.PreciseHostname) * GRPCPreciseShift
           l1 == a1 + o
           m1 == b1 + p
           l2 == a2 + l1
           m2 == b2 + m1
           l3 == a3 + l2
           m3 == b3 + m2
           l4 == a4 + l3
           m4 == b4 + m3
           l5 == a5 + l4
           m5 == b5 + m4
<1> HIDE DEF a1, b1, a2, b2, a3, b3, a4, b4, a5, b5,
             l1, m1, l2, m2, l3, m3, l4, m4, l5, m5
<1>0. /\ t.HeaderCount \in 0 .. HeaderSpan - 1
      /\ u.HeaderCount \in 0 .. HeaderSpan - 1
      /\ t.MethodLength \in 0 .. MethodSpan - 1
      /\ u.MethodLength \in 0 .. MethodSpan - 1
      /\ t.ServiceLength \in 0 .. ServiceSpan - 1
      /\ u.ServiceLength \in 0 .. ServiceSpan - 1
      /\ t.HostnameLength \in 0 .. HostnameSpan - 1
      /\ u.HostnameLength \in 0 .. HostnameSpan - 1
      /\ Bit(t.PreciseHostname) \in 0 .. 2 - 1
      /\ Bit(u.PreciseHostname) \in 0 .. 2 - 1
  BY SpansAssumption DEF GRPCRoutePriorityTraits, Bit
<1>1. /\ GRPCMethodShift \in Nat \ {0} /\ l1 \in 0 .. GRPCMethodShift - 1
      /\ m1 \in 0 .. GRPCMethodShift - 1
      /\ a1 \in Nat /\ b1 \in Nat
      /\ Ahead(t.HeaderCount, u.HeaderCount, o, p) => l1 > m1
  <2>1. Digits(GRPCHeaderShift, HeaderSpan, t.HeaderCount, u.HeaderCount, o, p)
    BY <1>0, Digit, SpansAssumption DEF GRPCHeaderShift
  <2> QED
    BY <2>1 DEF Digits, l1, m1, a1, b1, GRPCMethodShift
<1>2. /\ GRPCServiceShift \in Nat \ {0} /\ l2 \in 0 .. GRPCServiceShift - 1
      /\ m2 \in 0 .. GRPCServiceShift - 1
      /\ a2 \in Nat /\ b2 \in Nat
      /\ Ahead(t.MethodLength, u.MethodLength, l1, m1) => l2 > m2
  <2>1. Digits(GRPCMethodShift, MethodSpan, t.MethodLength, u.MethodLength, l1, m1)
    BY <1>1, <1>0, Digit, SpansAssumption
  <2> QED
    BY <2>1 DEF Digits, l2, m2, a2, b2, GRPCServiceShift
<1>3. /\ GRPCHostnameShift \in Nat \ {0} /\ l3 \in 0 .. GRPCHostnameShift - 1
      /\ m3 \in 0 .. GRPCHostnameShift - 1
      /\ a3 \in Nat /\ b3 \in Nat
      /\ Ahead(t.ServiceLength, u.ServiceLength, l2, m2) => l3 > m3
  <2>1. Digits(GRPCServiceShift, ServiceSpan, t.ServiceLength, u.ServiceLength, l2, m2)
    BY <1>2, <1>0, Digit, SpansAssumption
  <2> QED
    BY <2>1 DEF Digits, l3, m3, a3, b3, GRPCHostnameShift
<1>4. /\ GRPCPreciseShift \in Nat \ {0} /\ l4 \in 0 .. GRPCPreciseShift - 1
      /\ m4 \in 0 .. GRPCPreciseShift - 1
      /\ a4 \in Nat /\ b4 \in Nat
      /\ Ahead(t.HostnameLength, u.HostnameLength, l3, m3) => l4 > m4
  <2>1. Digits(GRPCHostnameShift, HostnameSpan, t.HostnameLength, u.HostnameLength, l3, m3)
    BY <1>3, <1>0, Digit, SpansAssumption
  <2> QED
    BY <2>1 DEF Digits, l4, m4, a4, b4, GRPCPreciseShift
<1>5. /\ 2 * GRPCPreciseShift \in Nat \ {0} /\ l5 \in 0 .. 2 * GRPCPreciseShift - 1
      /\ m5 \in 0 .. 2 * GRPCPreciseShift - 1
      /\ a5 \in Nat /\ b5 \in Nat
      /\ Ahead(Bit(t.PreciseHostname), Bit(u.PreciseHostname), l4, m4) => l5 > m5
  <2>1. Digits(GRPCPreciseShift, 2, Bit(t.PreciseHostname), Bit(u.PreciseHostname), l4, m4)
    BY <1>4, <1>0, Digit, SpansAssumption
  <2> QED
    BY <2>1 DEF Digits, l5, m5, a5, b5
<1>6. /\ EncodeGRPCRoutePriority(t) = a5 + a4 + a3 + a2 + a1 + KindShift
      /\ EncodeGRPCRoutePriority(u) = b5 + b4 + b3 + b2 + b1 + KindShift
  BY DEF EncodeGRPCRoutePriority,
         a5, b5, a4, b4, a3, b3, a2, b2, a1, b1
<1>7. /\ EncodeGRPCRoutePriority(t) + o = KindShift + l5
      /\ EncodeGRPCRoutePriority(u) + p = KindShift + m5
  <2>1. /\ a1 \in Nat /\ a2 \in Nat /\ a3 \in Nat /\ a4 \in Nat /\ a5 \in Nat
        /\ b1 \in Nat /\ b2 \in Nat /\ b3 \in Nat /\ b4 \in Nat /\ b5 \in Nat
        /\ KindShift \in Nat
    BY <1>1, <1>2, <1>3, <1>4, <1>5, Kind
  <2> QED
    BY <2>1, <1>6 DEF l1, m1, l2, m2, l3, m3, l4, m4, l5, m5
<1>8. Outranks(GRPCRouteRank(t), GRPCRouteRank(u)) => l5 > m5
  <2> SUFFICES ASSUME Outranks(GRPCRouteRank(t), GRPCRouteRank(u))
               PROVE  l5 > m5
    OBVIOUS
  <2>1. DOMAIN GRPCRouteRank(t) = 1 .. 5
    BY DEF GRPCRouteRank
  <2>2. /\ GRPCRouteRank(t)[1] = Bit(t.PreciseHostname)
        /\ GRPCRouteRank(u)[1] = Bit(u.PreciseHostname)
        /\ GRPCRouteRank(t)[2] = t.HostnameLength
        /\ GRPCRouteRank(u)[2] = u.HostnameLength
        /\ GRPCRouteRank(t)[3] = t.ServiceLength
        /\ GRPCRouteRank(u)[3] = u.ServiceLength
        /\ GRPCRouteRank(t)[4] = t.MethodLength
        /\ GRPCRouteRank(u)[4] = u.MethodLength
        /\ GRPCRouteRank(t)[5] = t.HeaderCount
        /\ GRPCRouteRank(u)[5] = u.HeaderCount
    BY DEF GRPCRouteRank
  <2> QED
    BY <2>1, <2>2, Outranks5, <1>0, <1>1, <1>2, <1>3, <1>4, <1>5 DEF Ahead
<1> QED
  BY <1>5, <1>7, <1>8, Kind, WidthAssumption

----------------------------------------------------------------------------
(* Ingresses. *)

(* The fields of the word, from the highest.                               *)
PackedRank(t) ==
    <<t.MatchFields, AtMost(HeaderNumberSpan - 1, t.HeaderCount), Bit(t.PlainHostOnly),
      Bit(t.HasRegexPath), AtMost(IngressPathSpan - 1, t.MaxPathLength)>>

(* The priority of a route of an Ingress stays within its kind, and is     *)
(* compared trait by trait, the length of paths and the number of headers  *)
(* up to their limits.  The bits kept for later are 0.                     *)
LEMMA IngressLevels ==
    ASSUME NEW t \in IngressRoutePriorityTraits, NEW u \in IngressRoutePriorityTraits
    PROVE  /\ EncodeIngressPriority(t) \in 3 * KindShift .. 3 * KindShift + KindShift - 1
           /\ Outranks(PackedRank(t), PackedRank(u)) =>
                EncodeIngressPriority(t) > EncodeIngressPriority(u)
<1> DEFINE a1 == AtMost(IngressPathSpan - 1, t.MaxPathLength)
           b1 == AtMost(IngressPathSpan - 1, u.MaxPathLength)
           a2 == Bit(t.HasRegexPath) * IngressRegexShift
           b2 == Bit(u.HasRegexPath) * IngressRegexShift
           a3 == 0 * (2 * IngressRegexShift)
           b3 == 0 * (2 * IngressRegexShift)
           a4 == Bit(t.PlainHostOnly) * PlainHostShift
           b4 == Bit(u.PlainHostOnly) * PlainHostShift
           a5 == AtMost(HeaderNumberSpan - 1, t.HeaderCount) * HeaderNumberShift
           b5 == AtMost(HeaderNumberSpan - 1, u.HeaderCount) * HeaderNumberShift
           a6 == t.MatchFields * MatchFieldsShift
           b6 == u.MatchFields * MatchFieldsShift
           l1 == a1
           m1 == b1
           l2 == a2 + l1
           m2 == b2 + m1
           l3 == a3 + l2
           m3 == b3 + m2
           l4 == a4 + l3
           m4 == b4 + m3
           l5 == a5 + l4
           m5 == b5 + m4
           l6 == a6 + l5
           m6 == b6 + m5
<1> HIDE DEF a1, b1, a2, b2, a3, b3, a4, b4, a5, b5, a6, b6,
             l1, m1, l2, m2, l3, m3, l4, m4, l5, m5, l6, m6
<1>0. /\ AtMost(IngressPathSpan - 1, t.MaxPathLength) \in 0 .. IngressPathSpan - 1
      /\ AtMost(IngressPathSpan - 1, u.MaxPathLength) \in 0 .. IngressPathSpan - 1
      /\ Bit(t.HasRegexPath) \in 0 .. 2 - 1
      /\ Bit(u.HasRegexPath) \in 0 .. 2 - 1
      /\ Bit(t.PlainHostOnly) \in 0 .. 2 - 1
      /\ Bit(u.PlainHostOnly) \in 0 .. 2 - 1
      /\ AtMost(HeaderNumberSpan - 1, t.HeaderCount) \in 0 .. HeaderNumberSpan - 1
      /\ AtMost(HeaderNumberSpan - 1, u.HeaderCount) \in 0 .. HeaderNumberSpan - 1
      /\ t.MatchFields \in 0 .. MatchFieldsSpan - 1
      /\ u.MatchFields \in 0 .. MatchFieldsSpan - 1
  BY SpansAssumption DEF IngressRoutePriorityTraits, Bit, AtMost
<1>1. /\ IngressRegexShift \in Nat \ {0} /\ l1 \in 0 .. IngressRegexShift - 1
      /\ m1 \in 0 .. IngressRegexShift - 1
      /\ a1 \in Nat /\ b1 \in Nat
      /\ AtMost(IngressPathSpan - 1, t.MaxPathLength)
           > AtMost(IngressPathSpan - 1, u.MaxPathLength) => l1 > m1
  BY <1>0, SpansAssumption DEF l1, m1, a1, b1, IngressRegexShift
<1>2. /\ 2 * IngressRegexShift \in Nat \ {0} /\ l2 \in 0 .. 2 * IngressRegexShift - 1
      /\ m2 \in 0 .. 2 * IngressRegexShift - 1
      /\ a2 \in Nat /\ b2 \in Nat
      /\ Ahead(Bit(t.HasRegexPath), Bit(u.HasRegexPath), l1, m1) => l2 > m2
  <2>1. Digits(IngressRegexShift, 2, Bit(t.HasRegexPath), Bit(u.HasRegexPath), l1, m1)
    BY <1>1, <1>0, Digit, SpansAssumption
  <2> QED
    BY <2>1 DEF Digits, l2, m2, a2, b2
<1>3. /\ PlainHostShift \in Nat \ {0} /\ l3 \in 0 .. PlainHostShift - 1
      /\ m3 \in 0 .. PlainHostShift - 1
      /\ a3 \in Nat /\ b3 \in Nat
      /\ Ahead(0, 0, l2, m2) => l3 > m3
  <2>1. Digits(2 * IngressRegexShift, PreservedSpan, 0, 0, l2, m2)
    BY <1>2, <1>0, Digit, SpansAssumption
  <2>2. PreservedSpan * (2 * IngressRegexShift) = PlainHostShift
    BY <1>1, SpansAssumption DEF PlainHostShift
  <2> QED
    BY <2>1, <2>2 DEF Digits, l3, m3, a3, b3
<1>4. /\ HeaderNumberShift \in Nat \ {0} /\ l4 \in 0 .. HeaderNumberShift - 1
      /\ m4 \in 0 .. HeaderNumberShift - 1
      /\ a4 \in Nat /\ b4 \in Nat
      /\ Ahead(Bit(t.PlainHostOnly), Bit(u.PlainHostOnly), l3, m3) => l4 > m4
  <2>1. Digits(PlainHostShift, 2, Bit(t.PlainHostOnly), Bit(u.PlainHostOnly), l3, m3)
    BY <1>3, <1>0, Digit, SpansAssumption
  <2> QED
    BY <2>1 DEF Digits, l4, m4, a4, b4, HeaderNumberShift
<1>5. /\ MatchFieldsShift \in Nat \ {0} /\ l5 \in 0 .. MatchFieldsShift - 1
      /\ m5 \in 0 .. MatchFieldsShift - 1
      /\ a5 \in Nat /\ b5 \in Nat
      /\ Ahead(AtMost(HeaderNumberSpan - 1, t.HeaderCount),
               AtMost(HeaderNumberSpan - 1, u.HeaderCount), l4, m4) => l5 > m5
  <2>1. Digits(HeaderNumberShift, HeaderNumberSpan, AtMost(HeaderNumberSpan - 1, t.HeaderCount),
               AtMost(HeaderNumberSpan - 1, u.HeaderCount), l4, m4)
    BY <1>4, <1>0, Digit, SpansAssumption
  <2> QED
    BY <2>1 DEF Digits, l5, m5, a5, b5, MatchFieldsShift
<1>6. /\ MatchFieldsSpan * MatchFieldsShift \in Nat \ {0}
      /\ l6 \in 0 .. MatchFieldsSpan * MatchFieldsShift - 1
      /\ m6 \in 0 .. MatchFieldsSpan * MatchFieldsShift - 1
      /\ a6 \in Nat /\ b6 \in Nat
      /\ Ahead(t.MatchFields, u.MatchFields, l5, m5) => l6 > m6
  <2>1. Digits(MatchFieldsShift, MatchFieldsSpan, t.MatchFields, u.MatchFields, l5, m5)
    BY <1>5, <1>0, Digit, SpansAssumption
  <2> QED
    BY <2>1 DEF Digits, l6, m6, a6, b6
<1>7. /\ EncodeIngressPriority(t) = a1 + a2 + a4 + a5 + a6 + 3 * KindShift
      /\ EncodeIngressPriority(u) = b1 + b2 + b4 + b5 + b6 + 3 * KindShift
  BY DEF EncodeIngressPriority,
         a1, b1, a2, b2, a4, b4, a5, b5, a6, b6
<1>8. /\ EncodeIngressPriority(t) = 3 * KindShift + l6
      /\ EncodeIngressPriority(u) = 3 * KindShift + m6
  <2>1. /\ a1 \in Nat /\ a2 \in Nat /\ a3 \in Nat /\ a4 \in Nat /\ a5 \in Nat /\ a6 \in Nat
        /\ b1 \in Nat /\ b2 \in Nat /\ b3 \in Nat /\ b4 \in Nat /\ b5 \in Nat /\ b6 \in Nat
        /\ KindShift \in Nat
    BY <1>1, <1>2, <1>3, <1>4, <1>5, <1>6, Kind
  <2>2. a3 = 0 /\ b3 = 0
    BY <1>1 DEF a3, b3
  <2> QED
    BY <2>1, <2>2, <1>7 DEF l1, m1, l2, m2, l3, m3, l4, m4, l5, m5, l6, m6
<1>9. Outranks(PackedRank(t), PackedRank(u)) => l6 > m6
  <2> SUFFICES ASSUME Outranks(PackedRank(t), PackedRank(u))
               PROVE  l6 > m6
    OBVIOUS
  <2>1. DOMAIN PackedRank(t) = 1 .. 5
    BY DEF PackedRank
  <2>2. /\ PackedRank(t)[1] = t.MatchFields
        /\ PackedRank(u)[1] = u.MatchFields
        /\ PackedRank(t)[2] = AtMost(HeaderNumberSpan - 1, t.HeaderCount)
        /\ PackedRank(u)[2] = AtMost(HeaderNumberSpan - 1, u.HeaderCount)
        /\ PackedRank(t)[3] = Bit(t.PlainHostOnly)
        /\ PackedRank(u)[3] = Bit(u.PlainHostOnly)
        /\ PackedRank(t)[4] = Bit(t.HasRegexPath)
        /\ PackedRank(u)[4] = Bit(u.HasRegexPath)
        /\ PackedRank(t)[5] = AtMost(IngressPathSpan - 1, t.MaxPathLength)
        /\ PackedRank(u)[5] = AtMost(IngressPathSpan - 1, u.MaxPathLength)
    BY DEF PackedRank
  <2> QED
    BY <2>1, <2>2, Outranks5, <1>0, <1>1, <1>2, <1>3, <1>4, <1>5, <1>6 DEF Ahead
<1> QED
  BY <1>6, <1>8, <1>9, Kind, WidthAssumption

----------------------------------------------------------------------------
(* What the routers see: 64-bit words with the order bits of ties added. *)

(* A match of an HTTPRoute that ranks higher, by precise hostname, length  *)
(* of the hostname, type and length of the path, method, headers and query *)
(* parameters in this order, gets the higher priority wherever the two     *)
(* stand among the ties they belong to, as long as the ties fit in their   *)
(* bits (httproute_atc.go, EncodeToPriority).                              *)
THEOREM HTTPRoutesOrdered ==
    ASSUME NEW t \in HTTPRoutePriorityTraits, NEW u \in HTTPRoutePriorityTraits,
           NEW i \in 0 .. OrderSpan - 1, NEW j \in 0 .. OrderSpan - 1,
           Outranks(HTTPRouteRank(t), HTTPRouteRank(u))
    PROVE  WithOrder(EncodeHTTPRoutePriority(t), RelativeOrderBits(OrderSpan, i))
             > WithOrder(EncodeHTTPRoutePriority(u), RelativeOrderBits(OrderSpan, j))
<1> DEFINE o == OrderSpan - 1 - i
           p == OrderSpan - 1 - j
<1>1. o \in 0 .. OrderSpan - 1 /\ p \in 0 .. OrderSpan - 1
  BY SpansAssumption
<1>2. RelativeOrderBits(OrderSpan, i) = o /\ RelativeOrderBits(OrderSpan, j) = p
  BY OrderBits, Kind, SpansAssumption
<1> HIDE DEF o, p
<1>3. /\ EncodeHTTPRoutePriority(t) + o \in 0 .. WordSpan - 1
      /\ EncodeHTTPRoutePriority(u) + p \in 0 .. WordSpan - 1
      /\ EncodeHTTPRoutePriority(t) + o > EncodeHTTPRoutePriority(u) + p
  BY <1>1, HTTPRouteLevels, Kind, SpansAssumption
<1> QED
  BY <1>2, <1>3, Fits, SpansAssumption DEF WithOrder

(* The same of two matches of GRPCRoutes, by precise hostname and the      *)
(* lengths of hostname, service and method and the number of headers.      *)
THEOREM GRPCRoutesOrdered ==
    ASSUME NEW t \in GRPCRoutePriorityTraits, NEW u \in GRPCRoutePriorityTraits,
           NEW i \in 0 .. GRPCOrderSpan - 1, NEW j \in 0 .. GRPCOrderSpan - 1,
           Outranks(GRPCRouteRank(t), GRPCRouteRank(u))
    PROVE  WithOrder(EncodeGRPCRoutePriority(t), RelativeOrderBits(GRPCOrderSpan, i))
             > WithOrder(EncodeGRPCRoutePriority(u), RelativeOrderBits(GRPCOrderSpan, j))
<1> DEFINE o == GRPCOrderSpan - 1 - i
           p == GRPCOrderSpan - 1 - j
<1>1. o \in 0 .. GRPCOrderSpan - 1 /\ p \in 0 .. GRPCOrderSpan - 1
  BY SpansAssumption
<1>2. RelativeOrderBits(GRPCOrderSpan, i) = o /\ RelativeOrderBits(GRPCOrderSpan, j) = p
  BY OrderBits, Kind, SpansAssumption
<1> HIDE DEF o, p
<1>3. /\ EncodeGRPCRoutePriority(t) + o \in 0 .. WordSpan - 1
      /\ EncodeGRPCRoutePriority(u) + p \in 0 .. WordSpan - 1
      /\ EncodeGRPCRoutePriority(t) + o > EncodeGRPCRoutePriority(u) + p
  BY <1>1, GRPCRouteLevels, Kind, SpansAssumption
<1> QED
  BY <1>2, <1>3, Fits, SpansAssumption DEF WithOrder

(* Of two routes of Ingresses the one that the comment on                  *)
(* calculateExpressionRoutePriority (ingress_atc.go) puts first, by the    *)
(* number of fields, plain hosts when both have hosts, headers, a regular  *)
(* expression and the length of the path, gets the higher priority,        *)
(* however many headers and however long a path - but for the pairs where  *)
(* EncodeToPriority decides by headers before plain hosts, or by the plain *)
(* host of the only route that has hosts.  On those, and on no others, it  *)
(* is the second route that gets the higher priority.                      *)
THEOREM IngressesOrdered ==
    ASSUME NEW t \in IngressRoutePriorityTraits, NEW u \in IngressRoutePriorityTraits,
           NEW bothHosts \in BOOLEAN,
           Outranks(IngressRouteRank(t, bothHosts), IngressRouteRank(u, bothHosts))
    PROVE  IF LayoutPrefers(u, t, bothHosts)
           THEN EncodeIngressPriority(u) > EncodeIngressPriority(t)
           ELSE EncodeIngressPriority(t) > EncodeIngressPriority(u)
<1> DEFINE f(x) == x.MatchFields
           h(x) == AtMost(HeaderNumberSpan - 1, x.HeaderCount)
           p(x) == Bit(x.PlainHostOnly)
           q(x) == Bit(bothHosts /\ x.PlainHostOnly)
           r(x) == Bit(x.HasRegexPath)
           l(x) == AtMost(IngressPathSpan - 1, x.MaxPathLength)
<1>1. \A x \in {t, u} : /\ f(x) \in Int /\ h(x) \in Int /\ p(x) \in Int /\ q(x) \in Int
                        /\ r(x) \in Int /\ l(x) \in Int
  BY SpansAssumption DEF IngressRoutePriorityTraits, Bit, AtMost
<1>2. /\ \/ f(t) > f(u)
         \/ f(t) = f(u) /\ q(t) > q(u)
         \/ f(t) = f(u) /\ q(t) = q(u) /\ h(t) > h(u)
         \/ f(t) = f(u) /\ q(t) = q(u) /\ h(t) = h(u) /\ r(t) > r(u)
         \/ f(t) = f(u) /\ q(t) = q(u) /\ h(t) = h(u) /\ r(t) = r(u) /\ l(t) > l(u)
  <2>1. /\ DOMAIN IngressRouteRank(t, bothHosts) = 1 .. 5
        /\ IngressRouteRank(t, bothHosts)[1] = f(t) /\ IngressRouteRank(u, bothHosts)[1] = f(u)
        /\ IngressRouteRank(t, bothHosts)[2] = q(t) /\ IngressRouteRank(u, bothHosts)[2] = q(u)
        /\ IngressRouteRank(t, bothHosts)[3] = h(t) /\ IngressRouteRank(u, bothHosts)[3] = h(u)
        /\ IngressRouteRank(t, bothHosts)[4] = r(t) /\ IngressRouteRank(u, bothHosts)[4] = r(u)
        /\ IngressRouteRank(t, bothHosts)[5] = l(t) /\ IngressRouteRank(u, bothHosts)[5] = l(u)
    BY DEF IngressRouteRank
  <2> HIDE DEF f, h, p, q, r, l
  <2> QED
    BY <2>1, Outranks5, <1>1
<1>3. \A x, y \in {t, u} :
        (\/ f(x) > f(y)
         \/ f(x) = f(y) /\ h(x) > h(y)
         \/ f(x) = f(y) /\ h(x) = h(y) /\ p(x) > p(y)
         \/ f(x) = f(y) /\ h(x) = h(y) /\ p(x) = p(y) /\ r(x) > r(y)
         \/ f(x) = f(y) /\ h(x) = h(y) /\ p(x) = p(y) /\ r(x) = r(y) /\ l(x) > l(y))
        => EncodeIngressPriority(x) > EncodeIngressPriority(y)
  <2> SUFFICES ASSUME NEW x \in {t, u}, NEW y \in {t, u},
                      \/ f(x) > f(y)
                      \/ f(x) = f(y) /\ h(x) > h(y)
                      \/ f(x) = f(y) /\ h(x) = h(y) /\ p(x) > p(y)
                      \/ f(x) = f(y) /\ h(x) = h(y) /\ p(x) = p(y) /\ r(x) > r(y)
                      \/ f(x) = f(y) /\ h(x) = h(y) /\ p(x) = p(y) /\ r(x) = r(y) /\ l(x) > l(y)
               PROVE  EncodeIngressPriority(x) > EncodeIngressPriority(y)
    OBVIOUS
  <2>1. /\ DOMAIN PackedRank(x) = 1 .. 5
        /\ PackedRank(x)[1] = f(x) /\ PackedRank(y)[1] = f(y)
        /\ PackedRank(x)[2] = h(x) /\ PackedRank(y)[2] = h(y)
        /\ PackedRank(x)[3] = p(x) /\ PackedRank(y)[3] = p(y)
        /\ PackedRank(x)[4] = r(x) /\ PackedRank(y)[4] = r(y)
        /\ PackedRank(x)[5] = l(x) /\ PackedRank(y)[5] = l(y)
    BY DEF PackedRank
  <2> HIDE DEF f, h, p, q, r, l
  <2>2. \E k \in 1 .. 5 : /\ PackedRank(x)[k] > PackedRank(y)[k]
                          /\ \A n \in 1 .. k - 1 : PackedRank(x)[n] = PackedRank(y)[n]
    BY <2>1
  <2>3. Outranks(PackedRank(x), PackedRank(y))
    BY <2>1, <2>2 DEF Outranks
  <2> QED
    BY <2>3, IngressLevels
<1>4. /\ \A x \in {t, u} : p(x) = (IF x.PlainHostOnly THEN 1 ELSE 0)
      /\ \A x \in {t, u} : q(x) = (IF bothHosts /\ x.PlainHostOnly THEN 1 ELSE 0)
      /\ t.PlainHostOnly \in BOOLEAN /\ u.PlainHostOnly \in BOOLEAN
  BY DEF Bit, IngressRoutePriorityTraits
<1>5. LayoutPrefers(u, t, bothHosts) <=>
         /\ f(t) = f(u)
         /\ \/ bothHosts /\ t.PlainHostOnly /\ ~u.PlainHostOnly /\ h(u) > h(t)
            \/ ~bothHosts /\ ~t.PlainHostOnly /\ u.PlainHostOnly /\ h(u) = h(t)
  BY DEF LayoutPrefers
<1> HIDE DEF f, h, p, q, r, l
<1>6. CASE LayoutPrefers(u, t, bothHosts)
  BY <1>1, <1>3, <1>4, <1>5, <1>6
<1>7. CASE ~LayoutPrefers(u, t, bothHosts)
  BY <1>1, <1>2, <1>3, <1>4, <1>5, <1>7
<1> QED
  BY <1>6, <1>7

(* Of several matches with the same traits the earlier one, by age, name,  *)
(* rule and match, gets the higher priority, while they fit in the span.   *)
THEOREM TiesOrdered ==
    ASSUME NEW span \in {OrderSpan, GRPCOrderSpan}, NEW i \in 0 .. span - 1, NEW j \in 0 .. i - 1
    PROVE  RelativeOrderBits(span, j) > RelativeOrderBits(span, i)
<1>1. span \in Nat \ {0} /\ span <= WordSpan
  BY Kind, SpansAssumption
<1>2. j \in 0 .. span - 1
  BY <1>1
<1>3. RelativeOrderBits(span, i) = span - 1 - i
  BY <1>1, OrderBits
<1>4. RelativeOrderBits(span, j) = span - 1 - j
  BY <1>1, <1>2, OrderBits
<1> QED
  BY <1>1, <1>2, <1>3, <1>4

(* Whatever their traits, a route of an Ingress comes before one of an     *)
(* HTTPRoute, this before one of a GRPCRoute, and the default backend of   *)
(* an Ingress last; no priority leaves the 64-bit word.                    *)
THEOREM KindsOrdered ==
    ASSUME NEW t \in IngressRoutePriorityTraits, NEW u \in HTTPRoutePriorityTraits,
           NEW v \in GRPCRoutePriorityTraits,
           NEW i \in 0 .. OrderSpan - 1, NEW j \in 0 .. GRPCOrderSpan - 1
    PROVE  LET ingress == EncodeIngressPriority(t)
               http == WithOrder(EncodeHTTPRoutePriority(u), RelativeOrderBits(OrderSpan, i))
               grpc == WithOrder(EncodeGRPCRoutePriority(v), RelativeOrderBits(GRPCOrderSpan, j))
           IN WordSpan > ingress /\ ingress > http /\ http > grpc
                /\ grpc > IngressDefaultBackendPriority
<1> DEFINE o == OrderSpan - 1 - i
           p == GRPCOrderSpan - 1 - j
<1>1. o \in 0 .. OrderSpan - 1 /\ p \in 0 .. GRPCOrderSpan - 1
  BY SpansAssumption
<1>2. RelativeOrderBits(OrderSpan, i) = o /\ RelativeOrderBits(GRPCOrderSpan, j) = p
  BY OrderBits, Kind, SpansAssumption
<1> HIDE DEF o, p
<1>3. EncodeIngressPriority(t) \in 3 * KindShift .. 3 * KindShift + KindShift - 1
  BY IngressLevels
<1>4. EncodeHTTPRoutePriority(u) + o \in 2 * KindShift .. 2 * KindShift + KindShift - 1
  BY <1>1, HTTPRouteLevels
<1>5. EncodeGRPCRoutePriority(v) + p \in KindShift .. KindShift + KindShift - 1
  BY <1>1, GRPCRouteLevels
<1>6. /\ EncodeHTTPRoutePriority(u) + o \in 0 .. WordSpan - 1
      /\ EncodeGRPCRoutePriority(v) + p \in 0 .. WordSpan - 1
  BY <1>4, <1>5, Kind, SpansAssumption
<1>7. /\ WithOrder(EncodeHTTPRoutePriority(u), o) = EncodeHTTPRoutePriority(u) + o
      /\ WithOrder(EncodeGRPCRoutePriority(v), p) = EncodeGRPCRoutePriority(v) + p
  BY <1>6, Fits, SpansAssumption DEF WithOrder
<1> QED
  BY <1>2, <1>3, <1>4, <1>5, <1>7, Kind, SpansAssumption DEF IngressDefaultBackendPriority
============================================================================
