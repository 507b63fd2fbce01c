---------------------------- MODULE RoutePatterns ----------------------------
(***************************************************************************)
(* Routes, registration patterns and selectors of core/types/types.go: the *)
(* validations, as operators, and the loop of RouteMatchesPattern, one     *)
(* iteration a step, checked against what "*" and "**" mean.  A route or   *)
(* pattern is the sequence of its segments; the scheme is left out.        *)
(***************************************************************************)
EXTENDS Naturals, Integers, Sequences, FiniteSets

CONSTANTS
    Names,      \* plain segments
    Broken,     \* segments scanRoute refuses: empty, or with an embedded "*"
    MaxDepth    \* segments of a route or pattern

VARIABLES
    route,      \* a concrete route
    pattern,    \* a pattern or selector
    ri, pi,     \* routeIndex and patternIndex, from 0
    star,       \* lastDoubleWildcard, -1 before there is one
    starAt,     \* lastDoubleMatch
    result      \* what RouteMatchesPattern returns

routeVars == <<route, pattern, ri, pi, star, starAt, result>>

Depths(S) == UNION {[1 .. n -> S] : n \in 1 .. MaxDepth}
Wild == {"*", "**"}

RoutesInit ==
    /\ route \in Depths(Names)
    /\ pattern \in Depths(Names \cup Broken \cup Wild)
    /\ ri = 0 /\ pi = 0 /\ star = -1 /\ starAt = 0
    /\ result = "open"

-----------------------------------------------------------------------------
\* scanRoute: the shape of a well-formed route.
WellFormed(p) == \A i \in DOMAIN p : p[i] \notin Broken
WildAt(p) == {i \in DOMAIN p : p[i] \in Wild}
\* The index of the first wildcard, from 0; -1 without one.
WildcardIndex(p) == IF WildAt(p) = {} THEN -1 ELSE (CHOOSE i \in WildAt(p) : \A j \in WildAt(p) : i <= j) - 1
HasDouble(p) == \E i \in DOMAIN p : p[i] = "**"
DoubleCount(p) == Cardinality({i \in DOMAIN p : p[i] = "**"})

\* ValidateFixedRoute and ValidateConcreteRoute.
ValidateConcreteRoute(p) == WellFormed(p) /\ WildcardIndex(p) = -1
ValidateFixedRoute(p, n) == ValidateConcreteRoute(p) /\ Len(p) = n

\* For routes of n segments; 0 leaves the depth open.
ValidateRegistrationPattern(p, n) ==
    /\ WellFormed(p)
    /\ \/ n = 0
       \/ DoubleCount(p) = 0 /\ Len(p) = n
       \/ DoubleCount(p) > 0 /\ Len(p) - DoubleCount(p) <= n

ValidateScheduleSelector(p) ==
    /\ WellFormed(p) /\ WildcardIndex(p) # 0
    /\ \/ Len(p) = 2 /\ WildcardIndex(p) = 1 /\ HasDouble(p)
       \/ Len(p) = 3 /\ WildcardIndex(p) = 2 /\ ~HasDouble(p)
       \/ Len(p) = 4 /\ (WildcardIndex(p) = -1 \/ (WildcardIndex(p) = 3 /\ ~HasDouble(p)))

\* scheduleSelectorMatches: by the number of segments of the selector.
SameTo(p, r, n) == \A i \in 1 .. n : p[i] = r[i]
ScheduleSelectorMatches(p, r) ==
    /\ Len(r) = 4
    /\ \/ Len(p) = 2 /\ p[2] = "**" /\ SameTo(p, r, 1)
       \/ Len(p) = 3 /\ p[3] = "*" /\ SameTo(p, r, 2)
       \/ Len(p) = 4 /\ SameTo(p, r, 3) /\ p[4] \in {"*", r[4]}

ClassifyStreamSelector(p) ==
    IF p = <<"**">> THEN "global"
    ELSE IF Len(p) = 2 /\ p[2] = "**" /\ p[1] \notin Wild \cup Broken THEN "realm"
    ELSE IF Len(p) # 3 \/ ~WellFormed(p) \/ HasDouble(p) THEN "invalid"
    ELSE IF p[1] = "*" THEN "global"
    ELSE IF p[2] = "*" THEN "realm"
    ELSE IF p[3] = "*" THEN "area"
    ELSE "resource"

-----------------------------------------------------------------------------
\* The loop of RouteMatchesPattern.
InRoute == result = "open" /\ ri < Len(route)
AtPattern == pi < Len(pattern)
Takes == AtPattern /\ (pattern[pi + 1] = "*" \/ pattern[pi + 1] = route[ri + 1])
AtDouble == AtPattern /\ pattern[pi + 1] = "**"

TakeSegment ==
    /\ InRoute /\ Takes
    /\ pi' = pi + 1 /\ ri' = ri + 1
    /\ UNCHANGED <<route, pattern, star, starAt, result>>

EnterDouble ==
    /\ InRoute /\ ~Takes /\ AtDouble
    /\ star' = pi /\ starAt' = ri /\ pi' = pi + 1
    /\ UNCHANGED <<route, pattern, ri, result>>

\* A mismatch: the last "**" takes one segment more, or there is none.
FromHere == ri + 1
OneMore == starAt + 1

Backtrack ==
    /\ InRoute /\ ~Takes /\ ~AtDouble
    /\ \/ star < 0 /\ result' = "no" /\ UNCHANGED <<ri, pi, starAt>>
       \/ star >= 0 /\ starAt' = OneMore /\ ri' = OneMore /\ pi' = star + 1 /\ UNCHANGED result
    /\ UNCHANGED <<route, pattern, star>>

\* What is left of the pattern matches when it is all "**".
Rest ==
    /\ result = "open" /\ ri >= Len(route)
    /\ result' = IF \A i \in pi + 1 .. Len(pattern) : pattern[i] = "**" THEN "yes" ELSE "no"
    /\ UNCHANGED <<route, pattern, ri, pi, star, starAt>>

RoutesNext == TakeSegment \/ EnterDouble \/ Backtrack \/ Rest

-----------------------------------------------------------------------------
\* The meaning of a registration pattern or a stream selector: "*" stands for
\* one segment, "**" for any number of them.
\* Meets[i, j]: the pattern from segment i matches the route from segment j.
Meets(p, r) ==
    LET m[i \in 1 .. Len(p) + 1, j \in 1 .. Len(r) + 1] ==
            IF i > Len(p) THEN j > Len(r)
            ELSE IF p[i] = "**" THEN m[i + 1, j] \/ (j <= Len(r) /\ m[i, j + 1])
            ELSE j <= Len(r) /\ p[i] \in {"*", r[j]} /\ m[i + 1, j + 1]
    IN  m[1, 1]

Fresh == ri = 0 /\ pi = 0 /\ result = "open"
Of(n) == [1 .. n -> Names]

\* RouteMatchesPattern, which returns to its last "**" only, decides what the
\* wildcards mean.
MatchIsMeaning == WellFormed(pattern) /\ result # "open" => (result = "yes") = Meets(pattern, route)

\* A registration is accepted exactly when some route of the domain matches it:
\* three segments in kv, queue and lease, four in schedule, any depth in notice
\* and rpc.
RegistrationCanMatch ==
    Fresh => \A n \in {0, 3, 4} :
        ValidateRegistrationPattern(pattern, n) <=>
            \E r \in IF n = 0 THEN Depths(Names) ELSE Of(n) : Meets(pattern, r)

\* In a schedule selector the wildcard comes last and stands for everything
\* below it, "*" included: realm/area/* covers the two segments that are left.
Below(p) == IF WildcardIndex(p) = -1 THEN p ELSE Append(SubSeq(p, 1, WildcardIndex(p)), "**")

\* A schedule selector that is accepted selects the schedules below it.
SelectorIsPrefix ==
    Fresh /\ ValidateScheduleSelector(pattern) /\ ValidateFixedRoute(route, 4) =>
        (ScheduleSelectorMatches(pattern, route) <=> Meets(Below(pattern), route))

\* The scope of a stream selector is the narrowest level that holds every
\* resource it covers, so that its offsets are those of one ordering.
ScopeIsNarrowest ==
    Fresh =>
        LET covered == {r \in Of(3) : Meets(pattern, r)}
            shared(n) == \A r, s \in covered : SameTo(r, s, n)
        IN  CASE ClassifyStreamSelector(pattern) = "resource" -> shared(3)
              [] ClassifyStreamSelector(pattern) = "area" -> shared(2) /\ ~shared(3)
              [] ClassifyStreamSelector(pattern) = "realm" -> shared(1) /\ ~shared(2)
              [] ClassifyStreamSelector(pattern) = "global" -> ~shared(1)
              [] OTHER -> TRUE

\* What RouteMatchesPattern matches, ValidateRegistrationPattern accepts and
\* ClassifyStreamSelector takes for the scope is one meaning of "*" and "**";
\* scheduleSelectorMatches has another, in which a selector that
\* ValidateScheduleSelector accepts covers all that is below it.
PatternsMean == MatchIsMeaning /\ RegistrationCanMatch /\ SelectorIsPrefix /\ ScopeIsNarrowest
=============================================================================
