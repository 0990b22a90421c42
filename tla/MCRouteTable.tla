---------------------------- MODULE MCRouteTable ----------------------------
(* Small instances of RouteTable: two literals, two placeholders at one     *)
(* level, paths that share nodes, and a regex route.                        *)
EXTENDS RouteTable

CONSTANTS Num, Bad

MCLiterals == {"a", "7", "re"}

\* {id}, {n}, {n|Num} and {n|Bad}; no constraint accepts the text of a
\* placeholder, and std::regex refuses Bad.
MCNameOf == [s \in Placeholders |-> IF s = "{id}" THEN "id" ELSE "n"]

MCConstraintOf ==
  [s \in Placeholders |->
     IF s = "{n|Num}" THEN Num ELSE IF s = "{n|Bad}" THEN Bad ELSE None]

MCAccepts == [c \in {Num, Bad} |-> {"7"}]

MCRequests == {<< >>, <<"a">>, <<"7">>, <<"a", "a">>, <<"a", "7">>, <<"7", "a">>}

PlainPatterns == {<<"a">>, <<"{id}">>, <<"{n}", "a">>, <<"a", "7">>}

MixedPatterns == {<<"a">>, <<"{n|Num}">>, <<"a", "{n|Bad}">>, <<"re">>}

TwoNames == {<<"{id}">>, <<"{n|Num}", "a">>}

NestedBad == {<<"{id}", "7">>, <<"a", "{n|Bad}">>}

OneNum == {<<"{n|Num}">>}

\* The second pattern, read as a request, has the shape of the first.
Covered == {<<"{id}", "{n}">>, <<"{id}", "a">>}

CoveredBad == {<<"{id}", "{n}">>, <<"7", "{n|Bad}">>}

NoRegex == {}

OneRegex == {<<"re">>}

MCRegexMatches == [p \in RegexPatterns |-> {<<"a">>, <<"7">>, <<"a", "a">>}]

=============================================================================
