---------------------------- MODULE MCRouteLookup ----------------------------
(* A wildcard route and literal routes that compete for the same requests.  *)
EXTENDS RouteLookup

CONSTANT Bad

MCLiterals == {"a", "b"}

MCNameOf == [s \in Placeholders |-> "id"]

MCConstraintOf == [s \in Placeholders |-> IF s = "{id|Bad}" THEN Bad ELSE None]

MCAccepts == [c \in {Bad} |-> {}]

\* The last pattern is refused half way and leaves a literal node "a".
RacedPatterns == {<<"{id}">>, <<"a">>, <<"a", "{id|Bad}">>}

IdAndA == {<<"{id}">>, <<"a">>}

RacedRequests == {<<"a">>, <<"b">>}

NoRegexMatches == [p \in RegexPatterns |-> {}]

=============================================================================
