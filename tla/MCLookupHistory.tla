--------------------------- MODULE MCLookupHistory ---------------------------
(* Exact, placeholder and prefix routes that compete for one request.       *)
EXTENDS LookupHistory, TLC

MCLiterals == {"a"}

MCNameOf == [s \in Placeholders |-> "id"]

NoConstraint == [s \in Placeholders |-> None]

NoAccepts == [c \in {} |-> {}]

RacedPatterns == {<<"{id}">>, <<"a">>}

OneRequest == {<<"a">>}

NoRegexMatches == [p \in RegexPatterns |-> {}]

\* Threads are only told apart by where they are.
ThreadSymmetry == Permutations(Threads)

=============================================================================
