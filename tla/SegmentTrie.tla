---------------------------- MODULE SegmentTrie ----------------------------
(***************************************************************************)
(* The per-segment trie behind parameterised and prefix routes             *)
(* (httpserver/detail/segment_trie.hpp).                                   *)
(*                                                                         *)
(* A path is a sequence of segments.  A segment is a literal or the text   *)
(* of a placeholder such as {id} or {id|[0-9]+}; a request may carry       *)
(* either, a literal one in practice.  A node is named by the edges that   *)
(* lead to it from the root: a literal, or Wildcard for the one wildcard   *)
(* child a node may have.  A trie is a function from its nodes to what     *)
(* they hold, so DOMAIN trie is the set of nodes ever created.             *)
(***************************************************************************)
EXTENDS Integers, Sequences, FiniteSetsExt

CONSTANTS
  Literals,       \* literal segments
  Placeholders,   \* the text of placeholder segments
  NameOf,         \* the bare parameter name of a placeholder
  ConstraintOf,   \* the constraint of a placeholder, or None
  Accepts,        \* for each constraint, the segments its regex matches
  Uncompilable,   \* the constraints std::regex refuses
  Wildcard,       \* the edge to a node's wildcard child
  None            \* an absent optional or a null pointer

Segments == Literals \cup Placeholders

Constraints == {ConstraintOf[s] : s \in Placeholders} \ {None}

ASSUME SegmentAssumption ==
  /\ Literals \cap Placeholders = {}
  /\ Wildcard \notin Segments
  /\ DOMAIN NameOf = Placeholders
  /\ DOMAIN ConstraintOf = Placeholders
  /\ \A c \in Constraints : c \in DOMAIN Accepts
  /\ Uncompilable \subseteq Constraints

-----------------------------------------------------------------------------

\* {name} and {name|regex} are the two placeholder shapes.
is_wildcard_segment(seg) == seg \in Placeholders

\* The edge a registered segment is stored under.
EdgeOf(seg) == IF is_wildcard_segment(seg) THEN Wildcard ELSE seg

\* The node a registered pattern ends at.  Placeholder text is never a key
\* of children_, so the walk takes the wildcard child for every placeholder.
walk_registered_pattern(pattern) == [i \in DOMAIN pattern |-> EdgeOf(pattern[i])]

\* The node after the first n segments of a pattern.
NodeAt(pattern, n) == SubSeq(walk_registered_pattern(pattern), 1, n)

EmptyTrie ==
  [n \in {<< >>} |->
     [name |-> None, constraint |-> None, exact |-> None, prefix |-> None]]

\* The node created for a segment: a wildcard child takes its name and its
\* constraint from the first placeholder registered there.
NewNode(seg) ==
  [name       |-> IF is_wildcard_segment(seg) THEN NameOf[seg] ELSE None,
   constraint |-> IF is_wildcard_segment(seg) THEN ConstraintOf[seg] ELSE None,
   exact      |-> None,
   prefix     |-> None]

\* Mutant: every node on the way is created anew.
DescendReplacing(trie, pattern, n) ==
  LET way == {NodeAt(pattern, i) : i \in 1..n}
  IN  [node \in DOMAIN trie \cup way |->
         IF node \notin way THEN trie[node] ELSE NewNode(pattern[Len(node)])]

\* The trie with the nodes of the first n segments present; nodes that exist
\* are left as they are.
descend_or_create(trie, pattern, n) ==
  LET missing == {i \in 1..n : NodeAt(pattern, i) \notin DOMAIN trie}
  IN  [node \in DOMAIN trie \cup {NodeAt(pattern, i) : i \in missing} |->
         IF node \in DOMAIN trie THEN trie[node] ELSE NewNode(pattern[Len(node)])]

\* The depths at which inserting a pattern compiles a constraint that the
\* regex engine refuses.
BadDepths(trie, pattern) ==
  {i \in DOMAIN pattern :
     /\ is_wildcard_segment(pattern[i])
     /\ ConstraintOf[pattern[i]] \in Uncompilable
     /\ NodeAt(pattern, i) \notin DOMAIN trie}

InsertThrows(trie, pattern) == BadDepths(trie, pattern) # {}

\* What a throwing insert leaves behind: the nodes down to the offending one,
\* which is in the trie with its name and without a constraint.
TornInsert(trie, pattern) ==
  LET d == Min(BadDepths(trie, pattern))
  IN  [descend_or_create(trie, pattern, d) EXCEPT
         ![NodeAt(pattern, d)].constraint = None]

\* insert when it does not throw: it replaces a terminus of the same kind.
insert(trie, pattern, entry, is_prefix) ==
  LET grown == descend_or_create(trie, pattern, Len(pattern))
      node  == walk_registered_pattern(pattern)
  IN  IF is_prefix THEN [grown EXCEPT ![node].prefix = entry]
                   ELSE [grown EXCEPT ![node].exact = entry]

has_terminus_at(trie, pattern, is_prefix) ==
  LET node == walk_registered_pattern(pattern)
  IN  /\ node \in DOMAIN trie
      /\ IF is_prefix THEN trie[node].prefix # None ELSE trie[node].exact # None

\* Mutant: the exact terminus is cleared whatever was asked.
RemoveExactOnly(trie, pattern, is_prefix) ==
  IF ~has_terminus_at(trie, pattern, is_prefix) THEN trie
  ELSE [trie EXCEPT ![walk_registered_pattern(pattern)].exact = None]

\* remove clears a terminus and never collapses a branch.
remove(trie, pattern, is_prefix) ==
  LET node == walk_registered_pattern(pattern)
  IN  IF ~has_terminus_at(trie, pattern, is_prefix) THEN trie
      ELSE IF is_prefix THEN [trie EXCEPT ![node].prefix = None]
                        ELSE [trie EXCEPT ![node].exact = None]

-----------------------------------------------------------------------------

\* One step of a lookup: the literal child if there is one, else the wildcard
\* child if its constraint accepts the segment, else None.
step_to_child(trie, node, seg) ==
  LET literal == Append(node, seg)
      wild    == Append(node, Wildcard)
  IN  IF literal \in DOMAIN trie THEN literal
      ELSE IF /\ wild \in DOMAIN trie
              /\ trie[wild].constraint # None => seg \in Accepts[trie[wild].constraint]
           THEN wild
           ELSE None

\* The node a lookup is at after each number of segments, None once stuck.
Descent(trie, path) ==
  LET at[i \in 0..Len(path)] ==
        IF i = 0 THEN << >>
        ELSE IF at[i - 1] = None THEN None
        ELSE step_to_child(trie, at[i - 1], path[i])
  IN  at

\* The (name, value) pairs captured on the way to a node.
Captures(trie, node, path) ==
  LET pairs == [i \in DOMAIN node |->
                  [edge |-> node[i], name |-> trie[SubSeq(node, 1, i)].name,
                   value |-> path[i]]]
      taken == SelectSeq(pairs, LAMBDA p : p.edge = Wildcard)
  IN  [i \in DOMAIN taken |-> <<taken[i].name, taken[i].value>>]

\* find: an exact terminus when every segment was consumed, else the prefix
\* terminus of the deepest node passed, else None.  The descent never backs
\* up from a literal child to its wildcard sibling.
find(trie, path) ==
  LET at       == Descent(trie, path)
      reached  == {i \in 0..Len(path) : at[i] # None}
      prefixes == {i \in reached : trie[at[i]].prefix # None}
      Match(i, e, p) == [entry |-> e, is_prefix_match |-> p,
                         captures |-> Captures(trie, at[i], path)]
  IN  IF Len(path) \in reached /\ trie[at[Len(path)]].exact # None
      THEN Match(Len(path), trie[at[Len(path)]].exact, FALSE)
      ELSE IF prefixes # {}
      THEN Match(Max(prefixes), trie[at[Max(prefixes)]].prefix, TRUE)
      ELSE None

=============================================================================
