----------------------------- MODULE NameRegex ------------------------------
(***************************************************************************)
(* Regular expressions over names, nre.py of PyNDN: the tree of matchers,  *)
(* the search each performs, and the groups it leaves behind.              *)
(*                                                                         *)
(* A pattern is given as its tree, the parsing of the string left out.  A  *)
(* matcher is asked about a stretch of the name, so the stretch w stands   *)
(* for the name, the offset and the length.  The groups' matchResult are   *)
(* the function g: they live as long as the compiled pattern, and calls    *)
(* that fail write them too.                                               *)
(***************************************************************************)
EXTENDS Integers, Sequences, SequencesExt

CONSTANTS
    Components,     \* the components of names
    Patterns,       \* the patterns compiled
    MaxLength,      \* bound: the length of a name
    MaxCalls        \* bound: the calls on one compiled pattern

\* A record for each matcher.  Groups are numbered as __init__ appends them
\* to backRef.
Set(S) == [kind |-> "set", comps |-> S, include |-> TRUE]
NotSet(S) == [kind |-> "set", comps |-> S, include |-> FALSE]
List(items) == [kind |-> "list", items |-> items]
Group(i, items) == [kind |-> "group", id |-> i, items |-> <<List(items)>>]
Repeat(of, min, max) == [kind |-> "repeat", of |-> of, min |-> min, max |-> max]

NoLimit == 1000     \* sys.maxint
AnyStar == Repeat(NotSet({}), 0, NoLimit)

VARIABLES
    pattern,        \* the arguments of __init__: items, and whether ^ and $
    groups,         \* backRef
    groups2,        \* second_backRef
    secondaryUsed,
    last,           \* the last call and its answer
    calls           \* how many there were

vars == <<pattern, groups, groups2, secondaryUsed, last, calls>>

GroupIds == 1 .. 3
NoGroups == [i \in GroupIds |-> <<>>]

(***************************************************************************)
(* The search.  An answer is "yes", "no" or "never": that the recursion    *)
(* does not end.                                                           *)
(***************************************************************************)
Answer(a, g) == [is |-> a, groups |-> g]

\* The length tried in round k: from none upwards, or from all downwards.
Part(w, greedy, k) == IF greedy THEN Len(w) - k ELSE k

RECURSIVE Match(_, _, _, _)
RECURSIVE MatchList(_, _, _, _, _)
RECURSIVE MatchTimes(_, _, _, _, _, _)

\* _recursiveMatch and _aRecursiveMatch of BaseMatcher, from round k: the first
\* matcher takes a part of w and those after it the rest.
MatchList(items, w, g, greedy, k) ==
    IF items = <<>> THEN Answer(IF w = <<>> THEN "yes" ELSE "no", g)
    ELSE IF k > Len(w) THEN Answer("no", g)
    ELSE LET t == Part(w, greedy, k)
             first == Match(Head(items), SubSeq(w, 1, t), g, greedy)
             rest == MatchList(Tail(items), SubSeq(w, t + 1, Len(w)),
                               first.groups, greedy, 0)
         IN CASE first.is = "never" -> first
              [] first.is = "no" ->
                    MatchList(items, w, first.groups, greedy, k + 1)
              [] first.is = "yes" ->
                    IF rest.is # "no" THEN rest
                    ELSE MatchList(items, w, rest.groups, greedy, k + 1)

\* _recursiveMatch and _aRecursiveMatch of RepeatMatcher, after n repetitions.
\* A repetition that takes nothing leads to the same call again, for ever if
\* there is no limit.
MatchTimes(m, n, w, g, greedy, k) ==
    IF w # <<>> /\ n >= m.max THEN Answer("no", g)
    ELSE IF w = <<>> THEN Answer(IF n < m.min THEN "no" ELSE "yes", g)
    ELSE IF k > Len(w) THEN Answer("no", g)
    ELSE LET t == Part(w, greedy, k)
             first == Match(m.of, SubSeq(w, 1, t), g, greedy)
             rest == IF t = 0 /\ m.max = NoLimit
                     THEN Answer("never", first.groups)
                     ELSE MatchTimes(m, n + 1, SubSeq(w, t + 1, Len(w)),
                                     first.groups, greedy, 0)
         IN CASE first.is = "never" -> first
              [] first.is = "no" ->
                    MatchTimes(m, n, w, first.groups, greedy, k + 1)
              [] first.is = "yes" ->
                    IF rest.is # "no" THEN rest
                    ELSE MatchTimes(m, n, w, rest.groups, greedy, k + 1)

\* ComponentSetMatcher.match: one component, in the set or not.
MatchSet(m, w) == Len(w) = 1 /\ (m.include <=> w[1] \in m.comps)

\* A mutant of MatchRepeat: nothing is a match whatever the minimum.
MatchNothing(m, w, g, greedy) ==
    IF w = <<>> THEN Answer("yes", g)
    ELSE MatchTimes(m, 0, w, g, greedy, 0)

\* match and aggressiveMatch of RepeatMatcher: where there is nothing to repeat,
\* what the group of an earlier attempt or call holds stays in it.
MatchRepeat(m, w, g, greedy) ==
    IF m.min = 0 /\ w = <<>> THEN Answer("yes", g)
    ELSE MatchTimes(m, 0, w, g, greedy, 0)

\* A mutant of MatchGroup: the group is not emptied first.
AppendGroup(m, w, g, greedy) ==
    LET a == MatchList(m.items, w, g, greedy, 0)
    IN IF a.is = "yes" THEN Answer("yes", [a.groups EXCEPT ![m.id] = @ \o w]) ELSE a

\* match and aggressiveMatch of BaseMatcher, as BackRefMatcher inherits them.
MatchGroup(m, w, g, greedy) ==
    LET a == MatchList(m.items, w, [g EXCEPT ![m.id] = <<>>], greedy, 0)
    IN IF a.is = "yes" THEN Answer("yes", [a.groups EXCEPT ![m.id] = w]) ELSE a

Match(m, w, g, greedy) ==
    CASE m.kind = "set" -> Answer(IF MatchSet(m, w) THEN "yes" ELSE "no", g)
      [] m.kind = "list" -> MatchList(m.items, w, g, greedy, 0)
      [] m.kind = "group" -> MatchGroup(m, w, g, greedy)
      [] m.kind = "repeat" -> MatchRepeat(m, w, g, greedy)

(***************************************************************************)
(* The compiled pattern, RegexMatcher.                                     *)
(***************************************************************************)
Primary(p) == p.items \o (IF p.end THEN <<>> ELSE <<AnyStar>>)
Secondary(p) == <<AnyStar>> \o Primary(p)

\* matchName (greedy = FALSE) and matchN (greedy = TRUE).
Call(name, greedy) ==
    /\ calls < MaxCalls
    /\ LET first == MatchList(Primary(pattern), name, groups, greedy, 0)
           second == MatchList(Secondary(pattern), name, groups2, greedy, 0)
           tried == first.is = "no" /\ ~pattern.start
       IN /\ groups' = first.groups
          /\ groups2' = IF tried THEN second.groups ELSE groups2
          /\ secondaryUsed' = (tried /\ second.is # "never")
          /\ last' = [name |-> name, greedy |-> greedy,
                      answer |-> IF tried THEN second.is ELSE first.is]
    /\ calls' = calls + 1
    /\ UNCHANGED pattern

\* extract, for one reference of the rule.
Extract(i) == IF secondaryUsed THEN groups2[i] ELSE groups[i]

NoCall == [name |-> <<>>, greedy |-> FALSE, answer |-> "none"]

AllNames == UNION {[1 .. n -> Components] : n \in 0 .. MaxLength}

Init ==
    /\ pattern \in Patterns
    /\ groups = NoGroups /\ groups2 = NoGroups
    /\ secondaryUsed = FALSE
    /\ last = NoCall
    /\ calls = 0

Next == \E name \in AllNames, greedy \in BOOLEAN : Call(name, greedy)

Spec == Init /\ [][Next]_vars

(***************************************************************************)
(* What a pattern means: the reference the search is checked against.      *)
(***************************************************************************)
RECURSIVE In(_, _)
RECURSIVE InList(_, _)
RECURSIVE InTimes(_, _, _)

\* w is a concatenation of words of the items, or of n words of m.  A repetition
\* that must take place takes a component at least: this is not the usual
\* meaning of, say, (<a>*)+, but it is that of _recursiveMatch, which counts no
\* repetition once the stretch is empty.
InList(w, items) ==
    IF items = <<>> THEN w = <<>>
    ELSE \E t \in 0 .. Len(w) :
            /\ In(SubSeq(w, 1, t), Head(items))
            /\ InList(SubSeq(w, t + 1, Len(w)), Tail(items))

InTimes(w, m, n) ==
    IF n = 0 THEN w = <<>>
    ELSE \E t \in 0 .. Len(w) :
            In(SubSeq(w, 1, t), m) /\ InTimes(SubSeq(w, t + 1, Len(w)), m, n - 1)

In(w, m) ==
    CASE m.kind = "set" -> MatchSet(m, w)
      [] m.kind \in {"list", "group"} -> InList(w, m.items)
      [] m.kind = "repeat" ->
            IF w = <<>> THEN m.min = 0
            ELSE \E n \in 1 .. m.min + Len(w) :
                    n \in m.min .. m.max /\ InTimes(w, m.of, n)

\* The pattern matches a stretch of the name: from its start if there is a ^,
\* to its end if there is a $.
Matches(w, p) ==
    \E i \in 1 .. Len(w) + 1, j \in 0 .. Len(w) :
        /\ i <= j + 1
        /\ p.start => i = 1
        /\ p.end => j = Len(w)
        /\ InList(SubSeq(w, i, j), p.items)

\* A repetition without a limit, of something that may take nothing, is in m.
RECURSIVE MayNotEnd(_)
MayNotEnd(m) ==
    CASE m.kind = "set" -> FALSE
      [] m.kind \in {"list", "group"} ->
            \E i \in DOMAIN m.items : MayNotEnd(m.items[i])
      [] m.kind = "repeat" ->
            (m.max = NoLimit /\ In(<<>>, m.of)) \/ MayNotEnd(m.of)

\* The ways to cut w for the items, as lengths.
Piece(w, cut, i) ==
    LET before == FoldSeq(LAMBDA a, b : a + b, 0, SubSeq(cut, 1, i - 1))
    IN SubSeq(w, before + 1, before + cut[i])

Cuts(w, items) ==
    {cut \in [1 .. Len(items) -> 0 .. Len(w)] :
        /\ FoldSeq(LAMBDA a, b : a + b, 0, cut) = Len(w)
        /\ \A i \in DOMAIN items : In(Piece(w, cut, i), items[i])}

\* The ways to cut w, not empty, for the repetitions of m: the last takes
\* something.
Repetitions(w, m) ==
    LET most == IF m.max = NoLimit THEN Len(w) ELSE m.max
        times == {n \in 1 .. most : m.min <= n}
    IN {cut \in UNION {Cuts(w, [i \in 1 .. n |-> m.of]) : n \in times} :
           Last(cut) # 0}

\* The first in the search's order: at the first difference it is the shorter,
\* or in a greedy search the longer.
FirstOf(cuts, greedy) ==
    CHOOSE c \in cuts : \A d \in cuts \ {c} :
        \E i \in DOMAIN c \cap DOMAIN d :
            /\ \A k \in 1 .. i - 1 : c[k] = d[k]
            /\ IF greedy THEN c[i] > d[i] ELSE c[i] < d[i]

\* What the groups of m should hold when m has taken w, for those that take
\* part in it: a repetition leaves what its last turn leaves, and a group that
\* is not in it does not take part.
RECURSIVE Held(_, _, _)
HeldBy(items, w, greedy) ==
    LET cut == FirstOf(Cuts(w, items), greedy)
    IN UNION {Held(items[i], Piece(w, cut, i), greedy) : i \in DOMAIN items}

Held(m, w, greedy) ==
    CASE m.kind = "set" -> {}
      [] m.kind = "list" -> HeldBy(m.items, w, greedy)
      [] m.kind = "group" ->
            {[id |-> m.id, piece |-> w]} \cup HeldBy(m.items, w, greedy)
      [] m.kind = "repeat" ->
            IF w = <<>> THEN {}
            ELSE LET cut == FirstOf(Repetitions(w, m), greedy)
                 IN Held(m.of, Piece(w, cut, Len(cut)), greedy)

(***************************************************************************)
(* Properties.                                                             *)
(***************************************************************************)
\* A search finds a match exactly when there is one, the order in which lengths
\* are tried and the groups left from calls before never show; and it ends,
\* unless the pattern repeats without a limit what may take nothing.
AnswerIsRight ==
    last.answer # "none" =>
        IF last.answer = "never"
        THEN \E i \in DOMAIN pattern.items : MayNotEnd(pattern.items[i])
        ELSE last.answer = IF Matches(last.name, pattern) THEN "yes" ELSE "no"

\* After a match every group that takes part in it, nested ones included, holds
\* its piece of the first cut in the search's order, the shortest first for
\* matchName and the longest first for matchN, and a repeated group its last
\* repetition: what attempts that failed and calls before wrote is gone.  This
\* is said of no group that takes no part, one repeated no time or missing from
\* the last repetition around it: it keeps what such an attempt or call wrote.
GroupsAreOfTheMatch ==
    last.answer = "yes" =>
        LET items == IF secondaryUsed THEN Secondary(pattern) ELSE Primary(pattern)
        IN \A held \in HeldBy(items, last.name, last.greedy) :
              Extract(held.id) = held.piece
=============================================================================
