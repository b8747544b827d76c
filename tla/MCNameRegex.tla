---------------------------- MODULE MCNameRegex -----------------------------
(***************************************************************************)
(* Instances of NameRegex for TLC.                                         *)
(***************************************************************************)
EXTENDS NameRegex

a == Set({"a"})
b == Set({"b"})
Once(m) == Repeat(m, 1, 1)
Opt(m) == Repeat(m, 0, 1)
Plus(m) == Repeat(m, 1, NoLimit)
Star(m) == Repeat(m, 0, NoLimit)
Dot == NotSet({})
Whole(items) == [items |-> items, start |-> TRUE, end |-> TRUE]
Start(items) == [items |-> items, start |-> TRUE, end |-> FALSE]
Inside(items) == [items |-> items, start |-> FALSE, end |-> FALSE]

TwoComponents == {"a", "b"}

\* Patterns whose repetitions take at least a component each time.
PlainPatterns == {
    Whole(<<Group(1, <<Star(a)>>), Group(2, <<Star(Dot)>>)>>),
    Whole(<<Group(1, <<Opt(b)>>), Group(2, <<Plus(Dot)>>), Once(b)>>),
    Whole(<<Star(Group(1, <<Once(a)>>)), Once(a)>>),
    Whole(<<Plus(Group(1, <<Once(a), Star(b)>>))>>),
    Whole(<<Plus(Group(1, <<Opt(Group(2, <<Once(a)>>)), Once(b)>>)), Star(a)>>),
    Whole(<<Repeat(Group(1, <<Repeat(Dot, 1, 2)>>), 2, 3)>>),
    Start(<<Group(1, <<Star(NotSet({"a"}))>>), Once(a)>>),
    Inside(<<Group(1, <<Once(a)>>), Group(2, <<Plus(b)>>)>>),
    Inside(<<Repeat(b, 2, NoLimit), Group(1, <<Group(2, <<Star(a)>>)>>)>>),
    Whole(<<Repeat(a, 0, 2), Group(1, <<Opt(a), Group(2, <<Opt(b)>>)>>)>>) }

\* Patterns with a repetition that may take nothing, without and with a limit.
EmptyRepeats == {
    Whole(<<Star(Group(1, <<Star(a)>>)), Opt(b)>>),
    Whole(<<Plus(Group(1, <<Opt(a), Opt(Group(2, <<Once(b)>>))>>))>>),
    Whole(<<Repeat(Group(1, <<Opt(b)>>), 2, 3), Star(Dot)>>),
    Inside(<<Repeat(Group(1, <<Star(a)>>), 1, 2), Group(2, <<Opt(a)>>)>>) }

SomePatterns == PlainPatterns \cup EmptyRepeats
=============================================================================
