-------------------------- MODULE MCFailureReport --------------------------
(* Two threads, two sites in functions "f" and "fg", types named "a" and    *)
(* "ab": one name is a prefix of the other.                                 *)
EXTENDS FailureReport

Failed(k, s, f, t, a) == [kind |-> k, site |-> s, found |-> f, test |-> t, alloc |-> a]
MCFailure == {Failed("type", "site1", "A", "A", "AB"),
              Failed("type", "site2", "A", "AB", "A"), Failed("derive", "site1", NoType, NoType, NoType),
              Failed("deref", "site2", NoType, NoType, NoType)}
MCNameOf == [A |-> <<"a">>, AB |-> <<"a", "b">>, site1 |-> <<"f">>, site2 |-> <<"f", "g">>]
\* No suppression; a malformed one before a good one; a good one before that.
MCLists == {<<>>,
            << << <<"a">>, <<"f">> >>, << <<"a", "*">>, <<"*">>, <<"*">> >> >>,
            << << <<"a", "b">>, <<"f", "*">>, <<"a">> >>, << <<"b">>, <<"f">> >> >>}
=============================================================================
