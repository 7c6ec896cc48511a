--------------------------- MODULE MCBuzzIdentity ---------------------------
(***************************************************************************)
(* Batches of up to two events whose messages quote every kind of line the *)
(* parser looks for (another channel's and another sender's lines, both    *)
(* forms of the header, separators trimmed or not), behind contexts that   *)
(* quote them, too, with whole blocks among them; and every other prompt   *)
(* of up to five lines over one line of each kind the parser treats        *)
(* differently.                                                            *)
(***************************************************************************)
EXTENDS BuzzIdentity

CONSTANTS c1, c2, p1, p2

Quotable == {Plain("other"), Plain("separator"), Indented(Plain("separator")),
             Plain("single"), MultiHeader(1), Channel(<<c2>>), From(<<p2>>)}
Blocks == {<<>>, <<Plain("separator")>>, <<Channel(<<c2>>)>>, <<Plain("unclosed")>>,
           <<Plain("single")>>, <<Plain("single"), Channel(<<c2>>)>>,
           <<Plain("single"), From(<<p2>>)>>, <<MultiHeader(2)>>,
           <<MultiHeader(2), Plain("separator"), From(<<p2>>)>>}
AnyLine == {MultiHeader(2), Plain("single"), Indented(Plain("separator")),
            Channel(<<c2, c1>>), Channel(<<Malformed>>),
            From(<<p1>>), From(<<p2>>), From(<<Malformed>>)}
NamesOfPeople == {<<>>, <<c2, p2>>}

(* Both units, without and with a default to fall back to, with an empty   *)
(* flag, and with one that decides.                                        *)
Unset == [user_id |-> "unset", default_user_id |-> "unset",
          host |-> "buzz", host_unit |-> "channel"]
SomeSetups == {Unset, [Unset EXCEPT !.host_unit = "sender", !.user_id = "empty",
                                    !.default_user_id = "set"],
               [Unset EXCEPT !.user_id = "set", !.default_user_id = "set"]}
=============================================================================
