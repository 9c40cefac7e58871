------------------------------ MODULE MCToolPair ------------------------------
EXTENDS ToolPair
\* One call id used in two sessions, and a second one.
Plain(what, name) == [form |-> "plain", what |-> what, name |-> name]
Results == {Plain("result", "c1")}
Readable == {Plain("meta", "A"), Plain("meta", "B"), Plain("call", "c1"),
             Plain("result", "c1"), Plain("result", "c2")}
Mixed == Readable \cup {[form |-> "oversize", what |-> "result", name |-> "c1"],
                        [form |-> "malformed", what |-> "result", name |-> "c1"],
                        [form |-> "rejected", what |-> "call", name |-> "c1"],
                        [form |-> "rejected", what |-> "meta", name |-> "B"]}
\* A log whose records are other events at the same places.
Swapped == {<<Plain("result", "c1"), Plain("call", "c1"), Plain("call", "c1")>>}
=============================================================================
