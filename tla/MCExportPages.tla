---------------------------- MODULE MCExportPages ----------------------------
EXTENDS ExportPages, SequencesExt

CONSTANT MaxNesting

ASSUME NestingAssumption == MaxNesting \in Nat

Json == INSTANCE JsonScan
Scan(b) == Json!ScanDocument(b)
IsCandidate(b, truncated) == Json!Candidate(b, truncated)

(* Documents put together from pieces; the pieces marked as elements are those a reader should    *)
(* find, so that where they lie is known without scanning.                                        *)
P(symbols) == [symbols |-> symbols, element |-> FALSE, parts |-> 0]
E(parts, symbols) == [symbols |-> symbols, element |-> TRUE, parts |-> parts]

Key(name) == P(<<"q", name, "q", ":">>)
Info(session) == P(<<"{", "q", session, "q", ":", "null", "}">>)
Mark(symbol) == P(<<symbol>>)

Say == E(1, <<"{", "q", "say", "q", ":", "1", "}">>)
Said == E(1, <<"{", "q", "say", "q", ":", "null", "}">>)
Twice == E(2, <<"{", "q", "say", "q", ":", "1", ",", "q", "say", "q", ":", "1", "}">>)
String == E(0, <<"q", "]", "esc", "q", ",", "q">>)
Hollow == E(0, <<"{", "q", "x", "q", ":", "[", "1", ",", "{", "}", "]", "}">>)
Deep == E(0, <<"[", "[", "[", "[", "]", "]", "]", "]">>)

Text(pieces) == FlattenSeq([i \in DOMAIN pieces |-> pieces[i].symbols])
Place(pieces, i) ==
  LET before == Text(SubSeq(pieces, 1, i - 1))
  IN [element |-> pieces[i].element, parts |-> pieces[i].parts, start |-> Len(before),
      end |-> Len(before) + Len(pieces[i].symbols),
      line |-> 1 + Cardinality({k \in DOMAIN before : before[k] = "nl"})]
Put(pieces, json, export) ==
  [bytes |-> Text(pieces), json |-> json, export |-> export,
   elements |-> SelectSeq([i \in DOMAIN pieces |-> Place(pieces, i)], LAMBDA e : e.element)]

Between(elements) ==
  FlattenSeq([i \in DOMAIN elements |->
                IF i = 1 THEN <<elements[i]>> ELSE <<Mark(","), Mark("nl"), elements[i]>>])
Messages(elements) == <<Key("messages"), Mark("[")>> \o Between(elements) \o <<Mark("]")>>
Plain(session, elements) ==
  <<Mark("{"), Key("info"), Info(session), Mark(","), Mark("nl")>> \o Messages(elements)
Export(session, elements) == Put(Append(Plain(session, elements), Mark("}")), TRUE, TRUE)

\* The elements of an array that is not the one of the export.
Hidden(pieces) == [i \in DOMAIN pieces |-> P(pieces[i].symbols)]

Samples ==
  << Export("s1", <<Say, String, Twice>>),
     Export("s1", <<Said, String, Twice>>),
     Export("s1", <<Say, Say, String, Twice>>),
     Export("s2", <<Hollow, Say>>),
     Export("none", <<>>),
     \* cut short while it is written
     Put(Hidden(Plain("s1", <<Say, String>>)), FALSE, FALSE),
     \* messages first, and a nested key and a text of that name
     Put(<<Mark("sp"), Mark("{")>> \o Messages(<<Say, String>>)
                \o <<Mark(","), Key("x"), Mark("{")>> \o Hidden(Messages(<<Say>>))
                \o <<Mark("}"), Mark(","), Key("info"), Info("messages"), Mark("}"), Mark("nl")>>,
              TRUE, TRUE),
     \* the key twice: the last one counts
     Put(Hidden(Plain("s1", <<String>>)) \o <<Mark(",")>> \o Messages(<<Say>>)
                \o <<Mark("}")>>, TRUE, TRUE),
     \* a comma too many, at the end or in the array
     Put(Hidden(Plain("s1", <<Say>>)) \o <<Mark(","), Mark("}")>>, FALSE, FALSE),
     Put(<<Mark("{")>> \o Hidden(Messages(<<Say, Mark("sp")>>)) \o <<Mark("}")>>, FALSE, FALSE),
     \* JSON that is no export
     Put(<<Mark("{"), Key("messages"), Mark("["), Mark("]"), Mark("}")>>, TRUE, FALSE),
     Put(<<Mark("{"), Key("info"), Info("s1"), Mark(","), Key("messages"), Mark("null"), Mark("}")>>,
              TRUE, FALSE),
     Put(<<Mark("["), Mark("]")>>, TRUE, FALSE),
     \* nested deeper than the scanner goes
     Put(Hidden(Append(Plain("s1", <<Deep>>), Mark("}"))), TRUE, FALSE),
     \* two lines of JSON
     Put(<<Mark("{"), Key("x"), Mark("null"), Mark("}"), Mark("nl"), Mark("{"), Mark("}")>>, FALSE, FALSE),
     Export("s1", <<Twice, Twice, Twice, Twice>>),
     Export("s1", <<Twice, Say, String>>) >>
=============================================================================
