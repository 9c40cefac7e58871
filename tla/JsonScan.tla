------------------------------- MODULE JsonScan -------------------------------
(***************************************************************************)
(* The structural scanner of the fixed JSON export                         *)
(* (src/query/export_v2.rs): it walks the bytes of one JSON document and   *)
(* finds the range of each element of its top-level `messages` array; a    *)
(* cheaper probe looks at the document's first bytes only.                 *)
(*                                                                         *)
(* A document is a sequence of symbols: the structural bytes, "q" a quote, *)
(* "esc" a backslash, "sp" and "nl" the blanks, "1" a digit, "null" a      *)
(* literal, and otherwise words of text, of which "info" and "messages"    *)
(* are read as keys.  Offsets are 0-based, as in the code.                 *)
(***************************************************************************)
EXTENDS Integers, Sequences, FiniteSets

CONSTANTS MaxNesting  \* MAX_DEPTH of the scanner, 256 in the code

Blanks == {"sp", "nl"}
Digits == {"1"}

\* ScanError, as the negative outcomes of a scan whose outcome is else an offset.
Eof == -1
Invalid == -2
Depth == -3
Fails(outcome) == outcome < 0

At(b, p) == IF p < Len(b) THEN b[p + 1] ELSE "end"

\* The first offset from p on that holds none of the symbols.
Past(b, p, symbols) ==
  CHOOSE i \in p..Len(b) : At(b, i) \notin symbols /\ \A j \in p..(i - 1) : At(b, j) \in symbols

\* skip_ws: it cannot fail, since no offset a scan goes on from lies past the end.
SkipWs(b, p) == Past(b, p, Blanks)
Ahead(b, p) == At(b, SkipWs(b, p))
Behind(b, p) == SkipWs(b, p) + 1

\* skip_string from behind its opening quote: an escape takes the next symbol with it.
RECURSIVE StringEnd(_, _)

\* Mutant of StringEnd: the escape is a symbol like any other.
StringEndNoEscape(b, p) ==
  LET close == Past(b, p, {b[i] : i \in DOMAIN b} \ {"q"})
  IN IF At(b, close) = "q" THEN close + 1 ELSE Eof

StringEnd(b, p) ==
  CASE At(b, p) = "end" -> Eof
    [] At(b, p) = "q" -> p + 1
    [] At(b, p) = "esc" -> StringEnd(b, p + 2)
    [] OTHER -> StringEnd(b, p + 1)

\* parse_key: the offset behind the key at p; a raw newline is no part of a JSON string.
KeyText(b, p, end) == SubSeq(b, p + 2, end - 1)
CheckedKey(b, p, end) ==
  IF Fails(end) THEN end
  ELSE IF \E i \in DOMAIN KeyText(b, p, end) : KeyText(b, p, end)[i] = "nl" THEN Invalid ELSE end
KeyEnd(b, p) == IF At(b, p) = "q" THEN CheckedKey(b, p, StringEnd(b, p + 1)) ELSE Invalid

\* The offset of the value of the member whose key ends at `end`.
ValueAfter(b, end) == IF Fails(end) THEN end ELSE IF Ahead(b, end) = ":" THEN Behind(b, end) ELSE Invalid

RECURSIVE SkipValue(_, _, _), SkipMembers(_, _, _, _)

\* skip_value, from the value's first symbol on: the offset behind it.
SkipFrom(b, v, depth) ==
  CASE At(b, v) = "end" -> Eof
    [] At(b, v) = "q" -> StringEnd(b, v + 1)
    [] At(b, v) \in {"{", "["} ->
         LET close == IF At(b, v) = "{" THEN "}" ELSE "]"
         IN IF Ahead(b, v + 1) = close THEN Behind(b, v + 1)
            ELSE SkipMembers(b, SkipWs(b, v + 1), close, depth)
    [] At(b, v) = "null" -> v + 1
    [] At(b, v) \in Digits -> Past(b, v, Digits)
    [] OTHER -> Invalid
SkipValue(b, p, depth) == IF depth > MaxNesting THEN Depth ELSE SkipFrom(b, SkipWs(b, p), depth)

\* The members from p to the closing bracket; after a comma one must follow.
SkipAt(b, value, depth) == IF Fails(value) THEN value ELSE SkipValue(b, value, depth)
AfterMember(b, next, close, depth) ==
  IF Fails(next) THEN next
  ELSE CASE Ahead(b, next) = "," -> SkipMembers(b, SkipWs(b, Behind(b, next)), close, depth)
         [] Ahead(b, next) = close -> Behind(b, next)
         [] OTHER -> Invalid
SkipMembers(b, p, close, depth) ==
  LET value == IF close = "}" THEN ValueAfter(b, KeyEnd(b, p)) ELSE p
  IN AfterMember(b, SkipAt(b, value, depth + 1), close, depth)

\* parse_messages: the ranges of the elements from the one at p on.
NoElements == [ok |-> FALSE, ranges |-> <<>>]

RECURSIVE ElementsFrom(_, _, _)

AfterElement(b, next, ranges) ==
  IF Fails(next) THEN NoElements
  ELSE CASE Ahead(b, next) = "," -> ElementsFrom(b, SkipWs(b, Behind(b, next)), ranges)
         [] Ahead(b, next) = "]" -> [ok |-> TRUE, ranges |-> ranges]
         [] OTHER -> NoElements
WithElement(b, p, next, ranges) == AfterElement(b, next, Append(ranges, <<p, next>>))
ElementsFrom(b, p, ranges) == WithElement(b, p, SkipValue(b, p, 0), ranges)

Elements(b, start) ==
  IF Ahead(b, start + 1) = "]" THEN [ok |-> TRUE, ranges |-> <<>>]
  ELSE ElementsFrom(b, SkipWs(b, start + 1), <<>>)

\* scan_document: where the info object lies and the elements of messages; of a key that comes
\* twice, the last counts.
NoDocument == [ok |-> FALSE, info |-> <<>>, messages |-> NoElements]

Noted(b, doc, key, value, next) ==
  CASE key = <<"info">> -> [doc EXCEPT !.info = <<value, next>>, !.ok = @ /\ At(b, value) = "{"]
    [] key = <<"messages">> ->
         LET elements == IF At(b, value) = "[" THEN Elements(b, value) ELSE NoElements
         IN [doc EXCEPT !.messages = elements, !.ok = @ /\ elements.ok]
    [] OTHER -> doc

RECURSIVE ScanFrom(_, _, _)

ScanEnded(b, p, doc) ==
  [doc EXCEPT !.ok = @ /\ Ahead(b, p) = "end" /\ doc.info # <<>> /\ doc.messages.ok]
AfterField(b, next, doc) ==
  CASE Ahead(b, next) = "," -> ScanFrom(b, Behind(b, next), doc)
    [] Ahead(b, next) = "}" -> ScanEnded(b, Behind(b, next), doc)
    [] OTHER -> NoDocument
WithField(b, doc, key, value, next) ==
  IF Fails(next) THEN NoDocument ELSE AfterField(b, next, Noted(b, doc, key, SkipWs(b, value), next))
FieldAt(b, doc, q, end) ==
  WithField(b, doc, KeyText(b, q, end), ValueAfter(b, end), SkipAt(b, ValueAfter(b, end), 0))
FieldFrom(b, doc, q) == FieldAt(b, doc, q, KeyEnd(b, q))
ScanFrom(b, p, doc) ==
  IF Ahead(b, p) = "}" THEN ScanEnded(b, Behind(b, p), doc) ELSE FieldFrom(b, doc, SkipWs(b, p))
ScanDocument(b) ==
  IF Ahead(b, 0) = "{" THEN ScanFrom(b, Behind(b, 0), [NoDocument EXCEPT !.ok = TRUE]) ELSE NoDocument

\* Mutant of CutShort: a value the prefix does not hold whole speaks against an export.
CutShortRefused(keys) == FALSE

\* The value of the last key is not whole in the prefix.
CutShort(keys) == <<"messages">> \in keys

\* probe_bytes: whether the document that starts with b may be an export.  At the end of a
\* truncated prefix it needs a key still to be read, or a value that is messages.
RECURSIVE ProbeFrom(_, _, _, _)

ProbeEnded(b, p, keys) == Ahead(b, p) = "end" /\ <<"messages">> \in keys
AfterProbed(b, next, truncated, keys) ==
  IF Fails(next) THEN CutShort(keys)
  ELSE CASE Ahead(b, next) = "," -> ProbeFrom(b, Behind(b, next), truncated, keys)
         [] Ahead(b, next) = "}" -> ProbeEnded(b, Behind(b, next), keys)
         [] OTHER -> FALSE
ProbeField(b, q, end, truncated, keys) ==
  CASE Fails(end) -> truncated /\ keys # {}
    [] ~Fails(end) /\ Ahead(b, end) = ":" ->
         AfterProbed(b, SkipValue(b, Behind(b, end), 0), truncated,
                     keys \cup ({KeyText(b, q, end)} \cap {<<"info">>, <<"messages">>}))
    [] OTHER -> FALSE
ProbeKey(b, q, truncated, keys) == ProbeField(b, q, KeyEnd(b, q), truncated, keys)
ProbeFrom(b, p, truncated, keys) ==
  IF Ahead(b, p) = "}" THEN ProbeEnded(b, Behind(b, p), keys)
  ELSE ProbeKey(b, SkipWs(b, p), truncated, keys)
Candidate(b, truncated) == Ahead(b, 0) = "{" /\ ProbeFrom(b, Behind(b, 0), truncated, {})
=============================================================================
