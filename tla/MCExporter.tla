------------------------------ MODULE MCExporter ------------------------------
EXTENDS Exporter

\* Two bodies that agree up to the cut and one that does not.
Long(t) == [head |-> "p", tail |-> t]
Short == [head |-> "q", tail |-> ""]
Rec(agent, form, body) == [agent |-> agent, form |-> form, body |-> body]

Of(f) ==
  CASE f = "codex"    -> {Rec(f, "head", NoBody), Rec(f, "say", Long("x")), Rec(f, "echo", Short),
                          Rec(f, "web", Short)}
    [] f = "claude"   -> {Rec(f, "say", Long("x")), Rec(f, "say", Long("y")), Rec(f, "act", Short)}
    [] f = "opencode" -> {Rec(f, "say", Short), Rec(f, "act", NoBody)}
Odd == {Rec("none", "bad", NoBody), Rec("none", "note", NoBody)}

Logs(records, n) == UNION {[1..k -> records] : k \in 0..n}
Appends == {Rec("codex", "say", Long("x")), Rec("claude", "say", Long("y"))}

Export(todo, format, channel, dedup, cut) ==
  [command |-> "export", todo |-> todo, format |-> format, hint |-> "claude", channel |-> channel,
   dedup |-> dedup, cut |-> cut, stats |-> FALSE]
Install(explicit, force, home) ==
  [command |-> "install", todo |-> <<"claude.md", "codex.md">>, explicit |-> explicit,
   force |-> force, home |-> home]

Paths == {"clean.jsonl", "summary.json", "claude.md", "codex.md"}
Skills == {"claude.md", "codex.md"}
Empty == [d \in Paths |-> "absent"]

Scene(records, call, found, used) ==
  [log |-> records, request |-> call, dir |-> found, meddling |-> used,
   runs |-> IF used = 0 THEN 0 ELSE MaxRuns - 1]

\* Conversions: short logs of an agent with odd records in it, undisturbed outputs.
Auto(cut) == Export(<<"clean.jsonl">>, "auto", "both", TRUE, cut)
Conversions ==
  {Scene(l, Auto(FALSE), Empty, MaxMeddling) : l \in UNION {Logs(Of(f) \cup Odd, 2) : f \in Formats}}
  \cup
  {Scene(l, Auto(TRUE), Empty, MaxMeddling) :
     l \in [1..3 -> Of("claude")] \cup [1..3 -> Of("codex") \ {Rec("codex", "head", NoBody)}]}
  \cup
  {Scene(l, Export(<<"clean.jsonl">>, "codex", c, FALSE, FALSE), Empty, MaxMeddling) :
     l \in Logs(Of("codex"), 1), c \in {"terminal", "api"}}
  \cup
  {Scene(l, [Auto(FALSE) EXCEPT !.stats = TRUE], Empty, MaxMeddling) : l \in Logs(Appends, 1)}

\* Outputs: a log that does not grow, every state of two destinations, and other processes.
Full == [i \in 1..MaxRecords |-> Rec("codex", "web", Short)]
Found(paths, contents) == {g \in [Paths -> contents \cup {"absent"}] : \A d \in Paths \ paths : g[d] = "absent"}
Outputs ==
  {Scene(Full, Export(todo, "codex", "terminal", TRUE, FALSE), g, 0) :
     todo \in {<<"clean.jsonl">>, <<"clean.jsonl", "summary.json">>},
     g \in Found(Paths \ Skills, {"old", "input", "link", "folder"})}
Installations ==
  {Scene(Full, Install(e, f, h), g, 0) :
     e \in BOOLEAN, f \in BOOLEAN, h \in [Skills -> {"missing", "there", "linked"}],
     g \in Found(Skills, {"old", "link"})}

AllScenes == Conversions \cup Outputs \cup Installations
=============================================================================
