------------------------------ MODULE MCCatalog ------------------------------
EXTENDS Catalog

R == <<"R">>
S == <<"S">>
RA == <<"R", "a">>
RAX == <<"R", "a", "x">>
RB == <<"R", "b">>
SA == <<"S", "a">>
Names == <<R, RA, RAX, RB, S, SA>>

None == [agent |-> "none", id |-> "none", cwd |-> "none", epoch |-> 0, size |-> 0, flawed |-> FALSE]
Session(agent, id, epoch) ==
  [agent |-> agent, id |-> id, cwd |-> "w", epoch |-> epoch, size |-> 1, flawed |-> FALSE]
FileOf(f) == [kind |-> "file", file |-> f]
Node(kind) == [kind |-> kind, file |-> None]

One == FileOf(Session("codex", "i", 1))
Two == FileOf(Session("codex", "j", 2))
Large == FileOf([Session("codex", "j", 2) EXCEPT !.size = 2])
Huge == FileOf([Session("codex", "j", 2) EXCEPT !.size = 3])
Flawed == FileOf([None EXCEPT !.size = 1, !.flawed = TRUE])
Claude == FileOf([Session("claude", "i", 2) EXCEPT !.cwd = "w/sub"])
Files == {One, Two, Large, Huge, Flawed, Claude}
Odd == {Node("none"), Node("link"), Node("locked")}

Shape(a, x, b, s, c) ==
  [p \in Range(Names) |-> CASE p = R -> Node("dir") [] p = RA -> a [] p = RAX -> x
                            [] p = RB -> b [] p = S -> s [] p = SA -> c]
Forest ==
  {Shape(Node("dir"), x, b, Node("dir"), c) : x \in {One, Two, Node("link"), Node("dir")},
                                             b \in Files, c \in {One, Claude, Node("none")}}
  \cup {Shape(a, Node("none"), b, Node("none"), Node("none")) : a \in Odd \cup {One}, b \in {One, Two}}

NewNodes == {Node("none"), Node("dir"), Node("link"), One, Two}

Base == [command |-> "list", providers |-> <<"codex", "claude">>, roots |-> <<R, S>>, defaults |-> FALSE,
         id |-> "i", cwd |-> "any", children |-> FALSE, below |-> {"w/sub"}, scan_limit |-> 2, limit |-> 1]
Commands ==
  {Base, [Base EXCEPT !.providers = <<"codex">>, !.defaults = TRUE, !.scan_limit = 1],
   [Base EXCEPT !.cwd = "w", !.children = TRUE, !.limit = 2],
   [Base EXCEPT !.command = "resolve", !.providers = <<"codex">>],
   [Base EXCEPT !.command = "resolve", !.providers = <<"claude">>, !.defaults = TRUE]}
=============================================================================
