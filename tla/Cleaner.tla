------------------------------- MODULE Cleaner -------------------------------
(***************************************************************************)
(* What the exporter makes of a record: detect_format (src/detect.rs),     *)
(* classify (src/classify.rs), keep_set and Cleaner::accept                *)
(* (src/clean.rs), as operators.                                           *)
(*                                                                         *)
(* A record is [agent, form, body]: which agent's schema it follows        *)
(* ("none" for a JSON value of no known schema), and what it is.  A body   *)
(* is [head, tail]: bodies with one head and different tails agree in      *)
(* their first --msg-chars characters and in their length.                 *)
(***************************************************************************)
EXTENDS Naturals, Sequences

Formats == {"codex", "claude", "opencode"}
Forms == {"head", "say", "echo", "act", "web", "note", "bad"}
NoBody == [head |-> "", tail |-> ""]
Record == [agent : Formats \cup {"none"}, form : Forms, body : [head : STRING, tail : STRING]]

Event(kind, body) == [kind |-> kind, body |-> body]

----------------------------------------------------------------------------
(* detect_format *)

NoHits == [f \in Formats |-> 0]

\* A record that parses counts for the one schema it has the type and keys of.
Hit(hits, r) ==
  [f \in Formats |-> hits[f] + (IF r.form # "bad" /\ r.agent = f THEN 1 ELSE 0)]

\* Mutant of Verdict: the path is believed before the records.
VerdictOfPath(hits, hint) ==
  IF hint # "none" THEN hint
  ELSE IF hits["opencode"] > hits["codex"] THEN "opencode"
  ELSE IF hits["claude"] > hits["codex"] THEN "claude" ELSE "codex"

\* The comparisons of detect_format; `hint` is hint_from_path, "none" if it has none.
Verdict(hits, hint) ==
  IF hits["opencode"] > hits["codex"] /\ hits["opencode"] > hits["claude"] THEN "opencode"
  ELSE IF hits["claude"] > hits["codex"] THEN "claude"
  ELSE IF hits["codex"] > 0 \/ hint = "none" THEN "codex" ELSE hint

----------------------------------------------------------------------------
(* classify *)

ParseError == Event("parse_error", NoBody)

ClassifyCodex(r) ==
  CASE r.form = "head" -> <<Event("session", NoBody)>>
    [] r.form = "say"  -> <<Event("user", r.body)>>
    [] r.form = "echo" -> <<Event("api_user", r.body)>>
    [] r.form = "act"  -> <<Event("tool_call", NoBody)>>
    [] r.form = "web"  -> <<Event("web_search", r.body)>>
    [] OTHER           -> <<Event("event_other", NoBody)>>

ClassifyClaude(r) ==
  CASE r.form = "say"  -> <<Event("user", r.body)>>
    [] r.form = "act"  -> <<Event("assistant", r.body), Event("tool_call", NoBody)>>
    [] r.form = "note" -> <<Event("injected", r.body)>>
    [] OTHER           -> <<Event("cc_meta", NoBody)>>

ClassifyOpencode(r) ==
  CASE r.form = "say"  -> <<Event("assistant", r.body)>>
    [] r.form = "act"  -> <<Event("tool_call", NoBody), Event("tool_output", NoBody)>>
    [] OTHER           -> <<Event("oc_other", NoBody)>>

\* A record read under another agent's schema has a type that schema does not know.
Classify(r, format) ==
  CASE r.form = "bad"     -> <<ParseError>>
    [] r.form # "bad" /\ r.agent # format -> <<Event("unknown", NoBody)>>
    [] r.form # "bad" /\ r.agent = format ->
         CASE format = "codex"    -> ClassifyCodex(r)
           [] format = "claude"   -> ClassifyClaude(r)
           [] format = "opencode" -> ClassifyOpencode(r)

\* synthesized_session_event: Claude Code records carry a cwd, OpenCode ones a sessionID.
Synthesizes(r, format) ==
  format \in {"claude", "opencode"} /\ r.agent = format /\ r.form # "bad"

----------------------------------------------------------------------------
(* keep_set and Cleaner::accept *)

TerminalKinds == {"session", "user", "assistant", "tool_call", "tool_output", "web_search", "parse_error"}
ApiKinds == {"session", "api_user", "tool_call", "tool_output", "web_search", "parse_error"}
ClaudeKinds == {"session", "user", "assistant", "tool_call", "tool_output", "injected", "parse_error"}
OpencodeKinds == {"session", "assistant", "tool_call", "tool_output", "parse_error"}
DedupTextKinds == {"user", "assistant", "api_user"}

KeepSet(format, channel) ==
  CASE format = "claude"   -> ClaudeKinds
    [] format = "opencode" -> OpencodeKinds
    [] format = "codex"    -> CASE channel = "terminal" -> TerminalKinds
                                [] channel = "api"      -> ApiKinds
                                [] channel = "both"     -> TerminalKinds \cup ApiKinds

\* truncate(text, msg_chars): the head, and the number of characters cut off.
Truncated(e, cut) ==
  IF cut /\ e.body.tail # "" /\ e.kind # "web_search"
  THEN [e EXCEPT !.body.tail = "cut"] ELSE e

NewCleaner == [seen_session |-> FALSE, last_text_key |-> <<>>, seen_web_search |-> {}]

Repeated(c, e, dedup) ==
  \/ e.kind = "session" /\ c.seen_session
  \/ dedup /\ e.kind \in DedupTextKinds /\ c.last_text_key = <<e.kind, e.body>>
  \/ dedup /\ e.kind = "web_search" /\ e.body \in c.seen_web_search

\* Mutant of Noted: any other event ends a run of repetitions.
NotedAnyKind(c, e, dedup) ==
  [seen_session    |-> c.seen_session \/ e.kind = "session",
   last_text_key   |-> IF dedup /\ e.kind \in DedupTextKinds THEN <<e.kind, e.body>> ELSE <<>>,
   seen_web_search |-> c.seen_web_search
                       \cup {b \in {e.body} : dedup /\ e.kind = "web_search"}]

Noted(c, e, dedup) ==
  [seen_session    |-> c.seen_session \/ e.kind = "session",
   last_text_key   |-> IF dedup /\ e.kind \in DedupTextKinds
                       THEN <<e.kind, e.body>> ELSE c.last_text_key,
   seen_web_search |-> c.seen_web_search
                       \cup {b \in {e.body} : dedup /\ e.kind = "web_search"}]
=============================================================================
