---------------------------- MODULE Viewer_proofs ----------------------------
(***************************************************************************)
(* Proofs about Viewer, for every log and the ways it changes, every       *)
(* sequence of invocations of the client and every value of the bounds.    *)
(*                                                                         *)
(* A client that follows its cursors misses nothing and sees nothing twice *)
(* because of what a scan holds while it runs: the first matching events   *)
(* behind the position of the cursor it began from, as many as the window  *)
(* has room for, and no match before the scan's position that is neither   *)
(* among them nor after all of them (Window).  What was shown before       *)
(* (Shows) and the part of the window that is shown now meet without gap   *)
(* or overlap (ShowPart, ShowAll), wherever the byte budget cuts the page. *)
(*                                                                         *)
(* All of this is about one file.  The scan reads the file it opened; when *)
(* that is not the file the invocation saw first, nothing is known of it,  *)
(* and the check after the scan withholds the cursor (RunInv).             *)
(***************************************************************************)
EXTENDS Viewer, SequenceTheorems, FiniteSetTheorems, TLAPS

----------------------------------------------------------------------------
(* What the client was shown, and what a scan holds, of a file rs *)

\* The matching events of a file, each with its true line number.
Matches(g, rs) ==
  {e \in [gen : {g}, rec : 1..Len(rs), sub : 0..1, line : 1..Len(rs)] :
     e.line = e.rec /\ Matching(rs[e.rec]) /\ e.sub < Subevents(rs[e.rec])}

\* Whether an event lies before an offset and a subevent.
Prior(e, off, sub) == e.rec - 1 < off \/ (e.rec - 1 = off /\ e.sub < sub)

Ordered(s) == \A i, j \in DOMAIN s : i < j => Before(s[i], s[j])

\* The events shown are the matches before a position, once and in order.
Shows(em, g, rs, off, sub) ==
  /\ \A i \in DOMAIN em : em[i] \in Matches(g, rs) /\ Prior(em[i], off, sub)
  /\ \A e \in Matches(g, rs) : Prior(e, off, sub) => \E i \in DOMAIN em : em[i] = e
  /\ Ordered(em)

\* The first w matches from a position up to the end of record hi.
Window(s, g, rs, off, sub, hi, w) ==
  /\ Len(s) <= w
  /\ \A i \in DOMAIN s : s[i] \in Matches(g, rs) /\ ~Prior(s[i], off, sub) /\ s[i].rec <= hi
  /\ \A e \in Matches(g, rs) :
       ~Prior(e, off, sub) /\ e.rec <= hi =>
         (\E i \in DOMAIN s : s[i] = e) \/ (Len(s) = w /\ Before(s[w], e))
  /\ Ordered(s)

----------------------------------------------------------------------------
(* The inductive invariant *)

\* Positions that are counted from one, where the code subtracts one.
Numbered(t) == IsPage(t) => t.line > 0

TypeIInv ==
  /\ TypeOK
  /\ Numbered(client.token) /\ Numbered(job.token)
  /\ \A i \in DOMAIN scan.selected : scan.selected[i].rec > 0 /\ scan.selected[i].line > 0
  /\ scan.uninspected # 0 => scan.line > 0

\* A cursor stands inside its file, behind inspected records only.
TokenOK(t, cap, rs) ==
  /\ t.off <= Len(rs)
  /\ t.sub > 0 => t.off < Len(rs) /\ t.sub < Subevents(rs[t.off + 1])
  /\ t.kind = "append" => t.sub = 0 /\ t.line = t.off /\ t.snap = 2 * t.off
  /\ IsPage(t) => /\ t.off < Len(rs) /\ t.line = t.off + 1
                  /\ 2 * (t.off + 1) <= t.snap
  /\ t.kind = "page" => /\ ~Oversize(rs[t.off + 1], cap)
                        /\ t.sub < Subevents(rs[t.off + 1])
  /\ \A i \in 1..t.off : ~Oversize(rs[i], cap)

TokenInv ==
  /\ client.token.kind = "none" => client.token = NoToken
  /\ client.token.kind # "none" =>
       client.token.gen <= gen /\ TokenOK(client.token, client.cap, recs[client.token.gen])

Running == pc # "idle"
Reading == pc \in {"scan", "check", "recheck", "render"}

\* What an invocation knows of the file: only when it was not replaced between
\* the open and the end of the scan does the response go by what was read.
RunInv ==
  /\ Running => /\ job.token = client.token /\ job.gen0 <= gen
                /\ job.limit \in PageLimits /\ answer = NoAnswer
  /\ (pc = "open" \/ Reading) /\ job.token.kind # "none" =>
       /\ job.token.gen = job.gen0
       /\ 2 * job.token.off <= job.len0 /\ job.token.snap <= job.len0
  /\ Reading => scan.handle \in job.gen0..gen
  /\ pc = "render" /\ ~scan.changed => scan.handle = job.gen0

\* The records a scan is through with.
Through == IF scan.uninspected = 0 THEN scan.pos ELSE scan.uninspected - 1

Unread == pc = "scan" /\ 2 * (scan.pos + 1) <= scan.boundary

ScanInv ==
  Reading /\ scan.handle = job.gen0 =>
    /\ scan.pos <= Len(recs[scan.handle]) /\ scan.line = scan.pos
    /\ 2 * scan.pos <= scan.boundary /\ scan.boundary <= job.len0
    /\ scan.uninspected # 0 => scan.uninspected = scan.pos /\ pc # "scan"
    /\ job.token.off <= Through
    /\ job.token.off = Through /\ job.token.sub > 0 => Unread
    /\ Window(scan.selected, scan.handle, recs[scan.handle], job.token.off, job.token.sub,
              Through, SelectWindow)
    /\ \A i \in 1..Through : ~Oversize(recs[scan.handle][i], client.cap)

IInv == TypeIInv /\ TokenInv /\ RunInv /\ ScanInv

----------------------------------------------------------------------------
(* The invariant of what is shown, when the retention holds the window *)

\* The selector keeps every primary of the window: the cap of its retention lies
\* above the number of events a page shows.
WindowFits == \A limit \in PageLimits : Lesser(limit, MaxEvents) < RetainCap

ShowInv ==
  /\ client.token.kind # "none" =>
       Shows(emitted, client.token.gen, recs[client.token.gen],
             client.token.off, client.token.sub)
  /\ Running /\ client.token.kind = "none" => emitted = <<>>

----------------------------------------------------------------------------
(* The invariant of the cursors, when the session of a log is settled *)

\* Every log begins with the record that names its session, or none names one.
HeaderFirst ==
  DiscoveryLines > 0 /\ \A r \in InitialRecords : r # <<>> /\ r[1] = "meta"
Nameless ==
  /\ \A k \in Kinds : ~NamesSession(k)
  /\ \A r \in InitialRecords : \A i \in DOMAIN r : ~NamesSession(r[i])
SessionSettled == HeaderFirst \/ Nameless

Settled == IF HeaderFirst THEN "id" ELSE "file"

\* A file begins with its header, or names no session, however it grows.
Told(rs) == IF HeaderFirst THEN rs # <<>> /\ rs[1] = "meta"
            ELSE \A i \in DOMAIN rs : ~NamesSession(rs[i])

\* The state of the log that a cursor carries is one it has been in.
CursorInv ==
  /\ \A g \in 1..MaxGens : Told(recs[g])
  /\ client.token.kind # "none" => client.token.session = Settled
  /\ pc = "open" \/ Reading => job.session = Settled
  /\ client.token.kind # "none" /\ client.token.gen = gen =>
       /\ client.token.snap <= Length(gen)
       /\ client.token.snap = Length(gen) => client.token.mtime = mtime
  /\ Running => /\ job.mtime0 <= mtime
                /\ job.mtime0 = mtime => job.gen0 = gen /\ job.len0 = Length(gen)
                /\ job.gen0 = gen => job.len0 <= Length(gen)
                /\ HeaderFirst => job.len0 >= 2

----------------------------------------------------------------------------
(* Matches, and sequences of them *)

\* A record holds at most two events.
LEMMA SubeventsBound == \A k : Subevents(k) \in 0..2 /\ (Subevents(k) = 2 => k = "double")
BY DEF Subevents

\* What it is to be a match, field by field.
LEMMA MatchFields ==
  ASSUME NEW g, NEW rs \in Seq(AllKinds), NEW e \in Matches(g, rs)
  PROVE  /\ e.gen = g /\ e.rec \in 1..Len(rs) /\ e.sub \in 0..1 /\ e.line = e.rec
         /\ Matching(rs[e.rec]) /\ e.sub < Subevents(rs[e.rec])
         /\ g \in 1..MaxGens => e \in EventType
BY DEF Matches, EventType

\* The place of a match is counted in naturals.
LEMMA MatchNumbers ==
  ASSUME NEW g, NEW rs \in Seq(AllKinds)
  PROVE  \A e \in Matches(g, rs) : e.rec \in Nat /\ e.rec > 0 /\ e.sub \in Nat
BY MatchFields, LenProperties

\* A matching record yields its events, at its own line.
LEMMA IsMatch ==
  ASSUME NEW g, NEW rs \in Seq(AllKinds), NEW r \in 1..Len(rs), NEW s \in 0..1,
         Matching(rs[r]), s < Subevents(rs[r])
  PROVE  [gen |-> g, rec |-> r, sub |-> s, line |-> r] \in Matches(g, rs)
<1> DEFINE e == [gen |-> g, rec |-> r, sub |-> s, line |-> r]
<1>1. e \in [gen : {g}, rec : 1..Len(rs), sub : 0..1, line : 1..Len(rs)] OBVIOUS
<1>2. e.rec = r /\ e.sub = s /\ e.line = r OBVIOUS
<1> HIDE DEF e
<1>3. e \in Matches(g, rs) BY <1>1, <1>2 DEF Matches
<1> QED BY <1>3 DEF e

\* A match is its record and its subevent.
LEMMA SameMatch ==
  ASSUME NEW g, NEW rs \in Seq(AllKinds), NEW e \in Matches(g, rs), NEW f \in Matches(g, rs),
         e.rec = f.rec, e.sub = f.sub
  PROVE  e = f
BY DEF Matches

\* Two matches are in order, one way or the other.
LEMMA MatchOrder ==
  ASSUME NEW g, NEW rs \in Seq(AllKinds),
         NEW e \in Matches(g, rs), NEW f \in Matches(g, rs)
  PROVE  /\ Before(e, f) \/ Before(f, e) \/ e = f
         /\ ~Before(e, e)
         /\ Before(e, f) <=> Prior(e, f.rec - 1, f.sub)
         /\ ~(Before(e, f) /\ Before(f, e))
<1>1. /\ e.rec \in Nat /\ f.rec \in Nat /\ e.sub \in Nat /\ f.sub \in Nat
  BY MatchFields, LenProperties
<1>2. e.rec = f.rec /\ e.sub = f.sub => e = f BY SameMatch
<1> QED BY <1>1, <1>2 DEF Before, Prior

\* The order of matches is transitive.
LEMMA BeforeTransitive ==
  ASSUME NEW g, NEW rs \in Seq(AllKinds),
         NEW e \in Matches(g, rs), NEW f \in Matches(g, rs), NEW h \in Matches(g, rs)
  PROVE  Before(e, f) /\ Before(f, h) => Before(e, h)
<1>1. /\ e.rec \in Nat /\ f.rec \in Nat /\ h.rec \in Nat
      /\ e.sub \in Nat /\ f.sub \in Nat /\ h.sub \in Nat
  BY MatchFields, LenProperties
<1> QED BY <1>1 DEF Before

\* A file that grew keeps its matches, and any new one lies behind them.
Extends(rs, more) ==
  Len(rs) <= Len(more) /\ \A i \in 1..Len(rs) : more[i] = rs[i]

\* A file that grew keeps its matches, and a new one lies behind its old end.
LEMMA MatchesGrow ==
  ASSUME NEW g, NEW rs \in Seq(AllKinds), NEW more \in Seq(AllKinds), Extends(rs, more)
  PROVE  \A e : e \in Matches(g, rs) <=> e \in Matches(g, more) /\ e.rec <= Len(rs)
<1>1. Len(rs) \in Nat /\ Len(more) \in Nat /\ Len(rs) <= Len(more)
  BY LenProperties DEF Extends
<1>2. \A i \in 1..Len(rs) : more[i] = rs[i] BY DEF Extends
<1>3. ASSUME NEW e \in Matches(g, rs)
      PROVE  e \in Matches(g, more) /\ e.rec <= Len(rs)
  <2>1. e \in [gen : {g}, rec : 1..Len(rs), sub : 0..1, line : 1..Len(rs)] BY DEF Matches
  <2>2. e \in [gen : {g}, rec : 1..Len(more), sub : 0..1, line : 1..Len(more)]
    BY <1>1, <2>1
  <2>3. e.rec \in 1..Len(rs) BY <2>1
  <2> QED BY <1>1, <1>2, <2>2, <2>3 DEF Matches
<1>4. ASSUME NEW e \in Matches(g, more), e.rec <= Len(rs)
      PROVE  e \in Matches(g, rs)
  <2>1. e \in [gen : {g}, rec : 1..Len(more), sub : 0..1, line : 1..Len(more)]
        /\ e.line = e.rec
    BY DEF Matches
  <2>2. e \in [gen : {g}, rec : 1..Len(rs), sub : 0..1, line : 1..Len(rs)]
    BY <1>1, <1>4, <2>1
  <2>3. e.rec \in 1..Len(rs) BY <2>2
  <2> QED BY <1>1, <1>2, <2>2, <2>3 DEF Matches
<1> QED BY <1>3, <1>4

\* What was shown of a file is what was to be shown when it has grown.
LEMMA ShowsGrow ==
  ASSUME NEW g, NEW rs \in Seq(AllKinds), NEW more \in Seq(AllKinds), Extends(rs, more),
         NEW em, NEW off \in Nat, NEW sub \in Nat,
         off <= Len(rs), sub > 0 => off < Len(rs),
         Shows(em, g, rs, off, sub)
  PROVE  Shows(em, g, more, off, sub)
<1>1. \A i \in DOMAIN em : em[i] \in Matches(g, more) /\ Prior(em[i], off, sub)
  BY MatchesGrow DEF Shows
<1>2. ASSUME NEW e \in Matches(g, more), Prior(e, off, sub)
      PROVE  \E i \in DOMAIN em : em[i] = e
  <2>1. e.rec \in Nat /\ e.sub \in Nat /\ Len(rs) \in Nat BY MatchFields, LenProperties
  <2>2. e.rec <= Len(rs) BY <1>2, <2>1 DEF Prior
  <2> QED BY <1>2, <2>2, MatchesGrow DEF Shows
<1> QED BY <1>1, <1>2 DEF Shows

\* So is what a scan holds.
LEMMA WindowGrow ==
  ASSUME NEW g, NEW rs \in Seq(AllKinds), NEW more \in Seq(AllKinds), Extends(rs, more),
         NEW s, NEW off \in Nat, NEW sub \in Nat, NEW hi \in Nat, NEW w \in Nat,
         hi <= Len(rs), Window(s, g, rs, off, sub, hi, w)
  PROVE  Window(s, g, more, off, sub, hi, w)
<1>1. \A i \in DOMAIN s : s[i] \in Matches(g, more)
  BY MatchesGrow DEF Window
<1>2. ASSUME NEW e \in Matches(g, more), e.rec <= hi
      PROVE  e \in Matches(g, rs)
  <2>1. e.rec \in Nat /\ Len(rs) \in Nat BY MatchFields, LenProperties
  <2> QED BY <1>2, <2>1, MatchesGrow
<1> QED BY <1>1, <1>2 DEF Window

\* The first n of s put behind em.
LEMMA JoinFirst ==
  ASSUME NEW T, NEW em \in Seq(T), NEW s \in Seq(T), NEW n \in 0..Len(s)
  PROVE  /\ SubSeq(s, 1, n) \in Seq(T)
         /\ em \o SubSeq(s, 1, n) \in Seq(T)
         /\ Len(em \o SubSeq(s, 1, n)) = Len(em) + n
         /\ \A i \in 1..Len(em) : (em \o SubSeq(s, 1, n))[i] = em[i]
         /\ \A i \in 1..n : (em \o SubSeq(s, 1, n))[Len(em) + i] = s[i]
<1>1. Len(s) \in Nat /\ Len(em) \in Nat /\ n \in Int BY LenProperties
<1>2. \A i \in 1..n : s[i] \in T BY <1>1, ElementOfSeq
<1>3. /\ SubSeq(s, 1, n) \in Seq(T)
      /\ Len(SubSeq(s, 1, n)) = n
      /\ \A i \in 1..n : SubSeq(s, 1, n)[i] = s[i]
  BY <1>1, <1>2, SubSeqProperties
<1> DEFINE t == SubSeq(s, 1, n)
<1>4. t \in Seq(T) /\ Len(t) = n /\ \A i \in 1..n : t[i] = s[i] BY <1>3
<1> HIDE DEF t
<1>5. /\ em \o t \in Seq(T)
      /\ Len(em \o t) = Len(em) + n
      /\ \A i \in 1..Len(em) + n : (em \o t)[i] = IF i <= Len(em) THEN em[i] ELSE t[i - Len(em)]
  BY <1>4, ConcatProperties
<1>6. \A i \in 1..Len(em) : (em \o t)[i] = em[i] BY <1>1, <1>5
<1>7. \A i \in 1..n : (em \o t)[Len(em) + i] = s[i]
  <2> TAKE i \in 1..n
  <2>1. Len(em) + i \in 1..Len(em) + n /\ ~(Len(em) + i <= Len(em)) /\ Len(em) + i - Len(em) = i
    BY <1>1
  <2> QED BY <1>4, <1>5, <2>1
<1> QED BY <1>4, <1>5, <1>6, <1>7 DEF t

----------------------------------------------------------------------------
(* A page of a window *)

\* What was shown and the first n events of the window are the matches before
\* any place that divides them from the rest.
LEMMA ShowJoin ==
  ASSUME NEW g, NEW rs \in Seq(AllKinds), NEW T,
         NEW em \in Seq(T), NEW s \in Seq(T), NEW n \in 0..Len(s),
         NEW off \in Nat, NEW sub \in Nat, NEW hi \in Nat, NEW w \in Nat,
         Shows(em, g, rs, off, sub), Window(s, g, rs, off, sub, hi, w),
         NEW off2 \in Nat, NEW sub2 \in Nat,
         \A e \in Matches(g, rs) : Prior(e, off, sub) => Prior(e, off2, sub2),
         \A i \in 1..n : Prior(s[i], off2, sub2),
         \A e \in Matches(g, rs) :
           Prior(e, off2, sub2) /\ ~Prior(e, off, sub) => \E i \in 1..n : s[i] = e
  PROVE  Shows(em \o SubSeq(s, 1, n), g, rs, off2, sub2)
<1> DEFINE all == em \o SubSeq(s, 1, n)
<1>1. /\ all \in Seq(T) /\ Len(all) = Len(em) + n
      /\ \A i \in 1..Len(em) : all[i] = em[i]
      /\ \A i \in 1..n : all[Len(em) + i] = s[i]
  BY JoinFirst
<1>2. /\ Len(em) \in Nat /\ Len(s) \in Nat /\ n \in Nat /\ n <= Len(s)
      /\ DOMAIN em = 1..Len(em) /\ DOMAIN s = 1..Len(s)
  BY LenProperties
<1> HIDE DEF all
<1>3. DOMAIN all = 1..(Len(em) + n) BY <1>1, LenProperties
<1>4. \A i \in 1..Len(em) : em[i] \in Matches(g, rs) /\ Prior(em[i], off, sub)
  BY <1>2 DEF Shows
<1>5. \A i \in 1..n : s[i] \in Matches(g, rs) /\ ~Prior(s[i], off, sub)
  <2> TAKE i \in 1..n
  <2>1. i \in DOMAIN s BY <1>2
  <2> QED BY <2>1 DEF Window
<1>6. \A k \in DOMAIN all : k \in 1..Len(em) \/ \E i \in 1..n : k = Len(em) + i
  <2> TAKE k \in DOMAIN all
  <2>1. k \in 1..(Len(em) + n) BY <1>3
  <2>2. CASE k <= Len(em) BY <1>2, <2>1, <2>2
  <2>3. CASE k > Len(em)
    <3>1. k - Len(em) \in 1..n /\ k = Len(em) + (k - Len(em)) BY <1>2, <2>1, <2>3
    <3> QED BY <3>1
  <2> QED BY <1>2, <2>1, <2>2, <2>3
<1>7. ASSUME NEW k \in DOMAIN all
      PROVE  all[k] \in Matches(g, rs) /\ Prior(all[k], off2, sub2)
  <2>1. CASE k \in 1..Len(em) BY <1>1, <1>4, <2>1
  <2>2. CASE \E i \in 1..n : k = Len(em) + i BY <1>1, <1>5, <2>2
  <2> QED BY <1>6, <2>1, <2>2
<1>8. ASSUME NEW e \in Matches(g, rs), Prior(e, off2, sub2)
      PROVE  \E k \in DOMAIN all : all[k] = e
  <2>1. CASE Prior(e, off, sub)
    <3>1. PICK i \in DOMAIN em : em[i] = e BY <2>1 DEF Shows
    <3>2. i \in DOMAIN all /\ all[i] = e BY <1>1, <1>2, <1>3, <3>1
    <3> QED BY <3>2
  <2>2. CASE ~Prior(e, off, sub)
    <3>1. PICK i \in 1..n : s[i] = e BY <1>8, <2>2
    <3>2. Len(em) + i \in DOMAIN all /\ all[Len(em) + i] = e BY <1>1, <1>2, <1>3, <3>1
    <3> QED BY <3>2
  <2> QED BY <2>1, <2>2
<1>9. ASSUME NEW k \in DOMAIN all, NEW l \in DOMAIN all, k < l
      PROVE  Before(all[k], all[l])
  <2>1. k \in Nat /\ l \in Nat BY <1>2, <1>3
  <2>2. CASE l \in 1..Len(em)
    <3>1. k \in 1..Len(em) BY <1>3, <1>9, <2>1, <2>2
    <3>2. Before(em[k], em[l]) BY <1>2, <1>9, <2>2, <3>1 DEF Shows, Ordered
    <3> QED BY <1>1, <2>2, <3>1, <3>2
  <2>3. CASE k \in 1..Len(em) /\ \E j \in 1..n : l = Len(em) + j
    <3>1. PICK j \in 1..n : l = Len(em) + j BY <2>3
    <3>2. all[k] = em[k] /\ all[l] = s[j] BY <1>1, <2>3, <3>1
    <3>3. em[k] \in Matches(g, rs) /\ Prior(em[k], off, sub) BY <1>4, <2>3
    <3>4. s[j] \in Matches(g, rs) /\ ~Prior(s[j], off, sub) BY <1>5
    <3>5. \A e, f \in Matches(g, rs) :
            Prior(e, off, sub) /\ ~Prior(f, off, sub) => Before(e, f)
      BY MatchNumbers DEF Before, Prior
    <3> QED BY <3>2, <3>3, <3>4, <3>5
  <2>4. CASE (\E i \in 1..n : k = Len(em) + i) /\ (\E j \in 1..n : l = Len(em) + j)
    <3>1. PICK i \in 1..n : k = Len(em) + i BY <2>4
    <3>2. PICK j \in 1..n : l = Len(em) + j BY <2>4
    <3>3. i < j /\ i \in DOMAIN s /\ j \in DOMAIN s BY <1>2, <1>9, <3>1, <3>2
    <3>4. Before(s[i], s[j]) BY <3>3 DEF Window, Ordered
    <3> QED BY <1>1, <3>1, <3>2, <3>4
  <2>5. ~(k \in 1..Len(em)) => l \notin 1..Len(em) BY <1>2, <1>3, <1>9, <2>1
  <2> QED BY <1>6, <2>2, <2>3, <2>4, <2>5
<1>10. Shows(all, g, rs, off2, sub2) BY <1>7, <1>8, <1>9 DEF Shows, Ordered
<1> QED BY <1>10 DEF all

\* The events in front of the first one not shown.
LEMMA ShowPart ==
  ASSUME NEW g, NEW rs \in Seq(AllKinds), NEW T,
         NEW em \in Seq(T), NEW s \in Seq(T), NEW n \in 0..Len(s), n < Len(s),
         NEW off \in Nat, NEW sub \in Nat, NEW hi \in Nat, NEW w \in Nat,
         Shows(em, g, rs, off, sub), Window(s, g, rs, off, sub, hi, w)
  PROVE  Shows(em \o SubSeq(s, 1, n), g, rs, s[n + 1].rec - 1, s[n + 1].sub)
<1> DEFINE f == s[n + 1]
<1>1. Len(s) \in Nat /\ n \in Nat /\ n + 1 \in 1..Len(s) /\ DOMAIN s = 1..Len(s) /\ Len(s) <= w
  BY LenProperties DEF Window
<1>2. f \in Matches(g, rs) /\ ~Prior(f, off, sub) /\ f.rec <= hi BY <1>1 DEF Window
<1>3. f.rec - 1 \in Nat /\ f.rec \in Nat /\ f.sub \in Nat BY <1>2, MatchFields, LenProperties
<1>4. \A i \in 1..n : Before(s[i], f) /\ s[i] \in Matches(g, rs)
  <2> TAKE i \in 1..n
  <2>1. i \in DOMAIN s /\ n + 1 \in DOMAIN s /\ i < n + 1 BY <1>1
  <2> QED BY <2>1 DEF Window, Ordered
<1>5. \A i \in 1..n : Prior(s[i], f.rec - 1, f.sub) BY <1>2, <1>4, MatchOrder
<1>6. ASSUME NEW e \in Matches(g, rs), Prior(e, off, sub)
      PROVE  Prior(e, f.rec - 1, f.sub)
  <2>1. e.rec \in Nat /\ e.sub \in Nat BY MatchFields, LenProperties
  <2> QED BY <1>2, <1>3, <1>6, <2>1 DEF Prior
<1>7. ASSUME NEW e \in Matches(g, rs), Prior(e, f.rec - 1, f.sub), ~Prior(e, off, sub)
      PROVE  \E i \in 1..n : s[i] = e
  <2>1. Before(e, f) BY <1>2, <1>7, MatchOrder
  <2>2. e.rec <= hi
    <3>1. e.rec \in Nat BY MatchFields, LenProperties
    <3> QED BY <1>2, <1>3, <2>1, <3>1 DEF Before
  <2>3. CASE Len(s) = w /\ Before(s[w], e)
    <3>1. s[w] \in Matches(g, rs) BY <1>1, <2>3 DEF Window
    <3>2. n + 1 < w => Before(f, s[w]) BY <1>1, <2>3 DEF Window, Ordered
    <3>3. n + 1 = w => f = s[w] OBVIOUS
    <3>4. Before(f, e) BY <1>1, <1>2, <2>3, <3>1, <3>2, <3>3, BeforeTransitive
    <3> QED BY <1>2, <2>1, <3>4, MatchOrder
  <2>4. CASE \E i \in DOMAIN s : s[i] = e
    <3>1. PICK i \in DOMAIN s : s[i] = e BY <2>4
    <3>2. i # n + 1 BY <1>2, <2>1, <3>1, MatchOrder
    <3>3. ~(n + 1 < i)
      <4> SUFFICES ASSUME n + 1 < i PROVE FALSE OBVIOUS
      <4>1. Before(f, e) BY <1>1, <3>1 DEF Window, Ordered
      <4> QED BY <1>2, <2>1, <4>1, MatchOrder
    <3>4. i \in 1..n BY <1>1, <3>1, <3>2, <3>3
    <3> QED BY <3>1, <3>4
  <2> QED BY <1>7, <2>2, <2>3, <2>4 DEF Window
<1> DEFINE off2 == f.rec - 1
           sub2 == f.sub
<1>8. /\ off2 \in Nat /\ sub2 \in Nat
      /\ \A e \in Matches(g, rs) : Prior(e, off, sub) => Prior(e, off2, sub2)
      /\ \A i \in 1..n : Prior(s[i], off2, sub2)
      /\ \A e \in Matches(g, rs) :
           Prior(e, off2, sub2) /\ ~Prior(e, off, sub) => \E i \in 1..n : s[i] = e
  BY <1>3, <1>5, <1>6, <1>7
<1> HIDE DEF off2, sub2
<1>9. Shows(em \o SubSeq(s, 1, n), g, rs, off2, sub2)
  BY <1>8, ShowJoin
<1> QED BY <1>9 DEF off2, sub2

\* All events of a window that was not filled.
LEMMA ShowAll ==
  ASSUME NEW g, NEW rs \in Seq(AllKinds), NEW T,
         NEW em \in Seq(T), NEW s \in Seq(T), NEW n \in 0..Len(s), n = Len(s),
         NEW off \in Nat, NEW sub \in Nat, NEW hi \in Nat, NEW w \in Nat, n < w,
         Shows(em, g, rs, off, sub), Window(s, g, rs, off, sub, hi, w),
         off < hi \/ (off = hi /\ sub = 0)
  PROVE  Shows(em \o SubSeq(s, 1, n), g, rs, hi, 0)
<1>1. Len(s) \in Nat /\ DOMAIN s = 1..n BY LenProperties
<1>2. \A e \in Matches(g, rs) : e.rec \in Nat /\ e.rec > 0 /\ e.sub \in Nat
  BY MatchFields, LenProperties
<1>3. \A e \in Matches(g, rs) : Prior(e, hi, 0) <=> e.rec <= hi BY <1>2 DEF Prior
<1>4. \A e \in Matches(g, rs) : Prior(e, off, sub) => Prior(e, hi, 0)
  BY <1>2 DEF Prior
<1>5. \A i \in 1..n : Prior(s[i], hi, 0) BY <1>1, <1>3 DEF Window
<1>6. \A e \in Matches(g, rs) :
        Prior(e, hi, 0) /\ ~Prior(e, off, sub) => \E i \in 1..n : s[i] = e
  BY <1>1, <1>3 DEF Window
<1> QED BY <1>4, <1>5, <1>6, ShowJoin

----------------------------------------------------------------------------
(* Feeding a record to the window *)

\* A window with too many events loses the last ones.
LEMMA WindowCut ==
  ASSUME NEW g, NEW rs \in Seq(AllKinds), NEW T, NEW full \in Seq(T),
         NEW off \in Nat, NEW sub \in Nat, NEW hi \in Nat, NEW w \in Nat \ {0},
         \A i \in 1..Len(full) :
           full[i] \in Matches(g, rs) /\ ~Prior(full[i], off, sub) /\ full[i].rec <= hi,
         \A e \in Matches(g, rs) :
           ~Prior(e, off, sub) /\ e.rec <= hi =>
             (\E i \in 1..Len(full) : full[i] = e) \/ (Len(full) >= w /\ Before(full[w], e)),
         Ordered(full)
  PROVE  LET cut == IF Len(full) > w THEN SubSeq(full, 1, w) ELSE full
         IN  cut \in Seq(T) /\ Window(cut, g, rs, off, sub, hi, w)
<1>1. Len(full) \in Nat /\ DOMAIN full = 1..Len(full) BY LenProperties
<1>2. CASE Len(full) > w
  <2> DEFINE cut == SubSeq(full, 1, w)
  <2>1. \A i \in 1..w : full[i] \in T BY <1>1, <1>2, ElementOfSeq
  <2>2. cut \in Seq(T) /\ Len(cut) = w /\ \A i \in 1..w : cut[i] = full[i]
    BY <2>1, SubSeqProperties
  <2> HIDE DEF cut
  <2>3. DOMAIN cut = 1..w BY <2>2, LenProperties
  <2>4. \A i \in 1..w : i \in 1..Len(full) BY <1>1, <1>2
  <2>5. \A i \in DOMAIN cut :
          cut[i] \in Matches(g, rs) /\ ~Prior(cut[i], off, sub) /\ cut[i].rec <= hi
    BY <2>2, <2>3, <2>4
  <2>6. Ordered(cut)
    <3> SUFFICES ASSUME NEW i \in 1..w, NEW j \in 1..w, i < j
                 PROVE  Before(cut[i], cut[j])
      BY <2>3 DEF Ordered
    <3>1. Before(full[i], full[j]) BY <1>1, <2>4 DEF Ordered
    <3> QED BY <2>2, <3>1
  <2>7. ASSUME NEW e \in Matches(g, rs), ~Prior(e, off, sub), e.rec <= hi
        PROVE  (\E i \in DOMAIN cut : cut[i] = e) \/ Before(cut[w], e)
    <3>1. cut[w] = full[w] BY <2>2
    <3>2. CASE Before(full[w], e) BY <3>1, <3>2
    <3>3. CASE \E i \in 1..Len(full) : full[i] = e
      <4>1. PICK i \in 1..Len(full) : full[i] = e BY <3>3
      <4>2. CASE i <= w
        <5>1. i \in 1..w BY <1>1, <4>2
        <5> QED BY <2>2, <2>3, <4>1, <5>1
      <4>3. CASE w < i
        <5>1. w \in DOMAIN full BY <1>1, <1>2
        <5>2. Before(full[w], full[i]) BY <1>1, <4>3, <5>1 DEF Ordered
        <5> QED BY <3>1, <4>1, <5>2
      <4> QED BY <1>1, <4>2, <4>3
    <3> QED BY <2>7, <3>2, <3>3
  <2>8. Window(cut, g, rs, off, sub, hi, w) BY <2>2, <2>5, <2>6, <2>7 DEF Window
  <2> QED BY <1>2, <2>2, <2>8 DEF cut
<1>3. CASE ~(Len(full) > w)
  <2> DEFINE l == Len(full)
  <2>1. l <= w /\ (l >= w => l = w)
    <3>1. l \in Nat /\ w \in Nat /\ ~(l > w) BY <1>1, <1>3
    <3> HIDE DEF l
    <3> QED BY <3>1
  <2>2. Len(full) <= w /\ (Len(full) >= w => Len(full) = w) BY <2>1
  <2>3. Window(full, g, rs, off, sub, hi, w) BY <1>1, <2>2 DEF Window
  <2> QED BY <1>3, <2>3
<1> QED BY <1>2, <1>3

\* What a scan at a record sees of it: all its events, or those from the subevent
\* that a page cursor names.
FirstSub(i) == IF IsPage(job.token) /\ i - 1 = job.token.off THEN job.token.sub ELSE 0

\* The events a resume does not skip are the last ones of a record.
LEMMA ResumedIs ==
  ASSUME NEW i, FirstSub(i) \in Nat, FirstSub(i) <= Subevents(Kind(i))
  PROVE  /\ Resumed(i) = FirstSub(i)..(Subevents(Kind(i)) - 1)
         /\ Cardinality(Resumed(i)) = Subevents(Kind(i)) - FirstSub(i)
<1>1. Subevents(Kind(i)) \in 0..2 BY SubeventsBound
<1> DEFINE k == Subevents(Kind(i))
           low == FirstSub(i)
<1>2. \A s \in 0..1 : s \in Resumed(i) <=> s < k /\ s >= low
  BY <1>1 DEF Resumed, FirstSub
<1>3. Resumed(i) \subseteq 0..1 BY DEF Resumed
<1>4. k \in 0..2 /\ low \in Nat /\ low <= k BY <1>1
<1> HIDE DEF k, low
<1>5. Resumed(i) = low..(k - 1)
  <2>1. \A s : s \in low..(k - 1) => s \in 0..1 /\ s < k /\ s >= low BY <1>4
  <2>2. \A s \in 0..1 : s < k /\ s >= low => s \in low..(k - 1) BY <1>4
  <2> QED BY <1>2, <1>3, <2>1, <2>2
<1>6. Cardinality(low..(k - 1)) = k - low
  <2>1. low \in Int /\ k - 1 \in Int BY <1>4
  <2>2. Cardinality(low..(k - 1)) = IF low > k - 1 THEN 0 ELSE k - 1 - low + 1
    BY <2>1, FS_Interval
  <2> QED BY <1>4, <2>2
<1> QED BY <1>5, <1>6 DEF k, low

\* ScanLine keeps the window: it now covers one record more.
LEMMA FeedWindow ==
  ASSUME TypeOK, NEW g, NEW rs, g = scan.handle, rs = recs[g],
         NEW i \in 1..Len(rs), scan.line + 1 = i,
         NEW off, NEW sub, off = job.token.off, sub = job.token.sub,
         off <= i - 1, ~IsPage(job.token) => sub = 0,
         FirstSub(i) <= Subevents(Kind(i)), SelectWindow \in Nat \ {0},
         Window(scan.selected, g, rs, off, sub, i - 1, SelectWindow)
  PROVE  /\ Fed(i) \in Seq(EventType)
         /\ Window(Fed(i), g, rs, off, sub, i, SelectWindow)
<1> DEFINE s == scan.selected
           w == SelectWindow
           k == rs[i]
           m == Subevents(k)
           low == FirstSub(i)
           fed == IF Matching(k) THEN m - low ELSE 0
           new == [n \in 1..fed |-> EventAt(i, m - fed + n - 1)]
           full == s \o new
<1>1. /\ g \in 1..MaxGens /\ rs \in Seq(AllKinds) /\ off \in Nat /\ sub \in Nat
      /\ s \in Seq(EventType)
  <2>1. job.token \in TokenType BY DEF TypeOK, JobType
  <2>2. off \in Nat /\ sub \in Nat BY <2>1 DEF TokenType
  <2>3. g \in 1..MaxGens /\ s \in Seq(EventType) BY DEF TypeOK, ScanType
  <2> QED BY <2>2, <2>3 DEF TypeOK, LogTypeOK
<1>2. Kind(i) = k BY DEF Kind
<1>3. m \in 0..2 /\ low \in Nat /\ low <= m /\ i \in Nat /\ Len(rs) \in Nat
  BY <1>1, <1>2, SubeventsBound, LenProperties DEF FirstSub
<1>4. Cardinality(Resumed(i)) = m - low BY <1>2, <1>3, ResumedIs
<1>5. fed \in 0..2 /\ fed <= m /\ (fed > 0 => Matching(k) /\ m - fed = low) BY <1>3
<1>6. Fed(i) = IF Len(full) > w THEN SubSeq(full, 1, w) ELSE full
  BY <1>2, <1>4 DEF Fed
<1>7. \A n \in 1..fed :
        /\ new[n] = [gen |-> g, rec |-> i, sub |-> low + n - 1, line |-> i]
        /\ low + n - 1 \in 0..1 /\ low + n - 1 < m
  BY <1>3, <1>5 DEF EventAt
<1> HIDE DEF low, m, fed, full, s, w
<1>8. \A n \in 1..fed : /\ new[n] \in Matches(g, rs) /\ new[n] \in EventType
                        /\ new[n].rec = i /\ new[n].sub = low + n - 1
  <2> TAKE n \in 1..fed
  <2>1. Matching(k) /\ low + n - 1 \in 0..1 /\ low + n - 1 < m
    <3>1. fed > 0 BY <1>5
    <3>2. Matching(k) BY <1>5, <3>1
    <3> HIDE DEF new, k
    <3> QED BY <1>7, <3>2
  <2>2. m = Subevents(rs[i]) /\ Matching(rs[i]) BY <2>1 DEF m
  <2>3. [gen |-> g, rec |-> i, sub |-> low + n - 1, line |-> i] \in Matches(g, rs)
    BY <1>1, <2>1, <2>2, IsMatch
  <2>4. new[n] = [gen |-> g, rec |-> i, sub |-> low + n - 1, line |-> i] BY <1>7
  <2> HIDE DEF new
  <2>5. new[n] \in Matches(g, rs) /\ new[n].rec = i /\ new[n].sub = low + n - 1
    BY <2>3, <2>4
  <2> QED BY <1>1, <2>5, MatchFields
<1> HIDE DEF k
<1>9. new \in Seq(EventType) /\ Len(new) = fed
  <2>1. \A n \in 1..fed : new[n] \in EventType BY <1>8
  <2>2. new \in [1..fed -> EventType] BY <2>1
  <2>3. fed \in Nat BY <1>5
  <2> HIDE DEF new, fed
  <2>4. new \in Seq(EventType) BY <2>2, <2>3, SeqDef
  <2> QED BY <2>2, <2>3, <2>4, LenProperties
<1> HIDE DEF new, fed
<1>10. /\ full \in Seq(EventType) /\ Len(full) = Len(s) + fed
       /\ \A n \in 1..Len(s) : full[n] = s[n]
       /\ \A n \in 1..fed : full[Len(s) + n] = new[n]
  <2>1. /\ full \in Seq(EventType) /\ Len(full) = Len(s) + fed
        /\ \A n \in 1..Len(s) + fed : full[n] = IF n <= Len(s) THEN s[n] ELSE new[n - Len(s)]
    BY <1>1, <1>9, ConcatProperties DEF full, s
  <2>2. Len(s) \in Nat /\ fed \in Nat BY <1>1, <1>5, LenProperties DEF s
  <2> HIDE DEF full, s
  <2>3. \A n \in 1..Len(s) : full[n] = s[n] BY <2>1, <2>2
  <2>4. ASSUME NEW n \in 1..fed PROVE full[Len(s) + n] = new[n]
    <3>1. Len(s) + n \in 1..Len(s) + fed /\ ~(Len(s) + n <= Len(s)) /\ Len(s) + n - Len(s) = n
      BY <2>2
    <3> QED BY <2>1, <3>1
  <2> QED BY <2>1, <2>3, <2>4
<1>11. Len(s) \in Nat /\ DOMAIN s = 1..Len(s) /\ Len(s) <= w /\ w \in Nat \ {0}
  BY <1>1, LenProperties DEF Window, s, w
<1>12. \A n \in 1..Len(s) : s[n] \in Matches(g, rs) /\ ~Prior(s[n], off, sub) /\ s[n].rec <= i - 1
  BY <1>11 DEF Window, s
<1>13. \A e \in Matches(g, rs) :
         ~Prior(e, off, sub) /\ e.rec <= i - 1 =>
           (\E n \in 1..Len(s) : s[n] = e) \/ (Len(s) = w /\ Before(s[w], e))
  BY <1>11 DEF Window, s, w
<1>14. \A n, l \in 1..Len(s) : n < l => Before(s[n], s[l])
  BY <1>11 DEF Window, Ordered, s
<1>15. \A e \in Matches(g, rs) : e.rec = i => (Prior(e, off, sub) <=> e.sub < low)
  <2>1. off < i - 1 \/ off = i - 1 BY <1>1, <1>3
  <2>2. low = IF off = i - 1 THEN sub ELSE 0 BY <1>1, <2>1 DEF low, FirstSub
  <2> QED BY <1>1, <1>1, <2>1, <2>2, <1>3, MatchNumbers DEF Prior
<1>16. \A n \in 1..Len(full) : n \in 1..Len(s) \/ \E l \in 1..fed : n = Len(s) + l
  <2> TAKE n \in 1..Len(full)
  <2>1. CASE n <= Len(s) BY <1>11, <2>1
  <2>2. CASE ~(n <= Len(s))
    <3>1. n - Len(s) \in 1..fed /\ n = Len(s) + (n - Len(s)) BY <1>5, <1>10, <1>11, <2>2
    <3> QED BY <3>1
  <2> QED BY <2>1, <2>2
<1>17. ASSUME NEW n \in 1..Len(full)
       PROVE  full[n] \in Matches(g, rs) /\ ~Prior(full[n], off, sub) /\ full[n].rec <= i
  <2>1. CASE n \in 1..Len(s)
    <3>1. s[n] \in Matches(g, rs) /\ ~Prior(s[n], off, sub) /\ s[n].rec <= i - 1 BY <1>12, <2>1
    <3>2. s[n].rec \in Nat BY <1>1, <3>1, MatchNumbers
    <3> QED BY <1>3, <1>10, <2>1, <3>1, <3>2
  <2>2. CASE \E l \in 1..fed : n = Len(s) + l
    <3>1. PICK l \in 1..fed : n = Len(s) + l BY <2>2
    <3>2. full[n] = new[l] /\ new[l] \in Matches(g, rs) /\ new[l].rec = i
          /\ new[l].sub = low + l - 1
      BY <1>8, <1>10, <3>1
    <3>3. ~(new[l].sub < low) BY <1>3, <3>2
    <3> QED BY <1>3, <1>15, <3>2, <3>3
  <2> QED BY <1>16, <2>1, <2>2
<1>18. ASSUME NEW e \in Matches(g, rs), ~Prior(e, off, sub), e.rec <= i
       PROVE  (\E n \in 1..Len(full) : full[n] = e) \/ (Len(full) >= w /\ Before(full[w], e))
  <2>1. e.rec \in Nat /\ e.sub \in Nat BY <1>1, MatchNumbers
  <2>2. CASE e.rec <= i - 1
    <3>1. CASE \E n \in 1..Len(s) : s[n] = e
      <4>1. PICK n \in 1..Len(s) : s[n] = e BY <3>1
      <4>2. n \in 1..Len(full) /\ full[n] = e BY <1>5, <1>10, <1>11, <4>1
      <4> QED BY <4>2
    <3>2. CASE Len(s) = w /\ Before(s[w], e)
      <4>1. Len(full) >= w /\ w \in 1..Len(s) BY <1>5, <1>10, <1>11, <3>2
      <4> QED BY <1>10, <3>2, <4>1
    <3> QED BY <1>13, <1>18, <2>2, <3>1, <3>2
  <2>3. CASE e.rec = i
    <3>1. Matching(k) /\ e.sub < m /\ e.sub >= low
      <4>1. Matching(rs[e.rec]) /\ e.sub < Subevents(rs[e.rec]) BY <1>1, MatchFields
      <4>2. ~(e.sub < low) BY <1>15, <1>18, <2>3
      <4> QED BY <1>3, <2>1, <2>3, <4>1, <4>2 DEF k, m
    <3>2. fed = m - low BY <3>1 DEF fed
    <3> DEFINE l == e.sub - low + 1
    <3>3. l \in 1..fed /\ low + l - 1 = e.sub BY <1>3, <2>1, <3>1, <3>2
    <3>4. new[l] \in Matches(g, rs) /\ new[l].rec = i /\ new[l].sub = e.sub
      BY <1>8, <3>3
    <3>5. new[l] = e BY <1>1, <2>3, <3>4, SameMatch
    <3>6. Len(s) + l \in 1..Len(full) /\ full[Len(s) + l] = new[l]
      BY <1>5, <1>10, <1>11, <3>3
    <3> QED BY <3>5, <3>6
  <2> QED BY <1>3, <1>18, <2>1, <2>2, <2>3
<1>19. Ordered(full)
  <2> SUFFICES ASSUME NEW n \in 1..Len(full), NEW l \in 1..Len(full), n < l
               PROVE  Before(full[n], full[l])
    BY <1>10, LenProperties DEF Ordered
  <2>1. CASE l \in 1..Len(s)
    <3>1. n \in 1..Len(s) BY <1>10, <1>11, <2>1
    <3> QED BY <1>10, <1>14, <2>1, <3>1
  <2>2. CASE n \in 1..Len(s) /\ \E b \in 1..fed : l = Len(s) + b
    <3>1. PICK b \in 1..fed : l = Len(s) + b BY <2>2
    <3>2. full[n] = s[n] /\ s[n] \in Matches(g, rs) /\ s[n].rec <= i - 1 BY <1>10, <1>12, <2>2
    <3>3. full[l] = new[b] /\ new[b].rec = i BY <1>8, <1>10, <3>1
    <3>4. s[n].rec \in Nat BY <1>1, <3>2, MatchNumbers
    <3> QED BY <1>3, <3>2, <3>3, <3>4 DEF Before
  <2>3. CASE (\E a \in 1..fed : n = Len(s) + a) /\ (\E b \in 1..fed : l = Len(s) + b)
    <3>1. PICK a \in 1..fed : n = Len(s) + a BY <2>3
    <3>2. PICK b \in 1..fed : l = Len(s) + b BY <2>3
    <3>3. a < b BY <1>5, <1>11, <3>1, <3>2
    <3>4. /\ full[n] = new[a] /\ new[a].rec = i /\ new[a].sub = low + a - 1
          /\ full[l] = new[b] /\ new[b].rec = i /\ new[b].sub = low + b - 1
      BY <1>8, <1>10, <3>1, <3>2
    <3>5. new[a].sub < new[b].sub BY <1>3, <1>5, <3>3, <3>4
    <3> QED BY <3>4, <3>5 DEF Before
  <2>4. ~(n \in 1..Len(s)) => l \notin 1..Len(s) BY <1>10, <1>11
  <2> QED BY <1>16, <2>1, <2>2, <2>3, <2>4
<1> DEFINE cut == IF Len(full) > w THEN SubSeq(full, 1, w) ELSE full
<1> HIDE DEF new
<1>20. cut \in Seq(EventType) /\ Window(cut, g, rs, off, sub, i, w)
  <2>1. \A n \in 1..Len(full) :
          full[n] \in Matches(g, rs) /\ ~Prior(full[n], off, sub) /\ full[n].rec <= i
    BY <1>17
  <2>2. \A e \in Matches(g, rs) :
          ~Prior(e, off, sub) /\ e.rec <= i =>
            (\E n \in 1..Len(full) : full[n] = e) \/ (Len(full) >= w /\ Before(full[w], e))
    BY <1>18
  <2>3. rs \in Seq(AllKinds) /\ off \in Nat /\ sub \in Nat /\ i \in Nat /\ w \in Nat \ {0}
        /\ full \in Seq(EventType)
    BY <1>1, <1>3, <1>10, <1>11
  <2> QED BY ONLY <2>1, <2>2, <2>3, <1>19, WindowCut
<1>21. Fed(i) = cut BY <1>6
<1> HIDE DEF cut
<1> QED BY <1>20, <1>21 DEF w

----------------------------------------------------------------------------
(* Steps of the log *)

\* The agent only adds to files, and leaves its stamp.
LEMMA LogStep ==
  ASSUME LogTypeOK, LogNext
  PROVE  /\ LogTypeOK'
         /\ gen <= gen' /\ mtime' = mtime + 1
         /\ \A g \in 1..MaxGens : Extends(recs[g], recs'[g])
         /\ \A g \in 1..MaxGens : \A i \in 1..Len(recs'[g]) :
              i \in 1..Len(recs[g]) \/ recs'[g][i] \in Kinds
         /\ \A g \in 1..MaxGens : Length(g) <= Length(g)'
         /\ gen' = gen => Length(gen) < Length(gen)'
<1>1. /\ gen \in 1..MaxGens /\ recs \in [1..MaxGens -> Seq(AllKinds)] /\ mtime \in Nat
      /\ partial \in [1..MaxGens -> BOOLEAN]
  BY DEF LogTypeOK
<1>2. \A g \in 1..MaxGens : Len(recs[g]) \in Nat BY <1>1, LenProperties
<1>3. \A g \in 1..MaxGens : Extends(recs[g], recs[g]) BY <1>1, <1>2 DEF Extends
<1>4. CASE BeginRecord
  <2>1. /\ gen' = gen /\ recs' = recs /\ mtime' = mtime + 1 /\ ~partial[gen]
        /\ partial' = [partial EXCEPT ![gen] = TRUE]
    BY <1>4 DEF BeginRecord
  <2>2. /\ partial' \in [1..MaxGens -> BOOLEAN] /\ partial'[gen]
        /\ \A g \in 1..MaxGens : g # gen => partial'[g] = partial[g]
    BY <1>1, <2>1
  <2>3. \A g \in 1..MaxGens : Length(g) <= Length(g)' /\ (g = gen => Length(g) < Length(g)')
    BY <1>1, <1>2, <2>1, <2>2 DEF Length
  <2>4. Length(gen) < Length(gen)' BY <1>1, <1>2, <2>1, <2>2 DEF Length
  <2> QED BY <1>1, <1>3, <2>1, <2>2, <2>3, <2>4 DEF LogTypeOK
<1>5. CASE FinishRecord
  <2>1. PICK k \in Kinds : recs' = [recs EXCEPT ![gen] = Append(@, k)]
    BY <1>5 DEF FinishRecord
  <2>2. /\ gen' = gen /\ mtime' = mtime + 1 /\ partial[gen]
        /\ partial' = [partial EXCEPT ![gen] = FALSE]
    BY <1>5 DEF FinishRecord
  <2>3. k \in AllKinds BY LogAssumption
  <2>4. recs[gen] \in Seq(AllKinds) BY <1>1
  <2>5. /\ Append(recs[gen], k) \in Seq(AllKinds)
        /\ Len(Append(recs[gen], k)) = Len(recs[gen]) + 1
        /\ \A i \in 1..Len(recs[gen]) : Append(recs[gen], k)[i] = recs[gen][i]
        /\ Append(recs[gen], k)[Len(recs[gen]) + 1] = k
    BY <2>3, <2>4, AppendProperties
  <2>6. /\ recs' \in [1..MaxGens -> Seq(AllKinds)] /\ recs'[gen] = Append(recs[gen], k)
        /\ \A g \in 1..MaxGens : g # gen => recs'[g] = recs[g]
        /\ partial' \in [1..MaxGens -> BOOLEAN] /\ ~partial'[gen]
        /\ \A g \in 1..MaxGens : g # gen => partial'[g] = partial[g]
    BY <1>1, <2>1, <2>2, <2>5
  <2>7. \A g \in 1..MaxGens : Extends(recs[g], recs'[g])
    BY <1>1, <1>2, <1>3, <2>5, <2>6 DEF Extends
  <2>8. ASSUME NEW g \in 1..MaxGens, NEW i \in 1..Len(recs'[g])
        PROVE  i \in 1..Len(recs[g]) \/ recs'[g][i] \in Kinds
    <3>1. CASE g = gen
      <4>1. i \in 1..Len(recs[gen]) + 1 BY <2>5, <2>6, <3>1
      <4>2. i \in 1..Len(recs[gen]) \/ i = Len(recs[gen]) + 1 BY <1>1, <1>2, <4>1
      <4> QED BY <2>5, <2>6, <3>1, <4>2
    <3>2. CASE g # gen BY <2>6, <3>2
    <3> QED BY <3>1, <3>2
  <2>9. \A g \in 1..MaxGens : Length(g) <= Length(g)'
    BY <1>1, <1>2, <2>2, <2>5, <2>6 DEF Length
  <2>10. Length(gen) < Length(gen)' BY <1>1, <1>2, <2>2, <2>5, <2>6 DEF Length
  <2> QED BY <1>1, <2>2, <2>6, <2>7, <2>8, <2>9, <2>10 DEF LogTypeOK
<1>6. CASE Replace
  <2>1. gen' = gen + 1 /\ gen < MaxGens /\ recs' = recs /\ partial' = partial
        /\ mtime' = mtime + 1
    BY <1>6 DEF Replace
  <2>2. gen' \in 1..MaxGens BY <1>1, <2>1, LogAssumption
  <2>3. \A g \in 1..MaxGens : Length(g) <= Length(g)' BY <1>1, <1>2, <2>1 DEF Length
  <2> QED BY <1>1, <1>3, <2>1, <2>2, <2>3 DEF LogTypeOK
<1> QED BY <1>4, <1>5, <1>6 DEF LogNext

\* A file has a length.
LEMMA LengthType == ASSUME LogTypeOK PROVE \A g \in 1..MaxGens : Length(g) \in Nat
BY LenProperties DEF LogTypeOK, Length

\* A file is at least as long as its complete records.
LEMMA LengthSum == \A n \in Nat : \A b \in BOOLEAN :
  2 * n + (IF b THEN 1 ELSE 0) \in Nat /\ 2 * n <= 2 * n + (IF b THEN 1 ELSE 0)
OBVIOUS

\* Every complete record of a file lies within its length.
LEMMA LengthBound ==
  ASSUME LogTypeOK, NEW g \in 1..MaxGens
  PROVE  Len(recs[g]) \in Nat /\ 2 * Len(recs[g]) <= Length(g)
<1>1. recs[g] \in Seq(AllKinds) /\ partial[g] \in BOOLEAN BY DEF LogTypeOK
<1>2. Len(recs[g]) \in Nat BY <1>1, LenProperties
<1>3. Length(g) = 2 * Len(recs[g]) + (IF partial[g] THEN 1 ELSE 0) BY DEF Length
<1> QED BY <1>1, <1>2, <1>3, LengthSum, Zenon

----------------------------------------------------------------------------
(* The page and what it is cut from *)

\* A page holds at least one event, the window one more.
LEMMA PageType ==
  ASSUME job.limit \in Nat \ {0}
  PROVE  /\ Page \in Nat \ {0} /\ Page <= job.limit /\ Page <= MaxEvents
         /\ SelectWindow = Page + 1 /\ SelectWindow \in Nat \ {0}
BY ViewerAssumption DEF Page, SelectWindow, Lesser

\* The retention holds at least as many events as a response may.
LEMMA RetainType == RetainCap \in Nat \ {0} /\ MaxEvents <= RetainCap
BY ViewerAssumption DEF RetainCap

\* What is kept is a beginning of what was selected.
LEMMA KeptIs ==
  ASSUME scan.selected \in Seq(EventType)
  PROVE  /\ Kept \in Seq(EventType)
         /\ Len(Kept) = Lesser(Len(scan.selected), RetainCap)
         /\ Len(Kept) <= Len(scan.selected)
         /\ \A i \in 1..Len(Kept) : Kept[i] = scan.selected[i]
         /\ scan.selected # <<>> => Kept # <<>>
<1> DEFINE s == scan.selected
           m == Lesser(Len(s), RetainCap)
<1>1. s \in Seq(EventType) /\ Len(s) \in Nat BY LenProperties
<1>2. m \in Nat /\ m <= Len(s) /\ (Len(s) > 0 => m > 0) BY <1>1, RetainType DEF Lesser
<1>3. Kept = SubSeq(s, 1, m) BY DEF Kept
<1> HIDE DEF s, m
<1>4. \A i \in 1..m : s[i] \in EventType BY <1>1, <1>2, ElementOfSeq
<1>5. m \in Int /\ 1 \in Int BY <1>2
<1>6. /\ SubSeq(s, 1, m) \in Seq(EventType)
      /\ Len(SubSeq(s, 1, m)) = (IF 1 <= m THEN m - 1 + 1 ELSE 0)
      /\ \A i \in 1..(m - 1 + 1) : SubSeq(s, 1, m)[i] = s[1 + i - 1]
  BY ONLY <1>4, <1>5, SubSeqProperties
<1>7. /\ Kept \in Seq(EventType) /\ Len(Kept) = m
      /\ \A i \in 1..m : Kept[i] = s[i]
  BY <1>2, <1>3, <1>6
<1>8. s # <<>> => Kept # <<>> BY <1>1, <1>2, <1>7, EmptySeq
<1> QED BY <1>2, <1>7, <1>8 DEF s, m

\* How many events a page shows.
LEMMA ShownIs ==
  ASSUME scan.selected \in Seq(EventType), job.limit \in Nat \ {0}, NEW n \in Shown
  PROVE  /\ n \in 0..Len(Kept) /\ n <= Page
         /\ Kept # <<>> => n > 0
<1>1. Len(Kept) \in Nat /\ (Kept # <<>> => Len(Kept) > 0) BY KeptIs, LenProperties, EmptySeq
<1>2. Page \in Nat \ {0} BY PageType
<1> QED BY <1>1, <1>2 DEF Shown, Lesser

\* The four cases of the next cursor.
LEMMA NextTokenIs ==
  ASSUME scan.selected \in Seq(EventType), NEW n \in 0..Len(Kept)
  PROVE  /\ scan.changed => NextToken(n) = NoToken
         /\ ~scan.changed /\ n < Len(Kept) => NextToken(n) = PageCursor(n)
         /\ ~scan.changed /\ n = Len(Kept) /\ scan.uninspected # 0 =>
              NextToken(n) = RetryCursor
         /\ ~scan.changed /\ n = Len(Kept) /\ scan.uninspected = 0 =>
              \/ NextToken(n) = NoToken
              \/ NextToken(n) = AppendCursor /\ AppendAllowed
         /\ n = Len(Kept) \/ n < Len(Kept)
<1>1. Len(Kept) \in Nat BY KeptIs, LenProperties
<1>2. n = Len(Kept) \/ n < Len(Kept) BY <1>1
<1>3. scan.changed => NextToken(n) = NoToken BY DEF NextToken
<1>4. ~scan.changed /\ n < Len(Kept) => NextToken(n) = PageCursor(n)
  BY <1>1 DEF NextToken
<1>5. ~scan.changed /\ n = Len(Kept) /\ scan.uninspected # 0 => NextToken(n) = RetryCursor
  BY <1>1 DEF NextToken
<1>6. ~scan.changed /\ n = Len(Kept) /\ scan.uninspected = 0 =>
        \/ NextToken(n) = NoToken
        \/ NextToken(n) = AppendCursor /\ AppendAllowed
  BY <1>1 DEF NextToken
<1> QED BY <1>2, <1>3, <1>4, <1>5, <1>6

\* The absence of a cursor is a token.
LEMMA NoTokenType == NoToken \in TokenType /\ NoToken.kind = "none" /\ NoToken.off = 0
                     /\ NoToken.sub = 0 /\ NoJob \in JobType /\ NoJob.token = NoToken
                     /\ NoScan \in ScanType /\ NoScan.selected = <<>>
<1>1. 1 \in 1..MaxGens BY LogAssumption
<1>2. NoToken \in TokenType BY <1>1 DEF NoToken, TokenType, Sessions
<1>3. NoJob \in JobType BY <1>1, <1>2 DEF NoJob, JobType, Sessions
<1>4. NoScan \in ScanType
  <2>1. <<>> \in Seq(EventType) OBVIOUS
  <2> QED BY <1>1, <2>1 DEF NoScan, ScanType
<1> QED BY <1>2, <1>3, <1>4 DEF NoToken, NoJob, NoScan

----------------------------------------------------------------------------
(* Types *)

\* A resume leaves no more events than a record has.
LEMMA ResumedCount ==
  ASSUME NEW i, job.token.sub \in Nat
  PROVE  Cardinality(Resumed(i)) \in 0..Subevents(Kind(i))
<1>1. Subevents(Kind(i)) \in 0..2 /\ FirstSub(i) \in Nat BY SubeventsBound DEF FirstSub
<1>2. CASE FirstSub(i) <= Subevents(Kind(i))
  <2>1. Cardinality(Resumed(i)) = Subevents(Kind(i)) - FirstSub(i) BY <1>1, <1>2, ResumedIs
  <2> QED BY <1>1, <1>2, <2>1
<1>3. CASE ~(FirstSub(i) <= Subevents(Kind(i)))
  <2>1. \A s \in 0..1 : ~(s < Subevents(Kind(i)) /\ s >= FirstSub(i)) BY <1>1, <1>3
  <2>2. Resumed(i) = {}
    <3> SUFFICES ASSUME NEW s \in Resumed(i) PROVE FALSE OBVIOUS
    <3>1. s \in 0..1 /\ s < Subevents(Kind(i)) /\ s >= FirstSub(i)
      BY <1>1 DEF Resumed, FirstSub
    <3> QED BY <2>1, <3>1
  <2>3. Cardinality(Resumed(i)) = 0 BY <2>2, FS_EmptySet
  <2> QED BY <1>1, <2>3
<1> QED BY <1>2, <1>3

\* Whatever file is read, the window holds events with numbers from one.
LEMMA FeedType ==
  ASSUME TypeOK, NEW i \in Nat \ {0}, SelectWindow \in Nat \ {0},
         \A n \in DOMAIN scan.selected : scan.selected[n].rec > 0 /\ scan.selected[n].line > 0
  PROVE  /\ Fed(i) \in Seq(EventType)
         /\ \A n \in DOMAIN Fed(i) : Fed(i)[n].rec > 0 /\ Fed(i)[n].line > 0
         /\ Len(Fed(i)) = Lesser(Len(scan.selected) +
              (IF Matching(Kind(i)) THEN Cardinality(Resumed(i)) ELSE 0), SelectWindow)
<1> DEFINE Good == {e \in EventType : e.rec > 0 /\ e.line > 0}
           s == scan.selected
           m == Subevents(Kind(i))
           fed == IF Matching(Kind(i)) THEN Cardinality(Resumed(i)) ELSE 0
           new == [n \in 1..fed |-> EventAt(i, m - fed + n - 1)]
           full == s \o new
           w == SelectWindow
<1>1. /\ scan.handle \in 1..MaxGens /\ s \in Seq(EventType) /\ scan.line \in Nat
      /\ job.token.sub \in Nat
  BY DEF TypeOK, ScanType, JobType, TokenType
<1>2. s \in Seq(Good)
  <2>1. Len(s) \in Nat /\ DOMAIN s = 1..Len(s) /\ s \in [1..Len(s) -> EventType]
    BY <1>1, LenProperties
  <2>2. \A n \in 1..Len(s) : s[n] \in Good BY <2>1
  <2>3. s \in [1..Len(s) -> Good] BY <2>1, <2>2
  <2> HIDE DEF s, Good
  <2> QED BY <2>1, <2>3, SeqDef
<1>3. m \in Nat /\ fed \in Nat /\ fed <= m
  <2>1. m \in 0..2 /\ Cardinality(Resumed(i)) \in 0..m BY <1>1, ResumedCount, SubeventsBound
  <2> HIDE DEF m
  <2> QED BY <2>1
<1>4. \A n \in 1..fed : EventAt(i, m - fed + n - 1) \in Good
  <2> HIDE DEF m, fed, s
  <2> TAKE n \in 1..fed
  <2>1. m - fed + n - 1 \in Nat BY <1>3
  <2>2. scan.line + 1 \in Nat /\ scan.line + 1 > 0 /\ i \in Nat /\ i > 0 BY <1>1
  <2>3. [gen |-> scan.handle, rec |-> i, sub |-> m - fed + n - 1, line |-> scan.line + 1] \in Good
    BY <1>1, <2>1, <2>2 DEF EventType
  <2> QED BY <2>3 DEF EventAt
<1>5. new \in Seq(Good)
  <2> HIDE DEF m, fed, Good
  <2>1. new \in [1..fed -> Good] BY <1>4
  <2> HIDE DEF new
  <2> QED BY <1>3, <2>1, SeqDef
<1>6. Fed(i) = IF Len(full) > w THEN SubSeq(full, 1, w) ELSE full BY DEF Fed
<1>12. Len(new) = fed
  <2> HIDE DEF m, fed, Good
  <2>1. DOMAIN new = 1..fed OBVIOUS
  <2> HIDE DEF new
  <2> QED BY <1>3, <1>5, <2>1, LenProperties
<1>13. Len(s) \in Nat BY <1>2, LenProperties
<1> HIDE DEF m, fed, new, Good, s
<1>7. full \in Seq(Good) /\ Len(full) \in Nat /\ Len(full) = Len(s) + fed
  BY <1>2, <1>5, <1>12, ConcatProperties, LenProperties
<1> HIDE DEF full, w
<1>8. Len(full) > w => SubSeq(full, 1, w) \in Seq(Good)
  <2>1. w \in Int /\ 1 \in Int BY DEF w
  <2> SUFFICES ASSUME Len(full) > w PROVE SubSeq(full, 1, w) \in Seq(Good) OBVIOUS
  <2>2. \A n \in 1..w : full[n] \in Good BY <1>7, <2>1, ElementOfSeq
  <2> QED BY <2>1, <2>2, SubSeqProperties
<1>14. Len(full) > w => Len(SubSeq(full, 1, w)) = w
  <2>1. w \in Nat \ {0} BY DEF w
  <2> SUFFICES ASSUME Len(full) > w PROVE Len(SubSeq(full, 1, w)) = w OBVIOUS
  <2>2. \A n \in 1..w : full[n] \in Good BY <1>7, <2>1, ElementOfSeq
  <2> QED BY <2>1, <2>2, SubSeqProperties
<1>15. Len(Fed(i)) = Lesser(Len(s) + fed, w)
  <2>1. w \in Nat BY DEF w
  <2> QED BY <1>3, <1>6, <1>7, <1>13, <1>14, <2>1 DEF Lesser
<1>9. Fed(i) \in Seq(Good) BY <1>6, <1>7, <1>8
<1>10. \A n \in DOMAIN Fed(i) : Fed(i)[n] \in Good BY <1>9, LenProperties, ElementOfSeq
<1>11. Fed(i) \in Seq(EventType)
  <2>1. Good \subseteq EventType BY DEF Good
  <2> QED BY <1>9, <2>1, SeqMonotonic
<1> QED BY <1>10, <1>11, <1>15 DEF Good, s, fed, w

\* The first invocation begins with well-typed state.
LEMMA TypeInit == Init => TypeIInv
<1> SUFFICES ASSUME Init PROVE TypeIInv OBVIOUS
<1>1. 1 \in 1..MaxGens BY LogAssumption
<1>2. LogTypeOK
  <2>1. recs \in [1..MaxGens -> Seq(AllKinds)] BY LogAssumption DEF Init, LogInit
  <2> QED BY <1>1, <2>1 DEF LogTypeOK, Init, LogInit
<1>3. client \in [token : TokenType, cap : Caps, roomy : BOOLEAN] /\ client.token = NoToken
  BY NoTokenType DEF Init
<1>4. emitted \in Seq(EventType)
  <2>1. <<>> \in Seq(EventType) OBVIOUS
  <2> QED BY <2>1 DEF Init
<1>5. TypeOK BY <1>2, <1>3, <1>4, NoTokenType DEF Init, TypeOK, NoAnswer
<1>6. \A i \in DOMAIN NoScan.selected : FALSE
  <2>1. DOMAIN NoScan.selected = {} BY NoTokenType
  <2> QED BY <2>1
<1>7. Numbered(NoToken) BY DEF Numbered, IsPage, NoToken
<1>8. client.token = NoToken /\ job.token = NoToken /\ scan = NoScan
  BY <1>3, NoTokenType DEF Init
<1>9. NoScan.uninspected = 0 BY DEF NoScan
<1> QED BY <1>5, <1>6, <1>7, <1>8, <1>9 DEF TypeIInv

\* The line a scan starts from is a natural number: the code's subtraction does not wrap.
LEMMA StartLineType ==
  ASSUME NEW t \in TokenType, Numbered(t)
  PROVE  StartLine(t) \in Nat
<1>1. t.line \in Nat /\ (IsPage(t) => t.line > 0) BY DEF TokenType, Numbered
<1> QED BY <1>1 DEF StartLine

\* The fields of a cursor made for a page or for an append.
LEMMA CursorFields ==
  \A kind, snap, off, sub, line :
    /\ Cursor(kind, snap, off, sub, line).kind = kind
    /\ Cursor(kind, snap, off, sub, line).off = off
    /\ Cursor(kind, snap, off, sub, line).sub = sub
    /\ Cursor(kind, snap, off, sub, line).snap = snap
    /\ Cursor(kind, snap, off, sub, line).line = line
    /\ Cursor(kind, snap, off, sub, line).gen = job.gen0
    /\ Cursor(kind, snap, off, sub, line).session = job.session
    /\ Cursor(kind, snap, off, sub, line).mtime = mtime
BY DEF Cursor

\* The cursor of every response is well formed.
LEMMA NextTokenType ==
  ASSUME TypeIInv, NEW n \in 0..Len(Kept)
  PROVE  /\ NextToken(n) \in TokenType
         /\ Numbered(NextToken(n))
<1>0. TypeOK /\ (scan.uninspected # 0 => scan.line > 0) BY DEF TypeIInv
<1>1. /\ scan.selected \in Seq(EventType) /\ scan.uninspected \in Nat /\ scan.pos \in Nat
      /\ scan.line \in Nat /\ job.len0 \in Nat /\ job.gen0 \in 1..MaxGens
      /\ job.session \in Sessions /\ mtime \in Nat
  BY <1>0 DEF TypeOK, LogTypeOK, ScanType, JobType
<1>2. CASE NextToken(n) = NoToken
  BY <1>2, NoTokenType DEF Numbered, IsPage
<1>3. CASE n < Len(Kept) /\ NextToken(n) = PageCursor(n)
  <2> DEFINE e == Kept[n + 1]
  <2>1. Kept \in Seq(EventType) /\ Len(Kept) \in Nat /\ n + 1 \in 1..Len(Kept)
        /\ e = scan.selected[n + 1] /\ n + 1 \in DOMAIN scan.selected
    BY <1>1, <1>3, KeptIs, LenProperties
  <2>2. e \in EventType /\ e.rec > 0 /\ e.line > 0 BY <2>1, ElementOfSeq DEF TypeIInv
  <2>3. e.rec - 1 \in Nat /\ e.sub \in Nat /\ e.line \in Nat BY <2>2 DEF EventType
  <2> HIDE DEF e
  <2>4. PageCursor(n) = Cursor("page", job.len0, e.rec - 1, e.sub, e.line) BY DEF PageCursor, e
  <2>5. PageCursor(n) \in TokenType /\ PageCursor(n).line > 0
    BY <1>1, <2>2, <2>3, <2>4 DEF Cursor, TokenType
  <2> QED BY <1>3, <2>5 DEF Numbered
<1>4. CASE scan.uninspected # 0 /\ NextToken(n) = RetryCursor
  <2>1. scan.uninspected - 1 \in Nat BY <1>1, <1>4
  <2>2. RetryCursor \in TokenType /\ RetryCursor.line = scan.line
    BY <1>1, <2>1 DEF RetryCursor, Cursor, TokenType
  <2> QED BY <1>0, <1>4, <2>2 DEF Numbered
<1>5. CASE NextToken(n) = AppendCursor
  <2>1. AppendCursor \in TokenType /\ AppendCursor.kind = "append"
    <3>1. 2 * scan.pos \in Nat BY <1>1
    <3> QED BY <1>1, <3>1 DEF AppendCursor, Cursor, TokenType
  <2> QED BY <1>5, <2>1 DEF Numbered, IsPage
<1> QED BY <1>1, <1>2, <1>3, <1>4, <1>5, NextTokenIs

----------------------------------------------------------------------------
(* What each step does, field by field *)

\* What an invocation knows when it starts.
LEMMA StartEffect ==
  ASSUME TypeOK, Start
  PROVE  /\ job' \in JobType /\ job'.token = client.token /\ job'.limit \in PageLimits
         /\ job'.len0 = Length(gen) /\ job'.mtime0 = mtime /\ job'.gen0 = gen
         /\ emitted' = (IF client.token.kind = "none" THEN <<>> ELSE emitted)
         /\ pc' = "validate" /\ answer' = NoAnswer
         /\ UNCHANGED <<logVars, scan, client>>
<1>1. PICK limit \in PageLimits :
        job' = [NoJob EXCEPT !.token = client.token, !.limit = limit,
                             !.len0 = Length(gen), !.mtime0 = mtime, !.gen0 = gen]
  BY DEF Start
<1>2. /\ client.token \in TokenType /\ limit \in Nat \ {0} /\ mtime \in Nat
      /\ gen \in 1..MaxGens /\ Length(gen) \in Nat
  BY ViewerAssumption, LengthType DEF TypeOK, LogTypeOK
<1>3. job' = [token |-> client.token, limit |-> limit, len0 |-> Length(gen),
              mtime0 |-> mtime, gen0 |-> gen, session |-> "file"]
  BY <1>1 DEF NoJob
<1>4. job' \in JobType BY <1>2, <1>3 DEF JobType, Sessions
<1> QED BY <1>3, <1>4 DEF Start

\* A cursor that is accepted names the file and the offset the log still has.
LEMMA ValidatedEffect ==
  ASSUME TypeOK, Fresh \/ Accept
  PROVE  /\ pc = "validate" /\ pc' = "open"
         /\ job' \in JobType /\ job'.token = job.token /\ job'.limit = job.limit
         /\ job'.len0 = job.len0 /\ job'.mtime0 = job.mtime0 /\ job'.gen0 = job.gen0
         /\ job.token.kind = "none" =>
              job'.session = IF Discovered(job.len0) THEN "id" ELSE "file"
         /\ job.token.kind # "none" => Accepts(job.token) /\ job'.session = job.token.session
         /\ UNCHANGED <<logVars, scan, client, emitted, answer>>
<1>1. job \in JobType /\ job.token.session \in Sessions
  BY DEF TypeOK, JobType, TokenType
<1>2. CASE Fresh
  <2>1. job' = [job EXCEPT !.session = IF Discovered(job.len0) THEN "id" ELSE "file"]
    BY <1>2 DEF Fresh
  <2> QED BY <1>1, <1>2, <2>1 DEF Fresh, JobType, Sessions
<1>3. CASE Accept
  <2>1. job' = [job EXCEPT !.session = job.token.session] BY <1>3 DEF Accept
  <2> QED BY <1>1, <1>3, <2>1 DEF Accept, JobType
<1> QED BY <1>2, <1>3

\* A refused cursor ends the invocation.
LEMMA RejectEffect ==
  ASSUME TypeOK, Reject
  PROVE  /\ pc' = "idle" /\ job' = NoJob
         /\ client' \in [token : TokenType, cap : Caps, roomy : BOOLEAN]
         /\ client'.token = NoToken /\ client'.cap = client.cap
         /\ answer' = [NoAnswer EXCEPT !.status = "cursor_invalid"]
         /\ UNCHANGED <<logVars, scan, emitted>>
<1>1. client' = [client EXCEPT !.token = NoToken] BY DEF Reject
<1>2. client \in [token : TokenType, cap : Caps, roomy : BOOLEAN] BY DEF TypeOK
<1> QED BY <1>1, <1>2, NoTokenType DEF Reject

\* Where a scan begins.
LEMMA OpenEffect ==
  ASSUME TypeIInv, OpenReader
  PROVE  /\ pc = "open" /\ pc' = "scan"
         /\ scan' \in ScanType
         /\ scan'.handle = gen
         /\ scan'.boundary = (IF EffectiveEnd < Length(gen) THEN EffectiveEnd ELSE Length(gen))
         /\ scan'.pos = job.token.off /\ scan'.line = StartLine(job.token)
         /\ scan'.selected = <<>> /\ scan'.uninspected = 0 /\ scan'.changed = FALSE
         /\ scan'.timedOut = FALSE
         /\ UNCHANGED <<logVars, job, client, emitted, answer>>
<1>1. scan' = [NoScan EXCEPT
                !.handle = gen,
                !.boundary = IF EffectiveEnd < Length(gen) THEN EffectiveEnd ELSE Length(gen),
                !.pos = job.token.off,
                !.line = StartLine(job.token)]
  BY DEF OpenReader
<1>2. /\ gen \in 1..MaxGens /\ Length(gen) \in Nat /\ EffectiveEnd \in Nat
      /\ job.token.off \in Nat /\ StartLine(job.token) \in Nat
  <2>1. job.token \in TokenType /\ job.len0 \in Nat BY DEF TypeIInv, TypeOK, JobType
  <2>2. EffectiveEnd \in Nat /\ job.token.off \in Nat BY <2>1 DEF EffectiveEnd, TokenType
  <2>3. StartLine(job.token) \in Nat BY <2>1, StartLineType DEF TypeIInv
  <2> QED BY <2>2, <2>3, LengthType DEF TypeIInv, TypeOK, LogTypeOK
<1> DEFINE b == IF EffectiveEnd < Length(gen) THEN EffectiveEnd ELSE Length(gen)
<1>3. b \in Nat BY <1>2
<1>4. scan' = [handle |-> gen, boundary |-> b, pos |-> job.token.off,
               line |-> StartLine(job.token), selected |-> <<>>, uninspected |-> 0,
               invalid |-> FALSE, pending |-> FALSE, timedOut |-> FALSE, changed |-> FALSE]
  BY <1>1 DEF NoScan
<1> HIDE DEF b
<1>5. <<>> \in Seq(EventType) OBVIOUS
<1>6. scan' \in ScanType BY <1>2, <1>3, <1>4, <1>5 DEF ScanType
<1>7. /\ scan'.handle = gen /\ scan'.boundary = b
      /\ scan'.pos = job.token.off /\ scan'.line = StartLine(job.token)
      /\ scan'.selected = <<>> /\ scan'.uninspected = 0 /\ scan'.changed = FALSE
      /\ scan'.timedOut = FALSE
  BY <1>4
<1>8. /\ pc = "open" /\ pc' = "scan"
      /\ UNCHANGED <<logVars, job, client, emitted, answer>>
  BY DEF OpenReader
<1> QED BY <1>6, <1>7, <1>8 DEF b

\* The fields of a scan that its steps leave alone.
SameScan == /\ scan'.handle = scan.handle /\ scan'.boundary = scan.boundary
SameSelection == scan'.selected = scan.selected

\* What a line that can be read adds to a scan.
LEMMA ScanLineEffect ==
  ASSUME TypeIInv, ScanLine
  PROVE  LET i == scan.pos + 1
         IN  /\ pc = "scan" /\ pc' \in {"scan", "check"}
             /\ Complete(i) /\ ~Oversize(Kind(i), client.cap)
             /\ scan' \in ScanType /\ SameScan
             /\ scan'.pos = i /\ scan'.line = scan.line + 1 /\ scan'.selected = Fed(i)
             /\ scan'.uninspected = scan.uninspected /\ scan'.changed = scan.changed
             /\ pc' = "check" => WindowClosed(i) \/ scan'.timedOut
             /\ scan'.timedOut => MayTimeOut
             /\ UNCHANGED <<logVars, job, client, emitted, answer>>
<1> DEFINE i == scan.pos + 1
<1>1. PICK late \in (IF MayTimeOut /\ ~WindowClosed(i) THEN BOOLEAN ELSE {FALSE}) :
        /\ scan' = [scan EXCEPT !.pos = i, !.line = @ + 1, !.selected = Fed(i),
                                !.invalid = @ \/ Invalid(Kind(i)), !.timedOut = late]
        /\ pc' = IF WindowClosed(i) \/ late THEN "check" ELSE "scan"
  BY DEF ScanLine
<1>2. late \in BOOLEAN OBVIOUS
<1>3. scan \in ScanType /\ job.limit \in Nat \ {0} BY DEF TypeIInv, TypeOK, JobType
<1>4. i \in Nat \ {0} /\ scan.line + 1 \in Nat BY <1>3 DEF ScanType
<1>5. Fed(i) \in Seq(EventType) BY <1>3, <1>4, PageType, FeedType DEF TypeIInv
<1>6. (scan.invalid \/ Invalid(Kind(i))) \in BOOLEAN OBVIOUS
<1>7. Complete(i) /\ ~Oversize(Kind(i), client.cap) BY DEF ScanLine
<1> HIDE DEF i
<1>8. scan' \in ScanType /\ SameScan
  BY <1>1, <1>2, <1>3, <1>4, <1>5, <1>6 DEF ScanType, SameScan
<1>9. /\ scan'.pos = i /\ scan'.line = scan.line + 1 /\ scan'.selected = Fed(i)
      /\ scan'.uninspected = scan.uninspected /\ scan'.changed = scan.changed
  BY <1>1, <1>3 DEF ScanType
<1>10. pc = "scan" /\ pc' \in {"scan", "check"} BY <1>1 DEF ScanLine
<1>11. UNCHANGED <<logVars, job, client, emitted, answer>> BY DEF ScanLine
<1>12. scan'.timedOut = late BY <1>1, <1>3 DEF ScanType
<1>13. pc' = "check" => WindowClosed(i) \/ scan'.timedOut BY <1>1, <1>12
<1>14. scan'.timedOut => MayTimeOut BY <1>1, <1>12
<1> QED BY <1>7, <1>8, <1>9, <1>10, <1>11, <1>13, <1>14 DEF i

\* A line over the cap ends the scan and is noted.
LEMMA ScanUninspectedEffect ==
  ASSUME TypeOK, ScanUninspected
  PROVE  /\ pc = "scan" /\ pc' = "check"
         /\ Complete(scan.pos + 1) /\ Oversize(Kind(scan.pos + 1), client.cap)
         /\ scan' \in ScanType /\ SameScan /\ SameSelection
         /\ scan'.pos = scan.pos + 1 /\ scan'.line = scan.line + 1
         /\ scan'.uninspected = scan.pos + 1 /\ scan'.changed = scan.changed
         /\ scan'.timedOut = scan.timedOut
         /\ UNCHANGED <<logVars, job, client, emitted, answer>>
<1>1. scan' = [scan EXCEPT !.pos = scan.pos + 1, !.line = @ + 1,
                           !.uninspected = scan.pos + 1]
  BY DEF ScanUninspected
<1>2. scan \in ScanType BY DEF TypeOK
<1>3. scan.pos + 1 \in Nat /\ scan.line + 1 \in Nat BY <1>2 DEF ScanType
<1>4. scan' \in ScanType /\ SameScan /\ SameSelection
  BY <1>1, <1>2, <1>3 DEF ScanType, SameScan, SameSelection
<1>5. /\ scan'.pos = scan.pos + 1 /\ scan'.line = scan.line + 1
      /\ scan'.uninspected = scan.pos + 1 /\ scan'.changed = scan.changed
      /\ scan'.timedOut = scan.timedOut
  BY <1>1, <1>2 DEF ScanType
<1> QED BY <1>4, <1>5 DEF ScanUninspected

\* The scan ends without changing what it holds.
LEMMA ScanStopEffect ==
  ASSUME TypeOK, ScanPendingTail \/ ScanEnd
  PROVE  /\ pc = "scan" /\ pc' = "check"
         /\ ~Complete(scan.pos + 1) \/ 2 * scan.pos >= scan.boundary
         /\ scan' \in ScanType /\ SameScan /\ SameSelection
         /\ scan'.pos = scan.pos /\ scan'.line = scan.line
         /\ scan'.uninspected = scan.uninspected /\ scan'.changed = scan.changed
         /\ scan'.timedOut = scan.timedOut
         /\ scan'.pending \/ 2 * scan.pos >= scan.boundary
         /\ UNCHANGED <<logVars, job, client, emitted, answer>>
<1>1. scan \in ScanType BY DEF TypeOK
<1>2. CASE ScanPendingTail
  <2>1. scan' = [scan EXCEPT !.pending = TRUE] BY <1>2 DEF ScanPendingTail
  <2> QED BY <1>1, <1>2, <2>1 DEF ScanPendingTail, ScanType, SameScan, SameSelection
<1>3. CASE ScanEnd
  BY <1>1, <1>3 DEF ScanEnd, SameScan, SameSelection
<1> QED BY <1>2, <1>3

\* The check of the source notes a change and nothing else.
LEMMA CheckSourceEffect ==
  ASSUME TypeOK, CheckSource
  PROVE  /\ (pc = "check" /\ pc' = "recheck") \/ (pc = "recheck" /\ pc' = "render")
         /\ scan' \in ScanType /\ SameScan /\ SameSelection
         /\ scan'.pos = scan.pos /\ scan'.line = scan.line
         /\ scan'.uninspected = scan.uninspected
         /\ scan'.changed = (scan.changed \/ SourceChange)
         /\ scan'.timedOut = scan.timedOut /\ scan'.pending = scan.pending
         /\ UNCHANGED <<logVars, job, client, emitted, answer>>
<1>1. scan \in ScanType BY DEF TypeOK
<1>2. scan' = [scan EXCEPT !.changed = @ \/ SourceChange] BY DEF CheckSource
<1>3. scan' \in ScanType /\ SameScan /\ SameSelection
  BY <1>1, <1>2 DEF ScanType, SameScan, SameSelection
<1>4. /\ scan'.pos = scan.pos /\ scan'.line = scan.line
      /\ scan'.uninspected = scan.uninspected
      /\ scan'.changed = (scan.changed \/ SourceChange)
      /\ scan'.timedOut = scan.timedOut /\ scan'.pending = scan.pending
  BY <1>1, <1>2 DEF ScanType
<1> QED BY <1>3, <1>4 DEF CheckSource

\* A budget in which nothing fits ends the invocation without a cursor.
LEMMA TooSmallEffect ==
  ASSUME TypeOK, TooSmall
  PROVE  /\ pc = "render" /\ pc' = "idle" /\ job' = NoJob /\ scan' = NoScan
         /\ client' \in [token : TokenType, cap : Caps, roomy : BOOLEAN]
         /\ client'.token = client.token /\ client'.cap = client.cap
         /\ answer' = [NoAnswer EXCEPT !.status = "budget_too_small"]
         /\ UNCHANGED <<logVars, emitted>>
<1>1. client' = [client EXCEPT !.roomy = TRUE] BY DEF TooSmall
<1>2. client \in [token : TokenType, cap : Caps, roomy : BOOLEAN] BY DEF TypeOK
<1> QED BY <1>1, <1>2 DEF TooSmall

\* A response, by the number of events it shows.
RenderOf(n) ==
  /\ emitted' = (IF scan.changed THEN <<>> ELSE emitted \o SubSeq(Kept, 1, n))
  /\ client'.token = NextToken(n)
  /\ client'.cap = (IF NextToken(n).kind = "retry" THEN "raised" ELSE client.cap)
  /\ answer'.status = Status /\ answer'.exhausted = (n = Len(Kept) /\ scan.uninspected = 0)

\* What a response shows and which cursor it gives.
LEMMA RenderEffect ==
  ASSUME TypeIInv, Render
  PROVE  /\ pc = "render" /\ pc' = "idle" /\ job' = NoJob /\ scan' = NoScan
         /\ \E n \in Shown : n \in 0..Len(Kept) /\ RenderOf(n)
         /\ client' \in [token : TokenType, cap : Caps, roomy : BOOLEAN]
         /\ Numbered(client'.token)
         /\ emitted' \in Seq(EventType)
         /\ answer' \in [status : {"none", "ok", "partial", "cursor_invalid", "budget_too_small"},
                         exhausted : BOOLEAN]
         /\ UNCHANGED logVars
<1>0. scan.selected \in Seq(EventType) /\ job.limit \in Nat \ {0} /\ client.cap \in Caps
      /\ emitted \in Seq(EventType)
  BY DEF TypeIInv, TypeOK, ScanType, JobType
<1>1. PICK n \in Shown :
        /\ emitted' = IF scan.changed THEN <<>>
                      ELSE emitted \o SubSeq(Kept, 1, n)
        /\ client' = [token |-> NextToken(n),
                      cap |-> IF NextToken(n).kind = "retry" THEN "raised" ELSE client.cap,
                      roomy |-> FALSE]
        /\ answer' = [status |-> Status,
                      exhausted |-> n = Len(Kept) /\ scan.uninspected = 0]
  BY DEF Render
<1>2. n \in 0..Len(Kept) BY <1>0, ShownIs
<1>3. NextToken(n) \in TokenType /\ Numbered(NextToken(n)) BY <1>2, NextTokenType
<1>4. RenderOf(n) BY <1>1 DEF RenderOf
<1>5. client' \in [token : TokenType, cap : Caps, roomy : BOOLEAN]
  BY <1>0, <1>1, <1>3 DEF Caps
<1>6. Numbered(client'.token) BY <1>1, <1>3
<1>7. emitted' \in Seq(EventType)
  <2>1. emitted \o SubSeq(Kept, 1, n) \in Seq(EventType) BY <1>0, <1>2, KeptIs, JoinFirst
  <2>2. <<>> \in Seq(EventType) OBVIOUS
  <2> QED BY <1>1, <2>1, <2>2
<1>8. answer' \in [status : {"none", "ok", "partial", "cursor_invalid", "budget_too_small"},
                   exhausted : BOOLEAN]
  BY <1>1 DEF Status
<1>9. pc = "render" /\ pc' = "idle" /\ job' = NoJob /\ scan' = NoScan /\ UNCHANGED logVars
  BY DEF Render
<1> QED BY <1>2, <1>4, <1>5, <1>6, <1>7, <1>8, <1>9

----------------------------------------------------------------------------
(* Type correctness *)

\* Every step keeps the types.
LEMMA TypeNext == TypeIInv /\ [Next]_vars => TypeIInv'
<1> SUFFICES ASSUME TypeIInv, [Next]_vars PROVE TypeIInv' OBVIOUS
<1> DEFINE Places == {"idle", "validate", "open", "scan", "check", "recheck", "render"}
           Clients == [token : TokenType, cap : Caps, roomy : BOOLEAN]
           Answers == [status : {"none", "ok", "partial", "cursor_invalid", "budget_too_small"},
                       exhausted : BOOLEAN]
           Counted(sc) == /\ \A i \in DOMAIN sc.selected :
                               sc.selected[i].rec > 0 /\ sc.selected[i].line > 0
                          /\ sc.uninspected # 0 => sc.line > 0
<1>0. TypeOK BY DEF TypeIInv
<1>1. /\ LogTypeOK /\ pc \in Places /\ job \in JobType /\ scan \in ScanType
      /\ client \in Clients /\ emitted \in Seq(EventType) /\ answer \in Answers
      /\ Numbered(client.token) /\ Numbered(job.token) /\ Counted(scan)
  BY DEF TypeIInv, TypeOK
<1>2. ASSUME LogTypeOK', pc' \in Places, job' \in JobType, scan' \in ScanType,
             client' \in Clients, emitted' \in Seq(EventType), answer' \in Answers,
             Numbered(client'.token), Numbered(job'.token), Counted(scan')
      PROVE  TypeIInv'
  BY <1>2 DEF TypeIInv, TypeOK, Numbered, IsPage
<1>3. UNCHANGED logVars => LogTypeOK' BY <1>1 DEF logVars, LogTypeOK
<1>4. /\ NoAnswer \in Answers
      /\ [NoAnswer EXCEPT !.status = "cursor_invalid"] \in Answers
      /\ [NoAnswer EXCEPT !.status = "budget_too_small"] \in Answers
  BY DEF NoAnswer
<1>5. NoJob \in JobType /\ Numbered(NoJob.token) /\ Numbered(NoToken)
  BY NoTokenType DEF Numbered, IsPage
<1>6. NoScan \in ScanType /\ Counted(NoScan)
  <2>1. DOMAIN NoScan.selected = {} BY NoTokenType
  <2>2. NoScan.uninspected = 0 BY DEF NoScan
  <2> QED BY <2>1, <2>2, NoTokenType
<1>8. \A p \in {"idle", "validate", "open", "scan", "check", "recheck", "render"} : p \in Places
  OBVIOUS
<1>9. SameSelection /\ (scan'.uninspected # 0 => scan'.line > 0) => Counted(scan')
  BY <1>1 DEF SameSelection
<1>11. scan.pos \in Nat /\ scan.line \in Nat /\ scan.uninspected \in Nat BY <1>1 DEF ScanType
<1> HIDE DEF Places, Clients, Answers, Counted
<1>12. CASE Start
  BY <1>0, <1>1, <1>2, <1>3, <1>4, <1>8, <1>12, StartEffect, EmptySeq
<1>13. CASE Fresh \/ Accept
  BY <1>0, <1>1, <1>2, <1>3, <1>8, <1>13, ValidatedEffect
<1>14. CASE Reject
  BY <1>0, <1>1, <1>2, <1>3, <1>4, <1>5, <1>8, <1>14, RejectEffect DEF Clients
<1>15. CASE OpenReader
  <2>1. Counted(scan')
    <3>1. scan'.selected = <<>> /\ scan'.uninspected = 0 BY <1>15, OpenEffect
    <3>2. DOMAIN scan'.selected = {} BY <3>1
    <3> QED BY <3>1, <3>2 DEF Counted
  <2> QED BY <1>1, <1>2, <1>3, <1>8, <1>15, <2>1, OpenEffect
<1>16. CASE ScanLine
  <2>1. /\ scan' \in ScanType /\ pc' \in {"scan", "check"} /\ scan'.line = scan.line + 1
        /\ scan'.selected = Fed(scan.pos + 1)
        /\ UNCHANGED <<logVars, job, client, emitted, answer>>
    BY <1>16, ScanLineEffect
  <2>2. \A n \in DOMAIN Fed(scan.pos + 1) :
          Fed(scan.pos + 1)[n].rec > 0 /\ Fed(scan.pos + 1)[n].line > 0
    <3>1. SelectWindow \in Nat \ {0} BY <1>1, PageType DEF JobType
    <3> QED BY <1>0, <1>11, <3>1, FeedType DEF TypeIInv
  <2>3. Counted(scan') BY <1>11, <2>1, <2>2 DEF Counted
  <2>4. pc' \in Places BY <1>8, <2>1
  <2> QED BY <1>1, <1>2, <1>3, <2>1, <2>3, <2>4
<1>17. CASE ScanUninspected
  <2>1. Counted(scan') BY <1>0, <1>9, <1>11, <1>17, ScanUninspectedEffect
  <2> QED BY <1>0, <1>1, <1>2, <1>3, <1>8, <1>17, <2>1, ScanUninspectedEffect
<1>18. CASE ScanPendingTail \/ ScanEnd
  <2>1. Counted(scan') BY <1>0, <1>1, <1>9, <1>18, ScanStopEffect DEF Counted
  <2> QED BY <1>0, <1>1, <1>2, <1>3, <1>8, <1>18, <2>1, ScanStopEffect
<1>19. CASE CheckSource
  <2>1. Counted(scan') BY <1>0, <1>1, <1>9, <1>19, CheckSourceEffect DEF Counted
  <2> QED BY <1>0, <1>1, <1>2, <1>3, <1>8, <1>19, <2>1, CheckSourceEffect
<1>20. CASE Render
  <2>1. /\ pc' = "idle" /\ job' = NoJob /\ scan' = NoScan /\ UNCHANGED logVars
        /\ client' \in Clients /\ Numbered(client'.token)
        /\ emitted' \in Seq(EventType) /\ answer' \in Answers
    BY <1>20, RenderEffect DEF Clients, Answers
  <2>2. pc' \in Places BY <1>8, <2>1
  <2> QED BY <1>2, <1>3, <1>5, <1>6, <2>1, <2>2
<1>21. CASE TooSmall
  <2>1. /\ pc' = "idle" /\ job' = NoJob /\ scan' = NoScan /\ UNCHANGED <<logVars, emitted>>
        /\ client' \in Clients /\ client'.token = client.token
        /\ answer' = [NoAnswer EXCEPT !.status = "budget_too_small"]
    BY <1>0, <1>21, TooSmallEffect DEF Clients
  <2>2. pc' \in Places BY <1>8, <2>1
  <2> QED BY <1>1, <1>2, <1>3, <1>4, <1>5, <1>6, <2>1, <2>2
<1>22. CASE Disk
  <2>1. LogTypeOK' BY <1>1, <1>22, LogStep DEF Disk
  <2> QED BY <1>1, <1>2, <1>22, <2>1 DEF Disk
<1>23. CASE UNCHANGED vars
  BY <1>1, <1>2, <1>3, <1>23 DEF vars
<1> QED
  BY <1>12, <1>13, <1>14, <1>15, <1>16, <1>17, <1>18, <1>19, <1>20, <1>21, <1>22, <1>23
  DEF Next, Query

\* TypeOK holds in every reachable state (the fields of the cursor payload, the scan
\* and the response of src/query/runner.rs keep their types; no position the code
\* counts down is ever zero).
THEOREM ViewerTypeCorrect == Spec => []TypeOK
<1>1. Init => TypeIInv BY TypeInit
<1>2. TypeIInv /\ [Next]_vars => TypeIInv' BY TypeNext
<1>3. TypeIInv => TypeOK BY DEF TypeIInv
<1> QED BY <1>1, <1>2, <1>3, PTL DEF Spec

----------------------------------------------------------------------------
(* Cursors stand behind what was inspected *)

\* A cursor stays within a file that grows.
LEMMA TokenGrow ==
  ASSUME NEW t \in TokenType, NEW cap, NEW rs \in Seq(AllKinds), NEW more \in Seq(AllKinds),
         Extends(rs, more), TokenOK(t, cap, rs)
  PROVE  TokenOK(t, cap, more)
<1>1. t.off \in Nat /\ Len(rs) \in Nat /\ Len(more) \in Nat BY LenProperties DEF TokenType
<1>2. Len(rs) <= Len(more) /\ \A i \in 1..Len(rs) : more[i] = rs[i] BY DEF Extends
<1>3. t.off <= Len(rs) BY DEF TokenOK
<1>4. t.off < Len(rs) => t.off < Len(more) /\ more[t.off + 1] = rs[t.off + 1]
  BY <1>1, <1>2
<1>5. \A i \in 1..t.off : more[i] = rs[i] BY <1>1, <1>2, <1>3
<1>6. IsPage(t) <=> t.kind \in {"page", "retry"} BY DEF IsPage
<1>7. t.off <= Len(more) BY <1>1, <1>2, <1>3
<1>8. t.sub > 0 => t.off < Len(more) /\ t.sub < Subevents(more[t.off + 1])
  BY <1>4 DEF TokenOK
<1>9. IsPage(t) => /\ t.off < Len(more) /\ t.line = t.off + 1
                   /\ 2 * (t.off + 1) <= t.snap
  BY <1>4 DEF TokenOK
<1>10. t.kind = "page" => /\ ~Oversize(more[t.off + 1], cap)
                          /\ t.sub < Subevents(more[t.off + 1])
  BY <1>4, <1>6 DEF TokenOK
<1>11. \A i \in 1..t.off : ~Oversize(more[i], cap) BY <1>5 DEF TokenOK
<1>12. t.kind = "append" => t.sub = 0 /\ t.line = t.off /\ t.snap = 2 * t.off BY DEF TokenOK
<1> QED BY <1>7, <1>8, <1>9, <1>10, <1>11, <1>12 DEF TokenOK

\* What ScanInv says of a scan whose response will be believed.
LEMMA BelievedScan ==
  ASSUME IInv, pc = "render", ~scan.changed
  PROVE  /\ scan.handle = job.gen0 /\ job.gen0 \in 1..MaxGens /\ job.gen0 <= gen
         /\ recs[job.gen0] \in Seq(AllKinds) /\ Len(recs[job.gen0]) \in Nat
         /\ scan.pos \in Nat /\ scan.uninspected \in Nat /\ Through \in Nat
         /\ scan.pos <= Len(recs[job.gen0]) /\ scan.line = scan.pos
         /\ 2 * scan.pos <= job.len0 /\ job.len0 \in Nat
         /\ scan.uninspected # 0 => scan.uninspected = scan.pos
         /\ job.token.off <= Through
         /\ job.token.off = Through => ~(job.token.sub > 0)
         /\ Window(scan.selected, job.gen0, recs[job.gen0], job.token.off, job.token.sub,
                   Through, SelectWindow)
         /\ \A i \in 1..Through : ~Oversize(recs[job.gen0][i], client.cap)
<1>1. /\ scan.handle \in 1..MaxGens /\ scan.pos \in Nat /\ scan.uninspected \in Nat
      /\ scan.boundary \in Nat /\ job.len0 \in Nat /\ gen \in 1..MaxGens
      /\ job.gen0 \in 1..MaxGens
  BY DEF IInv, TypeIInv, TypeOK, ScanType, JobType, LogTypeOK
<1>2. scan.handle = job.gen0 /\ job.gen0 <= gen BY DEF IInv, RunInv, Running
<1>3. Reading /\ Through \in Nat BY <1>1 DEF Reading, Through
<1>4. recs[job.gen0] \in Seq(AllKinds) BY <1>1 DEF IInv, TypeIInv, TypeOK, LogTypeOK
<1>5. Len(recs[job.gen0]) \in Nat BY <1>4, LenProperties
<1>6. 2 * scan.pos <= scan.boundary /\ scan.boundary <= job.len0 BY <1>2, <1>3 DEF IInv, ScanInv
<1>7. 2 * scan.pos <= job.len0 BY <1>1, <1>6
<1> QED BY <1>1, <1>2, <1>3, <1>4, <1>5, <1>7 DEF IInv, ScanInv, Unread

\* A response gives a cursor that stands in the file that was read.
LEMMA NextTokenOK ==
  ASSUME IInv, pc = "render", NEW n \in 0..Len(Kept), NextToken(n) # NoToken,
         NEW cap, cap = IF NextToken(n).kind = "retry" THEN "raised" ELSE client.cap
  PROVE  /\ ~scan.changed
         /\ NextToken(n).gen = job.gen0
         /\ TokenOK(NextToken(n), cap, recs[job.gen0])
<1> DEFINE g == job.gen0
           rs == recs[g]
           t == NextToken(n)
<1>0. scan.selected \in Seq(EventType) BY DEF IInv, TypeIInv, TypeOK, ScanType
<1>1. ~scan.changed BY <1>0, NextTokenIs
<1>2. /\ g \in 1..MaxGens /\ rs \in Seq(AllKinds) /\ Len(rs) \in Nat
      /\ scan.pos \in Nat /\ scan.uninspected \in Nat /\ Through \in Nat
      /\ scan.pos <= Len(rs) /\ scan.line = scan.pos
      /\ 2 * scan.pos <= job.len0 /\ job.len0 \in Nat
      /\ scan.uninspected # 0 => scan.uninspected = scan.pos
      /\ Window(scan.selected, g, rs, job.token.off, job.token.sub, Through, SelectWindow)
      /\ \A i \in 1..Through : ~Oversize(rs[i], client.cap)
  BY <1>1, BelievedScan
<1>3. Through <= scan.pos BY <1>2 DEF Through
<1>4. CASE n < Len(Kept)
  <2> DEFINE e == Kept[n + 1]
  <2>1. t = PageCursor(n) BY <1>0, <1>1, <1>4, NextTokenIs
  <2>2. n + 1 \in 1..Len(Kept) /\ e = scan.selected[n + 1] /\ n + 1 \in DOMAIN scan.selected
    BY <1>0, <1>4, KeptIs, LenProperties
  <2>3. e \in Matches(g, rs) /\ e.rec <= Through BY <1>2, <2>2 DEF Window
  <2> HIDE DEF g, rs
  <2>4. /\ e.rec \in 1..Len(rs) /\ e.line = e.rec /\ e.sub < Subevents(rs[e.rec])
        /\ e.sub \in 0..1
    BY <1>2, <2>3, MatchFields
  <2>5. e.rec \in Nat /\ e.rec > 0 /\ e.rec - 1 + 1 = e.rec /\ e.rec - 1 \in Nat
        /\ e.rec - 1 < Len(rs) /\ e.rec - 1 <= Through /\ 2 * e.rec <= job.len0
    <3> DEFINE r == e.rec
               l == Len(rs)
    <3>1. /\ r \in 1..l /\ l \in Nat /\ r <= Through /\ Through <= scan.pos
          /\ Through \in Nat /\ scan.pos \in Nat /\ 2 * scan.pos <= job.len0
          /\ job.len0 \in Nat
      BY <1>2, <1>3, <2>3, <2>4
    <3> HIDE DEF r, l
    <3>2. /\ r \in Nat /\ r > 0 /\ r - 1 + 1 = r /\ r - 1 \in Nat
          /\ r - 1 < l /\ r - 1 <= Through
      BY <3>1
    <3>3. 2 * r <= job.len0 BY <3>1
    <3> QED BY <3>2, <3>3 DEF r, l
  <2>6. /\ t.kind = "page" /\ t.off = e.rec - 1 /\ t.sub = e.sub /\ t.snap = job.len0
        /\ t.line = e.line /\ t.gen = g
    BY <2>1, CursorFields DEF PageCursor, g
  <2>7. cap = client.cap BY <2>6
  <2> HIDE DEF t, e
  <2>8. e.rec \in 1..Through BY <2>3, <2>5, <1>2
  <2>9. \A i \in 1..t.off : ~Oversize(rs[i], cap)
    <3> TAKE i \in 1..t.off
    <3>1. i \in 1..Through BY <1>2, <2>5, <2>6
    <3> QED BY <1>2, <2>7, <3>1
  <2>10. ~Oversize(rs[t.off + 1], cap) /\ t.sub < Subevents(rs[t.off + 1])
    BY <1>2, <2>4, <2>5, <2>6, <2>7, <2>8
  <2>11. t.off <= Len(rs) /\ t.off < Len(rs) /\ t.line = t.off + 1
         /\ 2 * (t.off + 1) <= t.snap
    BY <1>2, <2>4, <2>5, <2>6
  <2>12. TokenOK(t, cap, rs) BY <2>6, <2>9, <2>10, <2>11 DEF TokenOK
  <2> QED BY <1>1, <2>6, <2>12 DEF t, g, rs
<1>5. CASE n = Len(Kept) /\ scan.uninspected # 0
  <2>1. t = RetryCursor BY <1>0, <1>1, <1>5, NextTokenIs
  <2>2. /\ t.kind = "retry" /\ t.off = scan.uninspected - 1 /\ t.sub = 0
        /\ t.snap = job.len0 /\ t.line = scan.line /\ t.gen = g
    BY <2>1, CursorFields DEF RetryCursor
  <2>3. cap = "raised" BY <2>2
  <2> HIDE DEF g, rs, t
  <2>4. t.off \in Nat /\ t.off + 1 = scan.pos /\ t.off < Len(rs) /\ t.off <= Len(rs)
        /\ 2 * (t.off + 1) <= t.snap /\ t.line = t.off + 1
    <3> DEFINE l == Len(rs)
               p == scan.pos
    <3>1. /\ p \in Nat /\ p > 0 /\ l \in Nat /\ p <= l /\ 2 * p <= job.len0
          /\ t.off = p - 1 /\ t.snap = job.len0 /\ t.line = p
      BY <1>2, <1>5, <2>2
    <3> HIDE DEF l, p
    <3>2. /\ t.off \in Nat /\ t.off + 1 = p /\ t.off < l /\ t.off <= l
          /\ 2 * (t.off + 1) <= t.snap /\ t.line = t.off + 1
      BY <3>1
    <3> QED BY <3>2 DEF l, p
  <2>5. \A k : ~Oversize(k, cap) BY <2>3 DEF Oversize
  <2>6. TokenOK(t, cap, rs) BY <2>2, <2>4, <2>5 DEF TokenOK, IsPage
  <2> QED BY <1>1, <2>2, <2>6 DEF g, rs, t
<1>6. CASE n = Len(Kept) /\ scan.uninspected = 0
  <2>1. t = AppendCursor BY <1>0, <1>1, <1>6, NextTokenIs
  <2>2. /\ t.kind = "append" /\ t.off = scan.pos /\ t.sub = 0
        /\ t.snap = 2 * scan.pos /\ t.line = scan.line /\ t.gen = g
    BY <2>1, CursorFields DEF AppendCursor
  <2>3. cap = client.cap /\ Through = scan.pos BY <1>6, <2>2 DEF Through
  <2> HIDE DEF g, rs, t
  <2>4. TokenOK(t, cap, rs) BY <1>2, <2>2, <2>3 DEF TokenOK, IsPage
  <2> QED BY <1>1, <2>2, <2>4 DEF g, rs, t
<1> QED BY <1>0, <1>4, <1>5, <1>6, NextTokenIs

\* Every step leaves the client a cursor that stands inside its file.
LEMMA TokenNext == IInv /\ [Next]_vars => TokenInv'
<1> SUFFICES ASSUME IInv, [Next]_vars PROVE TokenInv' OBVIOUS
<1>0. TypeIInv /\ TypeOK /\ LogTypeOK /\ TokenInv BY DEF IInv, TypeIInv, TypeOK
<1>1. CASE UNCHANGED <<gen, recs>> /\ client'.token = client.token /\ client'.cap = client.cap
  BY <1>0, <1>1 DEF TokenInv
<1>2. CASE Reject
  <2>1. client'.token = NoToken BY <1>0, <1>2, RejectEffect
  <2> QED BY <2>1, NoTokenType DEF TokenInv
<1>3. CASE Render
  <2>1. PICK n \in Shown : n \in 0..Len(Kept) /\ RenderOf(n) BY <1>0, <1>3, RenderEffect
  <2>2. pc = "render" /\ gen' = gen /\ recs' = recs
    BY <1>0, <1>3, RenderEffect DEF logVars
  <2>3. client'.token = NextToken(n)
        /\ client'.cap = (IF NextToken(n).kind = "retry" THEN "raised" ELSE client.cap)
    BY <2>1 DEF RenderOf
  <2>4. CASE NextToken(n) = NoToken BY <2>3, <2>4, NoTokenType DEF TokenInv
  <2>5. CASE NextToken(n) # NoToken
    <3>1. /\ client'.token.gen = job.gen0
          /\ TokenOK(client'.token, client'.cap, recs[job.gen0])
      BY <2>1, <2>2, <2>3, <2>5, NextTokenOK
    <3>2. job.gen0 <= gen BY <2>2 DEF IInv, RunInv, Running
    <3>3. client'.token.kind # "none"
      <4>1. scan.selected \in Seq(EventType) BY <1>0 DEF TypeOK, ScanType
      <4>2. \/ NextToken(n) = PageCursor(n) \/ NextToken(n) = RetryCursor
            \/ NextToken(n) = AppendCursor
        BY <2>1, <2>5, <4>1, NextTokenIs
      <4> QED BY <2>3, <4>2, CursorFields DEF PageCursor, RetryCursor, AppendCursor
    <3> QED BY <2>2, <3>1, <3>2, <3>3 DEF TokenInv
  <2> QED BY <2>4, <2>5
<1>4. CASE Disk
  <2>1. client' = client /\ LogNext BY <1>4 DEF Disk
  <2>2. /\ LogTypeOK' /\ gen <= gen' /\ gen \in Nat /\ gen' \in Nat
        /\ \A g \in 1..MaxGens : Extends(recs[g], recs'[g])
    BY <1>0, <2>1, LogStep DEF LogTypeOK
  <2> SUFFICES ASSUME client.token.kind # "none"
               PROVE  /\ client.token.gen <= gen'
                      /\ TokenOK(client.token, client.cap, recs'[client.token.gen])
    BY <1>0, <2>1 DEF TokenInv
  <2>3. client.token \in TokenType /\ client.token.gen \in 1..MaxGens
    BY <1>0 DEF TypeOK, TokenType
  <2>4. client.token.gen <= gen /\ TokenOK(client.token, client.cap, recs[client.token.gen])
    BY <1>0 DEF TokenInv
  <2>5. recs[client.token.gen] \in Seq(AllKinds) /\ recs'[client.token.gen] \in Seq(AllKinds)
    BY <1>0, <2>2, <2>3 DEF LogTypeOK
  <2>6. TokenOK(client.token, client.cap, recs'[client.token.gen])
    BY <2>2, <2>3, <2>4, <2>5, TokenGrow
  <2> QED BY <2>2, <2>3, <2>4, <2>6
<1>5. CASE Start BY <1>0, <1>1, <1>5, StartEffect DEF logVars
<1>6. CASE Fresh \/ Accept BY <1>0, <1>1, <1>6, ValidatedEffect DEF logVars
<1>7. CASE OpenReader BY <1>0, <1>1, <1>7, OpenEffect DEF logVars
<1>8. CASE ScanLine
  <2>1. UNCHANGED <<logVars, client>> BY <1>0, <1>8, ScanLineEffect
  <2> QED BY <1>1, <2>1 DEF logVars
<1>9. CASE ScanUninspected BY <1>0, <1>1, <1>9, ScanUninspectedEffect DEF logVars
<1>10. CASE ScanPendingTail \/ ScanEnd BY <1>0, <1>1, <1>10, ScanStopEffect DEF logVars
<1>11. CASE CheckSource BY <1>0, <1>1, <1>11, CheckSourceEffect DEF logVars
<1>12. CASE TooSmall BY <1>0, <1>1, <1>12, TooSmallEffect DEF logVars
<1>13. CASE UNCHANGED vars BY <1>1, <1>13 DEF vars, logVars
<1> QED
  BY <1>2, <1>3, <1>4, <1>5, <1>6, <1>7, <1>8, <1>9, <1>10, <1>11, <1>12, <1>13
  DEF Next, Query

----------------------------------------------------------------------------
(* What an invocation knows of the file *)

\* Every step keeps what an invocation knows of the file it opened.
LEMMA RunNext == IInv /\ [Next]_vars => RunInv'
<1> SUFFICES ASSUME IInv, [Next]_vars PROVE RunInv' OBVIOUS
<1>0. /\ TypeIInv /\ TypeOK /\ LogTypeOK
      /\ gen \in Nat /\ job.gen0 \in Nat /\ scan.handle \in Nat
  BY DEF IInv, TypeIInv, TypeOK, LogTypeOK, JobType, ScanType
<1>1. /\ Running => /\ job.token = client.token /\ job.gen0 <= gen
                    /\ job.limit \in PageLimits /\ answer = NoAnswer
      /\ (pc = "open" \/ Reading) /\ job.token.kind # "none" =>
           /\ job.token.gen = job.gen0
           /\ 2 * job.token.off <= job.len0 /\ job.token.snap <= job.len0
      /\ Reading => scan.handle \in job.gen0..gen
      /\ pc = "render" /\ ~scan.changed => scan.handle = job.gen0
  BY DEF IInv, RunInv
<1>2. pc' = "idle" => RunInv' BY DEF RunInv, Running, Reading
<1>3. CASE Start
  <2>1. /\ job'.token = client.token /\ job'.limit \in PageLimits /\ job'.gen0 = gen
        /\ pc' = "validate" /\ gen' = gen /\ client' = client /\ answer' = NoAnswer
    BY <1>0, <1>3, StartEffect DEF logVars
  <2> QED BY <1>0, <2>1 DEF RunInv, Running, Reading
<1>4. CASE Fresh \/ Accept
  <2>1. /\ pc = "validate" /\ pc' = "open" /\ job'.token = job.token
        /\ job'.limit = job.limit /\ job'.len0 = job.len0 /\ job'.gen0 = job.gen0
        /\ job.token.kind # "none" => Accepts(job.token)
        /\ gen' = gen /\ client' = client /\ answer' = answer
    BY <1>0, <1>4, ValidatedEffect DEF logVars
  <2>2. job.token.kind # "none" =>
          /\ job.token.gen = job.gen0
          /\ 2 * job.token.off <= job.len0 /\ job.token.snap <= job.len0
    BY <2>1 DEF Accepts
  <2> QED BY <1>1, <2>1, <2>2 DEF RunInv, Running, Reading
<1>5. CASE OpenReader
  <2>1. /\ pc = "open" /\ pc' = "scan" /\ scan'.handle = gen
        /\ gen' = gen /\ client' = client /\ job' = job /\ answer' = answer
    BY <1>0, <1>5, OpenEffect DEF logVars
  <2> QED BY <1>0, <1>1, <2>1 DEF RunInv, Running, Reading
<1>6. ASSUME pc = "scan", pc' \in {"scan", "check"}, scan'.handle = scan.handle,
             UNCHANGED <<gen, job, client, answer>>
      PROVE  RunInv'
  BY <1>1, <1>6 DEF RunInv, Running, Reading
<1>7. CASE ScanLine
  <2>1. /\ pc = "scan" /\ pc' \in {"scan", "check"} /\ SameScan
        /\ UNCHANGED <<logVars, job, client, answer>>
    BY <1>0, <1>7, ScanLineEffect
  <2> QED BY <1>6, <2>1 DEF SameScan, logVars
<1>8. CASE ScanUninspected
  BY <1>0, <1>6, <1>8, ScanUninspectedEffect DEF SameScan, logVars
<1>9. CASE ScanPendingTail \/ ScanEnd
  BY <1>0, <1>6, <1>9, ScanStopEffect DEF SameScan, logVars
<1>10. CASE CheckSource
  <2>1. /\ (pc = "check" /\ pc' = "recheck") \/ (pc = "recheck" /\ pc' = "render")
        /\ scan'.handle = scan.handle /\ scan'.changed = (scan.changed \/ SourceChange)
        /\ UNCHANGED <<gen, job, client, answer>>
    BY <1>0, <1>10, CheckSourceEffect DEF SameScan, logVars
  <2>2. scan.handle \in job.gen0..gen BY <1>1, <2>1 DEF Reading
  <2>3. ~SourceChange => scan.handle = job.gen0 BY <1>0, <2>2 DEF SourceChange
  <2> QED BY <1>1, <2>1, <2>2, <2>3 DEF RunInv, Running, Reading
<1>11. CASE Disk
  <2>1. gen <= gen' /\ gen' \in Nat BY <1>0, <1>11, LogStep DEF Disk, LogTypeOK
  <2>2. UNCHANGED <<pc, job, scan, client, answer>> BY <1>11 DEF Disk
  <2>3. job.gen0 <= gen => job.gen0 <= gen' BY <1>0, <2>1
  <2>4. scan.handle \in job.gen0..gen => scan.handle \in job.gen0..gen' BY <1>0, <2>1
  <2> QED BY <1>1, <2>2, <2>3, <2>4 DEF RunInv, Running, Reading
<1>12. CASE UNCHANGED vars
  BY <1>1, <1>12 DEF vars, logVars, RunInv, Running, Reading
<1>13. CASE Reject BY <1>0, <1>2, <1>13, RejectEffect
<1>14. CASE Render BY <1>0, <1>2, <1>14, RenderEffect
<1>15. CASE TooSmall BY <1>0, <1>2, <1>15, TooSmallEffect
<1> QED
  BY <1>3, <1>4, <1>5, <1>7, <1>8, <1>9, <1>10, <1>11, <1>12, <1>13, <1>14, <1>15
  DEF Next, Query

----------------------------------------------------------------------------
(* The scan's window *)

\* A cursor that names a second subevent stands on a record of two events.
LEMMA SecondSub ==
  ASSUME NEW t \in TokenType, NEW cap, NEW rs, TokenOK(t, cap, rs), t.sub > 0
  PROVE  /\ t.off < Len(rs) /\ t.sub < Subevents(rs[t.off + 1])
         /\ \A c : ~Oversize(rs[t.off + 1], c)
         /\ t.kind # "none" => IsPage(t)
<1>1. t.sub \in Nat /\ t.off < Len(rs) /\ t.sub < Subevents(rs[t.off + 1])
  BY DEF TokenType, TokenOK
<1>2. rs[t.off + 1] = "double"
  <2>1. Subevents(rs[t.off + 1]) \in 0..2 /\ (Subevents(rs[t.off + 1]) = 2 => rs[t.off + 1] = "double")
    BY SubeventsBound
  <2> QED BY <1>1, <2>1
<1>3. t.kind \in {"none", "page", "retry", "append"} /\ t.kind # "append"
  BY <1>1 DEF TokenOK, TokenType
<1> QED BY <1>1, <1>2, <1>3 DEF IsPage, Oversize

\* The scan starts with an empty window at the position of its cursor.
LEMMA OpenScan == IInv /\ OpenReader => ScanInv'
<1> SUFFICES ASSUME IInv, OpenReader, scan'.handle = job'.gen0 PROVE ScanInv'
  BY DEF ScanInv
<1> DEFINE t == job.token
           rs == recs[gen]
<1>0. /\ TypeIInv /\ TypeOK /\ LogTypeOK /\ gen \in 1..MaxGens /\ rs \in Seq(AllKinds)
      /\ t \in TokenType /\ job.len0 \in Nat /\ job.limit \in Nat \ {0}
  BY DEF IInv, TypeIInv, TypeOK, LogTypeOK, JobType
<1>1. /\ pc = "open" /\ pc' = "scan" /\ scan'.handle = gen
      /\ scan'.boundary = (IF EffectiveEnd < Length(gen) THEN EffectiveEnd ELSE Length(gen))
      /\ scan'.pos = t.off /\ scan'.line = StartLine(t)
      /\ scan'.selected = <<>> /\ scan'.uninspected = 0
      /\ UNCHANGED <<logVars, job, client>>
  BY <1>0, OpenEffect
<1>2. gen = job.gen0 /\ job' = job /\ recs' = recs /\ client' = client BY <1>1 DEF logVars
<1>3. t = client.token BY <1>1 DEF IInv, RunInv, Running
<1>4. t.off \in Nat /\ t.sub \in Nat /\ t.line \in Nat /\ t.snap \in Nat
      /\ t.kind \in {"none", "page", "retry", "append"}
  BY <1>0 DEF TokenType
<1>5. t.kind = "none" => t.off = 0 /\ t.sub = 0 BY <1>3, NoTokenType DEF IInv, TokenInv
<1>6. t.kind # "none" => TokenOK(t, client.cap, rs) /\ 2 * t.off <= job.len0
                         /\ t.snap <= job.len0
  BY <1>1, <1>2, <1>3 DEF IInv, TokenInv, RunInv
<1>7. Len(rs) \in Nat /\ Length(gen) \in Nat /\ 2 * Len(rs) <= Length(gen)
  BY <1>0, LengthType, LenProperties DEF Length, LogTypeOK
<1> HIDE DEF rs, t
<1>8. t.off <= Len(rs) BY <1>4, <1>5, <1>6, <1>7 DEF TokenOK
<1>9. IsPage(t) => t.off < Len(rs) /\ t.line = t.off + 1 /\ 2 * (t.off + 1) <= t.snap
                   /\ t.snap <= job.len0
  <2>1. IsPage(t) => t.kind # "none" BY DEF IsPage
  <2> QED BY <1>6, <2>1 DEF TokenOK
<1>10. EffectiveEnd = IF IsPage(t) THEN t.snap ELSE job.len0 BY DEF EffectiveEnd, t
<1>11. StartLine(t) = t.off
  <2>1. CASE IsPage(t) BY <1>4, <1>9, <2>1 DEF StartLine, IsPage
  <2>2. CASE t.kind = "append" BY <1>6, <2>2 DEF StartLine, IsPage, TokenOK
  <2>3. CASE t.kind = "none" BY <1>5, <2>3 DEF StartLine, IsPage
  <2> QED BY <1>4, <2>1, <2>2, <2>3 DEF IsPage
<1>12. EffectiveEnd \in Nat /\ EffectiveEnd <= job.len0 /\ 2 * t.off <= EffectiveEnd
  BY <1>0, <1>4, <1>5, <1>6, <1>9, <1>10
<1>13. 2 * t.off <= Length(gen) BY <1>4, <1>7, <1>8
<1>14. /\ 2 * scan'.pos <= scan'.boundary /\ scan'.boundary <= job.len0
  BY <1>0, <1>1, <1>7, <1>12, <1>13
<1>15. ASSUME t.sub > 0 PROVE 2 * (t.off + 1) <= scan'.boundary
  <2>1. t.kind # "none" BY <1>5, <1>15
  <2>2. IsPage(t) BY <1>0, <1>6, <1>15, <2>1, SecondSub DEF t
  <2>3. 2 * (t.off + 1) <= EffectiveEnd BY <1>9, <1>10, <2>2
  <2>4. 2 * (t.off + 1) <= Length(gen) BY <1>4, <1>7, <1>9, <2>2
  <2> QED BY <1>1, <2>3, <2>4
<1>16. \A i \in 1..t.off : ~Oversize(rs[i], client.cap) BY <1>4, <1>5, <1>6 DEF TokenOK
<1>17. SelectWindow' = SelectWindow /\ SelectWindow \in Nat \ {0}
  BY <1>0, <1>2, PageType DEF SelectWindow, Page
<1>18. Window(<<>>, gen, rs, t.off, t.sub, t.off, SelectWindow)
  <2>1. Len(<<>>) = 0 /\ DOMAIN <<>> = {} OBVIOUS
  <2>2. \A e \in Matches(gen, rs) : e.rec <= t.off => Prior(e, t.off, t.sub)
    BY <1>0, <1>4, MatchNumbers DEF Prior
  <2> QED BY <1>17, <2>1, <2>2 DEF Window, Ordered
<1>19. Through' = t.off BY <1>1 DEF Through
<1>20. job'.token = t /\ recs'[scan'.handle] = rs /\ client'.cap = client.cap
       /\ job'.len0 = job.len0
  BY <1>1, <1>2 DEF t, rs
<1>21. t.sub > 0 => Unread' BY <1>1, <1>15, <1>19 DEF Unread
<1>22. Window(scan'.selected, scan'.handle, recs'[scan'.handle], job'.token.off, job'.token.sub,
              Through', SelectWindow')
  BY <1>1, <1>17, <1>18, <1>19, <1>20
<1>23. \A i \in 1..Through' : ~Oversize(recs'[scan'.handle][i], client'.cap)
  BY <1>16, <1>19, <1>20
<1>24. scan'.pos <= Len(recs'[scan'.handle]) /\ scan'.line = scan'.pos
  BY <1>1, <1>8, <1>11, <1>20
<1> QED BY <1>1, <1>4, <1>14, <1>19, <1>20, <1>21, <1>22, <1>23, <1>24 DEF ScanInv

\* What ScanInv says of a scan of the file seen at open.
LEMMA ScanFacts ==
  ASSUME IInv, Reading, scan.handle = job.gen0
  PROVE  /\ job.gen0 \in 1..MaxGens /\ recs[job.gen0] \in Seq(AllKinds)
         /\ job.token \in TokenType /\ scan \in ScanType
         /\ scan.pos \in Nat /\ scan.uninspected \in Nat /\ scan.boundary \in Nat
         /\ job.token.off \in Nat /\ job.token.sub \in Nat /\ job.len0 \in Nat
         /\ Len(recs[job.gen0]) \in Nat /\ Through \in Nat /\ Through <= scan.pos
         /\ SelectWindow \in Nat \ {0}
         /\ scan.pos <= Len(recs[job.gen0]) /\ scan.line = scan.pos
         /\ 2 * scan.pos <= scan.boundary /\ scan.boundary <= job.len0
         /\ scan.uninspected # 0 => scan.uninspected = scan.pos /\ pc # "scan"
         /\ job.token.off <= Through
         /\ job.token.off = Through /\ job.token.sub > 0 => Unread
         /\ Window(scan.selected, job.gen0, recs[job.gen0], job.token.off, job.token.sub,
                   Through, SelectWindow)
         /\ \A i \in 1..Through : ~Oversize(recs[job.gen0][i], client.cap)
         /\ job.token.sub > 0 =>
              /\ job.token.off < Len(recs[job.gen0])
              /\ job.token.sub < Subevents(recs[job.gen0][job.token.off + 1])
              /\ \A c : ~Oversize(recs[job.gen0][job.token.off + 1], c)
              /\ IsPage(job.token)
<1>1. /\ job.gen0 \in 1..MaxGens /\ recs[job.gen0] \in Seq(AllKinds)
      /\ job.token \in TokenType /\ scan \in ScanType /\ job.len0 \in Nat
      /\ job.limit \in Nat \ {0}
  BY DEF IInv, TypeIInv, TypeOK, LogTypeOK, JobType
<1>2. /\ scan.pos \in Nat /\ scan.uninspected \in Nat /\ scan.boundary \in Nat
      /\ job.token.off \in Nat /\ job.token.sub \in Nat /\ Len(recs[job.gen0]) \in Nat
  BY <1>1, LenProperties DEF ScanType, TokenType
<1>3. scan.uninspected # 0 => scan.uninspected = scan.pos BY DEF IInv, ScanInv
<1>4. Through \in Nat /\ Through <= scan.pos BY <1>2, <1>3 DEF Through
<1>5. SelectWindow \in Nat \ {0} BY <1>1, PageType
<1>6. ASSUME job.token.sub > 0
      PROVE  /\ job.token.off < Len(recs[job.gen0])
             /\ job.token.sub < Subevents(recs[job.gen0][job.token.off + 1])
             /\ \A c : ~Oversize(recs[job.gen0][job.token.off + 1], c)
             /\ IsPage(job.token)
  <2>1. job.token = client.token BY DEF IInv, RunInv, Running, Reading
  <2>2. job.token.kind # "none" BY <1>6, <2>1, NoTokenType DEF IInv, TokenInv
  <2>3. job.token.gen = job.gen0 BY <2>2 DEF IInv, RunInv
  <2>4. TokenOK(job.token, client.cap, recs[job.gen0]) BY <2>1, <2>2, <2>3 DEF IInv, TokenInv
  <2> DEFINE rs == recs[job.gen0]
  <2> HIDE DEF rs
  <2> QED BY <1>1, <1>6, <2>2, <2>4, SecondSub DEF rs
<1> QED BY <1>1, <1>2, <1>4, <1>5, <1>6 DEF IInv, ScanInv

\* A line read keeps the window the first matches from the cursor on.
LEMMA ScanOneLine == IInv /\ ScanLine => ScanInv'
<1> SUFFICES ASSUME IInv, ScanLine, scan'.handle = job'.gen0 PROVE ScanInv'
  BY DEF ScanInv
<1> DEFINE g == job.gen0
           rs == recs[g]
           i == scan.pos + 1
           off == job.token.off
           sub == job.token.sub
<1>0. TypeIInv /\ TypeOK BY DEF IInv, TypeIInv
<1>1. /\ pc = "scan" /\ pc' \in {"scan", "check"}
      /\ Complete(i) /\ ~Oversize(Kind(i), client.cap)
      /\ SameScan /\ scan'.pos = i /\ scan'.line = scan.line + 1 /\ scan'.selected = Fed(i)
      /\ scan'.uninspected = scan.uninspected
      /\ UNCHANGED <<logVars, job, client>>
  BY <1>0, ScanLineEffect
<1>2. /\ job' = job /\ recs' = recs /\ client' = client /\ scan.handle = g
      /\ scan'.handle = g /\ scan'.boundary = scan.boundary /\ Reading
  BY <1>1 DEF logVars, SameScan, Reading
<1>3. /\ g \in 1..MaxGens /\ rs \in Seq(AllKinds) /\ scan.pos \in Nat
      /\ scan.boundary \in Nat /\ off \in Nat /\ sub \in Nat /\ job.len0 \in Nat
      /\ Len(rs) \in Nat /\ SelectWindow \in Nat \ {0}
      /\ scan.line = scan.pos /\ scan.boundary <= job.len0
      /\ scan.uninspected = 0 /\ off <= Through
      /\ Window(scan.selected, g, rs, off, sub, Through, SelectWindow)
      /\ \A j \in 1..Through : ~Oversize(rs[j], client.cap)
      /\ sub > 0 => /\ sub < Subevents(rs[off + 1]) /\ IsPage(job.token)
  BY <1>1, <1>2, ScanFacts
<1>4. Through = scan.pos BY <1>3 DEF Through
<1>5. Through' = i BY <1>1, <1>3 DEF Through
<1>6. i \in 1..Len(rs) /\ 2 * i <= scan.boundary /\ Kind(i) = rs[i] /\ i - 1 = scan.pos
  BY <1>1, <1>2, <1>3 DEF Complete, Kind
<1>7. FirstSub(i) <= Subevents(Kind(i))
  <2>1. Subevents(Kind(i)) \in 0..2 BY SubeventsBound
  <2>2. CASE off = scan.pos /\ sub > 0 BY <1>3, <1>6, <2>1, <2>2 DEF FirstSub
  <2>3. CASE ~(off = scan.pos /\ sub > 0) BY <1>3, <1>6, <2>1, <2>3 DEF FirstSub
  <2> QED BY <2>2, <2>3
<1>8. ~IsPage(job.token) => sub = 0 BY <1>3
<1> HIDE DEF g, rs, i, off, sub
<1>9. Window(Fed(i), g, rs, off, sub, i, SelectWindow)
  <2>1. g = scan.handle /\ rs = recs[g] BY <1>2 DEF rs
  <2>2. scan.line + 1 = i /\ off <= i - 1 BY <1>3, <1>4, <1>6 DEF i
  <2>3. off = job.token.off /\ sub = job.token.sub BY DEF off, sub
  <2>4. Window(scan.selected, g, rs, off, sub, i - 1, SelectWindow) BY <1>3, <1>4, <1>6
  <2> QED BY <1>0, <1>3, <1>6, <1>7, <1>8, <2>1, <2>2, <2>3, <2>4, FeedWindow
<1>10. SelectWindow' = SelectWindow BY <1>2 DEF SelectWindow, Page
<1>11. \A j \in 1..i : ~Oversize(rs[j], client.cap)
  <2>1. \A j \in 1..i : j \in 1..Through \/ j = i BY <1>3, <1>4, <1>6
  <2> QED BY <1>1, <1>3, <1>6, <2>1
<1>12. job'.token = job.token /\ recs'[scan'.handle] = rs /\ client'.cap = client.cap
       /\ job'.len0 = job.len0
  BY <1>2 DEF rs, g
<1>13. Window(scan'.selected, scan'.handle, recs'[scan'.handle], job'.token.off, job'.token.sub,
              Through', SelectWindow')
  BY <1>1, <1>2, <1>5, <1>9, <1>10, <1>12 DEF off, sub
<1>14. \A j \in 1..Through' : ~Oversize(recs'[scan'.handle][j], client'.cap)
  BY <1>5, <1>11, <1>12
<1>15. scan'.pos <= Len(recs'[scan'.handle]) /\ scan'.line = scan'.pos
       /\ 2 * scan'.pos <= scan'.boundary /\ scan'.boundary <= job'.len0
  BY <1>1, <1>2, <1>3, <1>6, <1>12 DEF i
<1>16. job'.token.off < Through' BY <1>3, <1>4, <1>5, <1>6, <1>12 DEF off
<1>17. scan'.uninspected = 0 BY <1>1, <1>3
<1>18. job'.token.off \in Nat /\ Through' \in Nat BY <1>3, <1>5, <1>6, <1>12 DEF off
<1> QED BY <1>13, <1>14, <1>15, <1>16, <1>17, <1>18 DEF ScanInv

\* A step that ends the scan or looks at the file keeps the window.
LEMMA ScanRests ==
  ASSUME IInv, Reading, scan.handle = job.gen0, SameScan, SameSelection,
         Through' = Through, scan'.pos <= Len(recs[job.gen0]), scan'.line = scan'.pos,
         2 * scan'.pos <= scan.boundary,
         scan'.uninspected # 0 => scan'.uninspected = scan'.pos, pc' # "scan",
         ~(job.token.off = Through /\ job.token.sub > 0),
         UNCHANGED <<logVars, job, client>>
  PROVE  ScanInv'
<1>1. /\ job' = job /\ recs' = recs /\ client' = client /\ scan'.handle = job.gen0
      /\ scan'.boundary = scan.boundary /\ scan'.selected = scan.selected
  BY DEF logVars, SameScan, SameSelection
<1>2. SelectWindow' = SelectWindow BY <1>1 DEF SelectWindow, Page
<1>3. /\ scan.boundary <= job.len0 /\ job.token.off <= Through
      /\ Window(scan.selected, job.gen0, recs[job.gen0], job.token.off, job.token.sub,
                Through, SelectWindow)
      /\ \A i \in 1..Through : ~Oversize(recs[job.gen0][i], client.cap)
  BY ScanFacts
<1> QED BY <1>1, <1>2, <1>3 DEF ScanInv

\* So does every other step.
LEMMA ScanNext == IInv /\ [Next]_vars => ScanInv'
<1> SUFFICES ASSUME IInv, [Next]_vars PROVE ScanInv' OBVIOUS
<1>0. TypeIInv /\ TypeOK /\ LogTypeOK BY DEF IInv, TypeIInv, TypeOK
<1>1. pc' \notin {"scan", "check", "recheck", "render"} => ScanInv' BY DEF ScanInv, Reading
<1>2. CASE Start BY <1>0, <1>1, <1>2, StartEffect
<1>3. CASE Fresh \/ Accept BY <1>0, <1>1, <1>3, ValidatedEffect
<1>4. CASE Reject BY <1>0, <1>1, <1>4, RejectEffect
<1>5. CASE OpenReader BY <1>5, OpenScan
<1>6. CASE ScanLine BY <1>6, ScanOneLine
<1>7. CASE ScanUninspected
  <2>1. /\ pc = "scan" /\ pc' = "check"
        /\ Complete(scan.pos + 1) /\ Oversize(Kind(scan.pos + 1), client.cap)
        /\ SameScan /\ SameSelection
        /\ scan'.pos = scan.pos + 1 /\ scan'.line = scan.line + 1
        /\ scan'.uninspected = scan.pos + 1 /\ UNCHANGED <<logVars, job, client>>
    BY <1>0, <1>7, ScanUninspectedEffect
  <2> SUFFICES ASSUME scan.handle = job.gen0 PROVE ScanInv'
    BY <2>1 DEF ScanInv, SameScan
  <2>2. Reading BY <2>1 DEF Reading
  <2>3. /\ scan.pos \in Nat /\ scan.uninspected = 0 /\ scan.line = scan.pos
        /\ job.token.sub > 0 =>
             \A c : ~Oversize(recs[job.gen0][job.token.off + 1], c)
    BY <2>1, <2>2, ScanFacts
  <2>4. Through = scan.pos /\ Through' = scan.pos BY <2>1, <2>3 DEF Through
  <2>5. ~(job.token.off = Through /\ job.token.sub > 0) BY <2>1, <2>3, <2>4 DEF Kind
  <2>6. scan.pos + 1 <= Len(recs[job.gen0]) /\ 2 * (scan.pos + 1) <= scan.boundary
    BY <2>1 DEF Complete
  <2> QED BY <2>1, <2>2, <2>3, <2>4, <2>5, <2>6, ScanRests
<1>8. CASE ScanPendingTail \/ ScanEnd
  <2>1. /\ pc = "scan" /\ pc' = "check"
        /\ ~Complete(scan.pos + 1) \/ 2 * scan.pos >= scan.boundary
        /\ SameScan /\ SameSelection /\ scan'.pos = scan.pos /\ scan'.line = scan.line
        /\ scan'.uninspected = scan.uninspected /\ UNCHANGED <<logVars, job, client>>
    BY <1>0, <1>8, ScanStopEffect
  <2> SUFFICES ASSUME scan.handle = job.gen0 PROVE ScanInv'
    BY <2>1 DEF ScanInv, SameScan
  <2>2. Reading BY <2>1 DEF Reading
  <2>3. /\ scan.pos \in Nat /\ scan.uninspected = 0 /\ scan.line = scan.pos
        /\ scan.boundary \in Nat /\ scan.pos <= Len(recs[job.gen0])
        /\ 2 * scan.pos <= scan.boundary /\ Len(recs[job.gen0]) \in Nat
        /\ job.token.off = Through /\ job.token.sub > 0 => Unread
        /\ job.token.sub > 0 => job.token.off < Len(recs[job.gen0])
    BY <2>1, <2>2, ScanFacts
  <2>4. Through = scan.pos /\ Through' = scan.pos BY <2>1, <2>3 DEF Through
  <2>5. ASSUME job.token.off = Through, job.token.sub > 0 PROVE FALSE
    <3>1. 2 * (scan.pos + 1) <= scan.boundary /\ scan.pos < Len(recs[job.gen0])
      BY <2>3, <2>4, <2>5 DEF Unread
    <3>2. Complete(scan.pos + 1) /\ ~(2 * scan.pos >= scan.boundary)
      BY <2>3, <3>1 DEF Complete
    <3> QED BY <2>1, <3>2
  <2> QED BY <2>1, <2>2, <2>3, <2>4, <2>5, ScanRests
<1>9. CASE CheckSource
  <2>1. /\ (pc = "check" /\ pc' = "recheck") \/ (pc = "recheck" /\ pc' = "render")
        /\ SameScan /\ SameSelection /\ scan'.pos = scan.pos /\ scan'.line = scan.line
        /\ scan'.uninspected = scan.uninspected /\ UNCHANGED <<logVars, job, client>>
    BY <1>0, <1>9, CheckSourceEffect
  <2> SUFFICES ASSUME scan.handle = job.gen0 PROVE ScanInv'
    BY <2>1 DEF ScanInv, SameScan
  <2>2. Reading BY <2>1 DEF Reading
  <2>3. /\ scan.uninspected # 0 => scan.uninspected = scan.pos
        /\ scan.line = scan.pos /\ scan.pos <= Len(recs[job.gen0])
        /\ 2 * scan.pos <= scan.boundary
        /\ job.token.off = Through /\ job.token.sub > 0 => Unread
    BY <2>2, ScanFacts
  <2>4. Through' = Through /\ ~Unread BY <2>1 DEF Through, Unread
  <2> QED BY <2>1, <2>2, <2>3, <2>4, ScanRests
<1>10. CASE Render BY <1>0, <1>1, <1>10, RenderEffect
<1>11. CASE TooSmall BY <1>0, <1>1, <1>11, TooSmallEffect
<1>12. CASE Disk
  <2>1. UNCHANGED <<pc, job, scan, client>> /\ LogNext BY <1>12 DEF Disk
  <2> SUFFICES ASSUME Reading, scan.handle = job.gen0 PROVE ScanInv'
    BY <2>1 DEF ScanInv, Reading
  <2> DEFINE g == job.gen0
             rs == recs[g]
             more == recs'[g]
  <2>2. g \in 1..MaxGens /\ rs \in Seq(AllKinds) /\ more \in Seq(AllKinds) /\ Extends(rs, more)
    BY <1>0, <2>1, ScanFacts, LogStep DEF LogTypeOK
  <2>3. SelectWindow' = SelectWindow /\ Through' = Through /\ Unread' = Unread
    BY <2>1 DEF SelectWindow, Page, Through, Unread
  <2>4. /\ scan.pos \in Nat /\ Len(rs) \in Nat /\ Through \in Nat /\ Through <= scan.pos
        /\ job.token.off \in Nat /\ job.token.sub \in Nat /\ SelectWindow \in Nat
        /\ scan.pos <= Len(rs) /\ scan.line = scan.pos
        /\ 2 * scan.pos <= scan.boundary /\ scan.boundary <= job.len0
        /\ scan.uninspected # 0 => scan.uninspected = scan.pos /\ pc # "scan"
        /\ job.token.off <= Through
        /\ job.token.off = Through /\ job.token.sub > 0 => Unread
        /\ Window(scan.selected, g, rs, job.token.off, job.token.sub, Through, SelectWindow)
        /\ \A i \in 1..Through : ~Oversize(rs[i], client.cap)
    BY ScanFacts
  <2> HIDE DEF rs, more
  <2>5. Len(more) \in Nat /\ scan.pos <= Len(more) /\ Through <= Len(rs)
        /\ \A i \in 1..Through : more[i] = rs[i]
    BY <2>2, <2>4, LenProperties DEF Extends
  <2>6. Window(scan.selected, g, more, job.token.off, job.token.sub, Through, SelectWindow)
    BY <2>2, <2>4, <2>5, WindowGrow
  <2>7. \A i \in 1..Through : ~Oversize(more[i], client.cap) BY <2>4, <2>5
  <2>8. job' = job /\ scan' = scan /\ client' = client /\ pc' = pc /\ recs'[g] = more
    BY <2>1 DEF more
  <2> QED BY <2>3, <2>4, <2>5, <2>6, <2>7, <2>8 DEF ScanInv
<1>13. CASE UNCHANGED vars
  BY <1>13 DEF IInv, ScanInv, vars, logVars, Reading, Through, Unread, SelectWindow, Page
<1> QED
  BY <1>2, <1>3, <1>4, <1>5, <1>6, <1>7, <1>8, <1>9, <1>10, <1>11, <1>12, <1>13
  DEF Next, Query

----------------------------------------------------------------------------
(* The invariant *)

\* The invariant holds before the first invocation.
LEMMA IInvInit == Init => IInv
<1> SUFFICES ASSUME Init PROVE IInv OBVIOUS
<1>1. pc = "idle" /\ client.token = NoToken BY DEF Init
<1>2. NoToken.kind = "none" BY NoTokenType
<1>3. TypeIInv BY TypeInit
<1> QED BY <1>1, <1>2, <1>3 DEF IInv, TokenInv, RunInv, ScanInv, Running, Reading

\* Every step keeps the invariant.
LEMMA IInvNext == IInv /\ [Next]_vars => IInv'
BY TypeNext, TokenNext, RunNext, ScanNext DEF IInv

\* An append cursor stands behind a complete line, and every record before it was
\* inspected (runner.rs 1046-1092).
THEOREM AppendStandsBehindInspected == Spec => []AppendBehindInspected
<1>1. Init => IInv BY IInvInit
<1>2. IInv /\ [Next]_vars => IInv' BY IInvNext
<1>3. IInv => AppendBehindInspected
  BY DEF IInv, TokenInv, TokenOK, AppendBehindInspected
<1> QED BY <1>1, <1>2, <1>3, PTL DEF Spec

----------------------------------------------------------------------------
(* Following a page cursor moves on *)

\* The page that follows a page begins behind where that one began, whatever the
\* byte budget let through (runner.rs 1436-1444).
LEMMA PageStep ==
  ASSUME IInv, [Next]_vars, pc = "render", job.token.kind = "page",
         client'.token.kind = "page", answer'.status \in {"ok", "partial"}
  PROVE  \/ job.token.off < client'.token.off
         \/ job.token.off = client'.token.off /\ job.token.sub < client'.token.sub
<1>0. TypeIInv /\ TypeOK BY DEF IInv, TypeIInv
<1>1. answer = NoAnswer BY DEF IInv, RunInv, Running
<1>2. Render
  <2>1. answer' # answer /\ answer' # NoAnswer BY <1>1 DEF NoAnswer
  <2>2. ~Disk /\ ~CheckSource /\ ~UNCHANGED vars
    BY <2>1 DEF Disk, CheckSource, vars
  <2>3. ~TooSmall BY <1>0, TooSmallEffect DEF NoAnswer
  <2> QED BY <2>2, <2>3 DEF Next, Query, Start, Fresh, Accept, Reject, OpenReader, ScanLine,
          ScanUninspected, ScanPendingTail, ScanEnd
<1>3. PICK n \in Shown : n \in 0..Len(Kept) /\ RenderOf(n) BY <1>0, <1>2, RenderEffect
<1>4. client'.token = NextToken(n) BY <1>3 DEF RenderOf
<1>5. scan.selected \in Seq(EventType) /\ job.limit \in Nat \ {0}
  BY <1>0 DEF TypeOK, ScanType, JobType
<1>6. n < Len(Kept) /\ NextToken(n) = PageCursor(n) /\ ~scan.changed
  BY <1>3, <1>4, <1>5, NextTokenIs, NoTokenType, CursorFields DEF RetryCursor, AppendCursor
<1> DEFINE g == job.gen0
           rs == recs[g]
           s == scan.selected
           e == s[n + 1]
           f == s[1]
           off == job.token.off
           sub == job.token.sub
<1>7. /\ rs \in Seq(AllKinds) /\ Window(s, g, rs, off, sub, Through, SelectWindow)
  BY <1>6, BelievedScan
<1>8. n > 0 /\ n + 1 \in DOMAIN s /\ 1 \in DOMAIN s /\ Kept[n + 1] = e
  <2>1. Kept \in Seq(EventType) /\ Len(Kept) \in Nat /\ Len(Kept) <= Len(s) /\ Len(s) \in Nat
        /\ DOMAIN s = 1..Len(s)
    BY <1>5, KeptIs, LenProperties
  <2>0. n \in Nat /\ n < Len(Kept) BY <1>3, <1>6, <2>1
  <2>2. Kept # <<>>
    <3>1. Len(<<>>) = 0 OBVIOUS
    <3> QED BY <2>0, <3>1
  <2>3. n > 0 BY <1>5, <2>2, ShownIs
  <2>4. n + 1 \in 1..Len(Kept) /\ n + 1 \in 1..Len(s) /\ 1 \in 1..Len(s)
    <3> HIDE DEF s
    <3> QED BY <2>0, <2>1, <2>3
  <2>5. Kept[n + 1] = s[n + 1] BY <1>5, <2>4, KeptIs
  <2> QED BY <2>1, <2>3, <2>4, <2>5
<1>9. client'.token.off = e.rec - 1 /\ client'.token.sub = e.sub
  BY <1>4, <1>6, <1>8, CursorFields DEF PageCursor
<1>10. off \in Nat /\ sub \in Nat BY <1>0 DEF TypeOK, JobType, TokenType
<1> HIDE DEF rs, s, off, sub
<1>11. /\ e \in Matches(g, rs) /\ f \in Matches(g, rs) /\ ~Prior(f, off, sub)
       /\ Before(f, e)
  <2>1. n \in Nat /\ 1 < n + 1 BY <1>3, <1>8
  <2> QED BY <1>7, <1>8, <2>1 DEF Window, Ordered
<1>12. /\ e.rec \in Nat /\ e.sub \in Nat /\ f.rec \in Nat /\ f.sub \in Nat
  BY <1>7, <1>11, MatchNumbers
<1> HIDE DEF e, f
<1>13. off < e.rec - 1 \/ (off = e.rec - 1 /\ sub < e.sub)
  BY <1>10, <1>11, <1>12 DEF Before, Prior
<1> QED BY <1>9, <1>13 DEF off, sub

\* PageProgress, for every step.
THEOREM PagesMoveOn == Spec => PageProgress
<1>1. Init => IInv BY IInvInit
<1>2. IInv /\ [Next]_vars => IInv' BY IInvNext
<1>3. IInv /\ [Next]_vars =>
        [ (pc = "render" /\ job.token.kind = "page" /\ client'.token.kind = "page"
            /\ answer'.status \in {"ok", "partial"})
           => \/ job.token.off < client'.token.off
              \/ job.token.off = client'.token.off /\ job.token.sub < client'.token.sub ]_vars
  BY PageStep
<1> QED BY <1>1, <1>2, <1>3, PTL DEF Spec, PageProgress

----------------------------------------------------------------------------
(* Nothing is missed, nothing is shown twice *)

\* A window within the retention is kept whole.
LEMMA KeptWhole ==
  ASSUME IInv, WindowFits, pc = "render", ~scan.changed
  PROVE  Kept = scan.selected
<1> DEFINE s == scan.selected
<1>1. s \in Seq(EventType) /\ job.limit \in Nat \ {0} /\ job.limit \in PageLimits
  BY DEF IInv, TypeIInv, TypeOK, ScanType, JobType, RunInv, Running
<1>2. Page < RetainCap BY <1>1 DEF WindowFits, Page
<1>3. Len(s) <= SelectWindow /\ Len(s) \in Nat
  BY <1>1, BelievedScan, LenProperties DEF Window
<1>4. Len(s) <= RetainCap BY <1>1, <1>2, <1>3, PageType, RetainType
<1>5. Lesser(Len(s), RetainCap) = Len(s) BY <1>3, <1>4, RetainType DEF Lesser
<1>6. Kept = SubSeq(s, 1, Len(s)) BY <1>5 DEF Kept
<1> HIDE DEF s
<1>7. Kept = s BY <1>1, <1>6, SubSeqFull
<1> QED BY <1>7 DEF s

\* What the client was shown before the page it is about to get.
LEMMA ShownSoFar ==
  ASSUME IInv, ShowInv, pc = "render", ~scan.changed
  PROVE  Shows(emitted, job.gen0, recs[job.gen0], job.token.off, job.token.sub)
<1>1. job.token = client.token /\ Reading /\ Running BY DEF IInv, RunInv, Running, Reading
<1>2. CASE client.token.kind # "none"
  <2>1. client.token.gen = job.gen0 BY <1>1, <1>2 DEF IInv, RunInv
  <2> QED BY <1>1, <1>2, <2>1 DEF ShowInv
<1>3. CASE client.token.kind = "none"
  <2>1. client.token = NoToken /\ emitted = <<>> BY <1>1, <1>3 DEF IInv, TokenInv, ShowInv
  <2>2. job.token.off = 0 /\ job.token.sub = 0 BY <1>1, <2>1, NoTokenType
  <2>3. recs[job.gen0] \in Seq(AllKinds) BY BelievedScan
  <2>4. \A e \in Matches(job.gen0, recs[job.gen0]) : ~Prior(e, 0, 0)
    BY <2>3, MatchNumbers DEF Prior
  <2>5. DOMAIN <<>> = {} OBVIOUS
  <2> QED BY <2>1, <2>2, <2>4, <2>5 DEF Shows, Ordered
<1> QED BY <1>2, <1>3

\* What a response shows is the matches before a place, which is the place of the
\* cursor it gives, if it gives one.
LEMMA RenderPlace ==
  ASSUME IInv, ShowInv, WindowFits, pc = "render", ~scan.changed,
         NEW n \in Shown, n \in 0..Len(Kept)
  PROVE  \E to \in Nat, upto \in Nat :
           /\ Shows(emitted \o SubSeq(Kept, 1, n), job.gen0, recs[job.gen0], to, upto)
           /\ NextToken(n) # NoToken => NextToken(n).off = to /\ NextToken(n).sub = upto
<1> DEFINE g == job.gen0
           rs == recs[g]
           s == scan.selected
           off == job.token.off
           sub == job.token.sub
           w == SelectWindow
           hi == Through
<1>0. /\ s \in Seq(EventType) /\ emitted \in Seq(EventType) /\ job.limit \in Nat \ {0}
      /\ off \in Nat /\ sub \in Nat
  BY DEF IInv, TypeIInv, TypeOK, ScanType, JobType, TokenType
<1>2. Kept = s BY KeptWhole
<1>3. Shows(emitted, g, rs, off, sub) BY ShownSoFar
<1>4. /\ rs \in Seq(AllKinds) /\ hi \in Nat /\ off <= hi /\ scan.uninspected \in Nat
      /\ off = hi => ~(sub > 0)
      /\ Window(s, g, rs, off, sub, hi, w)
  BY BelievedScan
<1>5. w \in Nat /\ n < w /\ n \in Nat
  BY <1>0, PageType, ShownIs, KeptIs, LenProperties
<1>6. n \in 0..Len(s) BY <1>2
<1>7. CASE n < Len(s)
  <2>1. NextToken(n) = PageCursor(n) BY <1>0, <1>2, <1>7, NextTokenIs
  <2>2. NextToken(n).off = s[n + 1].rec - 1 /\ NextToken(n).sub = s[n + 1].sub
    BY <1>2, <2>1, CursorFields DEF PageCursor
  <2> HIDE DEF g, rs, s, off, sub, w, hi
  <2>3. Shows(emitted \o SubSeq(s, 1, n), g, rs, s[n + 1].rec - 1, s[n + 1].sub)
    BY <1>0, <1>3, <1>4, <1>5, <1>6, <1>7, ShowPart
  <2>4. n + 1 \in DOMAIN s BY <1>0, <1>5, <1>7, LenProperties
  <2>5. s[n + 1].rec - 1 \in Nat /\ s[n + 1].sub \in Nat
    BY <1>4, <2>4, MatchNumbers DEF Window
  <2> QED BY <1>2, <2>2, <2>3, <2>5 DEF g, rs, s
<1>8. CASE n = Len(s)
  <2>1. NextToken(n) # NoToken => NextToken(n).off = hi /\ NextToken(n).sub = 0
    <3> SUFFICES ASSUME NextToken(n) # NoToken
                 PROVE  NextToken(n).off = hi /\ NextToken(n).sub = 0
      OBVIOUS
    <3>1. CASE scan.uninspected # 0
      <4>1. NextToken(n) = RetryCursor BY <1>0, <1>2, <1>8, <3>1, NextTokenIs
      <4> QED BY <3>1, <4>1, CursorFields DEF RetryCursor, Through
    <3>2. CASE scan.uninspected = 0
      <4>1. NextToken(n) = AppendCursor BY <1>0, <1>2, <1>8, <3>2, NextTokenIs
      <4> QED BY <3>2, <4>1, CursorFields DEF AppendCursor, Through
    <3> QED BY <3>1, <3>2
  <2> HIDE DEF g, rs, s, off, sub, w, hi
  <2>2. off < hi \/ (off = hi /\ sub = 0) BY <1>0, <1>4
  <2>3. Shows(emitted \o SubSeq(s, 1, n), g, rs, hi, 0)
    BY <1>0, <1>3, <1>4, <1>5, <1>6, <1>8, <2>2, ShowAll
  <2> QED BY <1>2, <1>4, <2>1, <2>3 DEF g, rs, s
<1>9. n < Len(s) \/ n = Len(s) BY <1>0, <1>6, LenProperties
<1> QED BY <1>7, <1>8, <1>9

\* The page and the cursor a response gives fit together.
LEMMA RenderShows ==
  ASSUME IInv, ShowInv, WindowFits, pc = "render", NEW n \in Shown, n \in 0..Len(Kept),
         NextToken(n) # NoToken
  PROVE  Shows(emitted \o SubSeq(Kept, 1, n), job.gen0, recs[job.gen0],
               NextToken(n).off, NextToken(n).sub)
<1>1. scan.selected \in Seq(EventType) BY DEF IInv, TypeIInv, TypeOK, ScanType
<1>2. ~scan.changed BY <1>1, NextTokenIs
<1> QED BY <1>2, RenderPlace

\* Every step keeps what was shown up to the cursor.
LEMMA ShowNext == WindowFits /\ IInv /\ ShowInv /\ [Next]_vars => ShowInv'
<1> SUFFICES ASSUME WindowFits, IInv, ShowInv, [Next]_vars PROVE ShowInv' OBVIOUS
<1>0. TypeIInv /\ TypeOK /\ LogTypeOK BY DEF IInv, TypeIInv, TypeOK
<1>1. ASSUME UNCHANGED <<recs, emitted>>, client'.token = client.token,
             Running' => Running
      PROVE  ShowInv'
  BY <1>1 DEF ShowInv
<1>2. ASSUME client'.token = NoToken, pc' = "idle" PROVE ShowInv'
  BY <1>2, NoTokenType DEF ShowInv, Running
<1>3. CASE Start
  <2>1. /\ emitted' = (IF client.token.kind = "none" THEN <<>> ELSE emitted)
        /\ recs' = recs /\ client' = client
    BY <1>0, <1>3, StartEffect DEF logVars
  <2> QED BY <2>1 DEF ShowInv
<1>4. CASE Fresh \/ Accept
  BY <1>0, <1>1, <1>4, ValidatedEffect DEF logVars, Running
<1>5. CASE Reject BY <1>0, <1>2, <1>5, RejectEffect
<1>6. CASE OpenReader BY <1>0, <1>1, <1>6, OpenEffect DEF logVars, Running
<1>7. CASE ScanLine
  <2>1. UNCHANGED <<logVars, client, emitted>> /\ pc = "scan" BY <1>0, <1>7, ScanLineEffect
  <2> QED BY <1>1, <2>1 DEF logVars, Running
<1>8. CASE ScanUninspected BY <1>0, <1>1, <1>8, ScanUninspectedEffect DEF logVars, Running
<1>9. CASE ScanPendingTail \/ ScanEnd
  BY <1>0, <1>1, <1>9, ScanStopEffect DEF logVars, Running
<1>10. CASE CheckSource BY <1>0, <1>1, <1>10, CheckSourceEffect DEF logVars, Running
<1>11. CASE Render
  <2>1. PICK n \in Shown : n \in 0..Len(Kept) /\ RenderOf(n) BY <1>0, <1>11, RenderEffect
  <2>2. pc = "render" /\ pc' = "idle" /\ recs' = recs
    BY <1>0, <1>11, RenderEffect DEF logVars
  <2>3. /\ client'.token = NextToken(n)
        /\ emitted' = (IF scan.changed THEN <<>> ELSE emitted \o SubSeq(Kept, 1, n))
    BY <2>1 DEF RenderOf
  <2>4. CASE NextToken(n) = NoToken BY <1>2, <2>2, <2>3, <2>4
  <2>5. CASE NextToken(n) # NoToken
    <3>1. Shows(emitted \o SubSeq(Kept, 1, n), job.gen0, recs[job.gen0],
                NextToken(n).off, NextToken(n).sub)
      BY <2>1, <2>2, <2>5, RenderShows
    <3>2. ~scan.changed /\ NextToken(n).gen = job.gen0 BY <2>1, <2>2, <2>5, NextTokenOK
    <3> QED BY <2>2, <2>3, <3>1, <3>2 DEF ShowInv, Running
  <2> QED BY <2>4, <2>5
<1>12. CASE TooSmall BY <1>0, <1>1, <1>12, TooSmallEffect DEF logVars, Running
<1>13. CASE Disk
  <2>1. UNCHANGED <<pc, client, emitted>> /\ LogNext BY <1>13 DEF Disk
  <2>2. /\ LogTypeOK' /\ \A g \in 1..MaxGens : Extends(recs[g], recs'[g])
    BY <1>0, <2>1, LogStep
  <2> SUFFICES ASSUME client.token.kind # "none"
               PROVE  Shows(emitted, client.token.gen, recs'[client.token.gen],
                            client.token.off, client.token.sub)
    BY <2>1 DEF ShowInv, Running
  <2> DEFINE g == client.token.gen
             rs == recs[g]
             more == recs'[g]
             off == client.token.off
             sub == client.token.sub
  <2>3. g \in 1..MaxGens /\ off \in Nat /\ sub \in Nat BY <1>0 DEF TypeOK, TokenType
  <2>4. rs \in Seq(AllKinds) /\ more \in Seq(AllKinds) /\ Extends(rs, more)
    BY <1>0, <2>2, <2>3 DEF LogTypeOK
  <2>5. off <= Len(rs) /\ (sub > 0 => off < Len(rs)) BY DEF IInv, TokenInv, TokenOK
  <2>6. Shows(emitted, g, rs, off, sub) BY DEF ShowInv
  <2> HIDE DEF g, rs, more, off, sub
  <2>7. Shows(emitted, g, more, off, sub) BY <2>3, <2>4, <2>5, <2>6, ShowsGrow
  <2> QED BY <2>7 DEF g, more, off, sub
<1>14. CASE UNCHANGED vars BY <1>1, <1>14 DEF vars, logVars, Running
<1> QED
  BY <1>3, <1>4, <1>5, <1>6, <1>7, <1>8, <1>9, <1>10, <1>11, <1>12, <1>13, <1>14
  DEF Next, Query

\* Nothing is shown at first.
LEMMA ShowInit == Init => ShowInv
<1> SUFFICES ASSUME Init PROVE ShowInv OBVIOUS
<1>1. client.token = NoToken /\ pc = "idle" BY DEF Init
<1> QED BY <1>1, NoTokenType DEF ShowInv, Running

\* What was shown, as the property counts it.
LEMMA ShowImplies == IInv /\ ShowInv => NoGapNoRepeat
<1> SUFFICES ASSUME IInv, ShowInv, client.token.kind # "none"
             PROVE  /\ {emitted[i] : i \in DOMAIN emitted}
                         = MatchesBefore(client.token.gen, client.token.off, client.token.sub)
                    /\ \A i, j \in DOMAIN emitted : i < j => Before(emitted[i], emitted[j])
  BY DEF NoGapNoRepeat
<1> DEFINE g == client.token.gen
           off == client.token.off
           sub == client.token.sub
<1>1. Shows(emitted, g, recs[g], off, sub) BY DEF ShowInv
<1>2. \A e : e \in MatchesBefore(g, off, sub) <=> e \in Matches(g, recs[g]) /\ Prior(e, off, sub)
  BY DEF MatchesBefore, Matches, Prior
<1> HIDE DEF g, off, sub
<1>3. \A i, j \in DOMAIN emitted : i < j => Before(emitted[i], emitted[j])
  BY <1>1 DEF Shows, Ordered
<1>4. \A i \in DOMAIN emitted : emitted[i] \in MatchesBefore(g, off, sub)
  BY <1>1, <1>2 DEF Shows
<1>5. \A e \in MatchesBefore(g, off, sub) : \E i \in DOMAIN emitted : emitted[i] = e
  BY <1>1, <1>2 DEF Shows
<1>6. {emitted[i] : i \in DOMAIN emitted} = MatchesBefore(g, off, sub) BY <1>4, <1>5
<1> QED BY <1>3, <1>6 DEF g, off, sub

\* A client that follows its cursors has been shown, once and in file order, exactly
\* the matching events before the position its cursor resumes from, as long as the
\* retention is larger than a page (runner.rs 861-1061, 1349-1544).
THEOREM ClientMissesNothing == WindowFits => (Spec => []NoGapNoRepeat)
<1> SUFFICES ASSUME WindowFits PROVE Spec => []NoGapNoRepeat OBVIOUS
<1>1. Init => IInv /\ ShowInv BY IInvInit, ShowInit
<1>2. IInv /\ ShowInv /\ [Next]_vars => IInv' /\ ShowInv' BY IInvNext, ShowNext
<1>3. IInv /\ ShowInv => NoGapNoRepeat BY ShowImplies
<1> QED BY <1>1, <1>2, <1>3, PTL DEF Spec

----------------------------------------------------------------------------
(* The client is fed as Feed promises *)

\* What is before a place in a file, shown in order, is a beginning of the file.
LEMMA ShowsBeginning ==
  ASSUME NEW g, NEW rs \in Seq(AllKinds), NEW em, NEW off \in Nat, NEW sub \in Nat,
         Shows(em, g, rs, off, sub)
  PROVE  Feeds!Beginning(em, Matches(g, rs))
<1>1. \A i \in DOMAIN em : em[i] \in Matches(g, rs) BY DEF Shows
<1>2. \A i, j \in DOMAIN em : i < j => Before(em[i], em[j]) BY DEF Shows, Ordered
<1>3. ASSUME NEW i \in DOMAIN em, NEW e \in Matches(g, rs), Before(e, em[i])
      PROVE  \E j \in DOMAIN em : em[j] = e
  <2> DEFINE f == em[i]
  <2>1. f \in Matches(g, rs) /\ Prior(f, off, sub) /\ Before(e, f) BY <1>3 DEF Shows
  <2> HIDE DEF f
  <2>2. e.rec \in Nat /\ e.sub \in Nat /\ f.rec \in Nat /\ f.sub \in Nat
    BY <2>1, MatchNumbers
  <2>3. Prior(e, off, sub) BY <2>1, <2>2 DEF Prior, Before
  <2> QED BY <2>3 DEF Shows
<1> QED BY <1>1, <1>2, <1>3 DEF Feeds!Beginning

\* The events of a file are its matches.
LEMMA EventsAre ==
  LogTypeOK => /\ DOMAIN EventsSoFar = 1..MaxGens
               /\ \A g \in 1..MaxGens : /\ recs[g] \in Seq(AllKinds)
                                        /\ EventsSoFar[g] = Matches(g, recs[g])
<1> SUFFICES ASSUME LogTypeOK, NEW g \in 1..MaxGens
             PROVE  recs[g] \in Seq(AllKinds) /\ EventsSoFar[g] = Matches(g, recs[g])
  BY DEF EventsSoFar
<1>1. recs[g] \in Seq(AllKinds) /\ Len(recs[g]) \in Nat BY LenProperties DEF LogTypeOK
<1>2. EventsSoFar[g] = MatchesBefore(g, Len(recs[g]), 0) BY DEF EventsSoFar
<1>3. \A e \in Matches(g, recs[g]) : e.rec - 1 < Len(recs[g]) BY <1>1 DEF Matches
<1>4. MatchesBefore(g, Len(recs[g]), 0) = Matches(g, recs[g])
  BY <1>3 DEF MatchesBefore, Matches
<1> QED BY <1>1, <1>2, <1>4

\* A log that is written gains matches behind those it had.
LEMMA LogGrows ==
  ASSUME LogTypeOK, LogNext, UNCHANGED <<client, emitted>>
  PROVE  Feeds!Grow
<1>1. LogTypeOK' /\ \A g \in 1..MaxGens : Extends(recs[g], recs'[g]) BY LogStep
<1>2. (LogTypeOK => /\ DOMAIN EventsSoFar = 1..MaxGens
                    /\ \A g \in 1..MaxGens : /\ recs[g] \in Seq(AllKinds)
                                             /\ EventsSoFar[g] = Matches(g, recs[g]))'
  BY EventsAre, PTL
<1>3. ASSUME NEW g \in 1..MaxGens
      PROVE  /\ EventsSoFar[g] \subseteq EventsSoFar'[g]
             /\ \A e \in EventsSoFar[g] : \A f \in EventsSoFar'[g] \ EventsSoFar[g] :
                  Before(e, f)
  <2> DEFINE rs == recs[g]
             more == recs'[g]
  <2>1. /\ rs \in Seq(AllKinds) /\ more \in Seq(AllKinds) /\ Extends(rs, more)
        /\ EventsSoFar[g] = Matches(g, rs) /\ EventsSoFar'[g] = Matches(g, more)
    BY <1>1, <1>2, EventsAre
  <2> HIDE DEF rs, more
  <2>2. \A e : e \in Matches(g, rs) <=> e \in Matches(g, more) /\ e.rec <= Len(rs)
    BY <2>1, MatchesGrow
  <2>3. ASSUME NEW e \in Matches(g, rs), NEW f \in Matches(g, more), f \notin Matches(g, rs)
        PROVE  Before(e, f)
    <3>1. e.rec \in Nat /\ f.rec \in Nat /\ Len(rs) \in Nat
      BY <2>1, MatchNumbers, LenProperties
    <3>2. e.rec <= Len(rs) /\ ~(f.rec <= Len(rs)) BY <2>2, <2>3
    <3> QED BY <3>1, <3>2 DEF Before
  <2> QED BY <2>1, <2>2, <2>3
<1>4. UNCHANGED <<Held, emitted>> BY DEF Held
<1> QED BY <1>1, <1>2, <1>3, <1>4 DEF Feeds!Grow

\* A response adds to what the client was shown of the file, or begins afresh.
LEMMA RenderFeeds ==
  ASSUME WindowFits, IInv, ShowInv, Render
  PROVE  Feeds!Deliver \/ Feeds!BeginAfresh
<1>0. /\ TypeIInv /\ LogTypeOK /\ scan.selected \in Seq(EventType)
      /\ emitted \in Seq(EventType) /\ job.gen0 \in 1..MaxGens
  BY DEF IInv, TypeIInv, TypeOK, ScanType, JobType
<1>1. PICK n \in Shown : n \in 0..Len(Kept) /\ RenderOf(n) BY <1>0, RenderEffect
<1>2. pc = "render" /\ UNCHANGED logVars BY <1>0, RenderEffect
<1>3. /\ client'.token = NextToken(n)
      /\ emitted' = (IF scan.changed THEN <<>> ELSE emitted \o SubSeq(Kept, 1, n))
  BY <1>1 DEF RenderOf
<1>4. UNCHANGED EventsSoFar BY <1>2 DEF EventsSoFar, MatchesBefore, logVars
<1>5. CASE scan.changed
  <2>1. NextToken(n) = NoToken /\ emitted' = <<>> BY <1>0, <1>1, <1>3, <1>5, NextTokenIs
  <2>2. Held' = {} BY <1>3, <2>1, NoTokenType DEF Held
  <2> QED BY <1>4, <2>1, <2>2 DEF Feeds!BeginAfresh
<1>6. CASE ~scan.changed
  <2> DEFINE g == job.gen0
             page == SubSeq(Kept, 1, n)
  <2>1. emitted' = emitted \o page BY <1>3, <1>6
  <2>2. PICK to \in Nat, upto \in Nat : Shows(emitted \o page, g, recs[g], to, upto)
    BY <1>1, <1>2, <1>6, RenderPlace
  <2>3. recs[g] \in Seq(AllKinds) /\ EventsSoFar[g] = Matches(g, recs[g])
    BY <1>0, EventsAre
  <2>4. Feeds!Beginning(emitted', EventsSoFar[g])
    BY <2>1, <2>2, <2>3, ShowsBeginning
  <2>5. Held = {g} \/ (Held = {} /\ emitted = <<>>)
    <3>1. job.token = client.token BY <1>2 DEF IInv, RunInv, Running
    <3>2. CASE client.token.kind = "none" BY <1>2, <3>2 DEF ShowInv, Held, Running
    <3>3. CASE client.token.kind # "none"
      BY <1>2, <3>1, <3>3 DEF IInv, RunInv, Reading, Held
    <3> QED BY <3>2, <3>3
  <2>6. Held' \in {{}, {g}}
    <3>1. CASE NextToken(n) = NoToken BY <1>3, <3>1, NoTokenType DEF Held
    <3>2. CASE NextToken(n) # NoToken
      <4>1. NextToken(n).gen = g BY <1>1, <1>2, <3>2, NextTokenOK
      <4> QED BY <1>3, <4>1 DEF Held
    <3> QED BY <3>1, <3>2
  <2>7. Feeds!Continues(emitted', emitted)
    <3>1. /\ Kept \in Seq(EventType) /\ emitted \o page \in Seq(EventType)
          /\ Len(emitted \o page) = Len(emitted) + n
          /\ \A i \in 1..Len(emitted) : (emitted \o page)[i] = emitted[i]
      BY <1>0, <1>1, KeptIs, JoinFirst
    <3> DEFINE all == emitted \o page
    <3>2. all \in Seq(EventType) /\ Len(all) = Len(emitted) + n /\ n \in Nat
          /\ \A i \in 1..Len(emitted) : all[i] = emitted[i]
      BY <1>0, <1>1, <3>1, KeptIs, LenProperties
    <3> HIDE DEF all, page
    <3>3. Len(emitted) \in Nat /\ Len(emitted) <= Len(all) BY <1>0, <3>2, LenProperties
    <3>4. \A i \in 1..Len(emitted) : all[i] \in EventType
      BY <1>0, <3>2, ElementOfSeq, LenProperties
    <3>5. /\ SubSeq(all, 1, Len(emitted)) \in Seq(EventType)
          /\ Len(SubSeq(all, 1, Len(emitted))) = Len(emitted)
          /\ \A i \in 1..Len(emitted) : SubSeq(all, 1, Len(emitted))[i] = all[i]
      BY <3>3, <3>4, SubSeqProperties
    <3>6. SubSeq(all, 1, Len(emitted)) = emitted
      BY <1>0, <3>2, <3>5, SeqEqual
    <3> QED BY <2>1, <3>3, <3>6 DEF all, Feeds!Continues
  <2> QED BY <1>0, <1>4, <2>4, <2>5, <2>6, <2>7 DEF Feeds!Deliver
<1> QED BY <1>5, <1>6

\* Every step is a step of Feed, or none.
LEMMA FeedStep ==
  WindowFits /\ IInv /\ ShowInv /\ [Next]_vars => [Feeds!Next]_(Feeds!vars)
<1> SUFFICES ASSUME WindowFits, IInv, ShowInv, [Next]_vars
             PROVE  Feeds!Next \/ UNCHANGED <<EventsSoFar, Held, emitted>>
  BY DEF Feeds!vars
<1>0. TypeIInv /\ TypeOK /\ LogTypeOK BY DEF IInv, TypeIInv, TypeOK
<1>1. UNCHANGED logVars => UNCHANGED EventsSoFar
  BY DEF EventsSoFar, MatchesBefore, logVars
<1>2. ASSUME UNCHANGED <<logVars, client, emitted>>
      PROVE  UNCHANGED <<EventsSoFar, Held, emitted>>
  BY <1>1, <1>2 DEF Held
<1>3. CASE Start
  <2>1. /\ emitted' = (IF client.token.kind = "none" THEN <<>> ELSE emitted)
        /\ UNCHANGED <<logVars, client>>
    BY <1>0, <1>3, StartEffect
  <2>2. CASE client.token.kind = "none"
    <3>1. emitted' = <<>> /\ Held' = {} /\ UNCHANGED EventsSoFar
      BY <1>1, <2>1, <2>2 DEF Held
    <3> QED BY <3>1 DEF Feeds!Next, Feeds!BeginAfresh
  <2>3. CASE client.token.kind # "none" BY <1>2, <2>1, <2>3
  <2> QED BY <2>2, <2>3
<1>4. CASE Fresh \/ Accept BY <1>0, <1>2, <1>4, ValidatedEffect
<1>5. CASE Reject
  <2>1. UNCHANGED <<logVars, emitted>> /\ client'.token = NoToken
    BY <1>0, <1>5, RejectEffect
  <2>2. Held' = {} BY <2>1, NoTokenType DEF Held
  <2> QED BY <1>1, <2>1, <2>2 DEF Feeds!Next, Feeds!Lose
<1>6. CASE OpenReader BY <1>0, <1>2, <1>6, OpenEffect
<1>7. CASE ScanLine
  <2>1. UNCHANGED <<logVars, client, emitted>> BY <1>0, <1>7, ScanLineEffect
  <2> QED BY <1>2, <2>1
<1>8. CASE ScanUninspected BY <1>0, <1>2, <1>8, ScanUninspectedEffect
<1>9. CASE ScanPendingTail \/ ScanEnd BY <1>0, <1>2, <1>9, ScanStopEffect
<1>10. CASE CheckSource BY <1>0, <1>2, <1>10, CheckSourceEffect
<1>11. CASE Render BY <1>11, RenderFeeds DEF Feeds!Next
<1>12. CASE TooSmall
  <2>1. UNCHANGED <<logVars, emitted>> /\ client'.token = client.token
    BY <1>0, <1>12, TooSmallEffect
  <2> QED BY <1>1, <2>1 DEF Held
<1>13. CASE Disk
  <2>1. LogNext /\ UNCHANGED <<client, emitted>> BY <1>13 DEF Disk
  <2> QED BY <1>0, <2>1, LogGrows DEF Feeds!Next
<1>14. CASE UNCHANGED vars BY <1>2, <1>14 DEF vars
<1> QED
  BY <1>3, <1>4, <1>5, <1>6, <1>7, <1>8, <1>9, <1>10, <1>11, <1>12, <1>13, <1>14
  DEF Next, Query

\* Whatever the pages, budgets, retries and rejections: what the client was shown is a
\* beginning of one file's matching events, and each response goes on where the last
\* one ended, as long as the retention is larger than a page (runner.rs 531-1544).
THEOREM ClientIsFed == WindowFits => (Spec => ImplementsFeed)
<1> SUFFICES ASSUME WindowFits PROVE Spec => ImplementsFeed OBVIOUS
<1>1. Init => IInv /\ ShowInv /\ Feeds!Init
  <2> SUFFICES ASSUME Init PROVE IInv /\ ShowInv /\ Feeds!Init OBVIOUS
  <2>1. IInv /\ ShowInv BY IInvInit, ShowInit
  <2>2. client.token.kind = "none" /\ emitted = <<>> BY NoTokenType DEF Init
  <2>3. DOMAIN EventsSoFar = 1..MaxGens BY DEF EventsSoFar
  <2> QED BY <2>1, <2>2, <2>3 DEF Feeds!Init, Held
<1>2. IInv /\ ShowInv /\ [Next]_vars => IInv' /\ ShowInv' BY IInvNext, ShowNext
<1>3. IInv /\ ShowInv /\ [Next]_vars => [Feeds!Next]_(Feeds!vars) BY FeedStep
<1> QED BY <1>1, <1>2, <1>3, PTL DEF Spec, ImplementsFeed, Feeds!Spec

----------------------------------------------------------------------------
(* A response that reads as whole is whole *)

\* A scan that stopped had a reason: its time was up, a record could not be inspected,
\* the end was reached, or the window holds one match more than a page shows.
StopInv ==
  /\ Reading => Len(scan.selected) <= SelectWindow
  /\ pc \in {"check", "recheck", "render"} =>
       \/ scan.timedOut \/ scan.uninspected # 0 \/ ReachedEnd
       \/ Len(scan.selected) = SelectWindow
  /\ scan.timedOut => MayTimeOut

\* Nothing is read at first.
LEMMA StopInit == Init => StopInv
BY DEF Init, StopInv, Reading, NoScan

\* The window is full when the record that closes it was fed.
LEMMA FedFills ==
  ASSUME TypeIInv, pc = "scan", Len(scan.selected) <= SelectWindow
  PROVE  LET i == scan.pos + 1
         IN  Len(Fed(i)) <= SelectWindow /\ (WindowClosed(i) => Len(Fed(i)) = SelectWindow)
<1> DEFINE i == scan.pos + 1
           fed == IF Matching(Kind(i)) THEN Cardinality(Resumed(i)) ELSE 0
<1>1. /\ TypeOK /\ job.limit \in Nat \ {0} /\ job.token.sub \in Nat /\ scan.pos \in Nat
      /\ scan.selected \in Seq(EventType)
  BY DEF TypeIInv, TypeOK, JobType, TokenType, ScanType
<1>2. i \in Nat \ {0} BY <1>1
<1>3. SelectWindow \in Nat \ {0} /\ Len(scan.selected) \in Nat BY <1>1, PageType, LenProperties
<1>4. Subevents(Kind(i)) \in 0..2 /\ Cardinality(Resumed(i)) \in 0..Subevents(Kind(i))
  BY <1>1, ResumedCount, SubeventsBound
<1>5. Cardinality(Resumed(i)) \in Nat /\ fed \in Nat BY <1>4
<1>6. Len(Fed(i)) = Lesser(Len(scan.selected) + fed, SelectWindow)
  BY <1>1, <1>2, <1>3, FeedType DEF TypeIInv
<1>7. WindowClosed(i) => Len(scan.selected) + fed >= SelectWindow
  BY <1>3, <1>5 DEF WindowClosed
<1> HIDE DEF i, fed
<1>8. Len(Fed(i)) <= SelectWindow /\ (WindowClosed(i) => Len(Fed(i)) = SelectWindow)
  BY <1>3, <1>5, <1>6, <1>7 DEF Lesser
<1> QED BY <1>8 DEF i

\* Every step that stops a scan has its reason.
LEMMA StopNext == IInv /\ StopInv /\ [Next]_vars => StopInv'
<1> SUFFICES ASSUME IInv, StopInv, [Next]_vars PROVE StopInv' OBVIOUS
<1>0. TypeIInv /\ TypeOK BY DEF IInv, TypeIInv
<1>1. ASSUME UNCHANGED <<scan, job>>, pc' = pc PROVE StopInv'
  BY <1>1 DEF StopInv, Reading, SelectWindow, Page, ReachedEnd
<1>2. ASSUME pc' \in {"idle", "validate", "open"}, scan' = scan \/ scan' = NoScan PROVE StopInv'
  BY <1>2 DEF StopInv, Reading, NoScan
<1>3. job' = job => SelectWindow' = SelectWindow BY DEF SelectWindow, Page
<1>4. CASE Start BY <1>0, <1>2, <1>4, StartEffect
<1>5. CASE Fresh \/ Accept BY <1>0, <1>2, <1>5, ValidatedEffect
<1>6. CASE Reject BY <1>0, <1>2, <1>6, RejectEffect
<1>7. CASE OpenReader
  <2>1. /\ pc' = "scan" /\ scan'.selected = <<>> /\ scan'.timedOut = FALSE /\ job' = job
    BY <1>0, <1>7, OpenEffect
  <2>2. SelectWindow \in Nat BY <1>0, PageType DEF TypeOK, JobType
  <2>3. Len(scan'.selected) <= SelectWindow' BY <1>3, <2>1, <2>2
  <2> QED BY <2>1, <2>3 DEF StopInv
<1>8. CASE ScanLine
  <2> DEFINE i == scan.pos + 1
  <2>1. /\ pc = "scan" /\ pc' \in {"scan", "check"} /\ job' = job
        /\ scan'.selected = Fed(i) /\ (scan'.timedOut => MayTimeOut)
        /\ pc' = "check" => WindowClosed(i) \/ scan'.timedOut
    BY <1>0, <1>8, ScanLineEffect
  <2>2. Len(scan.selected) <= SelectWindow BY <2>1 DEF StopInv, Reading
  <2>3. Len(Fed(i)) <= SelectWindow /\ (WindowClosed(i) => Len(Fed(i)) = SelectWindow)
    BY <1>0, <2>1, <2>2, FedFills
  <2> HIDE DEF i
  <2> QED BY <1>3, <2>1, <2>3 DEF StopInv
<1>9. CASE ScanUninspected
  <2>1. /\ pc = "scan" /\ pc' = "check" /\ job' = job /\ SameSelection
        /\ scan'.uninspected = scan.pos + 1 /\ scan'.timedOut = scan.timedOut
    BY <1>0, <1>9, ScanUninspectedEffect
  <2>2. scan'.uninspected # 0 BY <1>0, <2>1 DEF TypeOK, ScanType
  <2> QED BY <1>3, <2>1, <2>2 DEF StopInv, SameSelection, Reading
<1>10. CASE ScanPendingTail \/ ScanEnd
  <2>1. /\ pc = "scan" /\ pc' = "check" /\ job' = job /\ SameSelection /\ SameScan
        /\ scan'.pos = scan.pos /\ scan'.timedOut = scan.timedOut
        /\ scan'.pending \/ 2 * scan.pos >= scan.boundary
    BY <1>0, <1>10, ScanStopEffect
  <2>2. ReachedEnd' BY <2>1 DEF ReachedEnd, SameScan
  <2> QED BY <1>3, <2>1, <2>2 DEF StopInv, SameSelection, Reading
<1>11. CASE CheckSource
  <2>1. /\ pc \in {"check", "recheck"} /\ pc' \in {"recheck", "render"} /\ job' = job
        /\ SameSelection /\ SameScan /\ scan'.uninspected = scan.uninspected
        /\ scan'.pos = scan.pos /\ scan'.timedOut = scan.timedOut
        /\ scan'.pending = scan.pending
    BY <1>0, <1>11, CheckSourceEffect
  <2>2. ReachedEnd' = ReachedEnd BY <2>1 DEF ReachedEnd, SameScan
  <2> QED BY <1>3, <2>1, <2>2 DEF StopInv, SameSelection, Reading
<1>12. CASE Render BY <1>0, <1>2, <1>12, RenderEffect
<1>13. CASE TooSmall BY <1>0, <1>2, <1>13, TooSmallEffect
<1>14. CASE Disk BY <1>1, <1>14 DEF Disk
<1>15. CASE UNCHANGED vars BY <1>1, <1>15 DEF vars
<1> QED
  BY <1>4, <1>5, <1>6, <1>7, <1>8, <1>9, <1>10, <1>11, <1>12, <1>13, <1>14, <1>15
  DEF Next, Query

\* A page that shows all that was selected is of a scan that ran out of time, met a
\* record it could not inspect, or reached the end.
LEMMA WholePage ==
  ASSUME IInv, StopInv, WindowFits, pc = "render", NEW n \in Shown, n = Len(Kept)
  PROVE  scan.timedOut \/ scan.uninspected # 0 \/ ReachedEnd
<1>1. /\ scan.selected \in Seq(EventType) /\ job.limit \in Nat \ {0}
      /\ job.limit \in PageLimits
  BY DEF IInv, TypeIInv, TypeOK, ScanType, JobType, RunInv, Running
<1>2. Page < RetainCap BY <1>1 DEF WindowFits, Page
<1>3. /\ Page \in Nat /\ SelectWindow = Page + 1 /\ RetainCap \in Nat
      /\ Len(scan.selected) \in Nat
  BY <1>1, PageType, RetainType, LenProperties
<1>4. Len(scan.selected) <= SelectWindow BY DEF StopInv, Reading
<1>5. Len(Kept) = Lesser(Len(scan.selected), RetainCap) BY <1>1, KeptIs
<1>6. n <= Page BY <1>1, ShownIs
<1>7. Len(scan.selected) # SelectWindow BY <1>2, <1>3, <1>4, <1>5, <1>6 DEF Lesser
<1> QED BY <1>7 DEF StopInv

\* A complete response gives a cursor that leads on.
LEMMA OkNext == WindowFits /\ IInv /\ StopInv /\ OkLeadsOn /\ [Next]_vars => OkLeadsOn'
<1> SUFFICES ASSUME WindowFits, IInv, StopInv, OkLeadsOn, [Next]_vars, answer'.status = "ok"
             PROVE  client'.token.kind \in {"page", "append"}
  BY DEF OkLeadsOn
<1>0. TypeIInv /\ TypeOK BY DEF IInv, TypeIInv
<1>1. ASSUME UNCHANGED <<client, answer>> PROVE client'.token.kind \in {"page", "append"}
  BY <1>1 DEF OkLeadsOn
<1>2. ~Start BY <1>0, StartEffect DEF NoAnswer
<1>3. CASE Fresh \/ Accept BY <1>0, <1>1, <1>3, ValidatedEffect
<1>4. ~Reject BY <1>0, RejectEffect DEF NoAnswer
<1>5. CASE OpenReader BY <1>0, <1>1, <1>5, OpenEffect
<1>6. CASE ScanLine
  <2>1. UNCHANGED <<client, answer>> BY <1>0, <1>6, ScanLineEffect
  <2> QED BY <1>1, <2>1
<1>7. CASE ScanUninspected BY <1>0, <1>1, <1>7, ScanUninspectedEffect
<1>8. CASE ScanPendingTail \/ ScanEnd BY <1>0, <1>1, <1>8, ScanStopEffect
<1>9. CASE CheckSource BY <1>0, <1>1, <1>9, CheckSourceEffect
<1>10. CASE Render
  <2>1. PICK n \in Shown : n \in 0..Len(Kept) /\ RenderOf(n) BY <1>0, <1>10, RenderEffect
  <2>2. pc = "render" /\ scan.selected \in Seq(EventType)
    BY <1>0, <1>10, RenderEffect DEF TypeOK, ScanType
  <2>3. client'.token = NextToken(n) /\ Status = "ok" BY <2>1 DEF RenderOf
  <2>4. scan.uninspected = 0 /\ ~scan.invalid /\ ~scan.changed /\ ~scan.timedOut
    BY <2>3 DEF Status
  <2>5. CASE n < Len(Kept)
    <3>1. NextToken(n) = PageCursor(n) BY <2>1, <2>2, <2>4, <2>5, NextTokenIs
    <3> QED BY <2>3, <3>1, CursorFields DEF PageCursor
  <2>6. CASE n = Len(Kept)
    <3>1. ReachedEnd BY <2>1, <2>2, <2>4, <2>6, WholePage
    <3>2. AppendAllowed BY <2>4, <3>1 DEF AppendAllowed
    <3>3. Len(Kept) \in Nat BY <2>2, KeptIs, LenProperties
    <3>4. NextToken(n) = AppendCursor BY <2>4, <2>6, <3>2, <3>3 DEF NextToken
    <3> QED BY <2>3, <3>4, CursorFields DEF AppendCursor
  <2> QED BY <2>1, <2>2, <2>5, <2>6, NextTokenIs
<1>11. ~TooSmall BY <1>0, TooSmallEffect DEF NoAnswer
<1>12. CASE Disk BY <1>1, <1>12 DEF Disk
<1>13. CASE UNCHANGED vars BY <1>1, <1>13 DEF vars
<1> QED
  BY <1>2, <1>3, <1>4, <1>5, <1>6, <1>7, <1>8, <1>9, <1>10, <1>11, <1>12, <1>13
  DEF Next, Query

\* The client of a response that is called complete has a page or an append cursor to
\* go on with: a search that was cut short never reads as a whole one
\* (runner.rs 1034-1061, 1446-1544, 1603-1610).
THEOREM OkResponsesLeadOn == WindowFits => (Spec => []OkLeadsOn)
<1> SUFFICES ASSUME WindowFits PROVE Spec => []OkLeadsOn OBVIOUS
<1>0. Init => OkLeadsOn BY DEF Init, OkLeadsOn, NoAnswer
<1>1. Init => IInv /\ StopInv /\ OkLeadsOn BY <1>0, IInvInit, StopInit
<1>2. IInv /\ StopInv /\ OkLeadsOn /\ [Next]_vars => IInv' /\ StopInv' /\ OkLeadsOn'
  BY IInvNext, StopNext, OkNext
<1> QED BY <1>1, <1>2, PTL DEF Spec

\* What a response that claims to be exhausted has behind it.
LEMMA ExhaustedStep ==
  ASSUME WindowFits, ~MayTimeOut, IInv, StopInv, [Next]_vars, pc = "render",
         answer'.exhausted
  PROVE  ReachedEnd
<1>0. TypeIInv /\ TypeOK BY DEF IInv, TypeIInv
<1>1. ~answer.exhausted BY DEF IInv, RunInv, Running, NoAnswer
<1>2. ~Disk /\ ~UNCHANGED vars BY <1>1 DEF Disk, vars
<1>3. ~TooSmall BY <1>0, TooSmallEffect DEF NoAnswer
<1>4. Render
  BY <1>2, <1>3 DEF Next, Query, Start, Fresh, Accept, Reject, OpenReader, ScanLine,
     ScanUninspected, ScanPendingTail, ScanEnd, CheckSource
<1>5. PICK n \in Shown : n \in 0..Len(Kept) /\ RenderOf(n) BY <1>0, <1>4, RenderEffect
<1>6. n = Len(Kept) /\ scan.uninspected = 0 BY <1>5 DEF RenderOf
<1>7. ~scan.timedOut BY DEF StopInv
<1> QED BY <1>5, <1>6, <1>7, WholePage

\* A search that cannot run out of time claims to be exhausted only when it reached the
\* end of its range: the time budget is all that the claim leaves out (runner.rs 1723).
THEOREM ExhaustedWithinTime ==
  WindowFits /\ ~MayTimeOut => (Spec => ExhaustedMeansConsumed)
<1> SUFFICES ASSUME WindowFits, ~MayTimeOut PROVE Spec => ExhaustedMeansConsumed OBVIOUS
<1>1. Init => IInv /\ StopInv BY IInvInit, StopInit
<1>2. IInv /\ StopInv /\ [Next]_vars => IInv' /\ StopInv' BY IInvNext, StopNext
<1>3. IInv /\ StopInv /\ [Next]_vars =>
        [ (pc = "render" /\ answer'.exhausted) => ReachedEnd ]_vars
  BY ExhaustedStep
<1> QED BY <1>1, <1>2, <1>3, PTL DEF Spec, ExhaustedMeansConsumed

----------------------------------------------------------------------------
(* Cursors are accepted *)

\* A log that has settled its session keeps it as it grows.
LEMMA ToldGrow ==
  ASSUME SessionSettled, NEW rs \in Seq(AllKinds), NEW more \in Seq(AllKinds),
         Extends(rs, more), Told(rs),
         \A i \in 1..Len(more) : i \in 1..Len(rs) \/ more[i] \in Kinds
  PROVE  Told(more)
<1>1. /\ Len(rs) \in Nat /\ Len(more) \in Nat /\ DOMAIN rs = 1..Len(rs)
      /\ DOMAIN more = 1..Len(more)
  BY LenProperties
<1>2. Len(rs) <= Len(more) /\ \A i \in 1..Len(rs) : more[i] = rs[i] BY DEF Extends
<1>3. CASE HeaderFirst
  <2>1. rs # <<>> /\ rs[1] = "meta" BY <1>3 DEF Told
  <2>2. 1 \in 1..Len(rs) BY <1>1, <2>1, EmptySeq
  <2>3. more # <<>>
    <3>1. Len(<<>>) = 0 OBVIOUS
    <3> QED BY <1>1, <1>2, <2>2, <3>1
  <2> QED BY <1>2, <1>3, <2>1, <2>2, <2>3 DEF Told
<1>4. CASE ~HeaderFirst
  <2>1. \A k \in Kinds : ~NamesSession(k) BY <1>4 DEF SessionSettled, Nameless
  <2>2. \A i \in 1..Len(rs) : ~NamesSession(rs[i]) BY <1>1, <1>4 DEF Told
  <2>3. \A i \in 1..Len(more) : ~NamesSession(more[i]) BY <1>2, <2>1, <2>2
  <2> QED BY <1>1, <1>4, <2>3 DEF Told
<1> QED BY <1>3, <1>4

\* Every invocation finds the session that the log settles.
LEMMA DiscoversSettled ==
  ASSUME TypeOK, CursorInv, Running
  PROVE  Discovered(job.len0) <=> HeaderFirst
<1> DEFINE rs == recs[gen]
<1>1. rs \in Seq(AllKinds) /\ Told(rs) BY DEF TypeOK, LogTypeOK, CursorInv
<1>2. Len(rs) \in Nat /\ DOMAIN rs = 1..Len(rs) BY <1>1, LenProperties
<1>3. CASE HeaderFirst
  <2>1. rs # <<>> /\ rs[1] = "meta" /\ DiscoveryLines > 0 BY <1>1, <1>3 DEF Told, HeaderFirst
  <2>2. 1 \in 1..Len(rs) BY <1>1, <1>2, <2>1, EmptySeq
  <2>3. 2 * 1 <= job.len0
    <3>1. job.len0 \in Nat /\ job.len0 >= 2 BY <1>3 DEF CursorInv, TypeOK, JobType
    <3> QED BY <3>1
  <2>4. ~Oversize(rs[1], client.cap) BY <2>1 DEF Oversize
  <2>5. 1 \in Inspected(job.len0) BY <2>2, <2>3, <2>4 DEF Inspected
  <2>6. {j \in Inspected(job.len0) : j < 1} = {}
    <3>1. Inspected(job.len0) \subseteq 1..Len(rs) BY DEF Inspected
    <3> QED BY <1>2, <3>1
  <2>7. Cardinality({j \in Inspected(job.len0) : j < 1}) < DiscoveryLines
    BY <2>1, <2>6, FS_EmptySet
  <2>8. NamesSession(rs[1]) BY <2>1 DEF NamesSession
  <2> QED BY <1>3, <2>5, <2>7, <2>8 DEF Discovered
<1>4. CASE ~HeaderFirst
  <2>1. \A i \in 1..Len(rs) : ~NamesSession(rs[i]) BY <1>1, <1>2, <1>4 DEF Told
  <2>2. \A i \in Inspected(job.len0) : i \in 1..Len(rs) BY DEF Inspected
  <2> QED BY <1>4, <2>1, <2>2 DEF Discovered
<1> QED BY <1>3, <1>4

\* Before the first invocation there is no cursor to accept.
LEMMA CursorInit == SessionSettled /\ Init => CursorInv
<1> SUFFICES ASSUME SessionSettled, Init PROVE CursorInv OBVIOUS
<1>1. client.token = NoToken /\ pc = "idle" /\ recs \in [1..MaxGens -> InitialRecords]
  BY DEF Init, LogInit
<1>2. \A r \in InitialRecords : Told(r) BY DEF Told, HeaderFirst, SessionSettled, Nameless
<1> QED BY <1>1, <1>2, NoTokenType DEF CursorInv, Running, Reading

\* The cursor of a response carries the session, and a state the log has been in.
LEMMA RenderCursor ==
  ASSUME IInv, CursorInv, pc = "render", NEW n \in 0..Len(Kept), NextToken(n) # NoToken
  PROVE  /\ NextToken(n).session = Settled
         /\ NextToken(n).gen = gen =>
              NextToken(n).snap <= Length(gen) /\ NextToken(n).mtime = mtime
<1> DEFINE t == NextToken(n)
<1>0. scan.selected \in Seq(EventType) BY DEF IInv, TypeIInv, TypeOK, ScanType
<1>1. ~scan.changed BY <1>0, NextTokenIs
<1>2. t = PageCursor(n) \/ t = RetryCursor \/ t = AppendCursor BY <1>0, NextTokenIs
<1>3. job.session = Settled /\ (job.gen0 = gen => job.len0 <= Length(gen))
  BY DEF CursorInv, Running, Reading
<1>4. t.session = job.session /\ t.mtime = mtime /\ t.gen = job.gen0
  BY <1>2, CursorFields DEF PageCursor, RetryCursor, AppendCursor
<1>5. t.snap = job.len0 \/ t.snap = 2 * scan.pos
  BY <1>2, CursorFields DEF PageCursor, RetryCursor, AppendCursor
<1>6. 2 * scan.pos <= job.len0 /\ job.len0 \in Nat /\ scan.pos \in Nat BY <1>1, BelievedScan
<1>7. Length(gen) \in Nat BY LengthType DEF IInv, TypeIInv, TypeOK, LogTypeOK
<1> HIDE DEF t
<1>8. t.gen = gen => t.snap <= Length(gen) BY <1>3, <1>4, <1>5, <1>6, <1>7
<1> QED BY <1>3, <1>4, <1>8 DEF t

\* Every step keeps the state a cursor carries one the log has been in.
LEMMA CursorNext == SessionSettled /\ IInv /\ CursorInv /\ [Next]_vars => CursorInv'
<1> SUFFICES ASSUME SessionSettled, IInv, CursorInv, [Next]_vars PROVE CursorInv' OBVIOUS
<1>0. /\ TypeIInv /\ TypeOK /\ LogTypeOK /\ gen \in 1..MaxGens /\ mtime \in Nat
      /\ job \in JobType /\ job.len0 \in Nat /\ job.mtime0 \in Nat /\ job.gen0 \in 1..MaxGens
  BY DEF IInv, TypeIInv, TypeOK, LogTypeOK, JobType
<1>1. /\ \A g \in 1..MaxGens : Told(recs[g])
      /\ client.token.kind # "none" => client.token.session = Settled
      /\ pc = "open" \/ Reading => job.session = Settled
      /\ client.token.kind # "none" /\ client.token.gen = gen =>
           /\ client.token.snap <= Length(gen)
           /\ client.token.snap = Length(gen) => client.token.mtime = mtime
      /\ Running => /\ job.mtime0 <= mtime
                    /\ job.mtime0 = mtime => job.gen0 = gen /\ job.len0 = Length(gen)
                    /\ job.gen0 = gen => job.len0 <= Length(gen)
                    /\ HeaderFirst => job.len0 >= 2
  BY DEF CursorInv
<1>2. UNCHANGED logVars => \A g : Length(g)' = Length(g) BY DEF logVars, Length
<1>3. ASSUME UNCHANGED logVars, client'.token = client.token, Running' => Running,
             job'.len0 = job.len0, job'.mtime0 = job.mtime0, job'.gen0 = job.gen0,
             pc' = "open" \/ Reading' => job'.session = Settled
      PROVE  CursorInv'
  <2>1. gen' = gen /\ recs' = recs /\ mtime' = mtime /\ Length(gen)' = Length(gen)
    BY <1>2, <1>3 DEF logVars, Length
  <2> QED BY <1>1, <1>3, <2>1 DEF CursorInv
<1>4. ASSUME UNCHANGED logVars, client'.token = client.token, job' = job,
             Running, pc' = "open" \/ Reading' => pc = "open" \/ Reading
      PROVE  CursorInv'
  BY <1>1, <1>3, <1>4
<1>5. ASSUME UNCHANGED logVars, pc' = "idle",
             client'.token = client.token \/ client'.token = NoToken
      PROVE  CursorInv'
  <2>1. gen' = gen /\ recs' = recs /\ mtime' = mtime /\ Length(gen)' = Length(gen)
    BY <1>2, <1>5 DEF logVars, Length
  <2>2. ~Running' /\ ~(pc' = "open" \/ Reading') BY <1>5 DEF Running, Reading
  <2> QED BY <1>1, <1>5, <2>1, <2>2, NoTokenType DEF CursorInv
<1>6. CASE Start
  <2>1. /\ job'.len0 = Length(gen) /\ job'.mtime0 = mtime /\ job'.gen0 = gen
        /\ pc' = "validate" /\ UNCHANGED <<logVars, client>>
    BY <1>0, <1>6, StartEffect
  <2>2. gen' = gen /\ recs' = recs /\ mtime' = mtime /\ Length(gen)' = Length(gen)
    BY <1>2, <2>1 DEF logVars, Length
  <2>3. HeaderFirst => Length(gen) >= 2
    <3> SUFFICES ASSUME HeaderFirst PROVE Length(gen) >= 2 OBVIOUS
    <3>1. recs[gen] \in Seq(AllKinds) /\ recs[gen] # <<>> BY <1>0, <1>1 DEF Told, LogTypeOK
    <3>2. Len(recs[gen]) \in Nat /\ Len(recs[gen]) > 0 BY <3>1, EmptySeq
    <3>3. 2 * Len(recs[gen]) <= Length(gen) /\ Length(gen) \in Nat
      BY <1>0, LengthBound, LengthType
    <3> QED BY <3>2, <3>3
  <2>4. Length(gen) \in Nat BY <1>0, LengthType
  <2>5. ~(pc' = "open" \/ Reading') BY <2>1 DEF Reading
  <2> QED BY <1>0, <1>1, <2>1, <2>2, <2>3, <2>4, <2>5 DEF CursorInv
<1>7. CASE Fresh \/ Accept
  <2>1. /\ pc = "validate" /\ pc' = "open"
        /\ job'.len0 = job.len0 /\ job'.mtime0 = job.mtime0 /\ job'.gen0 = job.gen0
        /\ job.token.kind = "none" =>
             job'.session = IF Discovered(job.len0) THEN "id" ELSE "file"
        /\ job.token.kind # "none" => Accepts(job.token) /\ job'.session = job.token.session
        /\ UNCHANGED <<logVars, client>>
    BY <1>0, <1>7, ValidatedEffect
  <2>2. Discovered(job.len0) <=> HeaderFirst BY <1>0, <2>1, DiscoversSettled DEF Running
  <2>3. job'.session = Settled
    <3>1. job.token.kind # "none" =>
            job.token.session = IF Discovered(job.len0) THEN "id" ELSE "file"
      BY <2>1 DEF Accepts
    <3> QED BY <2>1, <2>2, <3>1 DEF Settled
  <2> QED BY <1>3, <2>1, <2>3 DEF Running
<1>8. CASE Reject BY <1>0, <1>5, <1>8, RejectEffect
<1>9. CASE OpenReader BY <1>0, <1>4, <1>9, OpenEffect DEF Running
<1>10. CASE ScanLine
  <2>1. pc = "scan" /\ UNCHANGED <<logVars, job, client>> BY <1>0, <1>10, ScanLineEffect
  <2> QED BY <1>4, <2>1 DEF Running, Reading
<1>11. CASE ScanUninspected BY <1>0, <1>4, <1>11, ScanUninspectedEffect DEF Running, Reading
<1>12. CASE ScanPendingTail \/ ScanEnd
  BY <1>0, <1>4, <1>12, ScanStopEffect DEF Running, Reading
<1>13. CASE CheckSource BY <1>0, <1>4, <1>13, CheckSourceEffect DEF Running, Reading
<1>14. CASE Render
  <2>1. PICK n \in Shown : n \in 0..Len(Kept) /\ RenderOf(n) BY <1>0, <1>14, RenderEffect
  <2>2. pc = "render" /\ pc' = "idle" /\ UNCHANGED logVars BY <1>0, <1>14, RenderEffect
  <2>3. client'.token = NextToken(n) BY <2>1 DEF RenderOf
  <2>4. CASE NextToken(n) = NoToken BY <1>5, <2>2, <2>3, <2>4
  <2>5. CASE NextToken(n) # NoToken
    <3>1. /\ client'.token.session = Settled
          /\ client'.token.gen = gen =>
               client'.token.snap <= Length(gen) /\ client'.token.mtime = mtime
      BY <2>1, <2>2, <2>3, <2>5, RenderCursor
    <3>2. gen' = gen /\ recs' = recs /\ mtime' = mtime /\ Length(gen)' = Length(gen)
      BY <1>2, <2>2 DEF logVars, Length
    <3>3. ~Running' /\ ~(pc' = "open" \/ Reading') BY <2>2 DEF Running, Reading
    <3> QED BY <1>1, <3>1, <3>2, <3>3 DEF CursorInv
  <2> QED BY <2>4, <2>5
<1>15. CASE TooSmall BY <1>0, <1>5, <1>15, TooSmallEffect DEF logVars
<1>16. CASE Disk
  <2>1. UNCHANGED <<pc, job, client>> /\ LogNext BY <1>16 DEF Disk
  <2>2. /\ LogTypeOK' /\ gen <= gen' /\ mtime' = mtime + 1
        /\ \A g \in 1..MaxGens : Extends(recs[g], recs'[g])
        /\ \A g \in 1..MaxGens : \A i \in 1..Len(recs'[g]) :
             i \in 1..Len(recs[g]) \/ recs'[g][i] \in Kinds
        /\ gen' = gen => Length(gen) < Length(gen)'
    BY <1>0, <2>1, LogStep
  <2>3. /\ gen' \in 1..MaxGens /\ Length(gen) \in Nat /\ Length(gen)' \in Nat
    <3>1. gen' \in 1..MaxGens /\ Length(gen) \in Nat BY <1>0, <2>2, LengthType DEF LogTypeOK
    <3>2. partial' \in [1..MaxGens -> BOOLEAN] /\ recs' \in [1..MaxGens -> Seq(AllKinds)]
      BY <2>2 DEF LogTypeOK
    <3>3. partial'[gen'] \in BOOLEAN /\ Len(recs'[gen']) \in Nat BY <3>1, <3>2, LenProperties
    <3>4. Length(gen)' = 2 * Len(recs'[gen']) + (IF partial'[gen'] THEN 1 ELSE 0)
      BY DEF Length
    <3>5. Length(gen)' \in Nat BY <3>3, <3>4, LengthSum, Zenon
    <3> QED BY <3>1, <3>5
  <2>4. \A g \in 1..MaxGens : Told(recs'[g])
    <3> TAKE g \in 1..MaxGens
    <3> DEFINE rs == recs[g]
               more == recs'[g]
    <3>1. rs \in Seq(AllKinds) /\ more \in Seq(AllKinds) BY <1>0, <2>2 DEF LogTypeOK
    <3>2. /\ Extends(rs, more) /\ Told(rs)
          /\ \A i \in 1..Len(more) : i \in 1..Len(rs) \/ more[i] \in Kinds
      BY <1>1, <2>2
    <3> HIDE DEF rs, more
    <3>3. Told(more) BY <3>1, <3>2, ToldGrow
    <3> QED BY <3>3 DEF more
  <2>5. Running =>
          /\ job.mtime0 <= mtime' /\ job.mtime0 # mtime'
          /\ job.gen0 = gen' => job.len0 <= Length(gen)'
    <3> SUFFICES ASSUME Running
                 PROVE  /\ job.mtime0 <= mtime' /\ job.mtime0 # mtime'
                        /\ job.gen0 = gen' => job.len0 <= Length(gen)'
      OBVIOUS
    <3>1. job.mtime0 <= mtime /\ (job.gen0 = gen => job.len0 <= Length(gen)) BY <1>1
    <3>2. job.gen0 <= gen BY DEF IInv, RunInv
    <3>3. job.gen0 = gen' => gen' = gen BY <1>0, <2>2, <2>3, <3>2
    <3> QED BY <1>0, <2>2, <2>3, <3>1, <3>3
  <2>6. client.token.kind # "none" /\ client.token.gen = gen' =>
          client.token.snap < Length(gen)'
    <3> SUFFICES ASSUME client.token.kind # "none", client.token.gen = gen'
                 PROVE  client.token.snap < Length(gen)'
      OBVIOUS
    <3>1. client.token.gen <= gen BY DEF IInv, TokenInv
    <3>2. gen' = gen BY <1>0, <2>2, <2>3, <3>1
    <3>3. client.token.snap \in Nat BY <1>0 DEF TypeOK, TokenType
    <3> QED BY <1>1, <2>2, <2>3, <3>2, <3>3
  <2>7. client.token.kind # "none" /\ client.token.gen = gen' =>
          client.token.snap <= Length(gen)' /\ client.token.snap # Length(gen)'
    <3>1. client.token.snap \in Nat BY <1>0 DEF TypeOK, TokenType
    <3> QED BY <2>3, <2>6, <3>1
  <2> QED BY <1>1, <2>1, <2>4, <2>5, <2>7 DEF CursorInv, Running, Reading
<1>17. CASE UNCHANGED vars
  <2>1. UNCHANGED <<logVars, pc, job, client>> BY <1>17 DEF vars
  <2> QED BY <1>1, <1>3, <2>1 DEF Running, Reading
<1> QED
  BY <1>6, <1>7, <1>8, <1>9, <1>10, <1>11, <1>12, <1>13, <1>14, <1>15, <1>16, <1>17
  DEF Next, Query

\* Such a cursor is accepted.
LEMMA CursorImplies == IInv /\ CursorInv => CursorAccepted
<1> SUFFICES ASSUME IInv, CursorInv, pc = "validate", gen = 1, mtime = job.mtime0,
                    job.token.kind \in {"page", "append"}
             PROVE  Accepts(job.token)
  BY DEF CursorAccepted
<1> DEFINE t == job.token
           rs == recs[gen]
<1>0. /\ TypeOK /\ LogTypeOK /\ t \in TokenType /\ gen \in 1..MaxGens /\ rs \in Seq(AllKinds)
      /\ Running
  BY DEF IInv, TypeIInv, TypeOK, JobType, LogTypeOK, Running
<1>1. t = client.token /\ t.kind # "none" BY <1>0 DEF IInv, RunInv
<1>2. t.gen = gen
  <2>1. t.gen <= gen BY <1>1 DEF IInv, TokenInv
  <2>2. t.gen \in 1..MaxGens BY <1>0 DEF TokenType
  <2> HIDE DEF t
  <2> QED BY <2>1, <2>2
<1>3. TokenOK(t, client.cap, rs) BY <1>1, <1>2 DEF IInv, TokenInv
<1>4. /\ job.gen0 = gen /\ job.len0 = Length(gen) /\ t.session = Settled
      /\ t.snap <= Length(gen)
      /\ t.snap = Length(gen) => t.mtime = mtime
  BY <1>0, <1>1, <1>2 DEF CursorInv
<1>5. t.session = IF Discovered(job.len0) THEN "id" ELSE "file"
  BY <1>0, <1>4, DiscoversSettled DEF Settled
<1>6. /\ t.off \in Nat /\ t.sub \in Nat /\ t.snap \in Nat /\ Len(rs) \in Nat
  BY <1>0, LenProperties DEF TokenType
<1>7. 2 * Len(rs) <= Length(gen) /\ Length(gen) \in Nat BY <1>0, LengthBound, LengthType
<1>8. SubeventsAt(t.off) = (IF t.off < Len(rs) /\ ~Oversize(rs[t.off + 1], client.cap)
                              THEN Subevents(rs[t.off + 1]) ELSE 0)
  BY DEF SubeventsAt
<1>9. SubeventsAt(t.off) \in Nat BY <1>8, SubeventsBound
<1> HIDE DEF t, rs
<1>10. 2 * t.off <= job.len0 /\ t.off <= Len(rs) BY <1>3, <1>4, <1>6, <1>7 DEF TokenOK
<1>11. CASE t.kind = "page"
  <2>1. /\ t.off < Len(rs) /\ 2 * (t.off + 1) <= t.snap
        /\ ~Oversize(rs[t.off + 1], client.cap) /\ t.sub < Subevents(rs[t.off + 1])
    BY <1>3, <1>11 DEF TokenOK, IsPage
  <2>2. SubeventsAt(t.off) # 0 /\ t.sub < SubeventsAt(t.off) BY <1>6, <1>8, <1>9, <2>1
  <2>3. 2 * t.off <= t.snap BY <1>6, <2>1
  <2> QED BY <1>2, <1>4, <1>5, <1>10, <2>2, <2>3 DEF Accepts, t, rs
<1>12. CASE t.kind = "append"
  <2>1. t.sub = 0 /\ t.snap = 2 * t.off BY <1>3, <1>12 DEF TokenOK
  <2>2. SubeventsAt(t.off) # 0 => t.sub < SubeventsAt(t.off) BY <1>9, <2>1
  <2>3. 2 * t.off <= t.snap BY <1>6, <2>1
  <2> QED BY <1>2, <1>4, <1>5, <1>10, <2>1, <2>2, <2>3 DEF Accepts, t, rs
<1> QED BY <1>11, <1>12 DEF t

\* A page or append cursor resumed on a log that was only appended to is accepted, as
\* long as the log settles its session (validate_cursor, runner.rs 1843-2031).
THEOREM CursorsAreAccepted == SessionSettled => (Spec => []CursorAccepted)
<1> SUFFICES ASSUME SessionSettled PROVE Spec => []CursorAccepted OBVIOUS
<1>1. Init => IInv /\ CursorInv BY IInvInit, CursorInit
<1>2. IInv /\ CursorInv /\ [Next]_vars => IInv' /\ CursorInv' BY IInvNext, CursorNext
<1>3. IInv /\ CursorInv => CursorAccepted BY CursorImplies
<1> QED BY <1>1, <1>2, <1>3, PTL DEF Spec
=============================================================================
