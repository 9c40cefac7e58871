--------------------------- MODULE Selector_proofs ---------------------------
(***************************************************************************)
(* Proofs about Selector, for every log, window, context and cap.          *)
(*                                                                         *)
(* The inductive invariant SInv says where the window stands: it holds     *)
(* matches in increasing order; while it has room it holds every match fed *)
(* so far, and a match fed and not in it lies after all of it in head      *)
(* mode, before all of it in tail mode.  That the primaries are retained   *)
(* needs the bound on retention as well: an event is pruned only when the  *)
(* cap is exceeded, and then some retained event is no primary.            *)
(***************************************************************************)
EXTENDS Selector, FiniteSetTheorems, TLAPS

\* A non-empty set of naturals has a least element.
LEMMA LeastElement ==
  ASSUME NEW S \in SUBSET Nat, S # {}
  PROVE  \E m \in S : \A k \in S : m <= k
  <1> DEFINE R == OpToRel(<, Nat)
  <1>1. IsWellFoundedOn(R, Nat)
    BY NatLessThanWellFounded
  <1>2. \A k, m \in Nat : k < m => <<k, m>> \in R
    BY DEF OpToRel
  <1> HIDE DEF R
  <1>3. PICK m \in S : \A k \in S : ~(<<k, m>> \in R)
    BY <1>1, WFMin
  <1>4. \A k \in S : ~(k < m)
    BY <1>2, <1>3
  <1> QED BY <1>4

\* What retain returns: never more than the cap, every primary it was given, and
\* the new event itself when the other primaries leave room for it.
LEMMA RetainFacts ==
  ASSUME NEW events \in SUBSET Nat, NEW e \in Nat, NEW primaries \in SUBSET Nat,
         IsFiniteSet(events), IsFiniteSet(primaries), Cap \in Nat,
         Cardinality(events) <= Cap, e \notin primaries,
         \A f \in events : f <= e
  PROVE  /\ Retain(events, e, primaries) \subseteq events \cup {e}
         /\ IsFiniteSet(Retain(events, e, primaries))
         /\ Cardinality(Retain(events, e, primaries)) <= Cap
         /\ primaries \subseteq events => primaries \subseteq Retain(events, e, primaries)
         /\ Cardinality(primaries) < Cap => e \in Retain(events, e, primaries)
  <1> DEFINE more == events \cup {e}
             victims == Victims(more, primaries)
  <1>1. /\ IsFiniteSet(more)
        /\ Cardinality(more) = IF e \in events THEN Cardinality(events)
                                              ELSE Cardinality(events) + 1
        /\ Cardinality(events) \in Nat /\ Cardinality(primaries) \in Nat
    BY FS_AddElement, FS_CardinalityType
  <1>2. CASE ~(Cardinality(more) > Cap)
    BY <1>1, <1>2 DEF Retain
  <1>3. CASE Cardinality(more) > Cap
    <2>1. e \notin events /\ Cardinality(more) = Cap + 1 /\ Cardinality(events) = Cap
      BY <1>1, <1>3
    <2>2. PICK m \in more \ primaries : \A k \in more \ primaries : m <= k
      BY LeastElement
    <2>3. victims = {m}
      <3>1. \A k \in more \ primaries : k <= m => k = m
        BY <2>2
      <3> QED BY <2>2, <3>1 DEF Victims
    <2>4. Retain(events, e, primaries) = more \ {m}
      BY <1>3, <2>3 DEF Retain
    <2>5. IsFiniteSet(more \ {m}) /\ Cardinality(more \ {m}) <= Cap
      <3>1. /\ IsFiniteSet(more \ {m})
            /\ Cardinality(more \ {m}) = Cardinality(more) - 1
        <4>1. m \in more
          BY <2>2
        <4> HIDE DEF more
        <4> QED BY <1>1, <4>1, FS_RemoveElement
      <3> QED BY <2>1, <3>1
    <2>6. ASSUME Cardinality(primaries) < Cap PROVE m # e
      <3> SUFFICES ASSUME m = e PROVE FALSE
        OBVIOUS
      <3>1. events \subseteq primaries
        BY <2>1, <2>2
      <3>2. Cardinality(events) <= Cardinality(primaries)
        BY <3>1, FS_Subset
      <3> QED BY <1>1, <2>1, <2>6, <3>2
    <2> QED BY <2>2, <2>4, <2>5, <2>6
  <1> QED BY <1>2, <1>3

Ordered(s) == \A i, j \in DOMAIN s : i < j => s[i] < s[j]
Elements(s) == {s[i] : i \in DOMAIN s}

\* A window in increasing order has as many elements as its length.
LEMMA ElementsCounted ==
  ASSUME NEW s \in Seq(Nat), Ordered(s)
  PROVE  IsFiniteSet(Elements(s)) /\ Cardinality(Elements(s)) = Len(s)
  <1>1. s \in Bijection(1..Len(s), Elements(s))
    <2>1. s \in [1..Len(s) -> Elements(s)] /\ DOMAIN s = 1..Len(s)
      BY DEF Elements
    <2>2. ASSUME NEW i \in 1..Len(s), NEW j \in 1..Len(s), s[i] = s[j] PROVE i = j
      <3>1. s[i] \in Nat /\ s[j] \in Nat /\ ~(s[i] < s[j]) /\ ~(s[j] < s[i])
        BY <2>2
      <3> QED BY <2>1, <3>1 DEF Ordered
    <2>3. \A t \in Elements(s) : \E i \in 1..Len(s) : s[i] = t
      BY <2>1 DEF Elements
    <2>4. s \in Injection(1..Len(s), Elements(s))
      BY <2>1, <2>2, Zenon DEF Injection, IsInjective
    <2>5. s \in Surjection(1..Len(s), Elements(s))
      BY <2>1, <2>3, Zenon DEF Surjection
    <2> QED BY <2>4, <2>5 DEF Bijection
  <1>2. IsFiniteSet(1..Len(s)) /\ Cardinality(1..Len(s)) = Len(s)
    <2>1. 1 \in Int /\ Len(s) \in Int /\ Len(s) >= 0
      OBVIOUS
    <2>2. /\ IsFiniteSet(1..Len(s))
          /\ Cardinality(1..Len(s)) = IF 1 > Len(s) THEN 0 ELSE Len(s) - 1 + 1
      BY <2>1, FS_Interval, Zenon
    <2> QED BY <2>1, <2>2
  <1>3. ExistsBijection(1..Len(s), Elements(s))
    BY <1>1 DEF ExistsBijection
  <1> QED BY <1>2, <1>3, FS_Bijection

\* The event that leaves a full window is its least, and only it leaves.
LEMMA TailElements ==
  ASSUME NEW s \in Seq(Nat), Ordered(s), Len(s) > 0
  PROVE  /\ Tail(s) \in Seq(Nat) /\ Len(Tail(s)) = Len(s) - 1
         /\ Ordered(Tail(s))
         /\ Head(s) \in Elements(s)
         /\ Elements(Tail(s)) = Elements(s) \ {Head(s)}
         /\ \A p \in Elements(Tail(s)) : Head(s) < p
  <1>1. /\ Tail(s) \in Seq(Nat) /\ Len(Tail(s)) = Len(s) - 1
        /\ DOMAIN s = 1..Len(s) /\ DOMAIN Tail(s) = 1..(Len(s) - 1)
        /\ Head(s) = s[1]
        /\ \A i \in 1..(Len(s) - 1) : Tail(s)[i] = s[i + 1]
    OBVIOUS
  <1>2. Ordered(Tail(s))
    BY <1>1 DEF Ordered
  <1>3. Head(s) \in Elements(s)
    BY <1>1 DEF Elements
  <1>4. \A p \in Elements(Tail(s)) : Head(s) < p /\ p \in Elements(s)
    BY <1>1 DEF Elements, Ordered
  <1>5. ASSUME NEW p \in Elements(s), p # Head(s) PROVE p \in Elements(Tail(s))
    <2>1. PICK i \in 1..Len(s) : p = s[i]
      BY <1>1 DEF Elements
    <2>2. i - 1 \in 1..(Len(s) - 1) /\ Tail(s)[i - 1] = p
      BY <1>1, <1>5, <2>1
    <2> QED BY <1>1, <2>2 DEF Elements
  <1>6. \A p \in Elements(s) : p \in Nat
    BY DEF Elements
  <1> QED BY <1>1, <1>2, <1>3, <1>4, <1>5, <1>6

\* A later event joins the window at its end.
LEMMA AppendElements ==
  ASSUME NEW s \in Seq(Nat), Ordered(s), NEW e \in Nat, \A p \in Elements(s) : p < e
  PROVE  /\ Append(s, e) \in Seq(Nat) /\ Len(Append(s, e)) = Len(s) + 1
         /\ Ordered(Append(s, e))
         /\ Elements(Append(s, e)) = Elements(s) \cup {e}
  <1>1. /\ Append(s, e) \in Seq(Nat) /\ Len(Append(s, e)) = Len(s) + 1
        /\ DOMAIN s = 1..Len(s) /\ DOMAIN Append(s, e) = 1..(Len(s) + 1)
        /\ \A i \in 1..Len(s) : Append(s, e)[i] = s[i]
        /\ Append(s, e)[Len(s) + 1] = e
    OBVIOUS
  <1>2. \A i \in 1..Len(s) : s[i] < e
    BY <1>1 DEF Elements
  <1>3. Ordered(Append(s, e))
    BY <1>1, <1>2 DEF Ordered
  <1>4. Elements(Append(s, e)) = Elements(s) \cup {e}
    <2>1. ASSUME NEW x \in Elements(Append(s, e)) PROVE x \in Elements(s) \cup {e}
      BY <1>1 DEF Elements
    <2>2. ASSUME NEW x \in Elements(s) PROVE x \in Elements(Append(s, e))
      BY <1>1 DEF Elements
    <2>3. e \in Elements(Append(s, e))
      BY <1>1 DEF Elements
    <2> QED BY <2>1, <2>2, <2>3
  <1> QED BY <1>1, <1>3, <1>4

----------------------------------------------------------------------------
\* Where the window stands among the matches fed so far.
WindowOfLog ==
  /\ primary_set \subseteq MatchesOfLog
  /\ Len(primary) < Window => MatchesOfLog \cap (1..ordinal) \subseteq primary_set
  /\ \A i \in MatchesOfLog \ primary_set : i <= ordinal =>
       \A p \in primary_set : IF options.mode = "head" THEN p < i ELSE i < p

\* What finish returned.
Finished ==
  done => /\ CanStop \/ ordinal = Len(log)
          /\ selection.primaries = primary_set \cap retained
          /\ selection.matches = matches \cap primary_set \cap retained

SInv ==
  /\ TypeOK
  /\ ordinal <= Len(log)
  /\ retained \subseteq 1..ordinal
  /\ primary_set \subseteq 1..ordinal
  /\ Ordered(primary)
  /\ Len(primary) <= Window
  /\ RetainedBounded
  /\ WindowIntact
  /\ WindowOfLog
  /\ Finished

\* The options are what the code can be asked.
LEMMA OptionFacts ==
  ASSUME TypeOK
  PROVE  /\ Window \in Nat /\ Window > 0 /\ Context \in Nat
         /\ Cap \in Nat /\ Cap > 0
  <1>1. options.window \in Nat /\ options.window > 0 /\ options.context \in Nat
        /\ options.max_retained \in Nat
    BY DEF TypeOK, OptionsType
  <1> QED BY <1>1, SelectorAssumption DEF Window, Context, Cap, Greater, Lesser

\* The invariant holds before anything is fed.
LEMMA InitSInv == Init => SInv
  <1> SUFFICES ASSUME Init PROVE SInv
    OBVIOUS
  <1>1. TypeOK
    <2>1. log \in Seq({"match", "other"})
      BY SelectorAssumption DEF Init
    <2>2. options \in OptionsType
      <3>1. PICK mode \in Modes, limit \in Limits, max_events \in EventCaps, k \in Contexts :
              options = [mode |-> mode, window |-> RequestWindow(mode, limit, max_events),
                         context |-> k, max_retained |-> Greater(max_events, RetainFloor)]
        BY DEF Init
      <3>2. /\ limit \in Nat \ {0} /\ max_events \in Nat \ {0}
            /\ k \in Nat /\ RetainFloor \in Nat
        BY SelectorAssumption
      <3>3. /\ RequestWindow(mode, limit, max_events) \in Nat \ {0}
            /\ Greater(max_events, RetainFloor) \in Nat
        BY <3>2 DEF RequestWindow, Lesser, Greater
      <3> QED BY <3>1, <3>2, <3>3 DEF OptionsType
    <2>3. done \in BOOLEAN
      BY Zenon DEF Init
    <2> QED BY <2>1, <2>2, <2>3 DEF Init, TypeOK, NoSelection
  <1>2. primary_set = {} /\ Len(primary) = 0 /\ Ordered(primary)
    BY DEF Init, primary_set, Ordered
  <1>3. RetainedBounded
    BY <1>1, OptionFacts, FS_EmptySet DEF Init, RetainedBounded
  <1>4. WindowIntact /\ WindowOfLog /\ Finished
    BY <1>2 DEF Init, WindowIntact, WindowOfLog, Finished, MatchesOfLog
  <1>5. ordinal <= Len(log) /\ retained \subseteq 1..ordinal /\ Len(primary) <= Window
    BY <1>1, <1>2, OptionFacts DEF Init, TypeOK
  <1> QED BY <1>1, <1>2, <1>3, <1>4, <1>5 DEF SInv

\* What feed has before it looks at the matcher.
LEMMA SurroundingFacts ==
  ASSUME SInv, ~done, ordinal < Len(log)
  PROVE  /\ Fed \in Nat /\ Fed > 0 /\ Fed \in DOMAIN log
         /\ primary_set \subseteq Nat /\ \A p \in primary_set : p < Fed
         /\ Surroundings \subseteq 1..Fed
         /\ IsFiniteSet(Surroundings) /\ Cardinality(Surroundings) <= Cap
         /\ WindowFits => primary_set \subseteq Surroundings
         /\ SurroundingsDropped \in Nat
  <1>1. /\ Fed \in Nat /\ Fed > 0 /\ Fed \in DOMAIN log /\ \A p \in primary_set : p < Fed
        /\ ordinal \in Nat
    BY DEF SInv, TypeOK, Fed
  <1>2. /\ retained \in SUBSET Nat /\ primary_set \in SUBSET Nat
        /\ \A f \in retained : f <= Fed
        /\ retained \subseteq 1..Fed
    BY <1>1 DEF SInv, TypeOK, Fed
  <1>3. IsFiniteSet(retained) /\ IsFiniteSet(primary_set)
    BY <1>1, <1>2, FS_BoundedSetOfNaturals
  <1>4. Cap \in Nat /\ Cardinality(retained) <= Cap
    BY OptionFacts DEF SInv, RetainedBounded
  <1>5. WindowFits => primary_set \subseteq retained
    BY DEF SInv, WindowIntact
  <1>6. Fed \notin primary_set
    BY <1>1
  <1>7. /\ Retain(retained, Fed, primary_set) \subseteq retained \cup {Fed}
        /\ IsFiniteSet(Retain(retained, Fed, primary_set))
        /\ Cardinality(Retain(retained, Fed, primary_set)) <= Cap
        /\ primary_set \subseteq retained
             => primary_set \subseteq Retain(retained, Fed, primary_set)
    BY <1>1, <1>2, <1>3, <1>4, <1>6, RetainFacts
  <1>8. Surroundings \subseteq 1..Fed
    <2>1. retained \cup {Fed} \subseteq 1..Fed
      BY <1>1, <1>2
    <2> QED BY <1>2, <1>7, <2>1 DEF Surroundings
  <1>9. SurroundingsDropped \in Nat
    BY DEF SurroundingsDropped, Dropped
  <1> QED BY <1>1, <1>2, <1>3, <1>4, <1>5, <1>7, <1>8, <1>9 DEF Surroundings

\* What does not depend on what was fed.
LEMMA Unchanged ==
  ASSUME UNCHANGED <<log, options>>
  PROVE  /\ Window' = Window /\ Context' = Context /\ Cap' = Cap
         /\ MatchesOfLog' = MatchesOfLog /\ WindowFits' = WindowFits
  BY DEF Window, Context, Cap, MatchesOfLog, WindowFits, Lesser, Greater

\* An event that joins no window leaves the invariant.
LEMMA NeighbourSInv ==
  ASSUME SInv, FeedNeighbour
  PROVE  SInv'
  <1> USE DEF FeedNeighbour, Feeding
  <1>1. /\ Fed \in Nat /\ Fed > 0 /\ Fed \in DOMAIN log
        /\ \A p \in primary_set : p < Fed
        /\ Surroundings \subseteq 1..Fed
        /\ Cardinality(Surroundings) <= Cap
        /\ WindowFits => primary_set \subseteq Surroundings
        /\ SurroundingsDropped \in Nat
    BY SurroundingFacts
  <1>2. /\ Window' = Window /\ Cap' = Cap /\ MatchesOfLog' = MatchesOfLog
        /\ WindowFits' = WindowFits /\ primary_set' = primary_set
    BY Unchanged DEF primary_set
  <1>3. ordinal \in Nat /\ ordinal' = Fed /\ Fed = ordinal + 1
    BY DEF SInv, TypeOK, Fed
  <1>4. TypeOK'
    <2>1. dropped_context' \in Nat /\ unrendered_matches' \in Nat
      BY <1>1 DEF SInv, TypeOK
    <2>2. retained' \in SUBSET Nat /\ ordinal' \in Nat
      BY <1>1, <1>3
    <2> QED BY <2>1, <2>2 DEF SInv, TypeOK
  <1>5. ordinal' <= Len(log') /\ (retained \subseteq 1..ordinal)'
        /\ (primary_set \subseteq 1..ordinal)'
    BY <1>1, <1>2, <1>3 DEF SInv, TypeOK
  <1>6. Ordered(primary)' /\ (Len(primary) <= Window)'
    BY <1>2 DEF SInv, Ordered
  <1>7. RetainedBounded' /\ WindowIntact'
    BY <1>1, <1>2 DEF SInv, RetainedBounded, WindowIntact
  <1>8. WindowOfLog'
    <2>1. primary_set' \subseteq MatchesOfLog'
      BY <1>2 DEF SInv, WindowOfLog
    <2>2. Len(primary) < Window => log[Fed] # "match"
      BY OptionFacts DEF SInv, TypeOK, WindowFull
    <2>3. (Len(primary) < Window => MatchesOfLog \cap (1..ordinal) \subseteq primary_set)'
      BY <1>2, <1>3, <2>2 DEF SInv, WindowOfLog, MatchesOfLog
    <2>4. ASSUME NEW i \in MatchesOfLog \ primary_set, i <= ordinal',
                 NEW p \in primary_set
          PROVE  IF options.mode = "head" THEN p < i ELSE i < p
      <3>1. CASE i = Fed
        BY <1>1, <3>1 DEF MatchesOfLog
      <3>2. CASE i # Fed
        <4>1. i <= ordinal
          BY <1>3, <2>4, <3>2 DEF MatchesOfLog
        <4> QED BY <4>1 DEF SInv, WindowOfLog
      <3> QED BY <3>1, <3>2
    <2> QED BY <1>2, <2>1, <2>3, <2>4 DEF WindowOfLog
  <1>9. Finished'
    BY DEF Finished
  <1> QED BY <1>4, <1>5, <1>6, <1>7, <1>8, <1>9 DEF SInv

\* A match that joins a window with room keeps the invariant, when the window it
\* joins is what is left of the present one.
LEMMA AdmitSInv ==
  ASSUME SInv, Feeding, log[Fed] = "match",
         NEW window \in Seq(Nat), NEW before \in SUBSET (1..Fed), NEW infos \in SUBSET Nat,
         Ordered(window), Len(window) < Window, Elements(window) \subseteq primary_set,
         IsFiniteSet(before), Cardinality(before) <= Cap,
         WindowFits => Elements(window) \subseteq before /\ infos = Elements(window),
         Len(window) + 1 < Window =>
           MatchesOfLog \cap (1..ordinal) \subseteq Elements(window),
         \A i \in MatchesOfLog \ Elements(window) : i <= ordinal =>
           \A p \in Elements(window) \cup {Fed} :
             IF options.mode = "head" THEN p < i ELSE i < p,
         Admit(window, before, infos)
  PROVE  SInv'
  <1> USE DEF Feeding
  <1> DEFINE kept == {window[i] : i \in DOMAIN window}
  <1>0. kept = Elements(window)
    BY DEF Elements
  <1>1. /\ Fed \in Nat /\ Fed > 0 /\ Fed \in DOMAIN log
        /\ \A p \in kept : p < Fed /\ p \in Nat
        /\ SurroundingsDropped \in Nat
    BY <1>0, SurroundingFacts
  <1>2. /\ Window' = Window /\ Cap' = Cap /\ MatchesOfLog' = MatchesOfLog
        /\ WindowFits' = WindowFits
        /\ Window \in Nat /\ Cap \in Nat
    BY Unchanged, OptionFacts DEF SInv
  <1>3. ordinal \in Nat /\ ordinal' = Fed /\ Fed = ordinal + 1
    BY DEF SInv, TypeOK, Fed
  <1>4. /\ primary' = Append(window, Fed)
        /\ retained' = Retain(before, Fed, kept)
        /\ matches' = infos \cup {Fed}
        /\ dropped_context' = dropped_context + SurroundingsDropped
                                + Dropped(before, Fed, kept)
        /\ last_primary_ordinal' = Fed /\ unrendered_matches' = unrendered_matches
    BY DEF Admit
  <1>5. /\ primary' \in Seq(Nat) /\ Len(primary') = Len(window) + 1
        /\ Ordered(primary')
        /\ primary_set' = kept \cup {Fed}
    <2>1. primary_set' = Elements(primary')
      BY DEF primary_set, Elements
    <2> QED BY <1>0, <1>1, <1>4, <2>1, AppendElements
  <1>6. /\ IsFiniteSet(kept) /\ Cardinality(kept) = Len(window)
    BY <1>0, ElementsCounted
  <1>7. /\ retained' \subseteq before \cup {Fed}
        /\ Cardinality(retained') <= Cap
        /\ kept \subseteq before => kept \subseteq retained'
        /\ Cardinality(kept) < Cap => Fed \in retained'
    <2>1. before \in SUBSET Nat /\ kept \in SUBSET Nat /\ Fed \notin kept
          /\ \A f \in before : f <= Fed
      BY <1>1
    <2> HIDE DEF kept
    <2> QED BY <1>1, <1>2, <1>4, <1>6, <2>1, RetainFacts
  <1>8. retained' \subseteq 1..Fed /\ primary_set' \subseteq 1..Fed
    <2>1. Elements(window) \subseteq 1..ordinal
      BY DEF SInv
    <2> QED BY <1>0, <1>1, <1>3, <1>5, <1>7, <2>1
  <1>9. TypeOK'
    <2>1. dropped_context' \in Nat
      BY <1>1, <1>4 DEF SInv, TypeOK, Dropped
    <2>2. retained' \in SUBSET Nat /\ matches' \in SUBSET Nat /\ primary' \in Seq(Nat)
          /\ last_primary_ordinal' \in Nat /\ ordinal' \in Nat
      BY <1>1, <1>3, <1>4, <1>5, <1>8
    <2> QED BY <1>4, <2>1, <2>2 DEF SInv, TypeOK
  <1>10. ordinal' <= Len(log') /\ (Len(primary) <= Window)'
    BY <1>1, <1>2, <1>3, <1>5 DEF SInv, TypeOK
  <1>11. RetainedBounded'
    BY <1>2, <1>7 DEF RetainedBounded
  <1>12. WindowIntact'
    <2>1. SUFFICES ASSUME WindowFits PROVE (primary_set \subseteq retained /\ matches = primary_set)'
      BY <1>2 DEF WindowIntact
    <2>2. Cardinality(kept) < Cap
      BY <1>2, <1>6, <2>1 DEF WindowFits
    <2> QED BY <1>0, <1>4, <1>5, <1>7, <2>1, <2>2
  <1>13. WindowOfLog'
    <2>1. primary_set' \subseteq MatchesOfLog'
      BY <1>0, <1>1, <1>2, <1>5 DEF SInv, WindowOfLog, MatchesOfLog
    <2>2. (Len(primary) < Window => MatchesOfLog \cap (1..ordinal) \subseteq primary_set)'
      <3>1. SUFFICES ASSUME Len(primary') < Window, NEW i \in MatchesOfLog, i \in 1..Fed
                     PROVE  i \in kept \cup {Fed}
        BY <1>2, <1>3, <1>5
      <3>2. Len(window) + 1 < Window
        BY <1>5, <3>1
      <3>3. i = Fed \/ i \in 1..ordinal
        BY <1>3, <3>1
      <3> QED BY <1>0, <3>1, <3>2, <3>3
    <2>3. ASSUME NEW i \in MatchesOfLog \ primary_set', i <= ordinal',
                 NEW p \in primary_set'
          PROVE  IF options.mode = "head" THEN p < i ELSE i < p
      <3>1. i <= ordinal /\ i \notin Elements(window) /\ p \in Elements(window) \cup {Fed}
        BY <1>0, <1>3, <1>5, <2>3 DEF MatchesOfLog
      <3> QED BY <3>1
    <2> QED BY <1>2, <2>1, <2>2, <2>3 DEF WindowOfLog
  <1>14. Finished'
    BY DEF Finished
  <1> QED BY <1>3, <1>5, <1>8, <1>9, <1>10, <1>11, <1>12, <1>13, <1>14 DEF SInv

\* A match that finds room in the window keeps the invariant.
LEMMA PrimarySInv ==
  ASSUME SInv, FeedPrimary
  PROVE  SInv'
  <1> USE DEF FeedPrimary, Feeding
  <1>1. /\ primary \in Seq(Nat) /\ Ordered(primary) /\ matches \in SUBSET Nat
        /\ Elements(primary) = primary_set
    BY DEF SInv, TypeOK, Elements, primary_set
  <1>2. Len(primary) < Window
    BY <1>1, OptionFacts DEF SInv, WindowFull
  <1>3. /\ Surroundings \in SUBSET (1..Fed) /\ IsFiniteSet(Surroundings)
        /\ Cardinality(Surroundings) <= Cap
        /\ WindowFits => Elements(primary) \subseteq Surroundings
    BY <1>1, SurroundingFacts
  <1>4. WindowFits => matches = Elements(primary)
    BY <1>1 DEF SInv, WindowIntact
  <1>5. MatchesOfLog \cap (1..ordinal) \subseteq Elements(primary)
    BY <1>1, <1>2 DEF SInv, WindowOfLog
  <1>6. \A i \in MatchesOfLog \ Elements(primary) : ~(i <= ordinal)
    <2>1. \A i \in MatchesOfLog : i \in Nat /\ i >= 1
      BY DEF MatchesOfLog, SInv, TypeOK
    <2>2. ordinal \in Nat
      BY DEF SInv, TypeOK
    <2> QED BY <1>5, <2>1, <2>2
  <1>7. Admit(primary, Surroundings, matches)
    OBVIOUS
  <1> QED BY <1>1, <1>2, <1>3, <1>4, <1>5, <1>6, <1>7, AdmitSInv

\* In tail mode the least primary makes room for the match.
LEMMA TailSInv ==
  ASSUME SInv, FeedTail
  PROVE  SInv'
  <1> USE DEF FeedTail, Feeding
  <1> DEFINE old == Head(primary)
             window == Tail(primary)
             before == IF Context = 0 THEN Surroundings \ {old} ELSE Surroundings
             infos == IF old \in Surroundings THEN matches \ {old} ELSE matches
  <1>1. /\ primary \in Seq(Nat) /\ Ordered(primary) /\ matches \in SUBSET Nat
        /\ Elements(primary) = primary_set
    BY DEF SInv, TypeOK, Elements, primary_set
  <1>2. Len(primary) = Window /\ Window \in Nat /\ Window > 0
    BY <1>1, OptionFacts DEF SInv, WindowFull
  <1>3. /\ window \in Seq(Nat) /\ Len(window) = Window - 1 /\ Ordered(window)
        /\ old \in primary_set
        /\ Elements(window) = primary_set \ {old}
        /\ \A p \in Elements(window) : old < p
    BY <1>1, <1>2, TailElements
  <1>4. /\ Surroundings \subseteq 1..Fed /\ IsFiniteSet(Surroundings)
        /\ Cardinality(Surroundings) <= Cap /\ Cap \in Nat
        /\ WindowFits => primary_set \subseteq Surroundings
        /\ Fed \in Nat /\ \A p \in primary_set : p < Fed /\ p \in Nat
    BY SurroundingFacts, OptionFacts DEF SInv
  <1>5. before \in SUBSET (1..Fed) /\ IsFiniteSet(before) /\ Cardinality(before) <= Cap
    <2>1. before \subseteq Surroundings
      OBVIOUS
    <2>2. IsFiniteSet(before) /\ Cardinality(before) <= Cardinality(Surroundings)
          /\ Cardinality(before) \in Nat /\ Cardinality(Surroundings) \in Nat
      BY <1>4, <2>1, FS_Subset, FS_CardinalityType
    <2> HIDE DEF before
    <2> QED BY <1>4, <2>1, <2>2
  <1>6. WindowFits => Elements(window) \subseteq before /\ infos = Elements(window)
    <2>1. WindowFits => matches = primary_set
      BY DEF SInv, WindowIntact
    <2> QED BY <1>3, <1>4, <2>1
  <1>7. ASSUME NEW i \in MatchesOfLog \ Elements(window), i <= ordinal,
               NEW p \in Elements(window) \cup {Fed}
        PROVE  i < p
    <2>1. i \in Nat /\ ordinal \in Nat /\ Fed = ordinal + 1
      BY DEF MatchesOfLog, SInv, TypeOK, Fed
    <2>2. CASE p = Fed
      BY <1>7, <2>1, <2>2
    <2>3. CASE p \in Elements(window) /\ i = old
      BY <1>3, <2>3
    <2>4. CASE p \in Elements(window) /\ i # old
      <3>1. i \notin primary_set /\ p \in primary_set /\ options.mode # "head"
        BY <1>3, <2>4
      <3> QED BY <1>7, <3>1 DEF SInv, WindowOfLog
    <2> QED BY <2>2, <2>3, <2>4
  <1>8. infos \in SUBSET Nat
    BY <1>1
  <1>9. Admit(window, before, infos) /\ options.mode # "head"
    OBVIOUS
  <1>10. Len(window) < Window /\ ~(Len(window) + 1 < Window)
         /\ Elements(window) \subseteq primary_set
    BY <1>2, <1>3
  <1> HIDE DEF window, before, infos
  <1> QED BY <1>3, <1>5, <1>6, <1>7, <1>8, <1>9, <1>10, AdmitSInv

\* finish drops what it does not return, never a primary.
LEMMA FinishSInv ==
  ASSUME SInv, Finish
  PROVE  SInv'
  <1> USE DEF Finish
  <1>1. /\ Window' = Window /\ Cap' = Cap /\ MatchesOfLog' = MatchesOfLog
        /\ WindowFits' = WindowFits /\ primary_set' = primary_set
    BY Unchanged DEF primary_set
  <1>2. retained' \subseteq retained /\ primary_set \cap retained' = primary_set \cap retained
    OBVIOUS
  <1>3. IsFiniteSet(retained)
    <2>1. ordinal \in Nat /\ retained \in SUBSET Nat /\ \A r \in retained : r <= ordinal
      BY DEF SInv, TypeOK
    <2> QED BY <2>1, FS_BoundedSetOfNaturals
  <1>4. TypeOK'
    <2>1. IsFiniteSet(Refused)
      <3>1. IsFiniteSet(retained \X retained)
        BY <1>3, FS_Product
      <3>2. Refused \in SUBSET (retained \X retained)
        BY DEF Refused, Visits
      <3> QED BY <3>1, <3>2, FS_Subset
    <2>2. dropped_context' \in Nat
      BY <2>1, FS_CardinalityType DEF SInv, TypeOK
    <2>3. Surrounding \subseteq Nat
      BY DEF Surrounding, Visits, SInv, TypeOK
    <2>4. selection' \in [primaries : SUBSET Nat, context : SUBSET Nat, matches : SUBSET Nat]
      BY <2>3 DEF SInv, TypeOK
    <2>5. retained' \in SUBSET Nat /\ done' \in BOOLEAN
      BY <1>2 DEF SInv, TypeOK
    <2> QED BY <2>2, <2>4, <2>5 DEF SInv, TypeOK
  <1>5. RetainedBounded'
    <2>1. /\ Cardinality(retained') <= Cardinality(retained)
          /\ Cardinality(retained') \in Nat /\ Cardinality(retained) \in Nat
      BY <1>2, <1>3, FS_Subset, FS_CardinalityType
    <2> QED BY <1>1, <2>1, OptionFacts DEF SInv, RetainedBounded
  <1>6. WindowIntact' /\ WindowOfLog'
    BY <1>1, <1>2 DEF SInv, WindowIntact, WindowOfLog
  <1>7. Finished'
    <2>1. CanStop' = CanStop
      BY <1>1 DEF CanStop, Window, Context
    <2> QED BY <1>1, <1>2, <2>1 DEF Finished
  <1>8. /\ (ordinal <= Len(log))' /\ (retained \subseteq 1..ordinal)'
        /\ (primary_set \subseteq 1..ordinal)' /\ Ordered(primary)'
        /\ (Len(primary) <= Window)'
    BY <1>1, <1>2 DEF SInv, Ordered
  <1> QED BY <1>4, <1>5, <1>6, <1>7, <1>8 DEF SInv

\* The inductive invariant holds of every reachable state.
LEMMA SpecSInv == Spec => []SInv
  <1>1. ASSUME SInv, UNCHANGED vars PROVE SInv'
    BY <1>1 DEF vars, SInv, TypeOK, RetainedBounded, WindowIntact, WindowOfLog, Finished,
                WindowFits, Window, Context, Cap, primary_set, MatchesOfLog, CanStop, Ordered
  <1>2. SInv /\ [Next]_vars => SInv'
    BY <1>1, NeighbourSInv, PrimarySInv, TailSInv, FinishSInv DEF Next
  <1> QED BY <1>2, InitSInv, PTL DEF Spec

----------------------------------------------------------------------------
\* Every variable keeps its type: in particular no counter leaves the naturals.
THEOREM SelectorTypes == Spec => []TypeOK
  BY SpecSInv, PTL DEF SInv

\* Memory is bounded by the request for every log: retention never exceeds the
\* cap (prune, select.rs 193-247).
THEOREM RetentionIsBounded == Spec => []RetainedBounded
  BY SpecSInv, PTL DEF SInv

\* While the window fits the cap, no primary and no match info is ever lost
\* (feed and prune, select.rs 127-247).
THEOREM WindowStaysIntact == Spec => []WindowIntact
  BY SpecSInv, PTL DEF SInv

\* The window finish returns is the reference, whatever was left unread.
LEMMA FinishedWindow ==
  ASSUME SInv, done, WindowFits
  PROVE  primary_set = Selected
  <1> DEFINE Beyond(i) ==
        {j \in MatchesOfLog : IF options.mode = "head" THEN j < i ELSE j > i}
  <1>1. /\ ordinal \in Nat /\ Len(log) \in Nat /\ ordinal <= Len(log)
        /\ \A j \in MatchesOfLog : j \in Nat /\ j <= Len(log) /\ j > 0
        /\ primary_set \subseteq MatchesOfLog /\ \A p \in primary_set : p <= ordinal
    BY DEF SInv, TypeOK, MatchesOfLog, WindowOfLog
  <1>2. ordinal < Len(log) => options.mode = "head" /\ Len(primary) >= Window
    BY <1>1 DEF SInv, Finished, CanStop
  <1>3. /\ Window \in Nat /\ Len(primary) \in Nat /\ Len(primary) <= Window
        /\ IsFiniteSet(primary_set) /\ Cardinality(primary_set) = Len(primary)
    <2>1. primary \in Seq(Nat) /\ Ordered(primary) /\ primary_set = Elements(primary)
      BY DEF SInv, TypeOK, primary_set, Elements
    <2> QED BY <2>1, ElementsCounted, OptionFacts DEF SInv
  <1>4. IsFiniteSet(MatchesOfLog)
    <2>1. MatchesOfLog \in SUBSET Nat /\ \A j \in MatchesOfLog : j <= Len(log)
      BY <1>1
    <2> QED BY <1>1, <2>1, FS_BoundedSetOfNaturals
  <1>5. \A i : IsFiniteSet(Beyond(i)) /\ Cardinality(Beyond(i)) \in Nat
    <2>1. \A i : Beyond(i) \in SUBSET MatchesOfLog
      OBVIOUS
    <2> HIDE DEF Beyond
    <2> QED BY <1>4, <2>1, FS_Subset, FS_CardinalityType
  <1>6. Selected = {i \in MatchesOfLog : Cardinality(Beyond(i)) < Window}
    BY DEF Selected
  <1>7. ASSUME NEW i \in primary_set PROVE Cardinality(Beyond(i)) < Window
    <2>1. ASSUME NEW j \in Beyond(i) PROVE j \in primary_set \ {i}
      <3>1. j \in MatchesOfLog /\ j # i /\ j \in Nat /\ i \in Nat
        BY <1>1, <1>7, <2>1
      <3>2. j <= ordinal
        BY <1>1, <1>2, <1>7, <2>1, <3>1
      <3>3. j \in primary_set
        BY <1>7, <2>1, <3>1, <3>2 DEF SInv, WindowOfLog
      <3> QED BY <3>1, <3>3
    <2>2. /\ IsFiniteSet(primary_set \ {i})
          /\ Cardinality(primary_set \ {i}) = Len(primary) - 1
      BY <1>3, <1>7, FS_RemoveElement
    <2>3. Cardinality(Beyond(i)) <= Cardinality(primary_set \ {i})
      <3>1. Beyond(i) \in SUBSET (primary_set \ {i})
        BY <2>1
      <3> HIDE DEF Beyond
      <3> QED BY <2>2, <3>1, FS_Subset
    <2> HIDE DEF Beyond
    <2> QED BY <1>3, <1>5, <2>2, <2>3
  <1>8. ASSUME NEW i \in MatchesOfLog, i \notin primary_set
        PROVE  ~(Cardinality(Beyond(i)) < Window)
    <2>1. Len(primary) = Window
      <3>1. CASE i <= ordinal
        BY <1>1, <1>3, <1>8, <3>1 DEF SInv, WindowOfLog
      <3>2. CASE ~(i <= ordinal)
        BY <1>1, <1>2, <1>3, <3>2
      <3> QED BY <3>1, <3>2
    <2>2. ASSUME NEW p \in primary_set PROVE p \in Beyond(i)
      <3>1. p \in MatchesOfLog /\ p \in Nat /\ i \in Nat /\ p <= ordinal
        BY <1>1, <1>8
      <3>2. CASE i <= ordinal
        BY <1>8, <3>1, <3>2 DEF SInv, WindowOfLog
      <3>3. CASE ~(i <= ordinal)
        BY <1>1, <1>2, <3>1, <3>3
      <3> QED BY <3>2, <3>3
    <2>3. Cardinality(primary_set) <= Cardinality(Beyond(i))
      <3>1. primary_set \in SUBSET Beyond(i)
        BY <2>2
      <3> HIDE DEF Beyond
      <3> QED BY <1>5, <3>1, FS_Subset
    <2> HIDE DEF Beyond
    <2> QED BY <1>3, <1>5, <2>1, <2>3
  <1> HIDE DEF Beyond
  <1> QED BY <1>1, <1>6, <1>7, <1>8

\* For every log, the early stop and the bounded retention included, finish
\* returns the first (last) matches of the whole log with their match infos
\* (select.rs 127-183, 251-289).
THEOREM SelectorIsCorrect == Spec => []SelectsTheWindow
  <1>1. SInv => SelectsTheWindow
    <2> SUFFICES ASSUME SInv, done, WindowFits
                 PROVE  selection.primaries = Selected /\ selection.matches = Selected
      BY DEF SelectsTheWindow
    <2>1. primary_set = Selected
      BY FinishedWindow
    <2>2. primary_set \subseteq retained /\ matches = primary_set
      BY DEF SInv, WindowIntact
    <2> QED BY <2>1, <2>2 DEF SInv, Finished
  <1> QED BY <1>1, SpecSInv, PTL

----------------------------------------------------------------------------
\* What is known of context on the way: as long as none was dropped every event
\* fed is retained, and no primary lies behind the last one recorded.
ContextHeld ==
  ~done => /\ dropped_context = 0 /\ Context > 0 => retained = 1..ordinal
           /\ \A p \in primary_set : p <= last_primary_ordinal

ContextInv == SInv /\ ContextHeld /\ ContextShownOrDisclosed

\* An event that costs no other is added.
LEMMA NothingDropped ==
  ASSUME NEW events, NEW e, NEW primaries, Dropped(events, e, primaries) = 0,
         e \notin events
  PROVE  Retain(events, e, primaries) = events \cup {e}
  BY DEF Dropped, Retain

\* The same for one that is retained already, within the cap.
LEMMA KeptAlready ==
  ASSUME NEW events \in SUBSET Nat, NEW e \in events, NEW primaries,
         Cardinality(events) <= Cap, Cap \in Nat, IsFiniteSet(events)
  PROVE  Retain(events, e, primaries) = events
  <1>1. events \cup {e} = events
    OBVIOUS
  <1>2. Cardinality(events) \in Nat
    BY FS_CardinalityType
  <1> QED BY <1>1, <1>2 DEF Retain

\* While none was dropped, feed retains the event itself before the matcher.
LEMMA SurroundingsHeld ==
  ASSUME SInv, ContextHeld, ~done, ordinal < Len(log), Context > 0,
         dropped_context = 0, SurroundingsDropped = 0
  PROVE  Surroundings = 1..Fed
  <1>1. ordinal \in Nat /\ Fed = ordinal + 1
    BY DEF SInv, TypeOK, Fed
  <1>2. retained = 1..ordinal /\ Fed \notin retained
    BY <1>1 DEF ContextHeld
  <1>3. Surroundings = retained \cup {Fed}
    BY <1>2, NothingDropped DEF Surroundings, SurroundingsDropped
  <1>4. (1..ordinal) \cup {Fed} = 1..Fed
    BY <1>1
  <1> QED BY <1>2, <1>3, <1>4

\* An event that joins no window keeps what is known of context.
LEMMA NeighbourContext ==
  ASSUME SInv, ContextHeld, FeedNeighbour
  PROVE  ContextHeld'
  <1>1. /\ ~done /\ ordinal < Len(log) /\ ordinal' = Fed
        /\ UNCHANGED <<log, options, primary, last_primary_ordinal>>
        /\ retained' = Surroundings
        /\ dropped_context' = dropped_context + SurroundingsDropped
    BY DEF FeedNeighbour, Feeding
  <1>2. Context' = Context /\ primary_set' = primary_set
    BY <1>1, Unchanged DEF primary_set
  <1>3. SurroundingsDropped \in Nat /\ dropped_context \in Nat
    BY <1>1, SurroundingFacts DEF SInv, TypeOK
  <1>4. ASSUME dropped_context' = 0, Context > 0 PROVE retained' = 1..Fed
    <2>1. dropped_context = 0 /\ SurroundingsDropped = 0
      BY <1>1, <1>3, <1>4
    <2> QED BY <1>1, <1>4, <2>1, SurroundingsHeld
  <1>5. \A p \in primary_set : p <= last_primary_ordinal
    BY <1>1 DEF ContextHeld
  <1> QED BY <1>1, <1>2, <1>4, <1>5 DEF ContextHeld

\* Nor does a match that joins the window, whatever left it before.
LEMMA AdmitContext ==
  ASSUME SInv, ContextHeld, Feeding,
         NEW window \in Seq(Nat), NEW before, NEW infos,
         Elements(window) \subseteq primary_set, Ordered(window),
         Context > 0 => before = Surroundings,
         Admit(window, before, infos)
  PROVE  ContextHeld'
  <1> DEFINE kept == {window[i] : i \in DOMAIN window}
  <1>1. /\ ~done /\ ordinal < Len(log) /\ ordinal' = Fed
        /\ UNCHANGED <<log, options>>
        /\ retained' = Retain(before, Fed, kept)
        /\ dropped_context' = dropped_context + SurroundingsDropped
                                + Dropped(before, Fed, kept)
        /\ primary' = Append(window, Fed)
        /\ last_primary_ordinal' = Fed
    BY DEF Feeding, Admit
  <1>2. Context' = Context
    BY <1>1, Unchanged
  <1>3. /\ SurroundingsDropped \in Nat /\ dropped_context \in Nat
        /\ Dropped(before, Fed, kept) \in Nat
        /\ Fed \in Nat /\ Fed > 0 /\ \A p \in primary_set : p < Fed /\ p \in Nat
        /\ Surroundings \subseteq 1..Fed
        /\ IsFiniteSet(Surroundings) /\ Cardinality(Surroundings) <= Cap
        /\ Cap \in Nat
    BY <1>1, SurroundingFacts, OptionFacts DEF SInv, TypeOK, Dropped
  <1>4. ASSUME dropped_context' = 0, Context > 0 PROVE retained' = 1..Fed
    <2>1. dropped_context = 0 /\ SurroundingsDropped = 0
      BY <1>1, <1>3, <1>4
    <2>2. before = 1..Fed /\ before = Surroundings
      BY <1>1, <1>4, <2>1, SurroundingsHeld
    <2>3. Fed \in before /\ before \in SUBSET Nat
      BY <1>3, <2>2
    <2>4. Retain(before, Fed, kept) = before
      BY <1>3, <2>2, <2>3, KeptAlready
    <2> QED BY <1>1, <2>2, <2>4
  <1>5. primary_set' = Elements(window) \cup {Fed}
    <2>1. primary_set' = Elements(primary')
      BY DEF primary_set, Elements
    <2>2. \A p \in Elements(window) : p < Fed
      BY <1>3
    <2> QED BY <1>1, <1>3, <2>1, <2>2, AppendElements
  <1>6. \A p \in primary_set' : p <= last_primary_ordinal'
    BY <1>1, <1>3, <1>5
  <1> QED BY <1>1, <1>2, <1>4, <1>6 DEF ContextHeld

\* A match that finds room, and one that moves the tail window.
LEMMA MatchContext ==
  ASSUME SInv, ContextHeld, FeedPrimary \/ FeedTail
  PROVE  ContextHeld'
  <1>1. primary \in Seq(Nat) /\ Ordered(primary) /\ Elements(primary) = primary_set
    BY DEF SInv, TypeOK, primary_set, Elements
  <1>2. CASE FeedPrimary
    <2>1. Feeding /\ Admit(primary, Surroundings, matches)
      BY <1>2 DEF FeedPrimary
    <2> QED BY <1>1, <2>1, AdmitContext
  <1>3. CASE FeedTail
    <2> DEFINE before == IF Context = 0 THEN Surroundings \ {Head(primary)} ELSE Surroundings
               infos == IF Head(primary) \in Surroundings THEN matches \ {Head(primary)}
                                                          ELSE matches
    <2>1. Feeding /\ WindowFull /\ Admit(Tail(primary), before, infos)
      BY <1>3 DEF FeedTail
    <2>2. Context > 0 => before = Surroundings
      BY OptionFacts DEF SInv
    <2>3. Len(primary) > 0
      BY <1>1, <2>1, OptionFacts DEF SInv, WindowFull
    <2>4. /\ Tail(primary) \in Seq(Nat) /\ Ordered(Tail(primary))
          /\ Elements(Tail(primary)) \subseteq primary_set
      BY <1>1, <2>3, TailElements
    <2> HIDE DEF before, infos
    <2> QED BY <2>1, <2>2, <2>4, AdmitContext
  <1> QED BY <1>2, <1>3

\* Where nothing was dropped the positions finish measures in are the ordinals.
LEMMA PositionIsOrdinal ==
  ASSUME ordinal \in Nat, retained = 1..ordinal, NEW e \in 1..ordinal
  PROVE  Position(e) = e - 1
  <1>1. {f \in retained : f < e} = 1..(e - 1)
    OBVIOUS
  <1>2. Cardinality(1..(e - 1)) = IF 1 > e - 1 THEN 0 ELSE (e - 1) - 1 + 1
    <2>1. 1 \in Int /\ e - 1 \in Int
      OBVIOUS
    <2> QED BY <2>1, FS_Interval, Zenon
  <1>3. Cardinality(1..(e - 1)) = e - 1
    <2>1. e \in Nat /\ e >= 1
      OBVIOUS
    <2> QED BY <1>2, <2>1
  <1> QED BY <1>1, <1>3 DEF Position

\* What finish returns when it refuses no neighbour.
LEMMA FinishContext ==
  ASSUME SInv, ContextHeld, Finish, WindowFits, dropped_context' = 0,
         NEW p \in primary_set, NEW e \in DOMAIN log,
         e - p <= Context, p - e <= Context
  PROVE  e \in primary_set \/ e \in Surrounding
  <1>1. /\ ~done
        /\ CanStop \/ ordinal = Len(log)
        /\ dropped_context' = dropped_context
              + (IF Context = 0 THEN 0 ELSE Cardinality(Refused))
    BY DEF Finish
  <1>2. /\ ordinal \in Nat /\ Len(log) \in Nat /\ log \in Seq({"match", "other"})
        /\ Context \in Nat /\ dropped_context \in Nat /\ last_primary_ordinal \in Nat
        /\ p \in 1..ordinal /\ p <= last_primary_ordinal
        /\ primary_set \subseteq retained
    BY <1>1, OptionFacts DEF SInv, TypeOK, ContextHeld, WindowIntact
  <1>3. e \in Nat /\ e \in 1..Len(log)
    BY <1>2
  <1>4. CASE Context = 0
    BY <1>2, <1>3, <1>4
  <1>5. CASE Context > 0
    <2>1. IsFiniteSet(Refused)
      <3>1. \A r \in retained : r \in Nat /\ r <= ordinal
        BY <1>2 DEF SInv
      <3>2. IsFiniteSet(retained)
        BY <1>2, <3>1, FS_BoundedSetOfNaturals
      <3>3. IsFiniteSet(retained \X retained)
        BY <3>2, FS_Product
      <3>4. Refused \in SUBSET (retained \X retained)
        BY DEF Refused, Visits
      <3> QED BY <3>3, <3>4, FS_Subset
    <2>2. Cardinality(Refused) = 0 /\ dropped_context = 0
      <3>1. Cardinality(Refused) \in Nat
        BY <2>1, FS_CardinalityType
      <3> QED BY <1>1, <1>2, <1>5, <3>1
    <2>3. Refused = {}
      BY <2>1, <2>2, FS_EmptySet
    <2>4. retained = 1..ordinal
      BY <1>1, <1>5, <2>2 DEF ContextHeld
    <2>5. e <= ordinal
      BY <1>1, <1>2, <1>3 DEF CanStop
    <2>6. CASE e = p
      BY <2>6
    <2>7. CASE e # p
      <3>1. e \in 1..ordinal
        BY <1>2, <1>3, <2>5
      <3>2. Position(e) = e - 1 /\ Position(p) = p - 1
        BY <1>2, <2>4, <3>1, PositionIsOrdinal
      <3>3. /\ e - 1 <= p - 1 + Context /\ p - 1 <= e - 1 + Context
        BY <1>2, <1>3
      <3>4. e \in Neighbours(p)
        BY <2>4, <2>7, <3>1, <3>2, <3>3 DEF Neighbours
      <3>5. <<p, e>> \in Visits
        BY <1>2, <2>4, <3>1, <3>4 DEF Visits
      <3>6. Surrounding = {v[2] : v \in Visits}
        BY <1>5, <1>2, <2>3 DEF Surrounding
      <3>7. <<p, e>>[2] \in {v[2] : v \in Visits}
        BY <3>5, Zenon
      <3> QED BY <3>6, <3>7
    <2> QED BY <2>6, <2>7
  <1> QED BY <1>2, <1>4, <1>5

\* Context is shown when finish counts none as dropped.
LEMMA FinishShows ==
  ASSUME SInv, ContextHeld, Finish
  PROVE  ContextShownOrDisclosed'
  <1>1. /\ UNCHANGED <<log, options>>
        /\ selection'.primaries = primary_set \cap retained
        /\ selection'.context = Surrounding \ primary_set
    BY DEF Finish
  <1>2. Context' = Context /\ WindowFits' = WindowFits
    BY <1>1, Unchanged
  <1>3. SUFFICES ASSUME WindowFits, dropped_context' = 0,
                        NEW p \in primary_set \cap retained, NEW e \in DOMAIN log,
                        e - p <= Context, p - e <= Context
                 PROVE  e \in (primary_set \cap retained) \cup (Surrounding \ primary_set)
    BY <1>1, <1>2 DEF ContextShownOrDisclosed
  <1>4. e \in primary_set \/ e \in Surrounding
    BY <1>3, FinishContext
  <1>5. primary_set \subseteq retained
    BY <1>3 DEF SInv, WindowIntact
  <1> QED BY <1>4, <1>5

\* An event within the requested distance of a primary is shown or the drop is
\* disclosed, for every log, window, context and cap: in spite of the early stop and
\* of pruning (select.rs 195-247, 251-289).
THEOREM ContextIsShown == Spec => []ContextShownOrDisclosed
  <1>1. Init => ContextHeld /\ ContextShownOrDisclosed
    <2>1. ASSUME Init PROVE ContextHeld
      <3>1. primary_set = {} /\ retained = {} /\ ordinal = 0
        BY <2>1 DEF Init, primary_set
      <3>2. 1..0 = {}
        OBVIOUS
      <3> QED BY <3>1, <3>2 DEF ContextHeld
    <2> QED BY <2>1 DEF Init, ContextShownOrDisclosed
  <1>2. ASSUME ContextInv, [Next]_vars PROVE ContextHeld' /\ ContextShownOrDisclosed'
    <2>1. CASE FeedNeighbour
      BY <1>2, <2>1, NeighbourContext
         DEF ContextInv, ContextShownOrDisclosed, FeedNeighbour, Feeding
    <2>2. CASE FeedPrimary \/ FeedTail
      <3>1. ~done'
        BY <2>2 DEF FeedPrimary, FeedTail, Feeding
      <3> QED BY <1>2, <2>2, <3>1, MatchContext DEF ContextInv, ContextShownOrDisclosed
    <2>3. CASE Finish
      <3>1. done'
        BY <2>3 DEF Finish
      <3> QED BY <1>2, <2>3, <3>1, FinishShows DEF ContextInv, ContextHeld
    <2>4. CASE UNCHANGED vars
      BY <1>2, <2>4 DEF vars, ContextInv, ContextHeld, ContextShownOrDisclosed, Context,
                        WindowFits, Window, Cap, primary_set
    <2> QED BY <1>2, <2>1, <2>2, <2>3, <2>4 DEF Next
  <1>3. ContextInv => ContextShownOrDisclosed
    BY DEF ContextInv
  <1>4. SInv /\ ContextHeld /\ ContextShownOrDisclosed => ContextInv
    BY DEF ContextInv
  <1>5. ContextInv => SInv
    BY DEF ContextInv
  <1> QED BY <1>1, <1>2, <1>3, <1>4, SpecSInv, PTL DEF Spec
=============================================================================
