-------------------------- MODULE GdeltRadar_proofs --------------------------
(***************************************************************************)
(* What the radar guarantees for any passes, articles, matches and bounds:  *)
(* types, and that the checkpoint passes over nothing that was published.   *)
(*                                                                         *)
(* The argument: a minute that was passed stays settled (kept, refused, or  *)
(* too old to be published any more), so what one pass settled may be       *)
(* written as the checkpoint by another that ends later.                    *)
(***************************************************************************)
EXTENDS GdeltRadar, TLAPS

\* Nothing of the minute can be missed any more.
Settled(m) ==
    \/ m \in refused
    \/ files[m] = "both" /\ Matches[m] \subseteq items
    \/ files[m] # "both" /\ clock > m + GapAfter

SettledUpTo(n) == \A m \in Minutes : m <= n => Settled(m)

\* A pass is at the minute after the last it settled, and still holds what it
\* has not kept of it.
InOrder(r) ==
    /\ r.now <= clock
    /\ r.pc \in {"toc", "ngrams", "keep"} => r.at = r.last + 1 /\ r.at <= r.until
    /\ r.pc = "keep" => files[r.at] = "both" /\ Matches[r.at] \subseteq items \cup r.fresh

IInv ==
    /\ TypeOK
    /\ SettledUpTo(checkpoint.last)
    /\ \A p \in Passes : SettledUpTo(pass[p].last) /\ InOrder(pass[p])

-----------------------------------------------------------------------------
(* Helpers                                                                 *)

\* A bound of the pass is one of the three it is the least of.
LEMMA LeastOfThree ==
    ASSUME NEW a \in Int, NEW b \in Int, NEW c \in Int
    PROVE  /\ Least({a, b, c}) \in {a, b, c}
           /\ Least({a, b, c}) <= a
<1>1. \E x \in {a, b, c} : \A y \in {a, b, c} : x <= y
  <2>1. CASE a <= b /\ a <= c
    BY <2>1
  <2>2. CASE b <= a /\ b <= c
    BY <2>2
  <2>3. CASE c <= a /\ c <= b
    BY <2>3
  <2> QED
    BY <2>1, <2>2, <2>3
<1> QED
  BY <1>1 DEF Least

\* The next minute is one the pass still has to look at, or the pass ends.
LEMMA NextStampType ==
    ASSUME NEW r \in Pass
    PROVE  /\ NextStamp(r) \in Pass
           /\ NextStamp(r).last = r.last /\ NextStamp(r).now = r.now
           /\ NextStamp(r).until = r.until
           /\ NextStamp(r).pc \in {"toc", "end"}
           /\ NextStamp(r).pc = "toc" => NextStamp(r).at = r.at + 1 /\ r.at < r.until
<1>1. r.at \in 0..LastMinute /\ r.until \in 0..LastMinute /\ LastMinute \in Nat
  BY RadarBounds DEF Pass
<1>2. CASE r.at < r.until
  <2>1. r.at + 1 \in 0..LastMinute
    BY <1>1, <1>2
  <2>2. NextStamp(r) = [r EXCEPT !.pc = "toc", !.at = @ + 1]
    BY <1>2 DEF NextStamp
  <2> QED
    BY <1>2, <2>1, <2>2 DEF Pass
<1>3. CASE ~(r.at < r.until)
  BY <1>3 DEF NextStamp, Pass
<1> QED
  BY <1>2, <1>3

\* Passing a minute makes it the last one, and nothing else of the pass changes.
LEMMA PassedType ==
    ASSUME NEW r \in Pass
    PROVE  /\ Passed(r) \in Pass
           /\ Passed(r).last = r.at /\ Passed(r).now = r.now
           /\ Passed(r).pc \in {"toc", "end"}
           /\ Passed(r).pc = "toc" =>
                 Passed(r).at = Passed(r).last + 1 /\ Passed(r).at <= Passed(r).until
<1> DEFINE s == [r EXCEPT !.last = r.at]
<1>1. s \in Pass /\ s.last = r.at /\ s.now = r.now /\ s.at = r.at /\ s.until = r.until
  BY DEF Pass
<1>2. s.at \in Int /\ s.until \in Int
  BY <1>1, RadarBounds DEF Pass
<1> HIDE DEF s
<1>3. Passed(r) = NextStamp(s)
  BY DEF Passed, s
<1> QED
  BY <1>1, <1>2, <1>3, NextStampType

LEMMA MissingType ==
    ASSUME NEW r \in Pass
    PROVE  Missing(r) \in Pass
BY PassedType DEF Missing, Pass

LEMMA NoPassType == NoPass \in Pass
BY RadarBounds DEF NoPass, Pass, Circuits

-----------------------------------------------------------------------------
(* Types                                                                   *)

LEMMA StartedType ==
    ASSUME TypeOK, NEW p \in Passes, StartPass(p)
    PROVE  \E until \in 0..LastMinute :
              LET r == [NoPass EXCEPT !.now = clock, !.at = checkpoint.last, !.until = until,
                           !.last = checkpoint.last, !.circuit = checkpoint.circuit]
              IN  r \in Pass /\ until > checkpoint.last /\ pass' = [pass EXCEPT ![p] = NextStamp(r)]
<1> DEFINE until == Least({LastMinute, clock - Lag, checkpoint.last + MaxBatches})
<1>1. checkpoint.last \in 0..LastMinute /\ checkpoint.circuit \in Circuits /\ clock \in Int
  BY RadarBounds DEF TypeOK
<1>2. until \in Int /\ until <= LastMinute
  <2>1. LastMinute \in Int /\ clock - Lag \in Int /\ checkpoint.last + MaxBatches \in Int
    BY <1>1, RadarBounds
  <2> QED
    BY <2>1, LeastOfThree
<1> HIDE DEF until
<1>3. until > checkpoint.last
  BY DEF StartPass, until
<1>4. until \in 0..LastMinute
  BY <1>1, <1>2, <1>3, RadarBounds
<1> DEFINE r == [NoPass EXCEPT !.now = clock, !.at = checkpoint.last, !.until = until,
                    !.last = checkpoint.last, !.circuit = checkpoint.circuit]
<1>5. r \in Pass
  BY <1>1, <1>4, NoPassType DEF TypeOK, Pass
<1>6. pass' = [pass EXCEPT ![p] = NextStamp(r)]
  BY DEF StartPass, PassBecomes, until
<1> QED
  BY <1>3, <1>4, <1>5, <1>6

\* A pass at a minute is at one of GDELT's.
LEMMA AtAMinute ==
    ASSUME NEW r \in Pass, InOrder(r), r.pc \in {"toc", "ngrams", "keep"}
    PROVE  r.at \in Minutes
BY RadarBounds DEF InOrder, Pass, Minutes

\* What a step of a pass makes of it is a pass.
LEMMA PassTypeStep ==
    ASSUME IInv, NEW p \in Passes, PassStep(p)
    PROVE  pass' \in [Passes -> Pass]
<1>0. pass \in [Passes -> Pass] /\ pass[p] \in Pass /\ InOrder(pass[p])
  BY DEF IInv, TypeOK
<1>1. CASE StartPass(p)
  <2>1. TypeOK
    BY DEF IInv
  <2> QED
    BY <1>0, <1>1, <2>1, StartedType, NextStampType
<1>2. CASE DownloadToc(p)
  <2>1. [pass[p] EXCEPT !.pc = "ngrams"] \in Pass
    BY <1>0 DEF Pass
  <2> QED
    BY <1>0, <1>2, <2>1, MissingType DEF DownloadToc, PassBecomes
<1>3. CASE DownloadNgrams(p)
  <2>1. PassAt(p, "ngrams")
    BY <1>3 DEF DownloadNgrams
  <2>2. Matches[pass[p].at] \subseteq Articles
    BY <1>0, <2>1, AtAMinute, MatchesAreArticles DEF PassAt
  <2>3. [pass[p] EXCEPT !.pc = "keep", !.downloaded = TRUE,
             !.fresh = Matches[pass[p].at] \ items] \in Pass
    BY <1>0, <2>2 DEF Pass
  <2> QED
    BY <1>0, <1>3, <2>3, MissingType DEF DownloadNgrams, PassBecomes
<1>4. CASE NgramsError(p)
  BY <1>0, <1>4, PassedType DEF NgramsError, PassBecomes
<1>5. ASSUME NEW how \in {"trips", "harmless"}, DownloadFails(p, how)
      PROVE  pass' \in [Passes -> Pass]
  <2>1. [pass[p] EXCEPT !.pc = "end", !.failed = how] \in Pass
    BY <1>0 DEF Pass
  <2> QED
    BY <1>0, <1>5, <2>1 DEF DownloadFails, PassBecomes
<1>6. ASSUME NEW a \in Articles, KeepItem(p, a)
      PROVE  pass' \in [Passes -> Pass]
  <2>1. [pass[p] EXCEPT !.fresh = @ \ {a}] \in Pass
    BY <1>0 DEF Pass
  <2> QED
    BY <1>0, <1>6, <2>1 DEF KeepItem, PassBecomes
<1>7. CASE KeptAll(p)
  BY <1>0, <1>7, PassedType DEF KeptAll, PassBecomes
<1>8. CASE EndPass(p)
  BY <1>0, <1>8, NoPassType DEF EndPass, PassBecomes
<1>9. CASE Die(p)
  BY <1>0, <1>9, NoPassType DEF Die, PassBecomes
<1> QED
  BY <1>1, <1>2, <1>3, <1>4, <1>5, <1>6, <1>7, <1>8, <1>9 DEF PassStep

\* What a step of a pass leaves alone, or only adds to.
LEMMA PassFrame ==
    ASSUME NEW p \in Passes, PassStep(p)
    PROVE  /\ clock' = clock /\ files' = files
           /\ items' = items \/ \E a \in Articles : items' = items \cup {a}
           /\ faults' = faults \/ Fault
<1>1. CASE StartPass(p)
  BY <1>1 DEF StartPass
<1>2. CASE DownloadToc(p) \/ DownloadNgrams(p)
  BY <1>2 DEF DownloadToc, DownloadNgrams
<1>3. CASE NgramsError(p) \/ \E how \in {"trips", "harmless"} : DownloadFails(p, how)
  BY <1>3 DEF NgramsError, DownloadFails
<1>4. CASE (\E a \in Articles : KeepItem(p, a)) \/ KeptAll(p)
  BY <1>4 DEF KeepItem, KeptAll
<1>5. CASE EndPass(p) \/ Die(p)
  BY <1>5 DEF EndPass, Die
<1> QED
  BY <1>1, <1>2, <1>3, <1>4, <1>5 DEF PassStep

LEMMA TypeStep ==
    ASSUME IInv, [Next]_vars
    PROVE  TypeOK'
<1>0. TypeOK
  BY DEF IInv
<1>1. CASE Tick
  BY <1>0, <1>1, RadarBounds DEF Tick, TypeOK
<1>2. ASSUME NEW m \in Minutes, Publish(m)
      PROVE  TypeOK'
  BY <1>0, <1>2 DEF Publish, TypeOK
<1>3. ASSUME NEW p \in Passes, PassStep(p)
      PROVE  TypeOK'
  <2>1. pass' \in [Passes -> Pass]
    BY <1>3, PassTypeStep
  <2>2. clock' = clock /\ files' = files
    BY <1>3, PassFrame
  <2>3. items' \subseteq Articles
    BY <1>0, <1>3, PassFrame DEF TypeOK
  <2>4. refused' \subseteq Minutes
    <3>1. CASE NgramsError(p)
      BY <1>0, <3>1, AtAMinute DEF IInv, TypeOK, NgramsError, PassAt
    <3> QED
      BY <1>0, <1>3, <3>1 DEF TypeOK, PassStep, StartPass, DownloadToc, DownloadNgrams,
                              DownloadFails, KeepItem, KeptAll, EndPass, Die
  <2>5. faults' \in 0..MaxFaults
    BY <1>0, <1>3, PassFrame, RadarBounds DEF TypeOK, Fault
  <2>6. checkpoint' \in [last: 0..LastMinute, circuit: Circuits]
    <3>1. CASE EndPass(p)
      <4>1. pass[p] \in Pass
        BY <1>0 DEF TypeOK
      <4>2. Outcome(pass[p]) \in Circuits
        BY <4>1 DEF Outcome, Circuits, Pass
      <4> QED
        BY <3>1, <4>1, <4>2 DEF EndPass, Pass
    <3> QED
      BY <1>0, <1>3, <3>1 DEF TypeOK, PassStep, StartPass, DownloadToc, DownloadNgrams,
                              NgramsError, DownloadFails, KeepItem, KeptAll, Die
  <2> QED
    BY <1>0, <2>1, <2>2, <2>3, <2>4, <2>5, <2>6 DEF TypeOK
<1>4. CASE UNCHANGED vars
  BY <1>0, <1>4 DEF vars, TypeOK
<1> QED
  BY <1>1, <1>2, <1>3, <1>4 DEF Next

-----------------------------------------------------------------------------
(* What is settled stays settled                                           *)

LEMMA SettledStays ==
    ASSUME IInv, [Next]_vars, NEW m \in Minutes, Settled(m)
    PROVE  Settled(m)'
<1>0. TypeOK
  BY DEF IInv
<1>1. CASE Tick
  BY <1>0, <1>1, RadarBounds DEF Tick, Settled, TypeOK, Minutes
<1>2. ASSUME NEW k \in Minutes, Publish(k)
      PROVE  Settled(m)'
  <2>1. CASE k = m
    BY <1>0, <1>2, <2>1, RadarBounds DEF Publish, Settled, TypeOK, Minutes
  <2>2. CASE k # m
    BY <1>0, <1>2, <2>2 DEF Publish, Settled, TypeOK
  <2> QED
    BY <2>1, <2>2
<1>3. ASSUME NEW p \in Passes, PassStep(p)
      PROVE  Settled(m)'
  BY <1>3 DEF Settled, PassStep, StartPass, DownloadToc, DownloadNgrams, NgramsError,
              DownloadFails, KeepItem, KeptAll, EndPass, Die
<1>4. CASE UNCHANGED vars
  BY <1>4 DEF vars, Settled
<1> QED
  BY <1>1, <1>2, <1>3, <1>4 DEF Next

LEMMA SettledUpToStays ==
    ASSUME IInv, [Next]_vars, NEW n \in Int, SettledUpTo(n)
    PROVE  SettledUpTo(n)'
BY SettledStays DEF SettledUpTo, Minutes

\* One more minute settled.
LEMMA SettledOneMore ==
    ASSUME NEW n \in Int, SettledUpTo(n), n + 1 \in Minutes => Settled(n + 1)
    PROVE  SettledUpTo(n + 1)
BY RadarBounds DEF SettledUpTo, Minutes

\* Time, what was published and what was kept only grow.
LEMMA StepGrows ==
    ASSUME IInv, [Next]_vars
    PROVE  /\ clock <= clock' /\ items \subseteq items'
           /\ \A m \in Minutes : files[m] = "both" => files'[m] = "both"
<1>0. TypeOK
  BY DEF IInv
<1>1. CASE Tick
  BY <1>0, <1>1, RadarBounds DEF Tick, TypeOK
<1>2. ASSUME NEW k \in Minutes, Publish(k)
      PROVE  /\ clock <= clock' /\ items \subseteq items'
             /\ \A m \in Minutes : files[m] = "both" => files'[m] = "both"
  BY <1>0, <1>2, RadarBounds DEF Publish, TypeOK
<1>3. ASSUME NEW p \in Passes, PassStep(p)
      PROVE  /\ clock <= clock' /\ items \subseteq items'
             /\ \A m \in Minutes : files[m] = "both" => files'[m] = "both"
  BY <1>0, <1>3, PassFrame, RadarBounds DEF TypeOK
<1>4. CASE UNCHANGED vars
  BY <1>0, <1>4, RadarBounds DEF vars, TypeOK
<1> QED
  BY <1>1, <1>2, <1>3, <1>4 DEF Next

\* A pass that another step leaves alone stays in order.
LEMMA OrderStays ==
    ASSUME IInv, [Next]_vars, NEW r \in Pass, InOrder(r)
    PROVE  InOrder(r)'
<1>1. r.now \in Int /\ clock \in Int /\ clock' \in Int
  <2>1. TypeOK /\ TypeOK'
    BY TypeStep DEF IInv
  <2> QED
    BY <2>1, RadarBounds DEF TypeOK, Pass
<1>2. r.pc = "keep" => r.at \in Minutes
  BY AtAMinute
<1> QED
  BY <1>1, <1>2, StepGrows DEF InOrder

-----------------------------------------------------------------------------
(* A pass settles the minutes it passes                                    *)

\* What a minute that is passed owes: then the pass goes on in order.
LEMMA PassedGoesOn ==
    ASSUME NEW r \in Pass, InOrder(r), r.pc \in {"toc", "ngrams", "keep"},
           SettledUpTo(r.last), Settled(r.at)
    PROVE  SettledUpTo(Passed(r).last) /\ InOrder(Passed(r))
<1>1. r.at = r.last + 1 /\ r.last \in Int
  BY RadarBounds DEF InOrder, Pass
<1>2. SettledUpTo(r.at)
  BY <1>1, SettledOneMore
<1>3. Passed(r).last = r.at /\ InOrder(Passed(r))
  BY PassedType DEF InOrder
<1> QED
  BY <1>2, <1>3

\* A file that is missing is passed over only when it can come no more.
LEMMA MissingGoesOn ==
    ASSUME TypeOK, NEW r \in Pass, InOrder(r), r.pc \in {"toc", "ngrams"},
           SettledUpTo(r.last), files[r.at] # "both"
    PROVE  SettledUpTo(Missing(r).last) /\ InOrder(Missing(r))
<1>1. CASE Old(r)
  <2>1. clock \in Int /\ r.now \in Int /\ r.at \in Int /\ r.now <= clock
    BY RadarBounds DEF TypeOK, Pass, InOrder
  <2>2. clock > r.at + GapAfter
    BY <1>1, <2>1, RadarBounds DEF Old
  <2>3. Settled(r.at)
    BY <2>2 DEF Settled
  <2> QED
    BY <1>1, <2>3, PassedGoesOn DEF Missing
<1>2. CASE ~Old(r)
  BY <1>2 DEF Missing, InOrder, Pass
<1> QED
  BY <1>1, <1>2

\* It is enough that a pass is in order in the books as they were.
LEMMA OrderCarries ==
    ASSUME IInv, [Next]_vars, NEW r \in Pass, SettledUpTo(r.last), InOrder(r)
    PROVE  SettledUpTo(r.last)' /\ InOrder(r)'
<1>1. r.last \in Int
  BY RadarBounds DEF Pass
<1> QED
  BY <1>1, SettledUpToStays, OrderStays

\* What the pass that steps becomes.
LEMMA PassGoesOn ==
    ASSUME IInv, NEW p \in Passes, PassStep(p)
    PROVE  \E r \in Pass : pass' = [pass EXCEPT ![p] = r] /\ SettledUpTo(r.last)' /\ InOrder(r)'
\* The pass as it was.
<1>r. PICK r \in Pass : r = pass[p]
  BY DEF IInv, TypeOK
<1>0. /\ TypeOK /\ pass \in [Passes -> Pass] /\ r \in Pass /\ InOrder(r)
      /\ SettledUpTo(r.last) /\ SettledUpTo(checkpoint.last)
  BY <1>r DEF IInv, TypeOK
<1>s. [Next]_vars
  BY DEF Next
<1>m. r.pc \in {"toc", "ngrams", "keep"} => r.at \in Minutes
  BY <1>0, AtAMinute
\* It is enough that it is in order in the books as they were.
<1>k. ASSUME NEW q \in Pass, pass' = [pass EXCEPT ![p] = q], SettledUpTo(q.last), InOrder(q)
      PROVE  \E x \in Pass : pass' = [pass EXCEPT ![p] = x] /\ SettledUpTo(x.last)' /\ InOrder(x)'
  BY <1>s, <1>k, OrderCarries
<1>1. CASE StartPass(p)
  <2>1. PICK until \in 0..LastMinute :
              LET n == [NoPass EXCEPT !.now = clock, !.at = checkpoint.last, !.until = until,
                           !.last = checkpoint.last, !.circuit = checkpoint.circuit]
              IN  n \in Pass /\ until > checkpoint.last /\ pass' = [pass EXCEPT ![p] = NextStamp(n)]
    BY <1>0, <1>1, StartedType
  <2> DEFINE n == [NoPass EXCEPT !.now = clock, !.at = checkpoint.last, !.until = until,
                      !.last = checkpoint.last, !.circuit = checkpoint.circuit]
  <2>2. /\ n.now = clock /\ n.at = checkpoint.last /\ n.last = checkpoint.last
        /\ n.until = until /\ n \in Pass /\ pass' = [pass EXCEPT ![p] = NextStamp(n)]
    BY <2>1 DEF NoPass
  <2> HIDE DEF n
  <2>3. /\ NextStamp(n) \in Pass /\ NextStamp(n).last = checkpoint.last
        /\ NextStamp(n).now = clock /\ NextStamp(n).until = until
        /\ NextStamp(n).pc \in {"toc", "end"}
        /\ NextStamp(n).pc = "toc" => NextStamp(n).at = checkpoint.last + 1
    BY <2>2, NextStampType
  <2>4. checkpoint.last \in Int /\ clock \in Int
    BY <1>0, RadarBounds DEF TypeOK
  <2>5. InOrder(NextStamp(n))
    BY <2>1, <2>3, <2>4 DEF InOrder
  <2> QED
    BY <1>0, <1>k, <2>2, <2>3, <2>5
<1>2. CASE DownloadToc(p)
  <2>1. PassAt(p, "toc") /\ r.pc = "toc"
    BY <1>r, <1>2 DEF DownloadToc, PassAt
  <2>2. CASE files[r.at] = "none"
    <3>1. pass' = [pass EXCEPT ![p] = Missing(r)]
      BY <1>r, <1>2, <2>2 DEF DownloadToc, PassBecomes
    <3>2. SettledUpTo(Missing(r).last) /\ InOrder(Missing(r))
      BY <1>0, <2>1, <2>2, MissingGoesOn
    <3> QED
      BY <1>0, <1>k, <3>1, <3>2, MissingType
  <2>3. CASE files[r.at] # "none"
    <3> DEFINE q == [r EXCEPT !.pc = "ngrams"]
    <3>1. pass' = [pass EXCEPT ![p] = q]
      BY <1>r, <1>2, <2>3 DEF DownloadToc, PassBecomes
    <3>2. q \in Pass /\ q.last = r.last /\ InOrder(q)
      BY <1>0, <2>1 DEF Pass, InOrder
    <3> QED
      BY <1>0, <1>k, <3>1, <3>2
  <2> QED
    BY <2>2, <2>3
<1>3. CASE DownloadNgrams(p)
  <2>1. r.pc = "ngrams"
    BY <1>r, <1>3 DEF DownloadNgrams, PassAt
  <2>2. CASE files[r.at] # "both"
    <3>1. pass' = [pass EXCEPT ![p] = Missing(r)]
      BY <1>r, <1>3, <2>2 DEF DownloadNgrams, PassBecomes
    <3>2. SettledUpTo(Missing(r).last) /\ InOrder(Missing(r))
      BY <1>0, <2>1, <2>2, MissingGoesOn
    <3> QED
      BY <1>0, <1>k, <3>1, <3>2, MissingType
  <2>3. CASE files[r.at] = "both"
    <3> DEFINE q == [r EXCEPT !.pc = "keep", !.downloaded = TRUE, !.fresh = Matches[r.at] \ items]
    <3>1. pass' = [pass EXCEPT ![p] = q]
      BY <1>r, <1>3, <2>3 DEF DownloadNgrams, PassBecomes
    <3>2. Matches[r.at] \subseteq Articles
      BY <1>m, <2>1, MatchesAreArticles
    <3>3. /\ q \in Pass /\ q.last = r.last /\ q.now = r.now /\ q.at = r.at /\ q.until = r.until
          /\ q.fresh = Matches[r.at] \ items
      BY <1>0, <3>2 DEF Pass
    <3> HIDE DEF q
    <3>4. InOrder(q)
      BY <1>0, <2>1, <2>3, <3>3 DEF InOrder
    <3> QED
      BY <1>0, <1>k, <3>1, <3>3, <3>4
  <2> QED
    BY <2>2, <2>3
<1>4. CASE NgramsError(p)
  <2>1. /\ r.pc = "ngrams" /\ pass' = [pass EXCEPT ![p] = Passed(r)]
        /\ refused' = refused \cup {r.at}
    BY <1>r, <1>4 DEF NgramsError, PassAt, PassBecomes
  <2>2. SettledUpTo(r.last)' /\ InOrder(r)'
    BY <1>0, <1>s, OrderCarries
  <2>3. Settled(r.at)'
    BY <2>1 DEF Settled
  <2>4. r.at = r.last + 1 /\ r.last \in Int
    BY <1>0, <2>1, RadarBounds DEF InOrder, Pass
  <2>5. SettledUpTo(r.at)'
    BY <2>2, <2>3, <2>4, RadarBounds DEF SettledUpTo, Minutes
  <2>6. Passed(r).last = r.at /\ InOrder(Passed(r))' /\ Passed(r) \in Pass
    BY <1>0, <2>2, PassedType DEF InOrder
  <2> QED
    BY <2>1, <2>5, <2>6
<1>5. ASSUME NEW how \in {"trips", "harmless"}, DownloadFails(p, how)
      PROVE  \E x \in Pass : pass' = [pass EXCEPT ![p] = x] /\ SettledUpTo(x.last)' /\ InOrder(x)'
  <2> DEFINE q == [r EXCEPT !.pc = "end", !.failed = how]
  <2>1. pass' = [pass EXCEPT ![p] = q]
    BY <1>r, <1>5 DEF DownloadFails, PassBecomes
  <2>2. q \in Pass /\ q.last = r.last /\ InOrder(q)
    BY <1>0 DEF Pass, InOrder
  <2> QED
    BY <1>0, <1>k, <2>1, <2>2
<1>6. ASSUME NEW a \in Articles, KeepItem(p, a)
      PROVE  \E x \in Pass : pass' = [pass EXCEPT ![p] = x] /\ SettledUpTo(x.last)' /\ InOrder(x)'
  <2> DEFINE q == [r EXCEPT !.fresh = @ \ {a}]
  <2>1. /\ pass' = [pass EXCEPT ![p] = q] /\ items' = items \cup {a} /\ files' = files
        /\ clock' = clock /\ r.pc = "keep"
    BY <1>r, <1>6 DEF KeepItem, PassBecomes, PassAt
  <2>2. /\ q \in Pass /\ q.last = r.last /\ q.now = r.now /\ q.at = r.at /\ q.until = r.until
        /\ q.pc = "keep" /\ q.fresh = r.fresh \ {a}
    BY <1>0, <2>1 DEF Pass
  <2> HIDE DEF q
  <2>3. InOrder(q)'
    BY <1>0, <2>1, <2>2 DEF InOrder
  <2>4. SettledUpTo(r.last)'
    BY <1>0, <1>s, OrderCarries
  <2> QED
    BY <2>1, <2>2, <2>3, <2>4
<1>7. CASE KeptAll(p)
  <2>1. r.pc = "keep" /\ r.fresh = {} /\ pass' = [pass EXCEPT ![p] = Passed(r)]
    BY <1>r, <1>7 DEF KeptAll, PassAt, PassBecomes
  <2>2. Settled(r.at)
    BY <1>0, <2>1 DEF InOrder, Settled
  <2>3. SettledUpTo(Passed(r).last) /\ InOrder(Passed(r))
    BY <1>0, <2>1, <2>2, PassedGoesOn
  <2> QED
    BY <1>0, <1>k, <2>1, <2>3, PassedType
<1>8. CASE EndPass(p) \/ Die(p)
  <2>1. pass' = [pass EXCEPT ![p] = NoPass]
    BY <1>r, <1>8 DEF EndPass, Die, PassBecomes
  <2>2. SettledUpTo(NoPass.last) /\ InOrder(NoPass)
    BY <1>0, RadarBounds DEF SettledUpTo, InOrder, NoPass, TypeOK, Minutes
  <2> QED
    BY <1>k, <2>1, <2>2, NoPassType
<1> QED
  BY <1>1, <1>2, <1>3, <1>4, <1>5, <1>6, <1>7, <1>8 DEF PassStep

-----------------------------------------------------------------------------
(* The inductive invariant                                                 *)

LEMMA IInvInit == Init => IInv
<1> SUFFICES ASSUME Init PROVE IInv
  OBVIOUS
<1>1. pass \in [Passes -> Pass]
  BY NoPassType DEF Init
<1>2. TypeOK
  BY <1>1, RadarBounds DEF Init, TypeOK, Circuits
<1>3. SettledUpTo(0)
  BY DEF SettledUpTo, Minutes
<1> QED
  BY <1>2, <1>3, RadarBounds DEF Init, IInv, InOrder, NoPass

LEMMA IInvStep == IInv /\ [Next]_vars => IInv'
<1> SUFFICES ASSUME IInv, [Next]_vars PROVE IInv'
  OBVIOUS
<1>0. TypeOK /\ TypeOK'
  BY TypeStep DEF IInv
<1>1. checkpoint.last \in Int
  BY <1>0, RadarBounds DEF TypeOK
<1>2. SettledUpTo(checkpoint.last)'
  <2>1. CASE checkpoint' = checkpoint
    BY <1>1, <2>1, SettledUpToStays DEF IInv, SettledUpTo, Settled
  <2>2. CASE \E p \in Passes : EndPass(p)
    <3>1. PICK p \in Passes : EndPass(p)
      BY <2>2
    <3>2. PICK r \in Pass : r = pass[p]
      BY <1>0 DEF TypeOK
    <3>3. SettledUpTo(r.last) /\ r.last \in Int /\ checkpoint'.last = r.last
      BY <3>1, <3>2, RadarBounds DEF IInv, Pass, EndPass
    <3>4. SettledUpTo(r.last)'
      BY <3>3, SettledUpToStays
    <3> QED
      BY <3>3, <3>4 DEF SettledUpTo
  <2> QED
    BY <2>1, <2>2 DEF Next, Tick, Publish, vars, PassStep, StartPass, DownloadToc, DownloadNgrams,
                      NgramsError, DownloadFails, KeepItem, KeptAll, Die
<1>3. ASSUME NEW q \in Passes
      PROVE  (SettledUpTo(pass[q].last) /\ InOrder(pass[q]))'
  <2>0. pass[q] \in Pass /\ SettledUpTo(pass[q].last) /\ InOrder(pass[q])
    BY <1>0 DEF IInv, TypeOK
  <2>1. CASE pass'[q] = pass[q]
    <3>1. \A r \in Pass : SettledUpTo(r.last) /\ InOrder(r) => SettledUpTo(r.last)' /\ InOrder(r)'
      BY OrderCarries
    <3> QED
      BY <2>0, <2>1, <3>1
  <2>2. ASSUME NEW p \in Passes, PassStep(p)
        PROVE  (SettledUpTo(pass[q].last) /\ InOrder(pass[q]))'
    <3>1. PICK r \in Pass : /\ pass' = [pass EXCEPT ![p] = r]
                             /\ SettledUpTo(r.last)' /\ InOrder(r)'
      BY <2>2, PassGoesOn
    <3>2. CASE p = q
      BY <1>0, <3>1, <3>2 DEF TypeOK
    <3>3. CASE p # q
      BY <1>0, <2>1, <3>1, <3>3 DEF TypeOK
    <3> QED
      BY <3>2, <3>3
  <2> QED
    BY <2>1, <2>2 DEF Next, Tick, Publish, vars
<1> QED
  BY <1>0, <1>2, <1>3 DEF IInv

-----------------------------------------------------------------------------
(* The theorems                                                            *)

\* The checkpoint, the passes and what was kept are what they should be.
THEOREM RadarTypes == Spec => []TypeOK
<1>1. IInv => TypeOK
  BY DEF IInv
<1> QED
  BY <1>1, IInvInit, IInvStep, PTL DEF Spec

\* However passes overlap, fail and die, the checkpoint passes over no minute
\* that was published and not refused.
THEOREM RadarKeepsWhatItPasses == Spec => []NothingPassedOver
<1>1. IInv => NothingPassedOver
  BY DEF IInv, NothingPassedOver, SettledUpTo, Settled
<1> QED
  BY <1>1, IInvInit, IInvStep, PTL DEF Spec
=============================================================================
