------------------------------ MODULE GdeltRadar ------------------------------
(***************************************************************************)
(* The GDELT radar job (services/jobs/src/gdelt-radar.ts): every pass lists *)
(* the minutes after the checkpoint, downloads each one's two files, keeps  *)
(* the articles that match, and writes the checkpoint at its end.  The      *)
(* scheduler starts a pass whether or not the last one has ended, and a     *)
(* pass by hand runs in a process of its own.                               *)
(*                                                                         *)
(* Minutes are numbers, counted from the checkpoint the model starts with.  *)
(* GDELT publishes a minute's list of articles (toc) and their words        *)
(* (ngrams), or leaves a gap.                                               *)
(***************************************************************************)
EXTENDS Integers, FiniteSets

CONSTANTS
    Passes,           \* passes that may be under way at once
    Articles,         \* article URLs
    Matches,          \* per minute: the articles the watch terms match
    LastMinute,       \* bound: minutes GDELT publishes
    Lag,              \* PUBLISH_LAG_MINUTES
    GapAfter,         \* GAP_AFTER_MINUTES
    MaxBatches,       \* MAX_BATCHES_PER_RUN
    MaxFaults         \* bound: downloads that fail and passes that die

Minutes == 1..LastMinute

ASSUME RadarBounds ==
    /\ {LastMinute, Lag, GapAfter, MaxBatches, MaxFaults} \subseteq Nat
    /\ MaxBatches > 0
ASSUME MatchesAreArticles == Matches \in [Minutes -> SUBSET Articles]

VARIABLES
    clock,            \* the minute it is
    files,            \* what GDELT has published of each minute
    checkpoint,       \* gdelt-v5-checkpoint.json: lastStamp and circuit
    items,            \* vault_signals.source_item of the radar
    pass,             \* passes under way
    refused,          \* minutes whose ngrams file was answered with an error but 404
    faults

vars == <<clock, files, checkpoint, items, pass, refused, faults>>

Circuits == {"closed", "degraded", "open"}

\* now is read once, when the pass starts; at is the minute it looks at, until
\* the last one it will; failed is what a failure does to the circuit.
Pass == [pc: {"idle", "toc", "ngrams", "keep", "end"},
         now: 0..(LastMinute + Lag + GapAfter + 1), at: 0..LastMinute, until: 0..LastMinute,
         last: 0..LastMinute, circuit: Circuits, fresh: SUBSET Articles,
         downloaded: BOOLEAN, failed: {"no", "trips", "harmless"}]

NoPass == [pc |-> "idle", now |-> 0, at |-> 0, until |-> 0, last |-> 0, circuit |-> "closed",
           fresh |-> {}, downloaded |-> FALSE, failed |-> "no"]

TypeOK ==
    /\ clock \in 0..(LastMinute + Lag + GapAfter + 1)
    /\ files \in [Minutes -> {"none", "toc", "both"}]
    /\ checkpoint \in [last: 0..LastMinute, circuit: Circuits]
    /\ items \subseteq Articles
    /\ pass \in [Passes -> Pass]
    /\ refused \subseteq Minutes
    /\ faults \in 0..MaxFaults

Init ==
    /\ clock = 0
    /\ files = [m \in Minutes |-> "none"]
    /\ checkpoint = [last |-> 0, circuit |-> "closed"]
    /\ items = {}
    /\ pass = [p \in Passes |-> NoPass]
    /\ refused = {}
    /\ faults = 0

-----------------------------------------------------------------------------
(* Time and GDELT                                                          *)

Tick ==
    /\ clock < LastMinute + Lag + GapAfter + 1
    /\ clock' = clock + 1
    /\ UNCHANGED <<files, checkpoint, items, pass, refused, faults>>

\* "older than 30 minutes is a gap GDELT never filled"
Publish(m) ==
    /\ m <= clock /\ clock <= m + GapAfter
    /\ files[m] # "both"
    /\ files' = [files EXCEPT ![m] = IF @ = "none" THEN "toc" ELSE "both"]
    /\ UNCHANGED <<clock, checkpoint, items, pass, refused, faults>>

-----------------------------------------------------------------------------
(* A pass: runGdeltRadar                                                   *)

PassBecomes(p, next) == pass' = [pass EXCEPT ![p] = next]

PassAt(p, pc) == pass[p].pc = pc

Fault == faults < MaxFaults /\ faults' = faults + 1

Least(S) == CHOOSE x \in S : \A y \in S : x <= y

\* Mutant: one minute too many.
NextStampPast(r) ==
    IF r.at <= r.until THEN [r EXCEPT !.pc = "toc", !.at = @ + 1] ELSE [r EXCEPT !.pc = "end"]

\* The minute that follows, or the end of the pass.
NextStamp(r) ==
    IF r.at < r.until THEN [r EXCEPT !.pc = "toc", !.at = @ + 1] ELSE [r EXCEPT !.pc = "end"]

\* lastStamp moves over the minute: it was kept, or is taken for a gap.
Passed(r) == NextStamp([r EXCEPT !.last = r.at])

\* readCheckpoint and minuteStamps
StartPass(p) ==
    LET until == Least({LastMinute, clock - Lag, checkpoint.last + MaxBatches})
    IN  /\ PassAt(p, "idle") /\ until > checkpoint.last
        /\ PassBecomes(p, NextStamp([NoPass EXCEPT !.now = clock, !.at = checkpoint.last,
               !.until = until, !.last = checkpoint.last, !.circuit = checkpoint.circuit]))
        /\ UNCHANGED <<clock, files, checkpoint, items, refused, faults>>

Old(r) == r.now - r.at > GapAfter

\* Mutant: what is not there is a gap.
MissingPassed(r) == Passed(r)

\* 404: a gap if the minute is old, else the next pass looks again.
Missing(r) == IF Old(r) THEN Passed(r) ELSE [r EXCEPT !.pc = "end"]

DownloadToc(p) ==
    LET r == pass[p]
    IN  /\ PassAt(p, "toc")
        /\ PassBecomes(p, IF files[r.at] = "none" THEN Missing(r) ELSE [r EXCEPT !.pc = "ngrams"])
        /\ UNCHANGED <<clock, files, checkpoint, items, refused, faults>>

\* What is known already is not kept again.
DownloadNgrams(p) ==
    LET r == pass[p]
    IN  /\ PassAt(p, "ngrams")
        /\ PassBecomes(p,
               IF files[r.at] = "both"
               THEN [r EXCEPT !.pc = "keep", !.downloaded = TRUE,
                              !.fresh = Matches[r.at] \ items]
               ELSE Missing(r))
        /\ UNCHANGED <<clock, files, checkpoint, items, refused, faults>>

\* Any answer but 404 is taken for a gap, however recent the minute is.
NgramsError(p) ==
    /\ PassAt(p, "ngrams")
    /\ Fault
    /\ PassBecomes(p, Passed(pass[p]))
    /\ refused' = refused \cup {pass[p].at}
    /\ UNCHANGED <<clock, files, checkpoint, items>>

\* The request fails, or the list is answered with an error: the pass ends.
DownloadFails(p, how) ==
    /\ PassAt(p, "toc") \/ PassAt(p, "ngrams")
    /\ Fault
    /\ PassBecomes(p, [pass[p] EXCEPT !.pc = "end", !.failed = how])
    /\ UNCHANGED <<clock, files, checkpoint, items, refused>>

\* keepMatches: one source_item after the other, each committed by itself.
KeepItem(p, a) ==
    /\ PassAt(p, "keep") /\ a \in pass[p].fresh
    /\ items' = items \cup {a}
    /\ PassBecomes(p, [pass[p] EXCEPT !.fresh = @ \ {a}])
    /\ UNCHANGED <<clock, files, checkpoint, refused, faults>>

KeptAll(p) ==
    /\ PassAt(p, "keep") /\ pass[p].fresh = {}
    /\ PassBecomes(p, Passed(pass[p]))
    /\ UNCHANGED <<clock, files, checkpoint, items, refused, faults>>

\* recordOutcome: the second failure in a row opens the circuit.
Outcome(r) ==
    CASE r.failed = "trips" -> IF r.circuit = "closed" THEN "degraded" ELSE "open"
      [] r.failed = "no" /\ r.downloaded -> "closed"
      [] OTHER -> r.circuit

EndPass(p) ==
    /\ PassAt(p, "end")
    /\ checkpoint' = [last |-> pass[p].last, circuit |-> Outcome(pass[p])]
    /\ PassBecomes(p, NoPass)
    /\ UNCHANGED <<clock, files, items, refused, faults>>

\* Mutant: the checkpoint is written before the matches are kept.
DieAhead(p) ==
    /\ ~PassAt(p, "idle") /\ Fault
    /\ checkpoint' = [checkpoint EXCEPT !.last = pass[p].at]
    /\ PassBecomes(p, NoPass)
    /\ UNCHANGED <<clock, files, items, refused>>

\* A file that does not parse, a statement that throws (as the insert of what
\* another pass has just inserted), or the process ends: no checkpoint is written.
Die(p) ==
    /\ ~PassAt(p, "idle") /\ Fault
    /\ PassBecomes(p, NoPass)
    /\ UNCHANGED <<clock, files, checkpoint, items, refused>>

-----------------------------------------------------------------------------
PassStep(p) ==
    \/ StartPass(p) \/ DownloadToc(p) \/ DownloadNgrams(p) \/ NgramsError(p)
    \/ \E how \in {"trips", "harmless"} : DownloadFails(p, how)
    \/ \E a \in Articles : KeepItem(p, a)
    \/ KeptAll(p) \/ EndPass(p) \/ Die(p)

Next == Tick \/ (\E m \in Minutes : Publish(m)) \/ (\E p \in Passes : PassStep(p))

\* The timer starts passes on and on, and a pass goes on; MaxFaults bounds what
\* fails.
Fairness ==
    /\ WF_vars(Tick) /\ WF_vars(\E p \in Passes : StartPass(p))
    /\ \A p \in Passes :
          /\ WF_vars(EndPass(p)) /\ WF_vars(KeptAll(p))
          /\ WF_vars(\E a \in Articles : KeepItem(p, a))
          /\ WF_vars(DownloadToc(p)) /\ WF_vars(DownloadNgrams(p))

Spec == Init /\ [][Next]_vars

FairSpec == Spec /\ Fairness

-----------------------------------------------------------------------------
(* Properties                                                              *)

\* "autocommit, so the checkpoint never runs ahead of the database", and only a
\* minute GDELT never filled or refused to give is passed over: whatever the
\* checkpoint is past was kept if it was published, with passes that overlap,
\* fail and die.
NothingPassedOver ==
    \A m \in Minutes :
        m <= checkpoint.last /\ files[m] = "both" /\ m \notin refused => Matches[m] \subseteq items

\* "a missing recent one ends the run so the next run retries it": whatever is
\* published in time and not refused is kept some day.
PublishedIsKept ==
    \A m \in Minutes : files[m] = "both" ~> Matches[m] \subseteq items \/ m \in refused
=============================================================================
