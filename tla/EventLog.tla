------------------------------ MODULE EventLog ------------------------------
(***************************************************************************)
(* The durable log file of the desktop app: append, then retention by age  *)
(* and size, with the file written in place.  events.log, the rolling      *)
(* telemetry, the agent-session log and the scrubbing log share this code, *)
(* each with its own copy; one writer is modelled, and a crash at every    *)
(* point between two system calls.                                         *)
(*                                                                         *)
(* A file is a sequence of lines and a flag that says whether the last     *)
(* line is terminated.  A line is the sequence of entries glued together   *)
(* in it: it parses exactly when that is one entry.  Every entry has the   *)
(* same size, so the limit of 10MB is a number of entries.                 *)
(***************************************************************************)
EXTENDS Sequences, SequencesExt, Ordering

CONSTANTS
    MaxAge,     \* MAX_AGE_DAYS
    MaxEntries, \* MAX_BYTES, in entries
    MaxTime,    \* bound: the clock stops here
    MaxAppends, \* bound: appends begun
    MaxCrashes  \* bound: crashes

ASSUME LimitsAssumption ==
    {MaxAge, MaxTime, MaxAppends, MaxCrashes} \subseteq Nat /\ MaxEntries \in Nat \ {0}

VARIABLES
    lines,      \* the file's lines
    terminated, \* the file is empty or ends in a newline
    clock,
    pc,         \* the system call append makes next
    entry,      \* the entry being appended, or appended last
    kept,       \* the entries rotate_retention decided to keep
    appends,    \* appends begun
    crashes,
    logged,     \* history: the entries whose append returned Ok
    before,     \* history: the readable entries when the last append began
    clean       \* history: the last append began on a terminated file and returned Ok

file == <<lines, terminated>>
vars == <<file, clock, pc, entry, kept, appends, crashes, logged, before, clean>>

NoEntry == [id |-> 0, at |-> 0]
Entry == [id : Nat, at : Nat]

-----------------------------------------------------------------------------
(* What a reader of the file sees, and what retention keeps of it. *)

\* Lines that do not parse are skipped.
Readable == LET parsed == Selected(lines, {i \in DOMAIN lines : Len(lines[i]) = 1})
            IN [k \in DOMAIN parsed |-> parsed[k][1]]

IsRecent(e) == e.at >= clock - MaxAge

Recent(s) == Selected(s, {i \in DOMAIN s : IsRecent(s[i])})

\* with_ts is sorted by timestamp, and the sort is stable.
Sooner(s) == {r \in (DOMAIN s) \X (DOMAIN s) :
                s[r[1]].at < s[r[2]].at \/ (s[r[1]].at = s[r[2]].at /\ r[1] < r[2])}
ByTime(s) == LET order == Arranged(DOMAIN s, Sooner(s)) IN [k \in DOMAIN order |-> s[order[k]]]

\* Fault: the size limit drops the newest entries.
Oldest(s, n) == IF Len(s) <= n THEN s ELSE SubSeq(s, 1, n)

\* Fault: the size is compared before the last entry is counted.
NewestAndOne(s, n) ==
    IF Len(s) <= n + 1 THEN s ELSE SubSeq(s, Len(s) - n, Len(s))

\* The kept lines are collected from the newest back, then reversed.
Newest(s, n) == IF Len(s) <= n THEN s ELSE SubSeq(s, Len(s) - n + 1, Len(s))

\* Fault: the lines are not put back in order after the size cut (kept.reverse()).
RetainedNewestFirst == Reverse(Newest(ByTime(Recent(Readable)), MaxEntries))

\* rotate_retention: parse, drop what is too old, sort, keep the newest that fit.
Retained == Newest(ByTime(Recent(Readable)), MaxEntries)

-----------------------------------------------------------------------------
Init ==
    /\ lines = <<>>
    /\ terminated = TRUE
    /\ clock = 0
    /\ pc = "idle"
    /\ entry = NoEntry
    /\ kept = <<>>
    /\ appends = 0
    /\ crashes = 0
    /\ logged = <<>>
    /\ before = <<>>
    /\ clean = FALSE

\* The entry is stamped and the file opened for append.
Begin ==
    /\ pc = "idle"
    /\ appends < MaxAppends
    /\ appends' = appends + 1
    /\ entry' = [id |-> appends', at |-> clock]
    /\ before' = Readable
    /\ clean' = terminated
    /\ pc' = "line"
    /\ UNCHANGED <<file, clock, kept, crashes, logged>>

\* writeln! writes the text, then the newline: text that follows an
\* unterminated line continues it.
WriteLine ==
    /\ pc = "line"
    /\ lines' = IF terminated THEN Append(lines, <<entry>>)
                ELSE [lines EXCEPT ![Len(lines)] = Append(@, entry)]
    /\ terminated' = FALSE
    /\ pc' = "newline"
    /\ UNCHANGED <<clock, entry, kept, appends, crashes, logged, before, clean>>

WriteNewline ==
    /\ pc = "newline"
    /\ terminated' = TRUE
    /\ pc' = "read"
    /\ UNCHANGED <<lines, clock, entry, kept, appends, crashes, logged, before, clean>>

ReadForRotation ==
    /\ pc = "read"
    /\ kept' = Retained
    /\ pc' = "truncate"
    /\ UNCHANGED <<file, clock, entry, appends, crashes, logged, before, clean>>

\* std::fs::write truncates the file before it writes.
Truncate ==
    /\ pc = "truncate"
    /\ lines' = <<>>
    /\ terminated' = TRUE
    /\ pc' = "write"
    /\ UNCHANGED <<clock, entry, kept, appends, crashes, logged, before, clean>>

\* kept.join("\n"): a newline between the lines and none after the last.
WriteKept ==
    /\ pc = "write"
    /\ lines' = [i \in DOMAIN kept |-> <<kept[i]>>]
    /\ terminated' = (kept = <<>>)
    /\ logged' = Append(logged, entry)
    /\ pc' = "idle"
    /\ UNCHANGED <<clock, entry, kept, appends, crashes, before, clean>>

\* The process dies between two system calls; what was written stays.
Crash ==
    /\ pc # "idle"
    /\ crashes < MaxCrashes
    /\ crashes' = crashes + 1
    /\ pc' = "idle"
    /\ clean' = FALSE
    /\ UNCHANGED <<file, clock, entry, kept, appends, logged, before>>

Tick ==
    /\ clock < MaxTime
    /\ clock' = clock + 1
    /\ UNCHANGED <<file, pc, entry, kept, appends, crashes, logged, before, clean>>

Next ==
    \/ Begin \/ WriteLine \/ WriteNewline \/ ReadForRotation \/ Truncate \/ WriteKept
    \/ Crash \/ Tick

Spec == Init /\ [][Next]_vars

-----------------------------------------------------------------------------
\* The shape of the file and of the writer's progress.
TypeOK ==
    /\ lines \in Seq(Seq(Entry))
    /\ terminated \in BOOLEAN
    /\ clock \in 0 .. MaxTime
    /\ pc \in {"idle", "line", "newline", "read", "truncate", "write"}
    /\ entry \in Entry
    /\ kept \in Seq(Entry)
    /\ appends \in 0 .. MaxAppends
    /\ crashes \in 0 .. MaxCrashes
    /\ logged \in Seq(Entry)
    /\ before \in Seq(Entry)
    /\ clean \in BOOLEAN

\* The file never shows an entry twice, nor out of the order the entries were
\* stamped in, whatever crashes came between.
ReadableInOrder ==
    LET s == Readable IN
    \A i, j \in DOMAIN s : i < j => s[i].id < s[j].id /\ s[i].at <= s[j].at

\* The last append that began has returned.
Completed == pc = "idle" /\ logged # <<>> /\ Last(logged) = entry

\* Once the last append has returned, the file is within its size limit, and holds nothing
\* older than the limit was when the entry was stamped, also when the append began on a file
\* without a final newline, as every rotation leaves it, or after a crash.
WithinLimits ==
    Completed =>
        /\ Len(lines) <= MaxEntries
        /\ \A i \in DOMAIN lines : \A k \in DOMAIN lines[i] : lines[i][k].at >= entry.at - MaxAge

\* An append that begins on a terminated file keeps its entry, as the file's
\* last line, and drops of the entries that were readable only those that are
\* too old or have MaxEntries newer ones in the file.
CleanAppendRetains ==
    (pc = "idle" /\ clean) =>
        LET now == Readable IN
        /\ IsRecent(entry) => now # <<>> /\ Last(now) = entry
        /\ \A i \in DOMAIN before :
             \/ before[i] \in ToSet(now)
             \/ ~IsRecent(before[i])
             \/ Len(now) = MaxEntries /\ \A k \in DOMAIN now : now[k].id > before[i].id

\* "durable history is always read from this file", which keeps "entries for at
\* least 30 days or up to 10MB": an entry that was logged can be read until it
\* is too old or MaxEntries later ones were logged.
LoggedEntriesKept ==
    pc = "idle" =>
        \A i \in DOMAIN logged :
            \/ logged[i] \in ToSet(Readable)
            \/ ~IsRecent(logged[i])
            \/ Len(logged) - i >= MaxEntries
=============================================================================
