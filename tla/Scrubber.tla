------------------------------ MODULE Scrubber ------------------------------
(***************************************************************************)
(* The scrubbing of a payload before a language-model call: the classifier *)
(* of data_sensitivity.rs, which merges the spans its rules found and      *)
(* masks them, and the verdict of scrub_for_llm_call_audit, which          *)
(* cmd_scrub_payload_for_llm returns and logs.                             *)
(*                                                                         *)
(* The payload is its positions; the regular expressions of the rules are  *)
(* external and may find any spans in it, those of one rule disjoint.  The *)
(* paths that are abbreviated after the masking are left in place here:    *)
(* they matter for the length that is compared with the original one.      *)
(***************************************************************************)
EXTENDS Sequences, SequencesExt, FiniteSetsExt, Ordering

CONSTANTS
    SensitivityRule,           \* the rules, numbered in the order in which they run
    LevelOf,        \* their SensitivityLevel: 1 medium, 2 high
    NeverSendRule,  \* those whose kind is in NEVER_SEND_FINDING_KINDS
    PayloadLength,
    PlaceholderLength,  \* of "[REDACTED: kind]"
    MaxFindings     \* bound: findings in one payload

ASSUME ScrubAssumption ==
    /\ SensitivityRule \subseteq Nat
    /\ LevelOf \in [SensitivityRule -> Nat]
    /\ {PayloadLength, PlaceholderLength, MaxFindings} \subseteq Nat

VARIABLE scrub      \* the last payload scrubbed, with its verdict

Finding == {f \in [start : 0..PayloadLength, end : 0..PayloadLength, rule : SensitivityRule] :
               f.start < f.end}

Disjoint(f, g) == f.end <= g.start \/ g.end <= f.start

\* What the rules can find: find_iter never returns overlapping matches of one rule.
Findings ==
    {fs \in {{}} \union {Range(s) : s \in [1..MaxFindings -> Finding]} :
        \A f, g \in fs : f # g /\ f.rule = g.rule => Disjoint(f, g)}

\* By start, then the higher level first, then in the order the rules ran.
Before(f, g) ==
    \/ f.start < g.start
    \/ f.start = g.start /\ LevelOf[f.rule] > LevelOf[g.rule]
    \/ f.start = g.start /\ LevelOf[f.rule] = LevelOf[g.rule] /\ f.rule <= g.rule

Sorted(fs) == Arranged(fs, {r \in fs \X fs : Before(r[1], r[2])})

\* Fault: the merged span ends where the later finding ends.
MergedAtLaterEnd(last, f) ==
    [last EXCEPT !.end = f.end,
                 !.rule = IF LevelOf[f.rule] > LevelOf[@] THEN f.rule ELSE @]

\* Two spans that overlap or touch: one span, of the higher level.
MergedWith(last, f) ==
    [last EXCEPT !.end = Max({@, f.end}),
                 !.rule = IF LevelOf[f.rule] > LevelOf[@] THEN f.rule ELSE @]

\* merge_overlapping_spans
Merge(merged, f) ==
    IF merged # <<>> /\ f.start <= Last(merged).end
    THEN [merged EXCEPT ![Len(merged)] = MergedWith(@, f)]
    ELSE Append(merged, f)

MergedSpans(items) ==
    LET merged[i \in 0 .. Len(items)] == IF i = 0 THEN <<>> ELSE Merge(merged[i - 1], items[i])
    IN merged[Len(items)]

Covers(g, f) ==
    f.start >= g.start /\ f.end <= g.end /\ LevelOf[g.rule] >= LevelOf[f.rule]

\* dedup_contained: sorting them once more changes nothing, since merged spans are apart.
Dedup(out, f) ==
    IF \E i \in DOMAIN out : Covers(out[i], f) THEN out ELSE Append(out, f)

Deduped(items) ==
    LET out[i \in 0 .. Len(items)] == IF i = 0 THEN <<>> ELSE Dedup(out[i - 1], items[i])
    IN out[Len(items)]

Masked(fs) == Deduped(MergedSpans(Sorted(fs)))

Hidden == 0
Placeholder == [i \in 1..PlaceholderLength |-> Hidden]

\* apply_masking, from the last finding to the first, so that the spans stay valid.
Replace(f, out) ==
    IF f.start < Len(out) /\ f.end <= Len(out)
    THEN SubSeq(out, 1, f.start) \o Placeholder \o SubSeq(out, f.end + 1, Len(out))
    ELSE out

Payload == [i \in 1..PayloadLength |-> i]

Replaced(items) ==
    LET n == Len(items)
        out[i \in 0 .. n] == IF i = 0 THEN Payload ELSE Replace(items[n + 1 - i], out[i - 1])
    IN out[n]

MaskedContent(fs) == Replaced(Masked(fs))

Shown(content) == {i \in DOMAIN content : content[i] # Hidden}

\* normalize_paths_low shortens what is shown: the root to a dot, the home to a tilde.
NormalisedLengths(content) == (Len(content) - Cardinality(Shown(content))) .. Len(content)

NeverSend(fs) == \E i \in DOMAIN Masked(fs) : Masked(fs)[i].rule \in NeverSendRule

\* The hard rule first, unless the preview of the payload that it logs is cut inside a
\* character, a panic; then the share that is left (at most half is too little).
ScrubDecisions(fs) ==
    IF NeverSend(fs) THEN {"blocked_by_hard_rule", "panicked"}
    ELSE {IF PayloadLength > 0 /\ 2 * length <= PayloadLength
          THEN "scrubbed_and_blocked" ELSE "scrubbed_and_sent" :
            length \in NormalisedLengths(MaskedContent(fs))}

Verdicts ==
    {"blocked_by_hard_rule", "panicked", "scrubbed_and_blocked", "scrubbed_and_sent"}

NoScrub == [findings |-> {}, content |-> <<>>, decision |-> "none"]

ScrubInit == scrub = NoScrub

ScrubPayload ==
    \E fs \in Findings : \E decision \in ScrubDecisions(fs) :
        scrub' = [findings |-> fs, content |-> MaskedContent(fs), decision |-> decision]

ScrubTypeOK ==
    /\ scrub.findings \subseteq Finding
    /\ \A i \in DOMAIN scrub.content : scrub.content[i] \in 0..PayloadLength
    /\ scrub.decision \in Verdicts \union {"none"}

\* Masking is exact: nothing a rule found is left in the content, everything else is, and
\* in its order, however the findings overlap, touch or contain one another.
MaskIsExact ==
    scrub.decision # "none" =>
        /\ {scrub.content[i] : i \in Shown(scrub.content)} =
             {p \in 1..PayloadLength : \A f \in scrub.findings : p <= f.start \/ p > f.end}
        /\ \A i, j \in Shown(scrub.content) : i < j => scrub.content[i] < scrub.content[j]

\* "If any finding matches a never-send pattern", the caller gets the refusal and the audit
\* log its entry.
NeverSendIsRefused == NeverSend(scrub.findings) => scrub.decision = "blocked_by_hard_rule"
=============================================================================
