----------------------------- MODULE Subagents -----------------------------
(***************************************************************************)
(* The explore, plan, execute pipeline of ffi_orchestrate and the fact     *)
(* store its phases share: every call loads memory.md once, appends to its *)
(* own copy, and writes the whole copy back after each fact.  Two calls    *)
(* may overlap, and a write may be cut off or fail without a word.         *)
(*                                                                         *)
(* A query names some files or none.  A fact is its kind and what it names: *)
(* a listing names files too, and so does a search for a file's name.      *)
(***************************************************************************)
EXTENDS Integers, Sequences, SequencesExt

CONSTANTS
    Caller,      \* calls of ffi_orchestrate that may overlap
    File,        \* files a query can name
    MaxFacts,    \* MAX_FACTS
    CompactKeep, \* COMPACT_KEEP
    MaxCalls,    \* bound: calls begun
    Hits         \* what a search found, as an observation

ASSUME LimitsAssumption ==
    {MaxFacts, MaxCalls} \subseteq Nat /\ CompactKeep \in Nat \ {0} /\ CompactKeep < MaxFacts
ASSUME HitsAssumption == Hits \notin File

VARIABLES
    memoryMd, \* the facts a reader of memory.md would parse
    agent,    \* each call: its phase, its query and the observations it will show
    facts,    \* each call's Memory.facts
    recorded, \* history: what each call loaded, then appended, compaction aside
    calls

subagentVars == <<memoryMd, agent, facts, recorded, calls>>

Fact == [kind : {"sources", "configs", "read", "grep", "answered"}, names : SUBSET File]
Marker == [kind |-> "compacted", names |-> {}]
Resting == [phase |-> "rest", names |-> {}, targets |-> {}, context |-> {}]

LastN(s, n) == SubSeq(s, Len(s) - n + 1, Len(s))

\* Fault: what is kept is counted from the front.
CompactedOldest(s) ==
    IF Len(s) > MaxFacts THEN <<Marker>> \o SubSeq(s, 1, CompactKeep) ELSE s

\* Memory::append_fact once the fact is pushed: compact above MAX_FACTS.
Compacted(s) ==
    IF Len(s) > MaxFacts THEN <<Marker>> \o LastN(s, CompactKeep) ELSE s

-----------------------------------------------------------------------------
SubagentInit ==
    /\ memoryMd = <<>>
    /\ agent = [c \in Caller |-> Resting]
    /\ facts = [c \in Caller |-> <<>>]
    /\ recorded = [c \in Caller |-> <<>>]
    /\ calls = 0

\* What fs::write has written of s when it is cut off, as a reader parses it: a
\* line cut short is a fact that may name less.
Torn(s) ==
    {SubSeq(s, 1, n) : n \in 0 .. Len(s)}
        \union {[SubSeq(s, 1, n) EXCEPT ![n].names = {}] : n \in 1 .. Len(s)}

\* append_fact: push, compact, then save, which says nothing when it fails: the
\* file could not be opened, or was truncated and not written to its end. That
\* is also what a process that dies during the save leaves behind.
AppendFact(c, kind, names) ==
    /\ facts' = [facts EXCEPT ![c] = Compacted(Append(@, [kind |-> kind, names |-> names]))]
    /\ recorded' = [recorded EXCEPT ![c] = Append(@, [kind |-> kind, names |-> names])]
    /\ memoryMd' \in {facts'[c], memoryMd} \union Torn(facts'[c])

Quiet == UNCHANGED <<memoryMd, facts, recorded>>

\* load_or_create: the file, or the part of it that another call has saved yet.
Loaded(c) ==
    {memoryMd} \union IF \E d \in Caller \ {c} : agent[d].phase # "rest" THEN Torn(memoryMd) ELSE {}

\* orchestrate: the facts are loaded for all three phases.
Orchestrate(c) ==
    /\ agent[c].phase = "rest"
    /\ calls < MaxCalls
    /\ calls' = calls + 1
    /\ \E names \in SUBSET File :
         agent' = [agent EXCEPT ![c] =
                     [phase |-> "sources", names |-> names, targets |-> {}, context |-> {}]]
    /\ \E loaded \in Loaded(c) :
         /\ facts' = [facts EXCEPT ![c] = loaded]
         /\ recorded' = [recorded EXCEPT ![c] = loaded]
    /\ UNCHANGED memoryMd

\* One listing of the workspace: a fact if it found anything.
Explore(c, kind, next) ==
    /\ agent[c].phase = kind
    /\ agent' = [agent EXCEPT ![c].phase = next]
    /\ (\E names \in SUBSET File : AppendFact(c, kind, names)) \/ Quiet
    /\ UNCHANGED calls

\* Memory::query and the words of what it returns: any of the facts may score.
Recalled(c) == UNION {facts[c][i].names : i \in DOMAIN facts[c]}

\* identify_targets: the files the query names, or of those the facts name.
IdentifyTargets(c) ==
    /\ agent[c].phase = "targets"
    /\ \E targets \in IF agent[c].names # {} THEN {agent[c].names} ELSE SUBSET Recalled(c) :
         agent' = [agent EXCEPT ![c].phase = "read", ![c].targets = targets]
    /\ Quiet
    /\ UNCHANGED calls

\* A target is read, noted, and shown to the model while there is room for it.
ReadTarget(c) ==
    /\ agent[c].phase = "read"
    /\ \E f \in agent[c].targets :
         /\ \/ /\ agent' = [agent EXCEPT ![c].targets = @ \ {f}]
               /\ Quiet
            \/ /\ \E shown \in {{f}, {}} :
                    /\ agent[c].context = {} => shown = {f}
                    /\ agent' = [agent EXCEPT ![c].targets = @ \ {f}, ![c].context = @ \union shown]
               /\ AppendFact(c, "read", {f})
    /\ UNCHANGED calls

\* No file was read: the first keyword is searched for instead.
Grep(c) ==
    /\ agent[c].phase = "read"
    /\ agent[c].targets = {}
    /\ agent[c].context = {}
    /\ \/ /\ agent' = [agent EXCEPT ![c].phase = "execute", ![c].context = {Hits}]
          /\ \E names \in SUBSET agent[c].names : AppendFact(c, "grep", names)
       \/ /\ agent' = [agent EXCEPT ![c].phase = "execute"]
          /\ Quiet
    /\ UNCHANGED calls

Planned(c) ==
    /\ agent[c].phase = "read"
    /\ agent[c].targets = {}
    /\ agent[c].context # {}
    /\ agent' = [agent EXCEPT ![c].phase = "execute"]
    /\ Quiet
    /\ UNCHANGED calls

\* The prompt is built from the context and the recalled facts, and only then
\* is the answer noted.
ExecuteAgent(c) ==
    /\ agent[c].phase = "execute"
    /\ agent' = [agent EXCEPT ![c].phase = "done"]
    /\ AppendFact(c, "answered", agent[c].names)
    /\ UNCHANGED calls

\* The answer is returned, and the call's memory goes with it.
Return(c) ==
    /\ agent[c].phase = "done"
    /\ agent' = [agent EXCEPT ![c] = Resting]
    /\ facts' = [facts EXCEPT ![c] = <<>>]
    /\ recorded' = [recorded EXCEPT ![c] = <<>>]
    /\ UNCHANGED <<memoryMd, calls>>

\* The process dies: at rest, or in any of the calls.
Die ==
    /\ agent' = [c \in Caller |-> Resting]
    /\ facts' = [c \in Caller |-> <<>>]
    /\ recorded' = [c \in Caller |-> <<>>]
    /\ UNCHANGED <<memoryMd, calls>>

SubagentNext ==
    \/ \E c \in Caller :
         \/ Orchestrate(c)
         \/ Explore(c, "sources", "configs") \/ Explore(c, "configs", "targets")
         \/ IdentifyTargets(c) \/ ReadTarget(c) \/ Grep(c) \/ Planned(c)
         \/ ExecuteAgent(c) \/ Return(c)
    \/ Die

-----------------------------------------------------------------------------
SubagentTypeOK ==
    /\ memoryMd \in Seq(Fact \union {Marker})
    /\ agent \in [Caller -> [phase : {"rest", "sources", "configs", "targets", "read", "execute", "done"},
                             names : SUBSET File,
                             targets : SUBSET File,
                             context : SUBSET (File \union {Hits})]]
    /\ facts \in [Caller -> Seq(Fact \union {Marker})]
    /\ recorded \in [Caller -> Seq(Fact \union {Marker})]
    /\ calls \in 0 .. MaxCalls

\* The facts of s, the marker that a compaction puts first aside; the n-th newest.
Held(s) == IF s # <<>> /\ s[1] = Marker THEN Len(s) - 1 ELSE Len(s)
Newest(s, n) == s[Len(s) + 1 - n]

\* "Facts recorded in Explore are visible to Plan and Execute": whatever becomes
\* of the file, what a call holds is the newest of what it loaded and recorded,
\* in order, with nothing dropped but by compaction, which keeps CompactKeep.
FactsAreKept ==
    \A c \in Caller :
        /\ Len(facts[c]) <= MaxFacts
        /\ Held(facts[c]) >= CompactKeep \/ Held(facts[c]) = Held(recorded[c])
        /\ \A n \in 1 .. Held(facts[c]) : /\ n <= Held(recorded[c])
                                         /\ Newest(facts[c], n) = Newest(recorded[c], n)
                                         /\ Newest(facts[c], n) # Marker

\* "append_fact ... immediately writes the updated Markdown to disk so facts
\* survive": a save that succeeds and does not compact keeps what the file held.
SavesKeepFacts ==
    [][\A c \in Caller :
         (Len(recorded'[c]) > Len(recorded[c]) /\ memoryMd' = facts'[c] /\ Len(facts'[c]) > Len(facts[c]))
             => ToSet(memoryMd) \subseteq ToSet(memoryMd')]_subagentVars
=============================================================================
