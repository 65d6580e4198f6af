----------------------------- MODULE ModelSetup -----------------------------
(***************************************************************************)
(* The first-run setup of the macOS launcher: each window's view model     *)
(* asks the FFI to make the model file present (ensure_local_model), which *)
(* downloads it in place and links it under the name the loader opens.     *)
(*                                                                         *)
(* The file is the set of its chunks that hold data: two downloads each    *)
(* write at an offset of their own, and creating the file empties it for   *)
(* both.  Statics live as long as the process, the disk for ever.          *)
(***************************************************************************)
EXTENDS Integers

CONSTANTS
    View,        \* view models: one per window
    Chunks,      \* the model file's length, in chunks
    MaxDownloads \* bound: requests to the server

ASSUME ChunksAssumption == Chunks \in Nat \ {0}
ASSUME DownloadsAssumption == MaxDownloads \in Nat

VARIABLES
    file,      \* chunks of Meta-Llama-3-8B-Instruct-Q4_K_M.gguf on disk
    linked,    \* model.gguf names it
    rooted,    \* LAZY_MODEL_ROOT is set
    attempted, \* AppViewModel.hasAttemptedInit
    view,      \* the published state of each view model
    call,      \* each view model's call of ensure_local_model
    downloads

disk == <<file, linked>>
setupVars == <<disk, rooted, attempted, view, call, downloads>>

Closed == [open |-> FALSE, ready |-> FALSE, checking |-> FALSE, error |-> FALSE]
NoCall == [pc |-> "none", at |-> 0]

\* is_file() and not empty, whoever wrote it.
FileExists == file # {}

\* What the loader can tell of a file: its magic and its length.
Loadable == linked /\ {1, Chunks} \subseteq file

-----------------------------------------------------------------------------
SetupInit ==
    /\ file = {}
    /\ linked = FALSE
    /\ rooted = FALSE
    /\ attempted = FALSE
    /\ view = [v \in View |-> Closed]
    /\ call = [v \in View |-> NoCall]
    /\ downloads = 0

\* A window opens: its view model starts ready if an earlier one finished.
OpenWindow(v) ==
    /\ ~view[v].open
    /\ view' = [view EXCEPT ![v] = [Closed EXCEPT !.open = TRUE, !.ready = attempted]]
    /\ UNCHANGED <<disk, rooted, attempted, call, downloads>>

\* Fault: hasAttemptedInit is hoisted above the call it records.
CheckAndPrepareLatchedEarly(v) ==
    /\ view[v].open /\ ~view[v].ready
    /\ \/ /\ attempted
          /\ view' = [view EXCEPT ![v].ready = TRUE]
          /\ UNCHANGED <<attempted, call>>
       \/ /\ ~attempted /\ ~view[v].checking
          /\ view' = [view EXCEPT ![v].checking = TRUE, ![v].error = FALSE]
          /\ call' = [call EXCEPT ![v] = [pc |-> "look", at |-> 0]]
          /\ attempted' = TRUE
    /\ UNCHANGED <<disk, rooted, downloads>>

\* checkAndPrepareModel up to its await, from the window's task or from Retry:
\* it may have no configuration directory to work in.
CheckAndPrepare(v) ==
    /\ view[v].open /\ ~view[v].ready
    /\ \/ /\ attempted
          /\ view' = [view EXCEPT ![v].ready = TRUE]
          /\ UNCHANGED call
       \/ /\ ~attempted /\ ~view[v].checking
          /\ view' = [view EXCEPT ![v].error = TRUE]
          /\ UNCHANGED call
       \/ /\ ~attempted /\ ~view[v].checking
          /\ view' = [view EXCEPT ![v].checking = TRUE, ![v].error = FALSE]
          /\ call' = [call EXCEPT ![v] = [pc |-> "look", at |-> 0]]
    /\ UNCHANGED <<disk, rooted, attempted, downloads>>

-----------------------------------------------------------------------------
(* ensure_local_model_impl and download_file, one system call at a time.   *)

\* The fast path, the file already there (which is not linked again), or a download.
EnsureLocalModel(v) ==
    /\ call[v].pc = "look"
    /\ call' = [call EXCEPT ![v].pc = IF rooted \/ FileExists THEN "ok" ELSE "request"]
    /\ rooted' = (rooted \/ FileExists)
    /\ UNCHANGED <<disk, attempted, view, downloads>>

\* The response arrives and File::create empties the file.
CreateFile(v) ==
    /\ call[v].pc = "request"
    /\ downloads < MaxDownloads
    /\ downloads' = downloads + 1
    /\ file' = {}
    /\ call' = [call EXCEPT ![v].pc = "stream"]
    /\ UNCHANGED <<linked, rooted, attempted, view>>

\* Fault: the end of the stream is noticed one chunk late.
WriteChunkTooMany(v) ==
    /\ call[v].pc = "stream"
    /\ call[v].at <= Chunks
    /\ call' = [call EXCEPT ![v].at = @ + 1]
    /\ file' = file \union {call'[v].at}
    /\ UNCHANGED <<linked, rooted, attempted, view, downloads>>

WriteChunk(v) ==
    /\ call[v].pc = "stream"
    /\ call[v].at < Chunks
    /\ call' = [call EXCEPT ![v].at = @ + 1]
    /\ file' = file \union {call'[v].at}
    /\ UNCHANGED <<linked, rooted, attempted, view, downloads>>

\* The end of the stream: an empty file is an error.
FinishStream(v) ==
    /\ call[v].pc = "stream"
    /\ call[v].at = Chunks
    /\ call' = [call EXCEPT ![v].pc = IF FileExists THEN "link" ELSE "error"]
    /\ UNCHANGED <<disk, rooted, attempted, view, downloads>>

\* The old link is removed and a new one, or a copy, made; then the root is set.
LinkModel(v) ==
    /\ call[v].pc = "link"
    /\ linked' = TRUE
    /\ rooted' = TRUE
    /\ call' = [call EXCEPT ![v].pc = "ok"]
    /\ UNCHANGED <<file, attempted, view, downloads>>

\* Neither the link nor the copy can be made.
LinkFails(v) ==
    /\ call[v].pc = "link"
    /\ linked' = FALSE
    /\ call' = [call EXCEPT ![v].pc = "error"]
    /\ UNCHANGED <<file, rooted, attempted, view, downloads>>

\* The request is refused, or the stream breaks off and leaves what it wrote.
DownloadFails(v) ==
    /\ call[v].pc \in {"request", "stream"}
    /\ call' = [call EXCEPT ![v].pc = "error"]
    /\ UNCHANGED <<disk, rooted, attempted, view, downloads>>

\* Fault: a failed setup leaves the view model as it was.
PreparedSilently(v) ==
    /\ call[v].pc = "ok"
    /\ call' = [call EXCEPT ![v] = NoCall]
    /\ view' = [view EXCEPT ![v].ready = TRUE, ![v].checking = FALSE]
    /\ attempted' = TRUE
    /\ UNCHANGED <<disk, rooted, downloads>>

\* checkAndPrepareModel after its await; an error leaves readiness as it was.
Prepared(v) ==
    /\ call[v].pc \in {"ok", "error"}
    /\ call' = [call EXCEPT ![v] = NoCall]
    /\ view' = [view EXCEPT ![v].ready = (@ \/ call[v].pc = "ok"),
                            ![v].error = (@ \/ call[v].pc = "error"),
                            ![v].checking = FALSE]
    /\ attempted' = (attempted \/ call[v].pc = "ok")
    /\ UNCHANGED <<disk, rooted, downloads>>

\* The process ends, at any point; its successor finds only the disk.
QuitSetup ==
    /\ rooted' = FALSE
    /\ attempted' = FALSE
    /\ view' = [v \in View |-> Closed]
    /\ call' = [v \in View |-> NoCall]
    /\ UNCHANGED <<disk, downloads>>

Download(v) ==
    \/ CreateFile(v) \/ WriteChunk(v) \/ FinishStream(v)
    \/ LinkModel(v) \/ LinkFails(v) \/ DownloadFails(v)

SetupNext ==
    \E v \in View :
        OpenWindow(v) \/ CheckAndPrepare(v) \/ EnsureLocalModel(v) \/ Download(v) \/ Prepared(v)

\* Tokio runs each call to its end, and the main actor takes its result.
SetupFairness ==
    \A v \in View : WF_setupVars(EnsureLocalModel(v) \/ Download(v) \/ Prepared(v))

-----------------------------------------------------------------------------
SetupTypeOK ==
    /\ file \subseteq 1 .. Chunks
    /\ linked \in BOOLEAN
    /\ rooted \in BOOLEAN
    /\ attempted \in BOOLEAN
    /\ view \in [View -> [open : BOOLEAN, ready : BOOLEAN, checking : BOOLEAN, error : BOOLEAN]]
    /\ call \in [View -> [pc : {"none", "look", "request", "stream", "link", "ok", "error"},
                          at : 0 .. Chunks]]
    /\ downloads \in 0 .. MaxDownloads

\* "Any newly-created AppViewModel that reads hasAttemptedInit == true at init
\* time may safely set its own isModelReady": no window lets the user type
\* before this process has found the model's files.
ReadyIsEnsured == \A v \in View : view[v].ready => rooted

\* "isModelReady flips to true only after ensureLocalModel confirms file
\* integrity": a window that is ready has a whole model file to load.
ReadyMeansIntact == \A v \in View : view[v].ready => linked /\ file = 1 .. Chunks

\* Every check of the model ends, with the window ready or the error shown.
SetupSettles ==
    \A v \in View : view[v].checking ~> (~view[v].checking /\ (view[v].ready \/ view[v].error \/ ~view[v].open))
=============================================================================
