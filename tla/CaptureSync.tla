---------------------------- MODULE CaptureSync ----------------------------
(***************************************************************************)
(* The local telemetry stack of ci-observe.py: `up` and `down` own one     *)
(* backend container and its volume; `sync` lists the finished workflow    *)
(* runs, downloads each capture artifact once and imports it; `import`     *)
(* replays one capture into the backend through a throw-away collector     *)
(* and records the outcome in the import index.                            *)
(*                                                                         *)
(* One command runs at a time (the workflow's concurrency group).  It may  *)
(* die at any step: the collector then goes on without it.  A capture is   *)
(* named by its run attempt, which stands for its artifact, its capture id *)
(* and its digest; its content is a number of lines per signal.            *)
(***************************************************************************)
EXTENDS Integers

CONSTANTS
    RunAttempt,     \* the run attempts <<run, number>>
    Kind,           \* what each uploads: "good", "refused" or "none"
    Signal,         \* the signal files of a capture
    Lines,          \* the number of lines of each, by signal
    Flushed,        \* the signals the flush of an import writes out: Loki's
    Limit           \* --limit, downloads of one pass

ASSUME SyncAssumption ==
    /\ RunAttempt \subseteq Nat \X Nat
    /\ Kind \in [RunAttempt -> {"good", "refused", "none"}]
    /\ Lines \in [RunAttempt -> [Signal -> Nat]]
    /\ Flushed \subseteq Signal /\ Limit \in Nat

VARIABLES
    gh,             \* the attempts completed on GitHub, in order per run
    disk,           \* the state directory, see EmptyDisk
    box,            \* the backend container and its volume
    replay,         \* the collector container ci-observe-replay-<id>
    proc,           \* the running command
    told            \* history: lines sent, sent twice; imports torn, purged
vars == <<gh, disk, box, replay, proc, told>>

Idle == [cmd |-> "none"]
NoReplay == [of |-> "none"]
Zero == [s \in Signal |-> 0]
\* zip: cached downloads; rec: record.json; none: .no-telemetry markers;
\* index: imports/index.json; saved: the collector's file offsets.
EmptyDisk ==
    [stack |-> FALSE, zip |-> {}, none |-> {}, rec |-> [a \in RunAttempt |-> "absent"],
     index |-> [a \in RunAttempt |-> "absent"], saved |-> [a \in RunAttempt |-> Zero]]

Init ==
    /\ gh = {} /\ disk = EmptyDisk
    /\ box = [state |-> "absent", live |-> {}, volume |-> {}]
    /\ replay = NoReplay /\ proc = Idle
    /\ told = [sent |-> {}, twice |-> {}, torn |-> {}, purged |-> {}]

-----------------------------------------------------------------------------
(* GitHub and the collector. *)

\* An attempt completes; a rerun follows the attempt before it.
Complete(a) ==
    /\ a \notin gh /\ \A b \in RunAttempt : b[1] = a[1] /\ b[2] < a[2] => b \in gh
    /\ gh' = gh \cup {a} /\ UNCHANGED <<disk, box, replay, proc, told>>

Needed(a) == {s \in Signal : Lines[a][s] > 0}

\* The collector reads the next line of a file ...
ReadLine(s) ==
    /\ replay # NoReplay /\ replay.read[s] < Lines[replay.of][s]
    /\ replay' = [replay EXCEPT !.read[s] = @ + 1, !.accepted[s] = @ + 1]
    /\ UNCHANGED <<gh, disk, box, proc, told>>

\* ... and sends the lines accepted, or fails when the backend is down.
SendLine(s) ==
    /\ replay # NoReplay /\ replay.sent[s] < replay.accepted[s] /\ replay.failed = {}
    /\ LET line == <<replay.of, s, replay.read[s] - replay.accepted[s] + replay.sent[s] + 1>>
       IN  IF box.state = "running"
           THEN /\ replay' = [replay EXCEPT !.sent[s] = @ + 1]
                /\ box' = [box EXCEPT !.live = @ \cup {line}]
                /\ told' = [told EXCEPT !.sent = @ \cup {line},
                                        !.twice = IF line \in told.sent THEN @ \cup {line} ELSE @]
           ELSE replay' = [replay EXCEPT !.failed = {s}] /\ UNCHANGED <<box, told>>
    /\ UNCHANGED <<gh, disk, proc>>

\* It saves its offsets from time to time: what it leaves when it is removed
\* lies between the offsets it started with and the ones it has reached.
Offset == UNION {0..Lines[x[1]][x[2]] : x \in RunAttempt \X Signal}
Leaves(d) ==
    IF replay = NoReplay THEN {d}
    ELSE {[d EXCEPT !.saved[replay.of] = n] :
            n \in {f \in [Signal -> Offset] :
                  \A s \in Signal : d.saved[replay.of][s] <= f[s] /\ f[s] <= replay.read[s]}}

\* What the backend holds of some signals goes to its volume: each store cuts
\* its blocks when it will.
Cut(b, signals) ==
    LET cut == {l \in b.live : l[2] \in signals} IN [b EXCEPT !.volume = @ \cup cut, !.live = @ \ cut]
Flush(s) == /\ box.state = "running" /\ Cut(box, {s}) # box /\ box' = Cut(box, {s})
            /\ UNCHANGED <<gh, disk, replay, proc, told>>

-----------------------------------------------------------------------------
(* up and down. *)

Started(b) == [b EXCEPT !.state = "running"]

\* A container without a stack record (a crash inside up) is refused; one
\* that does not become healthy is removed only when this up created it.
Up(healthy) ==
    /\ proc = Idle
    /\ box.state = "absent" \/ disk.stack
    /\ box' = IF box.state = "absent" /\ ~healthy THEN box ELSE Started(box)
    /\ disk' = [disk EXCEPT !.stack = @ \/ healthy]
    /\ UNCHANGED <<gh, replay, proc, told>>

UpCrashes ==
    /\ proc = Idle /\ box.state = "absent"
    /\ box' = Started(box) /\ UNCHANGED <<gh, disk, replay, proc, told>>

Removed(b) == [b EXCEPT !.state = "absent", !.live = {}]
\* Mutant: down removes the container.
StoppedForGood(b) == [b EXCEPT !.state = "absent", !.live = {}]
Stopped(b) == [b EXCEPT !.state = "stopped"]

\* The stack record, the index and the offsets survive a purge.
Down(purge) ==
    /\ proc = Idle /\ box.state # "absent"
    /\ box' = IF purge THEN [Removed(box) EXCEPT !.volume = {}] ELSE Stopped(box)
    /\ told' = IF purge THEN [told EXCEPT !.sent = {}, !.purged = @ \cup {l[1] : l \in told.sent}] ELSE told
    /\ UNCHANGED <<gh, disk, replay, proc>>

-----------------------------------------------------------------------------
(* import_capture, called by import and by sync. *)

\* What follows an import: the command ends, or sync records the outcome.
Outcome(result) ==
    IF proc.cmd = "import" THEN Idle ELSE [proc EXCEPT !.pc = "record", !.result = result]

\* Closed, complete and, for import, unmodified.
ValidateCapture(a) == Kind[a] = "good"

\* Mutant: an incomplete import is simply tried again.
RefusalUnlessIncomplete(a) ==
    IF ~ValidateCapture(a) THEN "refused: capture" ELSE IF Needed(a) = {} THEN "refused: empty"
    ELSE IF ~disk.stack \/ box.state # "running" THEN "unavailable" ELSE "none"

\* The refusals before anything is started, in the order of the code.
Refusal(a) ==
    IF ~ValidateCapture(a) THEN "refused: capture"
    ELSE IF disk.index[a] = "incomplete" THEN "refused: incomplete"
    ELSE IF Needed(a) = {} THEN "refused: empty"
    ELSE IF ~disk.stack \/ box.state # "running" THEN "unavailable"
    ELSE "none"

ImportRefused ==
    /\ proc.cmd # "none" /\ proc.pc = "import"
    /\ \/ disk.index[proc.of] = "imported" /\ ValidateCapture(proc.of) /\ proc' = Outcome("imported")
       \/ /\ disk.index[proc.of] # "imported" \/ ~ValidateCapture(proc.of)
          /\ Refusal(proc.of) # "none" /\ proc' = Outcome(Refusal(proc.of))
    /\ UNCHANGED <<gh, disk, box, replay, told>>

CanReplay == /\ proc.cmd # "none" /\ proc.pc = "import"
             /\ disk.index[proc.of] # "imported" /\ Refusal(proc.of) = "none"

\* A collector left behind is removed; the new one resumes at its offsets.
StartReplay ==
    /\ CanReplay
    /\ disk' \in Leaves(disk)
    /\ replay' = [of |-> proc.of, read |-> disk'.saved[proc.of], accepted |-> Zero, sent |-> Zero, failed |-> {}]
    /\ proc' = [proc EXCEPT !.pc = "wait", !.stable = 0]
    /\ UNCHANGED <<gh, box, told>>

\* podman run fails: the collector left behind is gone already.
ReplayFails ==
    /\ CanReplay
    /\ disk' \in Leaves(disk)
    /\ replay' = NoReplay /\ proc' = Outcome("refused: podman")
    /\ UNCHANGED <<gh, box, told>>

\* Mutant: nothing accepted and nothing sent counts as everything sent.
AckWhenEqual == \A s \in Needed(proc.of) : replay.sent[s] >= replay.accepted[s]

\* exporter_ack_ok: some sent, none missing, none failed, for every signal.
ExporterAckOk ==
    \A s \in Needed(proc.of) : /\ replay.sent[s] > 0 /\ replay.sent[s] >= replay.accepted[s]
                               /\ replay.failed = {}

\* One turn of wait_for_exporter_ack; two good scrapes in a row are enough.
Scrape ==
    /\ proc.cmd # "none" /\ proc.pc = "wait"
    /\ proc' = IF ~ExporterAckOk THEN [proc EXCEPT !.stable = 0]
               ELSE IF proc.stable = 1 THEN [proc EXCEPT !.pc = "acked", !.stable = 0]
               ELSE [proc EXCEPT !.stable = 1]
    /\ proc' # proc
    /\ UNCHANGED <<gh, disk, box, replay, told>>

\* The deadline passes or the collector exits; or the user interrupts.
GiveUp(interrupt) ==
    /\ proc.cmd # "none" /\ proc.pc = "wait"
    /\ replay' = NoReplay
    /\ disk' \in Leaves([disk EXCEPT !.index[proc.of] = "incomplete"])
    /\ proc' = IF interrupt THEN Idle ELSE Outcome("refused: incomplete")
    /\ UNCHANGED <<gh, box, told>>

RemoveReplay ==
    /\ proc.cmd # "none" /\ proc.pc = "acked"
    /\ disk' \in Leaves(disk)
    /\ replay' = NoReplay /\ proc' = [proc EXCEPT !.pc = "index"]
    /\ UNCHANGED <<gh, box, told>>

\* podman rm fails: the error leaves import_capture with nothing recorded.
RemoveFails ==
    /\ proc.cmd # "none" /\ proc.pc = "acked"
    /\ proc' = Outcome("refused: podman") /\ told' = [told EXCEPT !.torn = @ \cup {proc.of}]
    /\ UNCHANGED <<gh, disk, box, replay>>

\* The flush of Loki alone, which may fail, then record_import.
RecordImport(flushed) ==
    /\ proc.cmd # "none" /\ proc.pc = "index"
    /\ box' = IF flushed /\ box.state = "running" THEN Cut(box, Flushed) ELSE box
    /\ disk' = [disk EXCEPT !.index[proc.of] = "imported"]
    /\ proc' = Outcome("imported")
    /\ UNCHANGED <<gh, replay, told>>

\* cmd_import on a capture that has been downloaded, by sync or by hand.
Import(a) ==
    /\ proc = Idle /\ a \in disk.zip /\ Kind[a] = "good"
    /\ proc' = [cmd |-> "import", pc |-> "import", of |-> a, stable |-> 0]
    /\ UNCHANGED <<gh, disk, box, replay, told>>

-----------------------------------------------------------------------------
(* sync_iteration and sync_artifact. *)

Latest == {a \in gh : \A b \in gh : b[1] = a[1] => b[2] <= a[2]}
\* The runs whose latest attempt has neither a record nor a marker.
Unsettled == {a \in Latest : disk.rec[a] = "absent" /\ a \notin disk.none}
\* Every attempt of such a run is listed, the ones with a capture artifact matched.
MatchedOf(run) == {b \in gh : b[1] = run /\ Kind[b] # "none"}
Bare == {a \in Unsettled : MatchedOf(a[1]) = {}}

StartSync ==
    /\ proc = Idle /\ gh # {}
    /\ disk' = [disk EXCEPT !.none = @ \cup Bare]
    /\ LET matched == UNION {MatchedOf(a[1]) : a \in Unsettled}
       IN  proc' = IF matched = {} THEN Idle
                   ELSE [cmd |-> "sync", pc |-> "next", of |-> <<>>, todo |-> matched,
                         downloads |-> 0, stable |-> 0, result |-> "none"]
    /\ UNCHANGED <<gh, box, replay, told>>

\* By run, then by attempt.
NextUp == CHOOSE a \in proc.todo : \A b \in proc.todo : a[1] < b[1] \/ (a[1] = b[1] /\ a[2] <= b[2])
Rest == IF proc.todo = {NextUp} THEN Idle ELSE [proc EXCEPT !.todo = @ \ {NextUp}, !.pc = "next", !.of = <<>>]

\* A cached ZIP is used, a new one downloaded within the limit.
OpenArtifact ==
    /\ proc.cmd = "sync" /\ proc.pc = "next"
    /\ IF NextUp \notin disk.zip /\ proc.downloads >= Limit
       THEN proc' = Rest /\ UNCHANGED disk
       ELSE /\ disk' = [disk EXCEPT !.zip = @ \cup {NextUp}]
            /\ proc' = [proc EXCEPT !.of = NextUp, !.pc = "open",
                                    !.downloads = IF NextUp \in disk.zip THEN @ ELSE @ + 1]
    /\ UNCHANGED <<gh, box, replay, told>>

\* The listing or a download fails: the error ends the whole pass.
PassFails ==
    /\ proc.cmd = "sync" /\ proc.pc = "next" /\ NextUp \notin disk.zip
    /\ proc' = Idle /\ UNCHANGED <<gh, disk, box, replay, told>>

\* An earlier record settles the artifact unless its import is incomplete.
CheckRecord ==
    /\ proc.cmd = "sync" /\ proc.pc = "open"
    /\ proc' = IF disk.rec[proc.of] \notin {"absent", "imported"}
                  \/ (disk.rec[proc.of] = "imported" /\ disk.index[proc.of] = "imported")
               THEN Rest ELSE [proc EXCEPT !.pc = "import"]
    /\ UNCHANGED <<gh, disk, box, replay, told>>

\* Every outcome is recorded, but an unavailable backend is tried again.
Recorded(result) == result # "unavailable"

RecordArtifact ==
    /\ proc.cmd = "sync" /\ proc.pc = "record"
    /\ disk' = IF Recorded(proc.result) THEN [disk EXCEPT !.rec[proc.of] = proc.result] ELSE disk
    /\ proc' = Rest
    /\ UNCHANGED <<gh, box, replay, told>>

\* The command is killed.  An import whose collector was started and whose
\* outcome is not in the index is torn.
Crash ==
    /\ proc # Idle
    /\ told' = IF proc.pc \in {"wait", "acked", "index"} THEN [told EXCEPT !.torn = @ \cup {proc.of}] ELSE told
    /\ proc' = Idle
    /\ UNCHANGED <<gh, disk, box, replay>>

Collector == \E s \in Signal : ReadLine(s) \/ SendLine(s) \/ Flush(s)
Stack == (\E b \in BOOLEAN : Up(b) \/ Down(b)) \/ UpCrashes
ImportStep == ImportRefused \/ StartReplay \/ ReplayFails \/ Scrape \/ RemoveReplay \/ RemoveFails
              \/ \E b \in BOOLEAN : RecordImport(b) \/ GiveUp(b)
SyncStep == StartSync \/ OpenArtifact \/ PassFails \/ CheckRecord \/ RecordArtifact
Next == (\E a \in RunAttempt : Complete(a) \/ Import(a)) \/ Collector \/ Stack \/ ImportStep \/ SyncStep \/ Crash

Spec == Init /\ [][Next]_vars

-----------------------------------------------------------------------------
(* Properties. *)

\* No line of a capture reaches the backend twice, although captures are
\* retried, interrupted and re-imported by hand: an import whose delivery
\* is uncertain is refused.  The exception is an import torn by a crash
\* before its outcome was written (import_capture, "incomplete").
DeliveredOnce == \A l \in told.twice : l[1] \in told.torn

\* The two records of an import are true, through crashes, resumed
\* collectors and backend restarts.  A capture in the index as imported has
\* reached the backend with every signal it has, unless the backend was
\* purged since ("A file tailer starting is not import completion"); and
\* sync gives a good capture up for good only when its delivery is uncertain
\* or podman failed, never because a backend is down (sync_artifact, except
\* BackendUnavailable before except ToolError).
RecordsAreTrue ==
    /\ \A a \in RunAttempt : (disk.index[a] = "imported" /\ a \notin told.purged) =>
         \A s \in Needed(a) : \E l \in told.sent : l[1] = a /\ l[2] = s
    /\ \A a \in RunAttempt : (Kind[a] = "good" /\ disk.rec[a] \notin {"absent", "imported"}) =>
         \/ disk.rec[a] = "refused: incomplete" /\ disk.index[a] = "incomplete"
         \/ disk.rec[a] \in {"refused: podman", "refused: empty"}

\* What the backend has received survives down, up and crashes, be it still in
\* the container only, as the spans of a finished import are until Tempo cuts
\* them; only down --purge deletes it (cmd_down, "the container is kept").
KeptUnlessPurged == told.sent \subseteq box.live \cup box.volume
=============================================================================
