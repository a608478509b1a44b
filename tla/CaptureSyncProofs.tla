-------------------------- MODULE CaptureSyncProofs --------------------------
(***************************************************************************)
(* Proofs about CaptureSync, for any run attempts, any signals and any     *)
(* number of lines.                                                        *)
(***************************************************************************)
EXTENDS CaptureSync, WellFoundedInduction, TLAPS

Line == RunAttempt \X Signal \X Nat
Count == [Signal -> Nat]
Result == {"none", "imported", "unavailable", "refused: capture", "refused: incomplete",
           "refused: empty", "refused: podman"}

Disk == [stack : BOOLEAN, zip : SUBSET RunAttempt, none : SUBSET RunAttempt,
         rec : [RunAttempt -> {"absent"} \cup Result],
         index : [RunAttempt -> {"absent", "incomplete", "imported"}], saved : [RunAttempt -> Count]]
Box == [state : {"absent", "running", "stopped"}, live : SUBSET Line, volume : SUBSET Line]
Replay == [of : RunAttempt, read : Count, accepted : Count, sent : Count, failed : SUBSET Signal]
ImportProc == [cmd : {"import"}, pc : {"import", "wait", "acked", "index"}, of : RunAttempt, stable : {0, 1}]
SyncProc == [cmd : {"sync"}, pc : {"next", "open", "import", "wait", "acked", "index", "record"},
             of : RunAttempt \cup {<<>>}, todo : SUBSET RunAttempt, downloads : Nat, stable : {0, 1}, result : Result]

TypeOK ==
    /\ gh \subseteq RunAttempt
    /\ disk \in Disk
    /\ box \in Box
    /\ replay # NoReplay => replay \in Replay
    /\ \/ proc = Idle
       \/ proc \in ImportProc
       \/ proc \in SyncProc /\ proc.todo # {} /\ (proc.pc # "next" => proc.of \in RunAttempt)
    /\ told \in [sent : SUBSET Line, twice : SUBSET Line, torn : SUBSET RunAttempt, purged : SUBSET RunAttempt]

\* The running command imports a, and its collector has been started.
Watching(a) == proc # Idle /\ proc.pc \in {"wait", "acked", "index"} /\ proc.of = a

\* Only a good capture without an outcome is replayed; the command has its
\* collector until it removes it; and what it is about to record is so.
Watched ==
    /\ \A a \in RunAttempt : Watching(a) => Kind[a] = "good" /\ disk.index[a] = "absent"
    /\ proc # Idle /\ proc.pc \in {"wait", "acked"} => replay # NoReplay /\ replay.of = proc.of
    /\ proc # Idle /\ proc.pc = "record" =>
         /\ proc.result # "none"
         /\ proc.result = "refused: capture" => Kind[proc.of] # "good"
         /\ proc.result = "refused: incomplete" => disk.index[proc.of] = "incomplete"

\* A collector is watched, or its import is torn; only then may lines of the
\* attempt lie beyond the point it has reached.
Collecting ==
    replay # NoReplay =>
      /\ replay.of \in told.torn \/ (Watching(replay.of) /\ proc.pc # "index")
      /\ \A s \in Signal : replay.accepted[s] <= replay.read[s] /\ replay.sent[s] <= replay.accepted[s]
      /\ replay.of \notin told.torn =>
           \A l \in told.sent : l[1] = replay.of =>
              l[3] <= replay.read[l[2]] - replay.accepted[l[2]] + replay.sent[l[2]]

\* Whatever has been sent is the business of a watched import, or its outcome
\* is in the index, or it is torn.
Accounted ==
    \A l \in told.sent : \/ l[1] \in told.torn \/ Watching(l[1])
                         \/ disk.index[l[1]] \in {"incomplete", "imported"}

Arrived(a, s) == a \in told.purged \/ \E l \in told.sent : l[1] = a /\ l[2] = s

\* What a collector counts as sent has reached the backend, and so has every
\* signal of a capture whose import is acknowledged or recorded.
Delivered ==
    /\ \A a \in RunAttempt : disk.index[a] = "imported" => \A s \in Needed(a) : Arrived(a, s)
    /\ replay # NoReplay => \A s \in Signal : replay.sent[s] > 0 => Arrived(replay.of, s)
    /\ proc # Idle /\ proc.pc \in {"acked", "index"} => \A s \in Needed(proc.of) : Arrived(proc.of, s)

\* A good capture is given up only when its delivery is uncertain, or podman
\* or the capture itself leaves nothing to deliver.
GivenUp ==
    \A a \in RunAttempt : (Kind[a] = "good" /\ disk.rec[a] \notin {"absent", "imported"}) =>
        \/ disk.rec[a] = "refused: incomplete" /\ disk.index[a] = "incomplete"
        \/ disk.rec[a] \in {"refused: podman", "refused: empty"}

IInv == TypeOK /\ Watched /\ Collecting /\ Accounted /\ Delivered
        /\ DeliveredOnce /\ GivenUp /\ KeptUnlessPurged

-----------------------------------------------------------------------------
(* What the actions do to the records they change.                         *)

\* By run, then by attempt: a pass that has work left has a next capture.
LEMMA HeadInTodo ==
    ASSUME SyncAssumption, proc.todo \subseteq RunAttempt, proc.todo # {}
    PROVE  NextUp \in proc.todo
<1> DEFINE R == LexPairOrdering(OpToRel(<, Nat), OpToRel(<, Nat), Nat, Nat)
<1>1. IsWellFoundedOn(R, Nat \X Nat)
  BY NatLessThanWellFounded, WFLexPairOrdering
<1>2. proc.todo \subseteq Nat \X Nat
  BY DEF SyncAssumption
<1>3. PICK a \in proc.todo : \A b \in proc.todo : ~(<<b, a>> \in R)
  BY <1>1, <1>2, WFMin
<1>4. \A b \in proc.todo : a[1] < b[1] \/ (a[1] = b[1] /\ a[2] <= b[2])
  <2> SUFFICES ASSUME NEW b \in proc.todo PROVE a[1] < b[1] \/ (a[1] = b[1] /\ a[2] <= b[2])
    OBVIOUS
  <2>1. PICK i \in Nat, j \in Nat : a = <<i, j>>
    BY <1>2
  <2>2. PICK m \in Nat, n \in Nat : b = <<m, n>>
    BY <1>2
  <2>3. ~(<<<<m, n>>, <<i, j>>>> \in R)
    BY <1>3, <2>1, <2>2
  <2>4. ~(m < i) /\ ~(m = i /\ n < j)
    BY <2>3 DEF LexPairOrdering, OpToRel
  <2>5. QED BY <2>1, <2>2, <2>4
<1>5. QED BY <1>4 DEF NextUp

\* Removing a collector leaves behind only its saved offsets.
LEMMA LeavesType ==
    ASSUME SyncAssumption, NEW d \in Disk, NEW e \in Leaves(d)
    PROVE  /\ e \in Disk
           /\ e.stack = d.stack /\ e.zip = d.zip /\ e.none = d.none /\ e.rec = d.rec /\ e.index = d.index
<1>1. CASE replay = NoReplay
  BY <1>1 DEF Leaves
<1>2. CASE replay # NoReplay
  <2>1. PICK n \in [Signal -> Offset] : e = [d EXCEPT !.saved[replay.of] = n]
    BY <1>2 DEF Leaves
  <2>2. n \in Count
    <3>1. Offset \subseteq Nat
      BY DEF Offset, SyncAssumption
    <3>2. QED BY <3>1 DEF Count
  <2>3. [d.saved EXCEPT ![replay.of] = n] \in [RunAttempt -> Count]
    BY <2>2 DEF Disk
  <2>4. e = [d EXCEPT !.saved = [d.saved EXCEPT ![replay.of] = n]]
    BY <2>1
  <2>5. QED BY <2>3, <2>4 DEF Disk
<1>3. QED BY <1>1, <1>2

-----------------------------------------------------------------------------
(* The invariant, step by step.                                            *)

LEMMA InitIInv ==
    ASSUME SyncAssumption, Init PROVE IInv
<1>1. TypeOK
  <2>1. EmptyDisk \in Disk
    BY DEF EmptyDisk, Disk, Zero, Count
  <2>2. QED BY <2>1 DEF Init, TypeOK, Box
<1>2. Watched /\ Collecting /\ Accounted /\ Delivered
  BY DEF Init, Watched, Watching, Collecting, Accounted, Delivered, EmptyDisk
<1>3. DeliveredOnce /\ GivenUp /\ KeptUnlessPurged
  BY DEF Init, DeliveredOnce, GivenUp, KeptUnlessPurged, EmptyDisk
<1>4. QED BY <1>1, <1>2, <1>3 DEF IInv

\* A cut moves lines and drops none.
LEMMA CutKeeps ==
    ASSUME NEW b \in Box, NEW signals
    PROVE  /\ Cut(b, signals) \in Box
           /\ Cut(b, signals).live \cup Cut(b, signals).volume = b.live \cup b.volume
<1> DEFINE cut == {l \in b.live : l[2] \in signals}
<1>1. cut \subseteq b.live
  OBVIOUS
<1> HIDE DEF cut
<1>2. Cut(b, signals) = [b EXCEPT !.volume = @ \cup cut, !.live = @ \ cut]
  BY DEF Cut, cut
<1>3. QED BY <1>1, <1>2 DEF Box

\* GitHub, the stack and the clock of the backend.
LEMMA StackInv ==
    ASSUME SyncAssumption, IInv, (\E s \in Signal : Flush(s)) \/ Stack \/ \E a \in RunAttempt : Complete(a)
    PROVE  IInv'
<1> USE DEF IInv
<1>1. UNCHANGED <<replay, proc>> /\ disk' \in Disk /\ UNCHANGED <<disk.index, disk.rec>>
  BY DEF TypeOK, Disk, Flush, Stack, Up, UpCrashes, Down, Complete
<1>2. /\ told'.twice = told.twice /\ told'.torn = told.torn
      /\ told.purged \subseteq told'.purged
      /\ told' \in [sent : SUBSET Line, twice : SUBSET Line, torn : SUBSET RunAttempt, purged : SUBSET RunAttempt]
      /\ \/ told'.sent = told.sent
         \/ told'.sent = {} /\ (\A l \in told.sent : l[1] \in told'.purged)
  <2>1. CASE \E purge \in BOOLEAN : Down(purge)
    <3>1. {l[1] : l \in told.sent} \subseteq RunAttempt
      BY DEF TypeOK, Line
    <3>2. PICK purge \in BOOLEAN : Down(purge)
      BY <2>1
    <3>3. CASE purge
      <4>1. told' = [told EXCEPT !.sent = {}, !.purged = @ \cup {l[1] : l \in told.sent}]
        BY <3>2, <3>3 DEF Down
      <4>2. \A l \in told.sent : l[1] \in {m[1] : m \in told.sent}
        OBVIOUS
      <4>3. QED BY <3>1, <4>1, <4>2 DEF TypeOK
    <3>4. CASE ~purge
      BY <3>2, <3>4 DEF Down, TypeOK
    <3>5. QED BY <3>3, <3>4
  <2>2. CASE ~\E purge \in BOOLEAN : Down(purge)
    BY <2>2 DEF TypeOK, Flush, Stack, Up, UpCrashes, Complete
  <2>3. QED BY <2>1, <2>2
<1>3. box' \in Box
  <2>1. Started(box) \in Box /\ Stopped(box) \in Box /\ [Removed(box) EXCEPT !.volume = {}] \in Box
    BY DEF TypeOK, Box, Started, Stopped, Removed
  <2>3. \A s : Cut(box, {s}) \in Box
    BY CutKeeps DEF TypeOK
  <2>2. QED BY <2>1, <2>3 DEF TypeOK, Flush, Stack, Up, UpCrashes, Down, Complete
<1>4. TypeOK'
  BY <1>1, <1>2, <1>3 DEF TypeOK, Flush, Stack, Up, UpCrashes, Down, Complete
<1>5. Watched' /\ Collecting' /\ Accounted'
  BY <1>1, <1>2 DEF Watched, Watching, Collecting, Accounted
<1>6. \A a, s : Arrived(a, s) => Arrived(a, s)'
  BY <1>2 DEF Arrived
<1>7. Delivered'
  BY <1>1, <1>6 DEF Delivered, Needed
<1>8. DeliveredOnce' /\ GivenUp'
  BY <1>1, <1>2 DEF DeliveredOnce, GivenUp
<1>9. KeptUnlessPurged'
  <2>1. CASE \E purge \in BOOLEAN : Down(purge)
    <3>1. \/ told'.sent = {}
          \/ told'.sent = told.sent /\ box'.live = box.live /\ box'.volume = box.volume
      BY <2>1 DEF Down, TypeOK, Box, Stopped
    <3>2. QED BY <3>1 DEF KeptUnlessPurged
  <2>2. CASE \E s \in Signal : Flush(s)
    <3>1. told' = told /\ box'.live \cup box'.volume = box.live \cup box.volume
      BY <2>2, CutKeeps DEF Flush, TypeOK
    <3>2. QED BY <3>1 DEF KeptUnlessPurged
  <2>3. CASE UpCrashes \/ (\E b \in BOOLEAN : Up(b)) \/ \E a \in RunAttempt : Complete(a)
    <3>1. told' = told /\ box'.live = box.live /\ box'.volume = box.volume
      BY <2>3 DEF UpCrashes, Up, Complete, Started, TypeOK, Box
    <3>2. QED BY <3>1 DEF KeptUnlessPurged
  <2>4. QED BY <2>1, <2>2, <2>3 DEF Stack
<1>10. QED BY <1>4, <1>5, <1>7, <1>8, <1>9

\* The collector reads and sends, whether or not a command watches it.
LEMMA CollectorInv ==
    ASSUME SyncAssumption, IInv, NEW s \in Signal, ReadLine(s) \/ SendLine(s)
    PROVE  IInv'
<1> USE DEF IInv
<1>1. UNCHANGED <<gh, disk, proc>> /\ replay # NoReplay /\ replay \in Replay
  BY DEF TypeOK, ReadLine, SendLine
<1>2. CASE ReadLine(s)
  <2>1. replay' = [replay EXCEPT !.read = [replay.read EXCEPT ![s] = @ + 1],
                                 !.accepted = [replay.accepted EXCEPT ![s] = @ + 1]]
    BY <1>2 DEF ReadLine
  <2>2. /\ [replay.read EXCEPT ![s] = @ + 1] \in Count
        /\ [replay.accepted EXCEPT ![s] = @ + 1] \in Count
    BY <1>1 DEF Replay, Count
  <2>3. replay' \in Replay /\ replay' # NoReplay /\ replay'.of = replay.of /\ replay'.sent = replay.sent
    BY <1>1, <2>1, <2>2 DEF Replay, NoReplay
  <2>4. \A x \in Signal : /\ replay'.read[x] - replay'.accepted[x] = replay.read[x] - replay.accepted[x]
                          /\ replay.accepted[x] <= replay'.accepted[x]
    BY <1>1, <2>1 DEF Replay, Count
  <2>5. UNCHANGED <<box, told>>
    BY <1>2 DEF ReadLine
  <2>6. TypeOK'
    BY <1>1, <2>3, <2>5 DEF TypeOK
  <2>7. Collecting'
    <3>1. \A x \in Signal : replay'.accepted[x] <= replay'.read[x] /\ replay'.sent[x] <= replay'.accepted[x]
      BY <1>1, <2>3, <2>4 DEF Collecting, Replay, Count
    <3>2. \A l \in told.sent : l[2] \in Signal
      BY DEF TypeOK, Line
    <3>3. QED BY <1>1, <2>3, <2>4, <2>5, <3>1, <3>2 DEF Collecting, Watching
  <2>8. Watched' /\ Accounted'
    BY <1>1, <2>3, <2>5 DEF Watched, Watching, Accounted
  <2>9. \A a, x : Arrived(a, x) => Arrived(a, x)'
    BY <2>5 DEF Arrived
  <2>10. Delivered'
    BY <1>1, <2>3, <2>9 DEF Delivered, Needed
  <2>11. DeliveredOnce' /\ GivenUp' /\ KeptUnlessPurged'
    BY <1>1, <2>5 DEF DeliveredOnce, GivenUp, KeptUnlessPurged
  <2>12. QED BY <2>6, <2>7, <2>8, <2>10, <2>11
<1>3. CASE SendLine(s) /\ box.state # "running"
  <2>1. replay' = [replay EXCEPT !.failed = {s}] /\ UNCHANGED <<box, told>>
    BY <1>3 DEF SendLine
  <2>2. /\ replay' \in Replay /\ replay' # NoReplay /\ replay'.of = replay.of /\ replay'.sent = replay.sent
        /\ replay'.read = replay.read /\ replay'.accepted = replay.accepted
    BY <1>1, <2>1 DEF Replay, NoReplay
  <2>3. TypeOK'
    BY <1>1, <2>1, <2>2 DEF TypeOK
  <2>4. Watched' /\ Accounted'
    BY <1>1, <2>1, <2>2 DEF Watched, Watching, Accounted
  <2>5. Collecting'
    BY <1>1, <2>1, <2>2 DEF Watching, Collecting
  <2>6. \A a, x : Arrived(a, x) => Arrived(a, x)'
    BY <2>1 DEF Arrived
  <2>7. Delivered'
    BY <1>1, <2>2, <2>6 DEF Delivered, Needed
  <2>8. DeliveredOnce' /\ GivenUp' /\ KeptUnlessPurged'
    BY <1>1, <2>1 DEF DeliveredOnce, GivenUp, KeptUnlessPurged
  <2>9. QED BY <2>3, <2>4, <2>5, <2>7, <2>8
<1>4. CASE SendLine(s) /\ box.state = "running"
  <2> DEFINE n == replay.read[s] - replay.accepted[s] + replay.sent[s] + 1
             line == <<replay.of, s, n>>
  <2>1. /\ replay' = [replay EXCEPT !.sent = [replay.sent EXCEPT ![s] = @ + 1]]
        /\ replay.sent[s] < replay.accepted[s]
        /\ box' = [box EXCEPT !.live = @ \cup {line}]
        /\ told' = [told EXCEPT !.sent = @ \cup {line},
                                !.twice = IF line \in told.sent THEN @ \cup {line} ELSE @]
    BY <1>4 DEF SendLine
  <2>2. /\ replay.of \in RunAttempt
        /\ \A x \in Signal : replay.read[x] \in Nat /\ replay.accepted[x] \in Nat /\ replay.sent[x] \in Nat
        /\ \A x \in Signal : replay.accepted[x] <= replay.read[x] /\ replay.sent[x] <= replay.accepted[x]
    BY <1>1 DEF Replay, Count, Collecting
  <2>3. line \in Line
    BY <2>2 DEF Line
  <2>4. /\ told' \in [sent : SUBSET Line, twice : SUBSET Line, torn : SUBSET RunAttempt, purged : SUBSET RunAttempt]
        /\ told'.sent = told.sent \cup {line} /\ told'.torn = told.torn /\ told'.purged = told.purged
        /\ told'.twice \subseteq told.twice \cup {line}
        /\ line \notin told.sent => told'.twice = told.twice
    BY <2>1, <2>3 DEF TypeOK
  <2>5. box' \in Box /\ box'.live = box.live \cup {line} /\ box'.volume = box.volume
    BY <2>1, <2>3 DEF TypeOK, Box
  <2>6. /\ replay' \in Replay /\ replay' # NoReplay /\ replay'.of = replay.of
        /\ replay'.read = replay.read /\ replay'.accepted = replay.accepted
        /\ replay'.sent = [replay.sent EXCEPT ![s] = @ + 1]
    <3>1. [replay.sent EXCEPT ![s] = @ + 1] \in Count
      BY <1>1, <2>2 DEF Replay, Count
    <3>2. QED BY <1>1, <2>1, <3>1 DEF Replay, NoReplay
  <2>7. \A x \in Signal : replay'.sent[x] = IF x = s THEN replay.sent[x] + 1 ELSE replay.sent[x]
    BY <1>1, <2>6 DEF Replay, Count
  <2>8. replay.of \notin told.torn => line \notin told.sent
    BY <1>1, <2>2 DEF Collecting
  <2>9. TypeOK'
    BY <1>1, <2>4, <2>5, <2>6 DEF TypeOK
  <2>10. Collecting'
    <3>1. \A x \in Signal : replay'.accepted[x] <= replay'.read[x] /\ replay'.sent[x] <= replay'.accepted[x]
      BY <2>1, <2>2, <2>6, <2>7
    <3>2. replay.of \notin told.torn =>
             \A l \in told'.sent : l[1] = replay.of =>
                l[3] <= replay'.read[l[2]] - replay'.accepted[l[2]] + replay'.sent[l[2]]
      <4> SUFFICES ASSUME replay.of \notin told.torn, NEW l \in told'.sent, l[1] = replay.of
                   PROVE  l[3] <= replay'.read[l[2]] - replay'.accepted[l[2]] + replay'.sent[l[2]]
        OBVIOUS
      <4>1. CASE l = line
        BY <2>2, <2>6, <2>7, <4>1
      <4>2. CASE l \in told.sent
        <5>1. l[2] \in Signal /\ l[3] \in Nat
          BY <4>2 DEF TypeOK, Line
        <5>2. l[3] <= replay.read[l[2]] - replay.accepted[l[2]] + replay.sent[l[2]]
          BY <1>1, <4>2 DEF Collecting
        <5>3. QED BY <2>2, <2>6, <2>7, <5>1, <5>2
      <4>3. QED BY <2>4, <4>1, <4>2
    <3>3. replay'.of \in told'.torn \/ (Watching(replay.of)' /\ proc'.pc # "index")
      BY <1>1, <2>4, <2>6 DEF Collecting, Watching
    <3>4. QED BY <2>4, <2>6, <3>1, <3>2, <3>3 DEF Collecting
  <2>11. Watched'
    BY <1>1, <2>6 DEF Watched, Watching
  <2>12. Accounted'
    BY <1>1, <2>4 DEF Collecting, Accounted, Watching
  <2>13. \A a, x : Arrived(a, x) => Arrived(a, x)'
    BY <2>4 DEF Arrived
  <2>14. Delivered'
    <3>1. Arrived(replay.of, s)'
      <4>1. line \in told'.sent /\ line[1] = replay.of /\ line[2] = s
        BY <2>4
      <4>2. (\E l \in told.sent : l[1] = replay.of /\ l[2] = s)'
        BY <2>6, <4>1
      <4>3. QED BY <4>2 DEF Arrived
    <3>2. \A x \in Signal : replay'.sent[x] > 0 => Arrived(replay.of, x)'
      BY <1>1, <2>6, <2>7, <2>13, <3>1 DEF Delivered
    <3>3. QED BY <1>1, <2>6, <2>13, <3>2 DEF Delivered, Needed
  <2>15. DeliveredOnce'
    BY <2>4, <2>8 DEF DeliveredOnce
  <2>16. GivenUp'
    BY <1>1 DEF GivenUp
  <2>17. KeptUnlessPurged'
    BY <2>4, <2>5 DEF KeptUnlessPurged
  <2>18. QED BY <2>9, <2>10, <2>11, <2>12, <2>14, <2>15, <2>16, <2>17
<1>5. QED BY <1>2, <1>3, <1>4

\* The running command: what its record is, and what a step makes of it.
Command(q) ==
    \/ q \in ImportProc
    \/ q \in SyncProc /\ q.todo # {} /\ (q.pc # "next" => q.of \in RunAttempt)

LEMMA CommandType ==
    ASSUME TypeOK
    PROVE  /\ proc.cmd # "none" <=> proc # Idle
           /\ proc # Idle => Command(proc)
<1>1. CASE proc = Idle
  BY <1>1 DEF Idle
<1>2. CASE proc # Idle
  <2>1. Command(proc)
    BY <1>2 DEF TypeOK, Command
  <2>2. proc.cmd # "none"
    BY <2>1 DEF Command, ImportProc, SyncProc
  <2>3. QED BY <1>2, <2>1, <2>2
<1>3. QED BY <1>1, <1>2

LEMMA NotIdle ==
    ASSUME NEW q, Command(q) PROVE q # Idle
BY DEF Command, ImportProc, SyncProc, Idle

\* The import moves on.
LEMMA MovesOn ==
    ASSUME Command(proc), proc.pc \in {"import", "wait", "acked", "index"},
           NEW p \in {"wait", "acked", "index"}, NEW n \in {0, 1},
           NEW q, q = [proc EXCEPT !.pc = p, !.stable = n]
    PROVE  Command(q) /\ q # Idle /\ q.pc = p /\ q.of = proc.of /\ q.of \in RunAttempt
<1>1. CASE proc \in ImportProc
  BY <1>1, NotIdle DEF ImportProc, Command
<1>2. CASE proc \in SyncProc
  <2>1. /\ q \in SyncProc /\ q.todo = proc.todo /\ q.pc = p /\ q.of = proc.of
    BY <1>2 DEF SyncProc
  <2>2. proc.todo # {} /\ proc.of \in RunAttempt
    BY <1>2 DEF Command, ImportProc, SyncProc
  <2>3. QED BY <2>1, <2>2, NotIdle DEF Command
<1>3. QED BY <1>1, <1>2 DEF Command

\* The import ends: so does its command, or sync has an outcome to record.
LEMMA Ends ==
    ASSUME Command(proc), proc.pc \in {"import", "wait", "acked", "index"},
           NEW r \in Result, NEW q, q = Outcome(r)
    PROVE  \/ q = Idle
           \/ Command(q) /\ q # Idle /\ q.pc = "record" /\ q.of = proc.of /\ q.result = r
<1>1. CASE proc \in ImportProc
  BY <1>1 DEF ImportProc, Outcome
<1>2. CASE proc \in SyncProc
  <2>1. q = [proc EXCEPT !.pc = "record", !.result = r]
    BY <1>2 DEF SyncProc, Outcome
  <2>2. /\ q \in SyncProc /\ q.todo = proc.todo /\ q.pc = "record" /\ q.of = proc.of /\ q.result = r
    BY <1>2, <2>1 DEF SyncProc
  <2>3. proc.todo # {} /\ proc.of \in RunAttempt
    BY <1>2 DEF Command, ImportProc, SyncProc
  <2>4. QED BY <2>2, <2>3, NotIdle DEF Command
<1>3. QED BY <1>1, <1>2 DEF Command

\* sync goes on to the next capture, or is done.
LEMMA GoesOn ==
    ASSUME proc \in SyncProc, proc.todo # {}, NEW q, q = Rest
    PROVE  q = Idle \/ (Command(q) /\ q # Idle /\ q.pc = "next")
<1>1. CASE proc.todo = {NextUp}
  BY <1>1 DEF Rest
<1>2. CASE proc.todo # {NextUp}
  <2>1. q = [proc EXCEPT !.todo = @ \ {NextUp}, !.pc = "next", !.of = <<>>]
    BY <1>2 DEF Rest
  <2>2. proc.todo \ {NextUp} # {}
    BY <1>2
  <2>3. q \in SyncProc /\ q.todo # {} /\ q.pc = "next"
    BY <2>1, <2>2 DEF SyncProc
  <2>4. QED BY <2>3, NotIdle DEF Command
<1>3. QED BY <1>1, <1>2

-----------------------------------------------------------------------------
(* The steps of a command.                                                 *)

\* A step that leaves collector, backend and history alone, ends no watch and
\* writes nothing untrue.
LEMMA QuietStep ==
    ASSUME SyncAssumption, IInv, UNCHANGED <<gh, box, replay, told>>, disk' \in Disk,
           UNCHANGED disk.index, proc' = Idle \/ Command(proc'),
           \A a \in RunAttempt : Watching(a)' <=> Watching(a),
           proc' # Idle /\ proc'.pc \in {"wait", "acked"} => replay # NoReplay /\ replay.of = proc'.of,
           proc' # Idle => proc'.pc # "index",
           proc' # Idle /\ proc'.pc \in {"acked", "index"} => \A s \in Needed(proc'.of) : Arrived(proc'.of, s),
           proc' # Idle /\ proc'.pc = "record" =>
               /\ proc'.result # "none"
               /\ proc'.result = "refused: capture" => Kind[proc'.of] # "good"
               /\ proc'.result = "refused: incomplete" => disk.index[proc'.of] = "incomplete",
           GivenUp'
    PROVE  IInv'
<1> USE DEF IInv
<1>1. TypeOK'
  BY DEF TypeOK, Command
<1>2. Watched'
  BY DEF Watched
<1>3. Collecting'
  <2>1. replay # NoReplay /\ Watching(replay.of) /\ proc.pc # "index" => Watching(replay.of)' /\ proc'.pc # "index"
    BY DEF TypeOK, Replay, Watching
  <2>2. QED BY <2>1 DEF Collecting
<1>4. Accounted'
  BY DEF Accounted, TypeOK, Line
<1>5. Delivered'
  <2>1. \A a, s : Arrived(a, s) => Arrived(a, s)'
    BY DEF Arrived
  <2>2. \A a : Needed(a)' = Needed(a)
    BY DEF Needed
  <2>3. QED BY <2>1, <2>2 DEF Delivered
<1>6. DeliveredOnce' /\ KeptUnlessPurged'
  BY DEF DeliveredOnce, KeptUnlessPurged
<1>7. QED BY <1>1, <1>2, <1>3, <1>4, <1>5, <1>6

\* sync and import up to the collector, and the scrapes while it runs.
LEMMA QuietInv ==
    ASSUME SyncAssumption, IInv,
           \/ ImportRefused \/ Scrape \/ SyncStep
           \/ \E a \in RunAttempt : Import(a)
    PROVE  IInv'
<1> USE DEF IInv
<1>1. ASSUME NEW a \in RunAttempt, Import(a) PROVE IInv'
  <2>1. proc' \in ImportProc /\ proc'.pc = "import" /\ proc = Idle
    BY <1>1 DEF Import, ImportProc
  <2>2. UNCHANGED <<gh, disk, box, replay, told>> /\ disk' \in Disk
    BY <1>1 DEF Import, TypeOK
  <2>3. Command(proc') /\ GivenUp' /\ \A b \in RunAttempt : Watching(b)' <=> Watching(b)
    BY <2>1, <2>2 DEF Command, GivenUp, Watching
  <2>4. QED BY <2>1, <2>2, <2>3, QuietStep
<1>2. CASE ImportRefused
  <2>1. /\ UNCHANGED <<gh, disk, box, replay, told>> /\ disk' \in Disk
        /\ proc # Idle /\ Command(proc) /\ proc.pc = "import"
    BY <1>2, CommandType DEF ImportRefused, TypeOK
  <2>2. PICK r \in Result : /\ proc' = Outcome(r) /\ r # "none"
                            /\ r = "refused: capture" => Kind[proc.of] # "good"
                            /\ r = "refused: incomplete" => disk.index[proc.of] = "incomplete"
    <3>1. Refusal(proc.of) \in Result /\ (Refusal(proc.of) = "refused: capture" => Kind[proc.of] # "good")
          /\ (Refusal(proc.of) = "refused: incomplete" => disk.index[proc.of] = "incomplete")
      BY DEF Refusal, ValidateCapture, Result
    <3>2. "imported" \in Result
      BY DEF Result
    <3>3. QED BY <1>2, <3>1, <3>2 DEF ImportRefused
  <2>3. proc' = Idle \/ (/\ Command(proc') /\ proc' # Idle /\ proc'.pc = "record"
                         /\ proc'.of = proc.of /\ proc'.result = r)
    BY <2>1, <2>2, Ends
  <2>4. \A b \in RunAttempt : Watching(b)' <=> Watching(b)
    BY <2>1, <2>3 DEF Watching
  <2>5. GivenUp'
    BY <2>1 DEF GivenUp
  <2>6. QED BY <2>1, <2>2, <2>3, <2>4, <2>5, QuietStep
<1>3. CASE Scrape
  <2>1. /\ UNCHANGED <<gh, disk, box, replay, told>> /\ disk' \in Disk
        /\ proc # Idle /\ Command(proc) /\ proc.pc = "wait"
    BY <1>3, CommandType DEF Scrape, TypeOK
  <2>2. PICK q \in {"wait", "acked"}, n \in {0, 1} :
             /\ proc' = [proc EXCEPT !.pc = q, !.stable = n]
             /\ q = "acked" => ExporterAckOk
    <3>1. [proc EXCEPT !.stable = 0] = [proc EXCEPT !.pc = "wait", !.stable = 0]
          /\ [proc EXCEPT !.stable = 1] = [proc EXCEPT !.pc = "wait", !.stable = 1]
      BY <2>1 DEF Command, ImportProc, SyncProc
    <3>2. QED BY <1>3, <3>1 DEF Scrape
  <2>3. Command(proc') /\ proc' # Idle /\ proc'.pc = q /\ proc'.of = proc.of
    BY <2>1, <2>2, MovesOn
  <2>4. q = "acked" => \A s \in Needed(proc.of) : Arrived(proc.of, s)
    <3>1. replay # NoReplay /\ replay.of = proc.of
      BY <2>1 DEF Watched
    <3>2. QED BY <2>2, <3>1 DEF ExporterAckOk, Delivered, Needed
  <2>5. replay # NoReplay /\ replay.of = proc.of
    BY <2>1 DEF Watched
  <2>6. \A b \in RunAttempt : Watching(b)' <=> Watching(b)
    BY <2>1, <2>3 DEF Watching
  <2>7. GivenUp'
    BY <2>1 DEF GivenUp
  <2>8. proc'.pc \notin {"index", "record"} /\ (proc'.pc = "acked" => q = "acked")
    BY <2>2, <2>3
  <2>9. QED BY <2>1, <2>3, <2>4, <2>5, <2>6, <2>7, <2>8, QuietStep
<1>4. CASE StartSync
  <2>1. UNCHANGED <<gh, box, replay, told>> /\ proc = Idle
    BY <1>4 DEF StartSync
  <2>2. disk' \in Disk /\ UNCHANGED <<disk.index, disk.rec>>
    <3>1. Bare \subseteq RunAttempt
      BY DEF Bare, Unsettled, Latest, TypeOK
    <3>2. QED BY <1>4, <3>1 DEF StartSync, TypeOK, Disk
  <2>3. proc' = Idle \/ (proc' \in SyncProc /\ proc'.todo # {} /\ proc'.pc = "next")
    <3>1. UNION {MatchedOf(a[1]) : a \in Unsettled} \subseteq RunAttempt
      BY DEF MatchedOf, TypeOK
    <3>2. QED BY <1>4, <3>1 DEF StartSync, SyncProc, Result
  <2>4. (proc' = Idle \/ Command(proc')) /\ GivenUp' /\ \A b \in RunAttempt : Watching(b)' <=> Watching(b)
    BY <2>1, <2>2, <2>3 DEF Command, GivenUp, Watching
  <2>5. QED BY <2>1, <2>2, <2>3, <2>4, QuietStep
<1>5. CASE OpenArtifact
  <2>1. /\ UNCHANGED <<gh, box, replay, told>> /\ proc # Idle
        /\ proc \in SyncProc /\ proc.pc = "next" /\ proc.todo # {}
    BY <1>5, CommandType DEF OpenArtifact, Command, ImportProc
  <2>2. NextUp \in RunAttempt
    BY <2>1, HeadInTodo DEF SyncProc
  <2>3. disk' \in Disk /\ UNCHANGED <<disk.index, disk.rec>>
    <3>1. \/ disk' = disk
          \/ disk' = [disk EXCEPT !.zip = disk.zip \cup {NextUp}]
      BY <1>5 DEF OpenArtifact
    <3>2. disk \in Disk /\ disk.zip \cup {NextUp} \in SUBSET RunAttempt
      BY <2>2 DEF TypeOK, Disk
    <3>3. QED BY <3>1, <3>2 DEF Disk
  <2>4. proc' = Idle \/ (Command(proc') /\ proc' # Idle /\ proc'.pc \in {"next", "open"})
    <3>1. CASE proc' = Rest
      BY <2>1, <3>1, GoesOn
    <3>2. CASE proc' # Rest
      <4>1. proc' = [proc EXCEPT !.of = NextUp, !.pc = "open",
                                 !.downloads = IF NextUp \in disk.zip THEN @ ELSE @ + 1]
        BY <1>5, <3>2 DEF OpenArtifact
      <4>2. proc' \in SyncProc /\ proc'.todo = proc.todo /\ proc'.pc = "open" /\ proc'.of = NextUp
        <5> DEFINE n == IF NextUp \in disk.zip THEN proc.downloads ELSE proc.downloads + 1
        <5>1. proc' = [proc EXCEPT !.of = NextUp, !.pc = "open", !.downloads = n]
          BY <4>1
        <5>2. n \in Nat
          BY <2>1 DEF SyncProc
        <5> HIDE DEF n
        <5>3. QED BY <2>1, <2>2, <5>1, <5>2 DEF SyncProc
      <4>3. QED BY <2>1, <2>2, <4>2, NotIdle DEF Command
    <3>3. QED BY <3>1, <3>2
  <2>5. GivenUp' /\ \A b \in RunAttempt : Watching(b)' <=> Watching(b)
    BY <2>1, <2>3, <2>4 DEF GivenUp, Watching
  <2>6. QED BY <2>1, <2>3, <2>4, <2>5, QuietStep
<1>6. CASE PassFails
  <2>1. UNCHANGED <<gh, disk, box, replay, told>> /\ disk' \in Disk /\ proc' = Idle /\ proc.pc = "next"
    BY <1>6 DEF PassFails, TypeOK
  <2>2. GivenUp' /\ \A b \in RunAttempt : Watching(b)' <=> Watching(b)
    BY <2>1 DEF GivenUp, Watching
  <2>3. QED BY <2>1, <2>2, QuietStep
<1>7. CASE CheckRecord
  <2>1. /\ UNCHANGED <<gh, disk, box, replay, told>> /\ disk' \in Disk /\ proc # Idle
        /\ proc \in SyncProc /\ proc.pc = "open" /\ proc.todo # {} /\ proc.of \in RunAttempt
    BY <1>7, CommandType DEF CheckRecord, Command, ImportProc, TypeOK
  <2>2. proc' = Idle \/ (Command(proc') /\ proc' # Idle /\ proc'.pc \in {"next", "import"})
    <3>1. CASE proc' = Rest
      BY <2>1, <3>1, GoesOn
    <3>2. CASE proc' # Rest
      <4>1. proc' = [proc EXCEPT !.pc = "import"]
        BY <1>7, <3>2 DEF CheckRecord
      <4>2. proc' \in SyncProc /\ proc'.todo = proc.todo /\ proc'.pc = "import" /\ proc'.of = proc.of
        BY <2>1, <4>1 DEF SyncProc
      <4>3. QED BY <2>1, <4>2, NotIdle DEF Command
    <3>3. QED BY <3>1, <3>2
  <2>3. GivenUp' /\ \A b \in RunAttempt : Watching(b)' <=> Watching(b)
    BY <2>1, <2>2 DEF GivenUp, Watching
  <2>4. QED BY <2>1, <2>2, <2>3, QuietStep
<1>8. CASE RecordArtifact
  <2>1. /\ UNCHANGED <<gh, box, replay, told>> /\ proc # Idle
        /\ proc \in SyncProc /\ proc.pc = "record" /\ proc.todo # {} /\ proc.of \in RunAttempt
        /\ proc.result \in Result
    BY <1>8, CommandType DEF RecordArtifact, Command, ImportProc, SyncProc
  <2>2. \/ disk' = disk
        \/ disk' = [disk EXCEPT !.rec = [disk.rec EXCEPT ![proc.of] = proc.result]] /\ proc.result # "unavailable"
    BY <1>8 DEF RecordArtifact, Recorded
  <2>8. /\ [disk.rec EXCEPT ![proc.of] = proc.result] \in [RunAttempt -> {"absent"} \cup Result]
        /\ \A a \in RunAttempt : [disk.rec EXCEPT ![proc.of] = proc.result][a]
                                = IF a = proc.of THEN proc.result ELSE disk.rec[a]
    BY <2>1 DEF TypeOK, Disk
  <2>3. disk' \in Disk /\ UNCHANGED disk.index
    BY <2>2, <2>8 DEF TypeOK, Disk
  <2>4. proc' = Idle \/ (Command(proc') /\ proc' # Idle /\ proc'.pc = "next")
    BY <1>8, <2>1, GoesOn DEF RecordArtifact
  <2>5. GivenUp'
    <3>1. CASE disk' = disk
      BY <3>1 DEF GivenUp
    <3>2. CASE disk' # disk
      <4>1. /\ disk'.index = disk.index
            /\ \A a \in RunAttempt : disk'.rec[a] = IF a = proc.of THEN proc.result ELSE disk.rec[a]
            /\ proc.result \notin {"none", "unavailable"}
            /\ proc.result = "refused: capture" => Kind[proc.of] # "good"
            /\ proc.result = "refused: incomplete" => disk.index[proc.of] = "incomplete"
        <5>1. disk' = [disk EXCEPT !.rec = [disk.rec EXCEPT ![proc.of] = proc.result]]
              /\ proc.result # "unavailable"
          BY <2>2, <3>2
        <5>2. disk'.index = disk.index /\ disk'.rec = [disk.rec EXCEPT ![proc.of] = proc.result]
          BY <5>1 DEF TypeOK, Disk
        <5>3. /\ proc.result # "none"
              /\ proc.result = "refused: capture" => Kind[proc.of] # "good"
              /\ proc.result = "refused: incomplete" => disk.index[proc.of] = "incomplete"
          BY <2>1 DEF Watched
        <5>4. QED BY <2>8, <5>1, <5>2, <5>3
      <4>2. QED BY <2>1, <4>1 DEF GivenUp, Result
    <3>3. QED BY <3>1, <3>2
  <2>6. \A b \in RunAttempt : Watching(b)' <=> Watching(b)
    BY <2>1, <2>4 DEF Watching
  <2>7. QED BY <2>1, <2>3, <2>4, <2>5, <2>6, QuietStep
<1>9. QED BY <1>1, <1>2, <1>3, <1>4, <1>5, <1>6, <1>7, <1>8 DEF SyncStep

\* Leaving an import: its collector is removed, or torn and left behind, and
\* the command ends or has an outcome to record.
LEMMA LeavingStep ==
    ASSUME SyncAssumption, IInv, proc # Idle, UNCHANGED gh, disk' \in Disk, UNCHANGED disk.rec,
           \A a \in RunAttempt : disk'.index[a] = disk.index[a] \/ Watching(a),
           \A a \in RunAttempt : disk'.index[a] = "imported" => \A s \in Needed(a) : Arrived(a, s),
           box' \in Box, box.live \cup box.volume \subseteq box'.live \cup box'.volume,
           told' \in [sent : SUBSET Line, twice : SUBSET Line, torn : SUBSET RunAttempt, purged : SUBSET RunAttempt],
           UNCHANGED <<told.sent, told.twice, told.purged>>, told.torn \subseteq told'.torn,
           \A a \in RunAttempt : Watching(a) => a \in told'.torn \/ disk'.index[a] \in {"incomplete", "imported"},
           replay' = NoReplay \/ (replay' = replay /\ (replay # NoReplay => replay.of \in told'.torn)),
           \/ proc' = Idle
           \/ /\ Command(proc') /\ proc' # Idle /\ proc'.pc = "record"
              /\ proc'.result \notin {"none", "refused: capture"}
              /\ proc'.result = "refused: incomplete" => disk'.index[proc'.of] = "incomplete"
    PROVE  IInv'
<1> USE DEF IInv
<1>1. TypeOK'
  BY DEF TypeOK, Command
<1>2. \A a \in RunAttempt : ~Watching(a)'
  BY DEF Watching
<1>3. Watched'
  BY <1>2 DEF Watched
<1>4. Collecting'
  BY DEF Collecting
<1>5. Accounted'
  <2> SUFFICES ASSUME NEW l \in told.sent
               PROVE  l[1] \in told'.torn \/ disk'.index[l[1]] \in {"incomplete", "imported"}
    BY DEF Accounted
  <2>1. l[1] \in RunAttempt
    BY DEF TypeOK, Line
  <2>2. QED BY <2>1 DEF Accounted
<1>6. Delivered'
  <2>1. \A a, s : Arrived(a, s) => Arrived(a, s)'
    BY DEF Arrived
  <2>2. \A a : Needed(a)' = Needed(a)
    BY DEF Needed
  <2>3. QED BY <2>1, <2>2 DEF Delivered
<1>7. DeliveredOnce' /\ KeptUnlessPurged'
  BY DEF DeliveredOnce, KeptUnlessPurged
<1>8. GivenUp'
  <2> SUFFICES ASSUME NEW a \in RunAttempt, Kind[a] = "good", disk.rec[a] \notin {"absent", "imported"},
                      disk.rec[a] \notin {"refused: podman", "refused: empty"}
               PROVE  disk.rec[a] = "refused: incomplete" /\ disk'.index[a] = "incomplete"
    BY DEF GivenUp
  <2>1. disk.rec[a] = "refused: incomplete" /\ disk.index[a] = "incomplete"
    BY DEF GivenUp
  <2>2. ~Watching(a)
    BY <2>1 DEF Watched
  <2>3. QED BY <2>1, <2>2
<1>9. QED BY <1>1, <1>3, <1>4, <1>5, <1>6, <1>7, <1>8

\* Starting the collector: no line of an import that has no outcome and is
\* not torn has been sent yet.
LEMMA StartInv ==
    ASSUME SyncAssumption, IInv, StartReplay PROVE IInv'
<1> USE DEF IInv
<1> DEFINE a == proc.of
<1>1. /\ UNCHANGED <<gh, box, told>> /\ proc # Idle /\ Command(proc) /\ proc.pc = "import" /\ a \in RunAttempt
  BY CommandType DEF StartReplay, CanReplay, Command, ImportProc
<1>2. Kind[a] = "good" /\ disk.index[a] = "absent"
  <2>1. Kind[a] = "good" /\ disk.index[a] # "imported" /\ disk.index[a] # "incomplete"
    BY DEF StartReplay, CanReplay, Refusal, ValidateCapture
  <2>2. disk.index[a] \in {"absent", "incomplete", "imported"}
    BY <1>1 DEF TypeOK, Disk
  <2>3. QED BY <2>1, <2>2
<1>3. disk' \in Disk /\ disk'.rec = disk.rec /\ disk'.index = disk.index
  BY LeavesType DEF StartReplay, TypeOK
<1>4. Command(proc') /\ proc' # Idle /\ proc'.pc = "wait" /\ proc'.of = a
  BY <1>1, MovesOn DEF StartReplay
<1>5. /\ replay' \in Replay /\ replay' # NoReplay /\ replay'.of = a
      /\ replay'.accepted = Zero /\ replay'.sent = Zero
  <2>1. disk'.saved[a] \in Count /\ Zero \in Count
    BY <1>1, <1>3 DEF Disk, Zero, Count
  <2>2. replay' = [of |-> a, read |-> disk'.saved[a], accepted |-> Zero, sent |-> Zero, failed |-> {}]
    BY DEF StartReplay
  <2>3. QED BY <1>1, <2>1, <2>2 DEF Replay, NoReplay
<1>6. \A b \in RunAttempt : ~Watching(b) /\ (Watching(b)' <=> b = a)
  BY <1>1, <1>4 DEF Watching
<1>7. TypeOK'
  BY <1>1, <1>3, <1>4, <1>5 DEF TypeOK, Command
<1>8. Watched'
  BY <1>2, <1>3, <1>4, <1>5, <1>6 DEF Watched
<1>9. Collecting'
  <2>1. \A s \in Signal : replay'.accepted[s] <= replay'.read[s] /\ replay'.sent[s] <= replay'.accepted[s]
    BY <1>5 DEF Replay, Count, Zero
  <2>2. a \notin told.torn => \A l \in told.sent : l[1] # a
    BY <1>1, <1>2, <1>6 DEF Accounted
  <2>3. (Watching(replay.of) /\ proc.pc # "index")'
    BY <1>4, <1>5 DEF Watching
  <2>4. QED BY <1>1, <1>5, <2>1, <2>2, <2>3 DEF Collecting
<1>10. Accounted'
  <2>1. \A l \in told.sent : l[1] \in RunAttempt
    BY DEF TypeOK, Line
  <2>2. QED BY <1>1, <1>3, <1>6, <2>1 DEF Accounted
<1>11. Delivered'
  <2>1. \A b, s : Arrived(b, s) => Arrived(b, s)'
    BY <1>1 DEF Arrived
  <2>2. \A b : Needed(b)' = Needed(b)
    BY DEF Needed
  <2>3. \A s \in Signal : ~(replay'.sent[s] > 0)
    BY <1>5 DEF Zero
  <2>4. QED BY <1>3, <1>4, <2>1, <2>2, <2>3 DEF Delivered
<1>12. DeliveredOnce' /\ GivenUp' /\ KeptUnlessPurged'
  BY <1>1, <1>3 DEF DeliveredOnce, GivenUp, KeptUnlessPurged
<1>13. QED BY <1>7, <1>8, <1>9, <1>10, <1>11, <1>12

\* Removing the collector of an acknowledged import: the watch goes on.
LEMMA RemoveInv ==
    ASSUME SyncAssumption, IInv, RemoveReplay PROVE IInv'
<1> USE DEF IInv
<1>1. /\ UNCHANGED <<gh, box, told>> /\ replay' = NoReplay
      /\ proc # Idle /\ Command(proc) /\ proc.pc = "acked" /\ proc.of \in RunAttempt
  BY CommandType DEF RemoveReplay, Command, ImportProc
<1>2. disk' \in Disk /\ disk'.rec = disk.rec /\ disk'.index = disk.index
  BY LeavesType DEF RemoveReplay, TypeOK
<1>3. Command(proc') /\ proc' # Idle /\ proc'.pc = "index" /\ proc'.of = proc.of
  <2>1. proc.stable \in {0, 1}
    BY <1>1 DEF Command, ImportProc, SyncProc
  <2>2. proc' = [proc EXCEPT !.pc = "index", !.stable = proc.stable]
    BY <1>1 DEF RemoveReplay, Command, ImportProc, SyncProc
  <2>3. QED BY <1>1, <2>1, <2>2, MovesOn
<1>4. \A b \in RunAttempt : Watching(b)' <=> Watching(b)
  BY <1>1, <1>3 DEF Watching
<1>5. TypeOK' /\ Watched' /\ Collecting'
  BY <1>1, <1>2, <1>3, <1>4 DEF TypeOK, Command, Watched, Collecting
<1>6. Accounted'
  <2>1. \A l \in told.sent : l[1] \in RunAttempt
    BY DEF TypeOK, Line
  <2>2. QED BY <1>1, <1>2, <1>4, <2>1 DEF Accounted
<1>7. Delivered'
  <2>1. \A b, s : Arrived(b, s) => Arrived(b, s)'
    BY <1>1 DEF Arrived
  <2>2. \A b : Needed(b)' = Needed(b)
    BY DEF Needed
  <2>3. QED BY <1>1, <1>2, <1>3, <2>1, <2>2 DEF Delivered
<1>8. DeliveredOnce' /\ GivenUp' /\ KeptUnlessPurged'
  BY <1>1, <1>2 DEF DeliveredOnce, GivenUp, KeptUnlessPurged
<1>9. QED BY <1>5, <1>6, <1>7, <1>8

\* The import fails, is given up, is recorded, or dies with its command.
LEMMA LeavingInv ==
    ASSUME SyncAssumption, IInv,
           ReplayFails \/ RemoveFails \/ Crash \/ \E i \in BOOLEAN : RecordImport(i) \/ GiveUp(i)
    PROVE  IInv'
<1> USE DEF IInv
<1>1. proc # Idle /\ Command(proc) /\ UNCHANGED gh
  BY CommandType DEF ReplayFails, CanReplay, RemoveFails, RecordImport, Crash, GiveUp
<1>2. /\ disk \in Disk /\ box \in Box
      /\ told \in [sent : SUBSET Line, twice : SUBSET Line, torn : SUBSET RunAttempt, purged : SUBSET RunAttempt]
  BY DEF TypeOK
<1>3. \A a \in RunAttempt : disk.index[a] = "imported" => \A s \in Needed(a) : Arrived(a, s)
  BY DEF Delivered
<1>4. CASE ReplayFails
  <2>1. /\ UNCHANGED <<box, told>> /\ replay' = NoReplay /\ proc.pc = "import"
        /\ proc' = Outcome("refused: podman")
    BY <1>4 DEF ReplayFails, CanReplay
  <2>2. disk' \in Disk /\ disk'.rec = disk.rec /\ disk'.index = disk.index
    BY <1>2, <1>4, LeavesType DEF ReplayFails
  <2>3. \/ proc' = Idle
        \/ Command(proc') /\ proc' # Idle /\ proc'.pc = "record" /\ proc'.result = "refused: podman"
    BY <1>1, <2>1, Ends DEF Result
  <2>4. \A a \in RunAttempt : ~Watching(a)
    BY <2>1 DEF Watching
  <2>5. QED BY <1>1, <1>2, <1>3, <2>1, <2>2, <2>3, <2>4, LeavingStep
<1>5. CASE RemoveFails
  <2>1. /\ UNCHANGED <<disk, box, replay>> /\ proc.pc = "acked" /\ proc' = Outcome("refused: podman")
        /\ told' = [told EXCEPT !.torn = @ \cup {proc.of}]
    BY <1>5 DEF RemoveFails
  <2>2. proc.of \in RunAttempt
    BY <1>1, <2>1 DEF Command, ImportProc
  <2>3. /\ told' \in [sent : SUBSET Line, twice : SUBSET Line, torn : SUBSET RunAttempt, purged : SUBSET RunAttempt]
        /\ UNCHANGED <<told.sent, told.twice, told.purged>> /\ told'.torn = told.torn \cup {proc.of}
    BY <1>2, <2>1, <2>2
  <2>4. \/ proc' = Idle
        \/ Command(proc') /\ proc' # Idle /\ proc'.pc = "record" /\ proc'.result = "refused: podman"
    BY <1>1, <2>1, Ends DEF Result
  <2>5. (\A a \in RunAttempt : Watching(a) => a \in told'.torn) /\ replay.of \in told'.torn
    BY <1>1, <2>1, <2>3 DEF Watching, Watched
  <2>6. QED BY <1>1, <1>2, <1>3, <2>1, <2>3, <2>4, <2>5, LeavingStep
<1>6. ASSUME NEW i \in BOOLEAN, RecordImport(i) PROVE IInv'
  <2>1. /\ UNCHANGED <<replay, told>> /\ proc.pc = "index" /\ proc' = Outcome("imported")
        /\ disk' = [disk EXCEPT !.index = [disk.index EXCEPT ![proc.of] = "imported"]]
        /\ box' = box \/ box' = Cut(box, Flushed)
    BY <1>6 DEF RecordImport
  <2>2. proc.of \in RunAttempt
    BY <1>1, <2>1 DEF Command, ImportProc
  <2>3. /\ disk' \in Disk /\ disk'.rec = disk.rec
        /\ \A a \in RunAttempt : disk'.index[a] = IF a = proc.of THEN "imported" ELSE disk.index[a]
    <3>1. [disk.index EXCEPT ![proc.of] = "imported"] \in [RunAttempt -> {"absent", "incomplete", "imported"}]
      BY <1>2 DEF Disk
    <3>2. QED BY <1>2, <2>1, <3>1 DEF Disk
  <2>4. box' \in Box /\ box.live \cup box.volume \subseteq box'.live \cup box'.volume
    BY <1>2, <2>1, CutKeeps
  <2>5. \A a \in RunAttempt : Watching(a) <=> a = proc.of
    BY <1>1, <2>1 DEF Watching
  <2>6. \A s \in Needed(proc.of) : Arrived(proc.of, s)
    BY <1>1, <2>1 DEF Delivered
  <2>7. replay # NoReplay => replay.of \in told.torn
    BY <2>1 DEF Collecting
  <2>8. \/ proc' = Idle
        \/ Command(proc') /\ proc' # Idle /\ proc'.pc = "record" /\ proc'.result = "imported"
    BY <1>1, <2>1, Ends DEF Result
  <2>9. QED BY <1>1, <1>2, <1>3, <2>1, <2>3, <2>4, <2>5, <2>6, <2>7, <2>8, LeavingStep
<1>7. ASSUME NEW i \in BOOLEAN, GiveUp(i) PROVE IInv'
  <2> DEFINE d == [disk EXCEPT !.index = [disk.index EXCEPT ![proc.of] = "incomplete"]]
  <2>1. /\ UNCHANGED <<box, told>> /\ replay' = NoReplay /\ proc.pc = "wait"
        /\ proc' = Idle \/ proc' = Outcome("refused: incomplete")
        /\ disk' \in Leaves(d)
    BY <1>7 DEF GiveUp
  <2>2. proc.of \in RunAttempt
    BY <1>1, <2>1 DEF Command, ImportProc
  <2>3. /\ d \in Disk /\ d.rec = disk.rec
        /\ \A a \in RunAttempt : d.index[a] = IF a = proc.of THEN "incomplete" ELSE disk.index[a]
    <3>1. [disk.index EXCEPT ![proc.of] = "incomplete"] \in [RunAttempt -> {"absent", "incomplete", "imported"}]
      BY <1>2 DEF Disk
    <3>2. QED BY <1>2, <3>1 DEF Disk
  <2>4. disk' \in Disk /\ disk'.rec = d.rec /\ disk'.index = d.index
    <3> HIDE DEF d
    <3>1. QED BY <2>1, <2>3, LeavesType
  <2> HIDE DEF d
  <2>5. \A a \in RunAttempt : Watching(a) <=> a = proc.of
    BY <1>1, <2>1 DEF Watching
  <2>6. \/ proc' = Idle
        \/ /\ Command(proc') /\ proc' # Idle /\ proc'.pc = "record" /\ proc'.of = proc.of
           /\ proc'.result = "refused: incomplete"
    BY <1>1, <2>1, Ends DEF Result
  <2>7. QED BY <1>1, <1>2, <1>3, <2>1, <2>2, <2>3, <2>4, <2>5, <2>6, LeavingStep
<1>8. CASE Crash
  <2>1. /\ UNCHANGED <<disk, box, replay>> /\ proc' = Idle
        /\ told' = IF proc.pc \in {"wait", "acked", "index"}
                   THEN [told EXCEPT !.torn = @ \cup {proc.of}] ELSE told
    BY <1>8 DEF Crash
  <2>2. proc.pc \in {"wait", "acked", "index"} => proc.of \in RunAttempt
    BY <1>1 DEF Command, ImportProc
  <2>3. /\ told' \in [sent : SUBSET Line, twice : SUBSET Line, torn : SUBSET RunAttempt, purged : SUBSET RunAttempt]
        /\ UNCHANGED <<told.sent, told.twice, told.purged>> /\ told.torn \subseteq told'.torn
        /\ proc.pc \in {"wait", "acked", "index"} => proc.of \in told'.torn
    BY <1>2, <2>1, <2>2
  <2>4. \A a \in RunAttempt : Watching(a) => a \in told'.torn
    BY <2>3 DEF Watching
  <2>5. replay # NoReplay => replay.of \in told'.torn
    BY <2>3, <2>4 DEF Collecting, TypeOK, Replay
  <2>6. QED BY <1>1, <1>2, <1>3, <2>1, <2>3, <2>4, <2>5, LeavingStep
<1>9. QED BY <1>4, <1>5, <1>6, <1>7, <1>8

LEMMA StepIInv ==
    ASSUME SyncAssumption, IInv, [Next]_vars PROVE IInv'
<1>1. CASE UNCHANGED vars
  <2> USE DEF IInv
  <2>1. UNCHANGED <<gh, disk, box, replay, proc, told>>
    BY <1>1 DEF vars
  <2>2. TypeOK' /\ Watched' /\ Collecting' /\ Accounted'
    BY <2>1 DEF TypeOK, Watched, Watching, Collecting, Accounted
  <2>3. Delivered'
    BY <2>1 DEF Delivered, Arrived, Needed
  <2>4. DeliveredOnce' /\ GivenUp' /\ KeptUnlessPurged'
    BY <2>1 DEF DeliveredOnce, GivenUp, KeptUnlessPurged
  <2>5. QED BY <2>2, <2>3, <2>4
<1>2. CASE Next
  <2>1. CASE (\E s \in Signal : Flush(s)) \/ Stack \/ \E a \in RunAttempt : Complete(a)
    BY <2>1, StackInv
  <2>2. CASE \E s \in Signal : ReadLine(s) \/ SendLine(s)
    BY <2>2, CollectorInv
  <2>3. CASE ImportRefused \/ Scrape \/ SyncStep \/ \E a \in RunAttempt : Import(a)
    BY <2>3, QuietInv
  <2>4. CASE StartReplay
    BY <2>4, StartInv
  <2>5. CASE RemoveReplay
    BY <2>5, RemoveInv
  <2>6. CASE ReplayFails \/ RemoveFails \/ Crash \/ \E i \in BOOLEAN : RecordImport(i) \/ GiveUp(i)
    BY <2>6, LeavingInv
  <2>7. QED BY <1>2, <2>1, <2>2, <2>3, <2>4, <2>5, <2>6 DEF Next, Collector, ImportStep
<1>3. QED BY <1>1, <1>2

-----------------------------------------------------------------------------
(* The theorems.                                                           *)

LEMMA Invariance == Spec => []IInv
<1>1. Init => IInv
  BY InitIInv, SyncAssumption
<1>2. IInv /\ [Next]_vars => IInv'
  BY StepIInv, SyncAssumption
<1>3. QED BY <1>1, <1>2, PTL DEF Spec

\* A line reaches the backend twice only when its import was torn by a crash
\* or a failed removal of the collector (import_capture, "incomplete").
THEOREM SentOnce == Spec => []DeliveredOnce
<1>1. IInv => DeliveredOnce
  BY DEF IInv
<1>2. QED BY <1>1, Invariance, PTL

\* What the import index and the artifact records say of a capture is true
\* (record_import after wait_for_exporter_ack; sync_artifact).
THEOREM RecordsHold == Spec => []RecordsAreTrue
<1>1. IInv => RecordsAreTrue
  <2> SUFFICES ASSUME IInv PROVE RecordsAreTrue
    OBVIOUS
  <2>1. \A a \in RunAttempt : disk.index[a] = "imported" /\ a \notin told.purged =>
          \A s \in Needed(a) : \E l \in told.sent : l[1] = a /\ l[2] = s
    BY DEF IInv, Delivered, Arrived
  <2>2. QED BY <2>1 DEF IInv, GivenUp, RecordsAreTrue
<1>2. QED BY <1>1, Invariance, PTL

\* The backend and its volume hold all that was sent since the last purge,
\* although only the flushed signals reach the volume with an import
\* (cmd_down, cmd_up, import_capture's flush).
THEOREM BackendKeeps == Spec => []KeptUnlessPurged
<1>1. IInv => KeptUnlessPurged
  BY DEF IInv
<1>2. QED BY <1>1, Invariance, PTL
=============================================================================
