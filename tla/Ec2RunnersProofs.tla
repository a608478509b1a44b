-------------------------- MODULE Ec2RunnersProofs --------------------------
(***************************************************************************)
(* Proofs about Ec2Runners, for any number of attempts and any maximum     *)
(* age.                                                                    *)
(***************************************************************************)
EXTENDS Ec2Runners, TLAPS

Box == [state : {"absent", "live", "gone"}, age : 0..MaxAge]
Watch == [pc : {"idle", "view", "terminate", "deregister"}, todo : SUBSET Attempt,
          age : [Attempt -> 0..MaxAge], at : Attempt \cup {0}]

Cause == {"launched", "registered", "cut", "delete", "terminate"}

TypeOK ==
    /\ job \in [Attempt -> {"none", "launch", "launched", "boot", "registered", "start",
                            "queued", "test", "teardown", "terminate", "over"}]
    /\ box \in [Attempt -> Box]
    /\ runner \in [Attempt -> {"absent", "idle", "busy", "gone"}]
    /\ output \in [Attempt -> SUBSET {"instance", "runner"}]
    /\ reaper \in Watch
    /\ lost \in [Attempt -> SUBSET Cause]

\* What an attempt has left in AWS and at GitHub, by how far it is, and who
\* knows of it: the teardown job by its outputs, or nobody, with the cause.
Known(a) ==
    /\ job[a] \in {"none", "launch"} => box[a].state = "absent" /\ runner[a] = "absent"
    /\ job[a] \in {"launched", "boot"} => runner[a] = "absent"
    /\ job[a] \in {"boot", "registered", "start", "queued", "test"} => "instance" \in output[a]
    /\ job[a] \in {"start", "queued", "test"} => "runner" \in output[a]
    /\ job[a] \in {"teardown", "terminate"} /\ box[a].state = "live" =>
         "instance" \in output[a] \/ "launched" \in lost[a] \/ "cut" \in lost[a]
    /\ job[a] = "teardown" /\ runner[a] = "idle" =>
         "runner" \in output[a] \/ "registered" \in lost[a] \/ "cut" \in lost[a]
    /\ job[a] \in {"terminate", "over"} /\ runner[a] = "idle" =>
         "delete" \in lost[a] \/ "registered" \in lost[a] \/ "cut" \in lost[a]
    /\ job[a] = "over" /\ box[a].state = "live" =>
         "terminate" \in lost[a] \/ "launched" \in lost[a] \/ "cut" \in lost[a]
    /\ runner[a] = "busy" => job[a] = "test"
    /\ job[a] = "test" => runner[a] \in {"busy", "gone"}

\* What the watchdog has seen stays true until it acts on it: an instance it
\* listed is no younger now, and one it condemned belongs to an attempt that
\* is over or has reached the maximum age.
Seen ==
    /\ \A a \in reaper.todo : /\ job[a] \notin {"none", "launch"}
                              /\ reaper.age[a] <= box[a].age
    /\ reaper.pc \in {"terminate", "deregister"} =>
         /\ reaper.at \in reaper.todo
         /\ job[reaper.at] = "over" \/ reaper.age[reaper.at] = MaxAge
    /\ reaper.pc = "deregister" => box[reaper.at].state = "gone"

IInv == TypeOK /\ (\A a \in Attempt : Known(a)) /\ Seen

\* The watchdog forgets what it is done with, and forgets no type.
LEMMA DoneType ==
    ASSUME MaxAge \in Nat, reaper \in Watch, NEW a PROVE Done(reaper, a) \in Watch
<1>1. Idle \in Watch
  BY DEF Idle, Watch
<1>2. [reaper EXCEPT !.pc = "view", !.todo = @ \ {a}, !.at = 0] \in Watch
  BY DEF Watch
<1>3. QED BY <1>1, <1>2 DEF Done

LEMMA InitIInv ==
    ASSUME MaxAge \in Nat, Init PROVE IInv
<1>1. TypeOK
  BY DEF Init, TypeOK, Box, Watch, Idle
<1>2. \A a \in Attempt : Known(a)
  BY DEF Init, Known
<1>3. Seen
  BY DEF Init, Seen, Idle
<1>4. QED BY <1>1, <1>2, <1>3 DEF IInv

\* The steps of an attempt: each moves only what belongs to it, and the
\* watchdog's view of it stays true.
LEMMA AttemptInv ==
    ASSUME MaxAge \in Nat, IInv, NEW a \in Attempt,
           Provision(a) \/ Teardown(a) \/ Outside(a)
    PROVE  IInv'
<1> USE DEF IInv
<1>1. CASE Launch(a)
  <2>1. TypeOK'
    BY <1>1 DEF TypeOK, Box, Watch, Launch, Goto
  <2>2. \A b \in Attempt : Known(b)'
    BY <1>1 DEF TypeOK, Box, Known, Launch, Goto
  <2>3. Seen'
    BY <1>1 DEF TypeOK, Box, Watch, Known, Seen, Launch, Goto
  <2>4. QED BY <2>1, <2>2, <2>3
<1>2. CASE EmitInstance(a)
  <2>1. TypeOK'
    BY <1>2 DEF TypeOK, Box, Watch, EmitInstance, Goto
  <2>2. \A b \in Attempt : Known(b)'
    BY <1>2 DEF TypeOK, Box, Known, EmitInstance, Goto
  <2>3. Seen'
    BY <1>2 DEF TypeOK, Box, Watch, Known, Seen, EmitInstance, Goto
  <2>4. QED BY <2>1, <2>2, <2>3
<1>3. CASE Register(a)
  <2>1. TypeOK'
    BY <1>3 DEF TypeOK, Box, Watch, Register, Goto
  <2>2. \A b \in Attempt : Known(b)'
    BY <1>3 DEF TypeOK, Box, Known, Register, Goto
  <2>3. Seen'
    BY <1>3 DEF TypeOK, Box, Watch, Known, Seen, Register, Goto
  <2>4. QED BY <2>1, <2>2, <2>3
<1>4. CASE EmitRunner(a)
  <2>1. TypeOK'
    BY <1>4 DEF TypeOK, Box, Watch, EmitRunner, Goto
  <2>2. \A b \in Attempt : Known(b)'
    BY <1>4 DEF TypeOK, Box, Known, EmitRunner, Goto
  <2>3. Seen'
    BY <1>4 DEF TypeOK, Box, Watch, Known, Seen, EmitRunner, Goto
  <2>4. QED BY <2>1, <2>2, <2>3
<1>5. CASE StartRunner(a)
  <2>1. TypeOK'
    BY <1>5 DEF TypeOK, Box, Watch, StartRunner, Goto
  <2>2. \A b \in Attempt : Known(b)'
    BY <1>5 DEF TypeOK, Box, Known, StartRunner, Goto
  <2>3. Seen'
    BY <1>5 DEF TypeOK, Box, Watch, Known, Seen, StartRunner, Goto
  <2>4. QED BY <2>1, <2>2, <2>3
<1>6. CASE PickUp(a)
  <2>1. TypeOK'
    BY <1>6 DEF TypeOK, Box, Watch, PickUp, Goto
  <2>2. \A b \in Attempt : Known(b)'
    BY <1>6 DEF TypeOK, Box, Known, PickUp, Goto
  <2>3. Seen'
    BY <1>6 DEF TypeOK, Box, Watch, Known, Seen, PickUp, Goto
  <2>4. QED BY <2>1, <2>2, <2>3
<1>7. CASE Tested(a)
  <2>1. TypeOK'
    BY <1>7 DEF TypeOK, Box, Watch, Tested, Goto
  <2>2. \A b \in Attempt : Known(b)'
    BY <1>7 DEF TypeOK, Box, Known, Tested, Goto
  <2>3. Seen'
    BY <1>7 DEF TypeOK, Box, Watch, Known, Seen, Tested, Goto
  <2>4. QED BY <2>1, <2>2, <2>3
<1>8. CASE Fails(a)
  <2>1. TypeOK'
    BY <1>8 DEF TypeOK, Cause, Box, Watch, Fails, Unreported, Excuse, Goto
  <2>2. \A b \in Attempt : Known(b)'
    BY <1>8 DEF TypeOK, Box, Known, Fails, Unreported, Excuse, Goto
  <2>3. Seen'
    BY <1>8 DEF TypeOK, Box, Watch, Known, Seen, Fails, Unreported, Excuse, Goto
  <2>4. QED BY <2>1, <2>2, <2>3
<1>9. CASE Crash(a)
  <2>1. TypeOK'
    BY <1>9 DEF TypeOK, Cause, Box, Watch, Crash, Goto, Excuse
  <2>2. \A b \in Attempt : Known(b)'
    BY <1>9 DEF TypeOK, Box, Known, Crash, Goto, Excuse
  <2>3. Seen'
    BY <1>9 DEF TypeOK, Box, Watch, Known, Seen, Crash, Goto, Excuse
  <2>4. QED BY <2>1, <2>2, <2>3
<1>10. CASE Stranded(a)
  <2>1. TypeOK'
    BY <1>10 DEF TypeOK, Cause, Box, Watch, Stranded, Goto, Excuse
  <2>2. \A b \in Attempt : Known(b)'
    BY <1>10 DEF TypeOK, Box, Known, Stranded, Goto, Excuse
  <2>3. Seen'
    BY <1>10 DEF TypeOK, Box, Watch, Known, Seen, Stranded, Goto, Excuse
  <2>4. QED BY <2>1, <2>2, <2>3
<1>11. CASE Rerun(a)
  <2>1. TypeOK'
    BY <1>11 DEF TypeOK, Box, Watch, Rerun, Goto
  <2>2. \A b \in Attempt : Known(b)'
    BY <1>11 DEF TypeOK, Box, Known, Rerun, Goto
  <2>3. Seen'
    BY <1>11 DEF TypeOK, Box, Watch, Known, Seen, Rerun, Goto
  <2>4. QED BY <2>1, <2>2, <2>3
<1>12. ASSUME NEW ok \in BOOLEAN, Deregister(a, ok) PROVE IInv'
  <2>1. TypeOK'
    <3>1. job' \in [Attempt -> {"none", "launch", "launched", "boot", "registered", "start",
                                "queued", "test", "teardown", "terminate", "over"}]
      BY <1>12 DEF TypeOK, Deregister, Goto
    <3>2. runner' \in [Attempt -> {"absent", "idle", "busy", "gone"}]
      BY <1>12 DEF TypeOK, Deregister
    <3>3. lost' \in [Attempt -> SUBSET Cause]
      BY <1>12 DEF TypeOK, Cause, Deregister, Excuse
    <3>4. QED BY <1>12, <3>1, <3>2, <3>3 DEF TypeOK, Deregister
  <2>2. \A b \in Attempt : Known(b)'
    BY <1>12 DEF TypeOK, Box, Known, Deregister, Goto, Excuse
  <2>3. Seen'
    BY <1>12 DEF TypeOK, Box, Watch, Known, Seen, Deregister, Goto, Excuse
  <2>4. QED BY <2>1, <2>2, <2>3
<1>13. ASSUME NEW ok \in BOOLEAN, Terminate(a, ok) PROVE IInv'
  <2>1. TypeOK'
    <3>1. job' \in [Attempt -> {"none", "launch", "launched", "boot", "registered", "start",
                                "queued", "test", "teardown", "terminate", "over"}]
      BY <1>13 DEF TypeOK, Terminate, Goto
    <3>2. box' \in [Attempt -> Box]
      BY <1>13 DEF TypeOK, Terminate, Box
    <3>3. lost' \in [Attempt -> SUBSET Cause]
      BY <1>13 DEF TypeOK, Cause, Terminate, Excuse
    <3>4. QED BY <1>13, <3>1, <3>2, <3>3 DEF TypeOK, Terminate
  <2>2. \A b \in Attempt : Known(b)'
    BY <1>13 DEF TypeOK, Box, Known, Terminate, Goto, Excuse
  <2>3. Seen'
    BY <1>13 DEF TypeOK, Box, Watch, Known, Seen, Terminate, Goto, Excuse
  <2>4. QED BY <2>1, <2>2, <2>3
<1>14. QED BY <1>1, <1>2, <1>3, <1>4, <1>5, <1>6, <1>7, <1>8, <1>9, <1>10, <1>11, <1>12, <1>13 DEF Provision, Teardown, Outside

\* The watchdog: it lists, judges, terminates and deregisters.
LEMMA WatchInv ==
    ASSUME MaxAge \in Nat, IInv,
           Describe \/ ReaperDies \/ Tick \/ \E a \in Attempt : Reap(a)
    PROVE  IInv'
<1> USE DEF IInv
<1>1. CASE Describe
  <2>1. TypeOK'
    BY <1>1 DEF TypeOK, Box, Watch, Describe
  <2>2. \A b \in Attempt : Known(b)'
    BY <1>1 DEF TypeOK, Box, Watch, Known, Seen, Describe
  <2>3. Seen'
    BY <1>1 DEF TypeOK, Box, Watch, Known, Seen, Describe
  <2>4. QED BY <2>1, <2>2, <2>3
<1>2. CASE ReaperDies
  <2>1. TypeOK'
    BY <1>2 DEF TypeOK, Cause, Box, Watch, ReaperDies, Idle, Excuse
  <2>2. \A b \in Attempt : Known(b)'
    BY <1>2 DEF TypeOK, Box, Watch, Known, Seen, ReaperDies, Idle, Excuse
  <2>3. Seen'
    BY <1>2 DEF TypeOK, Box, Watch, Known, Seen, ReaperDies, Idle, Excuse
  <2>4. QED BY <2>1, <2>2, <2>3
<1>3. CASE Tick
  <2>1. TypeOK'
    BY <1>3 DEF TypeOK, Box, Watch, Tick
  <2>2. \A b \in Attempt : Known(b)'
    BY <1>3 DEF TypeOK, Box, Watch, Known, Seen, Tick
  <2>3. Seen'
    BY <1>3 DEF TypeOK, Box, Watch, Known, Seen, Tick
  <2>4. QED BY <2>1, <2>2, <2>3
<1>4. ASSUME NEW a \in Attempt, NEW status \in Status, View(a, status) PROVE IInv'
  <2>1. TypeOK'
    <3>1. [reaper EXCEPT !.pc = "terminate", !.at = a] \in Watch
      BY DEF TypeOK, Watch
    <3>2. reaper' \in Watch
      BY <1>4, <3>1, DoneType DEF TypeOK, View
    <3>3. QED BY <1>4, <3>2 DEF TypeOK, View
  <2>2. \A b \in Attempt : Known(b)'
    BY <1>4 DEF TypeOK, Box, Watch, Known, Seen, View, Orphan, RunStatus, Done, Idle
  <2>3. Seen'
    <3>1. CASE Orphan(status, reaper.age[a])
      <4>1. job[a] = "over" \/ reaper.age[a] = MaxAge
        BY <1>4, <3>1 DEF TypeOK, Watch, Seen, View, Orphan, RunStatus, Status
      <4>2. reaper' = [reaper EXCEPT !.pc = "terminate", !.at = a] /\ a \in reaper.todo
        BY <1>4, <3>1 DEF View
      <4>3. QED BY <1>4, <4>1, <4>2 DEF TypeOK, Watch, Seen, View
    <3>2. CASE ~Orphan(status, reaper.age[a])
      BY <1>4, <3>2 DEF TypeOK, Watch, Seen, View, Done, Idle
    <3>3. QED BY <3>1, <3>2
  <2>4. QED BY <2>1, <2>2, <2>3
<1>5. ASSUME NEW a \in Attempt, NEW ok \in BOOLEAN, ReapTerminate(a, ok) PROVE IInv'
  <2>1. TypeOK'
    <3>1. [reaper EXCEPT !.pc = "deregister"] \in Watch
      BY DEF TypeOK, Watch
    <3>2. reaper' \in Watch
      BY <1>5, <3>1, DoneType DEF TypeOK, ReapTerminate
    <3>3. box' \in [Attempt -> Box]
      BY <1>5 DEF TypeOK, Box, ReapTerminate
    <3>4. QED BY <1>5, <3>2, <3>3 DEF TypeOK, ReapTerminate
  <2>2. \A b \in Attempt : Known(b)'
    BY <1>5 DEF TypeOK, Box, Watch, Known, Seen, ReapTerminate, Done, Idle
  <2>3. Seen'
    BY <1>5 DEF TypeOK, Box, Watch, Known, Seen, ReapTerminate, Done, Idle
  <2>4. QED BY <2>1, <2>2, <2>3
<1>6. ASSUME NEW a \in Attempt, NEW ok \in BOOLEAN, ReapDeregister(a, ok) PROVE IInv'
  <2>1. TypeOK'
    <3>1. reaper' \in Watch
      BY <1>6, DoneType DEF TypeOK, ReapDeregister
    <3>2. runner' \in [Attempt -> {"absent", "idle", "busy", "gone"}]
      BY <1>6 DEF TypeOK, ReapDeregister
    <3>3. lost' \in [Attempt -> SUBSET Cause]
      BY <1>6 DEF TypeOK, Cause, ReapDeregister, Excuse
    <3>4. QED BY <1>6, <3>1, <3>2, <3>3 DEF TypeOK, ReapDeregister
  <2>2. \A b \in Attempt : Known(b)'
    BY <1>6 DEF TypeOK, Box, Watch, Known, Seen, ReapDeregister, Labelled, Done, Idle, Excuse
  <2>3. Seen'
    BY <1>6 DEF TypeOK, Box, Watch, Known, Seen, ReapDeregister, Labelled, Done, Idle, Excuse
  <2>4. QED BY <2>1, <2>2, <2>3
<1>7. QED BY <1>1, <1>2, <1>3, <1>4, <1>5, <1>6 DEF Reap

LEMMA StepIInv ==
    ASSUME MaxAge \in Nat, IInv, [Next]_vars PROVE IInv'
<1>1. CASE Next
  BY <1>1, AttemptInv, WatchInv DEF Next
<1>2. CASE UNCHANGED vars
  BY <1>2 DEF vars, IInv, TypeOK, Known, Seen
<1>3. QED BY <1>1, <1>2

LEMMA Invariance ==
    ASSUME MaxAge \in Nat PROVE Spec => []IInv
<1>1. Init => IInv
  BY InitIInv
<1>2. IInv /\ [Next]_vars => IInv'
  BY StepIInv
<1>3. QED BY <1>1, <1>2, PTL DEF Spec

-----------------------------------------------------------------------------
\* Whichever step fails, times out or is cancelled, between an effect and the
\* output of its id too (provision.sh, verify-and-register.sh), and however the
\* orchestrator, the teardown job, AWS, GitHub and the watchdog fail: an instance
\* that outlives its attempt was never reported to teardown, or teardown was cut
\* short or its TerminateInstances failed; a registration likewise.
THEOREM LeftoversAreExplained ==
    ASSUME MaxAge \in Nat PROVE Spec => []LeftoversExplained
<1>1. IInv => LeftoversExplained
  BY DEF IInv, Known, LeftoversExplained, Over
<1>2. QED BY <1>1, Invariance, PTL

\* reap-orphans.sh never takes the box from an attempt under way before the
\* maximum age, and no clean-up removes the registration of an attempt that
\* still waits for its runner, although what the watchdog read may be stale
\* by the time it acts.
THEOREM CleanUpLeavesRunningAlone ==
    ASSUME MaxAge \in Nat PROVE Spec => LeftAlone
<1>1. ASSUME IInv, [Next]_vars PROVE LeftAloneStep
  <2> SUFFICES ASSUME NEW a \in Attempt
               PROVE /\ (/\ box[a].state = "live" /\ box'[a].state = "gone"
                         /\ job[a] \notin {"over", "terminate"}) => box[a].age = MaxAge
                     /\ (runner[a] = "idle" /\ runner'[a] = "gone") =>
                            job[a] \in {"teardown", "over"} \/ box[a].state = "gone"
    BY DEF LeftAloneStep
  <2> USE <1>1 DEF IInv
  <2>1. ASSUME NEW b \in Attempt, Provision(b) \/ Outside(b)
        PROVE  /\ box[a].state = "live" => box'[a].state = "live"
               /\ runner[a] = "idle" => runner'[a] # "gone"
    BY <2>1 DEF TypeOK, Box, Known, Provision, Outside, Goto, Launch, EmitInstance, Register, EmitRunner,
       StartRunner, PickUp, Tested, Fails, Crash, Stranded, Rerun
  <2>2. ASSUME NEW b \in Attempt, NEW ok \in BOOLEAN, Deregister(b, ok) \/ Terminate(b, ok)
        PROVE  /\ box[a].state = "live" /\ box'[a].state = "gone" => job[a] = "terminate"
               /\ runner[a] = "idle" /\ runner'[a] = "gone" => job[a] = "teardown"
    BY <2>2 DEF TypeOK, Box, Deregister, Terminate, Goto
  <2>3. ASSUME NEW b \in Attempt, NEW ok \in BOOLEAN, ReapTerminate(b, ok)
        PROVE  /\ box[a].state = "live" /\ box'[a].state = "gone" => job[a] = "over" \/ box[a].age = MaxAge
               /\ runner' = runner
    BY <2>3 DEF TypeOK, Box, Watch, Seen, ReapTerminate
  <2>4. ASSUME NEW b \in Attempt, NEW ok \in BOOLEAN, ReapDeregister(b, ok)
        PROVE  /\ box' = box
               /\ runner[a] = "idle" /\ runner'[a] = "gone" => box[a].state = "gone"
    BY <2>4 DEF TypeOK, Seen, ReapDeregister, Labelled
  <2>5. ASSUME NEW b \in Attempt, NEW status \in Status, View(b, status)
        PROVE  box' = box /\ runner' = runner
    BY <2>5 DEF View
  <2>6. CASE Describe \/ ReaperDies \/ UNCHANGED vars
    BY <2>6 DEF Describe, ReaperDies, vars
  <2>7. CASE Tick
    BY <2>7 DEF TypeOK, Box, Tick
  <2>8. QED BY <1>1, <2>1, <2>2, <2>3, <2>4, <2>5, <2>6, <2>7 DEF Next, Teardown, Reap
<1>2. QED BY <1>1, Invariance, PTL DEF LeftAlone, Spec
=============================================================================
