------------------------------ MODULE Ec2Runners ------------------------------
(***************************************************************************)
(* The ephemeral EC2 runners: the attempts of one workflow run that each   *)
(* launch an instance, register a single-use runner on it and run the      *)
(* suite there (provision.sh, verify-and-register.sh, start-runner.sh),    *)
(* the teardown job, and the watchdog (reap-orphans.sh) that terminates    *)
(* what teardown left behind.                                              *)
(*                                                                         *)
(* AWS, GitHub and the e2e job are the environment: calls fail, the        *)
(* orchestrator or the watchdog dies, a cancelled run never reaches its    *)
(* teardown job.                                                           *)
(***************************************************************************)
EXTENDS Naturals, FiniteSets

CONSTANTS
    Attempts,  \* attempts of the run, re-runs included
    MaxAge     \* MAX_INSTANCE_AGE_MINUTES, in ticks

Attempt == 1..Attempts

VARIABLES
    job,     \* how far each attempt is
    box,     \* its instance: absent, live (pending or running) or gone, and its age
    runner,  \* its registration at GitHub: absent, idle, busy (running the suite) or gone
    output,  \* the ids its provision job handed on to the teardown job
    reaper,  \* the watchdog: what it still has to look at, and where it is
    lost     \* history: what excuses a leftover of the attempt
vars == <<job, box, runner, output, reaper, lost>>

Idle == [pc |-> "idle", todo |-> {}, age |-> [a \in Attempt |-> 0], at |-> 0]

Init ==
    /\ job = [a \in Attempt |-> IF a = 1 THEN "launch" ELSE "none"]
    /\ box = [a \in Attempt |-> [state |-> "absent", age |-> 0]]
    /\ runner = [a \in Attempt |-> "absent"]
    /\ output = [a \in Attempt |-> {}]
    /\ reaper = Idle
    /\ lost = [a \in Attempt |-> {}]

Goto(a, from, to) == job[a] = from /\ job' = [job EXCEPT ![a] = to]
Excuse(a, why) == lost' = [lost EXCEPT ![a] = @ \cup {why}]

-----------------------------------------------------------------------------
\* RunInstances succeeds; the instance is tagged with run id and attempt.
Launch(a) ==
    /\ Goto(a, "launch", "launched")
    /\ box' = [box EXCEPT ![a].state = "live"]
    /\ UNCHANGED <<runner, output, reaper, lost>>

\* The instance id is emitted before the wait for the status checks and ssh.
EmitInstance(a) ==
    /\ Goto(a, "launched", "boot")
    /\ output' = [output EXCEPT ![a] = @ \cup {"instance"}]
    /\ UNCHANGED <<box, runner, reaper, lost>>

\* The box answers and has its tools: generate-jitconfig registers the runner.
Register(a) ==
    /\ Goto(a, "boot", "registered")
    /\ box[a].state = "live"
    /\ runner' = [runner EXCEPT ![a] = "idle"]
    /\ UNCHANGED <<box, output, reaper, lost>>

EmitRunner(a) ==
    /\ Goto(a, "registered", "start")
    /\ output' = [output EXCEPT ![a] = @ \cup {"runner"}]
    /\ UNCHANGED <<box, runner, reaper, lost>>

StartRunner(a) ==
    /\ Goto(a, "start", "queued")
    /\ box[a].state = "live"
    /\ UNCHANGED <<box, runner, output, reaper, lost>>

\* GitHub hands the e2e job to the runner with this attempt's label.
PickUp(a) ==
    /\ Goto(a, "queued", "test")
    /\ runner[a] = "idle" /\ box[a].state = "live"
    /\ runner' = [runner EXCEPT ![a] = "busy"]
    /\ UNCHANGED <<box, output, reaper, lost>>

\* The job completes and its ephemeral runner deregisters itself.
Tested(a) ==
    /\ Goto(a, "test", "teardown")
    /\ box[a].state = "live"
    /\ runner' = [runner EXCEPT ![a] = "gone"]
    /\ UNCHANGED <<box, output, reaper, lost>>

\* A step of the attempt fails, times out or is cancelled, the box vanishing
\* under it included: later jobs are skipped, teardown (if: always()) runs.  A
\* step that ends between an effect and the output of its id leaves teardown
\* without that id: an instance after RunInstances, a runner after
\* generate-jitconfig (its response unusable, a time limit, a cancellation).
Unreported == {"launched", "registered"}
Fails(a) ==
    /\ job[a] \in {"launch", "boot", "start", "queued", "test"} \cup Unreported
    /\ job' = [job EXCEPT ![a] = "teardown"]
    /\ runner' = [runner EXCEPT ![a] = IF @ = "busy" THEN "idle" ELSE @]
    /\ IF job[a] \in Unreported THEN Excuse(a, job[a]) ELSE UNCHANGED lost
    /\ UNCHANGED <<box, output, reaper>>

\* The orchestrator dies during the provision job: a job without a runner
\* reports no outputs, the id it had already written included.
Crash(a) ==
    /\ job[a] \in {"launched", "boot", "registered", "start"}
    /\ job' = [job EXCEPT ![a] = "teardown"]
    /\ output' = [output EXCEPT ![a] = {}]
    /\ Excuse(a, "cut")
    /\ UNCHANGED <<box, runner, reaper>>

\* The run ends without ever running its teardown job, or in the middle of it.
Stranded(a) ==
    /\ job[a] \notin {"none", "over"}
    /\ job' = [job EXCEPT ![a] = "over"]
    /\ runner' = [runner EXCEPT ![a] = IF @ = "busy" THEN "idle" ELSE @]
    /\ Excuse(a, "cut")
    /\ UNCHANGED <<box, output, reaper>>

\* Mutant: a failed DELETE ends the script (set -e).
DeregisterOrExit(a, ok) ==
    /\ Goto(a, "teardown", IF "runner" \in output[a] => ok THEN "terminate" ELSE "over")
    /\ IF "runner" \in output[a] /\ ok
       THEN runner' = [runner EXCEPT ![a] = "gone"]
       ELSE UNCHANGED runner
    /\ IF "runner" \in output[a] /\ ~ok THEN Excuse(a, "delete") ELSE UNCHANGED lost
    /\ UNCHANGED <<box, output, reaper>>

\* teardown.sh first deregisters the runner it was given; a failure is logged.
Deregister(a, ok) ==
    /\ Goto(a, "teardown", "terminate")
    /\ IF "runner" \in output[a] /\ ok
       THEN runner' = [runner EXCEPT ![a] = "gone"]
       ELSE UNCHANGED runner
    /\ IF "runner" \in output[a] /\ ~ok THEN Excuse(a, "delete") ELSE UNCHANGED lost
    /\ UNCHANGED <<box, output, reaper>>

\* Then it terminates the instance it was given; a failure fails the job.
Terminate(a, ok) ==
    /\ Goto(a, "terminate", "over")
    /\ IF "instance" \in output[a] /\ ok
       THEN box' = [box EXCEPT ![a].state = "gone"]
       ELSE UNCHANGED box
    /\ IF "instance" \in output[a] /\ ~ok THEN Excuse(a, "terminate") ELSE UNCHANGED lost
    /\ UNCHANGED <<runner, output, reaper>>

\* All jobs of the completed run are run again: a new attempt.
Rerun(a) ==
    /\ a > 1 /\ job[a - 1] = "over"
    /\ Goto(a, "none", "launch")
    /\ UNCHANGED <<box, runner, output, reaper, lost>>

Tick ==
    /\ box' = [a \in Attempt |-> IF box[a].state = "live" /\ box[a].age < MaxAge
                                 THEN [box[a] EXCEPT !.age = @ + 1] ELSE box[a]]
    /\ UNCHANGED <<job, runner, output, reaper, lost>>

-----------------------------------------------------------------------------
\* The live tagged instances and their ages, read once.
Describe ==
    /\ reaper.pc = "idle"
    /\ LET found == {a \in Attempt : box[a].state = "live"} IN
       /\ found # {}
       /\ reaper' = [pc |-> "view", todo |-> found, at |-> 0,
                     age |-> [a \in Attempt |-> IF a \in found THEN box[a].age ELSE 0]]
    /\ UNCHANGED <<job, box, runner, output, lost>>

Status == {"completed", "in_progress", "unknown"}

\* gh run view <run id>, the attempt stripped off the tag: the latest attempt.
RunStatus == IF \A a \in Attempt : job[a] \in {"over", "none"} THEN "completed" ELSE "in_progress"

\* Mutant: no safety net for what the status cannot tell.
OrphanIfCompleted(status, age) == status = "completed"

Orphan(status, age) == status = "completed" \/ age >= MaxAge

Done(r, a) ==
    IF r.todo = {a} THEN Idle ELSE [r EXCEPT !.pc = "view", !.todo = @ \ {a}, !.at = 0]

View(a, status) ==
    /\ reaper.pc = "view" /\ a \in reaper.todo
    /\ status \in {RunStatus, "unknown"}
    /\ reaper' = IF Orphan(status, reaper.age[a])
                 THEN [reaper EXCEPT !.pc = "terminate", !.at = a]
                 ELSE Done(reaper, a)
    /\ UNCHANGED <<job, box, runner, output, lost>>

ReapTerminate(a, ok) ==
    /\ reaper.pc = "terminate" /\ reaper.at = a
    /\ box' = IF ok THEN [box EXCEPT ![a].state = "gone"] ELSE box
    /\ reaper' = IF ok THEN [reaper EXCEPT !.pc = "deregister"] ELSE Done(reaper, a)
    /\ UNCHANGED <<job, runner, output, lost>>

\* Mutant: the label is built without the attempt.
LabelledByRun(a) == {b \in Attempt : runner[b] \in {"idle", "busy"}}

\* The runners the listing shows under the label of instance a.
Labelled(a) == {b \in {a} : runner[b] \in {"idle", "busy"}}

ReapDeregister(a, ok) ==
    /\ reaper.pc = "deregister" /\ reaper.at = a
    /\ IF Labelled(a) # {} /\ ok
       THEN \E b \in Labelled(a) : runner' = [runner EXCEPT ![b] = "gone"]
       ELSE UNCHANGED runner
    /\ IF Labelled(a) # {} /\ ~ok THEN Excuse(a, "delete") ELSE UNCHANGED lost
    /\ reaper' = Done(reaper, a)
    /\ UNCHANGED <<job, box, output>>

\* The watchdog's job is killed or its script aborts; the schedule starts it again.
ReaperDies ==
    /\ reaper.pc # "idle"
    /\ reaper' = Idle
    /\ IF reaper.pc = "deregister" THEN Excuse(reaper.at, "delete") ELSE UNCHANGED lost
    /\ UNCHANGED <<job, box, runner, output>>

Provision(a) == Launch(a) \/ EmitInstance(a) \/ Register(a) \/ EmitRunner(a) \/ StartRunner(a)
Teardown(a) == \E ok \in BOOLEAN : Deregister(a, ok) \/ Terminate(a, ok)
Outside(a) == PickUp(a) \/ Tested(a) \/ Fails(a) \/ Crash(a) \/ Stranded(a) \/ Rerun(a)
Reap(a) ==
    \/ \E status \in Status : View(a, status)
    \/ \E ok \in BOOLEAN : ReapTerminate(a, ok) \/ ReapDeregister(a, ok)

Next ==
    \/ \E a \in Attempt : Provision(a) \/ Teardown(a) \/ Outside(a) \/ Reap(a)
    \/ Describe
    \/ ReaperDies
    \/ Tick

Spec == Init /\ [][Next]_vars

-----------------------------------------------------------------------------
Over(a) == job[a] = "over"

\* Clean-up is confined to what it cleans up after.  reap-orphans.sh takes the
\* box from under a running attempt only at its maximum age: no failed status
\* lookup, stale listing or completed earlier attempt costs a live suite.  And
\* nobody removes the registration of an attempt that still waits for its
\* runner while the box is there.
LeftAloneStep ==
    \A a \in Attempt :
        /\ (/\ box[a].state = "live" /\ box'[a].state = "gone"
            /\ job[a] \notin {"over", "terminate"}) => box[a].age = MaxAge
        /\ (runner[a] = "idle" /\ runner'[a] = "gone") =>
               job[a] \in {"teardown", "over"} \/ box[a].state = "gone"
LeftAlone == [][LeftAloneStep]_vars

\* What an attempt leaves behind has a cause of its own kind.  A live instance:
\* its step ended before the instance id was out, the orchestrator died and with
\* it the outputs or the teardown, or TerminateInstances failed.  A registration:
\* its step ended before the runner id was out, the orchestrator died, or the
\* DELETE failed.  Nothing else leaves anything behind;
\* in particular no failure about the runner costs the instance its termination.
LeftoversExplained ==
    \A a \in Attempt : Over(a) =>
        /\ box[a].state = "live" => lost[a] \cap {"launched", "cut", "terminate"} # {}
        /\ runner[a] \in {"idle", "busy"} => lost[a] \cap {"registered", "cut", "delete"} # {}

\* Time passes, the schedule keeps starting the watchdog, its lookups end and
\* its TerminateInstances does not fail for ever.
\* An instance is terminated once, so fairness of its termination is stated
\* for all instances together.
Scan == Describe \/ \E a \in Attempt, ok \in BOOLEAN : ReapDeregister(a, ok)
Fairness ==
    /\ WF_vars(Tick)
    /\ WF_vars(Scan)
    /\ \A a \in Attempt : SF_vars(\E s \in Status : View(a, s))
    /\ SF_vars(\E a \in Attempt : ReapTerminate(a, TRUE))
FairSpec == Spec /\ Fairness

\* Every instance that was launched is terminated in the end, whatever dies:
\* there are moments without a live instance for ever after.
NoneLive == \A a \in Attempt : box[a].state # "live"
InstanceGone == []<>NoneLive
=============================================================================
