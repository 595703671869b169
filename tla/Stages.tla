------------------------------- MODULE Stages -------------------------------
(* The stage framework every workflow is built on: the states of a stage, the  *)
(* executor that runs stage functions, reviews and retries by signal, skipped  *)
(* stages, the search attributes that list a run as pending or failed, and the *)
(* end of a run.  A run executes one workflow of the catalogue.  What run does *)
(* between two awaits is one activation: its steps are not interleaved with    *)
(* signals.                                                                    *)
EXTENDS Naturals, Sequences, SequencesExt, FiniteSets

CONSTANTS Catalogue,   \* name -> workflow, see WorkflowCatalogue
          MaxFailures, \* bound on the failures of stages and of the archive in a run
          Ungated,     \* workflows that begin stages after a rejection
          Unsettled,   \* workflows that return with stages left NOT_STARTED
          Misdeclared  \* workflows that ask for a transition the framework refuses

ASSUME MaxFailuresAssumption == MaxFailures \in Nat

\* Labels at which run awaits no stage and ends.
Ending == {"archive", "return", "raise"}

\* The stages a definition awaits at a label.
AwaitedBy(d, l) == IF l \in DOMAIN d.parallel THEN d.parallel[l]
                   ELSE IF l \in DOMAIN d.depends_on THEN <<l>> ELSE <<>>

\* What a way asks of the stages: first its skips, then the stages it begins.
ChangesBy(d, way) ==
  LET Change(new, cascade) == [s \in DOMAIN d.depends_on |-> [stage |-> s, to |-> new, cascade |-> cascade]]
      Each(stages, change) == [i \in DOMAIN stages |-> change[stages[i]]]
  IN  Each(way.skip, Change("UNREACHABLE", way.cascade))
        \o Each(AwaitedBy(d, way.to), Change("IN_PROGRESS", FALSE))

\* A definition names its own stages only, and run goes from label to label.
WellFormed(d) ==
  LET stages == DOMAIN d.depends_on
      ways == d.start \cup UNION {d.run[l] : l \in DOMAIN d.run}
  IN  /\ d.depends_on \in [stages -> SUBSET stages]
      /\ d.reviewed \subseteq stages
      /\ \A l \in DOMAIN d.parallel : d.parallel[l] \in Seq(stages)
      /\ (Ending \cup {"start"}) \cap (stages \cup DOMAIN d.parallel \cup DOMAIN d.run) = {}
      /\ \A way \in ways : /\ way.skip \in Seq(stages) /\ way.cascade \in BOOLEAN
                           /\ way.to \in Ending \cup DOMAIN d.run

\* What a definition must keep to for its reviews to gate what follows: a reviewed
\* stage is awaited alone, run ends after a rejection, and only reviews are waived.
Gated(d) ==
  /\ \A l \in DOMAIN d.parallel : \A i \in DOMAIN d.parallel[l] : d.parallel[l][i] \notin d.reviewed
  /\ \A l \in DOMAIN d.run : \A way \in d.run[l] :
       /\ way.on = "rejected" => way.to \in Ending
       /\ way.on = "waived" => l \in d.reviewed \ DOMAIN d.parallel

ASSUME CatalogueAssumption == \A w \in DOMAIN Catalogue : WellFormed(Catalogue[w])
ASSUME GateAssumption == \A w \in DOMAIN Catalogue \ Ungated : Gated(Catalogue[w])

VARIABLES wf,                   \* the name of the workflow that runs
          self,                 \* its definition
          terminate_on_failure, \* of its input
          label,                \* where run is: "start", a label of the workflow or its end
          todo,                 \* changes of stages on the way to that label
          state,                \* stage -> its state
          requires_approval,    \* stage -> whether it must be reviewed to complete
          verdict,              \* stage -> the last decision about it (history)
          raised,               \* stages whose task has raised
          run,                  \* "running" or how the run ended
          indexed,              \* search attributes: pending approval, failed stage
          stray,                \* a review came for a stage that was not pending (history)
          failures              \* failures so far

vars == <<wf, self, terminate_on_failure, label, todo, state, requires_approval, verdict, raised, run,
          indexed, stray, failures>>

StageNames == DOMAIN self.depends_on

\* The stages awaited at a label.
Awaited(l) == AwaitedBy(self, l)

StateEnum == {"NOT_STARTED", "IN_PROGRESS", "PENDING_APPROVAL", "APPROVED", "REJECTED",
              "COMPLETE", "FAILED", "UNREACHABLE"}
Running == run = "running"
Ends == {"returned", "terminated", "stage_state_failure", "stage_failure",
         "application_error", "archive_failure"}

-----------------------------------------------------------------------------
(* Stage.transition and StageMixin.set_stage_state *)

_VALID_TRANSITIONS ==
  [ NOT_STARTED      |-> {"IN_PROGRESS", "UNREACHABLE"},
    IN_PROGRESS      |-> {"PENDING_APPROVAL", "COMPLETE", "FAILED"},
    PENDING_APPROVAL |-> {"APPROVED", "REJECTED"},
    APPROVED         |-> {"COMPLETE", "FAILED"},
    REJECTED         |-> {"COMPLETE", "FAILED"},
    FAILED           |-> {"IN_PROGRESS"},
    COMPLETE         |-> {},
    UNREACHABLE      |-> {} ]

\* Whether transition accepts a new state; reviews is requires_approval.
transition(s, new, reviews) ==
  /\ new \in _VALID_TRANSITIONS[state[s]]
  /\ ~(new = "COMPLETE" /\ reviews[s] /\ state[s] \notin {"APPROVED", "REJECTED"})

stages_by_dependency(s) == {d \in StageNames : s \in self.depends_on[d]}

\* Mutant: a dependency that was skipped is not met.
DependenciesComplete(s) == \A d \in self.depends_on[s] : state[d] = "COMPLETE"

DependenciesMet(s) == \A d \in self.depends_on[s] : state[d] \in {"COMPLETE", "UNREACHABLE"}

\* The stages set_stage_state moves: none if the state is the same, and those that
\* directly depend on a stage that becomes unreachable.
Moved(s, new, cascade) ==
  IF state[s] = new THEN {}
  ELSE {s} \cup {d \in stages_by_dependency(s) :
                   cascade /\ new = "UNREACHABLE" /\ state[d] # new}

Accepted(s, new, cascade, reviews) ==
  /\ \A d \in Moved(s, new, cascade) : transition(d, new, reviews)
  /\ new = "IN_PROGRESS" /\ state[s] # new => DependenciesMet(s)

\* _upsert_stage_state_search_attributes
Flags(st) == [pending |-> \E s \in StageNames : st[s] = "PENDING_APPROVAL",
              failed  |-> \E s \in StageNames : st[s] = "FAILED"]

\* set_stage_state: the stages are moved, or StageStateFailure ends the run.
set_stage_state(s, new, cascade, reviews) ==
  IF Accepted(s, new, cascade, reviews)
  THEN /\ state' = [d \in StageNames |-> IF d \in Moved(s, new, cascade) THEN new ELSE state[d]]
       /\ indexed' = Flags(state')
  ELSE UNCHANGED <<state, indexed>>

-----------------------------------------------------------------------------
(* run, between two awaits *)

\* Mutant: the last stage to skip is left to the cascade, which a stage that is
\* unreachable already no longer starts.
ChangesHalfSkipped(way) ==
  ChangesBy(self, IF way.skip = <<>> THEN way ELSE [way EXCEPT !.skip = Front(@)])

Changes(way) == ChangesBy(self, way)

\* run is at an await: only then does the worker hand it signals and results.
Idle == Running /\ todo = <<>> /\ label \notin {"return", "raise"}

\* Whether run meets an exception: asyncio.gather passes on the first one, tasks
\* awaited one after another show theirs when their turn comes.
MeetsException(st, exceptions) ==
  LET tasks == Awaited(label)
  IN  \E i \in DOMAIN tasks :
        /\ tasks[i] \in exceptions
        /\ label \in self.gathered \/ \A j \in 1 .. i - 1 : st[tasks[j]] = "COMPLETE"

\* The stages whose functions are being executed.
Executing == {s \in Range(Awaited(label)) \ raised :
                \/ state[s] \in {"IN_PROGRESS", "APPROVED", "REJECTED"}
                \/ state[s] = "PENDING_APPROVAL" /\ s \in self.notifies}

-----------------------------------------------------------------------------
Init ==
  /\ wf \in DOMAIN Catalogue
  /\ self = Catalogue[wf]
  /\ terminate_on_failure \in BOOLEAN
  /\ label = "start"
  /\ todo = <<>>
  /\ state = [s \in StageNames |-> "NOT_STARTED"]
  /\ requires_approval = [s \in StageNames |-> s \in self.reviewed]
  /\ verdict = [s \in StageNames |-> "none"]
  /\ raised = {}
  /\ run = "running"
  /\ indexed = [pending |-> FALSE, failed |-> FALSE]
  /\ stray = FALSE
  /\ failures = 0

\* The workflow is started.
StartRun ==
  /\ Idle /\ label = "start"
  /\ \E way \in self.start : label' = way.to /\ todo' = Changes(way)
  /\ UNCHANGED <<wf, self, terminate_on_failure, state, requires_approval, verdict, raised, run,
                 indexed, stray, failures>>

\* run marks a stage unreachable or begins it.
Advance ==
  /\ Running /\ todo # <<>>
  /\ LET change == Head(todo)
     IN  /\ set_stage_state(change.stage, change.to, change.cascade, requires_approval)
         /\ run' = IF Accepted(change.stage, change.to, change.cascade, requires_approval)
                   THEN run ELSE "stage_state_failure"
  /\ todo' = Tail(todo)
  /\ UNCHANGED <<wf, self, terminate_on_failure, label, requires_approval, verdict, raised, stray,
                 failures>>

\* run returns or raises.
Finish ==
  /\ Running /\ todo = <<>> /\ label \in {"return", "raise"}
  /\ run' = IF label = "return" THEN "returned" ELSE "application_error"
  /\ UNCHANGED <<wf, self, terminate_on_failure, label, todo, state, requires_approval, verdict,
                 raised, indexed, stray, failures>>

\* A stage function has something to review: it shows it and waits.
RequestReview(s) ==
  /\ Idle /\ s \in Executing /\ state[s] = "IN_PROGRESS" /\ s \in self.reviewed
  /\ \E way \in self.run[label] : way.on = "approved"
  /\ state' = [state EXCEPT ![s] = "PENDING_APPROVAL"]
  /\ indexed' = Flags(state')
  /\ UNCHANGED <<wf, self, terminate_on_failure, label, todo, requires_approval, verdict, raised, run,
                 stray, failures>>

\* The outcomes a stage function can return with.
Fits(s, way) == CASE state[s] = "APPROVED" -> way.on = "approved"
                  [] state[s] = "REJECTED" -> way.on = "rejected"
                  [] OTHER -> way.on \notin {"approved", "rejected"}

\* A stage function returns, the executor completes the stage, and run goes on
\* if it awaited nothing else.
Complete(s) ==
  /\ Idle /\ s \in Executing /\ state[s] # "PENDING_APPROVAL"
  /\ \A t \in Range(Awaited(label)) \ {s} : state[t] = "COMPLETE"
  /\ \E way \in self.run[label] :
       /\ Fits(s, way)
       /\ requires_approval' = [requires_approval EXCEPT ![s] = @ /\ way.on # "waived"]
       /\ verdict' = [verdict EXCEPT ![s] = IF way.on = "waived" THEN "waived" ELSE @]
       /\ set_stage_state(s, "COMPLETE", FALSE, requires_approval')
       /\ IF Accepted(s, "COMPLETE", FALSE, requires_approval')
          THEN label' = way.to /\ todo' = Changes(way) /\ UNCHANGED run
          ELSE run' = "stage_state_failure" /\ UNCHANGED <<label, todo>>
  /\ UNCHANGED <<wf, self, terminate_on_failure, raised, stray, failures>>

\* The same, while other stages of the group go on.
CompleteOneOf(s) ==
  /\ Idle /\ s \in Executing
  /\ \E t \in Range(Awaited(label)) \ {s} : state[t] # "COMPLETE"
  /\ state' = [state EXCEPT ![s] = "COMPLETE"]
  /\ indexed' = Flags(state')
  /\ run' = IF MeetsException(state', raised) THEN "stage_failure" ELSE run
  /\ UNCHANGED <<wf, self, terminate_on_failure, label, todo, requires_approval, verdict, raised, stray,
                 failures>>

\* Mutant: the executor passes the exception on without marking the stage, and run
\* does not look at the task.
FailUnmarked(s, retryable) ==
  /\ Idle /\ s \in Executing /\ state[s] = "IN_PROGRESS" /\ failures < MaxFailures
  /\ failures' = failures + 1
  /\ raised' = raised \cup {s}
  /\ UNCHANGED <<wf, self, terminate_on_failure, label, todo, state, requires_approval, verdict, run,
                 indexed, stray>>

\* A stage function raises.  The stage waits for a retry signal, or the failure
\* is passed on to run.
FailStage(s, retryable) ==
  /\ Idle /\ s \in Executing /\ failures < MaxFailures
  /\ state[s] = "IN_PROGRESS" \/ s \in self.notifies
  /\ failures' = failures + 1
  /\ set_stage_state(s, "FAILED", FALSE, requires_approval)
  /\ raised' = IF terminate_on_failure \/ s \in self.unretryable \/ ~retryable
               THEN raised \cup {s} ELSE raised
  /\ run' = IF ~Accepted(s, "FAILED", FALSE, requires_approval) THEN "stage_state_failure"
            ELSE IF MeetsException(state', raised') THEN "stage_failure" ELSE run
  /\ UNCHANGED <<wf, self, terminate_on_failure, label, todo, requires_approval, verdict, stray>>

-----------------------------------------------------------------------------
(* Signals and requests from outside; the API sends them without looking at    *)
(* the stage.                                                                  *)

\* Mutant: a review does not bring the search attributes up to date.
ReviewUnlisted(s, new, decision) ==
  /\ Idle /\ state[s] = "PENDING_APPROVAL"
  /\ state' = [state EXCEPT ![s] = new]
  /\ verdict' = [verdict EXCEPT ![s] = decision]
  /\ UNCHANGED <<wf, self, terminate_on_failure, label, todo, requires_approval, raised, run, indexed,
                 stray, failures>>

Review(s, new, decision) ==
  /\ Idle
  /\ IF state[s] = "PENDING_APPROVAL"
     THEN /\ state' = [state EXCEPT ![s] = new]
          /\ verdict' = [verdict EXCEPT ![s] = decision]
          /\ indexed' = Flags(state')
          /\ UNCHANGED <<run, stray>>
     ELSE /\ run' = "stage_state_failure" /\ stray' = TRUE
          /\ UNCHANGED <<state, verdict, indexed>>
  /\ UNCHANGED <<wf, self, terminate_on_failure, label, todo, requires_approval, raised, failures>>

\* Mutant: a rejection lets the stage function go on as if approved.
RejectApproves(s) == Review(s, "APPROVED", "rejected")

\* Mutant: the decision is stored as the stage's state, and the state as the decision.
ApproveSwapped(s) == Review(s, "approved", "APPROVED")

approve(s) == Review(s, "APPROVED", "approved")
reject(s) == Review(s, "REJECTED", "rejected")

\* A retry signal; one for a stage that is not failed or not retryable is ignored.
retry(s) ==
  /\ Idle /\ s \notin self.unretryable /\ state[s] = "FAILED"
  /\ set_stage_state(s, "IN_PROGRESS", FALSE, requires_approval)
  /\ UNCHANGED <<wf, self, terminate_on_failure, label, todo, requires_approval, verdict, raised, run,
                 stray, failures>>

terminate_workflow ==
  /\ Idle
  /\ run' = "terminated"
  /\ UNCHANGED <<wf, self, terminate_on_failure, label, todo, state, requires_approval, verdict, raised,
                 indexed, stray, failures>>

\* The result is published, in one attempt; run returns, or fails with it.
archive_results ==
  /\ Idle /\ label = "archive"
  /\ \/ run' = "returned" /\ UNCHANGED failures
     \/ /\ failures < MaxFailures /\ failures' = failures + 1
        /\ run' = "archive_failure"
  /\ UNCHANGED <<wf, self, terminate_on_failure, label, todo, state, requires_approval, verdict, raised,
                 indexed, stray>>

Ended == ~Running /\ UNCHANGED vars

Works == \/ StartRun \/ Advance \/ Finish
         \/ \E s \in StageNames : RequestReview(s) \/ Complete(s) \/ CompleteOneOf(s)
         \/ archive_results

Next == \/ Works
        \/ \E s \in StageNames : \/ \E retryable \in BOOLEAN : FailStage(s, retryable)
                                 \/ approve(s) \/ reject(s) \/ retry(s)
        \/ terminate_workflow
        \/ Ended

Spec == Init /\ [][Next]_vars

\* Temporal delivers the results of activities and timers to a worker; nothing is
\* assumed of reviewers and operators.
FairSpec == Spec /\ WF_vars(Works)

-----------------------------------------------------------------------------
(* Properties *)

TypeOK ==
  /\ wf \in DOMAIN Catalogue
  /\ self = Catalogue[wf]
  /\ terminate_on_failure \in BOOLEAN
  /\ label \in {"start"} \cup Ending \cup DOMAIN self.run
  /\ todo \in Seq([stage : StageNames, to : {"UNREACHABLE", "IN_PROGRESS"}, cascade : BOOLEAN])
  /\ state \in [StageNames -> StateEnum]
  /\ requires_approval \in [StageNames -> BOOLEAN]
  /\ verdict \in [StageNames -> {"none", "approved", "rejected", "waived"}]
  /\ raised \subseteq StageNames
  /\ run \in Ends \cup {"running"}
  /\ indexed \in [pending : BOOLEAN, failed : BOOLEAN]
  /\ stray \in BOOLEAN
  /\ failures \in 0 .. MaxFailures

\* The order in which run skips and awaits stages agrees with the dependencies,
\* reviews and transitions the stages are defined with: the framework raises
\* StageStateFailure only because of a review of a stage that is not pending.
DeclaredOrder ==
  run = "stage_state_failure" => stray \/ wf \in Misdeclared

\* A run that returns has settled every stage: nothing is shown as still to come.
\* set_stage_state skips direct dependents only, so run must name the others.
EndedSettled ==
  run = "returned" /\ wf \notin Unsettled =>
    \A s \in StageNames : state[s] \in {"COMPLETE", "UNREACHABLE"}

\* The search attributes by which runs are listed as waiting for a review or as
\* failed agree with the stages, also after signals, which bypass set_stage_state.
IndexCurrent == indexed = Flags(state)

\* After a rejection no stage that depends on the rejected one is begun.
RejectionStops ==
  \A s \in StageNames :
    verdict[s] = "rejected" =>
      \A d \in stages_by_dependency(s) : state[d] \in {"NOT_STARTED", "UNREACHABLE"}

\* The stages implement the approval gate: after a reviewed stage has begun, no
\* stage is begun before it is approved or its review waived.
Gate == INSTANCE ApprovalGate WITH
          gated <- self.reviewed,
          begun <- IF wf \in Ungated THEN {}
                   ELSE {s \in StageNames : state[s] \notin {"NOT_STARTED", "UNREACHABLE"}},
          decision <- IF wf \in Ungated THEN [s \in StageNames |-> "none"] ELSE verdict
GateSpec == Gate!Spec

\* A run does not hang unseen: it ends, or it comes to be listed as waiting for a
\* reviewer or for an operator's retry.
EndsOrListed == Running ~> (~Running \/ indexed.pending \/ indexed.failed)
=============================================================================
