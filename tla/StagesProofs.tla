---------------------------- MODULE StagesProofs ----------------------------
(* For every catalogue of workflows that keeps to the assumptions of Stages    *)
(* and StageWalks: the search attributes agree with the stages after every     *)
(* step; the stages implement the approval gate, and a rejection stops what    *)
(* depends on the stage, where run ends after one; run is refused no change of *)
(* a stage, and leaves none unsettled when it returns, whatever happens at its *)
(* awaits.                                                                     *)
EXTENDS StageWalks, SequenceTheorems, TLAPS

Change == [stage : StageNames, to : {"UNREACHABLE", "IN_PROGRESS"}, cascade : BOOLEAN]

WayOK(way) == /\ way.skip \in Seq(StageNames) /\ way.cascade \in BOOLEAN
              /\ way.to \in Ending \cup DOMAIN self.run

\* What TypeOK and the catalogue say of the workflow that runs.
LEMMA SelfOK ==
  ASSUME TypeOK
  PROVE  /\ self.depends_on \in [StageNames -> SUBSET StageNames]
         /\ self.reviewed \subseteq StageNames
         /\ \A l : Awaited(l) \in Seq(StageNames)
         /\ \A l \in Ending \cup {"start"} : Awaited(l) = <<>> /\ l \notin DOMAIN self.run
         /\ \A way \in self.start : WayOK(way)
         /\ \A l \in DOMAIN self.run : \A way \in self.run[l] : WayOK(way)
<1>1. WellFormed(self)
    BY CatalogueAssumption DEF TypeOK
<1>2. self.depends_on \in [StageNames -> SUBSET StageNames] /\ self.reviewed \subseteq StageNames
    BY <1>1 DEF WellFormed, StageNames
<1>3. ASSUME NEW l PROVE Awaited(l) \in Seq(StageNames)
    <2>1. CASE l \in DOMAIN self.parallel
        BY <1>1, <2>1 DEF WellFormed, StageNames, Awaited, AwaitedBy
    <2>2. l \in StageNames => <<l>> \in Seq(StageNames)
        OBVIOUS
    <2>3. <<>> \in Seq(StageNames)
        OBVIOUS
    <2>4. QED
        BY <2>1, <2>2, <2>3 DEF Awaited, AwaitedBy, StageNames
<1>4. \A l \in Ending \cup {"start"} : Awaited(l) = <<>> /\ l \notin DOMAIN self.run
    BY <1>1 DEF WellFormed, StageNames, Awaited, AwaitedBy
<1>5. \A way \in self.start : WayOK(way)
    BY <1>1 DEF WellFormed, StageNames, WayOK
<1>6. \A l \in DOMAIN self.run : \A way \in self.run[l] : WayOK(way)
    BY <1>1 DEF WellFormed, StageNames, WayOK
<1>7. QED
    BY <1>2, <1>3, <1>4, <1>5, <1>6

\* A function on 1 .. n is a sequence of length n.
LEMMA FunctionIsSeq ==
  ASSUME NEW S, NEW n \in Nat, NEW f \in [1 .. n -> S]
  PROVE  f \in Seq(S) /\ Len(f) = n
OBVIOUS

\* What a way asks for: its skips, and then the beginning of the stages awaited next.
LEMMA ChangesOf ==
  ASSUME TypeOK, NEW way, WayOK(way)
  PROVE  /\ Changes(way) \in Seq(Change)
         /\ Len(Changes(way)) = Len(way.skip) + Len(Awaited(way.to))
         /\ \A i \in 1 .. Len(way.skip) : Changes(way)[i].to = "UNREACHABLE"
         /\ \A i \in 1 .. Len(Awaited(way.to)) :
              LET change == Changes(way)[Len(way.skip) + i]
              IN  change.to = "IN_PROGRESS" /\ change.stage = Awaited(way.to)[i]
<1> DEFINE next == Awaited(way.to)
           Asked(s, new, cascade) == [stage |-> s, to |-> new, cascade |-> cascade]
           skips == [i \in DOMAIN way.skip |-> Asked(way.skip[i], "UNREACHABLE", way.cascade)]
           begins == [i \in DOMAIN next |-> Asked(next[i], "IN_PROGRESS", FALSE)]
<1>1. next \in Seq(StageNames) /\ way.skip \in Seq(StageNames) /\ way.cascade \in BOOLEAN
    BY SelfOK DEF WayOK
<1>2. /\ Len(way.skip) \in Nat /\ DOMAIN way.skip = 1 .. Len(way.skip)
      /\ Len(next) \in Nat /\ DOMAIN next = 1 .. Len(next)
      /\ \A i \in DOMAIN way.skip : way.skip[i] \in StageNames
      /\ \A i \in DOMAIN next : next[i] \in StageNames
    BY <1>1
<1>3. skips \in Seq(Change) /\ Len(skips) = Len(way.skip)
    <2>1. skips \in [1 .. Len(way.skip) -> Change]
        BY <1>1, <1>2 DEF Change
    <2> HIDE DEF skips, Change
    <2>2. QED
        BY <1>2, <2>1, FunctionIsSeq
<1>4. begins \in Seq(Change) /\ Len(begins) = Len(next)
    <2>1. begins \in [1 .. Len(next) -> Change]
        BY <1>1, <1>2 DEF Change
    <2> HIDE DEF begins, Change, next
    <2>2. QED
        BY <1>2, <2>1, FunctionIsSeq
<1>5. \A i \in 1 .. Len(way.skip) : skips[i].to = "UNREACHABLE"
    BY <1>1
<1>6. \A i \in 1 .. Len(next) : begins[i].to = "IN_PROGRESS" /\ begins[i].stage = next[i]
    BY <1>1
<1>7. Changes(way) = skips \o begins
    <2> DEFINE Each(stages, new, cascade) ==
                 [i \in DOMAIN stages |-> [s \in StageNames |-> Asked(s, new, cascade)][stages[i]]]
    <2>1. Each(way.skip, "UNREACHABLE", way.cascade) = skips
        BY <1>2
    <2>2. Each(next, "IN_PROGRESS", FALSE) = begins
        BY <1>2
    <2>3. Changes(way) = Each(way.skip, "UNREACHABLE", way.cascade) \o Each(next, "IN_PROGRESS", FALSE)
        BY DEF Changes, ChangesBy, Awaited, StageNames
    <2>4. QED
        BY <2>1, <2>2, <2>3
<1> HIDE DEF skips, begins, next, Change
<1>8. /\ skips \o begins \in Seq(Change) /\ Len(skips \o begins) = Len(skips) + Len(begins)
      /\ \A i \in 1 .. Len(skips) : (skips \o begins)[i] = skips[i]
      /\ \A i \in 1 .. Len(begins) : (skips \o begins)[Len(skips) + i] = begins[i]
    <2>1. /\ skips \o begins \in Seq(Change) /\ Len(skips \o begins) = Len(skips) + Len(begins)
          /\ \A i \in 1 .. Len(skips) + Len(begins) : (skips \o begins)[i] =
                IF i <= Len(skips) THEN skips[i] ELSE begins[i - Len(skips)]
        BY <1>3, <1>4, ConcatProperties
    <2>2. Len(skips) \in Nat /\ Len(begins) \in Nat
        BY <1>2, <1>3, <1>4
    <2>3. QED
        BY <2>1, <2>2
<1>9. QED
    BY <1>3, <1>4, <1>5, <1>6, <1>7, <1>8 DEF next

-----------------------------------------------------------------------------
LEMMA FlagsType == ASSUME NEW st PROVE Flags(st) \in [pending : BOOLEAN, failed : BOOLEAN]
BY DEF Flags

\* TypeOK and IndexCurrent in parts: where run is, what is shown, what was decided,
\* how it goes.
PlaceOK(l, t) == l \in {"start"} \cup Ending \cup DOMAIN self.run /\ t \in Seq(Change)
ShownOK(st, ix) == st \in [StageNames -> StateEnum] /\ ix = Flags(st)
DecidedOK(reviews, v) == /\ reviews \in [StageNames -> BOOLEAN]
                         /\ v \in [StageNames -> {"none", "approved", "rejected", "waived"}]
RunOK(exceptions, r, f) == /\ exceptions \subseteq StageNames
                           /\ r \in Ends \cup {"running"}
                           /\ f \in 0 .. MaxFailures

LEMMA Parts ==
  ASSUME TypeOK, IndexCurrent
  PROVE  /\ PlaceOK(label, todo) /\ ShownOK(state, indexed)
         /\ DecidedOK(requires_approval, verdict) /\ RunOK(raised, run, failures)
BY DEF TypeOK, IndexCurrent, PlaceOK, ShownOK, DecidedOK, RunOK, Change

LEMMA PartsNext ==
  ASSUME TypeOK, UNCHANGED <<wf, self, terminate_on_failure>>, stray' \in BOOLEAN,
         PlaceOK(label', todo'), ShownOK(state', indexed'),
         DecidedOK(requires_approval', verdict'), RunOK(raised', run', failures')
  PROVE  TypeOK' /\ IndexCurrent'
<1>1. StageNames' = StageNames /\ Flags(state)' = Flags(state')
    BY DEF StageNames, Flags
<1>2. indexed' \in [pending : BOOLEAN, failed : BOOLEAN]
    BY FlagsType DEF ShownOK
<1>3. QED
    BY <1>1, <1>2 DEF TypeOK, IndexCurrent, PlaceOK, ShownOK, DecidedOK, RunOK, Change

\* set_stage_state keeps the search attributes with the stages.
LEMMA SetStageState ==
  ASSUME TypeOK, ShownOK(state, indexed), NEW s \in StageNames, NEW new \in StateEnum,
         NEW cascade, NEW reviews, set_stage_state(s, new, cascade, reviews)
  PROVE  ShownOK(state', indexed')
<1>1. CASE Accepted(s, new, cascade, reviews)
    BY <1>1 DEF set_stage_state, ShownOK
<1>2. CASE ~Accepted(s, new, cascade, reviews)
    <2>1. state' = state /\ indexed' = indexed
        BY <1>2 DEF set_stage_state
    <2>2. QED
        BY <2>1 DEF ShownOK
<1>3. QED
    BY <1>1, <1>2

\* Where a way leads run.
LEMMA WayPlace ==
  ASSUME TypeOK, NEW way, WayOK(way)
  PROVE  PlaceOK(way.to, Changes(way))
BY ChangesOf DEF WayOK, PlaceOK

\* run awaits stages only at the labels it has ways on from.
LEMMA AwaitedAtLabel ==
  ASSUME TypeOK, NEW s \in Executing
  PROVE  label \in DOMAIN self.run /\ \E i \in DOMAIN Awaited(label) : s = Awaited(label)[i]
<1>1. \E i \in DOMAIN Awaited(label) : s = Awaited(label)[i]
    BY DEF Executing, Range
<1>2. Awaited(label) # <<>>
    BY <1>1
<1>3. QED
    BY <1>1, <1>2, SelfOK DEF TypeOK

\* A review keeps the types, and the search attributes with the stages.
LEMMA ReviewKeeps ==
  ASSUME TypeOK, IndexCurrent, NEW s \in StageNames, NEW new \in StateEnum,
         NEW decision \in {"approved", "rejected"}, Review(s, new, decision)
  PROVE  TypeOK' /\ IndexCurrent'
<1>1. /\ PlaceOK(label, todo) /\ ShownOK(state, indexed)
      /\ DecidedOK(requires_approval, verdict) /\ RunOK(raised, run, failures)
    BY Parts
<1>2. UNCHANGED <<wf, self, terminate_on_failure, label, todo, requires_approval, raised, failures>>
    BY DEF Review
<1>3. stray' \in BOOLEAN
    BY DEF Review, TypeOK
<1>4. ShownOK(state', indexed')
    BY <1>1 DEF Review, ShownOK
<1>5. DecidedOK(requires_approval', verdict')
    BY <1>1, <1>2 DEF Review, DecidedOK
<1>6. RunOK(raised', run', failures')
    BY <1>1, <1>2 DEF Review, RunOK, Ends
<1>7. QED
    BY <1>1, <1>2, <1>3, <1>4, <1>5, <1>6, PartsNext

\* Every step keeps the types, and the search attributes with the stages.
LEMMA TypeStep ==
  ASSUME TypeOK, IndexCurrent, [Next]_vars
  PROVE  TypeOK' /\ IndexCurrent'
<1> DEFINE Goal == TypeOK' /\ IndexCurrent'
<1>a. /\ PlaceOK(label, todo) /\ ShownOK(state, indexed) /\ stray \in BOOLEAN
      /\ DecidedOK(requires_approval, verdict) /\ RunOK(raised, run, failures)
    BY Parts DEF TypeOK
<1>1. CASE StartRun
  <2>1. UNCHANGED <<wf, self, terminate_on_failure, stray, state, indexed, requires_approval, verdict, raised, run, failures>>
    BY <1>1 DEF StartRun
  <2>2. PlaceOK(label', todo')
    BY <1>1, SelfOK, WayPlace DEF StartRun
  <2>3. QED
    BY <1>a, <2>1, <2>2, PartsNext
<1>2. CASE Advance
  <2>1. todo # <<>> /\ todo \in Seq(Change) /\ todo' = Tail(todo) /\ label' = label
    BY <1>2, <1>a DEF Advance, PlaceOK
  <2>2. Head(todo) \in Change /\ todo' \in Seq(Change) /\ label' = label
    BY <2>1, HeadTailProperties
  <2>3. UNCHANGED <<wf, self, terminate_on_failure, stray, requires_approval, verdict>>
    BY <1>2 DEF Advance
  <2>4. PlaceOK(label', todo')
    BY <1>a, <2>2 DEF PlaceOK
  <2>5. ShownOK(state', indexed')
    <3>1. Head(todo).stage \in StageNames /\ Head(todo).to \in StateEnum
      BY <2>2 DEF Change, StateEnum
    <3>2. QED
      BY <1>2, <1>a, <3>1, SetStageState DEF Advance
  <2>6. RunOK(raised', run', failures')
    BY <1>2, <1>a DEF Advance, RunOK, Ends
  <2>7. QED
    BY <1>a, <2>3, <2>4, <2>5, <2>6, PartsNext
<1>3. CASE Finish
  <2>1. UNCHANGED <<wf, self, terminate_on_failure, stray, label, todo, state, indexed, requires_approval, verdict>>
    BY <1>3 DEF Finish
  <2>2. RunOK(raised', run', failures')
    BY <1>3, <1>a DEF Finish, RunOK, Ends
  <2>3. QED
    BY <1>a, <2>1, <2>2, PartsNext
<1>4. ASSUME NEW s \in StageNames, RequestReview(s) PROVE Goal
  <2>1. UNCHANGED <<wf, self, terminate_on_failure, stray, label, todo, requires_approval, verdict, raised, run, failures>>
    BY <1>4 DEF RequestReview
  <2>2. ShownOK(state', indexed')
    BY <1>4, <1>a DEF RequestReview, ShownOK, StateEnum
  <2>3. QED
    BY <1>a, <2>1, <2>2, PartsNext
<1>5. ASSUME NEW s \in StageNames, Complete(s) PROVE Goal
  <2>1. PICK way \in self.run[label] :
          /\ requires_approval' = [requires_approval EXCEPT ![s] = @ /\ way.on # "waived"]
          /\ verdict' = [verdict EXCEPT ![s] = IF way.on = "waived" THEN "waived" ELSE @]
          /\ set_stage_state(s, "COMPLETE", FALSE, requires_approval')
          /\ \/ label' = way.to /\ todo' = Changes(way) /\ UNCHANGED run
             \/ run' = "stage_state_failure" /\ UNCHANGED <<label, todo>>
    BY <1>5 DEF Complete
  <2>2. label \in DOMAIN self.run
    BY <1>5, AwaitedAtLabel DEF Complete
  <2>3. UNCHANGED <<wf, self, terminate_on_failure, raised, stray, failures>>
    BY <1>5 DEF Complete
  <2>4. PlaceOK(label', todo')
    BY <1>a, <2>1, <2>2, SelfOK, WayPlace
  <2>5. ShownOK(state', indexed')
    BY <1>a, <2>1, SetStageState DEF StateEnum
  <2>6. DecidedOK(requires_approval', verdict')
    BY <1>a, <2>1 DEF DecidedOK
  <2>7. RunOK(raised', run', failures')
    BY <1>a, <2>1, <2>3 DEF RunOK, Ends
  <2>8. QED
    BY <1>a, <2>3, <2>4, <2>5, <2>6, <2>7, PartsNext
<1>6. ASSUME NEW s \in StageNames, CompleteOneOf(s) PROVE Goal
  <2>1. UNCHANGED <<wf, self, terminate_on_failure, stray, label, todo, requires_approval, verdict>>
    BY <1>6 DEF CompleteOneOf
  <2>2. ShownOK(state', indexed')
    BY <1>6, <1>a DEF CompleteOneOf, ShownOK, StateEnum
  <2>3. RunOK(raised', run', failures')
    BY <1>6, <1>a DEF CompleteOneOf, RunOK, Ends
  <2>4. QED
    BY <1>a, <2>1, <2>2, <2>3, PartsNext
<1>7. CASE archive_results
  <2>1. UNCHANGED <<wf, self, terminate_on_failure, stray, label, todo, state, indexed, requires_approval, verdict>>
    BY <1>7 DEF archive_results
  <2>2. RunOK(raised', run', failures')
    BY <1>7, <1>a, MaxFailuresAssumption DEF archive_results, RunOK, Ends
  <2>3. QED
    BY <1>a, <2>1, <2>2, PartsNext
<1>8. ASSUME NEW s \in StageNames, NEW retryable \in BOOLEAN, FailStage(s, retryable)
     PROVE  Goal
  <2>1. UNCHANGED <<wf, self, terminate_on_failure, stray, label, todo, requires_approval, verdict>>
    BY <1>8 DEF FailStage
  <2>2. ShownOK(state', indexed')
    BY <1>8, <1>a, SetStageState DEF FailStage, StateEnum
  <2>3. RunOK(raised', run', failures')
    <3>1. raised' \subseteq StageNames
      BY <1>8, <1>a DEF FailStage, RunOK
    <3>2. run' \in {"stage_state_failure", "stage_failure", run}
      BY <1>8 DEF FailStage
    <3>3. failures' \in 0 .. MaxFailures
      BY <1>8, <1>a, MaxFailuresAssumption DEF FailStage, RunOK
    <3>4. QED
      BY <1>a, <3>1, <3>2, <3>3 DEF RunOK, Ends
  <2>4. QED
    BY <1>a, <2>1, <2>2, <2>3, PartsNext
<1>9. ASSUME NEW s \in StageNames, approve(s) PROVE Goal
    BY <1>9, <1>a, ReviewKeeps DEF approve, StateEnum
<1>10. ASSUME NEW s \in StageNames, reject(s) PROVE Goal
    BY <1>10, <1>a, ReviewKeeps DEF reject, StateEnum
<1>11. ASSUME NEW s \in StageNames, retry(s) PROVE Goal
  <2>1. UNCHANGED <<wf, self, terminate_on_failure, stray, label, todo, requires_approval, verdict, raised, run, failures>>
    BY <1>11 DEF retry
  <2>2. ShownOK(state', indexed')
    BY <1>11, <1>a, SetStageState DEF retry, StateEnum
  <2>3. QED
    BY <1>a, <2>1, <2>2, PartsNext
<1>12. CASE terminate_workflow
  <2>1. UNCHANGED <<wf, self, terminate_on_failure, stray, label, todo, state, indexed, requires_approval, verdict>>
    BY <1>12 DEF terminate_workflow
  <2>2. RunOK(raised', run', failures')
    BY <1>12, <1>a DEF terminate_workflow, RunOK, Ends
  <2>3. QED
    BY <1>a, <2>1, <2>2, PartsNext
<1>13. CASE UNCHANGED vars
    BY <1>13, <1>a, PartsNext DEF vars
<1>14. QED
    BY <1>1, <1>2, <1>3, <1>4, <1>5, <1>6, <1>7, <1>8, <1>9, <1>10, <1>11, <1>12, <1>13
       DEF Next, Works, Ended

LEMMA TypeInitially == Init => TypeOK /\ IndexCurrent
<1> SUFFICES ASSUME Init PROVE TypeOK /\ IndexCurrent
    OBVIOUS
<1>1. TypeOK
    <2>1. todo \in Seq(Change)
        BY DEF Init
    <2>2. /\ state \in [StageNames -> StateEnum]
          /\ verdict \in [StageNames -> {"none", "approved", "rejected", "waived"}]
        BY DEF Init, StateEnum
    <2>3. requires_approval \in [StageNames -> BOOLEAN]
        BY DEF Init
    <2>4. /\ wf \in DOMAIN Catalogue /\ self = Catalogue[wf] /\ terminate_on_failure \in BOOLEAN
          /\ label = "start" /\ raised = {} /\ run = "running" /\ stray = FALSE
          /\ indexed \in [pending : BOOLEAN, failed : BOOLEAN]
        BY DEF Init
    <2>5. failures \in 0 .. MaxFailures
        BY MaxFailuresAssumption DEF Init
    <2>6. QED
        BY <2>1, <2>2, <2>3, <2>4, <2>5 DEF TypeOK, Change
<1>2. IndexCurrent
    BY DEF Init, IndexCurrent, Flags
<1>3. QED
    BY <1>1, <1>2

\* The state of a run is of its type whichever workflow of the catalogue it executes:
\* run goes to labels it has, and asks only for changes of the workflow's own stages.
THEOREM TypeCorrect == Spec => []TypeOK
BY TypeInitially, TypeStep, PTL DEF Spec

\* A run is listed as waiting for a review, or as failed, exactly while a stage of it
\* is, after every change of a stage: by run, by the executor and by signals.
THEOREM ListedRuns == Spec => []IndexCurrent
BY TypeInitially, TypeStep, PTL DEF Spec

-----------------------------------------------------------------------------
(* The approval gate.  The invariant is stated of the values of the variables, *)
(* so that it can be read of a state and of the next one.                      *)

Begun(st, s) == st[s] \notin {"NOT_STARTED", "UNREACHABLE"}
Begins(t, i) == t[i].to = "IN_PROGRESS"

\* Before run starts, no stage is begun.
StartAt(l, t, st) == l = "start" => t = <<>> /\ \A s \in StageNames : st[s] = "NOT_STARTED"

\* Only reviewed stages are reviewed, and a stage that is not complete needs it.
ReviewAt(st, reviews, v, r) ==
  \A s \in StageNames :
    /\ st[s] \in {"PENDING_APPROVAL", "APPROVED", "REJECTED"} => s \in self.reviewed
    /\ st[s] = "APPROVED" => v[s] = "approved"
    /\ s \in self.reviewed /\ r = "running" /\ st[s] # "COMPLETE" => reviews[s]

\* A reviewed stage that is to be begun is the only one.
TodoAt(l, t) ==
  \A i \in DOMAIN t : Begins(t, i) /\ t[i].stage \in self.reviewed =>
     Awaited(l) = <<t[i].stage>> /\ \A j \in DOMAIN t : Begins(t, j) => j = i

\* A reviewed stage that is begun is behind run, approved or waived; or run awaits
\* it, or ends, and no stage is to be begun.
HeldAt(l, t, st, v) ==
  \A s \in self.reviewed : Begun(st, s) =>
     \/ st[s] = "COMPLETE" /\ v[s] \in {"approved", "waived"}
     \/ (\A i \in DOMAIN t : ~Begins(t, i)) /\ (Awaited(l) = <<s>> \/ l \in Ending)

GateInv == /\ StartAt(label, todo, state)
           /\ ReviewAt(state, requires_approval, verdict, run)
           /\ TodoAt(label, todo)
           /\ HeldAt(label, todo, state, verdict)

LEMMA GateNext ==
  ASSUME self' = self, StartAt(label', todo', state'),
         ReviewAt(state', requires_approval', verdict', run'),
         TodoAt(label', todo'), HeldAt(label', todo', state', verdict')
  PROVE  GateInv'
BY DEF GateInv, StartAt, ReviewAt, TodoAt, HeldAt, Awaited, AwaitedBy, StageNames, Begun, Begins

\* Steps of the gate: none, a decision, or the beginning of a stage.
SameBegun == \A s \in StageNames : Begun(state', s) = Begun(state, s)

LEMMA GateStutters ==
  ASSUME UNCHANGED <<wf, self, verdict>>, SameBegun
  PROVE  [Gate!Next]_(Gate!vars)
BY DEF Gate!vars, SameBegun, Begun, StageNames

LEMMA GateDecides ==
  ASSUME TypeOK, wf \notin Ungated, UNCHANGED <<wf, self>>, SameBegun,
         NEW s \in self.reviewed, Begun(state, s), NEW d \in {"approved", "rejected", "waived"},
         verdict' = [verdict EXCEPT ![s] = d]
  PROVE  [Gate!Next]_(Gate!vars)
<1>1. s \in StageNames
    BY SelfOK
<1>2. Gate!Decide
    BY <1>1 DEF Gate!Decide, Gate!Decides, SameBegun, Begun, StageNames
<1>3. QED
    BY <1>2 DEF Gate!Next

LEMMA GateBegins ==
  ASSUME TypeOK, wf \notin Ungated, UNCHANGED <<wf, self, verdict>>,
         NEW s \in StageNames, ~Begun(state, s), state' = [state EXCEPT ![s] = "IN_PROGRESS"],
         \A t \in self.reviewed : Begun(state, t) => verdict[t] \in {"approved", "waived"}
  PROVE  [Gate!Next]_(Gate!vars)
<1> DEFINE before == {t \in StageNames : state[t] \notin {"NOT_STARTED", "UNREACHABLE"}}
           after == {t \in StageNames : state'[t] \notin {"NOT_STARTED", "UNREACHABLE"}}
<1>1. before # after /\ before \subseteq after /\ after \subseteq DOMAIN verdict
    BY DEF TypeOK, Begun
<1>2. Gate!Begin
    BY <1>1 DEF Gate!Begin, Gate!Open, Begun, StageNames
<1>3. QED
    BY <1>2 DEF Gate!Next

\* The transitions a stage may take, read backwards.
LEMMA ValidTransitions ==
  ASSUME TypeOK, NEW s \in StageNames, NEW new, NEW reviews, transition(s, new, reviews)
  PROVE  /\ new = "UNREACHABLE" => state[s] = "NOT_STARTED"
         /\ new = "IN_PROGRESS" => state[s] \in {"NOT_STARTED", "FAILED"}
         /\ new \in {"COMPLETE", "FAILED"} => state[s] \in {"IN_PROGRESS", "APPROVED", "REJECTED"}
         /\ new = "COMPLETE" /\ reviews[s] => state[s] \in {"APPROVED", "REJECTED"}
<1>1. new \in _VALID_TRANSITIONS[state[s]] /\ state[s] \in StateEnum
    BY DEF transition, TypeOK
<1>2. QED
    BY <1>1 DEF transition, _VALID_TRANSITIONS, StateEnum

\* set_stage_state moves one stage, unless it skips dependents with it.
LEMMA SetOne ==
  ASSUME TypeOK, NEW s \in StageNames, NEW new \in StateEnum, NEW cascade, NEW reviews,
         cascade = FALSE \/ new # "UNREACHABLE", set_stage_state(s, new, cascade, reviews)
  PROVE  \/ state' = state
         \/ /\ Accepted(s, new, cascade, reviews) /\ transition(s, new, reviews)
            /\ state' = [state EXCEPT ![s] = new]
<1>1. Moved(s, new, cascade) = IF state[s] = new THEN {} ELSE {s}
    BY DEF Moved
<1>2. CASE Accepted(s, new, cascade, reviews)
    <2>1. state' = [d \in StageNames |-> IF d \in Moved(s, new, cascade) THEN new ELSE state[d]]
        BY <1>2 DEF set_stage_state
    <2>2. CASE state[s] = new
        BY <1>1, <2>1, <2>2 DEF TypeOK
    <2>3. CASE state[s] # new
        BY <1>1, <1>2, <2>1, <2>3 DEF TypeOK, Accepted
    <2>4. QED
        BY <2>2, <2>3
<1>3. CASE ~Accepted(s, new, cascade, reviews)
    BY <1>3 DEF set_stage_state
<1>4. QED
    BY <1>2, <1>3

\* A skip moves stages that have not been started.
LEMMA SetSkip ==
  ASSUME TypeOK, NEW s \in StageNames, NEW cascade, NEW reviews,
         set_stage_state(s, "UNREACHABLE", cascade, reviews)
  PROVE  \A d \in StageNames : \/ state'[d] = state[d]
                               \/ state[d] = "NOT_STARTED" /\ state'[d] = "UNREACHABLE"
<1>1. CASE Accepted(s, "UNREACHABLE", cascade, reviews)
    <2>1. ASSUME NEW d \in StageNames, d \in Moved(s, "UNREACHABLE", cascade)
          PROVE  state[d] = "NOT_STARTED"
        BY <1>1, <2>1, ValidTransitions DEF Accepted
    <2>2. QED
        BY <1>1, <2>1 DEF set_stage_state
<1>2. CASE ~Accepted(s, "UNREACHABLE", cascade, reviews)
    BY <1>2 DEF set_stage_state
<1>3. QED
    BY <1>1, <1>2

\* What a way asks for keeps TodoAt, and an ending asks for no beginning.
LEMMA TodoOfWay ==
  ASSUME TypeOK, wf \notin Ungated, NEW way, WayOK(way)
  PROVE  /\ TodoAt(way.to, Changes(way))
         /\ way.to \in Ending => \A i \in DOMAIN Changes(way) : ~Begins(Changes(way), i)
<1> DEFINE next == Awaited(way.to)
           changes == Changes(way)
           n == Len(way.skip)
<1>1. /\ changes \in Seq(Change) /\ Len(changes) = n + Len(next)
      /\ \A i \in 1 .. n : changes[i].to = "UNREACHABLE"
      /\ \A i \in 1 .. Len(next) : changes[n + i].stage = next[i]
      /\ n \in Nat /\ next \in Seq(StageNames)
    <2>1. n \in Nat /\ next \in Seq(StageNames)
        BY SelfOK DEF WayOK
    <2>2. /\ changes \in Seq(Change) /\ Len(changes) = n + Len(next)
          /\ \A i \in 1 .. n : changes[i].to = "UNREACHABLE"
        BY ChangesOf
    <2>3. \A i \in 1 .. Len(next) : changes[n + i].stage = next[i]
        BY ChangesOf
    <2>4. QED
        BY <2>1, <2>2, <2>3
<1>2. \A i \in DOMAIN changes : Begins(changes, i) =>
        \E k \in 1 .. Len(next) : i = n + k /\ changes[i].stage = next[k]
    <2> SUFFICES ASSUME NEW i \in DOMAIN changes, Begins(changes, i)
                 PROVE  \E k \in 1 .. Len(next) : i = n + k /\ changes[i].stage = next[k]
        OBVIOUS
    <2> HIDE DEF changes, next, n
    <2>1. i \in 1 .. n + Len(next) /\ Len(next) \in Nat
        BY <1>1
    <2>2. i \notin 1 .. n
        BY <1>1 DEF Begins
    <2>3. i - n \in 1 .. Len(next) /\ i = n + (i - n)
        BY <1>1, <2>1, <2>2
    <2>4. QED
        BY <1>1, <2>3
<1>3. Gated(self)
    BY GateAssumption DEF TypeOK
<1>4. ASSUME NEW k \in 1 .. Len(next), next[k] \in self.reviewed
      PROVE  Len(next) = 1 /\ k = 1 /\ next = <<next[k]>>
    <2>1. way.to \notin DOMAIN self.parallel
        BY <1>1, <1>3, <1>4 DEF Gated, Awaited, AwaitedBy, StageNames
    <2>2. next = <<way.to>>
        BY <1>1, <1>4, <2>1 DEF Awaited, AwaitedBy, StageNames
    <2>3. QED
        BY <1>4, <2>2
<1>5. TodoAt(way.to, changes)
    <2> SUFFICES ASSUME NEW i \in DOMAIN changes, Begins(changes, i),
                        changes[i].stage \in self.reviewed
                 PROVE  next = <<changes[i].stage>> /\ \A j \in DOMAIN changes : Begins(changes, j) => j = i
        BY DEF TodoAt
    <2>1. PICK k \in 1 .. Len(next) : i = n + k /\ changes[i].stage = next[k]
        BY <1>2
    <2>2. Len(next) = 1 /\ k = 1 /\ next = <<next[k]>>
        BY <1>4, <2>1
    <2> HIDE DEF changes, next, n
    <2>3. QED
        BY <1>1, <1>2, <2>1, <2>2
<1>6. ASSUME way.to \in Ending, NEW i \in DOMAIN changes PROVE ~Begins(changes, i)
    <2>1. Len(next) = 0
        BY <1>6, SelfOK
    <2> HIDE DEF changes, next, n
    <2>2. QED
        BY <1>2, <1>6, <2>1
<1>7. QED
    BY <1>5, <1>6

\* The rest of the changes keeps what TodoAt and HeldAt say of them.
LEMMA RestOfTodo ==
  ASSUME TypeOK, todo # <<>>, TodoAt(label, todo)
  PROVE  /\ TodoAt(label, Tail(todo))
         /\ \A i \in DOMAIN Tail(todo) : /\ i + 1 \in DOMAIN todo /\ i + 1 # 1
                                         /\ Begins(Tail(todo), i) => Begins(todo, i + 1)
         /\ Head(todo) \in Change /\ 1 \in DOMAIN todo /\ Head(todo) = todo[1]
<1>1. todo \in Seq(Change)
    BY DEF TypeOK, Change
<1> HIDE DEF Change
<1>2. /\ Head(todo) \in Change /\ Head(todo) = todo[1] /\ 1 \in DOMAIN todo
      /\ DOMAIN todo = 1 .. Len(todo) /\ Len(todo) \in Nat
    BY <1>1
<1>3. /\ Tail(todo) \in Seq(Change) /\ Len(Tail(todo)) = Len(todo) - 1
      /\ \A i \in 1 .. Len(Tail(todo)) : Tail(todo)[i] = todo[i + 1]
    BY <1>1, HeadTailProperties
<1>4. DOMAIN Tail(todo) = 1 .. Len(todo) - 1
    BY <1>3
<1>5. \A i \in DOMAIN Tail(todo) : i + 1 \in DOMAIN todo /\ i + 1 # 1 /\ Tail(todo)[i] = todo[i + 1]
    BY <1>2, <1>3, <1>4
<1>6. TodoAt(label, Tail(todo))
    <2> SUFFICES ASSUME NEW i \in DOMAIN Tail(todo), Begins(Tail(todo), i),
                        Tail(todo)[i].stage \in self.reviewed
                 PROVE  /\ Awaited(label) = <<Tail(todo)[i].stage>>
                        /\ \A j \in DOMAIN Tail(todo) : Begins(Tail(todo), j) => j = i
        BY DEF TodoAt
    <2>1. /\ Awaited(label) = <<todo[i + 1].stage>>
          /\ \A j \in DOMAIN todo : Begins(todo, j) => j = i + 1
        BY <1>5 DEF TodoAt, Begins
    <2>2. QED
        BY <1>4, <1>5, <2>1 DEF Begins
<1>7. QED
    BY <1>2, <1>5, <1>6 DEF Begins

\* A step that changes the state of a stage that is under way, or none.
LEMMA OneStage ==
  ASSUME TypeOK, GateInv, NEW s \in StageNames, Begun(state, s), state[s] # "COMPLETE",
         NEW new \in {"IN_PROGRESS", "PENDING_APPROVAL", "COMPLETE", "FAILED"},
         new = "PENDING_APPROVAL" => s \in self.reviewed,
         state' = state \/ state' = [state EXCEPT ![s] = new],
         UNCHANGED <<wf, self, label, todo, requires_approval, verdict>>,
         run' = "running" => run = "running"
  PROVE  GateInv' /\ [Gate!Next]_(Gate!vars)
<1>1. /\ \A t \in StageNames : t # s => state'[t] = state[t]
      /\ state'[s] \in {state[s], new}
    BY DEF TypeOK
<1>2. SameBegun
    BY <1>1 DEF SameBegun, Begun
<1>3. StartAt(label', todo', state')
    BY DEF GateInv, StartAt, Begun
<1>4. ReviewAt(state', requires_approval', verdict', run')
    BY <1>1 DEF GateInv, ReviewAt
<1>5. TodoAt(label', todo')
    BY DEF GateInv
<1>6. HeldAt(label', todo', state', verdict')
    <2> SUFFICES ASSUME NEW t \in self.reviewed, Begun(state', t)
                 PROVE  \/ state'[t] = "COMPLETE" /\ verdict[t] \in {"approved", "waived"}
                        \/ /\ \A i \in DOMAIN todo : ~Begins(todo, i)
                           /\ Awaited(label) = <<t>> \/ label \in Ending
        BY DEF HeldAt
    <2>1. t \in StageNames /\ Begun(state, t)
        BY <1>2, SelfOK DEF SameBegun
    <2>2. QED
        BY <1>1, <2>1 DEF GateInv, HeldAt
<1>7. QED
    BY <1>2, <1>3, <1>4, <1>5, <1>6, GateNext, GateStutters

\* A step that changes none of this but may end the run.
LEMMA NoStage ==
  ASSUME TypeOK, GateInv, UNCHANGED <<wf, self, label, todo, state, requires_approval, verdict>>,
         run' = "running" => run = "running"
  PROVE  GateInv' /\ [Gate!Next]_(Gate!vars)
<1>1. SameBegun
    BY DEF SameBegun
<1>2. ReviewAt(state', requires_approval', verdict', run')
    BY DEF GateInv, ReviewAt
<1>3. StartAt(label', todo', state') /\ TodoAt(label', todo') /\ HeldAt(label', todo', state', verdict')
    BY DEF GateInv
<1>4. QED
    BY <1>1, <1>2, <1>3, GateNext, GateStutters

\* A stage is reviewed: a decision, or the end of the run.
LEMMA ReviewGated ==
  ASSUME TypeOK, wf \notin Ungated, GateInv, NEW s \in StageNames,
         NEW decision \in {"approved", "rejected"}, NEW new,
         new = IF decision = "approved" THEN "APPROVED" ELSE "REJECTED", Review(s, new, decision)
  PROVE  GateInv' /\ [Gate!Next]_(Gate!vars)
<1>1. CASE state[s] # "PENDING_APPROVAL"
    BY <1>1, NoStage DEF Review
<1>2. CASE state[s] = "PENDING_APPROVAL"
    <2>1. /\ state' = [state EXCEPT ![s] = new] /\ verdict' = [verdict EXCEPT ![s] = decision]
          /\ UNCHANGED <<wf, self, label, todo, requires_approval, run>> /\ todo = <<>>
        BY <1>2 DEF Review, Idle
    <2>2. s \in self.reviewed /\ Begun(state, s)
        BY <1>2 DEF GateInv, ReviewAt, Begun
    <2>3. \A t \in StageNames : t # s => state'[t] = state[t] /\ verdict'[t] = verdict[t]
        BY <2>1 DEF TypeOK
    <2>4. state'[s] = new /\ verdict'[s] = decision
        BY <2>1 DEF TypeOK
    <2>5. SameBegun
        BY <2>2, <2>3, <2>4 DEF SameBegun, Begun
    <2>6. StartAt(label', todo', state')
        BY <1>2, <2>1 DEF GateInv, StartAt
    <2>7. ReviewAt(state', requires_approval', verdict', run')
        BY <1>2, <2>1, <2>2, <2>3, <2>4 DEF GateInv, ReviewAt
    <2>8. TodoAt(label', todo')
        BY <2>1 DEF GateInv
    <2>9. HeldAt(label', todo', state', verdict')
        <3>1. ASSUME NEW t \in self.reviewed, t # s, Begun(state', t)
              PROVE  \/ state'[t] = "COMPLETE" /\ verdict'[t] \in {"approved", "waived"}
                     \/ /\ \A i \in DOMAIN todo : ~Begins(todo, i)
                        /\ Awaited(label) = <<t>> \/ label \in Ending
            <4>1. t \in StageNames /\ Begun(state, t)
                BY <2>5, <3>1, SelfOK DEF SameBegun
            <4>2. QED
                BY <2>3, <3>1, <4>1 DEF GateInv, HeldAt
        <3>2. /\ \A i \in DOMAIN todo : ~Begins(todo, i)
              /\ Awaited(label) = <<s>> \/ label \in Ending
            BY <1>2, <2>2 DEF GateInv, HeldAt
        <3>3. QED
            BY <2>1, <3>1, <3>2 DEF HeldAt
    <2>10. GateInv'
        BY <2>1, <2>6, <2>7, <2>8, <2>9, GateNext
    <2>11. [Gate!Next]_(Gate!vars)
        BY <2>1, <2>2, <2>5, GateDecides
    <2>12. QED
        BY <2>10, <2>11
<1>3. QED
    BY <1>1, <1>2

\* run starts.
LEMMA StartGated ==
  ASSUME TypeOK, wf \notin Ungated, GateInv, StartRun
  PROVE  GateInv' /\ [Gate!Next]_(Gate!vars)
<1>1. PICK way \in self.start : label' = way.to /\ todo' = Changes(way)
    BY DEF StartRun
<1>2. /\ UNCHANGED <<wf, self, state, requires_approval, verdict, run>>
      /\ \A s \in StageNames : state[s] = "NOT_STARTED"
    BY DEF StartRun, GateInv, StartAt
<1>3. WayOK(way) /\ way.to # "start" /\ TodoAt(label', todo')
    BY <1>1, SelfOK, TodoOfWay DEF WayOK, Ending
<1>4. SameBegun
    BY <1>2 DEF SameBegun
<1>5. HeldAt(label', todo', state', verdict')
    BY <1>2, SelfOK DEF HeldAt, Begun
<1>6. StartAt(label', todo', state') /\ ReviewAt(state', requires_approval', verdict', run')
    BY <1>1, <1>2, <1>3 DEF StartAt, GateInv
<1>7. QED
    BY <1>2, <1>3, <1>4, <1>5, <1>6, GateNext, GateStutters

\* run marks a stage unreachable or begins it.
LEMMA AdvanceGated ==
  ASSUME TypeOK, wf \notin Ungated, GateInv, Advance
  PROVE  GateInv' /\ [Gate!Next]_(Gate!vars)
<1> DEFINE change == Head(todo)
           s == change.stage
<1>1. /\ todo # <<>> /\ todo' = Tail(todo) /\ label # "start"
      /\ UNCHANGED <<wf, self, label, requires_approval, verdict>> /\ run = "running"
    BY DEF Advance, Running, GateInv, StartAt
<1>s. set_stage_state(s, change.to, change.cascade, requires_approval)
    BY DEF Advance
<1>2. /\ TodoAt(label', todo')
      /\ \A i \in DOMAIN todo' : /\ i + 1 \in DOMAIN todo /\ i + 1 # 1
                                 /\ Begins(todo', i) => Begins(todo, i + 1)
      /\ change \in Change /\ 1 \in DOMAIN todo /\ change = todo[1]
    BY <1>1, RestOfTodo DEF GateInv
<1>3. s \in StageNames /\ change.to \in {"UNREACHABLE", "IN_PROGRESS"}
    BY <1>2 DEF Change
<1>4. StartAt(label', todo', state')
    BY <1>1 DEF StartAt
<1> HIDE DEF change, s
<1>5. CASE change.to = "UNREACHABLE"
    <2>1. \A d \in StageNames : \/ state'[d] = state[d]
                                \/ state[d] = "NOT_STARTED" /\ state'[d] = "UNREACHABLE"
        <3>1. set_stage_state(s, "UNREACHABLE", change.cascade, requires_approval)
            BY <1>s, <1>5
        <3>2. QED
            BY <1>3, <3>1, SetSkip
    <2>2. SameBegun
        BY <2>1 DEF SameBegun, Begun
    <2>3. ReviewAt(state', requires_approval', verdict', run')
        BY <1>1, <2>1 DEF GateInv, ReviewAt
    <2>4. HeldAt(label', todo', state', verdict')
        <3> SUFFICES ASSUME NEW t \in self.reviewed, Begun(state', t)
                     PROVE  \/ state'[t] = "COMPLETE" /\ verdict[t] \in {"approved", "waived"}
                            \/ /\ \A i \in DOMAIN todo' : ~Begins(todo', i)
                               /\ Awaited(label) = <<t>> \/ label \in Ending
            BY <1>1 DEF HeldAt
        <3>1. t \in StageNames /\ Begun(state, t) /\ state'[t] = state[t]
            BY <2>1, SelfOK DEF Begun
        <3>2. QED
            BY <1>2, <3>1 DEF GateInv, HeldAt
    <2>5. QED
        BY <1>1, <1>2, <1>4, <2>2, <2>3, <2>4, GateNext, GateStutters
<1>6. CASE change.to = "IN_PROGRESS"
    <2>1. Begins(todo, 1) /\ s = todo[1].stage
        BY <1>2, <1>6 DEF Begins, s
    <2>2. \A t \in self.reviewed : Begun(state, t) =>
            state[t] = "COMPLETE" /\ verdict[t] \in {"approved", "waived"}
        BY <1>2, <2>1 DEF GateInv, HeldAt
    <2>3. s \in self.reviewed =>
            Awaited(label) = <<s>> /\ \A i \in DOMAIN todo' : ~Begins(todo', i)
        BY <1>2, <2>1 DEF GateInv, TodoAt
    <2>4. \/ state' = state
          \/ state' = [state EXCEPT ![s] = "IN_PROGRESS"] /\ state[s] \in {"NOT_STARTED", "FAILED"}
        <3>1. set_stage_state(s, "IN_PROGRESS", change.cascade, requires_approval)
            BY <1>s, <1>6
        <3>2. \/ state' = state
              \/ transition(s, "IN_PROGRESS", requires_approval) /\ state' = [state EXCEPT ![s] = "IN_PROGRESS"]
            BY <1>3, <3>1, SetOne DEF StateEnum
        <3>3. QED
            BY <1>3, <3>2, ValidTransitions
    <2>5. /\ \A t \in StageNames : t # s => state'[t] = state[t]
          /\ state'[s] \in {state[s], "IN_PROGRESS"}
          /\ state'[s] # state[s] => state[s] # "COMPLETE"
        BY <1>3, <2>4 DEF TypeOK
    <2>6. ReviewAt(state', requires_approval', verdict', run')
        BY <1>1, <1>3, <2>5 DEF GateInv, ReviewAt
    <2>7. HeldAt(label', todo', state', verdict')
        <3>1. ASSUME NEW t \in self.reviewed, t # s, Begun(state', t)
              PROVE  state'[t] = "COMPLETE" /\ verdict[t] \in {"approved", "waived"}
            BY <2>2, <2>5, <3>1, SelfOK DEF Begun
        <3>2. QED
            BY <1>1, <2>3, <3>1 DEF HeldAt
    <2>8. GateInv'
        BY <1>1, <1>2, <1>4, <2>6, <2>7, GateNext
    <2>9. CASE state' = [state EXCEPT ![s] = "IN_PROGRESS"] /\ state[s] = "NOT_STARTED"
        BY <1>1, <1>3, <2>2, <2>8, <2>9, GateBegins DEF Begun
    <2>10. CASE state' = state \/ state[s] = "FAILED"
        <3>1. SameBegun
            BY <2>5, <2>10 DEF SameBegun, Begun
        <3>2. QED
            BY <1>1, <2>8, <3>1, GateStutters
    <2>11. QED
        BY <2>4, <2>8, <2>9, <2>10
<1>7. QED
    BY <1>3, <1>5, <1>6

\* A stage function returns, and run goes on.
LEMMA CompleteGated ==
  ASSUME TypeOK, wf \notin Ungated, GateInv, NEW s \in StageNames, Complete(s)
  PROVE  GateInv' /\ [Gate!Next]_(Gate!vars)
<1> DEFINE accepted == Accepted(s, "COMPLETE", FALSE, requires_approval')
<1>1. PICK way \in self.run[label] :
        /\ Fits(s, way)
        /\ requires_approval' = [requires_approval EXCEPT ![s] = @ /\ way.on # "waived"]
        /\ verdict' = [verdict EXCEPT ![s] = IF way.on = "waived" THEN "waived" ELSE @]
        /\ set_stage_state(s, "COMPLETE", FALSE, requires_approval')
        /\ IF accepted THEN label' = way.to /\ todo' = Changes(way) /\ UNCHANGED run
           ELSE run' = "stage_state_failure" /\ UNCHANGED <<label, todo>>
    BY DEF Complete
<1>2. /\ UNCHANGED <<wf, self>> /\ run = "running" /\ todo = <<>> /\ s \in Executing
      /\ state[s] \in {"IN_PROGRESS", "APPROVED", "REJECTED"}
    BY DEF Complete, Idle, Running, Executing
<1>3. /\ label \in DOMAIN self.run /\ label \notin Ending /\ label # "start" /\ Gated(self)
      /\ \E i \in DOMAIN Awaited(label) : s = Awaited(label)[i]
    <2>1. label \in DOMAIN self.run /\ \E i \in DOMAIN Awaited(label) : s = Awaited(label)[i]
        BY <1>2, AwaitedAtLabel
    <2>2. Gated(self)
        BY GateAssumption DEF TypeOK
    <2>3. QED
        BY <2>1, <2>2, SelfOK
<1>4. WayOK(way) /\ way.to # "start"
    BY <1>1, <1>3, SelfOK DEF WayOK, Ending
<1>5. ASSUME NEW t \in self.reviewed, t # s, Begun(state, t)
      PROVE  state[t] = "COMPLETE" /\ verdict[t] \in {"approved", "waived"}
    <2>1. Awaited(label) # <<t>>
        BY <1>3, <1>5
    <2>2. QED
        BY <1>3, <1>5, <2>1 DEF GateInv, HeldAt
<1>6. ASSUME way.on = "waived" PROVE s \in self.reviewed
    <2>1. label \in self.reviewed /\ label \notin DOMAIN self.parallel
        BY <1>1, <1>3, <1>6 DEF Gated
    <2>2. Awaited(label) = <<label>>
        BY <2>1, SelfOK DEF Awaited, AwaitedBy, StageNames
    <2>3. QED
        BY <1>3, <2>1, <2>2
<1>7. /\ \A t \in StageNames : t # s => verdict'[t] = verdict[t]
                                        /\ requires_approval'[t] = requires_approval[t]
      /\ verdict'[s] = IF way.on = "waived" THEN "waived" ELSE verdict[s]
      /\ requires_approval'[s] = (requires_approval[s] /\ way.on # "waived")
    BY <1>1 DEF TypeOK
<1>8. /\ \A t \in StageNames : t # s => state'[t] = state[t]
      /\ accepted => state'[s] = "COMPLETE" /\ transition(s, "COMPLETE", requires_approval')
      /\ ~accepted => state' = state
    <2>1. Moved(s, "COMPLETE", FALSE) = {s}
        BY <1>2 DEF Moved
    <2>2. CASE accepted
        BY <1>1, <2>1, <2>2 DEF set_stage_state, Accepted
    <2>3. CASE ~accepted
        BY <1>1, <2>3 DEF set_stage_state
    <2>4. QED
        BY <2>2, <2>3
<1> HIDE DEF accepted
<1>9. SameBegun
    BY <1>2, <1>8 DEF SameBegun, Begun
<1>10. [Gate!Next]_(Gate!vars)
    <2>1. CASE way.on = "waived"
        <3>1. verdict' = [verdict EXCEPT ![s] = "waived"]
            BY <1>1, <2>1
        <3>2. Begun(state, s)
            BY <1>2 DEF Begun
        <3>3. QED
            BY <1>2, <1>6, <1>9, <2>1, <3>1, <3>2, GateDecides
    <2>2. CASE way.on # "waived"
        <3>1. verdict' = verdict
            BY <1>1, <2>2 DEF TypeOK
        <3>2. QED
            BY <1>2, <1>9, <3>1, GateStutters
    <2>3. QED
        BY <2>1, <2>2
<1>11. CASE accepted
    <2>1. label' = way.to /\ todo' = Changes(way) /\ TodoAt(label', todo')
        BY <1>1, <1>4, <1>11, TodoOfWay
    <2>2. StartAt(label', todo', state')
        BY <1>4, <2>1 DEF StartAt
    <2>3. ReviewAt(state', requires_approval', verdict', run')
        BY <1>2, <1>7, <1>8, <1>11 DEF GateInv, ReviewAt
    <2>4. ASSUME s \in self.reviewed
          PROVE  verdict'[s] \in {"approved", "waived"} \/ way.to \in Ending
        <3>1. CASE state[s] = "APPROVED"
            BY <1>1, <1>7, <3>1 DEF Fits, GateInv, ReviewAt
        <3>2. CASE state[s] = "REJECTED"
            BY <1>1, <1>3, <3>2 DEF Fits, Gated
        <3>3. CASE state[s] = "IN_PROGRESS"
            <4>1. requires_approval[s] = TRUE
                BY <1>2, <2>4, <3>3 DEF GateInv, ReviewAt, TypeOK
            <4>2. ~requires_approval'[s]
                BY <1>8, <1>11, <3>3 DEF transition
            <4>3. QED
                BY <1>7, <4>1, <4>2
        <3>4. QED
            BY <1>2, <3>1, <3>2, <3>3
    <2>5. HeldAt(label', todo', state', verdict')
        <3>1. ASSUME NEW t \in self.reviewed, t # s, Begun(state', t)
              PROVE  state'[t] = "COMPLETE" /\ verdict'[t] \in {"approved", "waived"}
            <4>1. t \in StageNames
                BY SelfOK
            <4>2. QED
                BY <1>5, <1>7, <1>8, <3>1, <4>1 DEF Begun
        <3>2. way.to \in Ending => \A i \in DOMAIN todo' : ~Begins(todo', i)
            BY <1>4, <2>1, TodoOfWay
        <3>3. QED
            BY <1>8, <1>11, <2>1, <2>4, <3>1, <3>2 DEF HeldAt
    <2>6. QED
        BY <1>2, <1>10, <2>1, <2>2, <2>3, <2>5, GateNext
<1>12. CASE ~accepted
    <2>1. UNCHANGED <<label, todo, state>> /\ run' # "running"
        BY <1>1, <1>8, <1>12
    <2>2. StartAt(label', todo', state')
        BY <1>3, <2>1 DEF StartAt
    <2>3. ReviewAt(state', requires_approval', verdict', run')
        <3>1. state[s] = "APPROVED" => way.on = "approved"
            BY <1>1 DEF Fits
        <3>2. QED
            BY <1>7, <2>1, <3>1 DEF GateInv, ReviewAt
    <2>4. TodoAt(label', todo')
        BY <2>1 DEF GateInv
    <2>5. HeldAt(label', todo', state', verdict')
        <3>1. ASSUME NEW t \in self.reviewed, t # s, Begun(state', t)
              PROVE  state'[t] = "COMPLETE" /\ verdict'[t] \in {"approved", "waived"}
            <4>1. t \in StageNames
                BY SelfOK
            <4>2. QED
                BY <1>5, <1>7, <2>1, <3>1, <4>1
        <3>2. s \in self.reviewed => /\ \A i \in DOMAIN todo : ~Begins(todo, i)
                                     /\ Awaited(label) = <<s>> \/ label \in Ending
            BY <1>2 DEF GateInv, HeldAt, Begun
        <3>3. QED
            BY <2>1, <3>1, <3>2 DEF HeldAt
    <2>6. QED
        BY <1>2, <1>10, <2>2, <2>3, <2>4, <2>5, GateNext
<1>13. QED
    BY <1>11, <1>12

\* Where the catalogue's definition is ungated, the gate is not claimed.
LEMMA UngatedStutters ==
  ASSUME wf \in Ungated, UNCHANGED <<wf, self>>
  PROVE  [Gate!Next]_(Gate!vars)
BY DEF Gate!vars, StageNames

LEMMA SameWorkflow == ASSUME [Next]_vars PROVE UNCHANGED <<wf, self>>
BY DEF vars, Next, Works, Ended, StartRun, Advance, Finish, RequestReview, Complete, CompleteOneOf,
       archive_results, FailStage, approve, reject, Review, retry, terminate_workflow

\* Every step of a gated workflow is a step of the gate, or none.
LEMMA GateStep ==
  ASSUME TypeOK, wf \notin Ungated, GateInv, [Next]_vars
  PROVE  GateInv' /\ [Gate!Next]_(Gate!vars)
<1> DEFINE Goal == GateInv' /\ [Gate!Next]_(Gate!vars)
<1>1. CASE StartRun
    BY <1>1, StartGated
<1>2. CASE Advance
    BY <1>2, AdvanceGated
<1>3. CASE Finish
    BY <1>3, NoStage DEF Finish, Running
<1>4. ASSUME NEW s \in StageNames, RequestReview(s) PROVE Goal
  <2>1. Begun(state, s) /\ state[s] # "COMPLETE"
    BY <1>4 DEF RequestReview, Executing, Begun
  <2>2. state' = state \/ state' = [state EXCEPT ![s] = "PENDING_APPROVAL"]
    BY <1>4 DEF RequestReview
  <2>3. UNCHANGED <<wf, self, label, todo, requires_approval, verdict>> /\ (run' = "running" => run = "running")
    BY <1>4 DEF RequestReview
  <2>4. QED
    BY <1>4, <2>1, <2>2, <2>3, OneStage DEF RequestReview
<1>5. ASSUME NEW s \in StageNames, Complete(s) PROVE Goal
    BY <1>5, CompleteGated
<1>6. ASSUME NEW s \in StageNames, CompleteOneOf(s) PROVE Goal
  <2>1. Begun(state, s) /\ state[s] # "COMPLETE"
    BY <1>6 DEF CompleteOneOf, Executing, Begun
  <2>2. state' = state \/ state' = [state EXCEPT ![s] = "COMPLETE"]
    BY <1>6 DEF CompleteOneOf
  <2>3. UNCHANGED <<wf, self, label, todo, requires_approval, verdict>> /\ (run' = "running" => run = "running")
    BY <1>6 DEF CompleteOneOf, Idle, Running
  <2>4. QED
    BY <1>6, <2>1, <2>2, <2>3, OneStage
<1>7. CASE archive_results
    BY <1>7, NoStage DEF archive_results, Running, Idle
<1>8. ASSUME NEW s \in StageNames, NEW retryable \in BOOLEAN, FailStage(s, retryable)
     PROVE  Goal
  <2>1. Begun(state, s) /\ state[s] # "COMPLETE"
    BY <1>8 DEF FailStage, Executing, Begun
  <2>2. state' = state \/ state' = [state EXCEPT ![s] = "FAILED"]
    BY <1>8, SetOne DEF FailStage, StateEnum
  <2>3. UNCHANGED <<wf, self, label, todo, requires_approval, verdict>> /\ (run' = "running" => run = "running")
    BY <1>8 DEF FailStage, Idle, Running
  <2>4. QED
    BY <1>8, <2>1, <2>2, <2>3, OneStage
<1>9. ASSUME NEW s \in StageNames, approve(s) PROVE Goal
    BY <1>9, ReviewGated DEF approve
<1>10. ASSUME NEW s \in StageNames, reject(s) PROVE Goal
    BY <1>10, ReviewGated DEF reject
<1>11. ASSUME NEW s \in StageNames, retry(s) PROVE Goal
  <2>1. Begun(state, s) /\ state[s] # "COMPLETE"
    BY <1>11 DEF retry, Executing, Begun
  <2>2. state' = state \/ state' = [state EXCEPT ![s] = "IN_PROGRESS"]
    BY <1>11, SetOne DEF retry, StateEnum
  <2>3. UNCHANGED <<wf, self, label, todo, requires_approval, verdict>> /\ (run' = "running" => run = "running")
    BY <1>11 DEF retry
  <2>4. QED
    BY <1>11, <2>1, <2>2, <2>3, OneStage
<1>12. CASE terminate_workflow
    BY <1>12, NoStage DEF terminate_workflow, Running, Idle
<1>13. CASE UNCHANGED vars
    BY <1>13, NoStage DEF vars
<1>14. QED
    BY <1>1, <1>2, <1>3, <1>4, <1>5, <1>6, <1>7, <1>8, <1>9, <1>10, <1>11, <1>12, <1>13
       DEF Next, Works, Ended

LEMMA GateInitially ==
  ASSUME Init
  PROVE  GateInv /\ Gate!Init
<1>1. WellFormed(self)
    BY CatalogueAssumption DEF Init
<1>2. /\ self.reviewed \subseteq StageNames /\ todo = <<>> /\ run = "running"
      /\ \A s \in StageNames : state[s] = "NOT_STARTED"
      /\ requires_approval = [s \in StageNames |-> s \in self.reviewed]
    BY <1>1 DEF Init, WellFormed, StageNames
<1>3. StartAt(label, todo, state) /\ TodoAt(label, todo)
    BY <1>2 DEF StartAt, TodoAt
<1>4. ReviewAt(state, requires_approval, verdict, run)
    BY <1>2 DEF ReviewAt
<1>5. HeldAt(label, todo, state, verdict)
    BY <1>2 DEF HeldAt, Begun
<1>6. Gate!Init
    BY <1>2 DEF Init, Gate!Init
<1>7. QED
    BY <1>3, <1>4, <1>5, <1>6 DEF GateInv

\* The stages implement the approval gate, whatever the workflow: if its run awaits
\* reviewed stages alone, ends after a rejection and waives only reviews, then no
\* interleaving of stage functions, failures, retries and reviews, which the API
\* sends without looking at the stage, begins a stage before the reviewed ones
\* that have begun are approved or waived.
THEOREM GateKept == Spec => GateSpec
<1> DEFINE Inv == TypeOK /\ IndexCurrent /\ (wf \in Ungated \/ GateInv)
<1>1. Init => Inv /\ Gate!Init
    BY TypeInitially, GateInitially
<1>2. Inv /\ [Next]_vars => Inv' /\ [Gate!Next]_(Gate!vars)
    <2> SUFFICES ASSUME Inv, [Next]_vars PROVE Inv' /\ [Gate!Next]_(Gate!vars)
        OBVIOUS
    <2>1. TypeOK' /\ IndexCurrent' /\ UNCHANGED <<wf, self>>
        BY TypeStep, SameWorkflow
    <2>2. CASE wf \in Ungated
        BY <2>1, <2>2, UngatedStutters
    <2>3. CASE wf \notin Ungated
        BY <2>1, <2>3, GateStep
    <2>4. QED
        BY <2>2, <2>3
<1> HIDE DEF Inv
<1>3. QED
    BY <1>1, <1>2, PTL DEF Spec, GateSpec, Gate!Spec

-----------------------------------------------------------------------------
(* A run follows a walk of its definition, whatever its stages go through at   *)
(* an await.  Hence it is refused nothing, and settles what the walk settles.  *)

Follows(x, y) == \/ x = "IN_PROGRESS" /\ y \notin {"NOT_STARTED", "UNREACHABLE"}
                 \/ x \in {"NOT_STARTED", "COMPLETE", "UNREACHABLE"} /\ y = x

OnWalk(c, l, t, st) == c.at = l /\ c.todo = t /\ \A s \in StageNames : Follows(c.state[s], st[s])

FollowsWalk(l, t, st) == \E c \in Walks(self) : OnWalk(c, l, t, st)

WalkInv == /\ Running => FollowsWalk(label, todo, state)
           /\ \A s \in StageNames : requires_approval[s] => s \in self.reviewed

\* What the catalogue says of the walks of the workflow that runs.
LEMMA WalksOK ==
  ASSUME TypeOK
  PROVE  /\ DeclaredOn(self, Walks(self))
         /\ wf \notin Misdeclared => ReviewsDeclared(self)
         /\ wf \notin Unsettled => Settles(self)
<1>1. wf \in DOMAIN Catalogue /\ self = Catalogue[wf]
    BY DEF TypeOK
<1>2. Declared(self)
    BY <1>1, DeclaredAssumption
<1>3. wf \notin Misdeclared => ReviewsDeclared(self)
    BY <1>1, ReviewsAssumption
<1>4. wf \notin Unsettled => Settles(self)
    BY <1>1, SettlesAssumption
<1>5. QED
    BY <1>2, <1>3, <1>4 DEF Declared

LEMMA WalkChanges ==
  ASSUME TypeOK, NEW c \in Walks(self), OnWalk(c, label, todo, state), todo # <<>>
  PROVE  /\ Changed(self, c) \in Walks(self)
         /\ \A s \in Touched(self, c) : c.state[s] = "NOT_STARTED"
         /\ Head(todo).to = "IN_PROGRESS" =>
              \A s \in self.depends_on[Head(todo).stage] : Settled(c.state[s])
<1>1. c.todo = todo
    BY DEF OnWalk
<1>2. Further(self, c) = {Changed(self, c)}
    BY <1>1 DEF Further
<1>3. QED
    BY <1>1, <1>2, WalksOK DEF DeclaredOn

LEMMA WalkGoes ==
  ASSUME TypeOK, NEW c \in Walks(self), OnWalk(c, label, todo, state), todo = <<>>
  PROVE  /\ \A way \in WaysAt(self, label) : Gone(self, c, way) \in Walks(self)
         /\ \A s \in StageNames : c.state[s] = "IN_PROGRESS" <=> s \in Range(Awaited(label))
<1>1. c.todo = <<>> /\ c.at = label
    BY DEF OnWalk
<1>2. Further(self, c) = {Gone(self, c, way) : way \in WaysAt(self, label)}
    BY <1>1 DEF Further
<1>3. QED
    BY <1>1, <1>2, WalksOK DEF DeclaredOn, Awaited, StageNames

\* A stage that has begun and is not complete may take any state of its own accord.
LEMMA StageMoves ==
  ASSUME TypeOK, FollowsWalk(label, todo, state),
         NEW s \in StageNames, state[s] \notin {"NOT_STARTED", "UNREACHABLE", "COMPLETE"},
         NEW new, new \notin {"NOT_STARTED", "UNREACHABLE"},
         NEW st, st = state \/ st = [state EXCEPT ![s] = new]
  PROVE  FollowsWalk(label, todo, st)
<1>1. PICK c \in Walks(self) : OnWalk(c, label, todo, state)
    BY DEF FollowsWalk
<1>2. c.at = label /\ c.todo = todo
    BY <1>1 DEF OnWalk
<1>3. ASSUME NEW t \in StageNames PROVE Follows(c.state[t], st[t])
    <2>1. Follows(c.state[t], state[t])
        BY <1>1 DEF OnWalk
    <2>2. CASE t = s /\ st # state
        <3>1. c.state[s] = "IN_PROGRESS"
            BY <2>1, <2>2 DEF Follows
        <3>2. st[s] = new
            BY <2>2 DEF TypeOK
        <3>3. QED
            BY <2>2, <3>1, <3>2 DEF Follows
    <2>3. CASE t # s \/ st = state
        BY <2>1, <2>3 DEF TypeOK
    <2>4. QED
        BY <2>2, <2>3
<1>4. QED
    BY <1>2, <1>3 DEF FollowsWalk, OnWalk

\* What run does when its await is over: it goes a way on from the label.
LEMMA WalkOn ==
  ASSUME TypeOK, FollowsWalk(label, todo, state), todo = <<>>,
         NEW way \in WaysAt(self, label), NEW st,
         \A s \in StageNames : st[s] = IF s \in Range(Awaited(label)) THEN "COMPLETE" ELSE state[s]
  PROVE  FollowsWalk(way.to, Changes(way), st)
<1>1. PICK c \in Walks(self) : OnWalk(c, label, todo, state)
    BY DEF FollowsWalk
<1>2. /\ Gone(self, c, way) \in Walks(self)
      /\ \A s \in StageNames : c.state[s] = "IN_PROGRESS" <=> s \in Range(Awaited(label))
    BY <1>1, WalkGoes
<1>3. ASSUME NEW s \in StageNames PROVE Follows(Gone(self, c, way).state[s], st[s])
    <2>1. Follows(c.state[s], state[s])
        BY <1>1 DEF OnWalk
    <2>2. Gone(self, c, way).state[s] = IF c.state[s] = "IN_PROGRESS" THEN "COMPLETE" ELSE c.state[s]
        BY DEF Gone, StageNames
    <2>3. QED
        BY <1>2, <2>1, <2>2 DEF Follows
<1>4. Gone(self, c, way).at = way.to /\ Gone(self, c, way).todo = Changes(way)
    BY DEF Gone, Changes
<1>5. QED
    BY <1>2, <1>3, <1>4 DEF FollowsWalk, OnWalk

\* The three invariants depend on nothing else.
LEMMA WalkNext ==
  ASSUME UNCHANGED <<wf, self>>,
         run' = "running" => FollowsWalk(label', todo', state'),
         \A s \in StageNames : requires_approval'[s] => s \in self.reviewed,
         run' = "stage_state_failure" => stray' \/ wf \in Misdeclared,
         run' = "returned" /\ wf \notin Unsettled => \A s \in StageNames : Settled(state'[s])
  PROVE  WalkInv' /\ DeclaredOrder' /\ EndedSettled'
<1>1. StageNames' = StageNames
    BY DEF StageNames
<1>2. FollowsWalk(label, todo, state)' <=> FollowsWalk(label', todo', state')
    BY <1>1 DEF FollowsWalk, OnWalk
<1>3. QED
    BY <1>1, <1>2 DEF WalkInv, DeclaredOrder, EndedSettled, Settled, Running

\* A step that ends no run moves one stage at an await, and takes no decision.
LEMMA AwaitMoves ==
  ASSUME TypeOK, WalkInv, Running, UNCHANGED <<wf, self, label, todo, requires_approval>>,
         NEW s \in StageNames, state[s] \notin {"NOT_STARTED", "UNREACHABLE", "COMPLETE"},
         NEW new, new \notin {"NOT_STARTED", "UNREACHABLE"},
         state' = state \/ state' = [state EXCEPT ![s] = new],
         run' # "returned", run' = "stage_state_failure" => stray' \/ wf \in Misdeclared
  PROVE  WalkInv' /\ DeclaredOrder' /\ EndedSettled'
<1>1. FollowsWalk(label, todo, state)
    BY DEF WalkInv
<1>2. FollowsWalk(label, todo, state')
    BY <1>1, StageMoves
<1>3. QED
    BY <1>2, WalkNext DEF WalkInv

\* The workflow is started.
LEMMA StartWalks ==
  ASSUME TypeOK, WalkInv, StartRun
  PROVE  WalkInv' /\ DeclaredOrder' /\ EndedSettled'
<1>1. PICK way \in self.start : label' = way.to /\ todo' = Changes(way)
    BY DEF StartRun
<1>2. /\ UNCHANGED <<wf, self, state, requires_approval, run, stray>>
      /\ run = "running" /\ todo = <<>> /\ label = "start"
    BY DEF StartRun, Idle, Running
<1>3. Awaited(label) = <<>>
    BY <1>2, SelfOK
<1>4. way \in WaysAt(self, label)
    BY <1>2 DEF WaysAt
<1>5. \A s \in StageNames : s \notin Range(Awaited(label))
    BY <1>3 DEF Range
<1>6. FollowsWalk(label, todo, state)
    BY <1>2 DEF WalkInv, Running
<1>7. FollowsWalk(way.to, Changes(way), state)
    BY <1>2, <1>4, <1>5, <1>6, WalkOn
<1>8. QED
    BY <1>1, <1>2, <1>7, WalkNext DEF WalkInv

\* What a walk shows to be next is accepted, and moves the stages it moves.
LEMMA ChangeAccepted ==
  ASSUME TypeOK, NEW c \in Walks(self), OnWalk(c, label, todo, state), todo # <<>>,
         NEW change, change = Head(todo)
  PROVE  /\ change.stage \in StageNames
         /\ Moved(change.stage, change.to, change.cascade) = Touched(self, c)
         /\ Accepted(change.stage, change.to, change.cascade, requires_approval)
<1>1. todo \in Seq(Change)
    BY DEF TypeOK, Change
<1>2. change \in Change /\ change = Head(c.todo)
    BY <1>1, HeadTailProperties DEF OnWalk
<1>3. change.stage \in StageNames /\ change.to \in {"UNREACHABLE", "IN_PROGRESS"}
    BY <1>2 DEF Change
<1>4. /\ \A s \in Touched(self, c) : c.state[s] = "NOT_STARTED"
      /\ change.to = "IN_PROGRESS" => \A s \in self.depends_on[change.stage] : Settled(c.state[s])
    BY WalkChanges
<1>5. \A s \in StageNames : Follows(c.state[s], state[s])
    BY DEF OnWalk
<1>6. Touched(self, c) \subseteq StageNames
    BY <1>2, <1>3 DEF Touched, StageNames
<1>7. \A s \in Touched(self, c) : state[s] = "NOT_STARTED"
    BY <1>4, <1>5, <1>6 DEF Follows
<1>8. Moved(change.stage, change.to, change.cascade) = Touched(self, c)
    <2>1. CASE change.to = "IN_PROGRESS"
        <3>1. Touched(self, c) = {change.stage}
            BY <1>2, <2>1 DEF Touched
        <3>2. state[change.stage] # "IN_PROGRESS"
            BY <1>7, <3>1
        <3>3. QED
            BY <2>1, <3>1, <3>2 DEF Moved
    <2>2. CASE change.to = "UNREACHABLE"
        <3>1. \A s \in StageNames : c.state[s] = "UNREACHABLE" <=> state[s] = "UNREACHABLE"
            BY <1>5 DEF Follows
        <3>2. QED
            BY <1>2, <1>3, <2>2, <3>1 DEF Touched, Moved, stages_by_dependency, StageNames
    <2>3. QED
        BY <1>3, <2>1, <2>2
<1>9. \A s \in Touched(self, c) : transition(s, change.to, requires_approval)
    <2>1. {"IN_PROGRESS", "UNREACHABLE"} \subseteq _VALID_TRANSITIONS["NOT_STARTED"]
        BY DEF _VALID_TRANSITIONS
    <2>2. QED
        BY <1>3, <1>7, <2>1 DEF transition
<1>10. change.to = "IN_PROGRESS" => DependenciesMet(change.stage)
    <2>1. self.depends_on[change.stage] \subseteq StageNames
        BY <1>3, SelfOK
    <2>2. QED
        BY <1>4, <1>5, <2>1 DEF DependenciesMet, Settled, Follows
<1>11. QED
    BY <1>3, <1>8, <1>9, <1>10 DEF Accepted

\* run marks a stage unreachable or begins it.
LEMMA AdvanceWalks ==
  ASSUME TypeOK, WalkInv, Advance
  PROVE  WalkInv' /\ DeclaredOrder' /\ EndedSettled'
<1> DEFINE change == Head(todo)
<1>1. /\ UNCHANGED <<wf, self, label, requires_approval, stray>>
      /\ run = "running" /\ todo # <<>> /\ todo' = Tail(todo)
    BY DEF Advance, Running
<1>2. PICK c \in Walks(self) : OnWalk(c, label, todo, state)
    BY <1>1 DEF WalkInv, FollowsWalk, Running
<1>3. /\ Moved(change.stage, change.to, change.cascade) = Touched(self, c)
      /\ Accepted(change.stage, change.to, change.cascade, requires_approval)
    BY <1>1, <1>2, ChangeAccepted
<1>4. /\ run' = "running"
      /\ state' = [s \in StageNames |-> IF s \in Touched(self, c) THEN change.to ELSE state[s]]
    <2>1. set_stage_state(change.stage, change.to, change.cascade, requires_approval)
        BY DEF Advance
    <2>2. run' = run
        BY <1>3 DEF Advance
    <2> HIDE DEF change
    <2>3. QED
        BY <1>1, <1>3, <2>1, <2>2 DEF set_stage_state
<1>5. Changed(self, c) \in Walks(self) /\ c.todo = todo /\ c.at = label
    BY <1>1, <1>2, WalkChanges DEF OnWalk
<1>6. change.to \in {"UNREACHABLE", "IN_PROGRESS"}
    <2>1. todo \in Seq(Change)
        BY DEF TypeOK, Change
    <2>2. change \in Change
        BY <1>1, <2>1, HeadTailProperties
    <2>3. QED
        BY <2>2 DEF Change
<1>7. ASSUME NEW s \in StageNames PROVE Follows(Changed(self, c).state[s], state'[s])
    <2>1. Changed(self, c).state[s] = IF s \in Touched(self, c) THEN change.to ELSE c.state[s]
        BY <1>5 DEF Changed, StageNames
    <2>2. Follows(c.state[s], state[s])
        BY <1>2 DEF OnWalk
    <2> HIDE DEF change
    <2>3. state'[s] = IF s \in Touched(self, c) THEN change.to ELSE state[s]
        BY <1>4
    <2>4. QED
        BY <1>6, <2>1, <2>2, <2>3 DEF Follows
<1>8. Changed(self, c).at = label' /\ Changed(self, c).todo = todo'
    BY <1>1, <1>5 DEF Changed
<1>9. FollowsWalk(label', todo', state')
    BY <1>5, <1>7, <1>8 DEF FollowsWalk, OnWalk
<1>10. QED
    BY <1>1, <1>4, <1>9, WalkNext DEF WalkInv

\* A stage that its function is done with is accepted as complete: it was reviewed
\* or its review waived, if it has one.
LEMMA CompletionAccepted ==
  ASSUME TypeOK, WalkInv, wf \notin Misdeclared, NEW s \in StageNames, s \in Executing,
         state[s] # "PENDING_APPROVAL", label \in DOMAIN self.run,
         NEW way \in self.run[label], Fits(s, way), NEW reviews,
         reviews[s] => requires_approval[s] /\ way.on # "waived"
  PROVE  Accepted(s, "COMPLETE", FALSE, reviews)
<1>1. state[s] \in {"IN_PROGRESS", "APPROVED", "REJECTED"} /\ s \in Range(Awaited(label))
    BY DEF Executing
<1>2. Moved(s, "COMPLETE", FALSE) = {s}
    BY <1>1 DEF Moved
<1>3. "COMPLETE" \in _VALID_TRANSITIONS[state[s]]
    BY <1>1 DEF _VALID_TRANSITIONS
<1>4. state[s] = "IN_PROGRESS" => ~reviews[s]
    <2> SUFFICES ASSUME state[s] = "IN_PROGRESS", reviews[s] PROVE FALSE
        OBVIOUS
    <2>1. s \in self.reviewed
        BY DEF WalkInv
    <2>2. Range(AwaitedBy(self, label)) \cap self.reviewed # {}
        BY <1>1, <2>1 DEF Awaited
    <2>3. way.on \in {"approved", "rejected", "waived"}
        BY <2>2, WalksOK DEF ReviewsDeclared
    <2>4. QED
        BY <2>3 DEF Fits
<1>5. transition(s, "COMPLETE", reviews)
    BY <1>1, <1>3, <1>4 DEF transition
<1>6. QED
    BY <1>2, <1>5 DEF Accepted

\* A stage function returns, and run goes on.
LEMMA CompleteWalks ==
  ASSUME TypeOK, WalkInv, NEW s \in StageNames, Complete(s)
  PROVE  WalkInv' /\ DeclaredOrder' /\ EndedSettled'
<1> DEFINE accepted == Accepted(s, "COMPLETE", FALSE, requires_approval')
<1>1. /\ UNCHANGED <<wf, self, stray>>
      /\ run = "running" /\ todo = <<>> /\ s \in Executing /\ state[s] # "PENDING_APPROVAL"
      /\ \A t \in Range(Awaited(label)) \ {s} : state[t] = "COMPLETE"
    BY DEF Complete, Idle, Running
<1>2. PICK way \in self.run[label] :
        /\ Fits(s, way)
        /\ requires_approval' = [requires_approval EXCEPT ![s] = @ /\ way.on # "waived"]
        /\ set_stage_state(s, "COMPLETE", FALSE, requires_approval')
        /\ IF accepted THEN label' = way.to /\ todo' = Changes(way) /\ UNCHANGED run
           ELSE run' = "stage_state_failure" /\ UNCHANGED <<label, todo>>
    BY DEF Complete
<1>3. label \in DOMAIN self.run /\ s \in Range(Awaited(label))
    BY <1>1, AwaitedAtLabel DEF Executing
<1>4. \A t \in StageNames : requires_approval'[t] =>
        requires_approval[t] /\ (t = s => way.on # "waived")
    BY <1>2 DEF TypeOK
<1>5. ~accepted => wf \in Misdeclared
    BY <1>1, <1>2, <1>3, <1>4, CompletionAccepted
<1>6. ASSUME accepted PROVE FollowsWalk(way.to, Changes(way), state')
    <2>1. Moved(s, "COMPLETE", FALSE) = {s}
        BY <1>1 DEF Executing, Moved
    <2>2. state' = [t \in StageNames |-> IF t \in {s} THEN "COMPLETE" ELSE state[t]]
        BY <1>2, <1>6, <2>1 DEF set_stage_state
    <2>3. \A t \in StageNames :
            state'[t] = IF t \in Range(Awaited(label)) THEN "COMPLETE" ELSE state[t]
        BY <1>1, <1>3, <2>2
    <2>4. way \in WaysAt(self, label)
        BY <1>2, <1>3, SelfOK DEF WaysAt
    <2>5. FollowsWalk(label, todo, state)
        BY <1>1 DEF WalkInv, Running
    <2> HIDE DEF accepted
    <2>6. QED
        BY <1>1, <2>3, <2>4, <2>5, WalkOn
<1>7. run' \in {"running", "stage_state_failure"} /\ (run' = "running" => accepted)
      /\ (run' = "stage_state_failure" => ~accepted)
      /\ (accepted => label' = way.to /\ todo' = Changes(way))
    BY <1>1, <1>2
<1> HIDE DEF accepted
<1>8. \A t \in StageNames : requires_approval'[t] => t \in self.reviewed
    BY <1>4 DEF WalkInv
<1>9. run' = "running" => FollowsWalk(label', todo', state')
    BY <1>6, <1>7
<1>10. QED
    BY <1>1, <1>5, <1>7, <1>8, <1>9, WalkNext

\* A stage function raises: its stage is marked failed.
LEMMA FailWalks ==
  ASSUME TypeOK, WalkInv, NEW s \in StageNames, NEW retryable, FailStage(s, retryable)
  PROVE  WalkInv' /\ DeclaredOrder' /\ EndedSettled'
<1> DEFINE accepted == Accepted(s, "FAILED", FALSE, requires_approval)
<1>1. /\ UNCHANGED <<wf, self, label, todo, requires_approval, stray>> /\ Running
      /\ s \in Executing /\ (state[s] = "IN_PROGRESS" \/ s \in self.notifies)
    BY DEF FailStage, Idle
<1>2. state[s] \notin {"NOT_STARTED", "UNREACHABLE", "COMPLETE"}
    BY <1>1 DEF Executing
<1>3. state' = state \/ state' = [state EXCEPT ![s] = "FAILED"]
    <2>1. set_stage_state(s, "FAILED", FALSE, requires_approval)
        BY DEF FailStage
    <2>2. QED
        BY <2>1, SetOne DEF StateEnum
<1>4. run' # "returned" /\ (run' = "stage_state_failure" => ~accepted)
    BY <1>1 DEF FailStage, Running
<1>5. ~accepted => wf \in Misdeclared
    <2> SUFFICES ASSUME wf \notin Misdeclared PROVE accepted
        OBVIOUS
    <2>1. state[s] = "IN_PROGRESS"
        BY <1>1, WalksOK DEF ReviewsDeclared
    <2>2. Moved(s, "FAILED", FALSE) = {s}
        BY <2>1 DEF Moved
    <2>3. transition(s, "FAILED", requires_approval)
        BY <2>1 DEF transition, _VALID_TRANSITIONS
    <2>4. QED
        BY <2>2, <2>3 DEF Accepted
<1> HIDE DEF accepted
<1>6. QED
    BY <1>1, <1>2, <1>3, <1>4, <1>5, AwaitMoves

\* A review of a stage that is not pending ends the run, and is the reason it ends.
LEMMA ReviewWalks ==
  ASSUME TypeOK, WalkInv, NEW s \in StageNames, NEW new \in {"APPROVED", "REJECTED"},
         NEW decision, Review(s, new, decision)
  PROVE  WalkInv' /\ DeclaredOrder' /\ EndedSettled'
<1>1. UNCHANGED <<wf, self, label, todo, requires_approval>> /\ run = "running"
    BY DEF Review, Idle, Running
<1>2. CASE state[s] = "PENDING_APPROVAL"
    <2>1. state' = [state EXCEPT ![s] = new] /\ run' = run
        BY <1>2 DEF Review
    <2>2. QED
        BY <1>1, <1>2, <2>1, AwaitMoves DEF Running
<1>3. CASE state[s] # "PENDING_APPROVAL"
    <2>1. run' = "stage_state_failure" /\ stray'
        BY <1>3 DEF Review
    <2>2. QED
        BY <1>1, <2>1, WalkNext DEF WalkInv
<1>4. QED
    BY <1>2, <1>3

\* A run that returns has come to the end of a walk.
LEMMA ReturnWalks ==
  ASSUME TypeOK, WalkInv, Running, todo = <<>>, label \in {"archive", "return"},
         UNCHANGED <<wf, self, state, requires_approval>>, run' = "returned"
  PROVE  WalkInv' /\ DeclaredOrder' /\ EndedSettled'
<1>1. PICK c \in Walks(self) : OnWalk(c, label, todo, state)
    BY DEF WalkInv, FollowsWalk
<1>2. wf \notin Unsettled => \A s \in StageNames : Settled(c.state[s])
    BY <1>1, WalksOK DEF Settles, OnWalk, StageNames
<1>3. wf \notin Unsettled => \A s \in StageNames : Settled(state[s])
    BY <1>1, <1>2 DEF OnWalk, Follows, Settled
<1>4. QED
    BY <1>3, WalkNext DEF WalkInv

\* A run that ends in any other way.
LEMMA EndWalks ==
  ASSUME WalkInv, UNCHANGED <<wf, self, requires_approval>>,
         run' \notin {"running", "returned", "stage_state_failure"}
  PROVE  WalkInv' /\ DeclaredOrder' /\ EndedSettled'
BY WalkNext DEF WalkInv

\* Every step of a run is a step of a walk, or at an await of one.
LEMMA WalkStep ==
  ASSUME TypeOK, WalkInv, DeclaredOrder, EndedSettled, [Next]_vars
  PROVE  WalkInv' /\ DeclaredOrder' /\ EndedSettled'
<1> DEFINE Goal == WalkInv' /\ DeclaredOrder' /\ EndedSettled'
<1>1. CASE StartRun
    BY <1>1, StartWalks
<1>2. CASE Advance
    BY <1>2, AdvanceWalks
<1>3. CASE Finish
  <2>1. UNCHANGED <<wf, self, label, todo, state, requires_approval>> /\ Running /\ todo = <<>>
    BY <1>3 DEF Finish, Idle
  <2>2. CASE run' = "returned"
    <3>1. label \in {"archive", "return"}
        BY <1>3, <2>2 DEF Finish
    <3>2. QED
        BY <2>1, <2>2, <3>1, ReturnWalks
  <2>3. CASE run' # "returned"
    <3>1. run' \in {"application_error", "archive_failure"}
        BY <1>3, <2>3 DEF Finish
    <3>2. QED
        BY <2>1, <3>1, EndWalks
  <2>4. QED
    BY <2>2, <2>3
<1>4. ASSUME NEW s \in StageNames, RequestReview(s) PROVE Goal
  <2>1. state[s] \notin {"NOT_STARTED", "UNREACHABLE", "COMPLETE"}
    BY <1>4 DEF RequestReview, Executing
  <2>2. /\ UNCHANGED <<wf, self, label, todo, requires_approval>> /\ Running
        /\ run' \in {"running", "stage_failure"}
    BY <1>4 DEF RequestReview, Idle, Running
  <2>3. state' = state \/ state' = [state EXCEPT ![s] = "PENDING_APPROVAL"]
    BY <1>4 DEF RequestReview, StateEnum
  <2>4. QED
    BY <2>1, <2>2, <2>3, AwaitMoves
<1>5. ASSUME NEW s \in StageNames, Complete(s) PROVE Goal
    BY <1>5, CompleteWalks
<1>6. ASSUME NEW s \in StageNames, CompleteOneOf(s) PROVE Goal
  <2>1. state[s] \notin {"NOT_STARTED", "UNREACHABLE", "COMPLETE"}
    BY <1>6 DEF CompleteOneOf, Executing
  <2>2. /\ UNCHANGED <<wf, self, label, todo, requires_approval>> /\ Running
        /\ run' \in {"running", "stage_failure"}
    BY <1>6 DEF CompleteOneOf, Idle, Running
  <2>3. state' = state \/ state' = [state EXCEPT ![s] = "COMPLETE"]
    BY <1>6 DEF CompleteOneOf, StateEnum
  <2>4. QED
    BY <2>1, <2>2, <2>3, AwaitMoves
<1>7. CASE archive_results
  <2>1. UNCHANGED <<wf, self, label, todo, state, requires_approval>> /\ Running /\ todo = <<>>
    BY <1>7 DEF archive_results, Idle
  <2>2. CASE run' = "returned"
    <3>1. label \in {"archive", "return"}
        BY <1>7, <2>2 DEF archive_results
    <3>2. QED
        BY <2>1, <2>2, <3>1, ReturnWalks
  <2>3. CASE run' # "returned"
    <3>1. run' \in {"application_error", "archive_failure"}
        BY <1>7, <2>3 DEF archive_results
    <3>2. QED
        BY <2>1, <3>1, EndWalks
  <2>4. QED
    BY <2>2, <2>3
<1>8. ASSUME NEW s \in StageNames, NEW retryable \in BOOLEAN, FailStage(s, retryable)
     PROVE  Goal
    BY <1>8, FailWalks
<1>9. ASSUME NEW s \in StageNames, approve(s) PROVE Goal
    BY <1>9, ReviewWalks DEF approve
<1>10. ASSUME NEW s \in StageNames, reject(s) PROVE Goal
    BY <1>10, ReviewWalks DEF reject
<1>11. ASSUME NEW s \in StageNames, retry(s) PROVE Goal
  <2>1. state[s] \notin {"NOT_STARTED", "UNREACHABLE", "COMPLETE"}
    BY <1>11 DEF retry, Executing
  <2>2. /\ UNCHANGED <<wf, self, label, todo, requires_approval>> /\ Running
        /\ run' \in {"running", "stage_failure"}
    BY <1>11 DEF retry, Idle, Running
  <2>3. state' = state \/ state' = [state EXCEPT ![s] = "IN_PROGRESS"]
    BY <1>11, SetOne DEF retry, StateEnum
  <2>4. QED
    BY <2>1, <2>2, <2>3, AwaitMoves
<1>12. CASE terminate_workflow
    BY <1>12, EndWalks DEF terminate_workflow
<1>13. CASE UNCHANGED vars
  <2>1. /\ UNCHANGED <<wf, self, label, todo, state, requires_approval, run, stray>>
        /\ StageNames' = StageNames
    BY <1>13 DEF vars, StageNames
  <2>2. QED
    BY <2>1, WalkNext DEF WalkInv, DeclaredOrder, EndedSettled, Running, Settled
<1>14. QED
    BY <1>1, <1>2, <1>3, <1>4, <1>5, <1>6, <1>7, <1>8, <1>9, <1>10, <1>11, <1>12, <1>13
       DEF Next, Works, Ended

LEMMA WalkInitially ==
  ASSUME Init
  PROVE  WalkInv /\ DeclaredOrder /\ EndedSettled
<1>1. TypeOK
    BY TypeInitially
<1>2. Outset(self) \in Walks(self)
    BY <1>1, WalksOK DEF DeclaredOn
<1>3. OnWalk(Outset(self), label, todo, state)
    BY DEF Init, OnWalk, Outset, Follows, StageNames
<1>4. \A s \in StageNames : requires_approval[s] => s \in self.reviewed
    BY DEF Init
<1>5. QED
    BY <1>2, <1>3, <1>4 DEF Init, WalkInv, FollowsWalk, DeclaredOrder, EndedSettled

\* A run is refused a change of a stage only because of a review of a stage that is
\* not pending: whatever its stage functions, reviewers and operators do, the order
\* in which run skips and awaits stages agrees with what the stages are declared
\* with, in every workflow but those that are named as misdeclared.
THEOREM OrderKept == Spec => []DeclaredOrder
<1> DEFINE Inv == TypeOK /\ IndexCurrent /\ WalkInv /\ DeclaredOrder /\ EndedSettled
<1>1. Init => Inv
    BY TypeInitially, WalkInitially
<1>2. Inv /\ [Next]_vars => Inv'
    BY TypeStep, WalkStep
<1>3. Inv => DeclaredOrder
    OBVIOUS
<1> HIDE DEF Inv
<1>4. QED
    BY <1>1, <1>2, <1>3, PTL DEF Spec

\* A run that returns leaves no stage that is shown as still to come, however it was
\* interrupted by failures, retries and reviews: of the stages run passes by, it has
\* named every one that the cascade to direct dependents does not reach.
THEOREM AllSettled == Spec => []EndedSettled
<1> DEFINE Inv == TypeOK /\ IndexCurrent /\ WalkInv /\ DeclaredOrder /\ EndedSettled
<1>1. Init => Inv
    BY TypeInitially, WalkInitially
<1>2. Inv /\ [Next]_vars => Inv'
    BY TypeStep, WalkStep
<1>3. Inv => EndedSettled
    OBVIOUS
<1> HIDE DEF Inv
<1>4. QED
    BY <1>1, <1>2, <1>3, PTL DEF Spec

-----------------------------------------------------------------------------
(* After a rejection.  The gate says when stages are begun; which of them were *)
(* begun before the rejection is a matter of the dependencies.                 *)

\* A stage is begun behind the stages it depends on.
DependInv ==
  \A d \in StageNames : Begun(state, d) => \A s \in self.depends_on[d] : Settled(state[s])

\* Only a reviewed stage that has begun is rejected.
RejectInv == \A s \in StageNames : verdict[s] = "rejected" => s \in self.reviewed /\ Begun(state, s)

\* What a step does to the stages: it moves at most one that is under way, which may
\* be rejected in it; it skips stages; or it begins the one that run is to begin.
Moves(s) == /\ Begun(state, s) /\ state[s] # "COMPLETE" /\ Begun(state', s)
            /\ \A t \in StageNames : t # s => state'[t] = state[t]
            /\ \A t \in StageNames : verdict'[t] = "rejected" =>
                 verdict[t] = "rejected" \/ (t = s /\ s \in self.reviewed)
Skips == /\ \A t \in StageNames : \/ state'[t] = state[t]
                                  \/ state[t] = "NOT_STARTED" /\ state'[t] = "UNREACHABLE"
         /\ verdict' = verdict
BeginsOne(s) == /\ state[s] = "NOT_STARTED" /\ DependenciesMet(s) /\ Begun(state', s)
                /\ \A t \in StageNames : t # s => state'[t] = state[t]
                /\ verdict' = verdict
                /\ \E i \in DOMAIN todo : Begins(todo, i)

StageStep == Skips \/ \E s \in StageNames : Moves(s) \/ BeginsOne(s)

LEMMA MovesOne ==
  ASSUME TypeOK, NEW s \in StageNames, Begun(state, s), state[s] # "COMPLETE",
         NEW new \in {"IN_PROGRESS", "PENDING_APPROVAL", "COMPLETE", "FAILED"},
         state' = state \/ state' = [state EXCEPT ![s] = new], verdict' = verdict
  PROVE  StageStep
<1>1. state'[s] \in {state[s], new} /\ \A t \in StageNames : t # s => state'[t] = state[t]
    BY DEF TypeOK
<1>2. Moves(s)
    BY <1>1 DEF Moves, Begun
<1>3. QED
    BY <1>2 DEF StageStep

LEMMA AdvanceStep ==
  ASSUME TypeOK, Advance
  PROVE  StageStep
<1> DEFINE change == Head(todo)
           s == change.stage
<1>1. /\ set_stage_state(s, change.to, change.cascade, requires_approval)
      /\ verdict' = verdict /\ todo # <<>>
    BY DEF Advance
<1>2. todo \in Seq(Change)
    BY DEF TypeOK, Change
<1>3. change \in Change /\ 1 \in DOMAIN todo /\ change = todo[1]
    BY <1>1, <1>2
<1>4. s \in StageNames /\ change.to \in {"UNREACHABLE", "IN_PROGRESS"}
    BY <1>3 DEF Change
<1> HIDE DEF change, s
<1>5. CASE change.to = "UNREACHABLE"
    <2>1. set_stage_state(s, "UNREACHABLE", change.cascade, requires_approval)
        BY <1>1, <1>5
    <2>2. Skips
        BY <1>1, <1>4, <2>1, SetSkip DEF Skips
    <2>3. QED
        BY <2>2 DEF StageStep
<1>6. CASE change.to = "IN_PROGRESS"
    <2>1. set_stage_state(s, "IN_PROGRESS", change.cascade, requires_approval)
        BY <1>1, <1>6
    <2>2. \/ state' = state
          \/ /\ Accepted(s, "IN_PROGRESS", change.cascade, requires_approval)
             /\ transition(s, "IN_PROGRESS", requires_approval)
             /\ state' = [state EXCEPT ![s] = "IN_PROGRESS"]
        BY <1>4, <2>1, SetOne DEF StateEnum
    <2>3. CASE state' = state
        BY <1>1, <2>3 DEF Skips, StageStep
    <2>4. CASE state' # state
        <3>1. state[s] \in {"NOT_STARTED", "FAILED"} /\ state' = [state EXCEPT ![s] = "IN_PROGRESS"]
            BY <1>4, <2>2, <2>4, ValidTransitions
        <3>2. DependenciesMet(s)
            BY <2>2, <2>4, <3>1 DEF Accepted
        <3>3. CASE state[s] = "FAILED"
            BY <1>1, <1>4, <3>1, <3>3, MovesOne DEF Begun
        <3>4. CASE state[s] = "NOT_STARTED"
            <4>1. state'[s] = "IN_PROGRESS" /\ \A t \in StageNames : t # s => state'[t] = state[t]
                BY <1>4, <3>1 DEF TypeOK
            <4>2. Begins(todo, 1)
                BY <1>3, <1>6 DEF Begins
            <4>3. BeginsOne(s)
                BY <1>1, <1>3, <3>2, <3>4, <4>1, <4>2 DEF BeginsOne, Begun
            <4>4. QED
                BY <1>4, <4>3 DEF StageStep
        <3>5. QED
            BY <3>1, <3>3, <3>4
    <2>5. QED
        BY <2>3, <2>4
<1>7. QED
    BY <1>4, <1>5, <1>6

LEMMA CompleteStep ==
  ASSUME TypeOK, NEW s \in StageNames, Complete(s)
  PROVE  StageStep
<1>1. PICK way \in self.run[label] :
        /\ verdict' = [verdict EXCEPT ![s] = IF way.on = "waived" THEN "waived" ELSE @]
        /\ set_stage_state(s, "COMPLETE", FALSE, requires_approval')
    BY DEF Complete
<1>2. state' = state \/ state' = [state EXCEPT ![s] = "COMPLETE"]
    BY <1>1, SetOne DEF StateEnum
<1>3. Begun(state, s) /\ state[s] # "COMPLETE"
    BY DEF Complete, Executing, Begun
<1>4. state'[s] \in {state[s], "COMPLETE"} /\ \A t \in StageNames : t # s => state'[t] = state[t]
    BY <1>2 DEF TypeOK
<1>5. \A t \in StageNames : verdict'[t] = "rejected" => verdict[t] = "rejected"
    BY <1>1 DEF TypeOK
<1>6. Moves(s)
    BY <1>3, <1>4, <1>5 DEF Moves, Begun
<1>7. QED
    BY <1>6 DEF StageStep

LEMMA ReviewStep ==
  ASSUME TypeOK, GateInv, NEW s \in StageNames, NEW new \in {"APPROVED", "REJECTED"},
         NEW decision, Review(s, new, decision)
  PROVE  StageStep
<1>1. CASE state[s] = "PENDING_APPROVAL"
    <2>1. state' = [state EXCEPT ![s] = new] /\ verdict' = [verdict EXCEPT ![s] = decision]
        BY <1>1 DEF Review
    <2>2. s \in self.reviewed
        BY <1>1 DEF GateInv, ReviewAt
    <2>3. /\ state'[s] = new
          /\ \A t \in StageNames : t # s => state'[t] = state[t] /\ verdict'[t] = verdict[t]
        BY <2>1 DEF TypeOK
    <2>4. Moves(s)
        BY <1>1, <2>2, <2>3 DEF Moves, Begun
    <2>5. QED
        BY <2>4 DEF StageStep
<1>2. CASE state[s] # "PENDING_APPROVAL"
    BY <1>2 DEF Review, Skips, StageStep
<1>3. QED
    BY <1>1, <1>2

LEMMA EveryStageStep ==
  ASSUME TypeOK, GateInv, [Next]_vars
  PROVE  StageStep
<1>1. CASE StartRun
    BY <1>1 DEF StartRun, Skips, StageStep
<1>2. CASE Advance
    BY <1>2, AdvanceStep
<1>3. CASE Finish
    BY <1>3 DEF Finish, Skips, StageStep
<1>4. ASSUME NEW s \in StageNames, RequestReview(s) PROVE StageStep
  <2>1. Begun(state, s) /\ state[s] # "COMPLETE" /\ verdict' = verdict
    BY <1>4 DEF RequestReview, Executing, Begun
  <2>2. state' = state \/ state' = [state EXCEPT ![s] = "PENDING_APPROVAL"]
    BY <1>4 DEF RequestReview, StateEnum
  <2>3. QED
    BY <2>1, <2>2, MovesOne
<1>5. ASSUME NEW s \in StageNames, Complete(s) PROVE StageStep
    BY <1>5, CompleteStep
<1>6. ASSUME NEW s \in StageNames, CompleteOneOf(s) PROVE StageStep
  <2>1. Begun(state, s) /\ state[s] # "COMPLETE" /\ verdict' = verdict
    BY <1>6 DEF CompleteOneOf, Executing, Begun
  <2>2. state' = state \/ state' = [state EXCEPT ![s] = "COMPLETE"]
    BY <1>6 DEF CompleteOneOf, StateEnum
  <2>3. QED
    BY <2>1, <2>2, MovesOne
<1>7. CASE archive_results
    BY <1>7 DEF archive_results, Skips, StageStep
<1>8. ASSUME NEW s \in StageNames, NEW retryable \in BOOLEAN, FailStage(s, retryable)
     PROVE  StageStep
  <2>1. Begun(state, s) /\ state[s] # "COMPLETE" /\ verdict' = verdict
    BY <1>8 DEF FailStage, Executing, Begun
  <2>2. state' = state \/ state' = [state EXCEPT ![s] = "FAILED"]
    BY <1>8, SetOne DEF FailStage, StateEnum
  <2>3. QED
    BY <2>1, <2>2, MovesOne
<1>9. ASSUME NEW s \in StageNames, approve(s) PROVE StageStep
    BY <1>9, ReviewStep DEF approve
<1>10. ASSUME NEW s \in StageNames, reject(s) PROVE StageStep
    BY <1>10, ReviewStep DEF reject
<1>11. ASSUME NEW s \in StageNames, retry(s) PROVE StageStep
  <2>1. Begun(state, s) /\ state[s] # "COMPLETE" /\ verdict' = verdict
    BY <1>11 DEF retry, Executing, Begun
  <2>2. state' = state \/ state' = [state EXCEPT ![s] = "IN_PROGRESS"]
    BY <1>11, SetOne DEF retry, StateEnum
  <2>3. QED
    BY <2>1, <2>2, MovesOne
<1>12. CASE terminate_workflow
    BY <1>12 DEF terminate_workflow, Skips, StageStep
<1>13. CASE UNCHANGED vars
    BY <1>13 DEF vars, Skips, StageStep
<1>14. QED
    BY <1>1, <1>2, <1>3, <1>4, <1>5, <1>6, <1>7, <1>8, <1>9, <1>10, <1>11, <1>12, <1>13
       DEF Next, Works, Ended

\* Whatever a step does to the stages, it keeps a rejection's dependents unbegun.
LEMMA RejectStep ==
  ASSUME TypeOK, GateInv, UNCHANGED self, StageStep, DependInv, RejectInv, RejectionStops
  PROVE  DependInv' /\ RejectInv' /\ RejectionStops'
<1>1. /\ StageNames' = StageNames
      /\ \A s \in StageNames : stages_by_dependency(s)' = stages_by_dependency(s)
    BY DEF StageNames, stages_by_dependency
<1>2. /\ \A d \in StageNames : self.depends_on[d] \subseteq StageNames
      /\ self.reviewed \subseteq StageNames
    BY SelfOK
<1> SUFFICES /\ \A d \in StageNames : Begun(state', d) =>
                  \A s \in self.depends_on[d] : Settled(state'[s])
             /\ \A s \in StageNames : verdict'[s] = "rejected" =>
                  /\ s \in self.reviewed /\ Begun(state', s)
                  /\ \A d \in stages_by_dependency(s) : ~Begun(state', d)
    BY <1>1 DEF DependInv, RejectInv, RejectionStops, Begun
<1>3. CASE Skips
    <2>1. \A t \in StageNames : /\ Begun(state', t) = Begun(state, t)
                                /\ Settled(state[t]) => Settled(state'[t])
        BY <1>3 DEF Skips, Begun, Settled
    <2>2. \A s \in StageNames : verdict[s] = "rejected" =>
            \A d \in stages_by_dependency(s) : ~Begun(state, d)
        BY DEF RejectionStops, Begun
    <2>3. \A s \in StageNames : stages_by_dependency(s) \subseteq StageNames
        BY DEF stages_by_dependency
    <2>4. verdict' = verdict
        BY <1>3 DEF Skips
    <2>5. QED
        BY <1>2, <2>1, <2>2, <2>3, <2>4 DEF DependInv, RejectInv
<1>4. ASSUME NEW s \in StageNames, Moves(s)
      PROVE  /\ \A d \in StageNames : Begun(state', d) =>
                  \A t \in self.depends_on[d] : Settled(state'[t])
             /\ \A t \in StageNames : verdict'[t] = "rejected" =>
                  /\ t \in self.reviewed /\ Begun(state', t)
                  /\ \A d \in stages_by_dependency(t) : ~Begun(state', d)
    <2>1. \A t \in StageNames : Begun(state', t) = Begun(state, t)
        BY <1>4 DEF Moves, Begun
    <2>2. ~Settled(state[s])
        BY <1>4 DEF Moves, Begun, Settled
    <2>3. \A d \in stages_by_dependency(s) : ~Begun(state, d)
        BY <2>2 DEF DependInv, stages_by_dependency
    <2>4. \A d \in StageNames : Begun(state', d) => \A t \in self.depends_on[d] : Settled(state'[t])
        BY <1>2, <1>4, <2>1, <2>2 DEF DependInv, Moves
    <2>5. \A t \in StageNames : verdict[t] = "rejected" =>
            \A d \in stages_by_dependency(t) : ~Begun(state, d)
        BY DEF RejectionStops, Begun
    <2>6. \A t \in StageNames : verdict'[t] = "rejected" =>
            /\ t \in self.reviewed /\ Begun(state, t)
            /\ \A d \in stages_by_dependency(t) : ~Begun(state, d)
        BY <1>4, <2>3, <2>5 DEF Moves, RejectInv
    <2>7. \A t \in StageNames : stages_by_dependency(t) \subseteq StageNames
        BY DEF stages_by_dependency
    <2>8. QED
        BY <2>1, <2>4, <2>6, <2>7
<1>5. ASSUME NEW s \in StageNames, BeginsOne(s)
      PROVE  /\ \A d \in StageNames : Begun(state', d) =>
                  \A t \in self.depends_on[d] : Settled(state'[t])
             /\ \A t \in StageNames : verdict'[t] # "rejected"
    <2>1. \A t \in StageNames : t # s => state'[t] = state[t]
        BY <1>5 DEF BeginsOne
    <2>2. \A t \in self.depends_on[s] : Settled(state[t])
        BY <1>5 DEF BeginsOne, DependenciesMet, Settled
    <2>3. ~Settled(state[s])
        BY <1>5 DEF BeginsOne, Settled
    <2>4. \A d \in StageNames : Begun(state', d) => \A t \in self.depends_on[d] : Settled(state'[t])
        BY <1>2, <2>1, <2>2, <2>3 DEF DependInv, Begun
    <2>5. \A t \in self.reviewed : Begun(state, t) => verdict[t] \in {"approved", "waived"}
        BY <1>5 DEF BeginsOne, GateInv, HeldAt
    <2>6. \A t \in StageNames : verdict[t] # "rejected"
        BY <2>5 DEF RejectInv
    <2>7. QED
        BY <1>5, <2>4, <2>6 DEF BeginsOne
<1>6. QED
    BY <1>3, <1>4, <1>5 DEF StageStep

\* After a rejection no stage that depends on the rejected one is begun, in every
\* workflow that awaits reviewed stages alone and ends after a rejection.  It is false
\* of RedfishProvisioningWorkflow, whose run looks at no outcome (run stages_reject).
THEOREM RejectionHeld == Spec => [](wf \notin Ungated => RejectionStops)
<1> DEFINE Held == GateInv /\ DependInv /\ RejectInv /\ RejectionStops
           Inv == TypeOK /\ IndexCurrent /\ (wf \in Ungated \/ Held)
<1>1. Init => Inv
    <2> SUFFICES ASSUME Init PROVE Inv
        OBVIOUS
    <2>1. \A s \in StageNames : state[s] = "NOT_STARTED" /\ verdict[s] = "none"
        BY DEF Init
    <2>2. DependInv /\ RejectInv /\ RejectionStops
        BY <2>1 DEF DependInv, RejectInv, RejectionStops, Begun
    <2>3. QED
        BY <2>2, TypeInitially, GateInitially
<1>2. Inv /\ [Next]_vars => Inv'
    <2> SUFFICES ASSUME Inv, [Next]_vars PROVE Inv'
        OBVIOUS
    <2>1. TypeOK' /\ IndexCurrent' /\ UNCHANGED <<wf, self>>
        BY TypeStep, SameWorkflow
    <2>2. CASE wf \in Ungated
        BY <2>1, <2>2
    <2>3. CASE wf \notin Ungated
        <3>1. GateInv'
            BY <2>3, GateStep
        <3>2. StageStep
            BY <2>3, EveryStageStep
        <3>3. DependInv' /\ RejectInv' /\ RejectionStops'
            BY <2>1, <2>3, <3>2, RejectStep
        <3>4. QED
            BY <2>1, <3>1, <3>3
    <2>4. QED
        BY <2>2, <2>3
<1>3. Inv => (wf \notin Ungated => RejectionStops)
    OBVIOUS
<1> HIDE DEF Inv
<1>4. QED
    BY <1>1, <1>2, <1>3, PTL DEF Spec
=============================================================================
