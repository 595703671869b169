----------------------------- MODULE StageWalks -----------------------------
(* What a definition has to keep to for its run never to be refused a change   *)
(* of a stage, and to leave no stage unsettled when it returns.  Both are      *)
(* conditions on the definition alone: on its walks, the ways run can go if    *)
(* every stage that it awaits is done at once.  The framework's rules are      *)
(* stated anew here, for stages that are begun, done or skipped and nothing    *)
(* else; StagesProofs shows that a run, with its reviews, failures, retries    *)
(* and signals, follows a walk, and what that gives.                           *)
EXTENDS Stages

\* Where a walk is: the label run comes to, what it asks for on the way there, and
\* the stages: NOT_STARTED, IN_PROGRESS, COMPLETE or UNREACHABLE.
Outset(d) == [at |-> "start", todo |-> <<>>, state |-> [s \in DOMAIN d.depends_on |-> "NOT_STARTED"]]

WaysAt(d, l) == IF l = "start" THEN d.start ELSE IF l \in DOMAIN d.run THEN d.run[l] ELSE {}

\* The stages the next change moves: a stage that is skipped takes those with it that
\* directly depend on it.
Touched(d, c) ==
  LET change == Head(c.todo)
  IN  IF change.to = "IN_PROGRESS" THEN {change.stage}
      ELSE IF c.state[change.stage] = "UNREACHABLE" THEN {}
      ELSE {change.stage} \cup {s \in DOMAIN d.depends_on :
                                  /\ change.cascade /\ change.stage \in d.depends_on[s]
                                  /\ c.state[s] # "UNREACHABLE"}

Changed(d, c) ==
  [ at |-> c.at, todo |-> Tail(c.todo),
    state |-> [s \in DOMAIN d.depends_on |-> IF s \in Touched(d, c) THEN Head(c.todo).to ELSE c.state[s]] ]

\* What run awaits is done, and it takes a way on.
Gone(d, c, way) ==
  [ at |-> way.to, todo |-> ChangesBy(d, way),
    state |-> [s \in DOMAIN d.depends_on |-> IF c.state[s] = "IN_PROGRESS" THEN "COMPLETE" ELSE c.state[s]] ]

Further(d, c) == IF c.todo # <<>> THEN {Changed(d, c)} ELSE {Gone(d, c, way) : way \in WaysAt(d, c.at)}

\* Where the walks of a definition come to in so many steps.  Each step but those to a
\* label settles or begins a stage; that none leads further is part of Declared.
Walks(d) ==
  LET Walk[n \in Nat] == IF n = 0 THEN {Outset(d)}
                         ELSE LET before == Walk[n - 1]
                              IN  before \cup UNION {Further(d, c) : c \in before}
  IN  Walk[4 * (Cardinality(DOMAIN d.depends_on) + 1)]

Settled(x) == x \in {"COMPLETE", "UNREACHABLE"}

\* Whatever a walk skips or begins has not been begun, and depends, if it is begun,
\* on settled stages only; at a label just the stages awaited there have begun.
DeclaredOn(d, walks) ==
  /\ Outset(d) \in walks
  /\ \A c \in walks :
       /\ Further(d, c) \subseteq walks
       /\ c.todo = <<>> => \A s \in DOMAIN d.depends_on :
            c.state[s] = "IN_PROGRESS" <=> s \in Range(AwaitedBy(d, c.at))
       /\ c.todo # <<>> =>
            /\ \A s \in Touched(d, c) : c.state[s] = "NOT_STARTED"
            /\ Head(c.todo).to = "IN_PROGRESS" =>
                 \A s \in d.depends_on[Head(c.todo).stage] : Settled(c.state[s])
Declared(d) == DeclaredOn(d, Walks(d))

\* A stage that is reviewed ends approved, rejected or waived, and its function awaits
\* nothing that could fail in the meantime.
ReviewsDeclared(d) ==
  /\ d.notifies = {}
  /\ \A l \in DOMAIN d.run : Range(AwaitedBy(d, l)) \cap d.reviewed # {} =>
       \A way \in d.run[l] : way.on \in {"approved", "rejected", "waived"}

\* Where a walk returns, every stage is settled.
Settles(d) ==
  \A c \in Walks(d) : c.at \in {"archive", "return"} /\ c.todo = <<>> =>
    \A s \in DOMAIN d.depends_on : Settled(c.state[s])

ASSUME DeclaredAssumption == \A w \in DOMAIN Catalogue : Declared(Catalogue[w])
ASSUME ReviewsAssumption == \A w \in DOMAIN Catalogue \ Misdeclared : ReviewsDeclared(Catalogue[w])
ASSUME SettlesAssumption == \A w \in DOMAIN Catalogue \ Unsettled : Settles(Catalogue[w])
=============================================================================
