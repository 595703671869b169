---------------------------- MODULE ApprovalGate ----------------------------
(* What the reviews of a workflow promise: stages are begun one group after    *)
(* another, and none is begun once a reviewed stage has been begun until that  *)
(* stage has been approved, or its review has been waived because there is     *)
(* nothing to review.                                                          *)

VARIABLES gated,    \* the stages that ask for a review
          begun,    \* the stages that have been started
          decision  \* stage -> "none", "approved", "rejected" or "waived"

vars == <<gated, begun, decision>>

Open(decided) == \A s \in gated \cap begun : decided[s] \in {"approved", "waived"}

Init == /\ begun = {}
        /\ decision = [s \in DOMAIN decision |-> "none"]
        /\ gated \subseteq DOMAIN decision

\* A decision is about one gated stage that has been begun.
Decides(decided) ==
  \E s \in gated \cap begun, d \in {"approved", "rejected", "waived"} :
    decided = [decision EXCEPT ![s] = d]

Decide == Decides(decision') /\ UNCHANGED <<gated, begun>>

\* Stages are begun behind an open gate; the waiver may come with the same step.
Begin == /\ begun' # begun /\ begun \subseteq begun' /\ begun' \subseteq DOMAIN decision
         /\ decision' = decision \/ Decides(decision')
         /\ Open(decision')
         /\ UNCHANGED gated

Next == Decide \/ Begin

Spec == Init /\ [][Next]_vars
=============================================================================
