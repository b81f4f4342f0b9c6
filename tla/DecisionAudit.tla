---------------------------- MODULE DecisionAudit ----------------------------
(***************************************************************************)
(* AutoRoute beside an auditor that watches the circuits while a request   *)
(* is being decided.  decide is not atomic: the auditor says what its      *)
(* outcome is still worth.  The code keeps none of this.                   *)
(***************************************************************************)
EXTENDS AutoRoute

VARIABLES
    ever,      \* request -> models whose circuit was closed at some moment of its decision
    always,    \* request -> models whose circuit was closed throughout its decision
    seen       \* request -> the health it arrived to, until that changes

auditVars == <<health, now, request, ever, always, seen>>

ClosedModels == {m \in Models : ~CircuitOpen(m)}

HealthView == [m \in Models |-> [open |-> CircuitOpen(m), factor |-> HealthFactor(m)]]

Changed == <<>>

IsDeciding(r) == request[r].phase \in Deciding

(* A record starts when the decision does, follows it, and is kept with    *)
(* its outcome until the request leaves.                                   *)
Follow(r, blank, start, old, next) ==
    IF IsDeciding(r)' THEN (IF IsDeciding(r) THEN next ELSE start)
    ELSE IF request[r].phase # "idle" /\ request'[r].phase # "idle" THEN old
    ELSE blank

Audit ==
    /\ ever' = [r \in Requests |->
                  Follow(r, {}, ClosedModels', ever[r], ever[r] \cup ClosedModels')]
    /\ always' = [r \in Requests |->
                  Follow(r, {}, ClosedModels', always[r], always[r] \cap ClosedModels')]
    /\ seen' = [r \in Requests |->
                  Follow(r, Changed, HealthView', seen[r],
                         IF HealthView' = HealthView THEN seen[r] ELSE Changed)]

AuditInit ==
    /\ AutoInit
    /\ ever = [r \in Requests |-> {}]
    /\ always = [r \in Requests |-> {}]
    /\ seen = [r \in Requests |-> Changed]

AuditNext == AutoNext /\ Audit

AuditSpec == AuditInit /\ [][AuditNext]_auditVars

-----------------------------------------------------------------------------
Decided(r) == request[r].phase \in {"sent", "answered"} /\ request[r].profile # NoProfile

Unserved(r) == request[r].phase = "refused" /\ request[r].profile # NoProfile

(* A model gets an automatic request only if its circuit was closed at     *)
(* some moment since that request arrived: what was routed to an open      *)
(* circuit had been on its way when the circuit opened.                    *)
SelectionJustified == \A r \in Requests : Decided(r) => request[r].model \in ever[r]

(* An automatic request is refused only if no model that the policy allows *)
(* had its circuit closed all the time: a race between the reads of decide *)
(* loses no model that was usable throughout.                              *)
RefusalJustified ==
    \A r \in Requests : Unserved(r) =>
        \A m \in always[r] : ~Allowed(request[r].body, request[r].profile, m)

(* When no health changed during a decision, its outcome is that of an     *)
(* atomic one: the best score among the allowed models whose circuit is    *)
(* closed, and the lower name between equals.                              *)
QuietDecisionIsAtomic ==
    \A r \in Requests :
        LET q == request[r]
            view == seen[r]
            usable == {m \in Models : Allowed(q.body, q.profile, m) /\ ~view[m].open}
            score(m) == ScoreWith(q.profile, q.body.task, m, view[m].factor)
        IN /\ Decided(r) /\ view # Changed =>
                 /\ q.model \in usable
                 /\ \A m \in usable \ {q.model} :
                       \/ score(q.model) > score(m)
                       \/ score(q.model) = score(m) /\ Position(q.model) < Position(m)
           /\ Unserved(r) /\ view # Changed => usable = {}
=============================================================================
