------------------------------- MODULE MCJobs -------------------------------
(***************************************************************************)
(* The background components that share no state with one another, one     *)
(* after the other: part says whose behaviour this is, the rest stay in    *)
(* their initial states.  In those no fair action of theirs is enabled, so *)
(* the fairness of all of them can be assumed at once.                     *)
(***************************************************************************)
EXTENDS Delivery, QueryJobs, JobQueue, AuditLog, AuditRetention

VARIABLE part

jobsVars == <<deliveryVars, queryVars, jobQueueVars, auditVars, retentionVars, part>>

JobsInit ==
    /\ part \in {"delivery", "query", "queue", "audit", "retention"}
    /\ DeliveryInit /\ QueryInit /\ JobQueueInit /\ AuditInit
    /\ RetentionInit /\ (part # "retention" => month = 1)

JobsNext ==
    /\ UNCHANGED part
    /\ \/ /\ part = "delivery" /\ DeliveryNext
          /\ UNCHANGED <<queryVars, jobQueueVars, auditVars, retentionVars>>
       \/ /\ part = "query" /\ QueryNext
          /\ UNCHANGED <<deliveryVars, jobQueueVars, auditVars, retentionVars>>
       \/ /\ part = "queue" /\ JobQueueNext
          /\ UNCHANGED <<deliveryVars, queryVars, auditVars, retentionVars>>
       \/ /\ part = "audit" /\ AuditNext
          /\ UNCHANGED <<deliveryVars, queryVars, jobQueueVars, retentionVars>>
       \/ /\ part = "retention" /\ RetentionNext
          /\ UNCHANGED <<deliveryVars, queryVars, jobQueueVars, auditVars>>

JobsSpec ==
    /\ JobsInit /\ [][JobsNext]_jobsVars
    /\ DeliveryFairness /\ QueryFairness /\ JobQueueFairness

JobsTypeOK ==
    DeliveryTypeOK /\ QueryTypeOK /\ JobQueueTypeOK /\ AuditTypeOK /\ RetentionTypeOK
=============================================================================
