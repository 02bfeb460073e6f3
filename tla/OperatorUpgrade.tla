---------------------------- MODULE OperatorUpgrade ----------------------------
(***************************************************************************)
(* The operator's upgrade of itself: ClusterReconciler polls Mothership's  *)
(* actions, creates a Kubernetes job for an upgrade of the operator and    *)
(* follows it; the job's pod (selfupgrade.Service) upgrades the operator's *)
(* own helm release, checks the result and rolls it back; and revisions    *)
(* that appear are reported to Mothership.                                 *)
(*                                                                         *)
(* The controller and every job's pod are processes that share the Cluster *)
(* CR's status, the jobs and the helm release.  pc, todo and cur are the   *)
(* locals of the running reconcile; a job's record holds its pod's locals. *)
(*                                                                         *)
(* Simplifications:                                                        *)
(*  - the cluster is registered and available, the operator was installed  *)
(*    by helm, and of Mothership's actions only operator upgrades matter;  *)
(*  - conditions and the PROGRESSING, UPGRADE and ROLLBACK results that    *)
(*    are only sent, never used again, are left out;                       *)
(*  - a Get returns the API server's state (no informer lag);              *)
(*  - Mothership delivers an action again until it is acknowledged;        *)
(*  - requests, direct upgrades and faults are limited by budgets.         *)
(***************************************************************************)
EXTENDS Naturals, Sequences

CONSTANTS
  Versions,    \* chart versions of the operator
  Installed,   \* the versions helm has a revision of at the start
  Faults,      \* what goes wrong: a subset of AllFaults
  MaxRequests, \* bound on the upgrades Mothership asks for
  MaxDirect,   \* bound on upgrades by others than the operator
  MaxFaults    \* bound on faults in a behaviour

\* In the controller: an action cannot be polled, a job not be created or
\* deleted, the status not be written, a result not be recorded, an action not
\* be acknowledged, and the process stops.  In a job: the chart cannot be
\* fetched for the dry run, or not for the upgrade after it; helm records a
\* failed release; the release cannot be read; pods do not become ready; the
\* rollback fails; helm takes longer than the pod may run; the pod is killed, or
\* the job is deleted.
AllFaults == {"poll", "create", "delete", "write", "report", "ack", "stop",
              "dry run", "upgrade", "apply", "read", "pods", "rollback", "late", "kill", "remove"}

ASSUME UpgradeAssumption ==
  /\ Installed \subseteq Seq(Versions) \ {<<>>} /\ Faults \subseteq AllFaults
  /\ MaxRequests \in Nat /\ MaxDirect \in Nat /\ MaxFaults \in Nat

VARIABLES
  wants,    \* the version of every action Mothership issued, by action id
  queue,    \* ids of the actions that are not acknowledged
  status,   \* of the Cluster CR: upgradeJobName, lastReportedHelmRevision
  jobs,     \* every upgrade job, by name, with what its pod has done
  history,  \* helm's revisions of the operator's release, oldest first
  told,     \* revisions the controller reported to Mothership
  pc,       \* the call the running reconcile makes next, or "idle"
  todo,     \* the polled actions it has still to handle
  cur,      \* the action and job it is at, and what it will write
  direct,   \* direct upgrades left
  faults    \* faults left

local  == <<pc, todo, cur>>
budget == <<direct, faults>>
vars   == <<wants, queue, status, jobs, history, told, local, budget>>

------------------------------------------------------------------------------
(* Helpers *)

NoJob    == 0
Noting(n) == [id |-> 0, job |-> NoJob, made |-> NoJob, failed |-> FALSE, reported |-> n]
Nothing  == Noting(0)
Revision == Len(history)
Top      == history[Revision]
Record(v, st) == [version |-> v, status |-> st]
Jobs     == DOMAIN jobs

\* A job's pod is at most in one of these; the last three have no pod.
Live(j) == jobs[j].pc \notin {"succeeded", "failed", "deleted"}

\* Somebody else touches the release, or is about to, while job j runs.
Disturb(except) ==
  [j \in Jobs |-> [jobs[j] EXCEPT !.alone = @ /\ (j = except \/ ~Live(j))]]

Fault(f)  == f \in Faults /\ faults > 0 /\ faults' = faults - 1 /\ UNCHANGED direct
NoFault   == UNCHANGED budget
Go(next)  == pc' = next /\ UNCHANGED todo
Return    == pc' = "idle" /\ todo' = {} /\ cur' = Nothing

\* RecordActionResult for the release as it is now.
Tell(ok) == \/ ok /\ told' = told \cup {Revision} /\ NoFault
            \/ ~ok /\ Fault("report") /\ UNCHANGED told

------------------------------------------------------------------------------
(* The controller follows a job: checkUpgradeJobStatus *)

Tracking(state) == pc = "idle" /\ status.job # NoJob /\ jobs[status.job].pc = state

\* A plausible bug: that the job is not there is an error like any other.
JobGoneIsError == Tracking("deleted") /\ UNCHANGED vars

\* A job that is not there is forgotten.
JobGone ==
  /\ Tracking("deleted")
  /\ \/ status' = [status EXCEPT !.job = NoJob] /\ NoFault
     \/ Fault("write") /\ UNCHANGED status
  /\ UNCHANGED <<wants, queue, jobs, history, told, local>>

\* A plausible bug: the revision counts as reported although the call failed.
JobSucceededReported ==
  /\ Tracking("succeeded")
  /\ \E ok \in BOOLEAN : Tell(ok)
  /\ cur' = Noting(Revision)
  /\ Go("delete job")
  /\ UNCHANGED <<wants, queue, status, jobs, history>>

\* A plausible bug: a job that succeeded counts as running.
JobSucceededRuns == Tracking("succeeded") /\ UNCHANGED vars

\* The completion is reported with the release that is there now.
JobSucceeded ==
  /\ Tracking("succeeded")
  /\ \E ok \in BOOLEAN :
       /\ Tell(ok)
       /\ cur' = Noting(IF ok THEN Revision ELSE status.reported)
  /\ Go("delete job")
  /\ UNCHANGED <<wants, queue, status, jobs, history>>

\* A plausible bug: the job is forgotten before it is deleted.
JobFailedForgotten ==
  /\ Tracking("failed")
  /\ status' = [status EXCEPT !.job = NoJob] /\ UNCHANGED cur
  /\ Go("delete job")
  /\ UNCHANGED <<wants, queue, jobs, history, told, budget>>

\* The failure is only noted in the CR's conditions.
JobFailed ==
  /\ Tracking("failed")
  /\ cur' = Noting(status.reported)
  /\ Go("delete job")
  /\ UNCHANGED <<wants, queue, status, jobs, history, told, budget>>

\* That the job could not be deleted is only logged.
DeleteJob ==
  /\ pc = "delete job"
  /\ \/ jobs' = [jobs EXCEPT ![status.job].pc = "deleted"] /\ NoFault
     \/ Fault("delete") /\ UNCHANGED jobs
  /\ Go("clear job")
  /\ UNCHANGED <<wants, queue, status, history, told, cur>>

ClearJob ==
  /\ pc = "clear job"
  /\ \/ status' = [job |-> NoJob, reported |-> cur.reported] /\ NoFault
     \/ Fault("write") /\ UNCHANGED status
  /\ Return
  /\ UNCHANGED <<wants, queue, jobs, history, told>>

------------------------------------------------------------------------------
(* Without a job: revisions are reported and actions polled *)

Untracked == pc = "idle" /\ status.job = NoJob

\* A plausible bug: only the operator's own upgrades are reported.
DetectNothing ==
  /\ Untracked /\ Go("poll") /\ cur' = Noting(status.reported)
  /\ UNCHANGED <<wants, queue, status, jobs, history, told, budget>>

\* detectAndReportOperatorHelmRevisionChange; a failure is only logged, and the
\* copy of the status keeps what could not be written.
DetectRevision ==
  /\ Untracked
  /\ \/ /\ status.reported = Revision /\ NoFault
        /\ UNCHANGED <<status, told>> /\ cur' = Noting(Revision)
     \/ /\ status.reported # Revision
        /\ \/ /\ Tell(TRUE) /\ cur' = Noting(Revision)
              /\ status' = [status EXCEPT !.reported = Revision]
           \/ Tell(FALSE) /\ cur' = Noting(status.reported) /\ UNCHANGED status
           \/ /\ told' = told \cup {Revision} /\ cur' = Noting(Revision)
              /\ Fault("write") /\ UNCHANGED status
  /\ Go("poll")
  /\ UNCHANGED <<wants, queue, jobs, history>>

Poll ==
  /\ pc = "poll"
  /\ \/ pc' = "actions" /\ todo' = queue /\ UNCHANGED cur /\ NoFault
     \/ Fault("poll") /\ Return
  /\ UNCHANGED <<wants, queue, status, jobs, history, told>>

NewJob(v) == [version |-> v, pc |-> "pending", before |-> 0, own |-> 0, alone |-> TRUE,
              cut |-> FALSE]

\* handleOperatorUpgrade and createUpgradeJob.  The job's name is the second it
\* is created in: a second action of one poll may find the first one's job.
CreateJob(a) ==
  /\ pc = "actions" /\ a \in todo /\ todo' = todo \ {a}
  /\ \/ /\ LET j == Len(jobs) + 1 IN
             cur' = [cur EXCEPT !.id = a, !.job = j, !.made = j, !.failed = FALSE]
        /\ jobs' = Append(Disturb(NoJob),
                     [NewJob(wants[a]) EXCEPT !.alone = \A k \in Jobs : ~Live(k)])
        /\ pc' = "track" /\ NoFault
     \/ /\ cur.made # NoJob /\ jobs[cur.made].pc # "deleted"
        /\ cur' = [cur EXCEPT !.id = a, !.job = cur.made, !.failed = FALSE]
        /\ pc' = "track" /\ NoFault /\ UNCHANGED jobs
     \/ /\ Fault("create")
        /\ cur' = [cur EXCEPT !.id = a, !.failed = TRUE]
        /\ pc' = "ack" /\ UNCHANGED jobs
  /\ UNCHANGED <<wants, queue, status, history, told>>

\* The name goes into the status, over the one of an earlier action.
TrackJob ==
  /\ pc = "track" /\ Go("ack")
  /\ \/ status' = [job |-> cur.job, reported |-> cur.reported] /\ NoFault /\ UNCHANGED cur
     \/ Fault("write") /\ cur' = [cur EXCEPT !.failed = TRUE] /\ UNCHANGED status
  /\ UNCHANGED <<wants, queue, jobs, history, told>>

\* Success or failure, the action is acknowledged; a failure to do so is logged.
AckAction ==
  /\ pc = "ack" /\ Go("actions")
  /\ \/ queue' = queue \ {cur.id} /\ NoFault
     \/ Fault("ack") /\ UNCHANGED queue
  /\ UNCHANGED <<wants, status, jobs, history, told, cur>>

PollDone ==
  /\ pc = "actions" /\ todo = {} /\ Return
  /\ UNCHANGED <<wants, queue, status, jobs, history, told, budget>>

\* The operator's process stops; an upgrade of it replaces the process too.
Stop ==
  /\ pc # "idle" /\ Fault("stop") /\ Return
  /\ UNCHANGED <<wants, queue, status, jobs, history, told>>

------------------------------------------------------------------------------
(* A job's pod: selfupgrade.Service.Run *)

At(j, state)    == j \in Jobs /\ jobs[j].pc = state
Become(j, next) == jobs' = [jobs EXCEPT ![j].pc = next]
\* The pod exits; of what it did, only whether it was cut off matters from then.
Exit(js, j, result, cut) ==
  jobs' = [js EXCEPT ![j] = [NewJob(js[j].version) EXCEPT !.pc = result, !.cut = cut]]
cluster         == <<wants, queue, status, told, local, direct>>

\* The release is read and the upgrade tried dry, which fails while an
\* operation of helm's is pending.
DryRun(j) ==
  /\ At(j, "pending")
  /\ \/ /\ Top.status # "pending"
        /\ jobs' = [jobs EXCEPT ![j].pc = "upgrade", ![j].before = Revision]
        /\ UNCHANGED faults
     \/ Top.status = "pending" /\ Exit(jobs, j, "failed", FALSE) /\ UNCHANGED faults
     \/ Fault("dry run") /\ Exit(jobs, j, "failed", FALSE)
  /\ UNCHANGED <<cluster, history>>

\* Helm begins the upgrade with a pending revision; or the upgrade does not
\* start, which the job only logs.
BeginUpgrade(j) ==
  /\ At(j, "upgrade")
  /\ \/ /\ Top.status # "pending"
        /\ history' = Append(history, Record(jobs[j].version, "pending"))
        /\ jobs' = [Disturb(j) EXCEPT ![j].pc = "applying", ![j].own = Revision + 1]
        /\ UNCHANGED faults
     \/ /\ Top.status = "pending" /\ UNCHANGED faults
        /\ Become(j, "check") /\ UNCHANGED history
     \/ /\ Fault("upgrade")
        /\ Become(j, "check") /\ UNCHANGED history
  /\ UNCHANGED cluster

EndUpgrade(j) ==
  /\ At(j, "applying") /\ Become(j, "check")
  /\ \/ history' = [history EXCEPT ![jobs[j].own].status = "deployed"] /\ UNCHANGED faults
     \/ Fault("apply") /\ history' = [history EXCEPT ![jobs[j].own].status = "failed"]
  /\ UNCHANGED cluster

\* A plausible bug: a failed release is left as it is.
CheckReleaseOnly(j) ==
  /\ At(j, "check") /\ Top.status # "pending"
  /\ (IF Top.status = "deployed" THEN Become(j, "wait") ELSE Exit(jobs, j, "failed", FALSE))
  /\ UNCHANGED <<cluster, history, faults>>

\* checkReleaseStatus: a pending release is looked at again, and one that
\* cannot be read is taken for a failure.
CheckRelease(j) ==
  /\ At(j, "check")
  /\ \/ Top.status = "deployed" /\ Become(j, "wait") /\ UNCHANGED faults
     \/ Top.status = "failed" /\ Become(j, "roll back") /\ UNCHANGED faults
     \/ Fault("read") /\ Become(j, "roll back")
  /\ UNCHANGED <<cluster, history>>

\* The job's ten minutes are over, while somebody's release is pending or when
\* helm is done with its own: no rollback.
TimeOut(j) ==
  /\ At(j, "check")
  /\ \/ Top.status = "pending" /\ Exit(jobs, j, "failed", FALSE) /\ UNCHANGED faults
     \/ Top.status # "pending" /\ Fault("late") /\ Exit(jobs, j, "failed", TRUE)
  /\ UNCHANGED <<cluster, history>>

\* waitForPodsReady: the pods of the release, whoever deployed it, come up or
\* do not, in time.
WaitForPods(j) ==
  /\ At(j, "wait")
  /\ \/ Exit(jobs, j, "succeeded", FALSE) /\ UNCHANGED faults
     \/ Fault("pods") /\ Become(j, "roll back")
  /\ UNCHANGED <<cluster, history>>

\* A plausible bug: the rollback goes to the first revision.
RollBackToFirst(j) ==
  /\ At(j, "roll back") /\ Revision > 1
  /\ history' = Append(history, Record(history[1].version, "deployed"))
  /\ Exit(Disturb(j), j, "failed", FALSE)
  /\ UNCHANGED <<cluster, faults>>

\* Helm goes back to the revision before the latest, if there is one.
RollBack(j) ==
  /\ At(j, "roll back")
  /\ \/ /\ Revision > 1
        /\ history' = Append(history, Record(history[Revision - 1].version, "deployed"))
        /\ Exit(Disturb(j), j, "failed", FALSE)
        /\ UNCHANGED faults
     \/ /\ Revision > 1 /\ Fault("rollback")
        /\ history' = Append(history, Record(history[Revision - 1].version, "failed"))
        /\ Exit(Disturb(j), j, "failed", TRUE)
     \/ Revision = 1 /\ Exit(jobs, j, "failed", FALSE) /\ UNCHANGED <<history, faults>>
  /\ UNCHANGED cluster

\* The pod is killed (evicted, or by its liveness probe, which nothing in it
\* answers): with no retries the job has failed.
Killed(j) ==
  /\ j \in Jobs /\ Live(j) /\ Fault("kill")
  /\ Exit(jobs, j, "failed", TRUE)
  /\ UNCHANGED <<wants, queue, status, history, told, local>>

\* The job is deleted, and its pod with it.
Removed(j) ==
  /\ j \in Jobs /\ jobs[j].pc # "deleted" /\ Fault("remove")
  /\ Exit(jobs, j, "deleted", jobs[j].cut \/ Live(j))
  /\ UNCHANGED <<wants, queue, status, history, told, local>>

------------------------------------------------------------------------------
(* Mothership and users *)

Request(v) ==
  /\ Len(wants) < MaxRequests
  /\ wants' = Append(wants, v) /\ queue' = queue \cup {Len(wants) + 1}
  /\ UNCHANGED <<status, jobs, history, told, local, budget>>

\* Somebody upgrades the operator, or changes its values, with helm.
DirectUpgrade(v) ==
  /\ direct > 0 /\ direct' = direct - 1 /\ Top.status # "pending"
  /\ history' = Append(history, Record(v, "deployed"))
  /\ jobs' = Disturb(NoJob)
  /\ UNCHANGED <<wants, queue, status, told, local, faults>>

------------------------------------------------------------------------------
(* The specification *)

Init ==
  /\ wants = <<>> /\ queue = {}
  /\ \E h \in Installed : history = [i \in DOMAIN h |-> Record(h[i], "deployed")]
  /\ status = [job |-> NoJob, reported |-> 0]
  /\ jobs = <<>> /\ told = {} /\ pc = "idle" /\ todo = {} /\ cur = Nothing
  /\ direct = MaxDirect /\ faults = MaxFaults

Controller ==
  \/ JobGone \/ JobSucceeded \/ JobFailed \/ DeleteJob \/ ClearJob
  \/ DetectRevision \/ Poll \/ TrackJob \/ AckAction \/ PollDone
  \/ \E a \in todo : CreateJob(a)

Pod(j) ==
  DryRun(j) \/ BeginUpgrade(j) \/ EndUpgrade(j) \/ CheckRelease(j) \/ TimeOut(j)
    \/ WaitForPods(j) \/ RollBack(j)

Next ==
  \/ Controller \/ Stop
  \/ \E j \in Jobs : Pod(j) \/ Killed(j) \/ Removed(j)
  \/ \E v \in Versions : Request(v) \/ DirectUpgrade(v)

Spec == Init /\ [][Next]_vars

\* At most one job per request, and one more for every fault.
JobNames == 1..MaxRequests + MaxFaults

\* The controller keeps reconciling, a pod that exists is scheduled and runs.
FairSpec == Spec /\ WF_vars(Controller) /\ \A j \in JobNames : WF_vars(Pod(j))

------------------------------------------------------------------------------
(* Properties *)

PodStates == {"pending", "upgrade", "applying", "check", "wait", "roll back", "succeeded",
              "failed", "deleted"}
PCs == {"idle", "delete job", "clear job", "poll", "actions", "track", "ack"}
JobRecords == [version : Versions, pc : PodStates, before : Nat, own : Nat,
               alone : BOOLEAN, cut : BOOLEAN]
Revisions  == [version : Versions, status : {"deployed", "failed", "pending"}]

\* Every variable has its type; the job that the status names was created, and a
\* reconcile that deletes the job still knows its name (checkUpgradeJobStatus).
TypeOK ==
  /\ wants \in Seq(Versions) /\ queue \subseteq 1..Len(wants)
  /\ status \in [job : 0..Len(jobs), reported : Nat]
  /\ jobs \in Seq(JobRecords)
  /\ history \in Seq(Revisions) \ {<<>>} /\ told \subseteq Nat
  /\ pc \in PCs /\ todo \subseteq 1..Len(wants)
  /\ cur \in [id : 0..Len(wants), job : 0..Len(jobs), made : 0..Len(jobs), failed : BOOLEAN,
              reported : Nat]
  /\ direct \in 0..MaxDirect /\ faults \in 0..MaxFaults
  /\ pc \in {"delete job", "clear job"} => status.job # NoJob

\* A revision noted as reported is one that Mothership was told of, however the
\* calls and writes fail and whoever upgrades meanwhile
\* (lastReportedHelmRevision).
NoPhantomReport == status.reported \in told \cup {0}

\* Once all jobs are over, and none was cut off in its work, the operator's
\* release is deployed: no failed upgrade is left without its rollback, however
\* jobs overlap (selfupgrade.Service.Run).
LeftDeployed ==
  (\A j \in Jobs : ~Live(j) /\ ~jobs[j].cut) => Top.status = "deployed"

\* A job that had the release to itself and failed in time leaves the version that ran
\* before it: what it rolls back is its own upgrade.
FailureUndone ==
  [][\A j \in Jobs :
       Live(j) /\ jobs'[j].pc = "failed" /\ jobs[j].alone /\ ~jobs'[j].cut
         => history'[Len(history')].version =
              (IF jobs[j].before = 0 THEN Top ELSE history[jobs[j].before]).version]_vars

\* The controller is not held up by an upgrade for ever (checkUpgradeJobStatus).
UpgradeEnds == status.job # NoJob ~> status.job = NoJob

\* A revision that stays is reported to Mothership, whoever made it, unless the
\* next upgrade begins.
RevisionReported == Revision \notin told ~> Revision \in told

\* Every action is acknowledged, also one that is delivered again after a stop or
\* a lost acknowledgement (pollActions).
ActionsAnswered == \A a \in 1..MaxRequests : a \in queue ~> a \notin queue

==============================================================================
