------------------------- MODULE OperatorUpgradeProofs -------------------------
(***************************************************************************)
(* Theorems about OperatorUpgrade, for all versions, faults and bounds.    *)
(***************************************************************************)
EXTENDS OperatorUpgrade, TLAPS

USE DEF local, budget, cluster

(* What TypeOK says of Mothership's queue, of the jobs, of helm, of the      *)
(* controller, and of the rest.                                              *)

Bookmarks == [id : 0..Len(wants), job : 0..Len(jobs), made : 0..Len(jobs), failed : BOOLEAN,
              reported : Nat]

QueueOK   == wants \in Seq(Versions) /\ queue \subseteq 1..Len(wants)
JobsOK    == jobs \in Seq(JobRecords)
HelmOK    == history \in Seq(Revisions) /\ history # <<>> /\ told \subseteq Nat
StatusOK  == status \in [job : 0..Len(jobs), reported : Nat]
LocalOK   == pc \in PCs /\ todo \subseteq 1..Len(wants) /\ cur \in Bookmarks
TrackedOK == pc \in {"delete job", "clear job"} => status.job # NoJob
BudgetOK  == direct \in 0..MaxDirect /\ faults \in 0..MaxFaults

LEMMA TypeParts ==
  TypeOK <=> QueueOK /\ JobsOK /\ HelmOK /\ StatusOK /\ LocalOK /\ TrackedOK /\ BudgetOK
BY DEF TypeOK, QueueOK, JobsOK, HelmOK, StatusOK, LocalOK, TrackedOK, BudgetOK, Bookmarks

LEMMA TypePartsNext ==
  TypeOK' <=> QueueOK' /\ JobsOK' /\ HelmOK' /\ StatusOK' /\ LocalOK' /\ TrackedOK' /\ BudgetOK'
BY DEF TypeOK, QueueOK, JobsOK, HelmOK, StatusOK, LocalOK, TrackedOK, BudgetOK, Bookmarks

------------------------------------------------------------------------------
(* The helpers keep the type. *)

LEMMA NewJobType ==
  ASSUME NEW v \in Versions
  PROVE  NewJob(v) \in JobRecords
BY DEF NewJob, JobRecords, PodStates

\* A job's record is replaced: as many jobs as before.
LEMMA JobReplaced ==
  ASSUME NEW js \in Seq(JobRecords), NEW j \in 1..Len(js), NEW r \in JobRecords
  PROVE  [js EXCEPT ![j] = r] \in Seq(JobRecords) /\ Len([js EXCEPT ![j] = r]) = Len(js)
OBVIOUS

LEMMA DisturbType ==
  ASSUME JobsOK, NEW k
  PROVE  Disturb(k) \in Seq(JobRecords) /\ Len(Disturb(k)) = Len(jobs)
<1>1. ASSUME NEW j \in 1..Len(jobs)
      PROVE  [jobs[j] EXCEPT !.alone = @ /\ (j = k \/ ~Live(j))] \in JobRecords
  <2>1. jobs[j] \in JobRecords
    BY <1>1 DEF JobsOK
  <2> DEFINE b == jobs[j].alone /\ (j = k \/ ~Live(j))
  <2>2. b \in BOOLEAN
    OBVIOUS
  <2> HIDE DEF b
  <2>3. [jobs[j] EXCEPT !.alone = b] \in JobRecords
    BY <2>1, <2>2 DEF JobRecords
  <2> QED
    BY <2>3 DEF b
<1>2. DOMAIN jobs = 1..Len(jobs) /\ Len(jobs) \in Nat
  BY DEF JobsOK
<1> DEFINE f == [j \in 1..Len(jobs) |-> [jobs[j] EXCEPT !.alone = @ /\ (j = k \/ ~Live(j))]]
<1>3. f \in [1..Len(jobs) -> JobRecords]
  BY <1>1
<1> HIDE DEF f
<1>4. f \in Seq(JobRecords) /\ Len(f) = Len(jobs)
  BY <1>2, <1>3
<1> QED
  BY <1>2, <1>4 DEF Disturb, Jobs, f

LEMMA ExitType ==
  ASSUME NEW js \in Seq(JobRecords), NEW j \in 1..Len(js), NEW result \in PodStates,
         NEW c \in BOOLEAN, Exit(js, j, result, c)
  PROVE  jobs' \in Seq(JobRecords) /\ Len(jobs') = Len(js)
<1> DEFINE n == NewJob(js[j].version)
           r == [n EXCEPT !.pc = result, !.cut = c]
<1>1. js[j].version \in Versions
  <2>1. js[j] \in JobRecords
    OBVIOUS
  <2> QED BY <2>1 DEF JobRecords
<1>2. n \in JobRecords
  BY <1>1, NewJobType
<1>3. r \in JobRecords
  <2> HIDE DEF n
  <2> QED BY <1>2 DEF JobRecords
<1>4. jobs' = [js EXCEPT ![j] = r]
  BY DEF Exit
<1> HIDE DEF r
<1> QED
  BY <1>3, <1>4, JobReplaced

LEMMA BecomeType ==
  ASSUME JobsOK, NEW j \in Jobs, NEW next \in PodStates, Become(j, next)
  PROVE  jobs' \in Seq(JobRecords) /\ Len(jobs') = Len(jobs)
<1> DEFINE r == [jobs[j] EXCEPT !.pc = next]
<1>1. j \in 1..Len(jobs) /\ jobs[j] \in JobRecords
  BY DEF JobsOK, Jobs
<1>2. r \in JobRecords
  BY <1>1 DEF JobRecords
<1>3. jobs' = [jobs EXCEPT ![j] = r]
  BY DEF Become
<1> HIDE DEF r
<1> QED
  BY <1>1, <1>2, <1>3, JobReplaced DEF JobsOK

\* What the statements about job names see of the jobs is how many there are.
LEMMA SameJobs ==
  ASSUME StatusOK, LocalOK, TrackedOK, QueueOK, Len(jobs') = Len(jobs),
         UNCHANGED <<wants, queue, status, local>>
  PROVE  StatusOK' /\ LocalOK' /\ TrackedOK' /\ QueueOK'
BY DEF StatusOK, LocalOK, TrackedOK, QueueOK, Bookmarks

LEMMA Bounds == MaxRequests \in Nat /\ MaxDirect \in Nat /\ MaxFaults \in Nat
BY UpgradeAssumption

LEMMA FaultType ==
  ASSUME BudgetOK, NEW f, Fault(f)
  PROVE  BudgetOK'
BY Bounds DEF BudgetOK, Fault

LEMMA NoFaultType ==
  ASSUME BudgetOK, NoFault
  PROVE  BudgetOK'
BY DEF BudgetOK, NoFault

LEMMA PodFaultType ==
  ASSUME BudgetOK, NEW f, Fault(f) \/ UNCHANGED faults, UNCHANGED direct
  PROVE  BudgetOK'
BY Bounds DEF BudgetOK, Fault

LEMMA ZeroIn == \A n \in Nat : 0 \in 0..n
OBVIOUS

LEMMA ReturnType ==
  ASSUME Return, Len(wants') \in Nat, Len(jobs') \in Nat
  PROVE  LocalOK' /\ TrackedOK'
BY ZeroIn DEF Return, LocalOK, TrackedOK, PCs, Nothing, Noting, Bookmarks, NoJob

LEMMA RevisionType ==
  ASSUME HelmOK
  PROVE  Revision \in Nat \ {0} /\ \A i \in 1..Revision : history[i] \in Revisions
BY DEF HelmOK, Revision

LEMMA TellType ==
  ASSUME HelmOK, BudgetOK, NEW ok \in BOOLEAN, Tell(ok)
  PROVE  told' \subseteq Nat /\ BudgetOK'
BY RevisionType, FaultType, NoFaultType DEF HelmOK, Tell

------------------------------------------------------------------------------
(* Every step keeps the type. *)

LEMMA LengthsType ==
  ASSUME QueueOK, JobsOK
  PROVE  Len(wants) \in Nat /\ Len(jobs) \in Nat
BY DEF QueueOK, JobsOK

LEMMA BookmarkType ==
  ASSUME Len(wants) \in Nat, Len(jobs) \in Nat, NEW n \in Nat
  PROVE  Noting(n) \in Bookmarks
BY ZeroIn DEF Bookmarks, Noting, NoJob

LEMMA FollowType ==
  ASSUME QueueOK, JobsOK, HelmOK, StatusOK, LocalOK, TrackedOK, BudgetOK,
         JobGone \/ JobSucceeded \/ JobFailed \/ DeleteJob \/ ClearJob
  PROVE  QueueOK' /\ JobsOK' /\ HelmOK' /\ StatusOK' /\ LocalOK' /\ TrackedOK' /\ BudgetOK'
<1>0. Len(wants) \in Nat /\ Len(jobs) \in Nat
  BY LengthsType
<1> USE <1>0
<1>1. CASE JobGone
  <2>1. UNCHANGED <<wants, queue, jobs, history, told, pc, todo, cur>>
    BY <1>1 DEF JobGone
  <2>2. pc = "idle"
    BY <1>1 DEF JobGone, Tracking
  <2>3. BudgetOK'
    BY <1>1, FaultType, NoFaultType DEF JobGone
  <2>4. StatusOK'
    BY <1>1, <2>1 DEF JobGone, StatusOK, NoJob
  <2> QED
    BY <2>1, <2>2, <2>3, <2>4 DEF QueueOK, JobsOK, HelmOK, LocalOK, TrackedOK, Bookmarks
<1>2. CASE JobSucceeded
  <2>1. UNCHANGED <<wants, queue, status, jobs, history>> /\ status.job # NoJob
        /\ pc' = "delete job" /\ todo' = todo
    BY <1>2 DEF JobSucceeded, Tracking, Go
  <2>2. PICK ok \in BOOLEAN : Tell(ok) /\ cur' = Noting(IF ok THEN Revision ELSE status.reported)
    BY <1>2 DEF JobSucceeded
  <2>3. told' \subseteq Nat /\ BudgetOK'
    BY <2>2, TellType
  <2>4. (IF ok THEN Revision ELSE status.reported) \in Nat
    BY RevisionType DEF StatusOK
  <2>5. cur' \in Bookmarks
    BY <2>2, <2>4, BookmarkType
  <2> QED
    BY <2>1, <2>3, <2>5 DEF QueueOK, JobsOK, HelmOK, StatusOK, LocalOK, TrackedOK, Bookmarks, PCs
<1>3. CASE JobFailed
  <2>1. UNCHANGED <<wants, queue, status, jobs, history, told, direct, faults>>
        /\ status.job # NoJob /\ pc' = "delete job" /\ todo' = todo
        /\ cur' = Noting(status.reported)
    BY <1>3 DEF JobFailed, Tracking, Go
  <2>2. cur' \in Bookmarks
    BY <2>1, BookmarkType DEF StatusOK
  <2> QED
    BY <2>1, <2>2 DEF QueueOK, JobsOK, HelmOK, StatusOK, LocalOK, TrackedOK, BudgetOK, Bookmarks,
                      PCs
<1>4. CASE DeleteJob
  <2>1. UNCHANGED <<wants, queue, status, history, told, cur, todo>> /\ pc' = "clear job"
        /\ status.job # NoJob
    BY <1>4 DEF DeleteJob, Go, TrackedOK
  <2>2. BudgetOK'
    BY <1>4, FaultType, NoFaultType DEF DeleteJob
  <2>3. jobs' \in Seq(JobRecords) /\ Len(jobs') = Len(jobs)
    <3>1. CASE UNCHANGED jobs
      BY <3>1 DEF JobsOK
    <3>2. CASE Become(status.job, "deleted")
      <4>1. status.job \in Jobs
        <5>1. status.job \in 0..Len(jobs) /\ status.job # 0
          BY <2>1 DEF StatusOK, NoJob
        <5> QED
          BY <5>1 DEF Jobs, JobsOK
      <4> QED
        BY <3>2, <4>1, BecomeType DEF PodStates
    <3> QED
      BY <1>4, <3>1, <3>2 DEF DeleteJob, Become
  <2> QED
    BY <2>1, <2>2, <2>3 DEF QueueOK, JobsOK, HelmOK, StatusOK, LocalOK, TrackedOK, Bookmarks, PCs
<1>5. CASE ClearJob
  <2>1. UNCHANGED <<wants, queue, jobs, history, told>> /\ Return
    BY <1>5 DEF ClearJob
  <2>2. BudgetOK'
    BY <1>5, FaultType, NoFaultType DEF ClearJob
  <2>3. StatusOK'
    <3>1. cur.reported \in Nat
      BY DEF LocalOK, Bookmarks
    <3>2. 0 \in 0..Len(jobs)
      BY ZeroIn
    <3>3. [job |-> 0, reported |-> cur.reported] \in [job : 0..Len(jobs), reported : Nat]
      BY <3>1, <3>2
    <3>4. status' \in {status, [job |-> 0, reported |-> cur.reported]} /\ jobs' = jobs
      BY <1>5, <2>1 DEF ClearJob, NoJob
    <3> QED
      BY <3>3, <3>4 DEF StatusOK
  <2>4. LocalOK' /\ TrackedOK'
    BY <2>1, ReturnType
  <2> QED
    BY <2>1, <2>2, <2>3, <2>4 DEF QueueOK, JobsOK, HelmOK
<1> QED
  BY <1>1, <1>2, <1>3, <1>4, <1>5

LEMMA PollType ==
  ASSUME QueueOK, JobsOK, HelmOK, StatusOK, LocalOK, TrackedOK, BudgetOK,
         DetectRevision \/ Poll \/ TrackJob \/ AckAction \/ PollDone \/ Stop
  PROVE  QueueOK' /\ JobsOK' /\ HelmOK' /\ StatusOK' /\ LocalOK' /\ TrackedOK' /\ BudgetOK'
<1>0. Len(wants) \in Nat /\ Len(jobs) \in Nat
  BY LengthsType
<1> USE <1>0
<1>1. CASE DetectRevision
  <2>1. UNCHANGED <<wants, queue, jobs, history, todo>> /\ pc' = "poll"
    BY <1>1 DEF DetectRevision, Go
  <2>5. cur' = Noting(Revision) \/ cur' = Noting(status.reported)
    BY <1>1 DEF DetectRevision
  <2>6. cur' \in Bookmarks
    BY <2>5, RevisionType, BookmarkType DEF StatusOK
  <2>2. BudgetOK'
    BY <1>1, FaultType, NoFaultType DEF DetectRevision, Tell
  <2>3. told' \subseteq Nat
    BY <1>1, RevisionType DEF DetectRevision, Tell, HelmOK
  <2>4. StatusOK'
    BY <1>1, <2>1, RevisionType DEF DetectRevision, StatusOK
  <2> QED
    BY <2>1, <2>2, <2>3, <2>4, <2>6 DEF QueueOK, JobsOK, HelmOK, LocalOK, TrackedOK, Bookmarks, PCs
<1>2. CASE Poll
  <2>1. UNCHANGED <<wants, queue, status, jobs, history, told>>
    BY <1>2 DEF Poll
  <2>2. BudgetOK'
    BY <1>2, FaultType, NoFaultType DEF Poll
  <2>3. LocalOK' /\ TrackedOK'
    <3>1. CASE pc' = "actions" /\ todo' = queue /\ UNCHANGED cur
      BY <2>1, <3>1 DEF LocalOK, TrackedOK, PCs, QueueOK, Bookmarks
    <3> QED
      BY <1>2, <2>1, <3>1, ReturnType DEF Poll
  <2> QED
    BY <2>1, <2>2, <2>3 DEF QueueOK, JobsOK, HelmOK, StatusOK
<1>3. CASE TrackJob
  <2>1. UNCHANGED <<wants, queue, jobs, history, told, todo>> /\ pc' = "ack"
    BY <1>3 DEF TrackJob, Go
  <2>2. BudgetOK'
    BY <1>3, FaultType, NoFaultType DEF TrackJob
  <2>3. StatusOK' /\ cur' \in Bookmarks
    <3>1. status' = status \/ status' = [job |-> cur.job, reported |-> cur.reported]
      BY <1>3, Zenon DEF TrackJob
    <3>2. cur.job \in 0..Len(jobs) /\ cur.reported \in Nat
      BY DEF LocalOK, Bookmarks
    <3>3. [job |-> cur.job, reported |-> cur.reported] \in [job : 0..Len(jobs), reported : Nat]
      BY <3>2
    <3>4. StatusOK'
      BY <2>1, <3>1, <3>3 DEF StatusOK
    <3>5. cur' \in Bookmarks
      BY <1>3 DEF TrackJob, LocalOK, Bookmarks
    <3> QED
      BY <3>4, <3>5
  <2> QED
    BY <2>1, <2>2, <2>3 DEF QueueOK, JobsOK, HelmOK, LocalOK, TrackedOK, Bookmarks, PCs
<1>4. CASE AckAction
  <2>1. UNCHANGED <<wants, status, jobs, history, told, todo, cur>> /\ pc' = "actions"
        /\ queue' \subseteq queue
    BY <1>4 DEF AckAction, Go
  <2>2. BudgetOK'
    BY <1>4, FaultType, NoFaultType DEF AckAction
  <2> QED
    BY <2>1, <2>2 DEF QueueOK, JobsOK, HelmOK, StatusOK, LocalOK, TrackedOK, Bookmarks, PCs
<1>5. CASE PollDone \/ Stop
  <2>1. UNCHANGED <<wants, queue, status, jobs, history, told>> /\ Return
    BY <1>5 DEF PollDone, Stop
  <2>2. BudgetOK'
    BY <1>5, FaultType, NoFaultType DEF PollDone, Stop, NoFault
  <2> QED
    BY <2>1, <2>2, ReturnType DEF QueueOK, JobsOK, HelmOK, StatusOK
<1> QED
  BY <1>1, <1>2, <1>3, <1>4, <1>5

LEMMA CreateType ==
  ASSUME QueueOK, JobsOK, HelmOK, StatusOK, LocalOK, TrackedOK, BudgetOK,
         NEW a \in todo, CreateJob(a)
  PROVE  QueueOK' /\ JobsOK' /\ HelmOK' /\ StatusOK' /\ LocalOK' /\ TrackedOK' /\ BudgetOK'
<1>0. Len(wants) \in Nat /\ Len(jobs) \in Nat
  BY LengthsType
<1>1. UNCHANGED <<wants, queue, status, history, told>> /\ todo' = todo \ {a}
      /\ pc' \in {"track", "ack"}
  BY DEF CreateJob
<1>2. BudgetOK'
  BY FaultType, NoFaultType DEF CreateJob
<1>3. a \in 1..Len(wants) /\ cur \in Bookmarks
  BY DEF LocalOK
<1>4. CASE /\ cur' = [cur EXCEPT !.id = a, !.job = Len(jobs) + 1, !.made = Len(jobs) + 1,
                               !.failed = FALSE]
           /\ jobs' = Append(Disturb(NoJob),
                        [NewJob(wants[a]) EXCEPT !.alone = \A k \in Jobs : ~Live(k)])
  <2> DEFINE r == [NewJob(wants[a]) EXCEPT !.alone = \A k \in Jobs : ~Live(k)]
  <2>1. r \in JobRecords
    <3> DEFINE b == \A k \in Jobs : ~Live(k)
               n == NewJob(wants[a])
    <3>1. b \in BOOLEAN
      OBVIOUS
    <3>2. n \in JobRecords
      BY <1>3, NewJobType DEF QueueOK
    <3> HIDE DEF b, n
    <3>3. [n EXCEPT !.alone = b] \in JobRecords
      BY <3>1, <3>2 DEF JobRecords
    <3> QED
      BY <3>3 DEF b, n
  <2>2. Disturb(NoJob) \in Seq(JobRecords) /\ Len(Disturb(NoJob)) = Len(jobs)
    BY DisturbType
  <2>3. jobs' = Append(Disturb(NoJob), r)
    BY <1>4
  <2> HIDE DEF r
  <2>4. jobs' \in Seq(JobRecords) /\ Len(jobs') = Len(jobs) + 1
    BY <2>1, <2>2, <2>3
  <2>5. cur' \in [id : 0..Len(wants), job : 0..Len(jobs) + 1, made : 0..Len(jobs) + 1,
                  failed : BOOLEAN, reported : Nat]
    <3>1. /\ a \in 0..Len(wants) /\ Len(jobs) + 1 \in 0..Len(jobs) + 1 /\ cur.reported \in Nat
          /\ cur \in [id : 0..Len(wants), job : 0..Len(jobs), made : 0..Len(jobs),
                      failed : BOOLEAN, reported : Nat]
      BY <1>0, <1>3 DEF Bookmarks
    <3> QED
      BY <1>4, <3>1
  <2>6. status' \in [job : 0..Len(jobs) + 1, reported : Nat]
    BY <1>0, <1>1 DEF StatusOK
  <2> QED
    BY <1>1, <1>2, <2>4, <2>5, <2>6
      DEF QueueOK, JobsOK, HelmOK, StatusOK, LocalOK, TrackedOK, Bookmarks, PCs
<1>5. CASE UNCHANGED jobs /\ (\/ cur' = [cur EXCEPT !.id = a, !.job = cur.made, !.failed = FALSE]
                              \/ cur' = [cur EXCEPT !.id = a, !.failed = TRUE])
  <2>1. cur' \in Bookmarks
    <3>1. a \in 0..Len(wants) /\ cur.made \in 0..Len(jobs)
      BY <1>0, <1>3 DEF Bookmarks
    <3>2. CASE cur' = [cur EXCEPT !.id = a, !.job = cur.made, !.failed = FALSE]
      BY <1>3, <3>1, <3>2 DEF Bookmarks
    <3>3. CASE cur' = [cur EXCEPT !.id = a, !.failed = TRUE]
      BY <1>3, <3>1, <3>3 DEF Bookmarks
    <3> QED
      BY <1>5, <3>2, <3>3
  <2> QED
    BY <1>1, <1>2, <1>5, <2>1
      DEF QueueOK, JobsOK, HelmOK, StatusOK, LocalOK, TrackedOK, Bookmarks, PCs
<1> QED
  BY <1>4, <1>5 DEF CreateJob

\* A step of a job's pod: the queue, the status and the controller stay as they
\* are, and there are as many jobs as before.
LEMMA PodStepType ==
  ASSUME QueueOK, JobsOK, HelmOK, StatusOK, LocalOK, TrackedOK, BudgetOK,
         UNCHANGED <<wants, queue, status, told, local>>, BudgetOK',
         jobs' \in Seq(JobRecords), Len(jobs') = Len(jobs),
         history' \in Seq(Revisions), history' # <<>>
  PROVE  QueueOK' /\ JobsOK' /\ HelmOK' /\ StatusOK' /\ LocalOK' /\ TrackedOK' /\ BudgetOK'
BY SameJobs DEF JobsOK, HelmOK

LEMMA ExitsType ==
  ASSUME JobsOK, NEW j \in Jobs, NEW c \in BOOLEAN, NEW result \in {"succeeded", "failed", "deleted"},
         Exit(jobs, j, result, c) \/ Exit(Disturb(j), j, result, c)
  PROVE  jobs' \in Seq(JobRecords) /\ Len(jobs') = Len(jobs)
<1>1. j \in 1..Len(jobs)
  BY DEF JobsOK, Jobs
<1>3. result \in PodStates
  BY DEF PodStates
<1>2. Disturb(j) \in Seq(JobRecords) /\ Len(Disturb(j)) = Len(jobs)
  BY DisturbType
<1> QED
  BY <1>1, <1>2, <1>3, ExitType DEF JobsOK

LEMMA AppendRevision ==
  ASSUME HelmOK, NEW v \in Versions, NEW st \in {"deployed", "failed", "pending"}
  PROVE  Append(history, Record(v, st)) \in Seq(Revisions) /\ Append(history, Record(v, st)) # <<>>
<1>1. Record(v, st) \in Revisions
  BY DEF Record, Revisions
<1> QED
  BY <1>1 DEF HelmOK

LEMMA PodType ==
  ASSUME QueueOK, JobsOK, HelmOK, StatusOK, LocalOK, TrackedOK, BudgetOK,
         NEW j \in Jobs, Pod(j) \/ Killed(j) \/ Removed(j)
  PROVE  QueueOK' /\ JobsOK' /\ HelmOK' /\ StatusOK' /\ LocalOK' /\ TrackedOK' /\ BudgetOK'
<1>1. UNCHANGED <<wants, queue, status, told, local>>
  BY DEF Pod, DryRun, BeginUpgrade, EndUpgrade, CheckRelease, TimeOut, WaitForPods, RollBack,
         Killed, Removed
<1>2. BudgetOK'
  <2>1. CASE Pod(j)
    BY <2>1, PodFaultType DEF Pod, DryRun, BeginUpgrade, EndUpgrade, CheckRelease, TimeOut,
                              WaitForPods, RollBack
  <2>2. CASE Killed(j) \/ Removed(j)
    BY <2>2, FaultType DEF Killed, Removed
  <2> QED
    BY <2>1, <2>2
<1>3. jobs[j] \in JobRecords /\ j \in 1..Len(jobs)
  BY DEF JobsOK, Jobs
<1>4. Revision \in Nat \ {0} /\ \A i \in 1..Revision : history[i] \in Revisions
  BY RevisionType
<1>5. history \in Seq(Revisions) /\ history # <<>>
  BY DEF HelmOK
<1>6. CASE DryRun(j)
  <2>1. UNCHANGED history
    BY <1>6 DEF DryRun
  <2>2. CASE jobs' = [jobs EXCEPT ![j].pc = "upgrade", ![j].before = Revision]
    <3> DEFINE r == [jobs[j] EXCEPT !.pc = "upgrade", !.before = Revision]
    <3>1. r \in JobRecords
      BY <1>3, <1>4 DEF JobRecords, PodStates
    <3>2. jobs' = [jobs EXCEPT ![j] = r]
      BY <2>2
    <3> HIDE DEF r
    <3>3. jobs' \in Seq(JobRecords) /\ Len(jobs') = Len(jobs)
      BY <1>3, <3>1, <3>2, JobReplaced DEF JobsOK
    <3> QED
      BY <1>1, <1>2, <1>5, <2>1, <3>3, PodStepType
  <2>3. CASE Exit(jobs, j, "failed", FALSE)
    <3>1. jobs' \in Seq(JobRecords) /\ Len(jobs') = Len(jobs)
      BY <2>3, ExitsType
    <3> QED
      BY <1>1, <1>2, <1>5, <2>1, <3>1, PodStepType
  <2> QED
    BY <1>6, <2>2, <2>3 DEF DryRun
<1>7. CASE BeginUpgrade(j)
  <2>1. CASE /\ history' = Append(history, Record(jobs[j].version, "pending"))
             /\ jobs' = [Disturb(j) EXCEPT ![j].pc = "applying", ![j].own = Revision + 1]
    <3> DEFINE d == Disturb(j)
               r == [d[j] EXCEPT !.pc = "applying", !.own = Revision + 1]
    <3>1. d \in Seq(JobRecords) /\ Len(d) = Len(jobs)
      BY DisturbType
    <3>2. jobs' = [d EXCEPT ![j] = r]
      BY <2>1
    <3> HIDE DEF d
    <3>3. d[j] \in JobRecords
      BY <1>3, <3>1
    <3>4. r \in JobRecords
      <4>1. Revision + 1 \in Nat
        BY <1>4
      <4> QED
        BY <3>3, <4>1 DEF JobRecords, PodStates
    <3> HIDE DEF r
    <3>5. jobs' \in Seq(JobRecords) /\ Len(jobs') = Len(jobs)
      BY <1>3, <3>1, <3>2, <3>4, JobReplaced
    <3>6. jobs[j].version \in Versions
      BY <1>3 DEF JobRecords
    <3>7. history' \in Seq(Revisions) /\ history' # <<>>
      BY <2>1, <3>6, AppendRevision
    <3> QED
      BY <1>1, <1>2, <3>5, <3>7, PodStepType
  <2>2. CASE Become(j, "check") /\ UNCHANGED history
    <3>1. jobs' \in Seq(JobRecords) /\ Len(jobs') = Len(jobs)
      BY <2>2, BecomeType DEF PodStates
    <3> QED
      BY <1>1, <1>2, <1>5, <2>2, <3>1, PodStepType
  <2> QED
    BY <1>7, <2>1, <2>2 DEF BeginUpgrade
<1>8. CASE EndUpgrade(j)
  <2>1. jobs' \in Seq(JobRecords) /\ Len(jobs') = Len(jobs)
    BY <1>8, BecomeType DEF EndUpgrade, PodStates
  <2>2. PICK st \in {"deployed", "failed"} : history' = [history EXCEPT ![jobs[j].own].status = st]
    BY <1>8 DEF EndUpgrade
  <2>3. history' \in Seq(Revisions) /\ Len(history') = Len(history)
    <3> DEFINE k == jobs[j].own
               r == [history[k] EXCEPT !.status = st]
    <3>1. CASE k \in 1..Len(history)
      <4>1. r \in Revisions
        BY <1>4, <3>1 DEF Revisions, Revision
      <4>2. history' = [history EXCEPT ![k] = r]
        BY <2>2
      <4> HIDE DEF k, r
      <4> QED
        BY <1>5, <3>1, <4>1, <4>2
    <3>2. CASE k \notin 1..Len(history)
      <4>1. history' = [history EXCEPT ![k] = r]
        BY <2>2
      <4>2. DOMAIN history = 1..Len(history)
        BY <1>5
      <4> HIDE DEF k, r
      <4>3. history' = history
        BY <1>5, <3>2, <4>1, <4>2
      <4> QED
        BY <1>5, <4>3
    <3> QED
      BY <3>1, <3>2
  <2>4. history' # <<>>
    BY <1>4, <2>3 DEF Revision
  <2> QED
    BY <1>1, <1>2, <2>1, <2>3, <2>4, PodStepType
<1>9. CASE CheckRelease(j) \/ WaitForPods(j) \/ TimeOut(j)
  <2>1. UNCHANGED history
    BY <1>9 DEF CheckRelease, WaitForPods, TimeOut
  <2>2. jobs' \in Seq(JobRecords) /\ Len(jobs') = Len(jobs)
    <3>1. CASE \E next \in {"wait", "roll back"} : Become(j, next)
      BY <3>1, BecomeType DEF PodStates
    <3>2. CASE \E result \in {"succeeded", "failed"}, cut \in BOOLEAN : Exit(jobs, j, result, cut)
      BY <3>2, ExitsType
    <3> QED
      BY <1>9, <3>1, <3>2 DEF CheckRelease, WaitForPods, TimeOut
  <2> QED
    BY <1>1, <1>2, <1>5, <2>1, <2>2, PodStepType
<1>10. CASE RollBack(j)
  <2>1. jobs' \in Seq(JobRecords) /\ Len(jobs') = Len(jobs)
    BY <1>10, ExitsType DEF RollBack
  <2>2. history' \in Seq(Revisions) /\ history' # <<>>
    <3>1. CASE Revision > 1
      <4>1. Revision - 1 \in 1..Revision
        BY <1>4, <3>1
      <4>2. history[Revision - 1].version \in Versions
        BY <1>4, <4>1 DEF Revisions
      <4>3. \A st \in {"deployed", "failed"} :
              LET h == Append(history, Record(history[Revision - 1].version, st))
              IN  h \in Seq(Revisions) /\ h # <<>>
        BY <4>2, AppendRevision
      <4>4. \E st \in {"deployed", "failed"} :
              history' = Append(history, Record(history[Revision - 1].version, st))
        <5>1. Revision # 1
          BY <3>1, <1>4
        <5>2. \/ history' = Append(history, Record(history[Revision - 1].version, "deployed"))
              \/ history' = Append(history, Record(history[Revision - 1].version, "failed"))
          BY <1>10, <5>1, Zenon DEF RollBack
        <5> QED
          BY <5>2
      <4> QED
        BY <4>3, <4>4
    <3> QED
      BY <1>5, <1>10, <3>1 DEF RollBack
  <2> QED
    BY <1>1, <1>2, <2>1, <2>2, PodStepType
<1>11. CASE Killed(j) \/ Removed(j)
  <2>1. UNCHANGED history
    BY <1>11 DEF Killed, Removed
  <2>2. (jobs[j].cut \/ Live(j)) \in BOOLEAN
    BY <1>3 DEF JobRecords, Live
  <2>3. jobs' \in Seq(JobRecords) /\ Len(jobs') = Len(jobs)
    BY <1>11, <2>2, ExitsType DEF Killed, Removed
  <2> QED
    BY <1>1, <1>2, <1>5, <2>1, <2>3, PodStepType
<1> QED
  BY <1>6, <1>7, <1>8, <1>9, <1>10, <1>11 DEF Pod

LEMMA OutsideType ==
  ASSUME QueueOK, JobsOK, HelmOK, StatusOK, LocalOK, TrackedOK, BudgetOK,
         NEW v \in Versions, Request(v) \/ DirectUpgrade(v)
  PROVE  QueueOK' /\ JobsOK' /\ HelmOK' /\ StatusOK' /\ LocalOK' /\ TrackedOK' /\ BudgetOK'
<1>1. CASE Request(v)
  <2>1. UNCHANGED <<status, jobs, history, told, pc, todo, cur, direct, faults>>
    BY <1>1 DEF Request
  <2>2. wants' = Append(wants, v) /\ queue' = queue \cup {Len(wants) + 1}
    BY <1>1 DEF Request
  <2>3. wants' \in Seq(Versions) /\ Len(wants') = Len(wants) + 1 /\ Len(wants) \in Nat
    BY <2>2 DEF QueueOK
  <2>4. QueueOK'
    <3>1. queue \subseteq 1..Len(wants')
      BY <2>3 DEF QueueOK
    <3>2. Len(wants) + 1 \in 1..Len(wants')
      BY <2>3
    <3> QED
      BY <2>2, <2>3, <3>1, <3>2 DEF QueueOK
  <2>5. LocalOK'
    <3>1. cur \in [id : 0..Len(wants'), job : 0..Len(jobs), made : 0..Len(jobs),
                   failed : BOOLEAN, reported : Nat]
      BY <2>3 DEF LocalOK, Bookmarks
    <3>2. todo \subseteq 1..Len(wants')
      BY <2>3 DEF LocalOK
    <3> QED
      BY <2>1, <3>1, <3>2 DEF LocalOK, Bookmarks
  <2>6. JobsOK' /\ HelmOK' /\ StatusOK'
    BY <2>1 DEF JobsOK, HelmOK, StatusOK
  <2>7. TrackedOK' /\ BudgetOK'
    BY <2>1 DEF TrackedOK, BudgetOK
  <2> QED
    BY <2>4, <2>5, <2>6, <2>7
<1>2. CASE DirectUpgrade(v)
  <2>1. UNCHANGED <<wants, queue, status, told, local, faults>> /\ direct > 0
        /\ direct' = direct - 1
    BY <1>2 DEF DirectUpgrade
  <2>2. BudgetOK'
    BY <2>1, Bounds DEF BudgetOK
  <2>3. jobs' \in Seq(JobRecords) /\ Len(jobs') = Len(jobs)
    BY <1>2, DisturbType DEF DirectUpgrade
  <2>4. HelmOK'
    <3>1. history' = Append(history, Record(v, "deployed")) /\ told' = told
      BY <1>2 DEF DirectUpgrade
    <3> QED
      BY <3>1, AppendRevision DEF HelmOK
  <2> QED
    BY <2>1, <2>2, <2>3, <2>4, SameJobs DEF JobsOK
<1> QED
  BY <1>1, <1>2

LEMMA InitType ==
  ASSUME Init
  PROVE  TypeOK
<1>1. PICK h \in Installed : history = [i \in DOMAIN h |-> Record(h[i], "deployed")]
  BY DEF Init
<1>2. h \in Seq(Versions) /\ h # <<>>
  BY UpgradeAssumption
<1>3. HelmOK
  <2>1. \A i \in 1..Len(h) : Record(h[i], "deployed") \in Revisions
    BY <1>2 DEF Record, Revisions
  <2> DEFINE f == [i \in 1..Len(h) |-> Record(h[i], "deployed")]
  <2>2. f \in [1..Len(h) -> Revisions]
    BY <2>1
  <2> HIDE DEF f
  <2>3. f \in Seq(Revisions) /\ Len(f) = Len(h)
    BY <1>2, <2>2
  <2>4. history = f /\ Len(h) > 0
    BY <1>1, <1>2 DEF f
  <2> QED
    BY <2>3, <2>4 DEF HelmOK, Init
<1>4. QueueOK /\ JobsOK /\ StatusOK /\ TrackedOK /\ BudgetOK
  <2>1. wants = <<>> /\ queue = {} /\ jobs = <<>> /\ status = [job |-> 0, reported |-> 0]
        /\ pc = "idle" /\ direct = MaxDirect /\ faults = MaxFaults
    BY DEF Init, NoJob
  <2>2. Len(jobs) = 0 /\ Len(wants) = 0
    BY <2>1
  <2> QED
    BY <2>1, <2>2, Bounds DEF QueueOK, JobsOK, StatusOK, TrackedOK, BudgetOK
<1>5. LocalOK
  <2>1. Len(jobs) \in Nat /\ Len(wants) \in Nat
    BY <1>4, LengthsType
  <2>2. Nothing \in Bookmarks
    BY <2>1, BookmarkType DEF Nothing
  <2> QED
    BY <2>2 DEF Init, LocalOK, PCs
<1> QED
  BY <1>3, <1>4, <1>5, TypeParts

LEMMA NextType ==
  ASSUME TypeOK, [Next]_vars
  PROVE  TypeOK'
<1> USE TypeParts, TypePartsNext
<1>1. CASE Controller \/ Stop
  BY <1>1, FollowType, PollType, CreateType DEF Controller
<1>2. ASSUME NEW j \in Jobs, Pod(j) \/ Killed(j) \/ Removed(j)
      PROVE  TypeOK'
  BY <1>2, PodType
<1>4. ASSUME NEW v \in Versions, Request(v) \/ DirectUpgrade(v)
      PROVE  TypeOK'
  BY <1>4, OutsideType
<1>5. CASE UNCHANGED vars
  BY <1>5 DEF vars, TypeOK, JobRecords, Revisions, PCs, PodStates
<1> QED
  BY <1>1, <1>2, <1>4, <1>5 DEF Next

\* Every variable has its type in every reachable state: the controller deletes
\* a job only while the status names one (checkUpgradeJobStatus).
THEOREM TypeCorrect == Spec => []TypeOK
<1>1. Init => TypeOK
  BY InitType
<1>2. TypeOK /\ [Next]_vars => TypeOK'
  BY NextType
<1> QED
  BY <1>1, <1>2, PTL DEF Spec

------------------------------------------------------------------------------
(* What is noted as reported was reported.  It is inductive with the revision  *)
(* that a running reconcile has in its copy of the status.                     *)

Bookmarked == pc # "idle" => cur.reported \in told \cup {0}

ReportInv == NoPhantomReport /\ Bookmarked

LEMMA ReportStep ==
  ASSUME ReportInv, TypeOK, Next
  PROVE  ReportInv'
<1> USE DEF ReportInv, NoPhantomReport, Bookmarked
<1>1. CASE JobGone
  BY <1>1 DEF JobGone, Tracking, TypeOK
<1>2. CASE JobSucceeded
  <2>1. PICK ok \in BOOLEAN : Tell(ok) /\ cur' = Noting(IF ok THEN Revision ELSE status.reported)
    BY <1>2 DEF JobSucceeded
  <2>2. status' = status /\ told \subseteq told'
    BY <1>2, <2>1 DEF JobSucceeded, Tell
  <2>3. cur'.reported = (IF ok THEN Revision ELSE status.reported)
    BY <2>1 DEF Noting
  <2>4. ok => Revision \in told'
    BY <2>1 DEF Tell
  <2> QED
    BY <2>2, <2>3, <2>4
<1>3. CASE JobFailed
  <2>1. cur'.reported = status.reported
    BY <1>3 DEF JobFailed, Noting
  <2> QED
    BY <1>3, <2>1 DEF JobFailed
<1>4. CASE DeleteJob
  BY <1>4 DEF DeleteJob
<1>5. CASE ClearJob
  <2>1. pc = "clear job" /\ told' = told /\ pc' = "idle"
    BY <1>5 DEF ClearJob, Return
  <2>2. status'.reported = status.reported \/ status'.reported = cur.reported
    <3>1. status' = status \/ status' = [job |-> NoJob, reported |-> cur.reported]
      BY <1>5, Zenon DEF ClearJob
    <3>2. [job |-> NoJob, reported |-> cur.reported].reported = cur.reported
      OBVIOUS
    <3> QED
      BY <3>1, <3>2, Zenon
  <2>3. status'.reported \in told' \cup {0}
    BY <2>1, <2>2
  <2> QED
    BY <2>1, <2>3
<1>6. CASE DetectRevision
  <2>1. told \subseteq told'
    BY <1>6 DEF DetectRevision, Tell
  <2>2. Noting(Revision).reported = Revision /\ Noting(status.reported).reported = status.reported
    BY DEF Noting
  <2>3. CASE UNCHANGED status /\ status.reported = Revision /\ cur' = Noting(Revision)
    BY <2>1, <2>2, <2>3
  <2>4. CASE Revision \in told' /\ cur' = Noting(Revision)
             /\ (UNCHANGED status \/ status' = [status EXCEPT !.reported = Revision])
    <3>1. "reported" \in DOMAIN status
      BY DEF TypeOK
    <3> QED
      BY <2>1, <2>2, <2>4, <3>1
  <2>5. CASE UNCHANGED status /\ cur' = Noting(status.reported)
    BY <2>1, <2>2, <2>5
  <2> QED
    BY <1>6, <2>3, <2>4, <2>5 DEF DetectRevision, Tell
<1>7. CASE Poll \/ PollDone \/ Stop
  BY <1>7 DEF Poll, PollDone, Stop, Return
<1>8. CASE AckAction \/ \E a \in todo : CreateJob(a)
  <2>1. UNCHANGED <<status, told>> /\ pc # "idle"
    BY <1>8 DEF AckAction, CreateJob
  <2>2. cur'.reported = cur.reported
    BY <1>8 DEF AckAction, CreateJob, TypeOK
  <2> QED
    BY <2>1, <2>2
<1>9. CASE TrackJob
  <2>1. pc = "track" /\ told' = told
    BY <1>9 DEF TrackJob
  <2>2. cur'.reported = cur.reported
    BY <1>9 DEF TrackJob, TypeOK
  <2>3. status' = status \/ status' = [job |-> cur.job, reported |-> cur.reported]
    BY <1>9, Zenon DEF TrackJob
  <2>4. [job |-> cur.job, reported |-> cur.reported].reported = cur.reported
    OBVIOUS
  <2>5. status'.reported = status.reported \/ status'.reported = cur.reported
    BY <2>3, <2>4, Zenon
  <2> QED
    BY <2>1, <2>2, <2>5
<1>10. ASSUME NEW j \in Jobs, Pod(j) \/ Killed(j) \/ Removed(j)
       PROVE  UNCHANGED <<status, told, pc, cur>>
  BY <1>10 DEF Pod, DryRun, BeginUpgrade, EndUpgrade, CheckRelease, TimeOut, WaitForPods, RollBack,
               Killed, Removed
<1>11. ASSUME NEW v \in Versions, Request(v) \/ DirectUpgrade(v)
       PROVE  UNCHANGED <<status, told, pc, cur>>
  BY <1>11 DEF Request, DirectUpgrade
<1> QED
  BY <1>1, <1>2, <1>3, <1>4, <1>5, <1>6, <1>7, <1>8, <1>9, <1>10, <1>11 DEF Next, Controller

\* A revision that the status notes as reported was reported to Mothership, for
\* any number of requests, jobs and failures (lastReportedHelmRevision).
THEOREM OnlyToldIsNoted == Spec => []NoPhantomReport
<1>1. Init => ReportInv
  BY DEF Init, ReportInv, NoPhantomReport, Bookmarked
<1>2. ReportInv /\ TypeOK /\ [Next]_vars => ReportInv'
  <2>1. CASE UNCHANGED vars
    BY <2>1 DEF vars, ReportInv, NoPhantomReport, Bookmarked
  <2> QED
    BY <2>1, ReportStep
<1>3. ReportInv => NoPhantomReport
  BY DEF ReportInv
<1> QED
  BY <1>1, <1>2, <1>3, TypeCorrect, PTL DEF Spec

------------------------------------------------------------------------------
(* What a step does to the jobs, one by one *)

\* Job k is where it was, and has seen what it had seen.
Unmoved(k) ==
  /\ jobs'[k].pc = jobs[k].pc /\ jobs'[k].cut = jobs[k].cut
  /\ jobs'[k].own = jobs[k].own /\ jobs'[k].before = jobs[k].before
  /\ jobs'[k].alone => jobs[k].alone

LEMMA JobsAre ==
  ASSUME JobsOK
  PROVE  Jobs = 1..Len(jobs) /\ Len(jobs) \in Nat /\ \A k \in Jobs : jobs[k] \in JobRecords
BY DEF JobsOK, Jobs

LEMMA DisturbAt ==
  ASSUME JobsOK, NEW j, NEW k \in Jobs
  PROVE  /\ Disturb(j)[k] \in JobRecords
         /\ Disturb(j)[k].version = jobs[k].version
         /\ Disturb(j)[k].pc = jobs[k].pc /\ Disturb(j)[k].cut = jobs[k].cut
         /\ Disturb(j)[k].own = jobs[k].own /\ Disturb(j)[k].before = jobs[k].before
         /\ Disturb(j)[k].alone <=> jobs[k].alone /\ (k = j \/ ~Live(k))
<1>1. jobs[k] \in JobRecords
  BY JobsAre
<1> DEFINE b == jobs[k].alone /\ (k = j \/ ~Live(k))
<1>2. Disturb(j)[k] = [jobs[k] EXCEPT !.alone = b]
  BY DEF Disturb
<1>3. b \in BOOLEAN
  OBVIOUS
<1> HIDE DEF b
<1>4. [jobs[k] EXCEPT !.alone = b] \in JobRecords /\ [jobs[k] EXCEPT !.alone = b].alone = b
  BY <1>1, <1>3 DEF JobRecords
<1>5. /\ [jobs[k] EXCEPT !.alone = b].version = jobs[k].version
      /\ [jobs[k] EXCEPT !.alone = b].pc = jobs[k].pc
      /\ [jobs[k] EXCEPT !.alone = b].cut = jobs[k].cut
      /\ [jobs[k] EXCEPT !.alone = b].own = jobs[k].own
      /\ [jobs[k] EXCEPT !.alone = b].before = jobs[k].before
  BY <1>1 DEF JobRecords
<1> QED
  BY <1>2, <1>4, <1>5, Zenon DEF b

\* The other jobs when one that disturbed nobody moves on.
LEMMA OthersStay ==
  ASSUME JobsOK, NEW j \in Jobs, NEW r, jobs' = [jobs EXCEPT ![j] = r]
  PROVE  Jobs' = Jobs /\ jobs'[j] = r /\ \A k \in Jobs \ {j} : jobs'[k] = jobs[k] /\ Unmoved(k)
<1>1. Jobs' = Jobs /\ jobs'[j] = r /\ \A k \in Jobs \ {j} : jobs'[k] = jobs[k]
  BY DEF JobsOK, Jobs
<1> QED
  BY <1>1, Zenon DEF Unmoved

\* The other jobs when one touches the release: those that run are not alone.
LEMMA OthersDisturbed ==
  ASSUME JobsOK, NEW j \in Jobs, NEW r, jobs' = [Disturb(j) EXCEPT ![j] = r]
  PROVE  /\ Jobs' = Jobs /\ jobs'[j] = r
         /\ \A k \in Jobs \ {j} : Unmoved(k) /\ (Live(k) => ~jobs'[k].alone)
<1>1. DOMAIN Disturb(j) = Jobs
  BY DEF Disturb
<1>2. Jobs' = Jobs /\ jobs'[j] = r /\ \A k \in Jobs \ {j} : jobs'[k] = Disturb(j)[k]
  BY <1>1 DEF Jobs
<1>3. ASSUME NEW k \in Jobs \ {j}
      PROVE  Unmoved(k) /\ (Live(k) => ~jobs'[k].alone)
  <2> DEFINE d == Disturb(j)[k]
  <2>1. /\ d.pc = jobs[k].pc /\ d.cut = jobs[k].cut /\ d.own = jobs[k].own
        /\ d.before = jobs[k].before /\ (d.alone <=> jobs[k].alone /\ (k = j \/ ~Live(k)))
    BY <1>3, DisturbAt
  <2>2. jobs'[k] = d /\ k # j
    BY <1>2, <1>3
  <2> HIDE DEF d
  <2> QED
    BY <2>1, <2>2, Zenon DEF Unmoved
<1> QED
  BY <1>2, <1>3

LEMMA ExitRecord ==
  ASSUME NEW js, NEW j, NEW result, NEW c, Exit(js, j, result, c)
  PROVE  \E r : /\ jobs' = [js EXCEPT ![j] = r]
                /\ r.pc = result /\ r.cut = c
<1> DEFINE r == [NewJob(js[j].version) EXCEPT !.pc = result, !.cut = c]
<1>1. jobs' = [js EXCEPT ![j] = r]
  BY DEF Exit
<1>2. r.pc = result /\ r.cut = c
  BY DEF NewJob
<1> HIDE DEF r
<1> QED
  BY <1>1, <1>2

LEMMA ExitAlone ==
  ASSUME JobsOK, NEW j \in Jobs, NEW result, NEW c, Exit(jobs, j, result, c)
  PROVE  /\ Jobs' = Jobs /\ jobs'[j].pc = result /\ jobs'[j].cut = c
         /\ \A k \in Jobs \ {j} : jobs'[k] = jobs[k] /\ Unmoved(k)
BY ExitRecord, OthersStay

LEMMA ExitDisturbing ==
  ASSUME JobsOK, NEW j \in Jobs, NEW result, NEW c, Exit(Disturb(j), j, result, c)
  PROVE  /\ Jobs' = Jobs /\ jobs'[j].pc = result /\ jobs'[j].cut = c
         /\ \A k \in Jobs \ {j} : Unmoved(k) /\ (Live(k) => ~jobs'[k].alone)
BY ExitRecord, OthersDisturbed

LEMMA BecomeAt ==
  ASSUME JobsOK, NEW j \in Jobs, NEW next, Become(j, next)
  PROVE  /\ Jobs' = Jobs /\ jobs'[j].pc = next
         /\ jobs'[j].cut = jobs[j].cut /\ jobs'[j].own = jobs[j].own
         /\ jobs'[j].before = jobs[j].before /\ jobs'[j].alone = jobs[j].alone
         /\ \A k \in Jobs \ {j} : jobs'[k] = jobs[k] /\ Unmoved(k)
<1> DEFINE r == [jobs[j] EXCEPT !.pc = next]
<1>1. jobs' = [jobs EXCEPT ![j] = r]
  BY DEF Become
<1>2. r.pc = next /\ r.cut = jobs[j].cut /\ r.own = jobs[j].own /\ r.before = jobs[j].before
      /\ r.alone = jobs[j].alone
  BY JobsAre DEF JobRecords
<1> HIDE DEF r
<1> QED
  BY <1>1, <1>2, OthersStay

\* Helm's history grows by one revision.
LEMMA RevisionAdded ==
  ASSUME HelmOK, NEW v, NEW st, history' = Append(history, Record(v, st)),
         Record(v, st) \in Revisions
  PROVE  /\ Revision \in Nat /\ Revision' = Revision + 1
         /\ Top' = Record(v, st) /\ Top'.status = st /\ Top'.version = v
         /\ \A i \in 1..Revision : history'[i] = history[i]
<1>1. Revision \in Nat /\ Revision' = Revision + 1
  BY DEF HelmOK, Revision
<1>2. history'[Revision + 1] = Record(v, st) /\ \A i \in 1..Revision : history'[i] = history[i]
  BY DEF HelmOK, Revision
<1>3. Record(v, st).status = st /\ Record(v, st).version = v
  BY DEF Record
<1> QED
  BY <1>1, <1>2, <1>3 DEF Top

\* Helm ends an operation: the revision it was has its status.
LEMMA EndedRevision ==
  ASSUME HelmOK, NEW o \in 1..Revision, NEW st, history' = [history EXCEPT ![o].status = st]
  PROVE  /\ Revision' = Revision
         /\ \A i \in 1..Revision : history'[i].version = history[i].version
         /\ Top'.status = (IF o = Revision THEN st ELSE Top.status)
         /\ Top'.version = Top.version
<1> DEFINE r == [history[o] EXCEPT !.status = st]
<1>1. r.status = st /\ r.version = history[o].version
  BY RevisionType DEF Revisions
<1>2. history' = [history EXCEPT ![o] = r]
  OBVIOUS
<1> HIDE DEF r
<1>3. /\ Revision' = Revision /\ Revision \in Nat \ {0}
      /\ \A i \in 1..Revision : history'[i] = IF i = o THEN r ELSE history[i]
  BY <1>2, RevisionType DEF HelmOK, Revision
<1> QED
  BY <1>1, <1>3 DEF Top

LEMMA DisturbingJobs ==
  ASSUME JobsOK, NEW j, jobs' = Disturb(j)
  PROVE  Jobs' = Jobs /\ \A k \in Jobs : Unmoved(k) /\ (Live(k) /\ k # j => ~jobs'[k].alone)
<1>1. Jobs' = Jobs
  BY DEF Disturb, Jobs
<1>2. ASSUME NEW k \in Jobs
      PROVE  Unmoved(k) /\ (Live(k) /\ k # j => ~jobs'[k].alone)
  BY <1>2, DisturbAt, Zenon DEF Unmoved
<1> QED
  BY <1>1, <1>2

\* A job is added, and the ones that run are no longer alone.
CreatesJob(a) ==
  jobs' = Append(Disturb(NoJob), [NewJob(wants[a]) EXCEPT !.alone = \A k \in Jobs : ~Live(k)])

LEMMA JobCreated ==
  ASSUME JobsOK, NEW a, CreatesJob(a)
  PROVE  /\ Jobs' = Jobs \cup {Len(jobs) + 1} /\ Len(jobs) + 1 \notin Jobs
         /\ LET n == jobs'[Len(jobs) + 1] IN
              n.pc = "pending" /\ ~n.cut /\ n.before = 0
              /\ (n.alone <=> \A k \in Jobs : ~Live(k))
         /\ \A k \in Jobs : Unmoved(k) /\ (Live(k) => ~jobs'[k].alone)
<1> DEFINE n == [NewJob(wants[a]) EXCEPT !.alone = \A k \in Jobs : ~Live(k)]
           d == Disturb(NoJob)
<1>1. d \in Seq(JobRecords) /\ Len(d) = Len(jobs)
  BY DisturbType
<1>2. n.pc = "pending" /\ ~n.cut /\ n.before = 0 /\ (n.alone <=> \A k \in Jobs : ~Live(k))
  BY DEF NewJob
<1>3. jobs' = Append(d, n)
  BY DEF CreatesJob
<1> HIDE DEF d, n
<1>4. /\ Len(jobs') = Len(jobs) + 1 /\ DOMAIN jobs' = 1..Len(jobs) + 1
      /\ jobs'[Len(jobs) + 1] = n /\ \A k \in 1..Len(jobs) : jobs'[k] = d[k]
  BY <1>1, <1>3
<1>5. Jobs' = Jobs \cup {Len(jobs) + 1} /\ Len(jobs) + 1 \notin Jobs
  BY <1>4, JobsAre DEF Jobs
<1>6. ASSUME NEW k \in Jobs
      PROVE  Unmoved(k) /\ (Live(k) => ~jobs'[k].alone)
  <2>1. jobs'[k] = d[k]
    BY <1>4, <1>6, JobsAre
  <2>2. k # NoJob
    BY <1>6, JobsAre DEF NoJob
  <2>3. /\ d[k].pc = jobs[k].pc /\ d[k].cut = jobs[k].cut
        /\ d[k].own = jobs[k].own /\ d[k].before = jobs[k].before
        /\ d[k].alone <=> jobs[k].alone /\ (k = NoJob \/ ~Live(k))
    BY <1>6, DisturbAt DEF d
  <2> QED
    BY <2>1, <2>2, <2>3, Zenon DEF Unmoved
<1> QED
  BY <1>2, <1>4, <1>5, <1>6

------------------------------------------------------------------------------
(* No failed release is left: somebody answers for a release that is not      *)
(* deployed.  That is the pod that is upgrading while helm's operation is     *)
(* pending, and one that looks at the release or rolls it back when it        *)
(* failed; or a job was cut off.                                              *)

Answers(j) ==
  \/ jobs[j].cut
  \/ jobs[j].pc = "applying" /\ jobs[j].own = Revision /\ Top.status = "pending"
  \/ jobs[j].pc \in {"check", "roll back"} /\ Top.status = "failed"

Answered == Top.status = "deployed" \/ \E j \in Jobs : Answers(j)

\* A pod that runs was not cut off, a job is deleted when its pod is over, an
\* upgrade is never the first revision, and the first one is deployed.
Running  == \A j \in Jobs : Live(j) => ~jobs[j].cut
Deleting == pc = "delete job" => ~Live(status.job)
Owned    == \A j \in Jobs : jobs[j].pc = "applying" => jobs[j].own \in 2..Revision
Original == Revision = 1 => Top.status = "deployed"

AnswerInv == Running /\ Deleting /\ Owned /\ Original /\ Answered

\* What a running pod's states are.
LEMMA LiveStates ==
  ASSUME NEW j
  PROVE  jobs[j].pc \in {"pending", "upgrade", "applying", "check", "wait", "roll back"} => Live(j)
BY DEF Live

\* Pods that are over stay over, and the deletion at hand is still of one.
LEMMA DeletingKept ==
  ASSUME TypeOK, Deleting, UNCHANGED <<pc, status>>, \A k \in Jobs : ~Live(k) => ~Live(k)'
  PROVE  Deleting'
<1>1. ASSUME pc = "delete job"
      PROVE  status.job \in Jobs
  <2> DEFINE j == status.job
  <2>1. j \in 0..Len(jobs) /\ j # 0
    BY <1>1 DEF TypeOK, NoJob
  <2>2. JobsOK
    BY TypeParts
  <2>3. Jobs = 1..Len(jobs) /\ Len(jobs) \in Nat
    BY <2>2, JobsAre
  <2> HIDE DEF j
  <2>4. j \in Jobs
    BY <2>1, <2>3
  <2> QED
    BY <2>4 DEF j
<1>2. (status.job)' = status.job
  OBVIOUS
<1>3. ~Live(status.job) /\ status.job \in Jobs => ~Live(status.job)'
  BY <1>2 DEF Live
<1> QED
  BY <1>1, <1>3 DEF Deleting

\* Steps at which neither the jobs nor the release change.
LEMMA AnswerKept ==
  ASSUME AnswerInv, UNCHANGED <<jobs, history>>, Deleting'
  PROVE  AnswerInv'
BY DEF AnswerInv, Running, Owned, Original, Answered, Answers, Revision, Top, Jobs, Live

LEMMA AnswerController ==
  ASSUME AnswerInv, TypeOK, Controller \/ Stop
  PROVE  AnswerInv'
<1>0. JobsOK /\ HelmOK /\ Deleting
  BY TypeParts DEF AnswerInv
<1>1. CASE JobGone \/ ClearJob \/ DetectRevision \/ Poll \/ TrackJob \/ AckAction \/ PollDone \/ Stop
  <2>1. UNCHANGED <<jobs, history>> /\ pc' # "delete job"
    BY <1>1 DEF JobGone, Tracking, ClearJob, DetectRevision, Poll, TrackJob, AckAction, PollDone, Stop,
                Return, Go
  <2> QED
    BY <2>1, AnswerKept DEF Deleting
<1>2. CASE JobSucceeded \/ JobFailed
  <2>1. UNCHANGED <<jobs, history, status>> /\ jobs[status.job].pc \in {"succeeded", "failed"}
    BY <1>2 DEF JobSucceeded, JobFailed, Tracking
  <2>2. Deleting'
    BY <2>1 DEF Deleting, Live
  <2> QED
    BY <2>1, <2>2, AnswerKept
<1>3. CASE DeleteJob
  <2>1. UNCHANGED history /\ pc = "delete job" /\ pc' = "clear job"
    BY <1>3 DEF DeleteJob, Go
  <2>2. Deleting'
    BY <2>1 DEF Deleting
  <2>3. CASE UNCHANGED jobs
    BY <2>1, <2>2, <2>3, AnswerKept
  <2>4. CASE Become(status.job, "deleted")
    <3> DEFINE j == status.job
    <3>1. j \in Jobs
      <4>1. j \in 0..Len(jobs) /\ j # 0
        BY <2>1 DEF TypeOK, NoJob
      <4>2. Jobs = 1..Len(jobs) /\ Len(jobs) \in Nat
        BY <1>0, JobsAre
      <4> QED
        BY <4>1, <4>2
    <3>2. ~Live(j)
      BY <2>1, <1>0 DEF Deleting
    <3> HIDE DEF j
    <3>3. Become(j, "deleted")
      BY <2>4 DEF j
    <3>4. /\ Jobs' = Jobs /\ jobs'[j].pc = "deleted" /\ jobs'[j].cut = jobs[j].cut
          /\ \A k \in Jobs \ {j} : jobs'[k] = jobs[k]
      BY <1>0, <3>1, <3>3, BecomeAt
    <3>5. \A k \in Jobs : Answers(k) => Answers(k)'
      <4>1. Answers(j) => jobs[j].cut
        BY <3>2 DEF Answers, Live
      <4> QED
        BY <2>1, <3>4, <4>1 DEF Answers, Revision, Top
    <3> QED
      BY <2>1, <2>2, <3>4, <3>5
        DEF AnswerInv, Running, Owned, Original, Answered, Revision, Top, Live
  <2> QED
    BY <1>3, <2>3, <2>4 DEF DeleteJob, Become
<1>4. ASSUME NEW a \in todo, CreateJob(a)
      PROVE  AnswerInv'
  <2>1. UNCHANGED history /\ pc' \in {"track", "ack"}
    BY <1>4 DEF CreateJob
  <2>2. Deleting'
    BY <2>1 DEF Deleting
  <2>3. CASE UNCHANGED jobs
    BY <2>1, <2>2, <2>3, AnswerKept
  <2>4. CASE CreatesJob(a)
    <3>1. /\ Jobs' = Jobs \cup {Len(jobs) + 1}
          /\ jobs'[Len(jobs) + 1].pc = "pending" /\ ~jobs'[Len(jobs) + 1].cut
          /\ \A k \in Jobs : Unmoved(k)
      BY <1>0, <2>4, JobCreated
    <3>2. \A k \in Jobs : Answers(k) => Answers(k)'
      BY <2>1, <3>1 DEF Answers, Unmoved, Revision, Top
    <3> QED
      BY <2>1, <2>2, <3>1, <3>2
        DEF AnswerInv, Running, Owned, Original, Answered, Revision, Top, Live, Unmoved
  <2> QED
    BY <1>4, <2>3, <2>4 DEF CreateJob, CreatesJob
<1> QED
  BY <1>1, <1>2, <1>3, <1>4 DEF Controller

\* A pod's step: what is to show is that the pod itself is right, and that
\* somebody answers still.
LEMMA AnswerMoved ==
  ASSUME AnswerInv, TypeOK, NEW j \in Jobs, UNCHANGED <<pc, status>>,
         Jobs' = Jobs, \A k \in Jobs \ {j} : Unmoved(k),
         ~Live(j) => ~Live(j)', Live(j)' => ~jobs'[j].cut,
         jobs'[j].pc = "applying" => jobs'[j].own \in 2..Revision',
         Revision \in Nat, Revision' \in Nat, Revision' >= Revision,
         Original', Answered'
  PROVE  AnswerInv'
<1>1. \A k \in Jobs : ~Live(k) => ~Live(k)'
  BY DEF Unmoved, Live
<1>2. Deleting'
  BY <1>1, DeletingKept DEF AnswerInv
<1>3. Running'
  BY DEF AnswerInv, Running, Unmoved, Live
<1>4. Owned'
  BY DEF AnswerInv, Owned, Unmoved
<1> QED
  BY <1>2, <1>3, <1>4 DEF AnswerInv

LEMMA AnswerPod ==
  ASSUME AnswerInv, TypeOK, NEW j \in Jobs, Pod(j) \/ Killed(j) \/ Removed(j)
  PROVE  AnswerInv'
<1>0. JobsOK /\ HelmOK /\ Revision \in Nat \ {0} /\ \A i \in 1..Revision : history[i] \in Revisions
  BY TypeParts, RevisionType
<1>1. UNCHANGED <<pc, status>>
  BY DEF Pod, DryRun, BeginUpgrade, EndUpgrade, CheckRelease, TimeOut, WaitForPods, RollBack,
         Killed, Removed
<1>2. Top.status \in {"deployed", "failed", "pending"}
  BY <1>0 DEF Top, Revisions
<1>3. jobs[j] \in JobRecords
  BY <1>0, JobsAre
\* Another job that answers still does, if the release has not changed.
<1>4. ASSUME UNCHANGED history, NEW k \in Jobs \ {j}, Unmoved(k), Answers(k)
      PROVE  Answers(k)'
  BY <1>4 DEF Unmoved, Answers, Revision, Top
<1>5. UNCHANGED history => Revision' = Revision /\ Top' = Top /\ Original'
  BY DEF Original, Revision, Top, AnswerInv
<1>6. CASE DryRun(j)
  <2>1. UNCHANGED history /\ jobs[j].pc = "pending"
    BY <1>6 DEF DryRun, At
  <2>2. Live(j) /\ ~jobs[j].cut /\ ~Answers(j)
    BY <2>1 DEF Live, AnswerInv, Running, Answers
  <2>3. /\ Jobs' = Jobs /\ \A k \in Jobs \ {j} : Unmoved(k)
        /\ jobs'[j].pc \in {"upgrade", "failed"} /\ ~jobs'[j].cut
    <3>1. CASE jobs' = [jobs EXCEPT ![j].pc = "upgrade", ![j].before = Revision]
      <4> DEFINE r == [jobs[j] EXCEPT !.pc = "upgrade", !.before = Revision]
      <4>1. r.pc = "upgrade" /\ r.cut = jobs[j].cut
        BY <1>3 DEF JobRecords
      <4>2. jobs' = [jobs EXCEPT ![j] = r]
        BY <3>1
      <4> HIDE DEF r
      <4> QED
        BY <1>0, <2>2, <4>1, <4>2, OthersStay
    <3>2. CASE Exit(jobs, j, "failed", FALSE)
      BY <1>0, <3>2, ExitAlone
    <3> QED
      BY <1>6, <3>1, <3>2 DEF DryRun
  <2>4. Answered'
    BY <1>4, <1>5, <2>1, <2>2, <2>3 DEF AnswerInv, Answered
  <2> QED
    BY <1>0, <1>1, <1>5, <2>1, <2>2, <2>3, <2>4, AnswerMoved
<1>7. CASE BeginUpgrade(j)
  <2>1. jobs[j].pc = "upgrade"
    BY <1>7 DEF BeginUpgrade, At
  <2>2. Live(j) /\ ~jobs[j].cut /\ ~Answers(j)
    BY <2>1 DEF Live, AnswerInv, Running, Answers
  <2>3. CASE /\ history' = Append(history, Record(jobs[j].version, "pending"))
             /\ jobs' = [Disturb(j) EXCEPT ![j].pc = "applying", ![j].own = Revision + 1]
    <3> DEFINE d == Disturb(j)
               r == [d[j] EXCEPT !.pc = "applying", !.own = Revision + 1]
    <3>1. jobs' = [d EXCEPT ![j] = r]
      BY <2>3
    <3>2. d[j] \in JobRecords /\ d[j].cut = jobs[j].cut
      BY <1>0, DisturbAt
    <3> HIDE DEF d
    <3>3. r.pc = "applying" /\ r.own = Revision + 1 /\ r.cut = jobs[j].cut
      BY <3>2 DEF JobRecords
    <3> HIDE DEF r
    <3>4. Jobs' = Jobs /\ jobs'[j] = r /\ \A k \in Jobs \ {j} : Unmoved(k)
      BY <1>0, <3>1, OthersDisturbed DEF d
    <3>5. Record(jobs[j].version, "pending") \in Revisions
      BY <1>3 DEF Record, Revisions, JobRecords
    <3>6. Revision' = Revision + 1 /\ Top'.status = "pending"
      BY <1>0, <2>3, <3>5, RevisionAdded
    <3>7. Answers(j)'
      BY <3>3, <3>4, <3>6 DEF Answers
    <3>8. Original' /\ Answered'
      BY <1>0, <3>4, <3>6, <3>7 DEF Original, Answered
    <3>9. Live(j)' /\ ~jobs'[j].cut /\ jobs'[j].own \in 2..Revision'
      BY <1>0, <2>2, <3>3, <3>4, <3>6 DEF Live
    <3> QED
      BY <1>0, <1>1, <2>2, <3>4, <3>6, <3>8, <3>9, AnswerMoved
  <2>4. CASE Become(j, "check") /\ UNCHANGED history
    <3>1. /\ Jobs' = Jobs /\ jobs'[j].pc = "check" /\ jobs'[j].cut = jobs[j].cut
          /\ \A k \in Jobs \ {j} : Unmoved(k)
      BY <1>0, <2>4, BecomeAt
    <3>2. Answered'
      BY <1>4, <1>5, <2>2, <2>4, <3>1 DEF AnswerInv, Answered
    <3> QED
      BY <1>0, <1>1, <1>5, <2>2, <2>4, <3>1, <3>2, AnswerMoved
  <2> QED
    BY <1>7, <2>3, <2>4 DEF BeginUpgrade
<1>8. CASE EndUpgrade(j)
  <2> DEFINE o == jobs[j].own
  <2>1. jobs[j].pc = "applying" /\ Become(j, "check")
    BY <1>8 DEF EndUpgrade, At
  <2>2. Live(j) /\ ~jobs[j].cut /\ o \in 2..Revision
    BY <2>1 DEF Live, AnswerInv, Running, Owned
  <2>3. /\ Jobs' = Jobs /\ jobs'[j].pc = "check" /\ jobs'[j].cut = jobs[j].cut
        /\ \A k \in Jobs \ {j} : Unmoved(k)
    BY <1>0, <2>1, BecomeAt
  <2>4. PICK st \in {"deployed", "failed"} : history' = [history EXCEPT ![o].status = st]
    BY <1>8 DEF EndUpgrade
  <2> HIDE DEF o
  <2>5. /\ Revision' = Revision
        /\ Top'.status = IF o = Revision THEN st ELSE Top.status
    <3>1. o \in 1..Revision
      BY <2>2
    <3> QED
      BY <1>0, <2>4, <3>1, EndedRevision
  <2>6. Original'
    BY <1>0, <2>2, <2>5 DEF Original, AnswerInv
  <2>7. Answered'
    <3>1. CASE o = Revision
      <4>1. st = "failed" => Answers(j)'
        BY <2>3, <2>5, <3>1 DEF Answers
      <4> QED
        BY <2>3, <2>5, <3>1, <4>1 DEF Answered
    <3>2. CASE o # Revision
      <4>1. ~Answers(j)
        BY <2>1, <2>2, <3>2 DEF Answers, o
      <4>2. ASSUME NEW k \in Jobs \ {j}, Answers(k)
            PROVE  Answers(k)'
        BY <2>3, <2>5, <3>2, <4>2 DEF Answers, Unmoved
      <4> QED
        BY <2>3, <2>5, <3>2, <4>1, <4>2 DEF Answered, AnswerInv
    <3> QED
      BY <3>1, <3>2
  <2> QED
    BY <1>0, <1>1, <2>2, <2>3, <2>5, <2>6, <2>7, AnswerMoved
<1>9. CASE CheckRelease(j) \/ WaitForPods(j)
  <2>1. UNCHANGED history /\ jobs[j].pc \in {"check", "wait"}
    BY <1>9 DEF CheckRelease, WaitForPods, At
  <2>2. Live(j) /\ ~jobs[j].cut
    BY <2>1 DEF Live, AnswerInv, Running
  <2>3. /\ Jobs' = Jobs /\ \A k \in Jobs \ {j} : Unmoved(k)
        /\ ~jobs'[j].cut /\ jobs'[j].pc # "applying"
        /\ Top.status = "failed" => jobs[j].pc = "wait" \/ jobs'[j].pc = "roll back"
    <3>1. CASE WaitForPods(j) /\ Exit(jobs, j, "succeeded", FALSE)
      <4>1. jobs[j].pc = "wait"
        BY <3>1 DEF WaitForPods, At
      <4> QED
        BY <1>0, <3>1, <4>1, ExitAlone
    <3>2. CASE Become(j, "wait") /\ Top.status = "deployed"
      BY <1>0, <2>2, <3>2, BecomeAt
    <3>3. CASE Become(j, "roll back")
      <4>1. /\ Jobs' = Jobs /\ \A k \in Jobs \ {j} : Unmoved(k)
            /\ jobs'[j].cut = jobs[j].cut /\ jobs'[j].pc = "roll back"
        BY <1>0, <3>3, BecomeAt
      <4> QED
        BY <2>2, <4>1, Zenon
    <3> QED
      BY <1>9, <3>1, <3>2, <3>3 DEF CheckRelease, WaitForPods
  <2>4. Answers(j) => Answers(j)'
    BY <1>5, <2>1, <2>2, <2>3 DEF Answers
  <2>5. Answered'
    BY <1>4, <1>5, <2>1, <2>3, <2>4 DEF AnswerInv, Answered
  <2>6. Revision' = Revision /\ Original'
    BY <1>5, <2>1
  <2>7. /\ Jobs' = Jobs /\ \A k \in Jobs \ {j} : Unmoved(k)
        /\ (Live(j)' => ~jobs'[j].cut) /\ jobs'[j].pc # "applying"
    BY <2>3
  <2> QED
    BY <1>0, <1>1, <2>2, <2>5, <2>6, <2>7, AnswerMoved
<1>10. CASE TimeOut(j)
  <2>1. UNCHANGED history /\ jobs[j].pc = "check"
    BY <1>10 DEF TimeOut, At
  <2>2. Live(j) /\ ~jobs[j].cut
    BY <2>1 DEF Live, AnswerInv, Running
  <2>3. /\ Jobs' = Jobs /\ \A k \in Jobs \ {j} : Unmoved(k)
        /\ jobs'[j].pc = "failed" /\ (Top.status = "pending" \/ jobs'[j].cut)
    BY <1>0, <1>10, ExitAlone DEF TimeOut
  <2>4. Answers(j) => Answers(j)'
    BY <2>1, <2>2, <2>3 DEF Answers
  <2>5. Answered'
    BY <1>4, <1>5, <2>1, <2>3, <2>4 DEF AnswerInv, Answered
  <2>6. ~Live(j)' /\ jobs'[j].pc # "applying"
    BY <2>3 DEF Live
  <2> QED
    BY <1>0, <1>1, <1>5, <2>1, <2>3, <2>5, <2>6, AnswerMoved
<1>11. CASE RollBack(j)
  <2>1. jobs[j].pc = "roll back"
    BY <1>11 DEF RollBack, At
  <2>2. CASE UNCHANGED history /\ Revision = 1 /\ Exit(jobs, j, "failed", FALSE)
    <3>1. /\ Jobs' = Jobs /\ jobs'[j].pc = "failed" /\ ~jobs'[j].cut
          /\ \A k \in Jobs \ {j} : Unmoved(k)
      BY <1>0, <2>2, ExitAlone
    <3>2. Answered'
      BY <1>5, <2>2 DEF Answered, AnswerInv, Original
    <3>3. ~Live(j)' /\ jobs'[j].pc # "applying"
      BY <3>1 DEF Live
    <3> QED
      BY <1>0, <1>1, <1>5, <2>2, <3>1, <3>2, <3>3, AnswerMoved
  <2>3. ASSUME Revision > 1, NEW st \in {"deployed", "failed"}, NEW c \in BOOLEAN,
               history' = Append(history, Record(history[Revision - 1].version, st)),
               Exit(Disturb(j), j, "failed", c), st = "failed" => c
        PROVE  AnswerInv'
    <3>1. /\ Jobs' = Jobs /\ jobs'[j].pc = "failed" /\ jobs'[j].cut = c
          /\ \A k \in Jobs \ {j} : Unmoved(k)
      BY <1>0, <2>3, ExitDisturbing
    <3>2. Record(history[Revision - 1].version, st) \in Revisions
      <4>1. Revision - 1 \in 1..Revision
        BY <1>0, <2>3
      <4>2. history[Revision - 1] \in Revisions
        BY <1>0, <4>1
      <4> QED
        BY <4>2 DEF Record, Revisions
    <3>3. Revision' = Revision + 1 /\ Top'.status = st
      BY <1>0, <2>3, <3>2, RevisionAdded
    <3>4. Original' /\ Answered'
      <4>1. st = "failed" => Answers(j)'
        BY <2>3, <3>1 DEF Answers
      <4> QED
        BY <1>0, <2>3, <3>1, <3>3, <4>1 DEF Original, Answered
    <3>5. ~Live(j)' /\ jobs'[j].pc # "applying"
      BY <3>1 DEF Live
    <3> QED
      BY <1>0, <1>1, <3>1, <3>3, <3>4, <3>5, AnswerMoved
  <2> QED
    BY <1>11, <2>2, <2>3 DEF RollBack
<1>12. CASE Killed(j) \/ Removed(j)
  <2>1. UNCHANGED history
    BY <1>12 DEF Killed, Removed
  <2>2. /\ Jobs' = Jobs /\ jobs'[j].pc \in {"failed", "deleted"}
        /\ \A k \in Jobs \ {j} : Unmoved(k)
        /\ jobs[j].cut \/ Live(j) => jobs'[j].cut
    BY <1>0, <1>12, ExitAlone DEF Killed, Removed
  <2>3. Answers(j) => Answers(j)'
    BY <2>2 DEF Answers, Live
  <2>4. Answered'
    BY <1>4, <1>5, <2>1, <2>2, <2>3 DEF AnswerInv, Answered
  <2>5. ~Live(j)' /\ jobs'[j].pc # "applying"
    BY <2>2 DEF Live
  <2> QED
    BY <1>0, <1>1, <1>5, <2>1, <2>2, <2>4, <2>5, AnswerMoved
<1> QED
  BY <1>6, <1>7, <1>8, <1>9, <1>10, <1>11, <1>12 DEF Pod

LEMMA AnswerOutside ==
  ASSUME AnswerInv, TypeOK, NEW v \in Versions, Request(v) \/ DirectUpgrade(v)
  PROVE  AnswerInv'
<1>0. JobsOK /\ HelmOK /\ Revision \in Nat
  BY TypeParts, RevisionType
<1>1. CASE Request(v)
  <2>1. UNCHANGED <<jobs, history, pc, status>>
    BY <1>1 DEF Request
  <2> QED
    BY <2>1, AnswerKept DEF AnswerInv, Deleting, Live
<1>2. CASE DirectUpgrade(v)
  <2>1. /\ UNCHANGED <<pc, status>> /\ jobs' = Disturb(NoJob)
        /\ history' = Append(history, Record(v, "deployed"))
    BY <1>2 DEF DirectUpgrade
  <2>2. Jobs' = Jobs /\ \A k \in Jobs : Unmoved(k)
    BY <1>0, <2>1, DisturbingJobs
  <2>3. Record(v, "deployed") \in Revisions
    BY DEF Record, Revisions
  <2>4. Revision' = Revision + 1 /\ Top'.status = "deployed"
    BY <1>0, <2>1, <2>3, RevisionAdded
  <2>5. Deleting'
    <3>1. \A k \in Jobs : ~Live(k) => ~Live(k)'
      BY <2>2 DEF Unmoved, Live
    <3> QED
      BY <2>1, <3>1, DeletingKept DEF AnswerInv
  <2>6. Original' /\ Answered'
    BY <2>4 DEF Original, Answered
  <2>7. Running' /\ Owned'
    BY <1>0, <2>2, <2>4 DEF AnswerInv, Running, Owned, Unmoved, Live
  <2> QED
    BY <2>5, <2>6, <2>7 DEF AnswerInv
<1> QED
  BY <1>1, <1>2

LEMMA AnswerInit ==
  ASSUME Init
  PROVE  AnswerInv
<1>1. PICK h \in Installed : history = [i \in DOMAIN h |-> Record(h[i], "deployed")]
  BY DEF Init
<1>2. h \in Seq(Versions) /\ h # <<>>
  BY UpgradeAssumption
<1>3. Top.status = "deployed"
  <2>1. \A i \in DOMAIN h : history[i].status = "deployed"
    BY <1>1 DEF Record
  <2>2. HelmOK
    BY InitType, TypeParts
  <2>3. DOMAIN history = DOMAIN h /\ DOMAIN history = 1..Revision
    BY <1>1, <2>2 DEF HelmOK, Revision
  <2>4. Revision \in DOMAIN h
    BY <2>2, <2>3, RevisionType
  <2> QED
    BY <2>1, <2>4 DEF Top
<1>4. Jobs = {} /\ pc # "delete job"
  BY DEF Init, Jobs
<1> QED
  BY <1>3, <1>4 DEF AnswerInv, Running, Deleting, Owned, Original, Answered

\* When all jobs are over and none was cut off, the operator's release is
\* deployed, for any number of overlapping jobs, direct upgrades and failures
\* (selfupgrade.Service.Run).
THEOREM NoFailedLeft == Spec => []LeftDeployed
<1>1. Init => AnswerInv
  BY AnswerInit
<1>2. AnswerInv /\ TypeOK /\ [Next]_vars => AnswerInv'
  <2>1. CASE UNCHANGED vars
    BY <2>1, AnswerKept DEF vars, AnswerInv, Deleting, Live
  <2>2. CASE Next
    BY <2>2, AnswerController, AnswerPod, AnswerOutside DEF Next
  <2> QED
    BY <2>1, <2>2
<1>3. AnswerInv => LeftDeployed
  BY DEF AnswerInv, Answered, Answers, LeftDeployed, Live
<1> QED
  BY <1>1, <1>2, <1>3, TypeCorrect, PTL DEF Spec

------------------------------------------------------------------------------
(* What a job rolls back is its own upgrade: a job that nobody disturbed is    *)
(* the only one that runs, and the revision before the latest is the one it    *)
(* started from, from its upgrade on.                                          *)

Sole(j) == Live(j) /\ jobs[j].alone

OnlyOne == \A j, k \in Jobs : Sole(j) /\ Live(k) => k = j

Undoable(j) ==
  /\ jobs[j].pc = "pending" => jobs[j].before = 0
  /\ jobs[j].pc # "pending" => jobs[j].before > 0
  /\ jobs[j].pc = "upgrade" => jobs[j].before = Revision
  /\ jobs[j].pc = "applying" => jobs[j].own = Revision
  /\ jobs[j].pc \in {"applying", "check", "wait", "roll back"} => jobs[j].before + 1 = Revision
  /\ jobs[j].pc \in {"upgrade", "check", "wait", "roll back"} => Top.status # "pending"

UndoInv == OnlyOne /\ \A j \in Jobs : Sole(j) => Undoable(j)

\* What FailureUndone says of one job.
Undone(j) ==
  Live(j) /\ jobs'[j].pc = "failed" /\ jobs[j].alone /\ ~jobs'[j].cut
    => Top'.version = (IF jobs[j].before = 0 THEN Top ELSE history[jobs[j].before]).version

\* A step of a pod that runs: the others are not undisturbed, before or after.
LEMMA UndoMoved ==
  ASSUME UndoInv, NEW j \in Jobs, Live(j), Jobs' = Jobs, \A k \in Jobs \ {j} : Unmoved(k),
         Sole(j)' => Sole(j) /\ Undoable(j)'
  PROVE  UndoInv'
<1>1. ASSUME NEW k \in Jobs \ {j}
      PROVE  ~Sole(k)' /\ (Live(k)' => Live(k))
  BY <1>1 DEF UndoInv, OnlyOne, Sole, Unmoved, Live
<1> QED
  BY <1>1 DEF UndoInv, OnlyOne

\* The release stays, and one job ends or is gone.
LEMMA UndoEnded ==
  ASSUME UndoInv, NEW j \in Jobs, UNCHANGED history, Jobs' = Jobs,
         \A k \in Jobs \ {j} : jobs'[k] = jobs[k], ~Live(j)'
  PROVE  UndoInv'
<1>1. ASSUME NEW k \in Jobs \ {j}
      PROVE  (Live(k)' <=> Live(k)) /\ (Sole(k)' <=> Sole(k)) /\ (Undoable(k)' <=> Undoable(k))
  BY <1>1 DEF Sole, Live, Undoable, Revision, Top
<1> QED
  BY <1>1 DEF UndoInv, OnlyOne, Sole

LEMMA UndoKept ==
  ASSUME UndoInv, UNCHANGED <<jobs, history>>
  PROVE  UndoInv' /\ \A j \in Jobs : Undone(j)
BY DEF UndoInv, OnlyOne, Sole, Live, Undoable, Undone, Revision, Top, Jobs

LEMMA UnmovedUndone ==
  ASSUME NEW k, Unmoved(k)
  PROVE  Undone(k)
BY DEF Unmoved, Undone, Live

LEMMA UndoController ==
  ASSUME UndoInv, TypeOK, Controller \/ Stop
  PROVE  UndoInv' /\ \A j \in Jobs : Undone(j)
<1>0. JobsOK
  BY TypeParts
<1>1. CASE JobGone \/ JobSucceeded \/ JobFailed \/ ClearJob \/ DetectRevision \/ Poll \/ TrackJob
           \/ AckAction \/ PollDone \/ Stop
  <2>1. UNCHANGED <<jobs, history>>
    BY <1>1 DEF JobGone, JobSucceeded, JobFailed, ClearJob, DetectRevision, Poll, TrackJob, AckAction,
                PollDone, Stop
  <2> QED
    BY <2>1, UndoKept
<1>2. CASE DeleteJob
  <2>1. CASE UNCHANGED jobs
    BY <1>2, <2>1, UndoKept DEF DeleteJob
  <2>2. CASE Become(status.job, "deleted")
    <3>1. PICK j \in Jobs : j = status.job
      <4>1. PICK k : k = status.job
        OBVIOUS
      <4>2. k \in 0..Len(jobs) /\ k # 0
        BY <1>2, <4>1 DEF DeleteJob, TypeOK, NoJob
      <4>3. Jobs = 1..Len(jobs) /\ Len(jobs) \in Nat
        BY <1>0, JobsAre
      <4> QED
        BY <4>1, <4>2, <4>3
    <3>2. Become(j, "deleted")
      BY <2>2, <3>1
    <3>3. /\ Jobs' = Jobs /\ jobs'[j].pc = "deleted"
          /\ \A k \in Jobs \ {j} : jobs'[k] = jobs[k] /\ Unmoved(k)
      BY <1>0, <3>1, <3>2, BecomeAt
    <3>4. ~Live(j)' /\ Undone(j)
      BY <3>3 DEF Live, Undone
    <3>5. UNCHANGED history
      BY <1>2 DEF DeleteJob
    <3>6. UndoInv'
      BY <3>1, <3>3, <3>4, <3>5, UndoEnded
    <3> QED
      BY <3>3, <3>4, <3>6, UnmovedUndone
  <2> QED
    BY <1>2, <2>1, <2>2 DEF DeleteJob, Become
<1>3. ASSUME NEW a \in todo, CreateJob(a)
      PROVE  UndoInv' /\ \A j \in Jobs : Undone(j)
  <2>1. UNCHANGED history
    BY <1>3 DEF CreateJob
  <2>2. CASE UNCHANGED jobs
    BY <2>1, <2>2, UndoKept
  <2>3. CASE CreatesJob(a)
    <3>0. PICK n : n = Len(jobs) + 1
      OBVIOUS
    <3>1. /\ Jobs' = Jobs \cup {n} /\ n \notin Jobs
          /\ jobs'[n].pc = "pending" /\ jobs'[n].before = 0
          /\ jobs'[n].alone <=> \A k \in Jobs : ~Live(k)
          /\ \A k \in Jobs : Unmoved(k) /\ (Live(k) => ~jobs'[k].alone)
      BY <1>0, <2>3, <3>0, JobCreated
    <3>2. \A k \in Jobs : ~Sole(k)' /\ (Live(k)' => Live(k))
      BY <3>1 DEF Sole, Live, Unmoved
    <3>3. Undoable(n)'
      BY <3>1 DEF Undoable
    <3>4. Sole(n)' => \A k \in Jobs : ~Live(k)
      BY <3>1 DEF Sole
    <3>5. OnlyOne'
      BY <3>1, <3>2, <3>4 DEF OnlyOne
    <3>6. \A k \in Jobs' : Sole(k)' => Undoable(k)'
      BY <3>1, <3>2, <3>3
    <3> QED
      BY <3>1, <3>5, <3>6, UnmovedUndone DEF UndoInv
  <2> QED
    BY <1>3, <2>2, <2>3 DEF CreateJob, CreatesJob
<1> QED
  BY <1>1, <1>2, <1>3 DEF Controller

LEMMA UndoOutside ==
  ASSUME UndoInv, TypeOK, NEW v \in Versions, Request(v) \/ DirectUpgrade(v)
  PROVE  UndoInv' /\ \A j \in Jobs : Undone(j)
<1>0. JobsOK
  BY TypeParts
<1>1. CASE Request(v)
  BY <1>1, UndoKept DEF Request
<1>2. CASE DirectUpgrade(v)
  <2>1. jobs' = Disturb(NoJob)
    BY <1>2 DEF DirectUpgrade
  <2>2. Jobs' = Jobs /\ \A k \in Jobs : Unmoved(k) /\ (Live(k) /\ k # NoJob => ~jobs'[k].alone)
    BY <1>0, <2>1, DisturbingJobs
  <2>3. \A k \in Jobs : k # NoJob
    BY <1>0, JobsAre DEF NoJob
  <2>4. \A k \in Jobs : ~Sole(k)'
    BY <2>2, <2>3 DEF Sole, Unmoved, Live
  <2> QED
    BY <2>2, <2>4, UnmovedUndone DEF UndoInv, OnlyOne
<1> QED
  BY <1>1, <1>2

LEMMA UndoPod ==
  ASSUME UndoInv, TypeOK, "upgrade" \notin Faults, NEW j \in Jobs, Pod(j) \/ Killed(j) \/ Removed(j)
  PROVE  UndoInv' /\ \A k \in Jobs : Undone(k)
<1>0. JobsOK /\ HelmOK /\ Revision \in Nat \ {0} /\ \A i \in 1..Revision : history[i] \in Revisions
  BY TypeParts, RevisionType
<1>1. jobs[j] \in JobRecords /\ jobs[j].before \in Nat
  <2>1. jobs[j] \in JobRecords
    BY <1>0, JobsAre
  <2> QED
    BY <2>1 DEF JobRecords
<1>2. UNCHANGED history => Revision' = Revision /\ Top' = Top
  BY DEF Revision, Top
<1>3. Sole(j) => Undoable(j)
  BY DEF UndoInv
\* A pod that ends without touching the release.
<1>4. ASSUME UNCHANGED history, NEW result \in {"succeeded", "failed", "deleted"}, NEW c,
             Exit(jobs, j, result, c),
             Sole(j) /\ result = "failed" /\ ~c => jobs[j].before = 0
      PROVE  UndoInv' /\ \A k \in Jobs : Undone(k)
  <2>1. /\ Jobs' = Jobs /\ jobs'[j].pc = result /\ jobs'[j].cut = c
        /\ \A k \in Jobs \ {j} : jobs'[k] = jobs[k] /\ Unmoved(k)
    BY <1>0, <1>4, ExitAlone
  <2>2. ~Live(j)'
    BY <1>4, <2>1 DEF Live
  <2>3. UndoInv'
    BY <1>4, <2>1, <2>2, UndoEnded
  <2>4. Undone(j)
    <3>1. Sole(j) /\ jobs'[j].pc = "failed" /\ ~jobs'[j].cut => jobs[j].before = 0
      BY <1>4, <2>1
    <3>2. Top' = Top
      BY <1>2, <1>4
    <3> QED
      BY <3>1, <3>2, Zenon DEF Undone, Sole
  <2> QED
    BY <2>1, <2>3, <2>4, UnmovedUndone
\* A pod that goes on without touching the release.
<1>5. ASSUME UNCHANGED history, Live(j), NEW next \in {"check", "wait", "roll back"},
             Become(j, next), jobs[j].pc \in {"check", "wait"}
      PROVE  UndoInv' /\ \A k \in Jobs : Undone(k)
  <2>1. /\ Jobs' = Jobs /\ jobs'[j].pc = next /\ jobs'[j].before = jobs[j].before
        /\ jobs'[j].alone = jobs[j].alone
        /\ \A k \in Jobs \ {j} : Unmoved(k)
    BY <1>0, <1>5, BecomeAt
  <2>2. Sole(j)' => Sole(j)
    BY <1>5, <2>1 DEF Sole
  <2>3. Sole(j) => Undoable(j)'
    BY <1>2, <1>3, <1>5, <2>1 DEF Undoable
  <2>4. UndoInv'
    BY <1>5, <2>1, <2>2, <2>3, UndoMoved
  <2>5. Undone(j)
    BY <1>5, <2>1 DEF Undone
  <2> QED
    BY <2>1, <2>4, <2>5, UnmovedUndone
<1>6. CASE DryRun(j)
  <2>1. UNCHANGED history /\ jobs[j].pc = "pending" /\ Live(j)
    BY <1>6 DEF DryRun, At, Live
  <2>2. CASE Top.status # "pending"
             /\ jobs' = [jobs EXCEPT ![j].pc = "upgrade", ![j].before = Revision]
    <3> DEFINE r == [jobs[j] EXCEPT !.pc = "upgrade", !.before = Revision]
    <3>1. r.pc = "upgrade" /\ r.before = Revision /\ r.alone = jobs[j].alone
      BY <1>1 DEF JobRecords
    <3>2. jobs' = [jobs EXCEPT ![j] = r]
      BY <2>2
    <3> HIDE DEF r
    <3>3. /\ Jobs' = Jobs /\ jobs'[j].pc = "upgrade" /\ jobs'[j].before = Revision
          /\ jobs'[j].alone = jobs[j].alone /\ \A k \in Jobs \ {j} : Unmoved(k)
      BY <1>0, <3>1, <3>2, OthersStay
    <3>4. Undoable(j)'
      <4>1. Revision > 0
        BY <1>0
      <4>2. Revision' = Revision /\ Top' = Top
        BY <1>2, <2>1
      <4> QED
        BY <2>2, <3>3, <4>1, <4>2 DEF Undoable
    <3>5. Sole(j)' => Sole(j)
      BY <2>1, <3>3 DEF Sole
    <3>6. UndoInv'
      BY <2>1, <3>3, <3>4, <3>5, UndoMoved
    <3>7. Undone(j)
      BY <3>3 DEF Undone
    <3> QED
      BY <3>3, <3>6, <3>7, UnmovedUndone
  <2>3. CASE Exit(jobs, j, "failed", FALSE)
    <3>1. Sole(j) => jobs[j].before = 0
      BY <1>3, <2>1 DEF Undoable
    <3> QED
      BY <1>4, <2>1, <2>3, <3>1
  <2> QED
    BY <1>6, <2>2, <2>3 DEF DryRun
<1>7. CASE BeginUpgrade(j)
  <2>1. jobs[j].pc = "upgrade" /\ Live(j)
    BY <1>7 DEF BeginUpgrade, At, Live
  <2>2. CASE /\ history' = Append(history, Record(jobs[j].version, "pending"))
             /\ jobs' = [Disturb(j) EXCEPT ![j].pc = "applying", ![j].own = Revision + 1]
    <3> DEFINE d == Disturb(j)
               r == [d[j] EXCEPT !.pc = "applying", !.own = Revision + 1]
    <3>1. jobs' = [d EXCEPT ![j] = r]
      BY <2>2
    <3>2. d[j] \in JobRecords /\ d[j].before = jobs[j].before /\ (d[j].alone <=> jobs[j].alone)
      BY <1>0, DisturbAt
    <3> HIDE DEF d
    <3>3. /\ r.pc = "applying" /\ r.own = Revision + 1 /\ r.before = jobs[j].before
          /\ (r.alone <=> jobs[j].alone)
      BY <3>2 DEF JobRecords
    <3> HIDE DEF r
    <3>4. Jobs' = Jobs /\ jobs'[j] = r /\ \A k \in Jobs \ {j} : Unmoved(k)
      BY <1>0, <3>1, OthersDisturbed DEF d
    <3>5. Record(jobs[j].version, "pending") \in Revisions
      BY <1>1 DEF Record, Revisions, JobRecords
    <3>6. Revision' = Revision + 1
      BY <1>0, <2>2, <3>5, RevisionAdded
    <3>7. Sole(j)' => Sole(j)
      BY <2>1, <3>3, <3>4 DEF Sole
    <3>8. Sole(j) => jobs[j].before = Revision
      BY <1>3, <2>1 DEF Undoable
    <3>9. ASSUME Sole(j)
          PROVE  Undoable(j)'
      <4>1. jobs'[j].before > 0 /\ jobs'[j].before + 1 = Revision'
        BY <1>0, <3>3, <3>4, <3>6, <3>8, <3>9
      <4>2. jobs'[j].pc = "applying" /\ jobs'[j].own = Revision'
        BY <3>3, <3>4, <3>6
      <4> QED
        BY <4>1, <4>2 DEF Undoable
    <3>10. UndoInv'
      BY <2>1, <3>4, <3>7, <3>9, UndoMoved
    <3>11. Undone(j)
      BY <3>3, <3>4 DEF Undone
    <3> QED
      BY <3>4, <3>10, <3>11, UnmovedUndone
  <2>3. CASE Top.status = "pending" /\ Become(j, "check") /\ UNCHANGED history
    <3>1. /\ Jobs' = Jobs /\ jobs'[j].pc = "check" /\ jobs'[j].alone = jobs[j].alone
          /\ \A k \in Jobs \ {j} : Unmoved(k)
      BY <1>0, <2>3, BecomeAt
    <3>2. ~Sole(j)
      BY <1>3, <2>1, <2>3 DEF Undoable
    <3>3. ~Sole(j)'
      BY <2>1, <3>1, <3>2 DEF Sole
    <3>4. UndoInv'
      BY <2>1, <3>1, <3>3, UndoMoved
    <3>5. Undone(j)
      BY <3>1 DEF Undone
    <3> QED
      BY <3>1, <3>4, <3>5, UnmovedUndone
  <2> QED
    BY <1>7, <2>2, <2>3 DEF BeginUpgrade, Fault
<1>8. CASE EndUpgrade(j)
  <2>1. jobs[j].pc = "applying" /\ Live(j) /\ Become(j, "check")
    BY <1>8 DEF EndUpgrade, At, Live
  <2>2. /\ Jobs' = Jobs /\ jobs'[j].pc = "check" /\ jobs'[j].before = jobs[j].before
        /\ jobs'[j].alone = jobs[j].alone
        /\ \A k \in Jobs \ {j} : Unmoved(k)
    BY <1>0, <2>1, BecomeAt
  <2>3. PICK st \in {"deployed", "failed"} : history' = [history EXCEPT ![jobs[j].own].status = st]
    BY <1>8 DEF EndUpgrade
  <2>4. Sole(j)' => Sole(j)
    BY <2>1, <2>2 DEF Sole
  <2>5. ASSUME Sole(j)
        PROVE  Undoable(j)'
    <3>1. jobs[j].own = Revision /\ jobs[j].before + 1 = Revision /\ jobs[j].before > 0
      BY <1>3, <2>1, <2>5 DEF Undoable
    <3>2. history' = [history EXCEPT ![Revision].status = st] /\ Revision \in 1..Revision
      BY <1>0, <2>3, <3>1
    <3>3. Revision' = Revision /\ Top'.status = st
      BY <1>0, <3>2, EndedRevision
    <3> QED
      BY <2>2, <3>1, <3>3 DEF Undoable
  <2>6. UndoInv'
    BY <2>1, <2>2, <2>4, <2>5, UndoMoved
  <2>7. Undone(j)
    BY <2>2 DEF Undone
  <2> QED
    BY <2>2, <2>6, <2>7, UnmovedUndone
<1>9. CASE CheckRelease(j) \/ WaitForPods(j)
  <2>1. UNCHANGED history /\ jobs[j].pc \in {"check", "wait"} /\ Live(j)
    BY <1>9 DEF CheckRelease, WaitForPods, At, Live
  <2>2. CASE Exit(jobs, j, "succeeded", FALSE)
    BY <1>4, <2>1, <2>2
  <2>3. CASE \E next \in {"wait", "roll back"} : Become(j, next)
    BY <1>5, <2>1, <2>3
  <2> QED
    BY <1>9, <2>2, <2>3 DEF CheckRelease, WaitForPods
<1>10. CASE TimeOut(j)
  <2>1. UNCHANGED history /\ jobs[j].pc = "check"
    BY <1>10 DEF TimeOut, At
  <2>2. Sole(j) => Top.status # "pending"
    BY <1>3, <2>1 DEF Undoable
  <2>3. CASE Top.status = "pending" /\ Exit(jobs, j, "failed", FALSE)
    BY <1>4, <2>1, <2>2, <2>3
  <2>4. CASE Exit(jobs, j, "failed", TRUE)
    BY <1>4, <2>1, <2>4
  <2> QED
    BY <1>10, <2>3, <2>4 DEF TimeOut
<1>11. CASE RollBack(j)
  <2>1. jobs[j].pc = "roll back" /\ Live(j)
    BY <1>11 DEF RollBack, At, Live
  <2>2. Sole(j) => jobs[j].before > 0 /\ jobs[j].before + 1 = Revision
    BY <1>3, <2>1 DEF Undoable
  <2>3. CASE UNCHANGED history /\ Revision = 1 /\ Exit(jobs, j, "failed", FALSE)
    <3>1. ~Sole(j)
      BY <1>1, <2>2, <2>3
    <3> QED
      BY <1>4, <2>3, <3>1
  <2>4. ASSUME Revision > 1, NEW st \in {"deployed", "failed"}, NEW c \in BOOLEAN,
               history' = Append(history, Record(history[Revision - 1].version, st)),
               Exit(Disturb(j), j, "failed", c)
        PROVE  UndoInv' /\ \A k \in Jobs : Undone(k)
    <3>1. /\ Jobs' = Jobs /\ jobs'[j].pc = "failed"
          /\ \A k \in Jobs \ {j} : Unmoved(k)
      BY <1>0, <2>4, ExitDisturbing
    <3>2. ~Sole(j)'
      BY <3>1 DEF Sole, Live
    <3>3. UndoInv'
      BY <2>1, <3>1, <3>2, UndoMoved
    <3>4. Undone(j)
      <4>1. Record(history[Revision - 1].version, st) \in Revisions
        <5>1. Revision - 1 \in 1..Revision
          BY <1>0, <2>4
        <5>2. history[Revision - 1] \in Revisions
          BY <1>0, <5>1
        <5> QED
          BY <5>2 DEF Record, Revisions
      <4>2. Top'.version = history[Revision - 1].version
        BY <1>0, <2>4, <4>1, RevisionAdded
      <4>3. Sole(j) => jobs[j].before = Revision - 1 /\ jobs[j].before # 0
        BY <1>0, <1>1, <2>2
      <4> QED
        BY <4>2, <4>3 DEF Undone, Sole
    <3> QED
      BY <3>1, <3>3, <3>4, UnmovedUndone
  <2> QED
    BY <1>11, <2>3, <2>4 DEF RollBack
<1>12. CASE Killed(j) \/ Removed(j)
  <2>1. UNCHANGED history
    BY <1>12 DEF Killed, Removed
  <2>2. \/ Exit(jobs, j, "failed", TRUE)
        \/ Exit(jobs, j, "deleted", jobs[j].cut \/ Live(j))
    BY <1>12 DEF Killed, Removed
  <2> QED
    BY <1>4, <2>1, <2>2
<1> QED
  BY <1>6, <1>7, <1>8, <1>9, <1>10, <1>11, <1>12 DEF Pod

\* A job that had the release to itself and failed in time leaves the version
\* that ran before it, if an upgrade that helm begins is recorded: one that
\* helm gives up before that is taken for one to roll back (selfupgrade.go).
THEOREM FailedJobUndone ==
  ASSUME "upgrade" \notin Faults
  PROVE  Spec => FailureUndone
<1>1. Init => UndoInv
  BY DEF Init, UndoInv, OnlyOne, Jobs
<1>2. UndoInv /\ TypeOK /\ [Next]_vars => UndoInv' /\ \A j \in Jobs : Undone(j)
  <2>1. CASE UNCHANGED vars
    BY <2>1, UndoKept DEF vars
  <2>2. CASE Next
    BY <2>2, UndoController, UndoPod, UndoOutside DEF Next
  <2> QED
    BY <2>1, <2>2
<1>3. UndoInv /\ TypeOK /\ [Next]_vars
        => [\A j \in Jobs :
              Live(j) /\ jobs'[j].pc = "failed" /\ jobs[j].alone /\ ~jobs'[j].cut
                => history'[Len(history')].version =
                     (IF jobs[j].before = 0 THEN Top ELSE history[jobs[j].before]).version]_vars
  BY <1>2 DEF Undone, Top, Revision
<1> QED
  BY <1>1, <1>2, <1>3, TypeCorrect, PTL DEF Spec, FailureUndone

==============================================================================
