------------------------------ MODULE BackupJob ------------------------------
(***************************************************************************)
(* A backup wizard and the jobs it runs.  The wizard has one job id: the   *)
(* backend keeps one sender under it, by which a cancel reaches the child  *)
(* process, and each run of the wizard puts its own there.                 *)
(*                                                                         *)
(* The three tools run alike.  Options, progress and output are left out,  *)
(* and the scheduled jobs, which have ids of their own and no wizard.      *)
(*                                                                         *)
(* Source: src-tauri/src/backup/runner.rs, src/features/backup/store.ts,   *)
(* BackupWizard.tsx and ProgressCard.tsx.                                  *)
(***************************************************************************)
EXTENDS Naturals

CONSTANTS
    MaxJobRuns,     \* bound: runs of the wizard
    MaxCancels      \* bound: cancels

ASSUME BackupAssumption == MaxJobRuns \in Nat /\ MaxCancels \in Nat

VARIABLES
    stage,      \* of each run
    signalled,  \* runs whose receiver has an answer: sent to, or its sender dropped
    sender,     \* the run whose sender is under the job id, 0 when none
    outcome,    \* of each run, "none" while it lasts
    events, replies,    \* runs whose Done event, whose answer, is on its way
    cancels,    \* of each cancel: where it is, and the run it was pressed for
    jobStatus,  \* status of the job in the store, "closed" without a wizard
    missed,     \* history: a cancel found no sender, or that of a run that is over
    overtaken   \* history: what belongs to one run was shown for a later one

backupVars == <<stage, signalled, sender, outcome, events, replies, cancels, jobStatus, missed, overtaken>>

JobRuns == 1..MaxJobRuns

BackupTypeOK ==
    /\ stage \in [JobRuns -> {"unused", "called", "spawned", "streaming", "waiting", "leaving", "over"}]
    /\ signalled \subseteq JobRuns /\ sender \in 0..MaxJobRuns
    /\ outcome \in [JobRuns -> {"none", "ok", "failed"}]
    /\ events \subseteq JobRuns /\ replies \subseteq JobRuns
    /\ cancels \in [1..MaxCancels -> [at : {"unused", "sent", "heard", "over"}, for : 0..MaxJobRuns]]
    /\ jobStatus \in {"idle", "running", "done", "failed", "cancelled", "closed"}
    /\ missed \in BOOLEAN /\ overtaken \in BOOLEAN

BackupInit ==
    /\ stage = [r \in JobRuns |-> "unused"] /\ signalled = {} /\ sender = 0
    /\ outcome = [r \in JobRuns |-> "none"] /\ events = {} /\ replies = {}
    /\ cancels = [x \in 1..MaxCancels |-> [at |-> "unused", for |-> 0]]
    /\ jobStatus = "idle" /\ missed = FALSE /\ overtaken = FALSE

Started(r) == stage[r] # "unused"
\* A later run was started.
IsOld(r) == \E s \in JobRuns : s > r /\ Started(s)

----------------------------------------------------------------------------
(* The wizard.                                                             *)

\* runBackup: the Run button is enabled unless the job is running.
PressRun(r) ==
    /\ jobStatus \notin {"running", "closed"}
    /\ ~Started(r) /\ \A s \in JobRuns : s < r => Started(s)
    /\ stage' = [stage EXCEPT ![r] = "called"] /\ jobStatus' = "running"
    /\ UNCHANGED <<signalled, sender, outcome, events, replies, cancels, missed, overtaken>>

\* cancelJob: the Cancel button is on the card of a running job.
PressCancel(x, r) ==
    /\ jobStatus = "running" /\ Started(r) /\ ~IsOld(r)
    /\ cancels[x].at = "unused" /\ cancels' = [cancels EXCEPT ![x] = [at |-> "sent", for |-> r]]
    /\ UNCHANGED <<stage, signalled, sender, outcome, events, replies, jobStatus, missed, overtaken>>

CancelAnswered(x) ==
    /\ cancels[x].at = "heard" /\ cancels' = [cancels EXCEPT ![x] = [at |-> "over", for |-> 0]]
    /\ IF jobStatus = "closed"
         THEN UNCHANGED <<jobStatus, overtaken>>
         ELSE jobStatus' = "cancelled" /\ overtaken' = (overtaken \/ IsOld(cancels[x].for))
    /\ UNCHANGED <<stage, signalled, sender, outcome, events, replies, missed>>

\* applyProgress of the Done event.
DoneLands(r) ==
    /\ r \in events /\ events' = events \ {r}
    /\ IF jobStatus = "closed"
         THEN UNCHANGED <<jobStatus, overtaken>>
         ELSE /\ jobStatus' = IF outcome[r] = "ok" THEN "done" ELSE "failed"
              /\ overtaken' = (overtaken \/ IsOld(r))
    /\ UNCHANGED <<stage, signalled, sender, outcome, replies, cancels, missed>>

\* The command has answered: an error is written into the job, which nobody looks at
\* any more when the wizard is closed.
ReplyLands(r) ==
    /\ r \in replies /\ replies' = replies \ {r}
    /\ IF outcome[r] = "ok" \/ jobStatus = "closed"
         THEN UNCHANGED <<jobStatus, overtaken>>
         ELSE jobStatus' = "failed" /\ overtaken' = (overtaken \/ IsOld(r))
    /\ UNCHANGED <<stage, signalled, sender, outcome, events, cancels, missed>>

\* The wizard unmounts, and the next has another job id.
CloseWizard ==
    /\ jobStatus # "closed" /\ jobStatus' = "closed"
    /\ UNCHANGED <<stage, signalled, sender, outcome, events, replies, cancels, missed, overtaken>>

----------------------------------------------------------------------------
(* The backend.                                                            *)

\* Options, connection or tool are refused, or the tool is not spawned.
NotSpawned(r) ==
    /\ stage[r] = "called" /\ stage' = [stage EXCEPT ![r] = "over"]
    /\ outcome' = [outcome EXCEPT ![r] = "failed"] /\ replies' = replies \cup {r}
    /\ UNCHANGED <<signalled, sender, events, cancels, jobStatus, missed, overtaken>>

SpawnTool(r) ==
    /\ stage[r] = "called" /\ stage' = [stage EXCEPT ![r] = "spawned"]
    /\ UNCHANGED <<signalled, sender, outcome, events, replies, cancels, jobStatus, missed, overtaken>>

\* The sender goes under the job id; one that is there is sent to.
Register(r) ==
    /\ stage[r] = "spawned" /\ stage' = [stage EXCEPT ![r] = "streaming"]
    /\ sender' = r /\ signalled' = signalled \cup ({sender} \ {0})
    /\ UNCHANGED <<outcome, events, replies, cancels, jobStatus, missed, overtaken>>

\* The receiver comes first: it has an answer, of whatever kind, and the child is killed.
KillTool(r) ==
    /\ stage[r] = "streaming" /\ r \in signalled
    /\ stage' = [stage EXCEPT ![r] = "leaving"] /\ outcome' = [outcome EXCEPT ![r] = "failed"]
    /\ UNCHANGED <<signalled, sender, events, replies, cancels, jobStatus, missed, overtaken>>

\* The tool's stderr has ended, and the select with it: a cancel is no longer heard.
StreamEnds(r) ==
    /\ stage[r] = "streaming" /\ r \notin signalled /\ stage' = [stage EXCEPT ![r] = "waiting"]
    /\ UNCHANGED <<signalled, sender, outcome, events, replies, cancels, jobStatus, missed, overtaken>>

ToolExits(r, result) ==
    /\ stage[r] = "waiting"
    /\ stage' = [stage EXCEPT ![r] = "leaving"] /\ outcome' = [outcome EXCEPT ![r] = result]
    /\ UNCHANGED <<signalled, sender, events, replies, cancels, jobStatus, missed, overtaken>>

\* child.wait() errs: the command answers at once, without a Done event, and its sender stays.
WaitFails(r) ==
    /\ stage[r] = "waiting" /\ stage' = [stage EXCEPT ![r] = "over"]
    /\ outcome' = [outcome EXCEPT ![r] = "failed"] /\ replies' = replies \cup {r}
    /\ UNCHANGED <<signalled, sender, events, cancels, jobStatus, missed, overtaken>>

\* MUTANT of Unregister: the select waits for a cancel that was sent, Ok(()).
UnregisterUnheard(r) ==
    /\ stage[r] = "leaving" /\ stage' = [stage EXCEPT ![r] = "over"]
    /\ sender' = 0
    /\ events' = events \cup {r} /\ replies' = replies \cup {r}
    /\ UNCHANGED <<signalled, outcome, cancels, jobStatus, missed, overtaken>>

\* What is under the job id is removed, whichever run put it there: the receiver of a
\* sender that is dropped has its answer.
Unregister(r) ==
    /\ stage[r] = "leaving" /\ stage' = [stage EXCEPT ![r] = "over"]
    /\ sender' = 0 /\ signalled' = signalled \cup ({sender} \ {0})
    /\ events' = events \cup {r} /\ replies' = replies \cup {r}
    /\ UNCHANGED <<outcome, cancels, jobStatus, missed, overtaken>>

\* backup_cancel: a sender whose run is over is sent to in vain.
CancelArrives(x) ==
    /\ cancels[x].at = "sent" /\ cancels' = [cancels EXCEPT ![x].at = "heard"]
    /\ sender' = 0 /\ signalled' = signalled \cup ({sender} \ {0})
    /\ missed' = (missed \/ sender = 0 \/ stage[sender] = "over")
    /\ UNCHANGED <<stage, outcome, events, replies, jobStatus, overtaken>>

BackupNext ==
    \/ \E r \in JobRuns : \/ PressRun(r) \/ DoneLands(r) \/ ReplyLands(r) \/ NotSpawned(r) \/ SpawnTool(r)
                          \/ Register(r) \/ KillTool(r) \/ StreamEnds(r) \/ WaitFails(r) \/ Unregister(r)
                          \/ \E result \in {"ok", "failed"} : ToolExits(r, result)
                          \/ \E x \in 1..MaxCancels : PressCancel(x, r)
    \/ \E x \in 1..MaxCancels : CancelArrives(x) \/ CancelAnswered(x)
    \/ CloseWizard

BackupSpec == BackupInit /\ [][BackupNext]_backupVars

----------------------------------------------------------------------------
(* Properties.                                                             *)

\* A run whose tool works and that nobody has stopped can be stopped: its sender is under
\* the job id and its wizard has a Cancel button.  Two gaps are excused in the wizard, not
\* in the backend: a cancel before the sender is there is lost and shown as done, and the
\* end of an earlier run is shown for the later one.  A tool past the end of its stderr is
\* not claimed: the select is over, and a cancel is shown as done while the tool goes on.
RunIsStoppable ==
    \A r \in JobRuns :
       stage[r] = "streaming" /\ r \notin signalled =>
          sender = r /\ (jobStatus \in {"running", "closed"} \/ missed \/ overtaken)

\* runner.rs:239: "Unregister the cancel channel regardless of outcome": a run that ends
\* removes its own, so a tool at work is stopped by a cancel, or by the run that follows it.
\* A run that unregisters after the next has registered removes the sender of the next, and
\* so kills its tool: a backup that was cancelled and at once run again may fail.
StoppedOnPurpose ==
    [][\A r \in signalled' \ signalled : stage[r] = "streaming" => cancels' # cancels \/ sender' # 0]_backupVars
=============================================================================
