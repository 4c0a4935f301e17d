-------------------------------- MODULE DryRun --------------------------------
(***************************************************************************)
(* migrations_dryrun and migrations_dryrun_cancel: the dry runs of one     *)
(* connection and the one place where the next cancel finds its target.    *)
(*                                                                         *)
(* A run leaves the sender of a oneshot under its connection and looks at  *)
(* the receiver at three points.  The receiver resolves when the sender    *)
(* sends, and just as well when the sender is dropped.  Every exit of a    *)
(* run, save three early ones, removes whatever sender the place holds.    *)
(*                                                                         *)
(* Source: src-tauri/src/migrations/dryrun.rs:283-548                      *)
(***************************************************************************)
CONSTANTS
    DryRuns,    \* the dry runs of one run of the model
    NoRun

Answers == {"ok", "failed", "cancelled", "error"}

ASSUME DryRunAssumption == NoRun \notin DryRuns \cup Answers

VARIABLES
    reached,    \* reached[d]: the point run d has reached
    canceller,  \* dryrun_cancellers[conn]: the run whose sender is there, or NoRun
    resolved,   \* runs whose receiver has resolved
    verdict,    \* verdict[d]: what run d answers
    asked       \* history: runs the user closed, or began another one over

dryVars == <<reached, canceller, resolved, verdict, asked>>

Points == {"idle", "docker", "load", "container", "address", "scripts", "leave", "over"}

DryTypeOK ==
    /\ reached \in [DryRuns -> Points]
    /\ canceller \in DryRuns \cup {NoRun}
    /\ resolved \subseteq DryRuns
    /\ verdict \in [DryRuns -> Answers \cup {NoRun}]
    /\ \A d \in DryRuns : reached[d] \in {"leave", "over"} <=> verdict[d] # NoRun
    /\ asked \subseteq DryRuns

DryInit ==
    /\ reached = [d \in DryRuns |-> "idle"]
    /\ canceller = NoRun
    /\ resolved = {}
    /\ verdict = [d \in DryRuns |-> NoRun]
    /\ asked = {}

\* The sender leaves the place, by send or by drop: its run's receiver resolves.
Gone == resolved \cup ({canceller} \ {NoRun})

Go(d, p) == reached' = [reached EXCEPT ![d] = p]
Answer(d, w) == verdict' = [verdict EXCEPT ![d] = w]

\* With entry(..).or_insert(..) the run that is there would keep the place.
RegisterBehind(d) ==
    /\ reached[d] = "idle"
    /\ Go(d, "docker")
    /\ canceller' = IF canceller = NoRun THEN d ELSE canceller
    /\ UNCHANGED <<resolved, verdict, asked>>

\* A new run takes the place and signals the one it finds there.
Register(d) ==
    /\ reached[d] = "idle"
    /\ Go(d, "docker")
    /\ canceller' = d
    /\ resolved' = Gone
    /\ asked' = asked \cup ({canceller} \ {NoRun})
    /\ UNCHANGED verdict

\* select! is biased: a resolved receiver wins over work that is done.
Raced == {"docker", "container", "scripts"}

CancelledSilently(d) ==
    /\ reached[d] \in Raced /\ d \in resolved
    /\ Go(d, "leave")
    /\ UNCHANGED <<canceller, resolved, verdict, asked>>

Cancelled(d) ==
    /\ reached[d] \in Raced /\ d \in resolved
    /\ Go(d, "leave") /\ Answer(d, "cancelled")
    /\ UNCHANGED <<canceller, resolved, asked>>

Onward(d, from, to) ==
    /\ reached[d] = from /\ (from \in Raced => d \notin resolved)
    /\ Go(d, to)
    /\ UNCHANGED <<canceller, resolved, verdict, asked>>

DockerAnswers(d) == Onward(d, "docker", "load")

\* The connection, the folder and the ledger, with clients of the pool: no
\* receiver is looked at meanwhile.
LoadScripts(d) == Onward(d, "load", "container")

ContainerStarts(d) == Onward(d, "container", "address")

\* Started again as often as its address stays unknown.
AddressRetried(d) == Onward(d, "address", "scripts") \/ Onward(d, "address", "container")

AddressKnown(d) == Onward(d, "address", "scripts")

\* No connection, no folder, a folder that cannot be read: `?`, and the sender
\* stays where it is.
LoadFails(d) ==
    /\ reached[d] = "load"
    /\ Go(d, "over") /\ Answer(d, "error")
    /\ UNCHANGED <<canceller, resolved, asked>>

\* Docker, the image, the container or its address.
WorkFails(d) ==
    /\ reached[d] \in {"docker", "container", "address"}
    /\ reached[d] \in Raced => d \notin resolved
    /\ Go(d, "leave") /\ Answer(d, "failed")
    /\ UNCHANGED <<canceller, resolved, asked>>

\* run_dryrun_against: the report says success or failure.
ScriptsEnd(d) ==
    /\ reached[d] = "scripts" /\ d \notin resolved
    /\ Go(d, "leave")
    /\ \E w \in {"ok", "failed"} : Answer(d, w)
    /\ UNCHANGED <<canceller, resolved, asked>>

\* unregister: removes the sender under the connection, whoever's it is.
Unregister(d) ==
    /\ reached[d] = "leave"
    /\ Go(d, "over")
    /\ canceller' = NoRun
    /\ resolved' = Gone
    /\ UNCHANGED <<verdict, asked>>

\* migrations_dryrun_cancel, when the dialog closes on a dry run in progress.
DryCancel ==
    /\ \E d \in DryRuns : reached[d] \notin {"idle", "over"}
    /\ canceller' = NoRun
    /\ resolved' = Gone
    /\ asked' = asked \cup ({canceller} \ {NoRun})
    /\ UNCHANGED <<reached, verdict>>

DryStep(d) ==
    \/ DockerAnswers(d) \/ LoadScripts(d) \/ ContainerStarts(d) \/ AddressKnown(d)
    \/ Cancelled(d) \/ LoadFails(d) \/ WorkFails(d) \/ ScriptsEnd(d) \/ Unregister(d)

DryNext == DryCancel \/ \E d \in DryRuns : Register(d) \/ DryStep(d)

DrySpec == DryInit /\ [][DryNext]_dryVars

\* Nothing in the code waits for another run; each await is answered.
DryFairness == \A d \in DryRuns : WF_dryVars(DryStep(d))

----------------------------------------------------------------------------
AtWork(d) == reached[d] \in {"docker", "load", "container", "address", "scripts"}

\* A dry run at work is the one a cancel reaches, or its receiver has resolved
\* already: none goes on out of the user's reach (dryrun.rs:277-281).
NoRunOutOfReach == \A d \in DryRuns : AtWork(d) => canceller = d \/ d \in resolved

\* What the comment of unregister promises, that the next dry run "starts
\* fresh" (dryrun.rs:319-320): a run is cancelled only when the user closed
\* it or began another one over it.
CancelledOnlyIfAsked == \A d \in DryRuns : verdict[d] = "cancelled" => d \in asked

\* Every dry run that begins answers, cancelled or not.
DryRunsEnd == \A d \in DryRuns : reached[d] = "docker" ~> reached[d] = "over"
=============================================================================
