----------------------------- MODULE ExplainRun -----------------------------
(***************************************************************************)
(* EXPLAIN of one editor tab, from the button to the session it runs in:   *)
(* the EXPLAIN tab shows the state of its last answer, the backend keeps   *)
(* the pid of the tab's run in explain_in_flight, and cancel reads that    *)
(* pid and signals the session through a second client of the pool.        *)
(*                                                                         *)
(* A pid is the client it belongs to.  A client also serves statements of  *)
(* others, and goes on with an EXPLAIN whose run has timed out; what is    *)
(* issued on it meanwhile begins when it is done.  Plans, options and      *)
(* error texts are left out.                                               *)
(*                                                                         *)
(* Source: src/features/editor/store.ts, src-tauri/src/query/commands.rs   *)
(* and explain.rs.                                                         *)
(***************************************************************************)
EXTENDS Naturals, FiniteSets

CONSTANTS
    Explains,   \* runs of the tab
    Pids,       \* clients of the pool
    Other,      \* a statement that is not an EXPLAIN of this tab
    NoPid

ASSUME ExplainAssumption == Other \notin Explains /\ NoPid \notin Explains \cup Pids

VARIABLES
    tabOpen,
    explainState,   \* status the tab shows, and the run that set it
    step,           \* how far each run is
    pidOf,          \* pid each run has captured
    serves,         \* what each client runs: a run, Other, or NoPid
    inserting,      \* runs whose spawned task has not stored the pid yet
    inFlightPid,    \* explain_in_flight[tab]
    cancelling,     \* cancels under way: "read" before they read the pid, then the pid
    late,           \* history: a pid was stored after its run had removed it
    wronged         \* history: a cancel hit a statement of others

explainVars == <<tabOpen, explainState, step, pidOf, serves, inserting, inFlightPid, cancelling, late, wronged>>
frontend == <<tabOpen, explainState>>

\* asking: in preflight.  ended: the statement is over.  answered: so is the command.
Steps == {"new", "asking", "sent", "running", "ended", "answered", "over"}

\* A client that serves a run is the run's, which captured it; a run that waits for its
\* statement has a client that runs it.
Served ==
    /\ \A p \in Pids : serves[p] \in Explains =>
          pidOf[serves[p]] = p /\ step[serves[p]] \in {"running", "ended", "answered", "over"}
    /\ \A r \in Explains : step[r] = "running" => pidOf[r] \in Pids /\ serves[pidOf[r]] = r

ExplainTypeOK ==
    /\ tabOpen \in BOOLEAN
    /\ explainState \in [status : {"none", "running", "ready", "error", "cancelled"}, by : Explains \cup {NoPid}]
    /\ step \in [Explains -> Steps] /\ pidOf \in [Explains -> Pids \cup {NoPid}]
    /\ serves \in [Pids -> Explains \cup {Other, NoPid}]
    /\ inserting \subseteq Explains /\ inFlightPid \in Pids \cup {NoPid}
    /\ cancelling \subseteq Pids \cup {"read"}
    /\ late \in BOOLEAN /\ wronged \in BOOLEAN
    /\ Served

Unset == [status |-> "none", by |-> NoPid]

ExplainInit ==
    /\ tabOpen = FALSE /\ explainState = Unset
    /\ step = [r \in Explains |-> "new"] /\ pidOf = [r \in Explains |-> NoPid]
    /\ serves = [p \in Pids |-> NoPid] /\ inserting = {} /\ inFlightPid = NoPid
    /\ cancelling = {} /\ late = FALSE /\ wronged = FALSE

Goes(r, s) == step' = [step EXCEPT ![r] = s]
Shows(status, r) == explainState' = [status |-> status, by |-> r]

----------------------------------------------------------------------------
(* The store.                                                              *)

\* runExplain: ANALYZE asks first, and shows what it showed until it is answered.  Without
\* a connection, or for a source tab that is closed, there is only an error.
RunExplain(r, analyze) ==
    /\ step[r] = "new"
    /\ tabOpen' = TRUE
    /\ \/ analyze /\ Goes(r, "asking") /\ UNCHANGED explainState
       \/ ~analyze /\ Goes(r, "sent") /\ Shows("running", r)
       \/ Goes(r, "over") /\ Shows("error", r)
    /\ UNCHANGED <<pidOf, serves, inserting, inFlightPid, cancelling, late, wronged>>

\* Nobody looks whether the tab is still open.
PreflightEnds(r) ==
    /\ step[r] = "asking"
    /\ \/ Goes(r, "sent") /\ Shows("running", r)
       \/ Goes(r, "over") /\ \E refusal \in {"error", "cancelled"} : Shows(refusal, r)
    /\ UNCHANGED <<tabOpen, pidOf, serves, inserting, inFlightPid, cancelling, late, wronged>>

\* MUTANT of AnswerLands: a failure is dropped, as that of a cancelled run would be.
AnswerDropped(r) ==
    /\ step[r] = "answered" /\ Goes(r, "over")
    /\ IF tabOpen THEN Shows("ready", r) \/ UNCHANGED explainState ELSE UNCHANGED explainState
    /\ UNCHANGED <<tabOpen, pidOf, serves, inserting, inFlightPid, cancelling, late, wronged>>

\* Only the tab is looked at: an answer overwrites a cancel, and a newer run.
AnswerLands(r) ==
    /\ step[r] = "answered" /\ Goes(r, "over")
    /\ IF tabOpen THEN Shows("ready", r) \/ Shows("error", r) ELSE UNCHANGED explainState
    /\ UNCHANGED <<tabOpen, pidOf, serves, inserting, inFlightPid, cancelling, late, wronged>>

CancelExplain ==
    /\ tabOpen /\ explainState.status = "running"
    /\ Shows("cancelled", NoPid)
    /\ cancelling' = cancelling \cup {"read"}
    /\ UNCHANGED <<tabOpen, step, pidOf, serves, inserting, inFlightPid, late, wronged>>

CloseExplain ==
    /\ tabOpen /\ tabOpen' = FALSE
    /\ explainState' = Unset
    /\ UNCHANGED <<step, pidOf, serves, inserting, inFlightPid, cancelling, late, wronged>>

----------------------------------------------------------------------------
(* query_explain and run_explain.                                          *)

\* The pid is stored by a task of its own; the run goes on.
CapturePid(r, p) ==
    /\ step[r] = "sent" /\ serves[p] = NoPid
    /\ serves' = [serves EXCEPT ![p] = r]
    /\ pidOf' = [pidOf EXCEPT ![r] = p]
    /\ inserting' = inserting \cup {r}
    /\ Goes(r, "running")
    /\ UNCHANGED <<frontend, inFlightPid, cancelling, late, wronged>>

\* No connection, which is answered at once, or no client.
NoClient(r) ==
    /\ step[r] = "sent" /\ \E s \in {"ended", "answered"} : Goes(r, s)
    /\ UNCHANGED <<frontend, pidOf, serves, inserting, inFlightPid, cancelling, late, wronged>>

InsertPid(r) ==
    /\ r \in inserting /\ inserting' = inserting \ {r}
    /\ inFlightPid' = pidOf[r]
    /\ late' = (late \/ step[r] \in {"answered", "over"})
    /\ UNCHANGED <<frontend, step, pidOf, serves, cancelling, wronged>>

\* The statement is over, with a plan or an error, and so is the session's work.
StatementEnds(r) ==
    /\ step[r] = "running" /\ Goes(r, "ended")
    /\ serves' = [serves EXCEPT ![pidOf[r]] = NoPid]
    /\ UNCHANGED <<frontend, pidOf, inserting, inFlightPid, cancelling, late, wronged>>

\* The run stops waiting, and its client is back in the pool; the session goes on.
TimesOut(r) ==
    /\ step[r] = "running" /\ Goes(r, "ended")
    /\ UNCHANGED <<frontend, pidOf, serves, inserting, inFlightPid, cancelling, late, wronged>>

\* A session is done with what nobody waits for.
SessionEnds(p) ==
    /\ serves[p] \in Explains /\ step[serves[p]] # "running"
    /\ serves' = [serves EXCEPT ![p] = NoPid]
    /\ UNCHANGED <<frontend, step, pidOf, inserting, inFlightPid, cancelling, late, wronged>>

\* MUTANT of RemovePid: a failed run returns before the removal.
RemoveIfItRan(r) ==
    /\ step[r] = "ended" /\ Goes(r, "answered")
    /\ inFlightPid' \in {NoPid, inFlightPid}
    /\ UNCHANGED <<frontend, pidOf, serves, inserting, cancelling, late, wronged>>

\* The tab's entry goes, even when it is that of another run.
RemovePid(r) ==
    /\ step[r] = "ended" /\ Goes(r, "answered")
    /\ inFlightPid' = NoPid
    /\ UNCHANGED <<frontend, pidOf, serves, inserting, cancelling, late, wronged>>

----------------------------------------------------------------------------
(* query_explain_cancel, and the others that use the pool.                 *)

CancelReads ==
    /\ "read" \in cancelling
    /\ cancelling' = (cancelling \ {"read"}) \cup ({inFlightPid} \ {NoPid})
    /\ UNCHANGED <<frontend, step, pidOf, serves, inserting, inFlightPid, late, wronged>>

\* MUTANT of CancelSignals: the run is not told.
CancelSignalsOnly(p) ==
    /\ p \in cancelling /\ cancelling' = cancelling \ {p}
    /\ \E q \in Pids : serves[q] = NoPid
    /\ wronged' = (wronged \/ serves[p] = Other)
    /\ serves' = [serves EXCEPT ![p] = NoPid]
    /\ UNCHANGED <<frontend, step, pidOf, inserting, inFlightPid, late>>

\* It waits for a client of the pool and signals the pid, whatever runs there by now.
CancelSignals(p) ==
    /\ p \in cancelling /\ cancelling' = cancelling \ {p}
    /\ \E q \in Pids : serves[q] = NoPid
    /\ wronged' = (wronged \/ serves[p] = Other)
    /\ serves' = [serves EXCEPT ![p] = NoPid]
    /\ IF serves[p] \in Explains /\ step[serves[p]] = "running" THEN Goes(serves[p], "ended")
       ELSE UNCHANGED step
    /\ UNCHANGED <<frontend, pidOf, inserting, inFlightPid, late>>

OtherStatement(p) ==
    /\ serves[p] \in {NoPid, Other}
    /\ serves' = [serves EXCEPT ![p] = IF serves[p] = Other THEN NoPid ELSE Other]
    /\ UNCHANGED <<frontend, step, pidOf, inserting, inFlightPid, cancelling, late, wronged>>

ExplainNext ==
    \/ \E r \in Explains, analyze \in BOOLEAN : RunExplain(r, analyze)
    \/ \E r \in Explains : PreflightEnds(r)
    \/ \E r \in Explains : AnswerLands(r)
    \/ CancelExplain
    \/ CloseExplain
    \/ \E r \in Explains, p \in Pids : CapturePid(r, p)
    \/ \E r \in Explains : NoClient(r)
    \/ \E r \in Explains : InsertPid(r)
    \/ \E r \in Explains : StatementEnds(r)
    \/ \E r \in Explains : TimesOut(r)
    \/ \E p \in Pids : SessionEnds(p)
    \/ \E r \in Explains : RemovePid(r)
    \/ CancelReads
    \/ \E p \in Pids : CancelSignals(p)
    \/ \E p \in Pids : OtherStatement(p)

ExplainSpec == ExplainInit /\ [][ExplainNext]_explainVars

----------------------------------------------------------------------------
(* Properties.                                                             *)

\* An open EXPLAIN tab that says running has a run that has yet to report, through
\* overlapping runs, preflights, cancels and closings.
SpinnerHasRun ==
    tabOpen /\ explainState.status = "running" => \E r \in Explains : step[r] \notin {"new", "over"}

\* The pid kept for the tab is that of a run that has not removed it: a cancel that
\* reads it can only mean an EXPLAIN of this tab.  The gap: a spawned insert that comes
\* after its run's removal.
PidIsOfARun ==
    inFlightPid = NoPid \/ late \/ \E r \in Explains : step[r] \in {"running", "ended"} /\ pidOf[r] = inFlightPid

\* query/commands.rs:206-207 says of cancel that it is a "No-op when the tab is already
\* finished", so no statement of others is ever cancelled by it.
CancelsOnlyItsExplain == ~wronged
=============================================================================
