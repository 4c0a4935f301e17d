----------------------------- MODULE PanelProofs -----------------------------
(***************************************************************************)
(* Proofs about five components that share no state: ExplainRun, for every *)
(* set of runs and clients, SchemaBrowser, for every set of connections    *)
(* and nodes, BackupJob, for any number of runs and cancels, Notebook, for *)
(* every set of texts and any number of saves, and NotebookCte, for any    *)
(* number of cells.                                                        *)
(*                                                                         *)
(* The EXPLAIN tab never spins over nothing, and the pid that a cancel     *)
(* reads is that of a run of the tab.  The fetch callers of the schema     *)
(* tree are told to wait for is under way, and the tree is that of the     *)
(* active connection.  A backup tool at work can be stopped.  A quiet      *)
(* notebook has one text.  Each but the fetch and the spinner holds apart  *)
(* from the gaps that its definition names.  A composed cell has what it   *)
(* uses, and cells in a circle are refused.  At the end the ten panels of  *)
(* MCPanels: each keeps its types beside the others.                       *)
(***************************************************************************)
EXTENDS MCPanels, ErdProofs, JsonbProofs, McpClientsProofs, TLAPS, SequenceTheorems

----------------------------------------------------------------------------
(* ExplainRun.                                                             *)

\* A pid is stored only for a run that captured one.
InsertersRan == \A r \in inserting : step[r] \in {"running", "ended", "answered", "over"}

ExplainInv == ExplainTypeOK /\ InsertersRan /\ SpinnerHasRun /\ PidIsOfARun

\* No run has begun.
LEMMA ExplainInitInv == ExplainInit => ExplainInv
<1> SUFFICES ASSUME ExplainInit PROVE ExplainInv
  OBVIOUS
<1>1. step \in [Explains -> Steps]
  BY DEF ExplainInit, Steps
<1>2. Served
  BY ExplainAssumption DEF ExplainInit, Served
<1>3. ExplainTypeOK
  BY <1>1, <1>2 DEF ExplainInit, ExplainTypeOK, Unset
<1> QED
  BY <1>3 DEF ExplainInit, ExplainInv, InsertersRan, SpinnerHasRun, PidIsOfARun

----------------------------------------------------------------------------
(* Steps of the store: they move runs that have no client, and the spinner. *)

\* One run moves from one point without a client to another.
MovesIdle(r) ==
    /\ r \in Explains
    /\ step[r] \in {"new", "asking", "sent", "answered"}
    /\ \E s \in {"asking", "sent", "ended", "answered", "over"} :
          /\ Goes(r, s)
          /\ step[r] = "answered" => s = "over"
    /\ UNCHANGED <<pidOf, serves, inserting, inFlightPid, late>>

\* It disturbs no client, no pid and no insert.
LEMMA IdleMoveKeeps ==
    ASSUME ExplainInv, NEW r \in Explains, MovesIdle(r)
    PROVE  step' \in [Explains -> Steps] /\ Served' /\ InsertersRan' /\ PidIsOfARun'
<1>1. PICK s \in {"asking", "sent", "ended", "answered", "over"} :
         /\ step' = [step EXCEPT ![r] = s]
         /\ step[r] = "answered" => s = "over"
  BY DEF MovesIdle, Goes
<1>2. /\ step \in [Explains -> Steps] /\ inserting \subseteq Explains
      /\ serves \in [Pids -> Explains \cup {Other, NoPid}] /\ Served
      /\ step[r] \in {"new", "asking", "sent", "answered"}
      /\ UNCHANGED <<pidOf, serves, inserting, inFlightPid, late>>
  BY DEF ExplainInv, ExplainTypeOK, MovesIdle
<1>3. step' \in [Explains -> Steps]
  BY <1>1, <1>2 DEF Steps
<1>4. \A e \in Explains \ {r} : step'[e] = step[e]
  BY <1>1, <1>2
<1>5. Served'
  BY <1>1, <1>2, <1>4 DEF Served
<1>6. InsertersRan'
  BY <1>1, <1>2, <1>4 DEF ExplainInv, InsertersRan
<1>7. PidIsOfARun'
  BY <1>2, <1>4 DEF ExplainInv, PidIsOfARun
<1> QED
  BY <1>3, <1>5, <1>6, <1>7

\* The button.
LEMMA RunStep ==
    ASSUME ExplainInv, NEW r \in Explains, NEW analyze \in BOOLEAN, RunExplain(r, analyze)
    PROVE  ExplainInv'
<1>1. MovesIdle(r)
  BY DEF RunExplain, MovesIdle
<1>2. /\ tabOpen' = TRUE /\ UNCHANGED <<cancelling, wronged>>
      /\ \/ step' = [step EXCEPT ![r] = "asking"] /\ explainState' = explainState
         \/ step' = [step EXCEPT ![r] = "sent"] /\ explainState' = [status |-> "running", by |-> r]
         \/ step' = [step EXCEPT ![r] = "over"] /\ explainState' = [status |-> "error", by |-> r]
  BY DEF RunExplain, Goes, Shows
<1>3. step'[r] \in {"asking", "sent"} \/ explainState'.status = "error"
  BY <1>2 DEF ExplainInv, ExplainTypeOK
<1>4. SpinnerHasRun'
  BY <1>3 DEF SpinnerHasRun
<1>5. ExplainTypeOK'
  BY <1>1, <1>2, IdleMoveKeeps DEF ExplainInv, ExplainTypeOK, MovesIdle
<1> QED
  BY <1>1, <1>4, <1>5, IdleMoveKeeps DEF ExplainInv

\* The preflight answers: the run goes on, or shows why it does not.
LEMMA PreflightStep ==
    ASSUME ExplainInv, NEW r \in Explains, PreflightEnds(r)
    PROVE  ExplainInv'
<1>1. MovesIdle(r)
  BY DEF PreflightEnds, MovesIdle
<1>2. /\ \/ /\ step' = [step EXCEPT ![r] = "sent"]
            /\ explainState' = [status |-> "running", by |-> r]
         \/ \E refusal \in {"error", "cancelled"} :
               explainState' = [status |-> refusal, by |-> r]
      /\ UNCHANGED <<tabOpen, cancelling, wronged>>
  BY DEF PreflightEnds, Goes, Shows
<1>3. SpinnerHasRun'
  BY <1>2 DEF SpinnerHasRun, ExplainInv, ExplainTypeOK
<1>4. ExplainTypeOK'
  BY <1>1, <1>2, IdleMoveKeeps DEF ExplainInv, ExplainTypeOK, MovesIdle
<1> QED
  BY <1>1, <1>3, <1>4, IdleMoveKeeps DEF ExplainInv

\* An answer stops the spinner of an open tab, whichever run set it.
LEMMA AnswerStep ==
    ASSUME ExplainInv, NEW r \in Explains, AnswerLands(r)
    PROVE  ExplainInv'
<1>1. MovesIdle(r)
  BY DEF AnswerLands, MovesIdle
<1>2. /\ \/ explainState' = [status |-> "ready", by |-> r]
         \/ explainState' = [status |-> "error", by |-> r]
         \/ ~tabOpen /\ explainState' = explainState
      /\ UNCHANGED <<tabOpen, cancelling, wronged>>
  BY DEF AnswerLands, Shows
<1>3. SpinnerHasRun'
  BY <1>2 DEF SpinnerHasRun
<1>4. ExplainTypeOK'
  BY <1>1, <1>2, IdleMoveKeeps DEF ExplainInv, ExplainTypeOK, MovesIdle
<1> QED
  BY <1>1, <1>3, <1>4, IdleMoveKeeps DEF ExplainInv

\* Cancel and close stop the spinner and touch no run.
LEMMA TabStep ==
    ASSUME ExplainInv, CancelExplain \/ CloseExplain
    PROVE  ExplainInv'
<1>1. /\ explainState' \in {[status |-> "cancelled", by |-> NoPid], Unset}
      /\ tabOpen' \in BOOLEAN /\ cancelling' \subseteq Pids \cup {"read"}
      /\ UNCHANGED <<step, pidOf, serves, inserting, inFlightPid, late, wronged>>
  BY DEF ExplainInv, ExplainTypeOK, CancelExplain, CloseExplain, Shows
<1>2. ExplainTypeOK'
  BY <1>1 DEF ExplainInv, ExplainTypeOK, Served, Unset
<1>3. InsertersRan' /\ SpinnerHasRun' /\ PidIsOfARun'
  BY <1>1 DEF ExplainInv, InsertersRan, SpinnerHasRun, PidIsOfARun, Unset
<1> QED
  BY <1>2, <1>3 DEF ExplainInv

----------------------------------------------------------------------------
(* Steps of the backend: the tab shows what it showed.                     *)

\* A run that gets no client moves as the store's steps do.
LEMMA NoClientStep ==
    ASSUME ExplainInv, NEW r \in Explains, NoClient(r)
    PROVE  ExplainInv'
<1>1. MovesIdle(r)
  BY DEF NoClient, MovesIdle
<1>2. /\ \E s \in {"ended", "answered"} : step' = [step EXCEPT ![r] = s]
      /\ UNCHANGED <<tabOpen, explainState, cancelling, wronged>>
  BY DEF NoClient, Goes, frontend
<1>3. step'[r] \in {"ended", "answered"} /\ \A e \in Explains \ {r} : step'[e] = step[e]
  BY <1>2 DEF ExplainInv, ExplainTypeOK
<1>4. SpinnerHasRun'
  BY <1>2, <1>3 DEF ExplainInv, SpinnerHasRun
<1>5. ExplainTypeOK'
  BY <1>1, <1>2, IdleMoveKeeps DEF ExplainInv, ExplainTypeOK, MovesIdle
<1> QED
  BY <1>1, <1>4, <1>5, IdleMoveKeeps DEF ExplainInv

\* A run and the client it captures name each other.
LEMMA CaptureStep ==
    ASSUME ExplainInv, NEW r \in Explains, NEW p \in Pids, CapturePid(r, p)
    PROVE  ExplainInv'
<1>1. /\ step[r] = "sent" /\ serves[p] = NoPid
      /\ step' = [step EXCEPT ![r] = "running"]
      /\ serves' = [serves EXCEPT ![p] = r] /\ pidOf' = [pidOf EXCEPT ![r] = p]
      /\ inserting' = inserting \cup {r}
      /\ UNCHANGED <<tabOpen, explainState, inFlightPid, cancelling, late, wronged>>
  BY DEF CapturePid, Goes, frontend
<1>2. /\ step'[r] = "running" /\ pidOf'[r] = p /\ serves'[p] = r
      /\ \A e \in Explains \ {r} : step'[e] = step[e] /\ pidOf'[e] = pidOf[e]
      /\ \A q \in Pids \ {p} : serves'[q] = serves[q] /\ serves[q] # r
  BY <1>1 DEF ExplainInv, ExplainTypeOK, Served
<1>3. ExplainTypeOK'
  <2>1. Served'
    <3>1. \A e \in Explains \ {r} : step[e] = "running" => pidOf[e] \in Pids \ {p} /\ serves[pidOf[e]] = e
      BY <1>1, ExplainAssumption DEF ExplainInv, ExplainTypeOK, Served
    <3> QED
      BY <1>1, <1>2, <3>1 DEF ExplainInv, ExplainTypeOK, Served
  <2> QED
    BY <1>1, <2>1 DEF ExplainInv, ExplainTypeOK, Steps
<1>4. InsertersRan' /\ SpinnerHasRun'
  BY <1>1, <1>2 DEF ExplainInv, ExplainTypeOK, InsertersRan, SpinnerHasRun
<1>5. PidIsOfARun'
  BY <1>1, <1>2 DEF ExplainInv, PidIsOfARun
<1> QED
  BY <1>3, <1>4, <1>5 DEF ExplainInv

\* The pid that is stored is that of a run not yet removed, or it is late.
LEMMA InsertStep ==
    ASSUME ExplainInv, NEW r \in Explains, InsertPid(r)
    PROVE  ExplainInv'
<1>1. /\ r \in inserting /\ inserting' = inserting \ {r}
      /\ inFlightPid' = pidOf[r]
      /\ late' = (late \/ step[r] \in {"answered", "over"})
      /\ UNCHANGED <<tabOpen, explainState, step, pidOf, serves, cancelling, wronged>>
  BY DEF InsertPid, frontend
<1>2. late' \in BOOLEAN /\ (step[r] \in {"answered", "over"} => late')
  BY <1>1
<1>3. ExplainTypeOK'
  BY <1>1, <1>2 DEF ExplainInv, ExplainTypeOK, Served
<1>4. step[r] \in {"running", "ended", "answered", "over"}
  BY <1>1 DEF ExplainInv, InsertersRan
<1>5. PidIsOfARun'
  BY <1>1, <1>2, <1>4 DEF PidIsOfARun
<1>6. InsertersRan' /\ SpinnerHasRun'
  BY <1>1 DEF ExplainInv, InsertersRan, SpinnerHasRun
<1> QED
  BY <1>3, <1>5, <1>6 DEF ExplainInv

\* A statement ends on its own or under a signal and its client is free, or its run
\* stops waiting for it.
LEMMA EndInv ==
    ASSUME ExplainInv, NEW r \in Explains, step[r] = "running",
           step' = [step EXCEPT ![r] = "ended"],
           serves' = [serves EXCEPT ![pidOf[r]] = NoPid] \/ serves' = serves,
           UNCHANGED <<tabOpen, explainState, pidOf, inserting, inFlightPid, late>>
    PROVE  /\ step' \in [Explains -> Steps]
           /\ serves' \in [Pids -> Explains \cup {Other, NoPid}]
           /\ Served' /\ InsertersRan' /\ SpinnerHasRun' /\ PidIsOfARun'
<1>1. /\ step'[r] = "ended" /\ \A e \in Explains \ {r} : step'[e] = step[e]
      /\ step' \in [Explains -> Steps]
  BY DEF ExplainInv, ExplainTypeOK, Steps
<1>2. /\ serves' \in [Pids -> Explains \cup {Other, NoPid}]
      /\ \A p \in Pids : serves'[p] = serves[p] \/ (p = pidOf[r] /\ serves'[p] = NoPid)
  BY DEF ExplainInv, ExplainTypeOK
<1>3. Served'
  <2>1. ASSUME NEW p \in Pids, serves'[p] \in Explains
        PROVE  /\ pidOf'[serves'[p]] = p
               /\ step'[serves'[p]] \in {"running", "ended", "answered", "over"}
    <3>1. serves'[p] = serves[p]
      BY <1>2, <2>1, ExplainAssumption
    <3> QED
      BY <1>1, <2>1, <3>1 DEF ExplainInv, ExplainTypeOK, Served
  <2>2. ASSUME NEW e \in Explains, step'[e] = "running"
        PROVE  pidOf'[e] \in Pids /\ serves'[pidOf'[e]] = e
    <3>1. e # r /\ step[e] = "running"
      BY <1>1, <2>2
    <3>2. pidOf[e] \in Pids /\ serves[pidOf[e]] = e /\ pidOf[r] \in Pids /\ serves[pidOf[r]] = r
      BY <3>1 DEF ExplainInv, ExplainTypeOK, Served
    <3> QED
      BY <1>2, <3>1, <3>2
  <2> QED
    BY <2>1, <2>2 DEF Served
<1>4. InsertersRan' /\ SpinnerHasRun'
  BY <1>1 DEF ExplainInv, ExplainTypeOK, InsertersRan, SpinnerHasRun
<1>5. PidIsOfARun'
  BY <1>1 DEF ExplainInv, PidIsOfARun
<1> QED
  BY <1>1, <1>2, <1>3, <1>4, <1>5

\* The end of the statement, and the timeout.
LEMMA EndStep ==
    ASSUME ExplainInv, NEW r \in Explains, StatementEnds(r) \/ TimesOut(r)
    PROVE  ExplainInv'
<1>1. /\ step[r] = "running"
      /\ step' = [step EXCEPT ![r] = "ended"]
      /\ serves' = [serves EXCEPT ![pidOf[r]] = NoPid] \/ serves' = serves
      /\ UNCHANGED <<tabOpen, explainState, pidOf, inserting, inFlightPid, cancelling, late,
                     wronged>>
  BY DEF StatementEnds, TimesOut, Goes, frontend
<1>2. /\ step' \in [Explains -> Steps]
      /\ serves' \in [Pids -> Explains \cup {Other, NoPid}]
      /\ Served' /\ InsertersRan' /\ SpinnerHasRun' /\ PidIsOfARun'
  BY <1>1, EndInv
<1> QED
  BY <1>1, <1>2 DEF ExplainInv, ExplainTypeOK

\* The run removes the tab's pid, and with it all there is to point at.
LEMMA RemoveStep ==
    ASSUME ExplainInv, NEW r \in Explains, RemovePid(r)
    PROVE  ExplainInv'
<1>1. /\ step[r] = "ended" /\ step' = [step EXCEPT ![r] = "answered"]
      /\ inFlightPid' = NoPid
      /\ UNCHANGED <<tabOpen, explainState, pidOf, serves, inserting, cancelling, late, wronged>>
  BY DEF RemovePid, Goes, frontend
<1>2. /\ step'[r] = "answered" /\ \A e \in Explains \ {r} : step'[e] = step[e]
      /\ step' \in [Explains -> Steps]
  BY <1>1 DEF ExplainInv, ExplainTypeOK, Steps
<1>3. ExplainTypeOK'
  BY <1>1, <1>2 DEF ExplainInv, ExplainTypeOK, Served
<1>4. InsertersRan' /\ SpinnerHasRun' /\ PidIsOfARun'
  BY <1>1, <1>2 DEF ExplainInv, ExplainTypeOK, InsertersRan, SpinnerHasRun, PidIsOfARun
<1> QED
  BY <1>3, <1>4 DEF ExplainInv

\* A cancel reads the pid, and what others do with a client, or a session with what timed
\* out, concerns no run that waits.
LEMMA PoolStep ==
    ASSUME ExplainInv, CancelReads \/ \E p \in Pids : OtherStatement(p) \/ SessionEnds(p)
    PROVE  ExplainInv'
<1>1. CASE CancelReads
  <2>1. /\ cancelling' = (cancelling \ {"read"}) \cup ({inFlightPid} \ {NoPid})
        /\ UNCHANGED <<tabOpen, explainState, step, pidOf, serves, inserting, inFlightPid, late,
                       wronged>>
    BY <1>1 DEF CancelReads, frontend
  <2>2. ExplainTypeOK'
    BY <2>1 DEF ExplainInv, ExplainTypeOK, Served
  <2> QED
    BY <2>1, <2>2 DEF ExplainInv, InsertersRan, SpinnerHasRun, PidIsOfARun
<1>2. ASSUME NEW p \in Pids, OtherStatement(p) \/ SessionEnds(p)
      PROVE  ExplainInv'
  <2>1. PICK v \in {NoPid, Other} : serves' = [serves EXCEPT ![p] = v]
    BY <1>2 DEF OtherStatement, SessionEnds
  <2>2. UNCHANGED <<tabOpen, explainState, step, pidOf, inserting, inFlightPid, cancelling, late,
                    wronged>>
    BY <1>2 DEF OtherStatement, SessionEnds, frontend
  <2>3. v \notin Explains
    BY ExplainAssumption
  <2>4. serves[p] \notin Explains \/ step[serves[p]] # "running"
    BY <1>2, ExplainAssumption DEF OtherStatement, SessionEnds
  <2>5. Served'
    <3>1. \A q \in Pids : serves'[q] = serves[q] \/ (q = p /\ serves'[q] = v)
      BY <2>1 DEF ExplainInv, ExplainTypeOK
    <3> QED
      BY <2>2, <2>3, <2>4, <3>1 DEF ExplainInv, ExplainTypeOK, Served
  <2>6. ExplainTypeOK'
    BY <2>1, <2>2, <2>5 DEF ExplainInv, ExplainTypeOK
  <2> QED
    BY <2>2, <2>6 DEF ExplainInv, InsertersRan, SpinnerHasRun, PidIsOfARun
<1> QED
  BY <1>1, <1>2

\* A signal ends the run it finds on the client, and whatever else it finds there.
LEMMA SignalStep ==
    ASSUME ExplainInv, NEW p \in Pids, CancelSignals(p)
    PROVE  ExplainInv'
<1>1. /\ cancelling' = cancelling \ {p}
      /\ wronged' = (wronged \/ serves[p] = Other)
      /\ serves' = [serves EXCEPT ![p] = NoPid]
      /\ UNCHANGED <<tabOpen, explainState, pidOf, inserting, inFlightPid, late>>
  BY DEF CancelSignals, frontend
<1>2. wronged' \in BOOLEAN
  BY <1>1
<1>3. CASE serves[p] \in Explains /\ step[serves[p]] = "running"
  <2> DEFINE r == serves[p]
  <2>1. r \in Explains /\ step[r] = "running" /\ pidOf[r] = p
    BY <1>3 DEF ExplainInv, ExplainTypeOK, Served
  <2>2. step' = [step EXCEPT ![r] = "ended"]
    BY <1>3 DEF CancelSignals, Goes
  <2>3. serves' = [serves EXCEPT ![pidOf[r]] = NoPid]
    BY <1>1, <2>1
  <2> HIDE DEF r
  <2>4. /\ step' \in [Explains -> Steps]
        /\ serves' \in [Pids -> Explains \cup {Other, NoPid}]
        /\ Served' /\ InsertersRan' /\ SpinnerHasRun' /\ PidIsOfARun'
    BY <1>1, <2>1, <2>2, <2>3, EndInv
  <2> QED
    BY <1>1, <1>2, <2>4 DEF ExplainInv, ExplainTypeOK
<1>4. CASE ~(serves[p] \in Explains /\ step[serves[p]] = "running")
  <2>1. UNCHANGED step
    BY <1>4 DEF CancelSignals
  <2>2. Served'
    <3>1. \A q \in Pids : serves'[q] = serves[q] \/ (q = p /\ serves'[q] = NoPid)
      BY <1>1 DEF ExplainInv, ExplainTypeOK
    <3> QED
      BY <1>1, <1>4, <2>1, <3>1, ExplainAssumption DEF ExplainInv, ExplainTypeOK, Served
  <2>3. ExplainTypeOK'
    BY <1>1, <1>2, <2>1, <2>2 DEF ExplainInv, ExplainTypeOK
  <2> QED
    BY <1>1, <2>1, <2>3 DEF ExplainInv, InsertersRan, SpinnerHasRun, PidIsOfARun
<1> QED
  BY <1>3, <1>4

----------------------------------------------------------------------------
(* The theorems.                                                           *)

\* The invariant holds in every reachable state.
THEOREM ExplainInvariance == ExplainSpec => []ExplainInv
<1>1. ExplainInv /\ [ExplainNext]_explainVars => ExplainInv'
  <2> SUFFICES ASSUME ExplainInv, [ExplainNext]_explainVars PROVE ExplainInv'
    OBVIOUS
  <2>1. CASE UNCHANGED explainVars
    BY <2>1 DEF explainVars, ExplainInv, ExplainTypeOK, Served, InsertersRan, SpinnerHasRun, PidIsOfARun
  <2>2. CASE ExplainNext
    BY <2>2, RunStep, PreflightStep, AnswerStep, TabStep, CaptureStep, NoClientStep, InsertStep,
       EndStep, RemoveStep, PoolStep, SignalStep DEF ExplainNext
  <2> QED
    BY <2>1, <2>2
<1> QED
  BY ExplainInitInv, <1>1, PTL DEF ExplainSpec

\* A spinner in an open EXPLAIN tab has a run that has yet to report.
THEOREM SpinnerIsHonest == ExplainSpec => []SpinnerHasRun
<1>1. ExplainInv => SpinnerHasRun
  BY DEF ExplainInv
<1> QED
  BY ExplainInvariance, <1>1, PTL

\* The pid a cancel reads is that of a run of the tab which has not removed it, unless
\* an insert came after its run's removal.
THEOREM PidIsHonest == ExplainSpec => []PidIsOfARun
<1>1. ExplainInv => PidIsOfARun
  BY DEF ExplainInv
<1> QED
  BY ExplainInvariance, <1>1, PTL

----------------------------------------------------------------------------
(* SchemaBrowser.                                                          *)

\* Until a connect lands over the fetches of another connection, the fetches under way
\* are those of the connection.
FetchesOfIt ==
    connection.status = "connected" =>
        /\ connection.id \in SchemaConns
        /\ ~crossed => \A n \in 1..MaxFetches : IsOut(n) => fetches[n].conn = connection.id

SchemaInv == SchemaTypeOK /\ FetchesOfIt /\ SharedFetchIsOut /\ TreeOfItsConnection

\* A fetch is told from a free place by its connection.
LEMMA FreeShape ==
    /\ \A f \in Fetch : f # Free /\ f.node \in Nodes /\ f.conn \in SchemaConns
    /\ \A node \in Nodes, c \in SchemaConns : [node |-> node, conn |-> c] \in Fetch
  BY SchemaAssumption DEF Fetch, Free

\* Nothing is loaded and nothing is under way.
LEMMA SchemaInitInv == SchemaInit => SchemaInv
<1> SUFFICES ASSUME SchemaInit PROVE SchemaInv
  OBVIOUS
<1>1. SchemaTypeOK
  <2>1. /\ tree \in [Nodes -> SchemaConns \cup {NoConn}]
        /\ inFlight \in [Nodes -> 0..MaxFetches]
        /\ fetches \in [1..MaxFetches -> Fetch \cup {Free}]
    BY SchemaAssumption DEF SchemaInit, Empty, Nobody
  <2> QED
    BY <2>1 DEF SchemaInit, SchemaTypeOK, Idle
<1>2. FetchesOfIt /\ TreeOfItsConnection
  BY DEF SchemaInit, FetchesOfIt, TreeOfItsConnection, Idle
<1>3. SharedFetchIsOut
  BY DEF SchemaInit, SharedFetchIsOut, Nobody
<1> QED
  BY <1>1, <1>2, <1>3 DEF SchemaInv

\* What a load does: nothing, or one more fetch of that connection, which callers of the
\* node then share.
LEMMA LoadInv ==
    ASSUME SchemaInv, NEW node \in Nodes, NEW cache, NEW c \in SchemaConns,
           LoadChildren(node, cache, inFlight, c)
    PROVE  /\ fetches' \in [1..MaxFetches -> Fetch \cup {Free}]
           /\ inFlight' \in [Nodes -> 0..MaxFetches]
           /\ SharedFetchIsOut'
           /\ \A n \in 1..MaxFetches : IsOut(n)' => \/ IsOut(n) /\ fetches'[n] = fetches[n]
                                                    \/ fetches'[n].conn = c
<1>1. CASE UNCHANGED <<fetches, inFlight>>
  BY <1>1 DEF SchemaInv, SchemaTypeOK, SharedFetchIsOut, IsOut
<1>2. CASE \E n \in 1..MaxFetches :
             /\ ~IsOut(n)
             /\ fetches' = [fetches EXCEPT ![n] = [node |-> node, conn |-> c]]
             /\ inFlight' = [inFlight EXCEPT ![node] = n]
  <2>1. PICK n \in 1..MaxFetches :
             /\ ~IsOut(n)
             /\ fetches' = [fetches EXCEPT ![n] = [node |-> node, conn |-> c]]
             /\ inFlight' = [inFlight EXCEPT ![node] = n]
    BY <1>2
  <2> DEFINE f == [node |-> node, conn |-> c]
  <2>2. f \in Fetch /\ f # Free /\ f.node = node /\ f.conn = c
    BY FreeShape
  <2>3. fetches' = [fetches EXCEPT ![n] = f]
    BY <2>1
  <2> HIDE DEF f
  <2>4. /\ fetches' \in [1..MaxFetches -> Fetch \cup {Free}]
        /\ inFlight' \in [Nodes -> 0..MaxFetches]
        /\ fetches'[n] = f /\ inFlight'[node] = n
        /\ \A m \in 1..MaxFetches : m # n => fetches'[m] = fetches[m]
        /\ \A other \in Nodes : other # node => inFlight'[other] = inFlight[other]
    BY <2>1, <2>2, <2>3, SchemaAssumption DEF SchemaInv, SchemaTypeOK
  <2>5. ASSUME NEW other \in Nodes, inFlight'[other] # 0
        PROVE  fetches'[inFlight'[other]] # Free /\ fetches'[inFlight'[other]].node = other
    <3>1. CASE other = node
      BY <2>2, <2>4, <3>1 DEF IsOut
    <3>2. CASE other # node
      <4>1. /\ inFlight'[other] = inFlight[other] /\ inFlight[other] \in 1..MaxFetches
            /\ IsOut(inFlight[other]) /\ fetches[inFlight[other]].node = other
        BY <2>4, <2>5, <3>2, SchemaAssumption DEF SchemaInv, SchemaTypeOK, SharedFetchIsOut
      <4> QED
        BY <2>1, <2>4, <4>1 DEF IsOut
    <3> QED
      BY <3>1, <3>2
  <2>6. SharedFetchIsOut'
    BY <2>5 DEF SharedFetchIsOut, IsOut
  <2>7. \A m \in 1..MaxFetches : IsOut(m)' => \/ IsOut(m) /\ fetches'[m] = fetches[m]
                                              \/ fetches'[m].conn = c
    BY <2>2, <2>4 DEF IsOut
  <2> QED
    BY <2>4, <2>6, <2>7
<1> QED
  BY <1>1, <1>2 DEF LoadChildren

\* Loads that the connection asks for itself.
LEMMA OwnLoadStep ==
    ASSUME SchemaInv, NEW node \in Nodes, Expand(node) \/ ReloadNext(node)
    PROVE  SchemaInv'
<1>1. CASE connection.status = "connected" /\ LoadChildren(node, tree, inFlight, connection.id)
  <2>1. connection.id \in SchemaConns
    BY <1>1 DEF SchemaInv, FetchesOfIt
  <2>2. /\ fetches' \in [1..MaxFetches -> Fetch \cup {Free}]
        /\ inFlight' \in [Nodes -> 0..MaxFetches]
        /\ SharedFetchIsOut'
        /\ \A n \in 1..MaxFetches : IsOut(n)' => \/ IsOut(n) /\ fetches'[n] = fetches[n]
                                                 \/ fetches'[n].conn = connection.id
    BY <1>1, <2>1, LoadInv
  <2>3. /\ UNCHANGED <<connection, tree, connecting, disconnecting, crossed>>
        /\ reload' \subseteq reload
    BY DEF Expand, ReloadNext
  <2>4. SchemaTypeOK'
    BY <2>2, <2>3 DEF SchemaInv, SchemaTypeOK
  <2>5. FetchesOfIt'
    BY <2>1, <2>2, <2>3 DEF SchemaInv, FetchesOfIt, IsOut
  <2>6. TreeOfItsConnection'
    BY <2>3 DEF SchemaInv, TreeOfItsConnection
  <2> QED
    BY <2>2, <2>4, <2>5, <2>6 DEF SchemaInv
<1>2. CASE UNCHANGED <<fetches, inFlight>> /\ ReloadNext(node)
  BY <1>2 DEF ReloadNext, SchemaInv, SchemaTypeOK, FetchesOfIt, SharedFetchIsOut,
              TreeOfItsConnection, IsOut
<1> QED
  BY <1>1, <1>2 DEF Expand, ReloadNext

\* A fetch that is over is shared by nobody.
LEMMA FetchOverInv ==
    ASSUME SchemaInv, NEW n \in 1..MaxFetches, IsOut(n),
           inFlight' = [inFlight EXCEPT ![fetches[n].node] = 0],
           fetches' = [fetches EXCEPT ![n] = Free],
           UNCHANGED <<connection, crossed>>
    PROVE  /\ fetches[n].node \in Nodes /\ fetches[n].conn \in SchemaConns
           /\ fetches' \in [1..MaxFetches -> Fetch \cup {Free}]
           /\ inFlight' \in [Nodes -> 0..MaxFetches]
           /\ SharedFetchIsOut' /\ FetchesOfIt'
<1>1. fetches[n] \in Fetch
  BY DEF SchemaInv, SchemaTypeOK, IsOut
<1>2. fetches[n].node \in Nodes /\ fetches[n].conn \in SchemaConns
  BY <1>1, FreeShape
<1>3. /\ fetches' \in [1..MaxFetches -> Fetch \cup {Free}]
      /\ inFlight' \in [Nodes -> 0..MaxFetches]
      /\ fetches'[n] = Free /\ inFlight'[fetches[n].node] = 0
      /\ \A m \in 1..MaxFetches : m # n => fetches'[m] = fetches[m]
      /\ \A node \in Nodes : node # fetches[n].node => inFlight'[node] = inFlight[node]
  BY <1>2, SchemaAssumption DEF SchemaInv, SchemaTypeOK
<1>4. SharedFetchIsOut'
  <2> SUFFICES ASSUME NEW node \in Nodes, inFlight'[node] # 0
               PROVE  fetches'[inFlight'[node]] # Free /\ fetches'[inFlight'[node]].node = node
    BY DEF SharedFetchIsOut, IsOut
  <2>1. node # fetches[n].node /\ inFlight'[node] = inFlight[node]
    BY <1>3
  <2>2. /\ inFlight[node] \in 1..MaxFetches /\ IsOut(inFlight[node])
        /\ fetches[inFlight[node]].node = node
    BY <2>1, SchemaAssumption DEF SchemaInv, SchemaTypeOK, SharedFetchIsOut
  <2> QED
    BY <1>3, <2>1, <2>2 DEF IsOut
<1>5. FetchesOfIt'
  BY <1>3 DEF SchemaInv, FetchesOfIt, IsOut
<1> QED
  BY <1>2, <1>3, <1>4, <1>5

\* A fetch lands or fails.
LEMMA FetchStep ==
    ASSUME SchemaInv, NEW n \in 1..MaxFetches, FetchLands(n) \/ FetchFails(n)
    PROVE  SchemaInv'
<1>1. /\ IsOut(n)
      /\ inFlight' = [inFlight EXCEPT ![fetches[n].node] = 0]
      /\ fetches' = [fetches EXCEPT ![n] = Free]
      /\ \/ tree' = [tree EXCEPT ![fetches[n].node] = fetches[n].conn]
         \/ tree' = tree
      /\ UNCHANGED <<connection, crossed, connecting, disconnecting, reload>>
  BY DEF FetchLands, FetchFails
<1>2. /\ fetches[n].node \in Nodes /\ fetches[n].conn \in SchemaConns
      /\ fetches' \in [1..MaxFetches -> Fetch \cup {Free}]
      /\ inFlight' \in [Nodes -> 0..MaxFetches]
      /\ SharedFetchIsOut' /\ FetchesOfIt'
  BY <1>1, FetchOverInv
<1>3. tree' \in [Nodes -> SchemaConns \cup {NoConn}]
  BY <1>1, <1>2 DEF SchemaInv, SchemaTypeOK
<1>4. SchemaTypeOK'
  BY <1>1, <1>2, <1>3 DEF SchemaInv, SchemaTypeOK
<1>5. TreeOfItsConnection'
  BY <1>1, <1>2 DEF SchemaInv, SchemaTypeOK, FetchesOfIt, TreeOfItsConnection
<1> QED
  BY <1>2, <1>4, <1>5 DEF SchemaInv

\* Steps that leave every fetch alone, and the tree as it is or empty.
LEMMA ConnectionStep ==
    ASSUME SchemaInv,
           \/ RefreshAll \/ Disconnect
           \/ \E c \in SchemaConns : Connect(c) \/ ConnectFails(c) \/ DisconnectLands(c)
    PROVE  SchemaInv'
<1>1. /\ UNCHANGED <<fetches, crossed>>
      /\ tree' = tree \/ tree' = Empty
      /\ inFlight' = inFlight \/ inFlight' = Nobody
      /\ \/ connection' = connection
         \/ connection'.status # "connected"
  BY DEF RefreshAll, Disconnect, Connect, ConnectFails, DisconnectLands, Idle
<1>2. connection.status = "connected" => connection.id \in SchemaConns
  BY DEF SchemaInv, FetchesOfIt
<1>3. SchemaTypeOK'
  <2>1. /\ tree' \in [Nodes -> SchemaConns \cup {NoConn}]
        /\ inFlight' \in [Nodes -> 0..MaxFetches]
    BY <1>1, SchemaAssumption DEF SchemaInv, SchemaTypeOK, Empty, Nobody
  <2>2. connection' \in [status : {"idle", "connecting", "connected", "error"},
                         id : SchemaConns \cup {NoConn}]
    BY DEF SchemaInv, SchemaTypeOK, RefreshAll, Disconnect, Connect, ConnectFails, DisconnectLands, Idle
  <2>3. connecting' \subseteq SchemaConns /\ disconnecting' \subseteq SchemaConns
    BY <1>2 DEF SchemaInv, SchemaTypeOK, RefreshAll, Disconnect, Connect, ConnectFails, DisconnectLands
  <2>4. reload' \subseteq Nodes
    BY DEF SchemaInv, SchemaTypeOK, RefreshAll, Disconnect, Connect, ConnectFails, DisconnectLands
  <2> QED
    BY <1>1, <2>1, <2>2, <2>3, <2>4 DEF SchemaInv, SchemaTypeOK
<1>4. FetchesOfIt'
  BY <1>1 DEF SchemaInv, FetchesOfIt, IsOut
<1>5. SharedFetchIsOut'
  BY <1>1 DEF SchemaInv, SharedFetchIsOut, IsOut, Nobody
<1>6. TreeOfItsConnection'
  BY <1>1 DEF SchemaInv, TreeOfItsConnection, Empty
<1> QED
  BY <1>3, <1>4, <1>5, <1>6 DEF SchemaInv

\* A connect that lands empties the tree and loads the root of its connection.
LEMMA ConnectLandsStep ==
    ASSUME SchemaInv, NEW c \in SchemaConns, ConnectLands(c)
    PROVE  SchemaInv'
<1>1. /\ connecting' = connecting \ {c}
      /\ connection' = [status |-> "connected", id |-> c]
      /\ tree' = Empty
      /\ LoadChildren(Root, Empty, inFlight, c)
      /\ crossed' = (crossed \/ \E n \in 1..MaxFetches : IsOut(n) /\ fetches[n].conn # c)
      /\ UNCHANGED <<disconnecting, reload>>
  BY DEF ConnectLands
<1>2. /\ fetches' \in [1..MaxFetches -> Fetch \cup {Free}]
      /\ inFlight' \in [Nodes -> 0..MaxFetches]
      /\ SharedFetchIsOut'
      /\ \A n \in 1..MaxFetches : IsOut(n)' => \/ IsOut(n) /\ fetches'[n] = fetches[n]
                                               \/ fetches'[n].conn = c
  BY <1>1, LoadInv, SchemaAssumption
<1>3. /\ crossed' \in BOOLEAN
      /\ ~crossed' => \A n \in 1..MaxFetches : IsOut(n) => fetches[n].conn = c
  BY <1>1 DEF SchemaInv, SchemaTypeOK
<1>4. SchemaTypeOK'
  BY <1>1, <1>2, <1>3 DEF SchemaInv, SchemaTypeOK, Empty
<1>5. FetchesOfIt'
  BY <1>1, <1>2, <1>3 DEF FetchesOfIt, IsOut
<1>6. TreeOfItsConnection'
  BY <1>1 DEF TreeOfItsConnection, Empty
<1> QED
  BY <1>2, <1>4, <1>5, <1>6 DEF SchemaInv

----------------------------------------------------------------------------
(* The theorems.                                                           *)

\* The invariant holds in every reachable state.
THEOREM SchemaInvariance == SchemaSpec => []SchemaInv
<1>1. SchemaInv /\ [SchemaNext]_schemaVars => SchemaInv'
  <2> SUFFICES ASSUME SchemaInv, [SchemaNext]_schemaVars PROVE SchemaInv'
    OBVIOUS
  <2>1. CASE UNCHANGED schemaVars
    BY <2>1 DEF schemaVars, SchemaInv, SchemaTypeOK, FetchesOfIt, SharedFetchIsOut,
                TreeOfItsConnection, IsOut
  <2>2. CASE SchemaNext
    BY <2>2, OwnLoadStep, FetchStep, ConnectionStep, ConnectLandsStep DEF SchemaNext
  <2> QED
    BY <2>1, <2>2
<1> QED
  BY SchemaInitInv, <1>1, PTL DEF SchemaSpec

\* A fetch that callers share is under way for their node.
THEOREM SharedIsOut == SchemaSpec => []SharedFetchIsOut
<1>1. SchemaInv => SharedFetchIsOut
  BY DEF SchemaInv
<1> QED
  BY SchemaInvariance, <1>1, PTL

\* The tree shows the active connection, unless a fetch of another one was out when a
\* connect landed.
THEOREM TreeIsOfConnection == SchemaSpec => []TreeOfItsConnection
<1>1. SchemaInv => TreeOfItsConnection
  BY DEF SchemaInv
<1> QED
  BY SchemaInvariance, <1>1, PTL

----------------------------------------------------------------------------
(* BackupJob.                                                              *)

\* Run r has ended, or its receiver has an answer.
Stopped(r) == stage[r] = "over" \/ (stage[r] \in {"streaming", "waiting", "leaving"} /\ r \in signalled)

\* What holds while the wizard is open and no gap was met: earlier runs are stopped, and so
\* is every run once the job is not shown as running; the sender is that of the last run or of one that is over; a
\* cancel that was heard has stopped its run, unless a later one was begun.
NoGapMet ==
    /\ \A r \in JobRuns : Started(r) /\ (IsOld(r) \/ jobStatus # "running") => Stopped(r)
    /\ sender # 0 => ~IsOld(sender) \/ stage[sender] = "over"
    /\ \A x \in 1..MaxCancels : cancels[x].at = "heard" => IsOld(cancels[x].for) \/ Stopped(cancels[x].for)

\* The sender under the job id is that of a run nobody has sent to, and a tool without one is
\* being stopped.
SenderOk ==
    /\ sender # 0 => sender \in JobRuns /\ stage[sender] \in {"streaming", "waiting", "leaving", "over"} /\ sender \notin signalled
    /\ \A r \in signalled : stage[r] \in {"streaming", "waiting", "leaving", "over"}
    /\ \A r \in JobRuns : stage[r] = "streaming" /\ r \notin signalled => sender = r

BackupInv ==
    /\ BackupTypeOK /\ SenderOk
    /\ \A r \in events \cup replies : stage[r] = "over"
    /\ \A x \in 1..MaxCancels : cancels[x].at \in {"sent", "heard"} =>
          cancels[x].for \in JobRuns /\ Started(cancels[x].for)
    /\ \A r, s \in JobRuns : r < s /\ Started(s) => Started(r)
    /\ jobStatus # "closed" /\ ~missed /\ ~overtaken => NoGapMet

\* Two runs that were begun and are not old are one.
LEMMA OneLastRun ==
    ASSUME NEW r \in JobRuns, NEW s \in JobRuns, Started(r), Started(s), ~IsOld(r), ~IsOld(s)
    PROVE  r = s
<1>1. r \in Nat /\ s \in Nat
  BY BackupAssumption DEF BackupAssumption, JobRuns
<1>2. ~(s > r) /\ ~(r > s)
  BY DEF IsOld
<1> QED
  BY <1>1, <1>2

\* No run has begun.
LEMMA BackupInitInv == BackupInit => BackupInv
<1> SUFFICES ASSUME BackupInit PROVE BackupInv
  OBVIOUS
<1>1. 0 \in 0..MaxJobRuns /\ 0 \notin JobRuns
  BY BackupAssumption DEF BackupAssumption, JobRuns
<1>2. BackupTypeOK
  BY <1>1 DEF BackupInit, BackupTypeOK
<1> QED
  BY <1>2 DEF BackupInit, BackupInv, NoGapMet, SenderOk, Started

\* The Run button: what was begun before is stopped.
LEMMA PressRunStep ==
    ASSUME BackupInv, NEW r \in JobRuns, PressRun(r)
    PROVE  BackupInv'
<1>1. /\ jobStatus \notin {"running", "closed"} /\ ~Started(r) /\ \A s \in JobRuns : s < r => Started(s)
      /\ stage' = [stage EXCEPT ![r] = "called"] /\ jobStatus' = "running" /\ stage[r] = "unused"
      /\ UNCHANGED <<signalled, sender, outcome, events, replies, cancels, missed, overtaken>>
  BY DEF PressRun, Started
<1>2. /\ stage'[r] = "called" /\ \A s \in JobRuns \ {r} : stage'[s] = stage[s]
      /\ \A s \in JobRuns : Started(s)' <=> Started(s) \/ s = r
  BY <1>1 DEF BackupInv, BackupTypeOK, Started
<1>3. BackupTypeOK'
  BY <1>1 DEF BackupInv, BackupTypeOK
<1>4. \A n \in JobRuns : n \in Nat
  BY BackupAssumption DEF BackupAssumption, JobRuns
<1>5. \A s \in JobRuns : s > r => ~Started(s)
  BY <1>1, <1>4 DEF BackupInv
<1>6. ASSUME ~missed, ~overtaken PROVE NoGapMet'
  <2>1. NoGapMet
    BY <1>1, <1>6 DEF BackupInv
  <2>2. \A s \in JobRuns : Started(s) => Stopped(s) /\ Stopped(s)' /\ s # r
    BY <1>1, <1>2, <2>1 DEF NoGapMet, Stopped
  <2>3. \A s \in JobRuns : IsOld(s)' => Started(s)
    BY <1>1, <1>2, <1>4, <1>5 DEF IsOld, BackupInv
  <2>4. sender # 0 => stage'[sender'] = "over"
    BY <1>1, <1>2, <2>1, <2>2 DEF BackupInv, SenderOk, Stopped, Started
  <2>5. \A s \in JobRuns : Started(s)' /\ (IsOld(s)' \/ jobStatus' # "running") => Stopped(s)'
    BY <1>1, <2>2, <2>3
  <2>6. ASSUME NEW x \in 1..MaxCancels, cancels[x].at = "heard" PROVE Stopped(cancels[x].for)'
    <3>1. PICK n \in JobRuns : n = cancels[x].for /\ n = cancels'[x].for /\ Started(n)
      BY <1>1, <2>6 DEF BackupInv
    <3> QED
      BY <2>2, <3>1 DEF Stopped
  <2> QED
    BY <1>1, <2>4, <2>5, <2>6 DEF NoGapMet, Stopped
<1>7. \A q \in events' \cup replies' : stage'[q] = "over"
  BY <1>1, <1>2 DEF BackupInv, BackupTypeOK
<1>8. \A x \in 1..MaxCancels : cancels'[x].at \in {"sent", "heard"} =>
          cancels'[x].for \in JobRuns /\ Started(cancels[x].for)'
  BY <1>1, <1>2 DEF BackupInv, Started
<1>9. SenderOk'
  BY <1>1, <1>2 DEF BackupInv, SenderOk
<1>10. \A s, q \in JobRuns : s < q /\ Started(q)' => Started(s)'
  BY <1>1, <1>2 DEF BackupInv
<1> QED
  BY <1>1, <1>3, <1>6, <1>7, <1>8, <1>9, <1>10 DEF BackupInv

\* A step that begins no run, and after which what was stopped is stopped.
LEMMA NoRunBegun ==
    ASSUME BackupInv, BackupTypeOK', \A r \in JobRuns : Started(r)' <=> Started(r),
           \A r \in JobRuns : stage[r] = "over" => stage'[r] = "over",
           \A r \in JobRuns : Stopped(r) => Stopped(r)',
           \A r \in (events' \cup replies') \ (events \cup replies) : stage'[r] = "over",
           \A x \in 1..MaxCancels : cancels'[x].at \in {"sent", "heard"} =>
               \/ cancels'[x] = cancels[x]
               \/ cancels'[x].for \in JobRuns /\ Started(cancels'[x].for),
           SenderOk', missed => missed', overtaken => overtaken', jobStatus = "closed" => jobStatus' = "closed",
           jobStatus' # "closed" /\ ~missed' /\ ~overtaken' /\ NoGapMet =>
               /\ jobStatus' # jobStatus => \A r \in JobRuns : Started(r) /\ ~IsOld(r) => Stopped(r)'
               /\ sender' # 0 => ~IsOld(sender') \/ stage'[sender'] = "over"
               /\ \A x \in 1..MaxCancels : \A n \in JobRuns :
                     cancels'[x] # cancels[x] /\ cancels'[x].at = "heard" /\ cancels'[x].for = n =>
                         IsOld(n) \/ Stopped(n)'
    PROVE  BackupInv'
<1>1. \A n : IsOld(n)' <=> IsOld(n)
  BY DEF IsOld
<1>2. \A r \in events' \cup replies' : stage'[r] = "over"
  BY DEF BackupInv, BackupTypeOK
<1>3. \A x \in 1..MaxCancels : cancels'[x].at \in {"sent", "heard"} =>
          cancels'[x].for \in JobRuns /\ Started(cancels[x].for)'
  BY DEF BackupInv, Started
<1>4. \A s, q \in JobRuns : s < q /\ Started(q)' => Started(s)'
  BY DEF BackupInv
<1>5. ASSUME jobStatus' # "closed", ~missed', ~overtaken' PROVE NoGapMet'
  <2>1. NoGapMet
    BY <1>5 DEF BackupInv
  <2>2. \A r \in JobRuns : Started(r)' /\ (IsOld(r)' \/ jobStatus' # "running") => Stopped(r)'
    BY <1>1, <1>5, <2>1 DEF NoGapMet
  <2>3. sender' # 0 => ~IsOld(sender)' \/ stage'[sender'] = "over"
    BY <1>5, <2>1 DEF IsOld, Started
  <2>4. \A x \in 1..MaxCancels : cancels'[x].at = "heard" => IsOld(cancels[x].for)' \/ Stopped(cancels[x].for)'
    <3> SUFFICES ASSUME NEW x \in 1..MaxCancels, cancels'[x].at = "heard"
                 PROVE  IsOld(cancels[x].for)' \/ Stopped(cancels[x].for)'
      OBVIOUS
    <3>1. PICK n \in JobRuns : n = cancels'[x].for
      BY <1>3
    <3>2. cancels'[x] = cancels[x] => IsOld(n) \/ Stopped(n)
      BY <2>1, <3>1 DEF NoGapMet
    <3>3. cancels'[x] # cancels[x] => IsOld(n) \/ Stopped(n)'
      BY <1>5, <2>1, <3>1
    <3>4. IsOld(n)' \/ Stopped(n)'
      BY <1>1, <3>2, <3>3
    <3> QED
      BY <3>1, <3>4 DEF IsOld, Stopped, Started
  <2> QED
    BY <2>2, <2>3, <2>4 DEF NoGapMet
<1> QED
  BY <1>2, <1>3, <1>4, <1>5 DEF BackupInv

\* A run goes from one stage to another, with nothing stopped set going again.
LEMMA RunGoes ==
    ASSUME BackupInv, NEW r \in JobRuns, NEW s \in {"called", "spawned", "streaming", "waiting", "leaving", "over"},
           stage' = [stage EXCEPT ![r] = s], stage[r] \notin {"unused", "over"},
           Stopped(r) => s \in {"leaving", "over"}, signalled \subseteq signalled'
    PROVE  /\ stage'[r] = s /\ \A q \in JobRuns \ {r} : stage'[q] = stage[q]
           /\ stage' \in [JobRuns -> {"unused", "called", "spawned", "streaming", "waiting", "leaving", "over"}]
           /\ \A q \in JobRuns : Started(q)' <=> Started(q)
           /\ \A q \in JobRuns : stage[q] = "over" => stage'[q] = "over"
           /\ \A q \in JobRuns : Stopped(q) => Stopped(q)'
<1>1. /\ stage'[r] = s /\ \A q \in JobRuns \ {r} : stage'[q] = stage[q]
      /\ stage' \in [JobRuns -> {"unused", "called", "spawned", "streaming", "waiting", "leaving", "over"}]
  BY DEF BackupInv, BackupTypeOK
<1> QED
  BY <1>1 DEF Started, Stopped

\* Cancel is pressed; it reaches no run yet.
LEMMA PressCancelStep ==
    ASSUME BackupInv, NEW x \in 1..MaxCancels, NEW r \in JobRuns, PressCancel(x, r)
    PROVE  BackupInv'
<1>1. /\ Started(r) /\ cancels' = [cancels EXCEPT ![x] = [at |-> "sent", for |-> r]]
      /\ UNCHANGED <<stage, signalled, sender, outcome, events, replies, jobStatus, missed, overtaken>>
  BY DEF PressCancel
<1>2. r \in 0..MaxJobRuns
  BY BackupAssumption DEF BackupAssumption, JobRuns
<1>3. BackupTypeOK' /\ cancels'[x] = [at |-> "sent", for |-> r]
      /\ \A y \in (1..MaxCancels) \ {x} : cancels'[y] = cancels[y]
  BY <1>1, <1>2 DEF BackupInv, BackupTypeOK
<1>4. \A q \in JobRuns : Stopped(q) => Stopped(q)'
  BY <1>1 DEF Stopped
<1>5. \A q \in JobRuns : Started(q)' <=> Started(q)
  BY <1>1 DEF Started
<1>6. SenderOk'
  BY <1>1 DEF BackupInv, BackupTypeOK, SenderOk
<1>7. NoGapMet => (sender' # 0 => ~IsOld(sender') \/ stage'[sender'] = "over")
  BY <1>1 DEF NoGapMet
<1> QED
  BY <1>1, <1>3, <1>4, <1>5, <1>6, <1>7, NoRunBegun

\* What an answer shows: the run it belongs to is over or old.
LEMMA ShownStep ==
    ASSUME BackupInv, \/ \E x \in 1..MaxCancels : CancelAnswered(x)
                      \/ \E r \in JobRuns : DoneLands(r) \/ ReplyLands(r)
                      \/ CloseWizard
    PROVE  BackupInv'
<1>1. /\ UNCHANGED <<stage, signalled, sender, outcome, missed>>
      /\ events' \subseteq events /\ replies' \subseteq replies
      /\ \A x \in 1..MaxCancels : cancels'[x] = cancels[x] \/ cancels'[x].at = "over"
      /\ cancels' \in [1..MaxCancels -> [at : {"unused", "sent", "heard", "over"}, for : 0..MaxJobRuns]]
      /\ jobStatus' \in {"idle", "running", "done", "failed", "cancelled", "closed"}
      /\ overtaken' \in BOOLEAN /\ (overtaken => overtaken')
      /\ (jobStatus = "closed" => jobStatus' = "closed")
  <2>1. CASE \E x \in 1..MaxCancels : CancelAnswered(x)
    <3>1. PICK x \in 1..MaxCancels :
             /\ cancels' = [cancels EXCEPT ![x] = [at |-> "over", for |-> 0]]
             /\ UNCHANGED <<stage, signalled, sender, outcome, events, replies, missed>>
             /\ \/ UNCHANGED <<jobStatus, overtaken>>
                \/ /\ jobStatus # "closed" /\ jobStatus' = "cancelled"
                   /\ overtaken' = (overtaken \/ IsOld(cancels[x].for))
      BY <2>1 DEF CancelAnswered
    <3>2. overtaken' \in BOOLEAN /\ (overtaken => overtaken')
      BY <3>1 DEF BackupInv, BackupTypeOK
    <3>3. 0 \in 0..MaxJobRuns
      BY BackupAssumption DEF BackupAssumption
    <3>4. /\ \A y \in 1..MaxCancels : cancels'[y] = cancels[y] \/ cancels'[y].at = "over"
          /\ cancels' \in [1..MaxCancels -> [at : {"unused", "sent", "heard", "over"}, for : 0..MaxJobRuns]]
      BY <3>1, <3>3 DEF BackupInv, BackupTypeOK
    <3> QED
      BY <3>1, <3>2, <3>4 DEF BackupInv, BackupTypeOK
  <2>2. CASE \E r \in JobRuns : DoneLands(r) \/ ReplyLands(r)
    BY <2>2 DEF DoneLands, ReplyLands, BackupInv, BackupTypeOK
  <2>3. CASE CloseWizard
    BY <2>3 DEF CloseWizard, BackupInv, BackupTypeOK
  <2> QED
    BY <2>1, <2>2, <2>3
<1>2. BackupTypeOK'
  BY <1>1 DEF BackupInv, BackupTypeOK
<1>3. \A q \in JobRuns : (Stopped(q) => Stopped(q)') /\ (Started(q)' <=> Started(q))
  BY <1>1 DEF Stopped, Started
<1>4. ASSUME jobStatus' # "closed", ~missed', ~overtaken', NoGapMet, jobStatus' # jobStatus
      PROVE  \A q \in JobRuns : Started(q) /\ ~IsOld(q) => Stopped(q)
  <2>1. PICK n \in JobRuns : Started(n) /\ (IsOld(n) => overtaken') /\ (IsOld(n) \/ Stopped(n))
    <3>1. ASSUME NEW x \in 1..MaxCancels, CancelAnswered(x)
          PROVE  \E n \in JobRuns : Started(n) /\ (IsOld(n) => overtaken') /\ (IsOld(n) \/ Stopped(n))
      <4>1. cancels[x].at = "heard" /\ overtaken' = (overtaken \/ IsOld(cancels[x].for))
        BY <1>4, <3>1 DEF CancelAnswered
      <4> QED
        BY <1>4, <4>1 DEF BackupInv, NoGapMet
    <3>2. ASSUME NEW r \in JobRuns, DoneLands(r) \/ ReplyLands(r)
          PROVE  \E n \in JobRuns : Started(n) /\ (IsOld(n) => overtaken') /\ (IsOld(n) \/ Stopped(n))
      <4>1. r \in events \cup replies /\ overtaken' = (overtaken \/ IsOld(r))
        BY <1>4, <3>2 DEF DoneLands, ReplyLands
      <4>2. stage[r] = "over"
        BY <4>1 DEF BackupInv
      <4> QED
        BY <4>1, <4>2 DEF Started, Stopped
    <3> QED
      BY <1>4, <3>1, <3>2 DEF CloseWizard
  <2> QED
    BY <1>4, <2>1, OneLastRun
<1>5. SenderOk'
  BY <1>1 DEF BackupInv, BackupTypeOK, SenderOk
<1>6. NoGapMet => (sender' # 0 => ~IsOld(sender') \/ stage'[sender'] = "over")
  BY <1>1 DEF NoGapMet
<1>7. \A x \in 1..MaxCancels : cancels'[x] # cancels[x] => cancels'[x].at = "over"
  BY <1>1
<1> QED
  BY <1>1, <1>2, <1>3, <1>4, <1>5, <1>6, <1>7, NoRunBegun

\* The backend's steps on a run that has no sender yet, or whose tool has ended.
LEMMA ToolStep ==
    ASSUME BackupInv, NEW r \in JobRuns,
           NotSpawned(r) \/ SpawnTool(r) \/ KillTool(r) \/ StreamEnds(r) \/ WaitFails(r) \/ \E result \in {"ok", "failed"} : ToolExits(r, result)
    PROVE  BackupInv'
<1>1. PICK s \in {"spawned", "waiting", "leaving", "over"} :
         /\ stage' = [stage EXCEPT ![r] = s]
         /\ \/ stage[r] = "called" /\ s \in {"spawned", "over"}
            \/ stage[r] = "streaming" /\ (s = "leaving" \/ (s = "waiting" /\ r \notin signalled))
            \/ stage[r] = "waiting" /\ s \in {"leaving", "over"}
         /\ replies' = IF s = "over" THEN replies \cup {r} ELSE replies
  <2>1. CASE NotSpawned(r)
    BY <2>1 DEF NotSpawned
  <2>2. CASE SpawnTool(r)
    BY <2>2 DEF SpawnTool
  <2>3. CASE KillTool(r) \/ \E result \in {"ok", "failed"} : ToolExits(r, result)
    BY <2>3 DEF KillTool, ToolExits
  <2>4. CASE StreamEnds(r) \/ WaitFails(r)
    BY <2>4 DEF StreamEnds, WaitFails
  <2> QED
    BY <2>1, <2>2, <2>3, <2>4
<1>2. /\ UNCHANGED <<signalled, sender, events, cancels, jobStatus, missed, overtaken>>
      /\ outcome' \in [JobRuns -> {"none", "ok", "failed"}]
  BY DEF NotSpawned, SpawnTool, KillTool, StreamEnds, WaitFails, ToolExits, BackupInv, BackupTypeOK
<1>3. /\ stage'[r] = s /\ \A q \in JobRuns \ {r} : stage'[q] = stage[q]
      /\ stage' \in [JobRuns -> {"unused", "called", "spawned", "streaming", "waiting", "leaving", "over"}]
      /\ \A q \in JobRuns : Started(q)' <=> Started(q)
      /\ \A q \in JobRuns : stage[q] = "over" => stage'[q] = "over"
      /\ \A q \in JobRuns : Stopped(q) => Stopped(q)'
  BY <1>1, <1>2, RunGoes DEF Stopped
<1>4. BackupTypeOK'
  BY <1>1, <1>2, <1>3 DEF BackupInv, BackupTypeOK
<1>5. SenderOk'
  BY <1>1, <1>2, <1>3 DEF BackupInv, BackupTypeOK, SenderOk
<1>6. NoGapMet => (sender' # 0 => ~IsOld(sender') \/ stage'[sender'] = "over")
  BY <1>1, <1>2, <1>3 DEF NoGapMet
<1>7. \A q \in (events' \cup replies') \ (events \cup replies) : stage'[q] = "over"
  BY <1>1, <1>2, <1>3
<1> QED
  BY <1>2, <1>3, <1>4, <1>5, <1>6, <1>7, NoRunBegun

\* A sender goes under the job id: the one that was there is sent to.
LEMMA RegisterStep ==
    ASSUME BackupInv, NEW r \in JobRuns, Register(r)
    PROVE  BackupInv'
<1>1. /\ stage[r] = "spawned" /\ stage' = [stage EXCEPT ![r] = "streaming"]
      /\ sender' = r /\ signalled' = signalled \cup ({sender} \ {0})
      /\ UNCHANGED <<outcome, events, replies, cancels, jobStatus, missed, overtaken>>
  BY DEF Register
<1>2. r \in 0..MaxJobRuns /\ r # 0 /\ \A n \in 0..MaxJobRuns : n # 0 => n \in JobRuns
  BY BackupAssumption DEF BackupAssumption, JobRuns
<1>3. /\ stage'[r] = "streaming" /\ \A q \in JobRuns \ {r} : stage'[q] = stage[q]
      /\ stage' \in [JobRuns -> {"unused", "called", "spawned", "streaming", "waiting", "leaving", "over"}]
      /\ \A q \in JobRuns : Started(q)' <=> Started(q)
      /\ \A q \in JobRuns : stage[q] = "over" => stage'[q] = "over"
      /\ \A q \in JobRuns : Stopped(q) => Stopped(q)'
  BY <1>1, RunGoes DEF Stopped
<1>4. BackupTypeOK'
  BY <1>1, <1>2, <1>3 DEF BackupInv, BackupTypeOK
<1>5. SenderOk'
  <2>1. sender # 0 => sender \in JobRuns \ {r} /\ stage'[sender] \in {"streaming", "waiting", "leaving", "over"}
    BY <1>1, <1>3 DEF BackupInv, SenderOk
  <2>2. r \notin signalled'
    BY <1>1, <2>1 DEF BackupInv, SenderOk
  <2>3. \A q \in signalled' : stage'[q] \in {"streaming", "waiting", "leaving", "over"}
    BY <1>1, <1>3, <2>1 DEF BackupInv, BackupTypeOK, SenderOk
  <2>4. \A q \in JobRuns : stage'[q] = "streaming" /\ q \notin signalled' => q = r
    <3>1. 0 \notin JobRuns
      BY BackupAssumption DEF BackupAssumption, JobRuns
    <3> QED
      BY <1>1, <1>3, <3>1 DEF BackupInv, SenderOk
  <2> QED
    BY <1>1, <1>2, <1>3, <2>2, <2>3, <2>4 DEF SenderOk
<1>6. NoGapMet => ~IsOld(r)
  BY <1>1 DEF NoGapMet, Stopped, Started
<1>7. \A q \in (events' \cup replies') \ (events \cup replies) : FALSE
  BY <1>1
<1> QED
  BY <1>1, <1>2, <1>3, <1>4, <1>5, <1>6, <1>7, NoRunBegun

\* A run that ends takes the sender away, and so does a cancel.
LEMMA SenderGoes ==
    ASSUME BackupInv, sender' = 0, signalled' = signalled \cup ({sender} \ {0})
    PROVE  /\ sender' \in 0..MaxJobRuns /\ signalled' \subseteq JobRuns
           /\ \A q \in JobRuns : stage[q] = "streaming" => q \in signalled'
           /\ sender # 0 => sender \in signalled'
<1>1. \A n \in 0..MaxJobRuns : n # 0 => n \in JobRuns
  BY BackupAssumption DEF BackupAssumption, JobRuns
<1>2. 0 \in 0..MaxJobRuns /\ 0 \notin JobRuns
  BY BackupAssumption DEF BackupAssumption, JobRuns
<1>3. signalled' \subseteq JobRuns
  BY <1>1 DEF BackupInv, BackupTypeOK
<1>4. \A q \in JobRuns : stage[q] = "streaming" => q \in signalled'
  BY <1>2 DEF BackupInv, SenderOk
<1> QED
  BY <1>2, <1>3, <1>4

\* The end of a run.
LEMMA UnregisterStep ==
    ASSUME BackupInv, NEW r \in JobRuns, Unregister(r)
    PROVE  BackupInv'
<1>1. /\ stage[r] = "leaving" /\ stage' = [stage EXCEPT ![r] = "over"]
      /\ sender' = 0 /\ signalled' = signalled \cup ({sender} \ {0})
      /\ events' = events \cup {r} /\ replies' = replies \cup {r}
      /\ UNCHANGED <<outcome, cancels, jobStatus, missed, overtaken>>
  BY DEF Unregister
<1>2. /\ stage'[r] = "over" /\ \A q \in JobRuns \ {r} : stage'[q] = stage[q]
      /\ stage' \in [JobRuns -> {"unused", "called", "spawned", "streaming", "waiting", "leaving", "over"}]
      /\ \A q \in JobRuns : Started(q)' <=> Started(q)
      /\ \A q \in JobRuns : stage[q] = "over" => stage'[q] = "over"
      /\ \A q \in JobRuns : Stopped(q) => Stopped(q)'
  BY <1>1, RunGoes
<1>3. /\ sender' \in 0..MaxJobRuns /\ signalled' \subseteq JobRuns
      /\ \A q \in JobRuns : stage[q] = "streaming" => q \in signalled'
  BY <1>1, SenderGoes
<1>4. BackupTypeOK'
  BY <1>1, <1>2, <1>3 DEF BackupInv, BackupTypeOK
<1>5. SenderOk'
  BY <1>1, <1>2, <1>3 DEF BackupInv, BackupTypeOK, SenderOk
<1>6. \A q \in (events' \cup replies') \ (events \cup replies) : stage'[q] = "over"
  BY <1>1, <1>2
<1> QED
  BY <1>1, <1>2, <1>4, <1>5, <1>6, NoRunBegun

\* A cancel arrives: with no gap met, the sender it finds is that of its run.
LEMMA CancelArrivesStep ==
    ASSUME BackupInv, NEW x \in 1..MaxCancels, CancelArrives(x)
    PROVE  BackupInv'
<1>1. /\ cancels[x].at = "sent" /\ cancels' = [cancels EXCEPT ![x].at = "heard"]
      /\ sender' = 0 /\ signalled' = signalled \cup ({sender} \ {0})
      /\ missed' = (missed \/ sender = 0 \/ stage[sender] = "over")
      /\ UNCHANGED <<stage, outcome, events, replies, jobStatus, overtaken>>
  BY DEF CancelArrives
<1>2. PICK n \in JobRuns : n = cancels[x].for /\ Started(n)
  BY <1>1 DEF BackupInv
<1>3. /\ cancels'[x].at = "heard" /\ cancels'[x].for = n
      /\ \A y \in (1..MaxCancels) \ {x} : cancels'[y] = cancels[y]
      /\ cancels' \in [1..MaxCancels -> [at : {"unused", "sent", "heard", "over"}, for : 0..MaxJobRuns]]
  BY <1>1, <1>2 DEF BackupInv, BackupTypeOK
<1>4. /\ sender' \in 0..MaxJobRuns /\ signalled' \subseteq JobRuns
      /\ \A q \in JobRuns : stage[q] = "streaming" => q \in signalled'
      /\ sender # 0 => sender \in signalled'
  BY <1>1, SenderGoes
<1>5. BackupTypeOK' /\ (missed => missed')
  <2>1. missed' \in BOOLEAN /\ (missed => missed')
    BY <1>1
  <2> QED
    BY <1>1, <1>3, <1>4, <2>1 DEF BackupInv, BackupTypeOK
<1>6. \A q \in JobRuns : (Started(q)' <=> Started(q)) /\ (Stopped(q) => Stopped(q)')
  BY <1>1 DEF Started, Stopped
<1>7. ASSUME ~missed', NoGapMet PROVE IsOld(n) \/ Stopped(n)'
  <2>1. /\ sender # 0 /\ sender \in JobRuns /\ ~IsOld(sender)
        /\ stage[sender] \in {"streaming", "waiting", "leaving"} /\ Started(sender)
    BY <1>1, <1>7 DEF BackupInv, SenderOk, NoGapMet, Started
  <2>2. CASE ~IsOld(n)
    <3>1. n = sender
      BY <1>2, <2>1, <2>2, OneLastRun
    <3> QED
      BY <1>1, <1>4, <2>1, <3>1 DEF Stopped
  <2> QED
    BY <2>2
<1>8. SenderOk'
  BY <1>1, <1>4 DEF BackupInv, BackupTypeOK, SenderOk
<1> QED
  BY <1>1, <1>2, <1>3, <1>5, <1>6, <1>7, <1>8, NoRunBegun

\* The invariant of a wizard and its runs holds throughout (runner.rs: run_with_progress and
\* backup_cancel; BackupWizard.tsx).
THEOREM BackupInvariance == BackupSpec => []BackupInv
<1>1. BackupInv /\ [BackupNext]_backupVars => BackupInv'
  <2> SUFFICES ASSUME BackupInv, [BackupNext]_backupVars PROVE BackupInv'
    OBVIOUS
  <2>1. CASE UNCHANGED backupVars
    BY <2>1 DEF backupVars, BackupInv, BackupTypeOK, SenderOk, NoGapMet, Stopped, IsOld, Started
  <2>2. CASE BackupNext
    BY <2>2, PressRunStep, PressCancelStep, ShownStep, ToolStep, RegisterStep, UnregisterStep, CancelArrivesStep
       DEF BackupNext
  <2> QED
    BY <2>1, <2>2
<1> QED
  BY BackupInitInv, <1>1, PTL DEF BackupSpec

\* A tool at work that nobody has stopped has its sender under the job id and a Cancel
\* button, the wizard's two gaps apart.
THEOREM ToolsAreStoppable == BackupSpec => []RunIsStoppable
<1>1. BackupInv => RunIsStoppable
  BY DEF BackupInv, SenderOk, NoGapMet, RunIsStoppable, Stopped, Started
<1> QED
  BY BackupInvariance, <1>1, PTL

----------------------------------------------------------------------------
(* Notebook.                                                               *)

\* Whose call it is, and what it saves.
IsAuto(i) == nbSaves[i].who = "auto"
IsRun(i)  == nbSaves[i].who = "run"

\* The run that is under way is asking the database or saving its result, and it is the
\* only one; no autosave is out meanwhile.
OneRun ==
    /\ isRunning => \A i \in DOMAIN nbSaves : ~IsAuto(i)
    /\ isRunning => runs # {} \/ \E i \in DOMAIN nbSaves : IsRun(i)
    /\ ~isRunning => runs = {} /\ \A i \in DOMAIN nbSaves : ~IsRun(i)
    /\ \A x, y \in runs : x = y
    /\ runs # {} => \A i \in DOMAIN nbSaves : ~IsRun(i)
    /\ \A i, j \in DOMAIN nbSaves : IsRun(i) /\ IsRun(j) => i = j

\* What is shown is what was saved last: everything under way has its text.
AllOneText ==
    /\ cached # NoNotebook /\ cached.text = pane.text /\ disk.text = pane.text
    /\ \A x \in runs : x.text = pane.text
    /\ \A i \in DOMAIN nbSaves : nbSaves[i].nb.text = pane.text /\ ~IsAuto(i)

\* What is shown is being saved: by an autosave that nothing with another text follows.
BeingSaved ==
    \E n \in DOMAIN nbSaves :
        /\ IsAuto(n) /\ nbSaves[n].nb = pane
        /\ nbSaves[n].done => disk.text = pane.text
        /\ \A i \in DOMAIN nbSaves : i # n /\ IsAuto(i) => i < n /\ nbSaves[i].nb # pane
        /\ \A i \in DOMAIN nbSaves : i > n => nbSaves[i].nb.text = pane.text

\* What is shown is still to be saved.
ToBeSaved == timer \/ isRunning

PaneOpen ==
    /\ lastSerialized # NoNotebook
    /\ timer => ~isRunning /\ pane # lastSerialized
    /\ timer => \A i \in DOMAIN nbSaves : IsAuto(i) => nbSaves[i].nb # pane
    /\ \A i, j \in DOMAIN nbSaves : i < j /\ nbSaves[j].done => nbSaves[i].done
    /\ \A i \in DOMAIN nbSaves : nbSaves[i].who # "stray"
    /\ OneRun
    /\ pane = lastSerialized => AllOneText
    /\ pane # lastSerialized /\ ~ToBeSaved => BeingSaved

PaneClosed ==
    /\ lastSerialized = NoNotebook /\ ~timer /\ nbSaves = <<>> /\ runs = {} /\ ~isRunning
    /\ cached # NoNotebook => cached.text = disk.text

NbInv ==
    /\ NotebookTypeOK
    /\ timer => pane # NoNotebook
    /\ pane # NoNotebook => cached # NoNotebook
    /\ ~slipped /\ pane # NoNotebook => PaneOpen
    /\ ~slipped /\ pane = NoNotebook => PaneClosed

\* A notebook is told from none, and its text is a source.
LEMMA NotebookShape ==
    /\ NoNotebook \notin Notebooks
    /\ \A nb \in Notebooks : nb.text \in Sources
    /\ \A nb \in Notebooks, t \in Sources : [nb EXCEPT !.text = t] \in Notebooks
    /\ \A nb \in Notebooks : /\ [nb EXCEPT !.result = TRUE] \in Notebooks
                             /\ [nb EXCEPT !.result = TRUE].text = nb.text
    /\ [text |-> Untitled, result |-> FALSE] \in Notebooks
  BY NotebookAssumption DEF NotebookAssumption, Notebooks

\* What is unslipped now was unslipped before, and the pane is open while something is due.
LEMMA NbBefore ==
    ASSUME NbInv, ~slipped
    PROVE  /\ pane # NoNotebook => PaneOpen
           /\ pane = NoNotebook => PaneClosed
           /\ timer \/ isRunning \/ runs # {} \/ nbSaves # <<>> => pane # NoNotebook /\ PaneOpen
  BY DEF NbInv, PaneClosed

\* The calls are now those before, and c.
SentLast(c) ==
    /\ nbSaves' \in Seq(Saves)
    /\ Len(nbSaves) \in Nat /\ DOMAIN nbSaves = 1..Len(nbSaves)
    /\ DOMAIN nbSaves' = 1..(Len(nbSaves) + 1)
    /\ \A i \in DOMAIN nbSaves : nbSaves'[i] = nbSaves[i]
    /\ nbSaves'[Len(nbSaves) + 1] = c
    /\ \A i \in DOMAIN nbSaves' : i \in DOMAIN nbSaves \/ i = Len(nbSaves) + 1

\* A call is sent after the others.
LEMMA CallSentLast ==
    ASSUME NotebookTypeOK, NEW who \in {"auto", "manual", "run"}, NEW nb \in Notebooks, Send(who, nb)
    PROVE  \E c \in Saves :
              c.who = who /\ c.nb = nb /\ ~c.done /\ SentLast(c)
<1> DEFINE c == [who |-> who, nb |-> nb, done |-> FALSE]
<1>1. c \in Saves /\ nbSaves \in Seq(Saves) /\ nbSaves' = Append(nbSaves, c)
  BY DEF Send, Saves, NotebookTypeOK
<1>2. /\ nbSaves' \in Seq(Saves) /\ Len(nbSaves') = Len(nbSaves) + 1
      /\ \A i \in 1..Len(nbSaves) : nbSaves'[i] = nbSaves[i]
      /\ nbSaves'[Len(nbSaves) + 1] = c
  BY <1>1, AppendProperties
<1>3. /\ Len(nbSaves) \in Nat /\ DOMAIN nbSaves = 1..Len(nbSaves)
      /\ DOMAIN nbSaves' = 1..(Len(nbSaves) + 1)
  BY <1>1, <1>2
<1>4. \A i \in 1..(Len(nbSaves) + 1) : i \in 1..Len(nbSaves) \/ i = Len(nbSaves) + 1
  BY <1>3
<1> QED
  BY <1>1, <1>2, <1>3, <1>4 DEF SentLast

\* The autosave: what is shown is being saved from here on.
LEMMA TimerFiresStep ==
    ASSUME NbInv, TimerFires
    PROVE  NbInv'
<1>1. timer /\ timer' = FALSE /\ UNCHANGED <<pane, cached, disk, lastSerialized, runs, isRunning, slipped>>
  BY DEF TimerFires, NbInv, NotebookTypeOK
<1>2. pane # NoNotebook
  BY <1>1 DEF NbInv
<1>3. pane \in Notebooks
  BY <1>2 DEF NbInv, NotebookTypeOK, Maybe
<1>4. PICK c \in Saves :
            c.who = "auto" /\ c.nb = pane /\ ~c.done /\ SentLast(c)
  BY <1>3, CallSentLast DEF TimerFires, NbInv
<1>5. NotebookTypeOK'
  BY <1>1, <1>4 DEF SentLast, NbInv, NotebookTypeOK
<1>6. ASSUME ~slipped PROVE PaneOpen'
  <2>1. PaneOpen /\ ~isRunning /\ pane # lastSerialized /\ \A i \in DOMAIN nbSaves : IsAuto(i) => nbSaves[i].nb # pane
    BY <1>1, <1>2, <1>6 DEF NbInv, PaneOpen
  <2>2. OneRun'
    BY <1>1, <1>4, <2>1 DEF SentLast, PaneOpen, OneRun, IsAuto, IsRun
  <2>3. BeingSaved'
    <3> DEFINE n == Len(nbSaves) + 1
    <3>1. n \in DOMAIN nbSaves' /\ \A i \in DOMAIN nbSaves' : i <= n /\ (i # n => i \in DOMAIN nbSaves /\ i < n)
      BY <1>4 DEF SentLast
    <3> QED
      BY <1>1, <1>4, <2>1, <3>1 DEF SentLast, BeingSaved, IsAuto
  <2>4. \A i, j \in DOMAIN nbSaves' : i < j /\ nbSaves'[j].done => nbSaves'[i].done
    BY <1>4, <2>1 DEF SentLast, PaneOpen
  <2>5. \A i \in DOMAIN nbSaves' : nbSaves'[i].who # "stray"
    BY <1>4, <2>1 DEF SentLast, PaneOpen
  <2> QED
    BY <1>1, <2>1, <2>2, <2>3, <2>4, <2>5 DEF PaneOpen
<1> QED
  BY <1>1, <1>2, <1>5, <1>6 DEF NbInv

\* A call writes: unless it slips, the calls before it have written.
LEMMA SaveWritesStep ==
    ASSUME NbInv, NEW k \in DOMAIN nbSaves, SaveWrites(k)
    PROVE  NbInv'
<1> DEFINE c == [nbSaves[k] EXCEPT !.done = TRUE]
<1>1. /\ ~nbSaves[k].done /\ disk' = nbSaves[k].nb /\ nbSaves' = [nbSaves EXCEPT ![k].done = TRUE]
      /\ slipped' \in BOOLEAN /\ (slipped => slipped') /\ \A j \in 1..(k - 1) : ~nbSaves[j].done => slipped'
      /\ UNCHANGED <<pane, cached, lastSerialized, timer, runs, isRunning>>
  BY DEF SaveWrites
<1>2. nbSaves \in Seq(Saves) /\ nbSaves[k] \in Saves /\ DOMAIN nbSaves = 1..Len(nbSaves) /\ Len(nbSaves) \in Nat
  <2>1. nbSaves \in Seq(Saves)
    BY DEF NbInv, NotebookTypeOK
  <2> QED
    BY <2>1
<1>3. c \in Saves /\ c.done /\ c.who = nbSaves[k].who /\ c.nb = nbSaves[k].nb /\ nbSaves[k].nb \in Notebooks
  BY <1>2 DEF Saves
<1>4. /\ nbSaves' = [nbSaves EXCEPT ![k] = c] /\ nbSaves' \in Seq(Saves) /\ DOMAIN nbSaves' = DOMAIN nbSaves
      /\ nbSaves'[k] = c /\ \A i \in DOMAIN nbSaves : i # k => nbSaves'[i] = nbSaves[i]
  BY <1>1, <1>2, <1>3
<1>5. \A i \in DOMAIN nbSaves : /\ nbSaves'[i].who = nbSaves[i].who /\ nbSaves'[i].nb = nbSaves[i].nb
                                /\ nbSaves'[i].done <=> nbSaves[i].done \/ i = k
  BY <1>3, <1>4
<1> HIDE DEF c
<1>6. NotebookTypeOK'
  BY <1>1, <1>3, <1>4 DEF NbInv, NotebookTypeOK
<1>7. nbSaves # <<>>
  BY <1>2
<1>8. ASSUME ~slipped' PROVE pane # NoNotebook /\ PaneOpen'
  <2>1. PaneOpen /\ pane # NoNotebook
    BY <1>1, <1>7, <1>8, NbBefore
  <2>2. \A j \in DOMAIN nbSaves : j < k => nbSaves[j].done
    BY <1>1, <1>2, <1>8
  <2>3. OneRun'
    BY <1>1, <1>4, <1>5, <2>1 DEF PaneOpen, OneRun, IsAuto, IsRun
  <2>4. AllOneText => AllOneText'
    BY <1>1, <1>4, <1>5 DEF AllOneText, IsAuto
  <2>5. ASSUME BeingSaved PROVE BeingSaved'
    <3>1. PICK n \in DOMAIN nbSaves :
              /\ IsAuto(n) /\ nbSaves[n].nb = pane
              /\ nbSaves[n].done => disk.text = pane.text
              /\ \A i \in DOMAIN nbSaves : i # n /\ IsAuto(i) => i < n /\ nbSaves[i].nb # pane
              /\ \A i \in DOMAIN nbSaves : i > n => nbSaves[i].nb.text = pane.text
      BY <2>5 DEF BeingSaved
    <3>2. n < k \/ n = k \/ n > k
      BY <1>2
    <3>3. n > k => ~nbSaves[n].done
      BY <1>1, <2>1, <3>1 DEF PaneOpen
    <3>4. nbSaves'[n].done => disk'.text = pane.text
      BY <1>1, <1>2, <1>5, <3>1, <3>2, <3>3
    <3> QED
      BY <1>1, <1>4, <1>5, <3>1, <3>4 DEF BeingSaved, IsAuto
  <2>6. \A i, j \in DOMAIN nbSaves' : i < j /\ nbSaves'[j].done => nbSaves'[i].done
    BY <1>4, <1>5, <2>1, <2>2 DEF PaneOpen
  <2>7. \A i \in DOMAIN nbSaves' : nbSaves'[i].who # "stray"
    BY <1>4, <1>5, <2>1 DEF PaneOpen
  <2>8. timer => \A i \in DOMAIN nbSaves' : nbSaves'[i].who = "auto" => nbSaves'[i].nb # pane
    BY <1>4, <1>5, <2>1 DEF PaneOpen, IsAuto
  <2> QED
    BY <1>1, <2>1, <2>3, <2>4, <2>5, <2>6, <2>7, <2>8 DEF PaneOpen, ToBeSaved, IsAuto
<1> QED
  BY <1>1, <1>6, <1>8 DEF NbInv

\* The calls that are left are as they were, and in the same order.
LEMMA OthersRemain ==
    ASSUME NotebookTypeOK, NEW k \in DOMAIN nbSaves, nbSaves' = RemoveAt(nbSaves, k)
    PROVE  /\ nbSaves' \in Seq(Saves)
           /\ \A i \in DOMAIN nbSaves' : \E m \in DOMAIN nbSaves : m # k /\ nbSaves'[i] = nbSaves[m]
           /\ \A i, j \in DOMAIN nbSaves' : i < j =>
                 \E m, n \in DOMAIN nbSaves : /\ m < n /\ m # k /\ n # k
                                              /\ nbSaves'[i] = nbSaves[m] /\ nbSaves'[j] = nbSaves[n]
           /\ \A n \in DOMAIN nbSaves : n # k => \E j \in DOMAIN nbSaves' :
                 /\ nbSaves'[j] = nbSaves[n]
                 /\ \A i \in DOMAIN nbSaves' :
                       /\ i < j => \E m \in DOMAIN nbSaves : m < n /\ nbSaves'[i] = nbSaves[m]
                       /\ i > j => \E m \in DOMAIN nbSaves : m > n /\ nbSaves'[i] = nbSaves[m]
           /\ \A i, j \in DOMAIN nbSaves' : i < j \/ i = j \/ i > j
           /\ nbSaves[k] \in Saves /\ nbSaves[k].nb \in Notebooks
<1> DEFINE a == SubSeq(nbSaves, 1, k - 1)
           z == SubSeq(nbSaves, k + 1, Len(nbSaves))
           at(j) == IF j < k THEN j ELSE j + 1
<1>1. /\ k \in 1..Len(nbSaves) /\ Len(nbSaves) \in Nat /\ DOMAIN nbSaves = 1..Len(nbSaves)
      /\ nbSaves \in Seq(Saves) /\ nbSaves[k] \in Saves
  BY DEF NotebookTypeOK
<1>2. a \in Seq(Saves) /\ Len(a) = k - 1 /\ \A j \in 1..(k - 1) : a[j] = nbSaves[j]
  <2>1. 1 <= k - 1 + 1 /\ k - 1 <= Len(nbSaves)
    BY <1>1
  <2> QED
    BY <1>1, <2>1, SubSeqProperties
<1>3. z \in Seq(Saves) /\ Len(z) = Len(nbSaves) - k /\ \A j \in 1..(Len(nbSaves) - k) : z[j] = nbSaves[k + j]
  BY <1>1, SubSeqProperties
<1>4. nbSaves' = a \o z
  BY DEF RemoveAt
<1> HIDE DEF a, z
<1>5. nbSaves' \in Seq(Saves) /\ DOMAIN nbSaves' = 1..(Len(nbSaves) - 1)
  <2>1. a \o z \in Seq(Saves) /\ Len(a \o z) = Len(a) + Len(z)
    BY <1>2, <1>3, ConcatProperties
  <2>2. nbSaves' \in Seq(Saves) /\ Len(nbSaves') = Len(nbSaves) - 1
    BY <1>1, <1>2, <1>3, <1>4, <2>1
  <2> QED
    BY <2>2
<1>6. ASSUME NEW j \in 1..(Len(nbSaves) - 1) PROVE nbSaves'[j] = nbSaves[at(j)]
  <2>1. nbSaves'[j] = IF j <= Len(a) THEN a[j] ELSE z[j - Len(a)]
    <3>1. j \in 1..(Len(a) + Len(z))
      BY <1>1, <1>2, <1>3
    <3>2. a \in Seq(Saves) /\ z \in Seq(Saves)
      BY <1>2, <1>3
    <3>3. \A i \in 1..(Len(a) + Len(z)) : (a \o z)[i] = IF i <= Len(a) THEN a[i] ELSE z[i - Len(a)]
      BY <3>2, ConcatProperties
    <3> QED
      BY <1>4, <3>1, <3>3
  <2>2. CASE j < k
    BY <1>1, <1>2, <2>1, <2>2
  <2>3. CASE ~(j < k)
    <3>1. j - Len(a) \in 1..(Len(nbSaves) - k) /\ ~(j <= Len(a)) /\ k + (j - Len(a)) = j + 1
      BY <1>1, <1>2, <2>3
    <3> QED
      BY <1>3, <2>1, <2>3, <3>1
  <2> QED
    BY <2>2, <2>3
<1>7. \A j \in DOMAIN nbSaves' : nbSaves'[j] = nbSaves[at(j)]
  BY <1>5, <1>6
<1>8. \A i \in DOMAIN nbSaves' : at(i) \in DOMAIN nbSaves /\ at(i) # k
  BY <1>1, <1>5
<1>9. \A i, j \in DOMAIN nbSaves' : i < j => at(i) < at(j)
  BY <1>1, <1>5
<1>10. \A n \in DOMAIN nbSaves : n # k => \E j \in DOMAIN nbSaves' : at(j) = n
  <2> SUFFICES ASSUME NEW n \in 1..Len(nbSaves), n # k PROVE \E j \in 1..(Len(nbSaves) - 1) : at(j) = n
    BY <1>1, <1>5
  <2>1. CASE n < k
    BY <1>1, <2>1
  <2>2. CASE n > k
    <3>1. n - 1 \in 1..(Len(nbSaves) - 1) /\ at(n - 1) = n
      BY <1>1, <2>2
    <3> QED
      BY <3>1
  <2> QED
    BY <1>1, <2>1, <2>2
<1> HIDE DEF at
<1>11. \A i, j \in DOMAIN nbSaves' : i > j => at(i) > at(j)
  BY <1>9, <1>5, <1>8, <1>1
<1>12. \A n \in DOMAIN nbSaves : n # k => \E j \in DOMAIN nbSaves' :
           /\ nbSaves'[j] = nbSaves[n]
           /\ \A i \in DOMAIN nbSaves' :
                 /\ i < j => \E m \in DOMAIN nbSaves : m < n /\ nbSaves'[i] = nbSaves[m]
                 /\ i > j => \E m \in DOMAIN nbSaves : m > n /\ nbSaves'[i] = nbSaves[m]
  <2>1. TAKE n \in DOMAIN nbSaves
  <2>2. HAVE n # k
  <2>3. PICK j \in DOMAIN nbSaves' : at(j) = n
    BY <1>10, <2>2
  <2>4. /\ nbSaves'[j] = nbSaves[n]
        /\ \A i \in DOMAIN nbSaves' :
              /\ i < j => \E m \in DOMAIN nbSaves : m < n /\ nbSaves'[i] = nbSaves[m]
              /\ i > j => \E m \in DOMAIN nbSaves : m > n /\ nbSaves'[i] = nbSaves[m]
    BY <2>3, <1>7, <1>8, <1>9, <1>11
  <2> QED
    BY <2>4
<1>13. \A i, j \in DOMAIN nbSaves' : i < j =>
           \E m, n \in DOMAIN nbSaves : m < n /\ m # k /\ n # k /\ nbSaves'[i] = nbSaves[m] /\ nbSaves'[j] = nbSaves[n]
  BY <1>7, <1>8, <1>9
<1>14. \A i, j \in DOMAIN nbSaves' : i < j \/ i = j \/ i > j
  BY <1>1, <1>5
<1>15. nbSaves[k].nb \in Notebooks
  BY <1>1 DEF Saves
<1>16. \A i \in DOMAIN nbSaves' : \E m \in DOMAIN nbSaves : m # k /\ nbSaves'[i] = nbSaves[m]
  BY <1>7, <1>8
<1> QED
  BY <1>1, <1>5, <1>12, <1>13, <1>14, <1>15, <1>16

\* What is said of all calls and of their order holds of those that are left.
LEMMA StillInTurn ==
    ASSUME NotebookTypeOK, PaneOpen, NEW k \in DOMAIN nbSaves, nbSaves' = RemoveAt(nbSaves, k)
    PROVE  /\ \A i, j \in DOMAIN nbSaves' : i < j /\ nbSaves'[j].done => nbSaves'[i].done
           /\ \A i \in DOMAIN nbSaves' : nbSaves'[i].who # "stray"
           /\ nbSaves[k].who # "run" /\ UNCHANGED <<runs, isRunning>> => OneRun'
           /\ AllOneText /\ nbSaves[k].nb.text = pane.text /\ UNCHANGED <<pane, disk, runs>>
                 /\ cached' # NoNotebook /\ cached'.text = pane.text => AllOneText'
<1>1. /\ \A i \in DOMAIN nbSaves' : \E m \in DOMAIN nbSaves : m # k /\ nbSaves'[i] = nbSaves[m]
      /\ \A i, j \in DOMAIN nbSaves' : i < j =>
            \E m, n \in DOMAIN nbSaves : m < n /\ nbSaves'[i] = nbSaves[m] /\ nbSaves'[j] = nbSaves[n]
      /\ \A i, j \in DOMAIN nbSaves' : i < j \/ i = j \/ i > j
  BY OthersRemain
<1>2. \A i \in DOMAIN nbSaves : i \in Nat
  BY DEF NotebookTypeOK
<1>3. \A i, j \in DOMAIN nbSaves' : i < j /\ nbSaves'[j].done => nbSaves'[i].done
  BY <1>1 DEF PaneOpen
<1>4. \A i \in DOMAIN nbSaves' : nbSaves'[i].who # "stray"
  BY <1>1 DEF PaneOpen
<1>5. ASSUME nbSaves[k].who # "run", UNCHANGED <<runs, isRunning>> PROVE OneRun'
  <2>1. \A i, j \in DOMAIN nbSaves' : i < j => ~(nbSaves'[i].who = "run" /\ nbSaves'[j].who = "run")
    BY <1>1, <1>2 DEF PaneOpen, OneRun, IsRun
  <2>2. \A i, j \in DOMAIN nbSaves' : nbSaves'[i].who = "run" /\ nbSaves'[j].who = "run" => i = j
    BY <1>1, <2>1
  <2>3. \A n \in DOMAIN nbSaves : n # k => \E j \in DOMAIN nbSaves' : nbSaves'[j] = nbSaves[n]
    BY OthersRemain
  <2>4. isRunning => runs # {} \/ \E i \in DOMAIN nbSaves' : nbSaves'[i].who = "run"
    BY <1>5, <2>3 DEF PaneOpen, OneRun, IsRun
  <2> QED
    BY <1>1, <1>5, <2>2, <2>4 DEF PaneOpen, OneRun, IsAuto, IsRun
<1>6. ASSUME AllOneText, nbSaves[k].nb.text = pane.text, UNCHANGED <<pane, disk, runs>>,
             cached' # NoNotebook, cached'.text = pane.text
      PROVE  AllOneText'
  BY <1>1, <1>6 DEF AllOneText, IsAuto
<1> QED
  BY <1>3, <1>4, <1>5, <1>6

\* The autosave of what is shown is still there when another call is gone.
LEMMA StillBeingSaved ==
    ASSUME NotebookTypeOK, NEW k \in DOMAIN nbSaves, nbSaves' = RemoveAt(nbSaves, k), UNCHANGED <<pane, disk>>,
           BeingSaved, ~(IsAuto(k) /\ nbSaves[k].nb = pane)
    PROVE  BeingSaved'
<1>1. PICK n \in DOMAIN nbSaves :
          /\ IsAuto(n) /\ nbSaves[n].nb = pane
          /\ nbSaves[n].done => disk.text = pane.text
          /\ \A i \in DOMAIN nbSaves : i # n /\ IsAuto(i) => i < n /\ nbSaves[i].nb # pane
          /\ \A i \in DOMAIN nbSaves : i > n => nbSaves[i].nb.text = pane.text
  BY DEF BeingSaved
<1>2. n # k
  BY <1>1
<1>3. PICK j \in DOMAIN nbSaves' :
          /\ nbSaves'[j] = nbSaves[n]
          /\ \A i \in DOMAIN nbSaves' :
                /\ i < j => \E m \in DOMAIN nbSaves : m < n /\ nbSaves'[i] = nbSaves[m]
                /\ i > j => \E m \in DOMAIN nbSaves : m > n /\ nbSaves'[i] = nbSaves[m]
  BY <1>2, OthersRemain
<1>4. \A i \in DOMAIN nbSaves : i \in Nat
  BY DEF NotebookTypeOK
<1>5. \A i \in DOMAIN nbSaves' : i < j \/ i = j \/ i > j
  BY OthersRemain
<1>6. \A i \in DOMAIN nbSaves' : i > j => nbSaves'[i].nb.text = pane.text /\ nbSaves'[i].who # "auto"
  BY <1>1, <1>3, <1>4 DEF IsAuto
<1>7. \A i \in DOMAIN nbSaves' : i < j /\ nbSaves'[i].who = "auto" => nbSaves'[i].nb # pane
  BY <1>1, <1>3, <1>4 DEF IsAuto
<1> QED
  BY <1>1, <1>3, <1>5, <1>6, <1>7 DEF BeingSaved, IsAuto

\* An autosave is answered, the first of the calls unless it slips.
LEMMA AutosaveAnsweredStep ==
    ASSUME NbInv, NEW k \in DOMAIN nbSaves, AutosaveAnswered(k)
    PROVE  NbInv'
<1>1. /\ nbSaves[k].done /\ nbSaves[k].who \in {"auto", "stray"}
      /\ cached' = nbSaves[k].nb /\ nbSaves' = RemoveAt(nbSaves, k)
      /\ lastSerialized' = IF nbSaves[k].who = "auto" THEN nbSaves[k].nb ELSE lastSerialized
      /\ slipped' \in BOOLEAN /\ (slipped \/ k > 1 => slipped')
      /\ UNCHANGED <<pane, disk, timer, runs, isRunning>>
  BY DEF AutosaveAnswered
<1>2. NotebookTypeOK /\ nbSaves' \in Seq(Saves) /\ nbSaves[k].nb \in Notebooks /\ nbSaves[k].nb # NoNotebook
  BY <1>1, OthersRemain, NotebookShape DEF NbInv
<1>3. NotebookTypeOK'
  BY <1>1, <1>2 DEF NotebookTypeOK, Maybe
<1>4. nbSaves # <<>> /\ \A i \in DOMAIN nbSaves : i \in Nat /\ i >= 1
  BY <1>2 DEF NotebookTypeOK
<1>5. ASSUME ~slipped' PROVE pane # NoNotebook /\ PaneOpen'
  <2>1. PaneOpen /\ pane # NoNotebook /\ k = 1
    BY <1>1, <1>4, <1>5, NbBefore
  <2>2. IsAuto(k) /\ ~isRunning /\ pane # lastSerialized /\ lastSerialized' = nbSaves[k].nb
    BY <1>1, <2>1 DEF PaneOpen, OneRun, AllOneText, IsAuto
  <2>3. /\ \A i, j \in DOMAIN nbSaves' : i < j /\ nbSaves'[j].done => nbSaves'[i].done
        /\ \A i \in DOMAIN nbSaves' : nbSaves'[i].who # "stray"
        /\ OneRun'
    BY <1>1, <1>2, <2>1, StillInTurn
  <2>4. \A i \in DOMAIN nbSaves' : \E m \in DOMAIN nbSaves : m # k /\ nbSaves'[i] = nbSaves[m]
    BY <1>1, <1>2, OthersRemain
  <2>5. CASE timer
    BY <1>1, <1>2, <2>1, <2>2, <2>3, <2>4, <2>5 DEF PaneOpen, ToBeSaved, IsAuto
  <2>6. CASE ~timer /\ nbSaves[k].nb = pane
    <3>1. BeingSaved
      BY <2>1, <2>2, <2>6 DEF PaneOpen, ToBeSaved
    <3>2. /\ disk.text = pane.text
          /\ \A i \in DOMAIN nbSaves : i > 1 => nbSaves[i].nb.text = pane.text /\ ~IsAuto(i)
      BY <1>1, <1>4, <2>1, <2>2, <2>6, <3>1 DEF BeingSaved
    <3>3. \A m \in DOMAIN nbSaves : m # k => m > 1
      BY <1>4, <2>1
    <3>4. \A i \in DOMAIN nbSaves' : nbSaves'[i].nb.text = pane.text /\ nbSaves'[i].who # "auto"
      BY <2>4, <3>2, <3>3 DEF IsAuto
    <3>5. AllOneText'
      BY <1>1, <1>2, <2>1, <2>2, <2>6, <3>2, <3>4 DEF PaneOpen, OneRun, AllOneText, IsAuto
    <3> QED
      BY <1>1, <1>2, <2>2, <2>3, <2>6, <3>4, <3>5 DEF PaneOpen
  <2>7. CASE ~timer /\ nbSaves[k].nb # pane
    <3>1. BeingSaved
      BY <2>1, <2>2, <2>7 DEF PaneOpen, ToBeSaved
    <3>2. BeingSaved'
      BY <1>1, <1>2, <2>7, <3>1, StillBeingSaved
    <3>3. lastSerialized' # NoNotebook /\ pane' # lastSerialized' /\ timer' = FALSE
      BY <1>1, <1>2, <2>2, <2>7 DEF NotebookTypeOK
    <3> QED
      BY <2>1, <2>3, <3>2, <3>3 DEF PaneOpen
  <2> QED
    BY <2>1, <2>5, <2>6, <2>7
<1> QED
  BY <1>1, <1>2, <1>3, <1>5 DEF NbInv

\* A call fails: an autosave slips, a Save the user sent is only gone.
LEMMA SaveFailsStep ==
    ASSUME NbInv, NEW k \in DOMAIN nbSaves, SaveFails(k)
    PROVE  NbInv'
<1>1. /\ nbSaves[k].who # "run" /\ nbSaves' = RemoveAt(nbSaves, k)
      /\ slipped' \in BOOLEAN /\ (slipped \/ nbSaves[k].who # "manual" => slipped')
      /\ UNCHANGED <<pane, cached, disk, lastSerialized, timer, runs, isRunning>>
  BY DEF SaveFails
<1>2. NotebookTypeOK /\ nbSaves' \in Seq(Saves) /\ nbSaves # <<>>
  BY <1>1, OthersRemain DEF NbInv, NotebookTypeOK
<1>3. NotebookTypeOK'
  BY <1>1, <1>2 DEF NotebookTypeOK
<1>4. ASSUME ~slipped' PROVE pane # NoNotebook /\ PaneOpen'
  <2>1. PaneOpen /\ pane # NoNotebook /\ ~IsAuto(k)
    BY <1>1, <1>2, <1>4, NbBefore DEF IsAuto
  <2>2. /\ \A i, j \in DOMAIN nbSaves' : i < j /\ nbSaves'[j].done => nbSaves'[i].done
        /\ \A i \in DOMAIN nbSaves' : nbSaves'[i].who # "stray"
        /\ OneRun'
    BY <1>1, <1>2, <2>1, StillInTurn
  <2>3. AllOneText => AllOneText'
    <3>1. AllOneText => /\ nbSaves[k].nb.text = pane.text /\ UNCHANGED <<pane, disk, runs>>
                        /\ cached' # NoNotebook /\ cached'.text = pane.text
      BY <1>1 DEF AllOneText
    <3> QED
      BY <1>1, <1>2, <2>1, <3>1, StillInTurn
  <2>4. BeingSaved => BeingSaved'
    BY <1>1, <1>2, <2>1, StillBeingSaved
  <2>5. timer => \A i \in DOMAIN nbSaves' : nbSaves'[i].who = "auto" => nbSaves'[i].nb # pane
    BY <1>1, <1>2, <2>1, OthersRemain DEF PaneOpen, IsAuto
  <2> QED
    BY <1>1, <2>1, <2>2, <2>3, <2>4, <2>5 DEF PaneOpen, ToBeSaved, IsAuto
<1> QED
  BY <1>1, <1>3, <1>4 DEF NbInv

\* The pane opens on the store's copy, or on the row: it is saved already.
LEMMA MountStep ==
    ASSUME NbInv, Mount
    PROVE  NbInv'
<1>1. /\ pane = NoNotebook /\ pane' = (IF cached # NoNotebook THEN cached ELSE disk) /\ cached' = pane'
      /\ UNCHANGED <<disk, nbSaves, runs, isRunning, slipped>>
  BY DEF Mount
<1>2. pane' \in Notebooks /\ pane' # NoNotebook
  BY <1>1, NotebookShape DEF NbInv, NotebookTypeOK, Maybe
<1>3. /\ timer' = (~isRunning /\ lastSerialized \notin {NoNotebook, pane'})
      /\ lastSerialized' = IF ~isRunning /\ lastSerialized = NoNotebook THEN pane' ELSE lastSerialized
  BY <1>2 DEF Mount, AutosaveEffect
<1>4. NotebookTypeOK'
  BY <1>1, <1>2, <1>3 DEF NbInv, NotebookTypeOK, Maybe
<1>5. ASSUME ~slipped PROVE PaneOpen'
  <2>1. PaneClosed
    BY <1>1, <1>5, NbBefore
  <2>2. /\ lastSerialized' = pane' /\ timer' = FALSE /\ nbSaves' = <<>> /\ runs' = {} /\ isRunning' = FALSE
        /\ pane'.text = disk.text /\ disk' = disk
    BY <1>1, <1>3, <2>1 DEF PaneClosed, NbInv, NotebookTypeOK
  <2>3. OneRun' /\ AllOneText'
    BY <1>1, <1>2, <2>2 DEF OneRun, AllOneText, IsAuto, IsRun
  <2> QED
    BY <1>2, <2>2, <2>3 DEF PaneOpen
<1> QED
  BY <1>1, <1>2, <1>4, <1>5 DEF NbInv

\* The pane closes with nothing due or out, or slips.
LEMMA UnmountStep ==
    ASSUME NbInv, Unmount
    PROVE  NbInv'
<1> DEFINE told(i) == IF nbSaves[i].who = "run" THEN nbSaves[i] ELSE [nbSaves[i] EXCEPT !.who = "stray"]
<1>1. /\ pane # NoNotebook /\ pane' = NoNotebook /\ timer' = FALSE /\ lastSerialized' = NoNotebook
      /\ nbSaves' = [i \in DOMAIN nbSaves |-> told(i)]
      /\ slipped' \in BOOLEAN /\ (slipped \/ timer \/ isRunning \/ nbSaves # <<>> => slipped')
      /\ UNCHANGED <<cached, disk, runs, isRunning>>
  BY DEF Unmount
<1>2. nbSaves' \in Seq(Saves)
  <2>1. nbSaves \in Seq(Saves) /\ Len(nbSaves) \in Nat /\ DOMAIN nbSaves = 1..Len(nbSaves)
    BY DEF NbInv, NotebookTypeOK
  <2>2. ASSUME NEW i \in 1..Len(nbSaves) PROVE told(i) \in Saves
    <3>1. nbSaves[i] \in Saves
      BY <2>1, <2>2
    <3> QED
      BY <3>1 DEF Saves
  <2> HIDE DEF told
  <2> QED
    BY <1>1, <2>1, <2>2
<1>3. NotebookTypeOK'
  BY <1>1, <1>2 DEF NbInv, NotebookTypeOK, Maybe
<1>4. ASSUME ~slipped' PROVE PaneClosed'
  <2>1. PaneOpen /\ ~timer /\ ~isRunning /\ nbSaves = <<>>
    BY <1>1, <1>4, NbBefore
  <2>2. ~BeingSaved
    BY <2>1 DEF BeingSaved
  <2>3. AllOneText
    BY <2>1, <2>2 DEF PaneOpen, ToBeSaved
  <2>4. nbSaves' = <<>>
    BY <1>1, <1>2, <2>1
  <2>5. runs' = {} /\ isRunning' = FALSE
    BY <1>1, <2>1 DEF PaneOpen, OneRun, NbInv, NotebookTypeOK
  <2> QED
    BY <1>1, <2>3, <2>4, <2>5 DEF PaneClosed, AllOneText
<1> QED
  BY <1>1, <1>3, <1>4 DEF NbInv

\* What is shown becomes a text that is neither saved nor on its way: it is due.
LEMMA ShownAnew ==
    ASSUME NbInv, ~slipped, pane # NoNotebook, NotebookTypeOK', pane' \in Notebooks,
           AutosaveEffect(pane', isRunning), UNCHANGED <<runs, isRunning>>,
           pane' # lastSerialized, \A i \in DOMAIN nbSaves' : nbSaves'[i].nb # pane',
           \A i, j \in DOMAIN nbSaves' : i < j /\ nbSaves'[j].done => nbSaves'[i].done,
           \A i \in DOMAIN nbSaves' : nbSaves'[i].who # "stray",
           OneRun'
    PROVE  PaneOpen'
<1>1. PaneOpen /\ pane' # NoNotebook
  BY NbBefore, NotebookShape
<1>2. lastSerialized' = lastSerialized /\ lastSerialized # NoNotebook /\ timer' = (~isRunning)
  BY <1>1 DEF PaneOpen, AutosaveEffect
<1>3. ToBeSaved' /\ (timer' => ~isRunning')
  BY <1>2 DEF ToBeSaved, NbInv, NotebookTypeOK
<1> QED
  BY <1>2, <1>3 DEF PaneOpen

\* A keystroke.
LEMMA EditStep ==
    ASSUME NbInv, NEW t \in Sources, Edit(t)
    PROVE  NbInv'
<1>1. /\ pane # NoNotebook /\ pane' = [pane EXCEPT !.text = t] /\ cached' = pane'
      /\ AutosaveEffect(pane', isRunning)
      /\ slipped' = (slipped \/ SavedBefore(pane', nbSaves))
      /\ UNCHANGED <<disk, nbSaves, runs, isRunning>>
  BY DEF Edit
<1>2. pane' \in Notebooks /\ pane' # NoNotebook
  BY <1>1, NotebookShape DEF NbInv, NotebookTypeOK, Maybe
<1>3. NotebookTypeOK'
  BY <1>1, <1>2 DEF NbInv, NotebookTypeOK, Maybe, AutosaveEffect, SavedBefore
<1>4. ASSUME ~slipped' PROVE PaneOpen'
  <2>1. ~slipped /\ pane' # lastSerialized /\ \A i \in DOMAIN nbSaves : nbSaves[i].nb # pane'
    BY <1>1, <1>4 DEF SavedBefore
  <2>2. PaneOpen /\ nbSaves' = nbSaves
    BY <1>1, <2>1, NbBefore
  <2>3. OneRun'
    BY <1>1, <2>2 DEF PaneOpen, OneRun, IsAuto, IsRun
  <2>4. /\ \A i, j \in DOMAIN nbSaves' : i < j /\ nbSaves'[j].done => nbSaves'[i].done
        /\ \A i \in DOMAIN nbSaves' : nbSaves'[i].who # "stray" /\ nbSaves'[i].nb # pane'
    BY <2>1, <2>2 DEF PaneOpen
  <2> QED
    BY <1>1, <1>2, <1>3, <2>1, <2>3, <2>4, ShownAnew
<1> QED
  BY <1>1, <1>2, <1>3, <1>4 DEF NbInv

\* Save, sent after what is out.
LEMMA SaveNowStep ==
    ASSUME NbInv, SaveNow
    PROVE  NbInv'
<1>1. pane # NoNotebook /\ UNCHANGED <<pane, cached, disk, lastSerialized, timer, runs, isRunning, slipped>>
  BY DEF SaveNow
<1>2. pane \in Notebooks
  BY <1>1 DEF NbInv, NotebookTypeOK, Maybe
<1>3. PICK c \in Saves : c.who = "manual" /\ c.nb = pane /\ ~c.done /\ SentLast(c)
  BY <1>2, CallSentLast DEF SaveNow, NbInv
<1>4. NotebookTypeOK'
  BY <1>1, <1>3 DEF SentLast, NbInv, NotebookTypeOK
<1>5. ASSUME ~slipped PROVE PaneOpen'
  <2>1. PaneOpen
    BY <1>1, <1>5, NbBefore
  <2>2. OneRun'
    BY <1>1, <1>3, <2>1 DEF SentLast, PaneOpen, OneRun, IsAuto, IsRun
  <2>3. AllOneText => AllOneText'
    BY <1>1, <1>3 DEF SentLast, AllOneText, IsAuto
  <2>4. ASSUME BeingSaved PROVE BeingSaved'
    <3>1. PICK n \in DOMAIN nbSaves :
              /\ IsAuto(n) /\ nbSaves[n].nb = pane
              /\ nbSaves[n].done => disk.text = pane.text
              /\ \A i \in DOMAIN nbSaves : i # n /\ IsAuto(i) => i < n /\ nbSaves[i].nb # pane
              /\ \A i \in DOMAIN nbSaves : i > n => nbSaves[i].nb.text = pane.text
      BY <2>4 DEF BeingSaved
    <3>2. n \in DOMAIN nbSaves' /\ nbSaves'[n] = nbSaves[n]
      BY <1>3 DEF SentLast
    <3>3. \A i \in DOMAIN nbSaves' : i # n /\ nbSaves'[i].who = "auto" => i < n /\ nbSaves'[i].nb # pane
      BY <1>3, <3>1 DEF SentLast, IsAuto
    <3>4. \A i \in DOMAIN nbSaves' : i > n => nbSaves'[i].nb.text = pane.text
      BY <1>3, <3>1 DEF SentLast
    <3> QED
      BY <1>1, <3>1, <3>2, <3>3, <3>4 DEF BeingSaved, IsAuto
  <2>5. \A i, j \in DOMAIN nbSaves' : i < j /\ nbSaves'[j].done => nbSaves'[i].done
    BY <1>3, <2>1 DEF SentLast, PaneOpen
  <2>6. \A i \in DOMAIN nbSaves' : nbSaves'[i].who # "stray"
    BY <1>3, <2>1 DEF SentLast, PaneOpen
  <2>7. timer => \A i \in DOMAIN nbSaves' : nbSaves'[i].who = "auto" => nbSaves'[i].nb # pane
    BY <1>3, <2>1 DEF SentLast, PaneOpen, IsAuto
  <2> QED
    BY <1>1, <2>1, <2>2, <2>3, <2>4, <2>5, <2>6, <2>7 DEF PaneOpen, ToBeSaved, IsAuto
<1> QED
  BY <1>1, <1>4, <1>5 DEF NbInv

\* Save is answered: what it saved is shown again, and due.
LEMMA SaveNowAnsweredStep ==
    ASSUME NbInv, NEW k \in DOMAIN nbSaves, SaveNowAnswered(k)
    PROVE  NbInv'
<1>1. /\ nbSaves[k].who = "manual" /\ pane' = nbSaves[k].nb /\ cached' = pane'
      /\ nbSaves' = RemoveAt(nbSaves, k)
      /\ AutosaveEffect(pane', isRunning)
      /\ slipped' = (slipped \/ SavedBefore(pane', nbSaves'))
      /\ UNCHANGED <<disk, runs, isRunning>>
  BY DEF SaveNowAnswered
<1>2. NotebookTypeOK /\ nbSaves' \in Seq(Saves) /\ pane' \in Notebooks /\ pane' # NoNotebook /\ nbSaves # <<>>
  BY <1>1, OthersRemain, NotebookShape DEF NbInv, NotebookTypeOK
<1>3. NotebookTypeOK'
  BY <1>1, <1>2 DEF NotebookTypeOK, Maybe, AutosaveEffect, SavedBefore
<1>4. ASSUME ~slipped' PROVE PaneOpen'
  <2>1. ~slipped /\ pane' # lastSerialized /\ \A i \in DOMAIN nbSaves' : nbSaves'[i].nb # pane'
    BY <1>1, <1>4 DEF SavedBefore
  <2>2. PaneOpen /\ pane # NoNotebook
    BY <1>2, <2>1, NbBefore
  <2>3. /\ \A i, j \in DOMAIN nbSaves' : i < j /\ nbSaves'[j].done => nbSaves'[i].done
        /\ \A i \in DOMAIN nbSaves' : nbSaves'[i].who # "stray"
        /\ OneRun'
    BY <1>1, <1>2, <2>2, StillInTurn
  <2> QED
    BY <1>1, <1>2, <1>3, <2>1, <2>2, <2>3, ShownAnew
<1> QED
  BY <1>1, <1>2, <1>3, <1>4 DEF NbInv

\* A cell is run with what the store has, while nothing is out, or it slips.
LEMMA RunCellStep ==
    ASSUME NbInv, RunCell
    PROVE  NbInv'
<1>1. /\ pane # NoNotebook /\ runs' = runs \cup {cached} /\ isRunning' = TRUE
      /\ AutosaveEffect(pane, TRUE)
      /\ slipped' \in BOOLEAN /\ (slipped \/ isRunning \/ nbSaves # <<>> => slipped')
      /\ UNCHANGED <<pane, cached, disk, nbSaves>>
  BY DEF RunCell
<1>2. cached \in Notebooks /\ timer' = FALSE /\ lastSerialized' = lastSerialized
  BY <1>1 DEF AutosaveEffect, NbInv, NotebookTypeOK, Maybe
<1>3. NotebookTypeOK'
  BY <1>1, <1>2 DEF NbInv, NotebookTypeOK
<1>4. ASSUME ~slipped' PROVE PaneOpen'
  <2>1. PaneOpen /\ ~isRunning /\ nbSaves = <<>> /\ runs = {}
    BY <1>1, <1>4, NbBefore DEF PaneOpen, OneRun
  <2>2. runs' = {cached} /\ nbSaves' = <<>>
    BY <1>1, <2>1
  <2>3. OneRun'
    BY <1>1, <2>2 DEF OneRun, IsAuto, IsRun
  <2>4. AllOneText => AllOneText'
    BY <1>1, <2>2 DEF AllOneText, IsAuto
  <2> QED
    BY <1>1, <1>2, <2>1, <2>2, <2>3, <2>4 DEF PaneOpen, ToBeSaved
<1> QED
  BY <1>1, <1>3, <1>4 DEF NbInv

\* The database answers: what the run had read is on its way with the result.
LEMMA QueryAnswersStep ==
    ASSUME NbInv, NEW nb \in runs, QueryAnswers(nb)
    PROVE  NbInv'
<1> DEFINE saved == [nb EXCEPT !.result = TRUE]
<1>1. runs' = runs \ {nb} /\ UNCHANGED <<pane, cached, disk, lastSerialized, timer, isRunning, slipped>>
  BY DEF QueryAnswers
<1>2. nb \in Notebooks /\ saved \in Notebooks /\ saved.text = nb.text
  BY NotebookShape DEF NbInv, NotebookTypeOK
<1>3. PICK c \in Saves : c.who = "run" /\ c.nb = saved /\ ~c.done /\ SentLast(c)
  BY <1>2, CallSentLast DEF QueryAnswers, NbInv
<1> HIDE DEF saved
<1>4. NotebookTypeOK'
  BY <1>1, <1>3 DEF SentLast, NbInv, NotebookTypeOK
<1>5. ASSUME ~slipped PROVE pane # NoNotebook /\ PaneOpen'
  <2>1. PaneOpen /\ pane # NoNotebook /\ runs # {}
    BY <1>5, NbBefore
  <2>2. runs' = {} /\ isRunning
    BY <1>1, <2>1 DEF PaneOpen, OneRun
  <2>3. OneRun'
    BY <1>1, <1>3, <2>1, <2>2 DEF SentLast, PaneOpen, OneRun, IsAuto, IsRun
  <2>4. AllOneText => AllOneText'
    <3>1. AllOneText => c.nb.text = pane.text
      BY <1>2, <1>3 DEF AllOneText
    <3> QED
      BY <1>1, <1>3, <2>2, <3>1 DEF SentLast, AllOneText, IsAuto
  <2>5. \A i, j \in DOMAIN nbSaves' : i < j /\ nbSaves'[j].done => nbSaves'[i].done
    BY <1>3, <2>1 DEF SentLast, PaneOpen
  <2>6. \A i \in DOMAIN nbSaves' : nbSaves'[i].who # "stray"
    BY <1>3, <2>1 DEF SentLast, PaneOpen
  <2>7. ~timer /\ ToBeSaved'
    BY <1>1, <2>1, <2>2 DEF PaneOpen, ToBeSaved
  <2> QED
    BY <1>1, <2>1, <2>3, <2>4, <2>5, <2>6, <2>7 DEF PaneOpen
<1> QED
  BY <1>1, <1>4, <1>5 DEF NbInv

\* A run is over: the autosave is armed again if what is shown is not what was saved last.
LEMMA RunOver ==
    ASSUME NbInv, ~slipped, isRunning, RunEnds, UNCHANGED <<pane, disk>>, runs' = {},
           \A i \in DOMAIN nbSaves' : \E m \in DOMAIN nbSaves : nbSaves'[i] = nbSaves[m],
           \A i \in DOMAIN nbSaves' : nbSaves'[i].who # "run",
           \A i, j \in DOMAIN nbSaves' : i < j /\ nbSaves'[j].done => nbSaves'[i].done,
           cached' # NoNotebook, AllOneText => cached'.text = pane.text
    PROVE  pane # NoNotebook /\ PaneOpen'
<1>1. PaneOpen /\ pane # NoNotebook
  BY NbBefore
<1>2. isRunning' = FALSE /\ lastSerialized' = lastSerialized /\ timer' = (lastSerialized # pane)
  BY <1>1 DEF RunEnds, AutosaveEffect, PaneOpen
<1>3. \A i \in DOMAIN nbSaves' : nbSaves'[i].who # "auto" /\ nbSaves'[i].who # "stray"
  BY <1>1 DEF PaneOpen, OneRun, IsAuto
<1>4. OneRun'
  BY <1>2 DEF OneRun, IsRun
<1>5. AllOneText => AllOneText'
  BY <1>3 DEF AllOneText, IsAuto
<1>6. timer' => ToBeSaved'
  BY DEF ToBeSaved
<1> QED
  BY <1>1, <1>2, <1>3, <1>4, <1>5, <1>6 DEF PaneOpen, IsAuto

\* A run ends in any of its ways: the types stay.
LEMMA RunEndsTypes ==
    ASSUME NbInv, RunEnds, UNCHANGED <<pane, disk, slipped>>, runs' \subseteq runs, nbSaves' \in Seq(Saves),
           cached' \in Maybe(Notebooks)
    PROVE  NotebookTypeOK' /\ (timer' => pane # NoNotebook)
  BY DEF RunEnds, AutosaveEffect, NbInv, NotebookTypeOK, Maybe

\* The query fails.
LEMMA QueryFailsStep ==
    ASSUME NbInv, NEW nb \in runs, QueryFails(nb)
    PROVE  NbInv'
<1>1. runs' = runs \ {nb} /\ RunEnds /\ UNCHANGED <<pane, cached, disk, nbSaves, slipped>>
  BY DEF QueryFails
<1>2. NotebookTypeOK' /\ (timer' => pane # NoNotebook)
  BY <1>1, RunEndsTypes DEF NbInv, NotebookTypeOK
<1>3. ASSUME ~slipped PROVE pane # NoNotebook /\ PaneOpen'
  <2>1. PaneOpen /\ pane # NoNotebook /\ runs # {}
    BY <1>3, NbBefore
  <2>2. runs' = {} /\ isRunning /\ \A i \in DOMAIN nbSaves : nbSaves[i].who # "run"
    BY <1>1, <2>1 DEF PaneOpen, OneRun, IsRun
  <2>3. /\ \A i \in DOMAIN nbSaves' : \E m \in DOMAIN nbSaves : nbSaves'[i] = nbSaves[m]
        /\ \A i \in DOMAIN nbSaves' : nbSaves'[i].who # "run"
        /\ \A i, j \in DOMAIN nbSaves' : i < j /\ nbSaves'[j].done => nbSaves'[i].done
    BY <1>1, <2>1, <2>2 DEF PaneOpen
  <2>4. cached' # NoNotebook /\ (AllOneText => cached'.text = pane.text)
    BY <1>1, <2>1 DEF AllOneText, NbInv
  <2> QED
    BY <1>1, <1>3, <2>2, <2>3, <2>4, RunOver
<1> QED
  BY <1>1, <1>2, <1>3 DEF NbInv

\* The save of a run is answered, or fails: it was the only one of its kind.
LEMMA RunSaveEnds ==
    ASSUME NbInv, NEW k \in DOMAIN nbSaves, nbSaves[k].who = "run", nbSaves' = RemoveAt(nbSaves, k),
           cached' \in {cached, nbSaves[k].nb}, RunEnds, UNCHANGED <<pane, disk, runs, slipped>>
    PROVE  NbInv'
<1>1. NotebookTypeOK /\ nbSaves' \in Seq(Saves) /\ nbSaves[k].nb \in Notebooks /\ nbSaves[k].nb # NoNotebook /\ nbSaves # <<>>
  BY OthersRemain, NotebookShape DEF NbInv, NotebookTypeOK
<1>2. NotebookTypeOK' /\ (timer' => pane # NoNotebook)
  <2>1. cached' \in Maybe(Notebooks)
    BY <1>1 DEF NotebookTypeOK, Maybe
  <2> QED
    BY <1>1, <2>1, RunEndsTypes
<1>3. ASSUME ~slipped PROVE pane # NoNotebook /\ PaneOpen'
  <2>1. PaneOpen /\ pane # NoNotebook
    BY <1>1, <1>3, NbBefore
  <2>2. runs' = {} /\ isRunning /\ \A m \in DOMAIN nbSaves : m # k => nbSaves[m].who # "run"
    BY <2>1 DEF PaneOpen, OneRun, IsRun
  <2>3. \A i \in DOMAIN nbSaves' : \E m \in DOMAIN nbSaves : m # k /\ nbSaves'[i] = nbSaves[m]
    BY <1>1, OthersRemain
  <2>4. \A i, j \in DOMAIN nbSaves' : i < j /\ nbSaves'[j].done => nbSaves'[i].done
    BY <1>1, <2>1, StillInTurn
  <2>5. \A i \in DOMAIN nbSaves' : nbSaves'[i].who # "run"
    BY <2>2, <2>3
  <2>6. cached' # NoNotebook /\ (AllOneText => cached'.text = pane.text)
    BY <1>1, <2>1 DEF AllOneText, NbInv
  <2> QED
    BY <1>3, <2>2, <2>3, <2>4, <2>5, <2>6, RunOver
<1> QED
  BY <1>1, <1>2, <1>3 DEF NbInv

\* The types and the text of one notebook, from the start and from a restart on.
LEMMA NothingOpen ==
    /\ NotebookInit => NbInv
    /\ NbInv /\ NotebookRestart => NbInv'
<1>0. <<>> \in Seq(Saves) /\ NoNotebook \in Maybe(Notebooks)
  BY DEF Maybe
<1>1. ASSUME NotebookInit PROVE NbInv
  <2>1. NotebookTypeOK
    BY <1>0, <1>1, NotebookShape DEF NotebookInit, NotebookTypeOK
  <2>2. PaneClosed
    BY <1>1 DEF NotebookInit, PaneClosed
  <2> QED
    BY <1>1, <2>1, <2>2 DEF NotebookInit, NbInv
<1>2. ASSUME NbInv, NotebookRestart PROVE NbInv'
  <2>1. NotebookTypeOK'
    BY <1>0, <1>2 DEF NotebookRestart, NbInv, NotebookTypeOK
  <2>2. PaneClosed'
    BY <1>2 DEF NotebookRestart, PaneClosed
  <2> QED
    BY <1>2, <2>1, <2>2 DEF NotebookRestart, NbInv
<1> QED
  BY <1>1, <1>2

\* The invariant of a notebook holds throughout (useAutosave.ts, and notebook/store.ts: load,
\* save, runCell, with the handlers of NotebookPane.tsx).
THEOREM NotebookInvariance == NotebookSpec => []NbInv
<1>1. NbInv /\ [NotebookNext]_nbVars => NbInv'
  <2> SUFFICES ASSUME NbInv, [NotebookNext]_nbVars PROVE NbInv'
    OBVIOUS
  <2>1. CASE TimerFires
    BY <2>1, TimerFiresStep
  <2>2. CASE \E i \in DOMAIN nbSaves : SaveWrites(i)
    BY <2>2, SaveWritesStep
  <2>3. CASE \E i \in DOMAIN nbSaves : AutosaveAnswered(i)
    BY <2>3, AutosaveAnsweredStep
  <2>4. CASE \E i \in DOMAIN nbSaves : SaveFails(i)
    BY <2>4, SaveFailsStep
  <2>5. CASE Mount
    BY <2>5, MountStep
  <2>6. CASE Unmount
    BY <2>6, UnmountStep
  <2>7. CASE \E t \in Sources : Edit(t)
    BY <2>7, EditStep
  <2>8. CASE SaveNow
    BY <2>8, SaveNowStep
  <2>9. CASE \E i \in DOMAIN nbSaves : SaveNowAnswered(i)
    BY <2>9, SaveNowAnsweredStep
  <2>10. CASE RunCell
    BY <2>10, RunCellStep
  <2>11. CASE \E nb \in runs : QueryAnswers(nb)
    BY <2>11, QueryAnswersStep
  <2>12. CASE \E nb \in runs : QueryFails(nb)
    BY <2>12, QueryFailsStep
  <2>13. CASE \E i \in DOMAIN nbSaves : RunSaved(i)
    <3>1. PICK i \in DOMAIN nbSaves : RunSaved(i)
      BY <2>13
    <3> QED
      BY <3>1, RunSaveEnds DEF RunSaved
  <2>14. CASE \E i \in DOMAIN nbSaves : RunSaveFails(i)
    <3>1. PICK i \in DOMAIN nbSaves : RunSaveFails(i)
      BY <2>14
    <3> QED
      BY <3>1, RunSaveEnds DEF RunSaveFails
  <2>15. CASE NotebookRestart
    BY <2>15, NothingOpen
  <2>16. CASE UNCHANGED nbVars
    BY <2>16 DEF nbVars, NbInv, NotebookTypeOK, PaneOpen, PaneClosed, OneRun, AllOneText, BeingSaved, ToBeSaved, IsAuto, IsRun
  <2> QED
    BY <2>1, <2>2, <2>3, <2>4, <2>5, <2>6, <2>7, <2>8, <2>9, <2>10, <2>11, <2>12, <2>13, <2>14, <2>15, <2>16
       DEF NotebookNext
<1> QED
  BY <1>1, NothingOpen, PTL DEF NotebookSpec

\* A quiet notebook has one text in its pane, in the store and in its row, unless one of the
\* gaps was met (useAutosave.ts; notebook/store.ts: save and runCell).
THEOREM QuietNotebooksAgree == NotebookSpec => []QuietMeansAgreed
<1>1. NbInv => QuietMeansAgreed
  <2> SUFFICES ASSUME NbInv, Quiet, ~slipped PROVE pane.text = disk.text /\ cached.text = disk.text
    BY DEF QuietMeansAgreed
  <2>1. PaneOpen /\ ~timer /\ runs = {} /\ nbSaves = <<>>
    BY NbBefore DEF Quiet
  <2>2. ~BeingSaved
    BY <2>1 DEF BeingSaved
  <2>3. CASE pane = lastSerialized
    BY <2>1, <2>3 DEF PaneOpen, AllOneText
  <2>4. CASE pane # lastSerialized
    <3>1. isRunning
      BY <2>1, <2>2, <2>4 DEF PaneOpen, ToBeSaved
    <3> QED
      BY <2>1, <3>1 DEF PaneOpen, OneRun, IsRun
  <2> QED
    BY <2>3, <2>4
<1> QED
  BY <1>1, NotebookInvariance, PTL

----------------------------------------------------------------------------
(* NotebookCte.                                                            *)

\* The path is what is on the stack, each once, each using the next.
PathIsStack ==
    /\ \A c \in Candidates : state[c] = "onStack" <=> \E p \in 1 .. Len(path) : path[p] = c
    /\ \A p \in 1 .. Len(path) : \A q \in 1 .. Len(path) : path[p] = path[q] => p = q
    /\ \A p \in 1 .. Len(path) - 1 : path[p + 1] \in Uses(path[p])

\* What was tried from a candidate on the path is done with or comes next on it.
TriedIsSeen ==
    /\ \A c \in Candidates : state[c] = "unvisited" => tried[c] = 0
    /\ \A p \in 1 .. Len(path) : \A d \in Uses(path[p]) :
          d <= tried[path[p]] => state[d] = "done" \/ (p < Len(path) /\ d = path[p + 1])

\* What is done uses what is done, and there is no circle in it.
DoneIsAcyclic ==
    /\ \A c \in Candidates : state[c] = "done" => \A d \in Uses(c) : state[d] = "done"
    /\ \A S \in SUBSET Candidates : Circular(S) => \E c \in S : state[c] # "done"

SearchInv ==
    /\ CteTypeOK
    /\ PathIsStack /\ TriedIsSeen /\ DoneIsAcyclic
    /\ phase \in {"closing", "composed"} => \A c \in Candidates : state[c] = "done"
    /\ RefusalShowsCircle

\* What is included was used, and a pass that added nothing so far missed nothing.
ClosureInv ==
    /\ frontier = target \cup UNION {body[d] : d \in included}
    /\ \A S \in SUBSET Candidates : UseClosed(S) => included \subseteq S
    /\ before \subseteq included
    /\ included = before =>
          \A c \in Candidates : c < next /\ name[c] \in frontier => c \in included
    /\ phase = "composed" => included = before /\ next = N + 1

THEOREM CteInitially == CteInit => SearchInv /\ ClosureInv
<1> SUFFICES ASSUME CteInit PROVE SearchInv /\ ClosureInv OBVIOUS
<1> USE CteAssumption DEF CteInit, Candidates
<1>1. CteTypeOK BY DEF CteTypeOK
<1>2. PathIsStack /\ TriedIsSeen /\ RefusalShowsCircle BY DEF PathIsStack, TriedIsSeen, RefusalShowsCircle
<1>3. DoneIsAcyclic
  <2>1. ASSUME NEW S \in SUBSET Candidates, Circular(S) PROVE \E c \in S : state[c] # "done"
    BY <2>1 DEF Circular
  <2> QED BY <2>1 DEF DoneIsAcyclic
<1>4. ClosureInv BY DEF ClosureInv
<1> QED BY <1>1, <1>2, <1>3, <1>4 DEF SearchInv

\* A step that leaves the search alone keeps what is known of it.
LEMMA SearchKept ==
    ASSUME SearchInv, UNCHANGED <<texts, search>>, CteTypeOK',
           phase' \in {"closing", "composed"} => \A c \in Candidates : state[c] = "done",
           phase' # "refused"
    PROVE  SearchInv'
<1>1. PathIsStack' BY DEF SearchInv, PathIsStack, search, texts, Uses
<1>2. TriedIsSeen' BY DEF SearchInv, TriedIsSeen, search, texts, Uses
<1>3. DoneIsAcyclic' BY DEF SearchInv, DoneIsAcyclic, search, texts, Uses, Circular
<1>4. RefusalShowsCircle' BY DEF RefusalShowsCircle
<1> QED BY <1>1, <1>2, <1>3, <1>4 DEF SearchInv, search

\* Pushing a candidate not seen yet on the path, used by the top if there is one.
LEMMA PushKeepsPath ==
    ASSUME CteTypeOK, PathIsStack, NEW c \in Candidates, state[c] = "unvisited", Visit(c),
           UNCHANGED texts, path # <<>> => c \in Uses(Top)
    PROVE  PathIsStack'
<1> USE DEF CteTypeOK, Visit
<1> DEFINE L == Len(path)
<1>1. /\ path' \in Seq(Candidates) /\ Len(path') = L + 1 /\ L \in Nat
      /\ \A p \in 1 .. L : path'[p] = path[p] /\ path[p] \in Candidates
      /\ path'[L + 1] = c
  OBVIOUS
<1>2. \A p \in 1 .. L : path[p] # c /\ state[path[p]] = "onStack" BY <1>1 DEF PathIsStack
<1>3. \A d \in Candidates : state'[d] = IF d = c THEN "onStack" ELSE state[d] OBVIOUS
<1>4. \A d \in Candidates : state'[d] = "onStack" <=> \E p \in 1 .. L + 1 : path'[p] = d
  <2> TAKE d \in Candidates
  <2>1. CASE d = c BY <2>1, <1>1, <1>3
  <2>2. CASE d # c
    <3>1. (\E p \in 1 .. L + 1 : path'[p] = d) <=> (\E p \in 1 .. L : path[p] = d)
      BY <1>1, <2>2
    <3> QED BY <3>1, <2>2, <1>3 DEF PathIsStack
  <2> QED BY <2>1, <2>2
<1>5. \A p, q \in 1 .. L + 1 : path'[p] = path'[q] => p = q
  BY <1>1, <1>2 DEF PathIsStack
<1>6. \A p \in 1 .. L : path'[p + 1] \in Uses(path'[p])
  <2> TAKE p \in 1 .. L
  <2>1. CASE p < L BY <2>1, <1>1 DEF PathIsStack
  <2>2. CASE p = L BY <2>2, <1>1 DEF Top
  <2> QED BY <2>1, <2>2, <1>1
<1>7. Len(path') - 1 = L BY <1>1
<1>8. \A p \in 1 .. Len(path') - 1 : (path[p + 1] \in Uses(path[p]))' BY <1>6, <1>7 DEF Uses, texts
<1> HIDE DEF L, CteTypeOK, Visit
<1> QED BY <1>1, <1>4, <1>5, <1>8 DEF PathIsStack, Candidates

\* A candidate is pushed: nothing it uses was tried.
LEMMA PushKeepsTried ==
    ASSUME CteTypeOK, PathIsStack, TriedIsSeen, NEW c \in Candidates, state[c] = "unvisited", Visit(c),
           UNCHANGED texts,
           IF path = <<>> THEN tried' = tried
           ELSE c = NextUse /\ tried' = [tried EXCEPT ![Top] = NextUse]
    PROVE  TriedIsSeen'
<1> USE DEF CteTypeOK, Visit
<1> DEFINE L == Len(path)
<1>1. /\ Len(path') = L + 1 /\ L \in Nat
      /\ \A p \in 1 .. L : path'[p] = path[p] /\ path[p] \in Candidates
      /\ path'[L + 1] = c
  OBVIOUS
<1>2. \A p \in 1 .. L : path[p] # c /\ state[path[p]] = "onStack" BY <1>1 DEF PathIsStack
<1>3. \A d \in Candidates : state'[d] = IF d = c THEN "onStack" ELSE state[d] OBVIOUS
<1>4. path # <<>> => L \in 1 .. L /\ Top = path[L] /\ Top \in Candidates BY <1>1 DEF Top
<1>5. tried'[c] = 0 /\ \A d \in Candidates : d # c /\ (path = <<>> \/ d # Top) => tried'[d] = tried[d]
  BY <1>2, <1>4 DEF TriedIsSeen
<1>6. \A d \in Candidates : state'[d] = "unvisited" => tried'[d] = 0
  BY <1>2, <1>3, <1>4, <1>5 DEF TriedIsSeen
<1>7. \A d : Uses(d)' = Uses(d) /\ Uses(d) \subseteq Candidates BY DEF Uses, texts
<1>8. ASSUME NEW p \in 1 .. L + 1, NEW d \in Uses(path'[p]), d <= tried'[path'[p]]
      PROVE  state'[d] = "done" \/ (p < L + 1 /\ d = path'[p + 1])
  <2>0. d \in Candidates /\ d \in 1 .. N BY <1>7, <1>8 DEF Candidates
  <2>1. CASE p = L + 1 BY <2>0, <2>1, <1>1, <1>5, <1>8
  <2>2. CASE p < L
    <3>1. path[p] # Top BY <2>2, <1>1, <1>4 DEF PathIsStack
    <3>2. tried'[path'[p]] = tried[path[p]] BY <3>1, <2>2, <1>1, <1>2, <1>5
    <3>3. state[d] = "done" \/ d = path[p + 1] BY <3>2, <2>2, <1>1, <1>8 DEF TriedIsSeen
    <3> QED BY <3>3, <2>0, <2>2, <1>1, <1>3
  <2>3. CASE p = L
    <3>1. path # <<>> BY <2>3
    <3>2. tried'[path'[p]] = tried[Top] + 1 /\ c = tried[Top] + 1 BY <3>1, <2>3, <1>1, <1>4 DEF NextUse
    <3>3. CASE d = c BY <3>3, <2>3, <1>1
    <3>4. CASE d # c
      <4>0. path[p] = Top /\ tried[Top] \in Nat BY <3>1, <2>3, <1>4
      <4>1. d <= tried[path[p]] BY <4>0, <3>2, <3>4, <2>0, <1>8
      <4>2. state[d] = "done" BY <4>1, <2>3, <1>1, <1>8 DEF TriedIsSeen
      <4> QED BY <4>2, <2>0, <1>3, <3>4
    <3> QED BY <3>3, <3>4
  <2> QED BY <2>1, <2>2, <2>3, <1>1
<1>9. \A p \in 1 .. Len(path') : \A d \in Uses(path[p])' :
          d <= tried'[path'[p]] => state'[d] = "done" \/ (p < Len(path') /\ d = path'[p + 1])
  <2>1. \A p : Uses(path[p])' = Uses(path'[p]) BY DEF Uses, texts
  <2> HIDE DEF L, CteTypeOK, Visit
  <2> QED BY <1>1, <1>8, <2>1
<1> HIDE DEF L, CteTypeOK, Visit
<1> QED BY <1>6, <1>9 DEF TriedIsSeen

\* A candidate is pushed: what is done stays done.
LEMMA PushKeepsDone ==
    ASSUME CteTypeOK, DoneIsAcyclic, NEW c \in Candidates, state[c] = "unvisited", Visit(c), UNCHANGED texts
    PROVE  DoneIsAcyclic'
<1>1. \A d \in Candidates : state'[d] = "done" <=> state[d] = "done" BY DEF CteTypeOK, Visit
<1>2. \A d : Uses(d)' = Uses(d) /\ Uses(d) \subseteq Candidates BY DEF Uses, texts
<1>3. \A S : Circular(S)' <=> Circular(S) BY <1>2 DEF Circular
<1> QED BY <1>1, <1>2, <1>3 DEF DoneIsAcyclic

\* A candidate is passed over: the top does not use it, or it is done with.
LEMMA PassOverKeepsTried ==
    ASSUME CteTypeOK, PathIsStack, TriedIsSeen, path # <<>>, NextUse <= N,
           NextUse \in Uses(Top) => state[NextUse] = "done",
           tried' = [tried EXCEPT ![Top] = NextUse], UNCHANGED <<texts, state, path>>
    PROVE  TriedIsSeen'
<1> USE DEF CteTypeOK
<1>1. Top = path[Len(path)] /\ Len(path) \in 1 .. Len(path) /\ Top \in Candidates BY DEF Top
<1>2. state[Top] = "onStack" BY <1>1 DEF PathIsStack
<1>3. tried[Top] \in Nat /\ tried'[Top] = tried[Top] + 1
      /\ \A c \in Candidates : c # Top => tried'[c] = tried[c]
  BY <1>1 DEF NextUse
<1>4. \A d : Uses(d)' = Uses(d) /\ Uses(d) \subseteq Candidates BY DEF Uses, texts
<1>5. ASSUME NEW p \in 1 .. Len(path), NEW d \in Uses(path[p]), d <= tried'[path[p]]
      PROVE  state[d] = "done" \/ (p < Len(path) /\ d = path[p + 1])
  <2>0. d \in Nat /\ path[p] \in Candidates
    <3>1. d \in Candidates BY <1>4
    <3> QED BY <3>1, CteAssumption DEF Candidates
  <2>1. CASE path[p] = Top /\ d = NextUse BY <2>1
  <2>2. CASE ~(path[p] = Top /\ d = NextUse)
    <3>1. d <= tried[path[p]] BY <2>0, <2>2, <1>1, <1>3, <1>5 DEF NextUse
    <3> QED BY <3>1 DEF TriedIsSeen
  <2> QED BY <2>1, <2>2
<1>6. \A c \in Candidates : state[c] = "unvisited" => tried'[c] = 0 BY <1>2, <1>3 DEF TriedIsSeen
<1> QED BY <1>4, <1>5, <1>6 DEF TriedIsSeen

LEMMA DescendKeepsSearch == ASSUME SearchInv, Descend, CteTypeOK' PROVE SearchInv'
<1> USE DEF SearchInv
<1>1. Top \in Candidates /\ tried[Top] \in 0 .. N /\ NextUse \in Candidates
  BY CteAssumption DEF Descend, Top, NextUse, CteTypeOK, Candidates
<1>2. RefusalShowsCircle' /\ phase' = "checking" BY DEF Descend, RefusalShowsCircle
<1>3. CASE NextUse \in Uses(Top) /\ state[NextUse] = "unvisited"
  <2>1. Visit(NextUse) /\ UNCHANGED texts /\ path # <<>> /\ tried' = [tried EXCEPT ![Top] = NextUse]
    BY <1>3 DEF Descend
  <2>2. PathIsStack' BY <2>1, <1>1, <1>3, PushKeepsPath
  <2>3. TriedIsSeen' BY <2>1, <1>1, <1>3, PushKeepsTried
  <2>4. DoneIsAcyclic' BY <2>1, <1>1, <1>3, PushKeepsDone
  <2> QED BY <2>2, <2>3, <2>4, <1>2
<1>4. CASE ~(NextUse \in Uses(Top) /\ state[NextUse] = "unvisited")
  <2>1. UNCHANGED <<texts, state, path>> /\ path # <<>> /\ NextUse <= N
        /\ tried' = [tried EXCEPT ![Top] = NextUse]
    BY <1>4 DEF Descend
  <2>2. NextUse \in Uses(Top) => state[NextUse] = "done" BY <1>1, <1>4 DEF Descend, CteTypeOK
  <2>3. PathIsStack' BY <2>1 DEF PathIsStack, Uses, texts
  <2>4. TriedIsSeen' BY <2>1, <2>2, PassOverKeepsTried
  <2>5. DoneIsAcyclic' BY <2>1 DEF DoneIsAcyclic, Circular, Uses, texts
  <2> QED BY <2>3, <2>4, <2>5, <1>2
<1> QED BY <1>3, <1>4

LEMMA StartKeepsSearch ==
    ASSUME SearchInv, NEW c \in Candidates, StartAt(c), CteTypeOK' PROVE SearchInv'
<1> USE DEF SearchInv
<1>1. Visit(c) /\ UNCHANGED texts /\ path = <<>> /\ tried' = tried /\ state[c] = "unvisited" BY DEF StartAt
<1>2. PathIsStack' BY <1>1, PushKeepsPath
<1>3. TriedIsSeen' BY <1>1, PushKeepsTried
<1>4. DoneIsAcyclic' BY <1>1, PushKeepsDone
<1> QED BY <1>2, <1>3, <1>4 DEF StartAt, RefusalShowsCircle

\* The circle reported runs along the path and closes with the last use.
LEMMA FindCycleKeepsSearch == ASSUME SearchInv, FindCycle, CteTypeOK' PROVE SearchInv'
<1> USE DEF SearchInv
<1>1. UNCHANGED <<texts, state, path, tried>> /\ phase' = "refused" BY DEF FindCycle
<1>0. \A d : Uses(d)' = Uses(d) BY <1>1 DEF Uses, texts
<1>2. PathIsStack' BY <1>0, <1>1 DEF PathIsStack
<1>3. TriedIsSeen' BY <1>0, <1>1 DEF TriedIsSeen
<1>4. DoneIsAcyclic' BY <1>0, <1>1 DEF DoneIsAcyclic, Circular
<1>5. RefusalShowsCircle'
  <2> DEFINE L == Len(path)
  <2>1. PICK p \in 1 .. L : path[p] = NextUse /\ cycle' = Append(SubSeq(path, p, L), NextUse)
    BY DEF FindCycle
  <2>2. path \in Seq(Candidates) /\ L \in Nat /\ p \in 1 .. L BY <2>1 DEF CteTypeOK
  <2>3. NextUse \in Candidates /\ NextUse \in Uses(Top) /\ Top = path[L]
    BY DEF FindCycle, Uses, Top
  <2>4. /\ Len(cycle') = L - p + 2
        /\ \A k \in 1 .. L - p + 1 : cycle'[k] = path[p + k - 1]
        /\ cycle'[L - p + 2] = NextUse
    <3> DEFINE part == SubSeq(path, p, L)
    <3>1. part \in Seq(Candidates) /\ Len(part) = L - p + 1
          /\ \A k \in 1 .. L - p + 1 : part[k] = path[p + k - 1]
      BY <2>2
    <3> HIDE DEF part, L
    <3>2. cycle' = Append(part, NextUse) BY <2>1 DEF part, L
    <3>3. Len(cycle') = Len(part) + 1 /\ cycle'[Len(part) + 1] = NextUse BY <3>1, <3>2, <2>3
    <3>4. \A k \in 1 .. Len(part) : cycle'[k] = part[k] BY <3>1, <3>2, <2>3
    <3>5. L - p + 1 \in Nat /\ (L - p + 1) + 1 = L - p + 2 BY <2>2
    <3> QED BY <3>1, <3>3, <3>4, <3>5
  <2> HIDE DEF L
  <2>5. Len(cycle') > 1 /\ cycle'[1] = cycle'[Len(cycle')] BY <2>1, <2>2, <2>4
  <2>6. ASSUME NEW k \in 1 .. Len(cycle') - 1 PROVE cycle'[k + 1] \in Uses(cycle'[k])
    <3>1. k \in 1 .. L - p + 1 BY <2>2, <2>4
    <3>2. CASE k = L - p + 1
      <4>1. cycle'[k] = path[L] /\ cycle'[k + 1] = NextUse BY <3>2, <2>2, <2>4
      <4> QED BY <4>1, <2>3
    <3>3. CASE k < L - p + 1
      <4>1. p + k - 1 \in 1 .. L - 1 /\ k + 1 \in 1 .. L - p + 1 BY <3>1, <3>3, <2>2
      <4>2. cycle'[k] = path[p + k - 1] /\ cycle'[k + 1] = path[(p + k - 1) + 1]
        BY <4>1, <3>1, <2>2, <2>4
      <4> QED BY <4>1, <4>2 DEF PathIsStack, L
    <3> QED BY <3>1, <3>2, <3>3, <2>2
  <2>7. \A k \in 1 .. Len(cycle') - 1 : (cycle[k + 1] \in Uses(cycle[k]))'
    BY <2>6, <1>1 DEF Uses, texts
  <2> QED BY <2>5, <2>7 DEF RefusalShowsCircle
<1> QED BY <1>1, <1>2, <1>3, <1>4, <1>5

\* The top is done with: all it uses is, and no circle runs through it alone.
LEMMA LeaveKeepsSearch == ASSUME SearchInv, Leave, CteTypeOK' PROVE SearchInv'
<1> USE DEF SearchInv
<1> DEFINE L == Len(path)
           u == Top
<1>1. /\ path \in Seq(Candidates) /\ L \in Nat /\ L \in 1 .. L /\ u = path[L] /\ u \in Candidates
      /\ L - 1 \in Nat
  BY DEF CteTypeOK, Leave, Top
<1>2. /\ path' \in Seq(Candidates) /\ Len(path') = L - 1
      /\ \A p \in 1 .. L - 1 : path'[p] = path[p]
  <2>1. path' = SubSeq(path, 1, L - 1) BY DEF Leave
  <2> HIDE DEF L
  <2>2. L = Len(path) BY DEF L
  <2> QED BY <2>1, <2>2, <1>1
<1>3. \A c \in Candidates : state'[c] = IF c = u THEN "done" ELSE state[c] BY <1>1 DEF Leave, CteTypeOK
<1>4. UNCHANGED <<texts, tried>> /\ phase = "checking" /\ phase' = "checking" BY DEF Leave
<1>5. state[u] = "onStack" /\ \A p \in 1 .. L - 1 : path[p] # u BY <1>1 DEF PathIsStack
<1>6. \A d : Uses(d) \subseteq Candidates BY DEF Uses
<1>7. \A d \in Uses(u) : state[d] = "done"
  <2> TAKE d \in Uses(u)
  <2>1. d \in Candidates BY <1>6
  <2>2. d <= tried[u]
    <3>1. tried[u] \in 0 .. N /\ tried[u] + 1 > N BY <1>1 DEF Leave, NextUse, CteTypeOK
    <3> QED BY <3>1, <2>1, CteAssumption DEF Candidates
  <2> HIDE DEF u, L
  <2>3. state[d] = "done" \/ (L < L /\ d = path[L + 1]) BY <2>2, <1>1 DEF TriedIsSeen, L
  <2> QED BY <2>3, <1>1
<1> HIDE DEF L, u
<1>8. PathIsStack'
  <2>1. \A c \in Candidates : state'[c] = "onStack" <=> \E p \in 1 .. L - 1 : path'[p] = c
    <3> TAKE c \in Candidates
    <3>1. state[c] = "onStack" <=> \E p \in 1 .. L : path[p] = c BY DEF PathIsStack, L
    <3>2. CASE c = u BY <3>2, <1>2, <1>3, <1>5
    <3>3. CASE c # u
      <4>1. (\E p \in 1 .. L : path[p] = c) <=> (\E p \in 1 .. L - 1 : path'[p] = c)
        BY <3>3, <1>1, <1>2
      <4> QED BY <4>1, <3>1, <3>3, <1>3
    <3> QED BY <3>2, <3>3
  <2>2. \A p, q \in 1 .. L - 1 : path'[p] = path'[q] => p = q
    <3> TAKE p, q \in 1 .. L - 1
    <3>1. p \in 1 .. L /\ q \in 1 .. L BY <1>1
    <3> QED BY <3>1, <1>2 DEF PathIsStack, L
  <2>3. \A p \in 1 .. Len(path') - 1 : (path[p + 1] \in Uses(path[p]))'
    <3> TAKE p \in 1 .. Len(path') - 1
    <3>1. p \in 1 .. L - 1 /\ p + 1 \in 1 .. L - 1 BY <1>1, <1>2
    <3>2. path[p + 1] \in Uses(path[p]) BY <3>1 DEF PathIsStack, L
    <3> QED BY <3>1, <3>2, <1>2, <1>4 DEF Uses, texts
  <2> QED BY <2>1, <2>2, <2>3, <1>2 DEF PathIsStack
<1>9. TriedIsSeen'
  <2>1. \A c \in Candidates : state'[c] = "unvisited" => tried'[c] = 0
    BY <1>3, <1>4 DEF TriedIsSeen
  <2>2. ASSUME NEW p \in 1 .. L - 1, NEW d \in Uses(path[p]), d <= tried[path[p]]
        PROVE  state'[d] = "done" \/ (p < L - 1 /\ d = path'[p + 1])
    <3>1. p \in 1 .. L /\ d \in Candidates BY <1>1, <1>6
    <3>2. state[d] = "done" \/ (p < L /\ d = path[p + 1]) BY <3>1, <2>2 DEF TriedIsSeen, L
    <3>3. CASE state[d] = "done" BY <3>3, <3>1, <1>3
    <3>4. CASE p < L - 1 /\ d = path[p + 1]
      <4>1. p + 1 \in 1 .. L - 1 BY <3>4, <1>1
      <4> QED BY <4>1, <3>4, <1>2
    <3>5. CASE p = L - 1 /\ d = path[p + 1]
      <4>1. d = u BY <3>5, <1>1
      <4> QED BY <4>1, <3>1, <1>3
    <3> QED BY <3>2, <3>3, <3>4, <3>5, <1>1
  <2>3. \A p \in 1 .. Len(path') : \A d \in Uses(path[p]) :
          d <= tried[path[p]] => state'[d] = "done" \/ (p < Len(path') /\ d = path'[p + 1])
    BY <2>2, <1>2
  <2>4. \A p \in 1 .. Len(path') : path'[p] = path[p] BY <1>2
  <2>5. \A p \in 1 .. Len(path') : (\A d \in Uses(path[p]) :
          d <= tried[path[p]] => state[d] = "done" \/ (p < Len(path) /\ d = path[p + 1]))'
    BY <2>3, <2>4, <1>4 DEF Uses, texts
  <2> QED BY <2>1, <2>5 DEF TriedIsSeen
<1>10. DoneIsAcyclic'
  <2>1. ASSUME NEW c \in Candidates, state'[c] = "done", NEW d \in Uses(c) PROVE state'[d] = "done"
    <3>1. state[d] = "done" BY <2>1, <1>3, <1>7 DEF DoneIsAcyclic
    <3> QED BY <3>1, <1>3, <1>6
  <2>2. ASSUME NEW S \in SUBSET Candidates, Circular(S), \A c \in S : state'[c] = "done" PROVE FALSE
    <3>1. \A c \in S : c # u => state[c] = "done" BY <2>2, <1>3
    <3>2. u \in S
      <4> SUFFICES ASSUME u \notin S PROVE FALSE OBVIOUS
      <4> QED BY <3>1, <2>2 DEF DoneIsAcyclic
    <3> DEFINE T == S \ {u}
    <3>3. ASSUME NEW c \in S PROVE Uses(c) \cap T # {}
      <4>1. PICK d \in Uses(c) : d \in S BY <2>2 DEF Circular
      <4>2. state[d] = "done" BY <3>1, <1>7 DEF DoneIsAcyclic
      <4>3. d # u BY <4>2, <1>5
      <4> QED BY <4>1, <4>3
    <3>4. Circular(T) BY <3>2, <3>3 DEF Circular
    <3> QED BY <3>1, <3>4, <1>3 DEF DoneIsAcyclic
  <2>3. \A S : Circular(S)' <=> Circular(S) BY <1>4 DEF Circular, Uses, texts
  <2>4. \A c \in Candidates : state'[c] = "done" => (\A d \in Uses(c) : state[d] = "done")'
    BY <2>1, <1>4 DEF Uses, texts
  <2> QED BY <2>2, <2>3, <2>4 DEF DoneIsAcyclic
<1> QED BY <1>4, <1>8, <1>9, <1>10 DEF RefusalShowsCircle

\* Nothing is left to visit and nothing is being visited: all is done with.
LEMMA NoCycleKeepsSearch == ASSUME SearchInv, NoCycle, CteTypeOK' PROVE SearchInv'
<1>1. \A c \in Candidates : state[c] = "done"
  <2>1. Len(path) = 0 BY DEF NoCycle
  <2>2. \A c \in Candidates : state[c] # "onStack" BY <2>1 DEF SearchInv, PathIsStack
  <2> QED BY <2>2 DEF NoCycle, SearchInv, CteTypeOK
<1>2. UNCHANGED <<texts, search>> /\ phase' = "closing" BY DEF NoCycle
<1> QED BY <1>1, <1>2, SearchKept

LEMMA CteTypeKept == ASSUME CteTypeOK, CteNext PROVE CteTypeOK'
<1> USE CteAssumption DEF CteTypeOK
<1> USE DEF texts, search, closure
<1>1. CASE \E c \in Candidates : StartAt(c) BY <1>1 DEF StartAt, Visit
<1>2. CASE Descend
  <2>1. NextUse \in Candidates /\ NextUse \in 0 .. N /\ Top \in Candidates
    BY <1>2 DEF Descend, NextUse, Top, Candidates
  <2>2. path' \in Seq(Candidates) /\ state' \in [Candidates -> {"unvisited", "onStack", "done"}]
    <3>1. CASE NextUse \in Uses(Top) /\ state[NextUse] = "unvisited"
      <4>1. path' = Append(path, NextUse) /\ state' = [state EXCEPT ![NextUse] = "onStack"]
        BY <3>1, <1>2 DEF Descend, Visit
      <4>2. path' \in Seq(Candidates) BY <4>1, <2>1
      <4>3. state' \in [Candidates -> {"unvisited", "onStack", "done"}] BY <4>1, <2>1
      <4> QED BY <4>2, <4>3
    <3>2. CASE ~(NextUse \in Uses(Top) /\ state[NextUse] = "unvisited") BY <3>2, <1>2 DEF Descend
    <3> QED BY <3>1, <3>2
  <2>3. tried' \in [Candidates -> 0 .. N] BY <2>1, <1>2 DEF Descend
  <2> QED BY <2>2, <2>3, <1>2 DEF Descend
<1>3. CASE FindCycle
  <2>1. NextUse \in Candidates BY <1>3 DEF FindCycle, Uses
  <2>2. PICK p \in 1 .. Len(path) : cycle' = Append(SubSeq(path, p, Len(path)), NextUse)
    BY <1>3 DEF FindCycle
  <2>3. SubSeq(path, p, Len(path)) \in Seq(Candidates) BY <2>2
  <2>4. cycle' \in Seq(Candidates) BY <2>1, <2>2, <2>3
  <2> QED BY <2>4, <1>3 DEF FindCycle
<1>4. CASE Leave
  <2>1. Top \in Candidates /\ Len(path) - 1 \in 0 .. Len(path) BY <1>4 DEF Leave, Top
  <2>2. path' \in Seq(Candidates) BY <2>1, <1>4 DEF Leave
  <2> QED BY <2>1, <2>2, <1>4 DEF Leave
<1>5. CASE NoCycle BY <1>5 DEF NoCycle
<1>6. CASE Look
  <2>1. next \in Candidates /\ next' \in 1 .. N + 1 BY <1>6 DEF Look, Candidates
  <2>2. included' \subseteq Candidates /\ frontier' \subseteq Names BY <2>1, <1>6 DEF Look
  <2> QED BY <2>1, <2>2, <1>6 DEF Look
<1>7. CASE NextPass BY <1>7 DEF NextPass
<1>8. CASE Compose BY <1>8 DEF Compose
<1> QED BY <1>1, <1>2, <1>3, <1>4, <1>5, <1>6, <1>7, <1>8 DEF CteNext

LEMMA ClosureKept ==
    ASSUME ClosureInv, UNCHANGED <<texts, closure>>, phase' # "composed"
    PROVE  ClosureInv'
BY DEF ClosureInv, texts, closure, UseClosed

\* A candidate that is looked at joins exactly when its name is used.
LEMMA LookKeepsClosure == ASSUME CteTypeOK, ClosureInv, Look PROVE ClosureInv'
<1> USE CteAssumption
<1>1. next \in Candidates /\ UNCHANGED <<texts, before>> /\ next' = next + 1 /\ phase' = "closing"
  BY DEF Look, CteTypeOK, Candidates
<1>2. \A S : UseClosed(S)' <=> UseClosed(S) BY <1>1 DEF UseClosed, texts
<1>3. CASE next \notin included /\ name[next] \in frontier
  <2>1. included' = included \cup {next} /\ frontier' = frontier \cup body[next] BY <1>3 DEF Look
  <2>2. frontier' = target \cup UNION {body[d] : d \in included'} BY <2>1 DEF ClosureInv
  <2>3. ASSUME NEW S \in SUBSET Candidates, UseClosed(S) PROVE included' \subseteq S
    <3>1. included \subseteq S BY <2>3 DEF ClosureInv
    <3>2. frontier \subseteq target \cup UNION {body[d] : d \in S} BY <3>1 DEF ClosureInv
    <3>3. next \in S BY <3>2, <2>3, <1>1, <1>3 DEF UseClosed
    <3> QED BY <3>1, <3>3, <2>1
  <2>4. before' \subseteq included' /\ included' # before' BY <1>1, <1>3, <2>1 DEF ClosureInv
  <2> QED BY <2>2, <2>3, <2>4, <1>1, <1>2 DEF ClosureInv, texts
<1>4. CASE ~(next \notin included /\ name[next] \in frontier)
  <2>1. UNCHANGED <<included, frontier>> BY <1>4 DEF Look
  <2>2. ASSUME included = before, NEW c \in Candidates, c < next', name[c] \in frontier
        PROVE  c \in included
    BY <2>2, <1>1, <1>4 DEF ClosureInv, Candidates
  <2> QED BY <2>1, <2>2, <1>1, <1>2 DEF ClosureInv, texts
<1> QED BY <1>3, <1>4

\* The search and the closure together.
CteInv == SearchInv /\ ClosureInv

\* Composing keeps its invariant: the search has a path without a circle behind
\* it, and what is included is used (cte.rs:97-283).
THEOREM CteInvariance == CteSpec => []CteInv
<1>1. CteInit => CteInv BY CteInitially DEF CteInv
<1>2. CteInv /\ [CteNext]_cteVars => CteInv'
  <2> SUFFICES ASSUME CteInv, [CteNext]_cteVars PROVE CteInv' OBVIOUS
  <2> USE DEF CteInv
  <2>0. SearchInv /\ ClosureInv /\ CteTypeOK BY DEF SearchInv
  <2>1. CASE CteNext
    <3>0. CteTypeOK' BY <2>0, <2>1, CteTypeKept
    <3>1. CASE \E c \in Candidates : StartAt(c)
      <4>1. PICK c \in Candidates : StartAt(c) BY <3>1
      <4>2. UNCHANGED <<texts, closure>> /\ phase' # "composed" BY <4>1 DEF StartAt
      <4> QED BY <4>1, <4>2, <3>0, StartKeepsSearch, ClosureKept
    <3>2. CASE Descend
      <4>1. UNCHANGED <<texts, closure>> /\ phase' # "composed" BY <3>2 DEF Descend
      <4> QED BY <4>1, <3>0, <3>2, DescendKeepsSearch, ClosureKept
    <3>3. CASE FindCycle
      <4>1. UNCHANGED <<texts, closure>> /\ phase' # "composed" BY <3>3 DEF FindCycle
      <4> QED BY <4>1, <3>0, <3>3, FindCycleKeepsSearch, ClosureKept
    <3>4. CASE Leave
      <4>1. UNCHANGED <<texts, closure>> /\ phase' # "composed" BY <3>4 DEF Leave
      <4> QED BY <4>1, <3>0, <3>4, LeaveKeepsSearch, ClosureKept
    <3>5. CASE NoCycle
      <4>1. UNCHANGED <<texts, closure>> /\ phase' # "composed" BY <3>5 DEF NoCycle
      <4> QED BY <4>1, <3>0, <3>5, NoCycleKeepsSearch, ClosureKept
    <3>6. ASSUME phase = "closing" PROVE \A c \in Candidates : state[c] = "done"
      BY <3>6 DEF SearchInv
    <3>7. CASE Look
      <4>1. UNCHANGED <<texts, search>> /\ phase = "closing" /\ phase' = "closing" BY <3>7 DEF Look
      <4>2. SearchInv' BY <4>1, <3>0, <3>6, SearchKept
      <4> QED BY <4>2, <2>0, <3>7, LookKeepsClosure
    <3>8. CASE NextPass
      <4>1. UNCHANGED <<texts, search, included, frontier>> /\ phase = "closing" /\ phase' = "closing"
            /\ before' = included /\ next' = 1
        BY <3>8 DEF NextPass
      <4>2. SearchInv' BY <4>1, <3>0, <3>6, SearchKept
      <4>3. \A c \in Candidates : ~(c < 1) BY CteAssumption DEF Candidates
      <4>4. ClosureInv' BY <4>1, <4>3 DEF ClosureInv, UseClosed, texts
      <4> QED BY <4>2, <4>4
    <3>9. CASE Compose
      <4>1. UNCHANGED <<texts, search, closure>> /\ phase = "closing" /\ phase' = "composed"
            /\ next = N + 1 /\ included = before
        BY <3>9 DEF Compose
      <4>2. SearchInv' BY <4>1, <3>0, <3>6, SearchKept
      <4>3. ClosureInv' BY <4>1 DEF ClosureInv, UseClosed, texts, closure
      <4> QED BY <4>2, <4>3
    <3> QED BY <2>1, <3>1, <3>2, <3>3, <3>4, <3>5, <3>7, <3>8, <3>9 DEF CteNext
  <2>2. CASE UNCHANGED cteVars
    <3>1. UNCHANGED <<texts, search, closure, phase>> BY <2>2 DEF cteVars
    <3>2. CteTypeOK' BY <3>1, <2>0 DEF CteTypeOK, texts, search, closure
    <3>3. ClosureInv' BY <3>1 DEF ClosureInv, UseClosed, texts, closure
    <3>4. PathIsStack' /\ TriedIsSeen' BY <3>1 DEF SearchInv, PathIsStack, TriedIsSeen, Uses, texts, search
    <3>5. DoneIsAcyclic' BY <3>1 DEF SearchInv, DoneIsAcyclic, Circular, Uses, texts, search
    <3>6. RefusalShowsCircle' BY <3>1 DEF SearchInv, RefusalShowsCircle, Uses, texts, search
    <3> QED BY <3>1, <3>2, <3>3, <3>4, <3>5, <3>6 DEF SearchInv, search
  <2> QED BY <2>1, <2>2
<1> QED BY <1>1, <1>2, PTL DEF CteSpec

\* What is composed has no circle among the candidates (cte.rs:230-283).
THEOREM AcceptedAreAcyclic == CteSpec => []AcceptedIsAcyclic
<1>1. CteInv => AcceptedIsAcyclic BY DEF CteInv, SearchInv, DoneIsAcyclic, AcceptedIsAcyclic
<1> QED BY <1>1, CteInvariance, PTL

\* The circle a refusal shows is one (cte.rs:267-273).
THEOREM RefusalsShowCircles == CteSpec => []RefusalShowsCircle
<1>1. CteInv => RefusalShowsCircle BY DEF CteInv, SearchInv
<1> QED BY <1>1, CteInvariance, PTL

\* The WITH block is the least set of candidates closed under use (cte.rs:139-156).
THEOREM BlockIsWhatIsUsed == CteSpec => []IncludesWhatIsUsed
<1>1. CteInv => IncludesWhatIsUsed
  <2> SUFFICES ASSUME CteInv, phase = "composed"
               PROVE  UseClosed(included) /\ \A S \in SUBSET Candidates : UseClosed(S) => included \subseteq S
    BY DEF IncludesWhatIsUsed
  <2>1. \A c \in Candidates : c < next BY CteAssumption DEF CteInv, ClosureInv, Candidates
  <2> QED BY <2>1 DEF CteInv, ClosureInv, UseClosed
<1> QED BY <1>1, CteInvariance, PTL

\* What compose answers, for any number of cells and whatever they use (cte.rs:110-191).
THEOREM ComposeIsRight == CteSpec => []ComposeAnswers
<1>1. AcceptedIsAcyclic /\ RefusalShowsCircle /\ IncludesWhatIsUsed => ComposeAnswers BY DEF ComposeAnswers
<1> QED BY <1>1, AcceptedAreAcyclic, RefusalsShowCircles, BlockIsWhatIsUsed, PTL

----------------------------------------------------------------------------
(* The panels beside each other.                                           *)

\* A panel that is chosen stays so, and steps of its own are all it takes.
LEMMA ChosenSteps ==
    ASSUME [PanelsNext]_panelsVars
    PROVE  /\ panel' = panel
           /\ panel = "backup" => [BackupNext]_backupVars
           /\ panel = "compose" => [CteNext]_cteVars
           /\ panel = "ddl" => [DdlNext]_log
           /\ panel = "diff" => [DiffNext]_diffVars
           /\ panel = "erd" => [ErdNext]_erdVars
           /\ panel = "explain" => [ExplainNext]_explainVars
           /\ panel = "jsonb" => [JsonbNext]_jsonbVars
           /\ panel = "mcp" => [McpNext]_mcpVars
           /\ panel = "notebook" => [NotebookNext]_nbVars
           /\ panel = "schema" => [SchemaNext]_schemaVars
<1>1. CASE PanelsNext
  BY <1>1, Zenon DEF PanelsNext
<1>2. CASE UNCHANGED panelsVars
  BY <1>2 DEF panelsVars
<1> QED
  BY <1>1, <1>2

\* In the workbench each panel keeps its types: the steps of the others leave it alone, and what
\* it may begin with it may begin with alone.
THEOREM PanelTypesCorrect == PanelsSpec => []PanelsTypeOK
<1>1. PanelsSpec => [](panel = "backup" => BackupTypeOK)
  <2> DEFINE open == panel = "backup"
  <2>1. PanelsInit => BackupInit
    BY DEF PanelsInit
  <2>2. open /\ [PanelsNext]_panelsVars => [BackupNext]_backupVars /\ open'
    BY ChosenSteps
  <2>3. ~open /\ [PanelsNext]_panelsVars => ~open'
    BY ChosenSteps
  <2>4. BackupInv => BackupTypeOK
    BY DEF BackupInv
  <2> HIDE DEF open
  <2>5. PanelsSpec => [](open => BackupTypeOK)
    BY <2>1, <2>2, <2>3, <2>4, BackupInvariance, PTL DEF PanelsSpec, BackupSpec
  <2> QED
    BY <2>5 DEF open
<1>2. PanelsSpec => [](panel = "compose" => CteTypeOK)
  <2> DEFINE open == panel = "compose"
  <2>1. PanelsInit => CteInit
    BY DEF PanelsInit
  <2>2. open /\ [PanelsNext]_panelsVars => [CteNext]_cteVars /\ open'
    BY ChosenSteps
  <2>3. ~open /\ [PanelsNext]_panelsVars => ~open'
    BY ChosenSteps
  <2>4. CteInv => CteTypeOK
    BY DEF CteInv, SearchInv
  <2> HIDE DEF open
  <2>5. PanelsSpec => [](open => CteTypeOK)
    BY <2>1, <2>2, <2>3, <2>4, CteInvariance, PTL DEF PanelsSpec, CteSpec
  <2> QED
    BY <2>5 DEF open
<1>3. PanelsSpec => [](panel = "ddl" => DdlTypeOK)
  <2> DEFINE open == panel = "ddl"
  <2>1. PanelsInit => DdlInit
    BY DEF PanelsInit
  <2>2. open /\ [PanelsNext]_panelsVars => [DdlNext]_log /\ open'
    BY ChosenSteps
  <2>3. ~open /\ [PanelsNext]_panelsVars => ~open'
    BY ChosenSteps
  <2> HIDE DEF open
  <2>5. PanelsSpec => [](open => DdlTypeOK)
    BY <2>1, <2>2, <2>3, DdlTypesCorrect, PTL DEF PanelsSpec, DdlSpec
  <2> QED
    BY <2>5 DEF open
<1>4. PanelsSpec => [](panel = "diff" => DiffTypeOK)
  <2> DEFINE open == panel = "diff"
  <2>1. PanelsInit => DiffInit
    BY DEF PanelsInit
  <2>2. open /\ [PanelsNext]_panelsVars => [DiffNext]_diffVars /\ open'
    BY ChosenSteps
  <2>3. ~open /\ [PanelsNext]_panelsVars => ~open'
    BY ChosenSteps
  <2> HIDE DEF open
  <2>5. PanelsSpec => [](open => DiffTypeOK)
    BY <2>1, <2>2, <2>3, DiffTypesCorrect, PTL DEF PanelsSpec, DiffSpec
  <2> QED
    BY <2>5 DEF open
<1>5. PanelsSpec => [](panel = "erd" => ErdTypeOK)
  <2> DEFINE open == panel = "erd"
  <2>1. PanelsInit => ErdInit
    BY DEF PanelsInit
  <2>2. open /\ [PanelsNext]_panelsVars => [ErdNext]_erdVars /\ open'
    BY ChosenSteps
  <2>3. ~open /\ [PanelsNext]_panelsVars => ~open'
    BY ChosenSteps
  <2> HIDE DEF open
  <2>5. PanelsSpec => [](open => ErdTypeOK)
    BY <2>1, <2>2, <2>3, ErdTypeCorrect, PTL DEF PanelsSpec, ErdSpec
  <2> QED
    BY <2>5 DEF open
<1>6. PanelsSpec => [](panel = "explain" => ExplainTypeOK)
  <2> DEFINE open == panel = "explain"
  <2>1. PanelsInit => ExplainInit
    BY DEF PanelsInit
  <2>2. open /\ [PanelsNext]_panelsVars => [ExplainNext]_explainVars /\ open'
    BY ChosenSteps
  <2>3. ~open /\ [PanelsNext]_panelsVars => ~open'
    BY ChosenSteps
  <2>4. ExplainInv => ExplainTypeOK
    BY DEF ExplainInv
  <2> HIDE DEF open
  <2>5. PanelsSpec => [](open => ExplainTypeOK)
    BY <2>1, <2>2, <2>3, <2>4, ExplainInvariance, PTL DEF PanelsSpec, ExplainSpec
  <2> QED
    BY <2>5 DEF open
<1>7. PanelsSpec => [](panel = "jsonb" => JsonbTypeOK)
  <2> DEFINE open == panel = "jsonb"
  <2>1. PanelsInit => JsonbInit
    BY DEF PanelsInit
  <2>2. open /\ [PanelsNext]_panelsVars => [JsonbNext]_jsonbVars /\ open'
    BY ChosenSteps
  <2>3. ~open /\ [PanelsNext]_panelsVars => ~open'
    BY ChosenSteps
  <2>4. JsonbInv => JsonbTypeOK
    BY DEF JsonbInv
  <2> HIDE DEF open
  <2>5. PanelsSpec => [](open => JsonbTypeOK)
    BY <2>1, <2>2, <2>3, <2>4, JsonbInvariance, PTL DEF PanelsSpec, JsonbSpec
  <2> QED
    BY <2>5 DEF open
<1>8. PanelsSpec => [](panel = "mcp" => McpTypeOK)
  <2> DEFINE open == panel = "mcp"
  <2>1. PanelsInit => McpInit
    BY DEF PanelsInit
  <2>2. open /\ [PanelsNext]_panelsVars => [McpNext]_mcpVars /\ open'
    BY ChosenSteps
  <2>3. ~open /\ [PanelsNext]_panelsVars => ~open'
    BY ChosenSteps
  <2>4. McpInv => McpTypeOK
    BY DEF McpInv
  <2> HIDE DEF open
  <2>5. PanelsSpec => [](open => McpTypeOK)
    BY <2>1, <2>2, <2>3, <2>4, McpInvariance, PTL DEF PanelsSpec, McpSpec
  <2> QED
    BY <2>5 DEF open
<1>9. PanelsSpec => [](panel = "notebook" => NotebookTypeOK)
  <2> DEFINE open == panel = "notebook"
  <2>1. PanelsInit => NotebookInit
    BY DEF PanelsInit
  <2>2. open /\ [PanelsNext]_panelsVars => [NotebookNext]_nbVars /\ open'
    BY ChosenSteps
  <2>3. ~open /\ [PanelsNext]_panelsVars => ~open'
    BY ChosenSteps
  <2>4. NbInv => NotebookTypeOK
    BY DEF NbInv
  <2> HIDE DEF open
  <2>5. PanelsSpec => [](open => NotebookTypeOK)
    BY <2>1, <2>2, <2>3, <2>4, NotebookInvariance, PTL DEF PanelsSpec, NotebookSpec
  <2> QED
    BY <2>5 DEF open
<1>10. PanelsSpec => [](panel = "schema" => SchemaTypeOK)
  <2> DEFINE open == panel = "schema"
  <2>1. PanelsInit => SchemaInit
    BY DEF PanelsInit
  <2>2. open /\ [PanelsNext]_panelsVars => [SchemaNext]_schemaVars /\ open'
    BY ChosenSteps
  <2>3. ~open /\ [PanelsNext]_panelsVars => ~open'
    BY ChosenSteps
  <2>4. SchemaInv => SchemaTypeOK
    BY DEF SchemaInv
  <2> HIDE DEF open
  <2>5. PanelsSpec => [](open => SchemaTypeOK)
    BY <2>1, <2>2, <2>3, <2>4, SchemaInvariance, PTL DEF PanelsSpec, SchemaSpec
  <2> QED
    BY <2>5 DEF open
<1>11. PanelsTypeOK <=>
         /\ (panel = "backup" => BackupTypeOK)
         /\ (panel = "compose" => CteTypeOK)
         /\ (panel = "ddl" => DdlTypeOK)
         /\ (panel = "diff" => DiffTypeOK)
         /\ (panel = "erd" => ErdTypeOK)
         /\ (panel = "explain" => ExplainTypeOK)
         /\ (panel = "jsonb" => JsonbTypeOK)
         /\ (panel = "mcp" => McpTypeOK)
         /\ (panel = "notebook" => NotebookTypeOK)
         /\ (panel = "schema" => SchemaTypeOK)
  BY DEF PanelsTypeOK
<1> QED
  BY <1>1, <1>2, <1>3, <1>4, <1>5, <1>6, <1>7, <1>8, <1>9, <1>10, <1>11, PTL
=============================================================================
