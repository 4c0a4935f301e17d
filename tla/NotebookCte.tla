---------------------------- MODULE NotebookCte ----------------------------
(***************************************************************************)
(* compose: the SQL of a notebook cell is prefixed with the bodies of the  *)
(* shared cells before it whose names it uses, directly or through one of  *)
(* them.  A depth-first search first refuses cells that use each other in  *)
(* a circle; then passes over the candidates add what the text at hand     *)
(* names, until a pass adds nothing.                                       *)
(*                                                                         *)
(* A text is the set of candidate names found in it at word boundaries.    *)
(* The candidates are the shared SQL cells before the target, numbered in  *)
(* the order of the cells; two of them may carry one name.                 *)
(*                                                                         *)
(* Source: src-tauri/src/notebook/cte.rs.                                  *)
(***************************************************************************)
EXTENDS Naturals, Sequences, FiniteSets

CONSTANTS
    N,          \* number of candidates
    Names,      \* names a cell may carry
    Namings     \* the names of the candidates, first to last: those to consider

ASSUME CteAssumption ==
    /\ N \in Nat
    /\ Namings \subseteq [1 .. N -> Names]

VARIABLES
    name,       \* name of each candidate
    body,       \* names used in each candidate's text
    target,     \* names used in the text of the cell that is run
    phase,      \* "checking", "closing", "composed" or "refused"
    state,      \* of a candidate in the search: "unvisited", "onStack", "done"
    path,       \* candidates being visited, outermost first
    tried,      \* the last candidate looked at from each
    cycle,      \* the circle that is reported
    included,   \* candidates that go in the WITH block
    frontier,   \* names used in the text so far
    next,       \* where the current pass stands
    before      \* included when the pass began (it only grows: the same length is the same set)

texts   == <<name, body, target>>
search  == <<state, path, tried, cycle>>
closure == <<included, frontier, next, before>>
cteVars == <<texts, phase, search, closure>>

Candidates == 1 .. N

\* adj: the other candidates whose name the text of c uses.
Uses(c) == {d \in Candidates \ {c} : name[d] \in body[c]}

CteTypeOK ==
    /\ name \in [Candidates -> Names]
    /\ body \in [Candidates -> SUBSET Names] /\ target \in SUBSET Names
    /\ phase \in {"checking", "closing", "composed", "refused"}
    /\ state \in [Candidates -> {"unvisited", "onStack", "done"}]
    /\ path \in Seq(Candidates) /\ tried \in [Candidates -> 0 .. N]
    /\ cycle \in Seq(Candidates)
    /\ included \subseteq Candidates /\ before \subseteq Candidates
    /\ frontier \subseteq Names
    /\ next \in 1 .. N + 1

CteInit ==
    /\ name \in Namings
    /\ body \in [Candidates -> SUBSET Names] /\ target \in SUBSET Names
    /\ phase = "checking"
    /\ state = [c \in Candidates |-> "unvisited"]
    /\ path = <<>> /\ tried = [c \in Candidates |-> 0] /\ cycle = <<>>
    /\ included = {} /\ frontier = target /\ next = 1 /\ before = {}

----------------------------------------------------------------------------
(* detect_cycle.                                                           *)

Top == path[Len(path)]

\* The candidate looked at next from the one on top.
NextUse == tried[Top] + 1

Visit(c) ==
    /\ state' = [state EXCEPT ![c] = "onStack"]
    /\ path' = Append(path, c)

\* The search starts over at the first candidate it has not seen.
StartAt(c) ==
    /\ phase = "checking" /\ path = <<>>
    /\ state[c] = "unvisited" /\ \A d \in Candidates : d < c => state[d] # "unvisited"
    /\ Visit(c)
    /\ UNCHANGED <<texts, phase, tried, cycle, closure>>

\* Visited in turn: what the top does not use and what is done with are passed over.
Descend ==
    /\ phase = "checking" /\ path # <<>> /\ NextUse <= N
    /\ NextUse \in Uses(Top) => state[NextUse] # "onStack"
    /\ IF NextUse \in Uses(Top) /\ state[NextUse] = "unvisited"
       THEN Visit(NextUse)
       ELSE UNCHANGED <<state, path>>
    /\ tried' = [tried EXCEPT ![Top] = NextUse]
    /\ UNCHANGED <<texts, phase, cycle, closure>>

\* It belongs to one being visited: the path from there on is the circle.
FindCycle ==
    /\ phase = "checking" /\ path # <<>> /\ NextUse <= N
    /\ NextUse \in Uses(Top) /\ state[NextUse] = "onStack"
    /\ \E p \in 1 .. Len(path) :
          /\ path[p] = NextUse
          /\ cycle' = Append(SubSeq(path, p, Len(path)), NextUse)
    /\ phase' = "refused"
    /\ UNCHANGED <<texts, state, path, tried, closure>>

Leave ==
    /\ phase = "checking" /\ path # <<>> /\ NextUse > N
    /\ state' = [state EXCEPT ![Top] = "done"]
    /\ path' = SubSeq(path, 1, Len(path) - 1)
    /\ UNCHANGED <<texts, phase, tried, cycle, closure>>

NoCycle ==
    /\ phase = "checking" /\ path = <<>>
    /\ \A c \in Candidates : state[c] # "unvisited"
    /\ phase' = "closing"
    /\ UNCHANGED <<texts, search, closure>>

----------------------------------------------------------------------------
(* The transitive closure.                                                 *)

\* One candidate of a pass: its text joins when its name is used.
Look ==
    /\ phase = "closing" /\ next <= N
    /\ next' = next + 1
    /\ IF next \notin included /\ name[next] \in frontier
       THEN /\ included' = included \cup {next}
            /\ frontier' = frontier \cup body[next]
       ELSE UNCHANGED <<included, frontier>>
    /\ UNCHANGED <<texts, phase, search, before>>

NextPass ==
    /\ phase = "closing" /\ next = N + 1
    /\ included # before
    /\ before' = included /\ next' = 1
    /\ UNCHANGED <<texts, phase, search, included, frontier>>

\* One pass is taken for all.
ComposeAtOnce ==
    /\ phase = "closing" /\ next = N + 1
    /\ phase' = "composed"
    /\ UNCHANGED <<texts, search, closure>>

\* A pass added nothing: the WITH block lists what is included, in cell order.
Compose ==
    /\ phase = "closing" /\ next = N + 1
    /\ included = before
    /\ phase' = "composed"
    /\ UNCHANGED <<texts, search, closure>>

CteNext ==
    \/ \E c \in Candidates : StartAt(c)
    \/ Descend \/ FindCycle \/ Leave \/ NoCycle
    \/ Look \/ NextPass \/ Compose

CteSpec == CteInit /\ [][CteNext]_cteVars

----------------------------------------------------------------------------
(* Properties.                                                             *)

\* A set of candidates each of which uses another of the set.
Circular(S) == S # {} /\ \A c \in S : Uses(c) \cap S # {}

\* Cells that use each other in a circle are refused, whatever the order they
\* are searched in and whichever part of them the target uses (cte.rs:230-283).
AcceptedIsAcyclic ==
    phase \in {"closing", "composed"} => \A S \in SUBSET Candidates : ~Circular(S)

\* The circle a refusal shows is one: it ends where it starts and each cell on
\* it uses the next (cte.rs:267-273).
RefusalShowsCircle ==
    phase = "refused" =>
        /\ Len(cycle) > 1 /\ cycle[1] = cycle[Len(cycle)]
        /\ \A k \in 1 .. Len(cycle) - 1 : cycle[k + 1] \in Uses(cycle[k])

\* S has every candidate the target or a member of S uses.
UseClosed(S) ==
    \A c \in Candidates :
        name[c] \in target \cup UNION {body[d] : d \in S} => c \in S

\* The WITH block has what the target needs and nothing else: it is the least
\* set of candidates that is closed under use (cte.rs:139-156).
IncludesWhatIsUsed ==
    phase = "composed" =>
        /\ UseClosed(included)
        /\ \A S \in SUBSET Candidates : UseClosed(S) => included \subseteq S

\* What compose answers: the least WITH block that is enough, of cells without a
\* circle, or a circle that is there.
ComposeAnswers == AcceptedIsAcyclic /\ RefusalShowsCircle /\ IncludesWhatIsUsed

\* What the head of cte.rs (3-5) says of the cells: a shared cell is reused by later
\* cells only, so that the WITH block defines a name before a body uses it.
ReusedByLaterCells ==
    phase = "composed" => \A c \in included : \A d \in Uses(c) : d < c

=============================================================================
