------------------------ MODULE MigrationApplyProofs ------------------------
(***************************************************************************)
(* The ledger and the database agree, for every number of versions,        *)
(* contents, clients and commands; a command leaves no gap; and with fewer *)
(* commands than clients they do not wait for each other.                  *)
(***************************************************************************)
EXTENDS MigrationApply, WellFoundedInduction, FiniteSetTheorems, TLAPS

InFlightPoints == {"run", "row", "undo", "unrow"}

\* What a command knows of the version it is about to run or to record.
Knows(c) ==
    LET v == Cur(c)
    IN v \notin parted =>
         /\ At(c, "run")   => ledger[v] = schema[v] /\ (cmd[c].tracked => ledger[v] = None)
         /\ At(c, "undo")  => ledger[v] = schema[v] /\ (cmd[c].tracked => ledger[v] # None)
         /\ At(c, "row")   => ledger[v] = None /\ schema[v] = cmd[c].bytes
         /\ At(c, "unrow") => schema[v] = None

\* Two commands in flight on one version part it.
OneInFlight ==
    \A c, d \in Commands : \A v \in Versions :
        c # d /\ InFlight(c, v) /\ InFlight(d, v) => v \in parted

\* The inductive invariant: agreement, and what lies between its breaches.
MInv ==
    /\ TypeOK
    /\ \A c \in Commands : Knows(c)
    /\ OneInFlight
    /\ LedgerAgrees
    /\ ScriptsFit

----------------------------------------------------------------------------
\* A set of numbers has a first: there is no infinite descent in Nat.
LEMMA LeastNumber ==
    ASSUME NEW S \in SUBSET Nat, S # {}
    PROVE  \E m \in S : \A n \in S : m <= n
<1>1. ASSUME NEW R, IsWellFoundedOn(R, Nat), \A m, n \in Nat : n < m => <<n, m>> \in R
      PROVE  \E m \in S : \A n \in S : m <= n
  <2>1. PICK m \in S : \A n \in S : ~ (<<n, m>> \in R)
    BY <1>1, WFMin
  <2>2. \A n \in S : ~ (n < m)
    BY <1>1, <2>1
  <2> QED
    BY <2>2
<1>2. \A m, n \in Nat : n < m => <<n, m>> \in OpToRel(<, Nat)
  BY DEF OpToRel
<1> QED
  BY <1>1, <1>2, NatLessThanWellFounded, Zenon

\* So has a set of versions.
LEMMA FirstVersion ==
    ASSUME NEW S \in SUBSET Versions, S # {}
    PROVE  \E v \in S : \A u \in S : v <= u
  BY LeastNumber, MigrationAssumption DEF MigrationAssumption

\* The first of a set of versions is one of them.
LEMMA LeastIsIn ==
    ASSUME NEW S, S \subseteq Versions, S # {}
    PROVE  Least(S) \in S
  BY FirstVersion DEF Least

\* None is neither a client nor a content.
LEMMA NoneDistinct == None \notin Clients /\ None \notin Contents
  BY MigrationAssumption DEF MigrationAssumption

\* A command in flight is at a version it chose.
LEMMA CurType ==
    ASSUME TypeOK, NEW c \in Commands, cmd[c].todo # {}
    PROVE  Cur(c) \in cmd[c].todo /\ Cur(c) \in Versions
  BY LeastIsIn DEF TypeOK, Command, Cur

\* A command that ends keeps its shape.
LEMMA EndedType ==
    ASSUME NEW r \in Command, WellFormed(r)
    PROVE  /\ Ended(r) \in Command /\ WellFormed(Ended(r))
           /\ Ended(r).pc = "over"
  BY DEF Ended, Command, WellFormed, Working

\* A command that goes on to its next version keeps its shape.
LEMMA AdvancedType ==
    ASSUME NEW r \in Command, WellFormed(r), NEW v \in r.todo,
           r.pc \in {"run", "row", "undo"}
    PROVE  /\ Advanced(r, v) \in Command /\ WellFormed(Advanced(r, v))
           /\ Advanced(r, v).pc \in {"file", "over"}
<1>1. CASE r.todo = {v}
  <2> DEFINE q == [r EXCEPT !.todo = {}, !.pc = "over", !.client = None, !.second = None]
  <2>1. Advanced(r, v) = q
    BY <1>1 DEF Advanced, Ended, Command
  <2>2. q \in Command /\ q.pc = "over" /\ q.todo = {} /\ q.client = None /\ q.second = None
    BY DEF Command, Working
  <2>3. WellFormed(q)
    <3> HIDE DEF q
    <3> QED
      BY <2>2 DEF WellFormed, Working
  <2> QED
    BY <2>1, <2>2, <2>3
<1>2. CASE r.todo # {v}
  <2> DEFINE q == Advanced(r, v)
  <2>1. q \in Command /\ q.pc = "file" /\ q.todo = r.todo \ {v}
    BY <1>2 DEF Advanced, Command, Working
  <2>2. /\ q.client = r.client /\ q.second = r.second
        /\ q.chosen = r.chosen
    BY <1>2 DEF Advanced, Command
  <2>3. r.client # None /\ r.second = None
    BY DEF WellFormed, Working
  <2>4. WellFormed(q)
    <3> HIDE DEF q
    <3> QED
      BY <1>2, <2>1, <2>2, <2>3 DEF WellFormed, Working
  <2> QED
    BY <2>1, <2>4
<1> QED
  BY <1>1, <1>2

\* Changing one command leaves the others and the types alone.
LEMMA OneCommandMoves ==
    ASSUME TypeOK, NEW c \in Commands, NEW r \in Command, WellFormed(r),
           cmd' = [cmd EXCEPT ![c] = r]
    PROVE  /\ cmd' \in [Commands -> Command]
           /\ \A d \in Commands : WellFormed(cmd'[d])
           /\ cmd'[c] = r
           /\ \A d \in Commands \ {c} : cmd'[d] = cmd[d]
  BY DEF TypeOK

\* What MInv says beyond types.
Agreement ==
    /\ \A c \in Commands : Knows(c)
    /\ OneInFlight
    /\ LedgerAgrees
    /\ ScriptsFit

----------------------------------------------------------------------------
(* How one command's step can disturb the agreement.                       *)

\* It does not touch the tables, and is not in flight afterwards.
LEMMA StaysOut ==
    ASSUME TypeOK, Agreement, NEW c \in Commands,
           cmd[c].pc \notin {"row", "unrow"},
           cmd'[c].pc \notin InFlightPoints,
           \A d \in Commands \ {c} : cmd'[d] = cmd[d],
           UNCHANGED <<ledger, schema, parted, misrun>>
    PROVE  Agreement'
<1> USE DEF Agreement
<1>1. \A d \in Commands : Knows(d)'
  BY DEF Knows, At, Cur, InFlightPoints
<1>2. OneInFlight'
  BY DEF OneInFlight, InFlight, Cur, InFlightPoints
<1>3. LedgerAgrees'
  <2> SUFFICES ASSUME NEW v \in Versions \ parted, \A d \in Commands : ~InFlight(d, v)'
               PROVE  ledger[v] = schema[v]
    BY DEF LedgerAgrees
  <2>1. \A d \in Commands \ {c} : ~InFlight(d, v)
    BY DEF InFlight, Cur
  <2>2. CASE InFlight(c, v)
    BY <2>2 DEF InFlight, Knows, At
  <2>3. CASE ~InFlight(c, v)
    BY <2>1, <2>3 DEF LedgerAgrees
  <2> QED
    BY <2>2, <2>3
<1>4. ScriptsFit'
  BY DEF ScriptsFit
<1> QED
  BY <1>1, <1>2, <1>3, <1>4

\* It leaves its flight with row and effect in agreement, or parted.
LEMMA Lands ==
    ASSUME TypeOK, Agreement, NEW c \in Commands, NEW v \in Versions,
           InFlight(c, v), cmd'[c].pc \notin InFlightPoints,
           \A d \in Commands \ {c} : cmd'[d] = cmd[d],
           \A u \in Versions \ {v} : ledger'[u] = ledger[u] /\ schema'[u] = schema[u],
           parted \subseteq parted', parted' \subseteq parted \cup {v},
           v \notin parted' => ledger'[v] = schema'[v],
           misrun' \subseteq misrun \cup {v}, v \in misrun' => v \in parted' \/ v \in misrun
    PROVE  Agreement'
<1> USE DEF Agreement
<1>1. \A d \in Commands \ {c} : InFlight(d, v) => v \in parted
  BY DEF OneInFlight
<1>2. ASSUME NEW d \in Commands
      PROVE  Knows(d)'
  <2>1. CASE d = c
    BY <2>1 DEF Knows, At, InFlightPoints
  <2>2. CASE d # c /\ cmd[d].pc \notin InFlightPoints
    BY <2>2 DEF Knows, At, InFlightPoints
  <2>3. CASE d # c /\ cmd[d].pc \in InFlightPoints
    <3>1. Cur(d) \in Versions
      BY <2>3, CurType DEF TypeOK, WellFormed, InFlightPoints
    <3>2. CASE Cur(d) = v
      BY <1>1, <2>3, <3>2 DEF Knows, At, Cur, InFlight, InFlightPoints
    <3>3. CASE Cur(d) # v
      <4>1. Knows(d) /\ cmd'[d] = cmd[d] /\ Cur(d)' = Cur(d)
        BY <2>3 DEF Cur
      <4>2. Cur(d) \notin parted' => Cur(d) \notin parted
        OBVIOUS
      <4> QED
        BY <3>1, <3>3, <4>1, <4>2 DEF Knows, At
    <3> QED
      BY <3>2, <3>3
  <2> QED
    BY <2>1, <2>2, <2>3
<1>3. OneInFlight'
  <2> SUFFICES ASSUME NEW d \in Commands, NEW e \in Commands, NEW u \in Versions,
                      d # e, InFlight(d, u)', InFlight(e, u)'
               PROVE  u \in parted'
    BY DEF OneInFlight
  <2>1. d # c /\ e # c
    BY DEF InFlight, InFlightPoints
  <2>2. InFlight(d, u) /\ InFlight(e, u)
    BY <2>1 DEF InFlight, Cur
  <2> QED
    BY <2>2 DEF OneInFlight
<1>4. LedgerAgrees'
  <2> SUFFICES ASSUME NEW u \in Versions \ parted', \A d \in Commands : ~InFlight(d, u)'
               PROVE  ledger'[u] = schema'[u]
    BY DEF LedgerAgrees
  <2>1. CASE u = v
    BY <2>1
  <2>2. CASE u # v
    <3>1. ~InFlight(c, u)
      BY <2>2 DEF InFlight
    <3>2. \A d \in Commands \ {c} : ~InFlight(d, u)
      BY DEF InFlight, Cur
    <3> QED
      BY <2>2, <3>1, <3>2 DEF LedgerAgrees
  <2> QED
    BY <2>1, <2>2
<1>5. ScriptsFit'
  BY DEF ScriptsFit
<1> QED
  BY <1>2, <1>3, <1>4, <1>5

\* It looks its version up: another command in flight there parts it.
LEMMA Enters ==
    ASSUME TypeOK, Agreement, NEW c \in Commands, NEW v \in Versions,
           v = Cur(c), cmd[c].pc \notin InFlightPoints,
           cmd'[c].pc \in {"run", "undo"}, Cur(c)' = v,
           cmd'[c].tracked => IF cmd'[c].pc = "run" THEN ledger[v] = None ELSE ledger[v] # None,
           \A d \in Commands \ {c} : cmd'[d] = cmd[d],
           parted' = parted \cup {u \in {v} : \E d \in Commands \ {c} : InFlight(d, u)},
           UNCHANGED <<ledger, schema, misrun>>
    PROVE  Agreement'
<1> USE DEF Agreement
<1>1. Knows(c)'
  <2> SUFFICES ASSUME v \notin parted'
               PROVE  ledger[v] = schema[v]
    BY DEF Knows, At
  <2>1. \A d \in Commands : ~InFlight(d, v)
    BY DEF InFlight, InFlightPoints
  <2> QED
    BY <2>1 DEF LedgerAgrees
<1>2. ASSUME NEW d \in Commands \ {c}
      PROVE  Knows(d)'
  <2>1. Knows(d) /\ cmd'[d] = cmd[d] /\ Cur(d)' = Cur(d)
    BY DEF Cur
  <2> QED
    BY <2>1 DEF Knows, At
<1>3. OneInFlight'
  <2> SUFFICES ASSUME NEW d \in Commands, NEW e \in Commands, NEW u \in Versions,
                      d # e, InFlight(d, u)', InFlight(e, u)'
               PROVE  u \in parted'
    BY DEF OneInFlight
  <2>1. \A f \in Commands \ {c} : InFlight(f, u)' => InFlight(f, u)
    BY DEF InFlight, Cur
  <2>2. CASE d # c /\ e # c
    BY <2>1, <2>2 DEF OneInFlight
  <2>3. CASE d = c \/ e = c
    <3>1. u = v
      BY <2>3 DEF InFlight
    <3> QED
      BY <2>1, <2>3, <3>1
  <2> QED
    BY <2>2, <2>3
<1>4. LedgerAgrees'
  <2> SUFFICES ASSUME NEW u \in Versions \ parted', \A d \in Commands : ~InFlight(d, u)'
               PROVE  ledger[u] = schema[u]
    BY DEF LedgerAgrees
  <2>1. \A d \in Commands : ~InFlight(d, u)
    BY DEF InFlight, Cur, InFlightPoints
  <2> QED
    BY <2>1 DEF LedgerAgrees
<1>5. ScriptsFit'
  BY DEF ScriptsFit
<1> QED
  BY <1>1, <1>2, <1>3, <1>4, <1>5

\* Its script commits, and it goes on to write the row.
LEMMA Acts ==
    ASSUME TypeOK, Agreement, NEW c \in Commands, NEW v \in Versions,
           InFlight(c, v), cmd'[c].pc \in {"row", "unrow"}, Cur(c)' = v,
           \A d \in Commands \ {c} : cmd'[d] = cmd[d],
           \A u \in Versions \ {v} : schema'[u] = schema[u],
           v \notin parted => IF cmd'[c].pc = "row" THEN ledger[v] = None /\ schema'[v] = cmd'[c].bytes
                                                    ELSE schema'[v] = None,
           UNCHANGED <<ledger, parted>>,
           misrun' \subseteq misrun \cup {v}, v \in misrun' => v \in parted \/ v \in misrun
    PROVE  Agreement'
<1> USE DEF Agreement
<1>1. Knows(c)'
  BY DEF Knows, At
<1>2. ASSUME NEW d \in Commands \ {c}
      PROVE  Knows(d)'
  <2>1. Knows(d) /\ cmd'[d] = cmd[d] /\ Cur(d)' = Cur(d)
    BY DEF Cur
  <2>2. CASE cmd[d].pc \notin InFlightPoints
    BY <2>1, <2>2 DEF Knows, At, InFlightPoints
  <2>3. CASE cmd[d].pc \in InFlightPoints /\ Cur(d) = v
    <3>1. InFlight(d, v)
      BY <2>3 DEF InFlight, InFlightPoints
    <3>2. v \in parted
      BY <3>1 DEF OneInFlight
    <3> QED
      BY <2>1, <2>3, <3>2 DEF Knows
  <2>4. CASE cmd[d].pc \in InFlightPoints /\ Cur(d) # v
    <3>1. Cur(d) \in Versions
      BY <2>4, CurType DEF TypeOK, WellFormed, InFlightPoints
    <3> QED
      BY <2>1, <2>4, <3>1 DEF Knows, At
  <2> QED
    BY <2>2, <2>3, <2>4
<1>3. OneInFlight'
  <2>1. \A d \in Commands : \A u \in Versions : InFlight(d, u)' => InFlight(d, u)
    BY DEF InFlight, Cur
  <2> QED
    BY <2>1 DEF OneInFlight
<1>4. LedgerAgrees'
  <2> SUFFICES ASSUME NEW u \in Versions \ parted', \A d \in Commands : ~InFlight(d, u)'
               PROVE  ledger[u] = schema'[u]
    BY DEF LedgerAgrees
  <2>1. u # v
    BY DEF InFlight
  <2>2. \A d \in Commands : ~InFlight(d, u)
    BY <2>1 DEF InFlight, Cur
  <2> QED
    BY <2>1, <2>2 DEF LedgerAgrees
<1>5. ScriptsFit'
  BY DEF ScriptsFit
<1> QED
  BY <1>1, <1>2, <1>3, <1>4, <1>5

----------------------------------------------------------------------------
\* The invariant holds when the program starts.
LEMMA InitInv == Init => MInv
<1> SUFFICES ASSUME Init PROVE MInv
  OBVIOUS
<1>1. NotBegun \in Command /\ WellFormed(NotBegun)
  BY DEF NotBegun, Command, WellFormed, Working, Requests, Request
<1>2. TypeOK
  BY <1>1, MigrationAssumption DEF MigrationAssumption, Init, TypeOK
<1>3. \A c \in Commands : cmd[c].pc = "idle"
  BY DEF Init, NotBegun
<1>4. (\A c \in Commands : Knows(c)) /\ OneInFlight
  BY <1>3 DEF Knows, At, OneInFlight, InFlight
<1>5. LedgerAgrees /\ ScriptsFit
  BY DEF LedgerAgrees, ScriptsFit, Init
<1> QED
  BY <1>2, <1>4, <1>5 DEF MInv

\* What is chosen are versions.
LEMMA ChosenType ==
    ASSUME NEW r \in Requests, NEW A \in SUBSET Versions, NEW B \in SUBSET Versions, NEW R
    PROVE  Chosen(r, A, B, R) \subseteq Versions
<1>1. r.kind \in {"single", "range", "all", "rollback"}
  BY DEF Requests, Request
<1> QED
  BY <1>1 DEF Chosen, Pending, Between

\* Choosing moves nothing but the command itself.
LEMMA SelectMoves ==
    ASSUME TypeOK, NEW c \in Commands, NEW rows, Select(c, rows),
           cmd[c].pc \in {"second", "read"}
    PROVE  /\ cmd' \in [Commands -> Command]
           /\ \A d \in Commands : WellFormed(cmd'[d])
           /\ \A d \in Commands \ {c} : cmd'[d] = cmd[d]
           /\ cmd'[c].pc \in {"over", "look", "file"}
<1> DEFINE chosen == Chosen(cmd[c].req, cmd[c].ups, cmd[c].downs, rows)
           next   == IF cmd[c].req.kind = "rollback" THEN "look" ELSE "file"
           q      == [cmd[c] EXCEPT !.pc = next, !.second = None, !.chosen = chosen, !.todo = chosen]
<1>1. cmd[c] \in Command /\ WellFormed(cmd[c])
  BY DEF TypeOK
<1>2. chosen \subseteq Versions
  BY <1>1, ChosenType DEF Command
<1>3. CASE chosen = {}
  <2>1. cmd' = [cmd EXCEPT ![c] = Ended(cmd[c])]
    BY <1>3 DEF Select
  <2> HIDE DEF chosen, next, q
  <2> QED
    BY <1>1, <2>1, EndedType, OneCommandMoves
<1>4. CASE chosen # {}
  <2>1. cmd' = [cmd EXCEPT ![c] = q]
    BY <1>4 DEF Select
  <2>2. q \in Command /\ WellFormed(q) /\ q.pc \in {"look", "file"}
    <3>1. next \in {"look", "file"}
      OBVIOUS
    <3> HIDE DEF chosen, next
    <3> QED
      BY <1>1, <1>2, <1>4, <3>1 DEF Command, WellFormed, Working
  <2> HIDE DEF chosen, next, q
  <2> QED
    BY <2>1, <2>2, OneCommandMoves
<1> QED
  BY <1>3, <1>4

\* Every step that leaves the tables alone and does not start a flight.
LEMMA QuietMoves ==
    ASSUME TypeOK, NEW c \in Commands,
           \/ \E r \in Requests : Begin(c, r)
           \/ Take(c) \/ Discover(c) \/ TakeSecond(c) \/ SecondFails(c) \/ ReadLedger(c)
           \/ ReadFile(c) \/ Refused(c) \/ ScriptFails(c)
    PROVE  /\ cmd' \in [Commands -> Command]
           /\ \A d \in Commands : WellFormed(cmd'[d])
           /\ \A d \in Commands \ {c} : cmd'[d] = cmd[d]
           /\ cmd[c].pc \notin {"row", "unrow"}
           /\ cmd'[c].pc \notin InFlightPoints
<1>1. cmd[c] \in Command /\ WellFormed(cmd[c])
  BY DEF TypeOK
<1>3. CASE \E r \in Requests : Begin(c, r)
  <2>1. PICK r \in Requests : Begin(c, r)
    BY <1>3
  <2> DEFINE q == [cmd[c] EXCEPT !.pc = "take", !.req = r, !.tracked = tracking]
  <2>2. cmd' = [cmd EXCEPT ![c] = q]
    BY <2>1 DEF Begin
  <2>3. q \in Command /\ WellFormed(q) /\ q.pc = "take"
    BY <1>1, <2>1 DEF Begin, At, TypeOK, Command, WellFormed, Working
  <2> HIDE DEF q
  <2> QED
    BY <2>1, <2>2, <2>3, OneCommandMoves DEF Begin, At, InFlightPoints
<1>4. CASE Take(c)
  <2>1. PICK s \in Clients : cmd' = [cmd EXCEPT ![c].pc = "discover", ![c].client = s]
    BY <1>4 DEF Take, Free
  <2> DEFINE q == [cmd[c] EXCEPT !.pc = "discover", !.client = s]
  <2>2. cmd' = [cmd EXCEPT ![c] = q]
    BY <2>1
  <2>3. q \in Command /\ WellFormed(q) /\ q.pc = "discover"
    BY <1>1, <1>4, NoneDistinct DEF Take, At, Command, WellFormed, Working
  <2> HIDE DEF q
  <2> QED
    BY <1>4, <2>2, <2>3, OneCommandMoves DEF Take, At, InFlightPoints
<1>5. CASE Discover(c)
  <2> DEFINE q == [cmd[c] EXCEPT !.pc = "second", !.joined = tracking,
                                 !.ups = {v \in Versions : up[v] # None}, !.downs = down]
  <2>1. cmd' = [cmd EXCEPT ![c] = q]
    BY <1>5 DEF Discover
  <2>2. q \in Command /\ WellFormed(q) /\ q.pc = "second"
    BY <1>1, <1>5 DEF Discover, At, TypeOK, Command, WellFormed, Working
  <2> HIDE DEF q
  <2> QED
    BY <1>5, <2>1, <2>2, OneCommandMoves DEF Discover, At, InFlightPoints
<1>6. CASE TakeSecond(c)
  <2>1. PICK s \in Clients : cmd' = [cmd EXCEPT ![c].pc = "read", ![c].second = s]
    BY <1>6 DEF TakeSecond, Free
  <2> DEFINE q == [cmd[c] EXCEPT !.pc = "read", !.second = s]
  <2>2. cmd' = [cmd EXCEPT ![c] = q]
    BY <2>1
  <2>3. q \in Command /\ WellFormed(q) /\ q.pc = "read"
    BY <1>1, <1>6, NoneDistinct DEF TakeSecond, At, Command, WellFormed, Working
  <2> HIDE DEF q
  <2> QED
    BY <1>6, <2>2, <2>3, OneCommandMoves DEF TakeSecond, At, InFlightPoints
<1>7. CASE SecondFails(c) \/ ReadLedger(c)
  <2>1. cmd[c].pc \in {"second", "read"} /\ \E rows : Select(c, rows)
    BY <1>7 DEF SecondFails, ReadLedger, At
  <2> QED
    BY <2>1, SelectMoves DEF InFlightPoints
<1>8. CASE ReadFile(c)
  <2> DEFINE q == [cmd[c] EXCEPT !.pc = "check", !.bytes = up[Cur(c)]]
  <2>1. Cur(c) \in Versions
    BY <1>1, <1>8, CurType DEF ReadFile, At, WellFormed
  <2>2. cmd' = [cmd EXCEPT ![c] = q]
    BY <1>8 DEF ReadFile
  <2>3. q \in Command /\ WellFormed(q) /\ q.pc = "check"
    BY <1>1, <1>8, <2>1 DEF ReadFile, At, TypeOK, Command, WellFormed, Working
  <2> HIDE DEF q
  <2> QED
    BY <1>8, <2>2, <2>3, OneCommandMoves DEF ReadFile, At, InFlightPoints
<1>9. CASE Refused(c) \/ ScriptFails(c)
  <2>1. cmd' = [cmd EXCEPT ![c] = Ended(cmd[c])] /\ cmd[c].pc \notin {"row", "unrow"}
    BY <1>9 DEF Refused, ScriptFails, End, At
  <2> QED
    BY <1>1, <2>1, EndedType, OneCommandMoves DEF InFlightPoints
<1> QED
  BY <1>3, <1>4, <1>5, <1>6, <1>7, <1>8, <1>9

\* The quiet steps keep the invariant.
LEMMA QuietInv ==
    ASSUME MInv, NEW c \in Commands,
           \/ \E r \in Requests : Begin(c, r)
           \/ Take(c) \/ Discover(c) \/ TakeSecond(c) \/ SecondFails(c) \/ ReadLedger(c)
           \/ ReadFile(c) \/ Refused(c) \/ ScriptFails(c)
    PROVE  MInv'
<1>1. TypeOK /\ Agreement
  BY DEF MInv, Agreement
<1>2. UNCHANGED <<ledger, schema, parted, misrun, up, down, tracking, changes>>
  BY DEF Begin, Take, Discover, TakeSecond, SecondFails, ReadLedger, ReadFile, Refused,
         ScriptFails, folder
<1>3. aborted' \subseteq Clients
  <2>1. CASE ScriptFails(c)
    <3>1. cmd[c] \in Command /\ WellFormed(cmd[c]) /\ aborted \subseteq Clients
      BY <1>1 DEF TypeOK
    <3>2. cmd[c].client \in Clients
      BY <2>1, <3>1 DEF ScriptFails, WellFormed, Working, Command
    <3> QED
      BY <2>1, <3>1, <3>2 DEF ScriptFails
  <2>2. CASE ~ScriptFails(c)
    <3>1. aborted' = aborted
      BY <2>2 DEF Begin, Take, Discover, TakeSecond, SecondFails, ReadLedger, ReadFile, Refused
    <3> QED
      BY <1>1, <3>1 DEF TypeOK
  <2> QED
    BY <2>1, <2>2
<1>4. TypeOK'
  BY <1>1, <1>2, <1>3, QuietMoves DEF TypeOK
<1>5. Agreement'
  BY <1>1, <1>2, QuietMoves, StaysOut
<1> QED
  BY <1>4, <1>5 DEF MInv, Agreement

\* CheckLedger and LookForRow.
LEMMA LookupInv ==
    ASSUME MInv, NEW c \in Commands, CheckLedger(c) \/ LookForRow(c)
    PROVE  MInv'
<1> DEFINE next == IF CheckLedger(c) THEN "run" ELSE "undo"
           v == Cur(c)
           q == [cmd[c] EXCEPT !.pc = next]
<1>1. TypeOK /\ Agreement /\ cmd[c] \in Command /\ WellFormed(cmd[c])
  BY DEF MInv, Agreement, TypeOK
<1>2. cmd[c].pc = (IF next = "run" THEN "check" ELSE "look") /\ next \in {"run", "undo"}
  BY DEF CheckLedger, LookForRow, At
<1>3. cmd' = [cmd EXCEPT ![c] = q]
  BY DEF CheckLedger, LookForRow, Lookup, At
<1>4. parted' = parted \cup {u \in {v} : \E d \in Commands \ {c} : InFlight(d, u)}
  BY DEF CheckLedger, LookForRow, Lookup, Part
<1>5. UNCHANGED <<ledger, schema, misrun, aborted, up, down, tracking, changes>>
  BY DEF CheckLedger, LookForRow, folder
<1>6. cmd[c].tracked => IF next = "run" THEN ledger[v] = None ELSE ledger[v] # None
  BY DEF CheckLedger, LookForRow, At
<1>7. v \in Versions
  BY <1>1, <1>2, CurType DEF WellFormed
<1>8. q \in Command /\ WellFormed(q) /\ q.pc = next /\ q.todo = cmd[c].todo /\ q.tracked = cmd[c].tracked
  BY <1>1, <1>2 DEF Command, WellFormed, Working
<1> HIDE DEF next, q
<1>9. /\ cmd' \in [Commands -> Command] /\ cmd'[c] = q
      /\ \A d \in Commands : WellFormed(cmd'[d])
      /\ \A d \in Commands \ {c} : cmd'[d] = cmd[d]
  BY <1>1, <1>3, <1>8, OneCommandMoves
<1>10. Cur(c)' = v
  BY <1>8, <1>9 DEF Cur
<1> HIDE DEF v
<1>11. TypeOK'
  BY <1>1, <1>4, <1>5, <1>7, <1>9 DEF TypeOK
<1>12. v = Cur(c) /\ cmd[c].pc \notin InFlightPoints
  BY <1>2 DEF v, InFlightPoints
<1>13. Agreement'
  BY <1>1, <1>2, <1>4, <1>5, <1>6, <1>7, <1>8, <1>9, <1>10, <1>12, Enters
<1> QED
  BY <1>11, <1>13 DEF MInv, Agreement

\* A command in flight is at a version of its own.
LEMMA FlightType ==
    ASSUME TypeOK, NEW c \in Commands, cmd[c].pc \in InFlightPoints
    PROVE  /\ Cur(c) \in Versions /\ Cur(c) \in cmd[c].todo /\ InFlight(c, Cur(c))
           /\ cmd[c] \in Command /\ WellFormed(cmd[c])
<1>1. cmd[c] \in Command /\ WellFormed(cmd[c])
  BY DEF TypeOK
<1>2. cmd[c].todo # {}
  BY <1>1 DEF WellFormed, InFlightPoints
<1> QED
  BY <1>1, <1>2, CurType DEF InFlight, InFlightPoints

\* RunScript and UndoScript of a command that records what it does.
LEMMA ActInv ==
    ASSUME MInv, NEW c \in Commands, RunScript(c) \/ UndoScript(c), cmd[c].tracked
    PROVE  MInv'
<1> DEFINE v == Cur(c)
           q == IF RunScript(c) THEN [cmd[c] EXCEPT !.ran = @ \cup {v}, !.pc = "row"]
                                ELSE [cmd[c] EXCEPT !.pc = "unrow"]
<1>1. TypeOK /\ Agreement /\ cmd[c].pc \in InFlightPoints
  BY DEF MInv, Agreement, RunScript, UndoScript, At, InFlightPoints
<1>2. v \in Versions /\ InFlight(c, v) /\ cmd[c] \in Command /\ WellFormed(cmd[c])
  BY <1>1, FlightType
<1>3. cmd' = [cmd EXCEPT ![c] = q]
  BY DEF RunScript, UndoScript
<1>4. /\ q \in Command /\ WellFormed(q) /\ q.todo = cmd[c].todo /\ q.bytes = cmd[c].bytes
      /\ IF RunScript(c) THEN q.pc = "row" /\ At(c, "run") ELSE q.pc = "unrow" /\ At(c, "undo")
  BY <1>2 DEF RunScript, UndoScript, At, Command, WellFormed, Working
<1>5. UNCHANGED <<ledger, parted, aborted, up, down, tracking, changes>>
  BY <1>2 DEF RunScript, UndoScript, Part, folder
<1>6. IF RunScript(c) THEN ScriptCommits(c, v) ELSE UndoCommits(c, v)
  BY DEF RunScript, UndoScript
<1> HIDE DEF q
<1>7. /\ cmd' \in [Commands -> Command] /\ cmd'[c] = q
      /\ \A d \in Commands : WellFormed(cmd'[d])
      /\ \A d \in Commands \ {c} : cmd'[d] = cmd[d]
  BY <1>1, <1>3, <1>4, OneCommandMoves
<1>8. Cur(c)' = v
  BY <1>4, <1>7 DEF Cur
<1>9. Knows(c)
  BY <1>1 DEF Agreement
<1>10. v \notin parted => IF RunScript(c) THEN ledger[v] = None /\ schema[v] = None ELSE schema[v] # None
  BY <1>4, <1>9 DEF Knows
<1>11. /\ schema' \in [Versions -> Contents \cup {None}]
       /\ schema'[v] = IF RunScript(c) THEN cmd[c].bytes ELSE None
       /\ \A u \in Versions \ {v} : schema'[u] = schema[u]
  BY <1>1, <1>2, <1>6 DEF TypeOK, ScriptCommits, UndoCommits, Command
<1>12. misrun' \subseteq misrun \cup {v} /\ (v \in misrun' => v \in parted \/ v \in misrun)
  BY <1>6, <1>10 DEF ScriptCommits, UndoCommits
<1> HIDE DEF v
<1>13. TypeOK'
  BY <1>1, <1>2, <1>5, <1>7, <1>11, <1>12 DEF TypeOK
<1>14. v \notin parted => IF cmd'[c].pc = "row" THEN ledger[v] = None /\ schema'[v] = cmd'[c].bytes
                                               ELSE schema'[v] = None
  BY <1>4, <1>7, <1>10, <1>11
<1>15. cmd'[c].pc \in {"row", "unrow"}
  BY <1>4, <1>7
<1>16. Agreement'
  BY <1>1, <1>2, <1>5, <1>7, <1>8, <1>11, <1>12, <1>14, <1>15, Acts
<1> QED
  BY <1>13, <1>16 DEF MInv, Agreement

\* What a command becomes when its flight ends.
LEMMA FlightEnds ==
    ASSUME TypeOK, NEW c \in Commands, cmd[c].pc \in InFlightPoints, NEW r \in Command,
           WellFormed(r), r.pc = cmd[c].pc, r.todo = cmd[c].todo,
           \/ cmd' = [cmd EXCEPT ![c] = Ended(r)]
           \/ cmd[c].pc \in {"run", "row", "undo"} /\ cmd' = [cmd EXCEPT ![c] = Advanced(r, Cur(c))]
    PROVE  /\ cmd' \in [Commands -> Command]
           /\ \A d \in Commands : WellFormed(cmd'[d])
           /\ \A d \in Commands \ {c} : cmd'[d] = cmd[d]
           /\ cmd'[c].pc \notin InFlightPoints
<1>1. CASE cmd' = [cmd EXCEPT ![c] = Ended(r)]
  BY <1>1, EndedType, OneCommandMoves DEF InFlightPoints
<1>2. CASE cmd[c].pc \in {"run", "row", "undo"} /\ cmd' = [cmd EXCEPT ![c] = Advanced(r, Cur(c))]
  <2>1. Cur(c) \in r.todo
    BY FlightType
  <2>2. /\ Advanced(r, Cur(c)) \in Command /\ WellFormed(Advanced(r, Cur(c)))
        /\ Advanced(r, Cur(c)).pc \in {"file", "over"}
    BY <1>2, <2>1, AdvancedType
  <2> QED
    BY <1>2, <2>2, OneCommandMoves DEF InFlightPoints
<1> QED
  BY <1>1, <1>2

\* The steps that end a flight: the row is written or lost, the script ran
\* unrecorded, or nobody knows.
LEMMA LandInv ==
    ASSUME MInv, NEW c \in Commands,
           \/ InsertRow(c) \/ DeleteRow(c) \/ RowLost(c) \/ AnswerLost(c)
           \/ (RunScript(c) \/ UndoScript(c)) /\ ~cmd[c].tracked
    PROVE  MInv'
<1> DEFINE v == Cur(c)
<1>1. TypeOK /\ Agreement /\ cmd[c].pc \in InFlightPoints
  BY DEF MInv, Agreement, RunScript, UndoScript, InsertRow, DeleteRow, RowLost, AnswerLost, At,
         InFlightPoints
<1>2. v \in Versions /\ InFlight(c, v) /\ cmd[c] \in Command /\ WellFormed(cmd[c])
  BY <1>1, FlightType
<1>3. Knows(c)
  BY <1>1 DEF Agreement
<1>4. UNCHANGED <<aborted, up, down, tracking, changes>>
  BY DEF RunScript, UndoScript, InsertRow, DeleteRow, RowLost, AnswerLost, folder
<1>5. /\ cmd' \in [Commands -> Command]
      /\ \A d \in Commands : WellFormed(cmd'[d])
      /\ \A d \in Commands \ {c} : cmd'[d] = cmd[d]
      /\ cmd'[c].pc \notin InFlightPoints
  <2>1. CASE RunScript(c) /\ ~cmd[c].tracked
    <3> DEFINE r == [cmd[c] EXCEPT !.ran = @ \cup {v}]
    <3>1. cmd' = [cmd EXCEPT ![c] = IF r.tracked THEN [r EXCEPT !.pc = "row"] ELSE Advanced(r, v)]
          /\ cmd[c].pc = "run"
      BY <2>1 DEF RunScript, At
    <3>2. r.tracked = cmd[c].tracked /\ r \in Command /\ WellFormed(r) /\ r.pc = cmd[c].pc /\ r.todo = cmd[c].todo
      BY <1>2 DEF Command, WellFormed
    <3> HIDE DEF r
    <3>3. cmd' = [cmd EXCEPT ![c] = Advanced(r, v)]
      BY <2>1, <3>1, <3>2
    <3> QED
      BY <1>1, <3>1, <3>2, <3>3, FlightEnds
  <2>2. CASE \/ InsertRow(c) \/ DeleteRow(c) \/ RowLost(c) \/ AnswerLost(c)
             \/ UndoScript(c) /\ ~cmd[c].tracked
    <3>1. \/ cmd' = [cmd EXCEPT ![c] = Ended(cmd[c])]
          \/ cmd[c].pc = "row" /\ cmd' = [cmd EXCEPT ![c] = Advanced(cmd[c], v)]
      BY <2>2 DEF UndoScript, InsertRow, DeleteRow, RowLost, AnswerLost, End, At
    <3> QED
      BY <1>1, <1>2, <3>1, FlightEnds
  <2> QED
    BY <2>1, <2>2
<1>6. /\ ledger' \in [Versions -> Contents \cup {None}]
      /\ \A u \in Versions \ {v} : ledger'[u] = ledger[u]
  BY <1>1, <1>2 DEF TypeOK, Command, RunScript, UndoScript, InsertRow, DeleteRow, RowLost, AnswerLost
<1>7. /\ schema' \in [Versions -> Contents \cup {None}]
      /\ \A u \in Versions \ {v} : schema'[u] = schema[u]
  BY <1>1, <1>2 DEF TypeOK, Command, RunScript, UndoScript, InsertRow, DeleteRow, RowLost, AnswerLost,
                    ScriptCommits, UndoCommits
<1>8. parted \subseteq parted' /\ parted' \subseteq parted \cup {v}
  BY DEF RunScript, UndoScript, InsertRow, DeleteRow, RowLost, AnswerLost, Part
<1>9. v \notin parted' => ledger'[v] = schema'[v]
  <2>1. CASE InsertRow(c)
    BY <1>1, <1>2, <1>3, <2>1 DEF InsertRow, Knows, At, TypeOK
  <2>2. CASE DeleteRow(c)
    BY <1>1, <1>2, <1>3, <2>2 DEF DeleteRow, Knows, At, TypeOK
  <2>3. CASE RowLost(c)
    BY <1>2, <2>3 DEF RowLost, Part
  <2>4. CASE AnswerLost(c) \/ ((RunScript(c) \/ UndoScript(c)) /\ ~cmd[c].tracked)
    <3>1. CASE AnswerLost(c)
      BY <3>1 DEF AnswerLost, Part
    <3>2. CASE RunScript(c) /\ ~cmd[c].tracked
      BY <3>2 DEF RunScript, Part
    <3>3. CASE UndoScript(c) /\ ~cmd[c].tracked
      BY <3>3 DEF UndoScript, Part
    <3> QED
      BY <2>4, <3>1, <3>2, <3>3
  <2> QED
    BY <2>1, <2>2, <2>3, <2>4
<1>10. misrun' \subseteq misrun \cup {v} /\ (v \in misrun' => v \in parted' \/ v \in misrun)
  BY DEF RunScript, UndoScript, InsertRow, DeleteRow, RowLost, AnswerLost, Part, ScriptCommits, UndoCommits
<1> HIDE DEF v
<1>11. TypeOK'
  BY <1>1, <1>2, <1>4, <1>5, <1>6, <1>7, <1>8, <1>10 DEF TypeOK
<1>12. Agreement'
  BY <1>1, <1>2, <1>5, <1>6, <1>7, <1>8, <1>9, <1>10, Lands
<1> QED
  BY <1>11, <1>12 DEF MInv, Agreement

\* The end of the program: commands that were about to write a row part their
\* version, the others leave it in agreement.
LEMMA CrashInv ==
    ASSUME MInv, Crash
    PROVE  MInv'
<1>1. TypeOK /\ Agreement
  BY DEF MInv, Agreement
<1>2. \A c \in Commands : cmd'[c] = IF cmd[c].pc \in Working THEN Ended(cmd[c]) ELSE cmd[c]
  BY DEF Crash
<1>3. ASSUME NEW c \in Commands
      PROVE  cmd'[c] \in Command /\ WellFormed(cmd'[c]) /\ cmd'[c].pc \notin Working
  <2>1. cmd[c] \in Command /\ WellFormed(cmd[c])
    BY <1>1 DEF TypeOK
  <2>2. Ended(cmd[c]) \in Command /\ WellFormed(Ended(cmd[c])) /\ Ended(cmd[c]).pc = "over"
    BY <2>1, EndedType
  <2> QED
    BY <1>2, <2>1, <2>2 DEF Working
<1>4. cmd' \in [Commands -> Command]
  BY <1>3 DEF Crash
<1>5. UNCHANGED <<ledger, schema, misrun, up, down, tracking, changes>> /\ aborted' = {}
  BY DEF Crash, folder
<1> DEFINE D == {d \in Commands : cmd[d].pc \in {"row", "unrow"}}
<1>6. parted' = parted \cup {Cur(c) : c \in D}
  BY DEF Crash, Part
<1>7. \A c \in D : Cur(c) \in Versions
  BY <1>1, FlightType DEF InFlightPoints
<1>8. parted' \subseteq Versions /\ parted \subseteq parted'
  BY <1>1, <1>6, <1>7 DEF TypeOK
<1>9. TypeOK'
  BY <1>1, <1>3, <1>4, <1>5, <1>8 DEF TypeOK
<1>10. \A c \in Commands : cmd'[c].pc \notin InFlightPoints
  BY <1>3 DEF Working, InFlightPoints
<1>11. (\A c \in Commands : Knows(c))' /\ OneInFlight'
  BY <1>10 DEF Knows, At, OneInFlight, InFlight, InFlightPoints
<1>12. LedgerAgrees'
  <2> SUFFICES ASSUME NEW v \in Versions \ parted'
               PROVE  ledger[v] = schema[v]
    BY <1>5 DEF LedgerAgrees
  <2>1. CASE \E c \in Commands : InFlight(c, v)
    <3>1. PICK c \in Commands : InFlight(c, v)
      BY <2>1
    <3>2. cmd[c].pc \in {"run", "undo"} /\ v = Cur(c)
      BY <1>6, <3>1 DEF InFlight
    <3>3. Knows(c) /\ v \notin parted
      BY <1>1, <1>8 DEF Agreement
    <3> QED
      BY <3>2, <3>3 DEF Knows, At
  <2>2. CASE \A c \in Commands : ~InFlight(c, v)
    BY <1>1, <1>8, <2>2 DEF Agreement, LedgerAgrees
  <2> QED
    BY <2>1, <2>2
<1>13. ScriptsFit'
  BY <1>1, <1>5, <1>8 DEF Agreement, ScriptsFit
<1> QED
  BY <1>9, <1>11, <1>12, <1>13 DEF MInv

\* Edits, toggles and stuttering leave commands and tables alone.
LEMMA UserInv ==
    ASSUME MInv, EditFolder \/ SetOptions \/ UNCHANGED vars
    PROVE  MInv'
<1>1. UNCHANGED <<cmd, aborted, ledger, schema, parted, misrun>>
  BY DEF EditFolder, SetOptions, vars
<1> TypeOK
  BY DEF MInv
<1>2. /\ up' \in [Versions -> Contents \cup {None}] /\ down' \subseteq Versions
      /\ tracking' \in BOOLEAN /\ changes' \in 0..MaxChanges
  <2>1. CASE EditFolder
    <3>1. changes' \in 0..MaxChanges /\ tracking' \in BOOLEAN
      BY <2>1, MigrationAssumption DEF MigrationAssumption, TypeOK, EditFolder
    <3>2. PICK v \in Versions :
             \/ \E k \in Contents \cup {None} : up' = [up EXCEPT ![v] = k] /\ UNCHANGED down
             \/ down' \in {down \cup {v}, down \ {v}} /\ UNCHANGED up
      BY <2>1 DEF EditFolder
    <3>3. up' \in [Versions -> Contents \cup {None}] /\ down' \subseteq Versions
      BY <3>2 DEF TypeOK
    <3> QED
      BY <3>1, <3>3
  <2>2. CASE SetOptions
    BY <2>2, MigrationAssumption DEF MigrationAssumption, TypeOK, SetOptions
  <2>3. CASE UNCHANGED vars
    BY <2>3 DEF TypeOK, vars
  <2> QED
    BY <2>1, <2>2, <2>3
<1>3. TypeOK'
  BY <1>1, <1>2 DEF MInv, TypeOK
<1>4. Agreement'
  BY <1>1 DEF MInv, Agreement, Knows, At, Cur, OneInFlight, InFlight, LedgerAgrees, ScriptsFit
<1> QED
  BY <1>3, <1>4 DEF MInv, Agreement

\* Every step keeps the invariant.
LEMMA NextInv ==
    ASSUME MInv, [Next]_vars
    PROVE  MInv'
<1>1. CASE \E c \in Commands : Step(c) \/ \E r \in Requests : Begin(c, r)
  <2>1. PICK c \in Commands : Step(c) \/ \E r \in Requests : Begin(c, r)
    BY <1>1
  <2>2. CASE \/ \E r \in Requests : Begin(c, r)
             \/ Take(c) \/ Discover(c) \/ TakeSecond(c) \/ SecondFails(c) \/ ReadLedger(c)
             \/ ReadFile(c) \/ Refused(c) \/ ScriptFails(c)
    BY <2>2, QuietInv
  <2>3. CASE CheckLedger(c) \/ LookForRow(c)
    BY <2>3, LookupInv
  <2>4. CASE (RunScript(c) \/ UndoScript(c)) /\ cmd[c].tracked
    BY <2>4, ActInv
  <2>5. CASE \/ InsertRow(c) \/ DeleteRow(c) \/ RowLost(c) \/ AnswerLost(c)
             \/ (RunScript(c) \/ UndoScript(c)) /\ ~cmd[c].tracked
    BY <2>5, LandInv
  <2> QED
    BY <2>1, <2>2, <2>3, <2>4, <2>5 DEF Step
<1>2. CASE Crash
  BY <1>2, CrashInv
<1>3. CASE EditFolder \/ SetOptions \/ UNCHANGED vars
  BY <1>3, UserInv
<1> QED
  BY <1>1, <1>2, <1>3 DEF Next

\* The commands keep their shape and every version is either in agreement, in
\* flight or known to have parted, forever.
THEOREM Agreed == Spec => []MInv
<1>1. Init => MInv
  BY InitInv
<1>2. MInv /\ [Next]_vars => MInv'
  BY NextInv
<1> QED
  BY <1>1, <1>2, PTL DEF Spec

\* Commands and tables keep their shape, forever.
THEOREM TypeCorrect == Spec => []TypeOK
<1>1. MInv => TypeOK
  BY DEF MInv
<1> QED
  BY <1>1, Agreed, PTL

\* Rows and effects agree by content on every version that no command is at
\* and that nothing has parted (executor.rs:185-199, 245-257).
THEOREM LedgerAlwaysAgrees == Spec => []LedgerAgrees
<1>1. MInv => LedgerAgrees
  BY DEF MInv
<1> QED
  BY <1>1, Agreed, PTL

\* No script runs a second time, and none is undone that did not run, except on
\* versions that have parted (executor.rs:164-182, 229-235).
THEOREM ScriptsAlwaysFit == Spec => []ScriptsFit
<1>1. MInv => ScriptsFit
  BY DEF MInv
<1> QED
  BY <1>1, Agreed, PTL

----------------------------------------------------------------------------
(* The scripts of one command run in order.                                *)

\* What lies behind a command is below what lies ahead, and nothing it chose is
\* on neither side; about to write a row, it has run its version.
InOrder(r) ==
    /\ r.pc \in {"idle", "take", "discover", "second", "read"} => r.ran = {}
    /\ r.chosen \subseteq r.ran \cup r.todo
    /\ \A v \in r.ran, u \in r.todo : v <= u
    /\ r.pc = "row" => Least(r.todo) \in r.ran

AllInOrder == \A c \in Commands : InOrder(cmd[c])

\* The first of a set of versions is below the others.
LEMMA LeastIsLeast ==
    ASSUME NEW S, S \subseteq Versions, S # {}
    PROVE  \A u \in S : Least(S) <= u
  BY FirstVersion DEF Least

\* A command that has chosen nothing yet is in order as long as its versions
\* stay as they are.
LEMMA EarlyInOrder ==
    ASSUME NEW r, NEW q, InOrder(r),
           r.pc \in {"idle", "take", "discover", "second", "read"},
           q.pc \in {"idle", "take", "discover", "second", "read"},
           q.ran = r.ran, q.chosen = r.chosen, q.todo = r.todo
    PROVE  InOrder(q)
  BY DEF InOrder

\* Ending keeps the order.
LEMMA EndedInOrder ==
    ASSUME NEW r \in Command, InOrder(r)
    PROVE  InOrder(Ended(r))
  BY DEF InOrder, Ended, Command

\* Going on from a version that ran keeps the order.
LEMMA AdvancedInOrder ==
    ASSUME NEW r \in Command, InOrder(r), NEW v \in r.ran
    PROVE  InOrder(Advanced(r, v))
<1>1. CASE r.todo = {v}
  BY <1>1 DEF InOrder, Advanced, Ended, Command
<1>2. CASE r.todo # {v}
  BY <1>2 DEF InOrder, Advanced, Command
<1> QED
  BY <1>1, <1>2

\* Running the next version puts it on the other side.
LEMMA RanInOrder ==
    ASSUME NEW r \in Command, InOrder(r), r.todo # {}, r.pc = "run"
    PROVE  /\ InOrder([r EXCEPT !.ran = @ \cup {Least(r.todo)}])
           /\ InOrder([r EXCEPT !.ran = @ \cup {Least(r.todo)}, !.pc = "row"])
<1>1. \A u \in r.todo : Least(r.todo) <= u
  BY LeastIsLeast DEF Command
<1> QED
  BY <1>1 DEF InOrder, Command

\* A command that has chosen has run nothing yet.
LEMMA SelectInOrder ==
    ASSUME TypeOK, NEW c \in Commands, InOrder(cmd[c]), NEW rows, Select(c, rows),
           cmd[c].pc \in {"second", "read"}
    PROVE  \E q : cmd' = [cmd EXCEPT ![c] = q] /\ InOrder(q)
<1> DEFINE chosen == Chosen(cmd[c].req, cmd[c].ups, cmd[c].downs, rows)
           next   == IF cmd[c].req.kind = "rollback" THEN "look" ELSE "file"
           q      == [cmd[c] EXCEPT !.pc = next, !.second = None, !.chosen = chosen, !.todo = chosen]
<1>1. cmd[c] \in Command /\ cmd[c].ran = {}
  BY DEF TypeOK, InOrder
<1>2. cmd' = [cmd EXCEPT ![c] = IF chosen = {} THEN Ended(cmd[c]) ELSE q]
  BY DEF Select
<1>3. InOrder(Ended(cmd[c]))
  BY <1>1, EndedInOrder
<1>4. next \in {"look", "file"}
  OBVIOUS
<1>5. InOrder(q)
  <2> HIDE DEF chosen, next
  <2> QED
    BY <1>1, <1>4 DEF InOrder, Command
<1> HIDE DEF chosen, q
<1> QED
  BY <1>2, <1>3, <1>5

\* A step of one command keeps that command in order.
LEMMA StepInOrder ==
    ASSUME TypeOK, NEW c \in Commands, InOrder(cmd[c]),
           Step(c) \/ \E r \in Requests : Begin(c, r)
    PROVE  \E q : cmd' = [cmd EXCEPT ![c] = q] /\ InOrder(q)
<1>1. cmd[c] \in Command /\ WellFormed(cmd[c])
  BY DEF TypeOK
<1>2. CASE \/ \E r \in Requests : Begin(c, r)
           \/ Take(c) \/ Discover(c) \/ TakeSecond(c)
  <2>1. CASE \E r \in Requests : Begin(c, r)
    <3>1. PICK r \in Requests : Begin(c, r)
      BY <2>1
    <3> DEFINE q == [cmd[c] EXCEPT !.pc = "take", !.req = r, !.tracked = tracking]
    <3>2. cmd[c].pc = "idle" /\ cmd' = [cmd EXCEPT ![c] = q]
      BY <3>1 DEF Begin, At
    <3>3. q.pc = "take" /\ q.ran = cmd[c].ran /\ q.chosen = cmd[c].chosen /\ q.todo = cmd[c].todo
      BY <1>1 DEF Command
    <3> HIDE DEF q
    <3> QED
      BY <3>2, <3>3, EarlyInOrder
  <2>2. CASE Take(c)
    <3>1. PICK s \in Clients : cmd' = [cmd EXCEPT ![c].pc = "discover", ![c].client = s]
      BY <2>2 DEF Take, Free
    <3> DEFINE q == [cmd[c] EXCEPT !.pc = "discover", !.client = s]
    <3>2. cmd[c].pc = "take" /\ cmd' = [cmd EXCEPT ![c] = q]
      BY <2>2, <3>1 DEF Take, At
    <3>3. /\ q.pc = "discover"
          /\ q.ran = cmd[c].ran /\ q.chosen = cmd[c].chosen /\ q.todo = cmd[c].todo
      BY <1>1 DEF Command
    <3> HIDE DEF q
    <3> QED
      BY <3>2, <3>3, EarlyInOrder
  <2>3. CASE Discover(c)
    <3> DEFINE q == [cmd[c] EXCEPT !.pc = "second", !.joined = tracking,
                                   !.ups = {v \in Versions : up[v] # None}, !.downs = down]
    <3>1. cmd[c].pc = "discover" /\ cmd' = [cmd EXCEPT ![c] = q]
      BY <2>3 DEF Discover, At
    <3>2. /\ q.pc = "second"
          /\ q.ran = cmd[c].ran /\ q.chosen = cmd[c].chosen /\ q.todo = cmd[c].todo
      BY <1>1 DEF Command
    <3> HIDE DEF q
    <3> QED
      BY <3>1, <3>2, EarlyInOrder
  <2>4. CASE TakeSecond(c)
    <3>1. PICK s \in Clients : cmd' = [cmd EXCEPT ![c].pc = "read", ![c].second = s]
      BY <2>4 DEF TakeSecond, Free
    <3> DEFINE q == [cmd[c] EXCEPT !.pc = "read", !.second = s]
    <3>2. cmd[c].pc = "second" /\ cmd' = [cmd EXCEPT ![c] = q]
      BY <2>4, <3>1 DEF TakeSecond, At
    <3>3. /\ q.pc = "read"
          /\ q.ran = cmd[c].ran /\ q.chosen = cmd[c].chosen /\ q.todo = cmd[c].todo
      BY <1>1 DEF Command
    <3> HIDE DEF q
    <3> QED
      BY <3>2, <3>3, EarlyInOrder
  <2> QED
    BY <1>2, <2>1, <2>2, <2>3, <2>4
<1>3. CASE SecondFails(c) \/ ReadLedger(c)
  BY <1>3, SelectInOrder DEF SecondFails, ReadLedger, At
<1>4. CASE ReadFile(c) \/ CheckLedger(c) \/ LookForRow(c)
  <2> DEFINE next == IF ReadFile(c) THEN "check" ELSE IF CheckLedger(c) THEN "run" ELSE "undo"
             q == IF ReadFile(c) THEN [cmd[c] EXCEPT !.pc = "check", !.bytes = up[Cur(c)]]
                                 ELSE [cmd[c] EXCEPT !.pc = next]
  <2>1. cmd' = [cmd EXCEPT ![c] = q]
    BY <1>4 DEF ReadFile, CheckLedger, LookForRow, Lookup, At
  <2>2. InOrder(q)
    BY <1>1, <1>4 DEF ReadFile, CheckLedger, LookForRow, At, InOrder, Command
  <2> QED
    BY <2>1, <2>2
<1>5. CASE RunScript(c)
  <2> DEFINE r == [cmd[c] EXCEPT !.ran = @ \cup {Cur(c)}]
             q == [cmd[c] EXCEPT !.ran = @ \cup {Cur(c)}, !.pc = "row"]
  <2>1. cmd[c].pc = "run" /\ cmd[c].todo # {}
    BY <1>1, <1>5 DEF RunScript, At, WellFormed
  <2>2. InOrder(r) /\ InOrder(q)
    BY <1>1, <2>1, RanInOrder DEF Cur
  <2>3. r \in Command /\ Cur(c) \in r.ran
    BY <1>1, <2>1, CurType DEF Command
  <2>4. cmd' = [cmd EXCEPT ![c] = IF r.tracked THEN q ELSE Advanced(r, Cur(c))]
    BY <1>1, <1>5 DEF RunScript, Command
  <2> HIDE DEF r, q
  <2>5. InOrder(Advanced(r, Cur(c)))
    BY <2>2, <2>3, AdvancedInOrder
  <2> QED
    BY <2>2, <2>4, <2>5
<1>6. CASE InsertRow(c)
  <2>1. Cur(c) \in cmd[c].ran
    BY <1>6 DEF InsertRow, At, InOrder, Cur
  <2>2. InOrder(Ended(cmd[c])) /\ InOrder(Advanced(cmd[c], Cur(c)))
    BY <1>1, <2>1, EndedInOrder, AdvancedInOrder
  <2> QED
    BY <1>6, <2>2 DEF InsertRow, End
<1>7. CASE UndoScript(c)
  <2> DEFINE q == [cmd[c] EXCEPT !.pc = "unrow"]
  <2>1. InOrder(Ended(cmd[c])) /\ InOrder(q)
    BY <1>1, <1>7, EndedInOrder DEF UndoScript, At, InOrder, Command
  <2>2. cmd' = [cmd EXCEPT ![c] = IF cmd[c].tracked THEN q ELSE Ended(cmd[c])]
    BY <1>7 DEF UndoScript
  <2> HIDE DEF q
  <2> QED
    BY <2>1, <2>2
<1>8. CASE ScriptFails(c) \/ DeleteRow(c) \/ Refused(c) \/ AnswerLost(c) \/ RowLost(c)
  <2>1. cmd' = [cmd EXCEPT ![c] = Ended(cmd[c])]
    BY <1>8 DEF ScriptFails, DeleteRow, Refused, AnswerLost, RowLost, End
  <2> QED
    BY <1>1, <2>1, EndedInOrder
<1> QED
  BY <1>2, <1>3, <1>4, <1>5, <1>6, <1>7, <1>8 DEF Step

\* Every step keeps every command in order.
LEMMA NextInOrder ==
    ASSUME TypeOK, AllInOrder, [Next]_vars
    PROVE  AllInOrder'
<1>1. CASE \E c \in Commands : Step(c) \/ \E r \in Requests : Begin(c, r)
  <2>1. PICK c \in Commands : Step(c) \/ \E r \in Requests : Begin(c, r)
    BY <1>1
  <2>2. PICK q : cmd' = [cmd EXCEPT ![c] = q] /\ InOrder(q)
    BY <2>1, StepInOrder DEF AllInOrder
  <2>3. \A d \in Commands : cmd'[d] = IF d = c THEN q ELSE cmd[d]
    BY <2>2 DEF TypeOK
  <2> QED
    BY <2>2, <2>3 DEF AllInOrder
<1>2. CASE Crash
  <2>1. \A c \in Commands : cmd'[c] = IF cmd[c].pc \in Working THEN Ended(cmd[c]) ELSE cmd[c]
    BY <1>2 DEF Crash
  <2>2. \A c \in Commands : InOrder(Ended(cmd[c])) /\ InOrder(cmd[c])
    BY EndedInOrder DEF AllInOrder, TypeOK
  <2> QED
    BY <2>1, <2>2 DEF AllInOrder
<1>3. CASE EditFolder \/ SetOptions \/ UNCHANGED vars
  <2>1. cmd' = cmd
    BY <1>3 DEF EditFolder, SetOptions, vars
  <2> QED
    BY <2>1 DEF AllInOrder
<1> QED
  BY <1>1, <1>2, <1>3 DEF Next

\* In order means without a gap.
LEMMA OrderLeavesNoGap ==
    ASSUME TypeOK, AllInOrder
    PROVE  NoGap
<1> SUFFICES ASSUME NEW c \in Commands, NEW v \in cmd[c].ran, NEW u \in cmd[c].chosen, u < v
             PROVE  u \in cmd[c].ran
  BY DEF NoGap
<1>1. v \in Nat /\ u \in Nat
  BY MigrationAssumption DEF MigrationAssumption, TypeOK, Command
<1>2. u \in cmd[c].todo => v <= u
  BY DEF AllInOrder, InOrder
<1>3. u \in cmd[c].ran \cup cmd[c].todo
  BY DEF AllInOrder, InOrder
<1> QED
  BY <1>1, <1>2, <1>3

\* Whatever fails, whoever else is at work and whatever becomes of the folder,
\* the scripts one command ran are the first ones it chose (executor.rs:113-117).
THEOREM NeverAGap == Spec => []NoGap
<1>1. Init => AllInOrder
  BY DEF Init, AllInOrder, InOrder, NotBegun
<1>2. TypeOK /\ AllInOrder /\ [Next]_vars => AllInOrder'
  BY NextInOrder
<1>3. TypeOK /\ AllInOrder => NoGap
  BY OrderLeavesNoGap
<1> QED
  BY <1>1, <1>2, <1>3, TypeCorrect, PTL DEF Spec

----------------------------------------------------------------------------
(* Clients.                                                                *)

\* When no client is left and every command waits for one, each client is the first of a
\* command of its own: there are as many commands as clients.
LEMMA WaitingNeedsAll ==
    ASSUME TypeOK, IsFiniteSet(Commands), IsFiniteSet(Clients),
           Cardinality(Commands) < Cardinality(Clients)
    PROVE  ClientsComeBack
<1> SUFFICES ASSUME Free = {}, \A c \in Commands : cmd[c].pc \notin Working \ {"take", "second"}
             PROVE  FALSE
  BY DEF ClientsComeBack
<1>1. \A c \in Commands : cmd[c].second = None
  <2> SUFFICES ASSUME NEW c \in Commands PROVE cmd[c].second = None
    OBVIOUS
  <2>1. cmd[c].pc # "read"
    BY DEF Working
  <2> QED
    BY <2>1 DEF TypeOK, WellFormed
<1>2. ASSUME NEW s \in Clients PROVE \E c \in Commands : cmd[c].client = s
  <2>1. PICK c \in Commands : s \in {cmd[c].client, cmd[c].second}
    BY DEF Free
  <2> QED
    BY <1>1, <2>1, NoneDistinct
<1> DEFINE f == [s \in Clients |-> CHOOSE c \in Commands : cmd[c].client = s]
<1>3. f \in [Clients -> Commands] /\ \A s \in Clients : cmd[f[s]].client = s
  BY <1>2
<1> HIDE DEF f
<1>4. \E s, u \in Clients : s # u /\ f[s] = f[u]
  BY <1>3, FS_PigeonHole
<1> QED
  BY <1>3, <1>4

\* The condition under which an apply or a rollback that keeps one client while it waits
\* for another (commands.rs:335, list_with_ledger) waits for a command that goes on: fewer
\* commands at once than the pool has clients.  With as many, all of them may wait.
THEOREM FewCommandsGoOn ==
    ASSUME IsFiniteSet(Commands), IsFiniteSet(Clients), Cardinality(Commands) < Cardinality(Clients)
    PROVE  Spec => []ClientsComeBack
<1>1. TypeOK => ClientsComeBack
  BY WaitingNeedsAll
<1> QED
  BY <1>1, TypeCorrect, PTL
=============================================================================
