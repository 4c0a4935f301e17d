-------------------------- MODULE CursorPoolProofs --------------------------
(***************************************************************************)
(* Safety of CursorPool for every number of tasks, connections, cursors,   *)
(* pools and slots.                                                        *)
(***************************************************************************)
EXTENDS CursorPool, TLAPS

Busy == {"take", "touch", "stash", "commit", "rollback", "fetching", "register"}

\* What a running command has at hand at each of its awaits.
Shape(j) ==
    /\ j.hand # None <=> j.pc \in {"opened", "reading"}
    /\ j.pc \in {"checkout", "lookup", "opened", "probe"} => j.pool \in Pools
    /\ j.pc \in {"probe", "drain", "cleanup", "evict", "unsave"} => j.conn \in Conns
    /\ j.pc \in Busy => j.cur \in Cursors
    /\ j.pc = "register" /\ j.mode = "resolve" => j.pool \in Pools
    /\ j.pc = "touch" => j.pool \in Pools
    /\ j.pc \in {"take", "fetching"} => j.mode = "none"
    /\ j.drained # {} => j.pc = "cleanup"
    /\ j.pc \in {"drain", "cleanup", "evict"} => j.mode \in {"disconnect", "update", "delete"}

JobShape == \A t \in Tasks : Shape(job[t])

\* An id that names a live or a finished cursor was given to an open.
HomeKnown == \A x \in Cursors : client[x] # None \/ x \in finished => home[x] # None

\* A finished cursor is live only while the command that finished it ends it.
FinishedEnding ==
    \A x \in finished : client[x] # None => \E t \in Tasks : job[t].pc = "commit" /\ job[t].cur = x

\* Between sweeps the sweeper holds no state.
SweeperRests == sweeper.pc = "tick" => sweeper.drained = {}

\* The inductive invariant for ownership.
IInv ==
    /\ TypeOK
    /\ JobShape
    /\ SingleOwner
    /\ HomeKnown
    /\ FinishedEnding
    /\ SweeperRests

USE DEF PoolOf, ConnOf, Busy

\* None is no id of any kind.
LEMMA NoneDistinct ==
    /\ None \notin Cursors /\ None \notin Conns
    /\ None \notin Pools /\ None \notin Clients
  BY ConstantAssumption DEF ConstantAssumption

\* Whatever a statement does to a session, the result is a session.
LEMMA SessionTypes ==
    /\ Gone \in Session /\ Idle \in Session /\ Failed \in Session
    /\ \A x \in Cursors \cup {None} : Open(x) \in Session
    /\ \A q \in Session : AfterError(q) \in Session /\ AfterRollback(q) \in Session
    /\ \A q \in Session : \A x \in Cursors : AfterClose(q, x) \in Session
  BY DEF Session, Gone, Idle, Failed, Open, AfterError, AfterRollback, AfterClose

\* The empty activation has the shape of one.
LEMMA NoJobType == NoJob \in Job
  BY DEF NoJob, Job, PCs, Modes

\* The inductive invariant holds when the program starts: no pool, no cursor and
\* no command under way.
THEOREM InitInv == Init => IInv
<1> SUFFICES ASSUME Init PROVE IInv
  OBVIOUS
<1>1. TypeOK
  <2>1. 0 \in 0..MaxPools /\ 0 \in 0..MaxLosses
    BY ConstantAssumption DEF ConstantAssumption
  <2> QED
    BY <2>1, SessionTypes, NoJobType DEF Init, TypeOK
<1>2. JobShape
  BY NoneDistinct DEF Init, JobShape, Shape, NoJob
<1>3. SingleOwner
  BY DEF Init, SingleOwner, Owned, Owning, NoJob
<1>4. HomeKnown /\ FinishedEnding /\ SweeperRests
  BY DEF Init, HomeKnown, FinishedEnding, SweeperRests
<1> QED
  BY <1>1, <1>2, <1>3, <1>4 DEF IInv

(* Typing lemmas: what the shared helpers of the actions leave behind.      *)

\* Assigning an await, a cursor, a hand or a drain keeps the shape of an activation.
LEMMA JobFields ==
    ASSUME NEW j \in Job
    PROVE  /\ \A l \in PCs : [j EXCEPT !.pc = l] \in Job
           /\ \A l \in PCs : [j EXCEPT !.pc = l, !.cur = None] \in Job
           /\ \A l \in PCs, xs \in SUBSET Cursors : [j EXCEPT !.drained = xs, !.pc = l] \in Job
           /\ \A xs \in SUBSET Cursors : [j EXCEPT !.drained = xs] \in Job
           /\ \A l \in PCs, x \in Cursors : [j EXCEPT !.pc = l, !.hand = None, !.cur = x] \in Job
           /\ \A l \in PCs, x \in Cursors : [j EXCEPT !.pc = l, !.cur = x] \in Job
           /\ \A l \in PCs, s \in Clients : [j EXCEPT !.hand = s, !.pc = l] \in Job
<1>1. /\ j.pc \in PCs /\ j.conn \in Conns \cup {None} /\ j.pool \in Pools \cup {None}
      /\ j.hand \in Clients \cup {None} /\ j.cur \in Cursors \cup {None}
      /\ j.drained \in SUBSET Cursors /\ j.mode \in Modes
      /\ j = [pc |-> j.pc, conn |-> j.conn, pool |-> j.pool, hand |-> j.hand,
              cur |-> j.cur, drained |-> j.drained, mode |-> j.mode]
  BY DEF Job
<1>2. ASSUME NEW l \in PCs PROVE [j EXCEPT !.pc = l] \in Job
  BY <1>1 DEF Job
<1>3. ASSUME NEW l \in PCs PROVE [j EXCEPT !.pc = l, !.cur = None] \in Job
  BY <1>1 DEF Job
<1>4. ASSUME NEW l \in PCs, NEW xs \in SUBSET Cursors PROVE [j EXCEPT !.drained = xs, !.pc = l] \in Job
  BY <1>1 DEF Job
<1>5. ASSUME NEW xs \in SUBSET Cursors PROVE [j EXCEPT !.drained = xs] \in Job
  BY <1>1 DEF Job
<1>6. ASSUME NEW l \in PCs, NEW x \in Cursors PROVE [j EXCEPT !.pc = l, !.hand = None, !.cur = x] \in Job
  BY <1>1 DEF Job
<1>7. ASSUME NEW l \in PCs, NEW s \in Clients PROVE [j EXCEPT !.hand = s, !.pc = l] \in Job
  BY <1>1 DEF Job
<1>8. ASSUME NEW l \in PCs, NEW x \in Cursors PROVE [j EXCEPT !.pc = l, !.cur = x] \in Job
  BY <1>1 DEF Job
<1> QED
  BY <1>2, <1>3, <1>4, <1>5, <1>6, <1>7, <1>8

\* So does changing one command of the function.
LEMMA JobTypes ==
    ASSUME TypeOK, NEW t \in Tasks
    PROVE  /\ \A j \in Job : [job EXCEPT ![t] = j] \in [Tasks -> Job]
           /\ \A l \in PCs : [job EXCEPT ![t].pc = l] \in [Tasks -> Job]
<1> job \in [Tasks -> Job]
  BY DEF TypeOK
<1>1. \A j \in Job : [job EXCEPT ![t] = j] \in [Tasks -> Job]
  OBVIOUS
<1>2. ASSUME NEW l \in PCs PROVE [job EXCEPT ![t].pc = l] \in [Tasks -> Job]
  <2> DEFINE j == [job[t] EXCEPT !.pc = l]
  <2>1. j \in Job
    BY JobFields
  <2>2. [job EXCEPT ![t].pc = l] = [job EXCEPT ![t] = j]
    OBVIOUS
  <2> HIDE DEF j
  <2> QED
    BY <1>1, <2>1, <2>2
<1> QED
  BY <1>1, <1>2

\* A command that ends keeps the type of job.
LEMMA DoneType ==
    ASSUME TypeOK, NEW t \in Tasks, Done(t)
    PROVE  job' \in [Tasks -> Job]
  BY JobTypes, NoJobType DEF Done

\* What a command has at hand at its await.
LEMMA JobAt ==
    ASSUME IInv, NEW t \in Tasks
    PROVE  /\ job[t] \in Job
           /\ job[t].pc \in {"opened", "reading"} => job[t].hand \in Clients
           /\ job[t].pc \in {"checkout", "lookup", "opened", "probe"} => job[t].pool \in Pools
           /\ job[t].pc \in {"probe", "drain", "cleanup", "evict", "unsave"} => job[t].conn \in Conns
           /\ job[t].pc \in Busy => job[t].cur \in Cursors
           /\ job[t].drained \subseteq Cursors
           /\ job[t].pc = "evict" => job[t].mode \in {"disconnect", "update", "delete"}
<1>1. job[t] \in Job
  BY DEF IInv, TypeOK
<1>2. job[t].hand \in Clients \cup {None} /\ job[t].drained \subseteq Cursors
  BY <1>1 DEF Job
<1> QED
  BY <1>1, <1>2 DEF IInv, JobShape, Shape

\* A command that moves to another await keeps the type of job.
LEMMA GoType ==
    ASSUME TypeOK, NEW t \in Tasks, NEW l \in PCs, Go(t, l)
    PROVE  job' \in [Tasks -> Job]
  BY JobTypes DEF Go

\* A client that goes back to its pool keeps the types of the pool variables.
LEMMA ReleaseTypes ==
    ASSUME TypeOK, NEW s \in Clients, NEW q \in Session, Release(s, q)
    PROVE  avail' \subseteq Clients /\ sess' \in [Clients -> Session]
  BY SessionTypes DEF TypeOK, Release

\* Closing pools keeps the types of the pool variables.
LEMMA ShutTypes ==
    ASSUME TypeOK, NEW ps \in SUBSET Pools, ShutPools(ps)
    PROVE  shut' \subseteq Pools /\ avail' \subseteq Clients /\ sess' \in [Clients -> Session]
  BY SessionTypes DEF TypeOK, ShutPools

\* A live cursor state has a client and a session.
LEMMA LiveClient ==
    ASSUME TypeOK, NEW x \in Cursors, client[x] # None
    PROVE  client[x] \in Clients /\ sess[client[x]] \in Session
  BY DEF TypeOK

\* A state is live while a command, the registry or the sweeper owns it.
LEMMA OwnedLive ==
    ASSUME IInv
    PROVE  /\ \A t \in Tasks : job[t].pc \in Owning =>
                job[t].cur \in Cursors /\ client[job[t].cur] # None
           /\ \A t \in Tasks : \A x \in job[t].drained : x \in Cursors /\ client[x] # None
           /\ \A x \in sweeper.drained : x \in Cursors /\ client[x] # None
           /\ \A x \in inner : x \in Cursors /\ client[x] # None
<1>1. ASSUME NEW t \in Tasks, job[t].pc \in Owning
      PROVE  job[t].cur \in Cursors /\ client[job[t].cur] # None
  BY <1>1 DEF IInv, JobShape, Shape, SingleOwner, Owned, Owning
<1>2. ASSUME NEW t \in Tasks, NEW x \in job[t].drained
      PROVE  x \in Cursors /\ client[x] # None
  <2>1. x \in Cursors
    BY DEF IInv, TypeOK, Job
  <2> QED
    BY <2>1 DEF IInv, SingleOwner, Owned
<1>3. ASSUME NEW x \in sweeper.drained PROVE x \in Cursors /\ client[x] # None
  BY DEF IInv, TypeOK, SingleOwner
<1>4. ASSUME NEW x \in inner PROVE x \in Cursors /\ client[x] # None
  BY DEF IInv, TypeOK, SingleOwner
<1> QED
  BY <1>1, <1>2, <1>3, <1>4

\* Dropping a cursor state keeps the types of what it touches.
LEMMA DropTypes ==
    ASSUME TypeOK, NEW x \in Cursors, client[x] # None, NEW q \in Session, DropState(x, q)
    PROVE  /\ avail' \subseteq Clients /\ sess' \in [Clients -> Session]
           /\ client' \in [Cursors -> Clients \cup {None}] /\ missed' \subseteq Cursors
  BY LiveClient, ReleaseTypes DEF TypeOK, DropState

\* Every step keeps the types.
LEMMA TypeStep == IInv /\ [Next]_vars => TypeOK'
<1> SUFFICES ASSUME IInv, [Next]_vars PROVE TypeOK'
  OBVIOUS
<1> USE NoneDistinct, SessionTypes, NoJobType DEF At, IInv, TypeOK,
        poolVars, sessVars, regVars, envVars
<1>1. ASSUME NEW t \in Tasks, NEW c \in Conns, OpenStart(t, c) PROVE TypeOK'
  <2>1. job' \in [Tasks -> Job]
    <3>1. registry[c] \in Pools
      BY <1>1 DEF OpenStart
    <3>2. [NoJob EXCEPT !.pc = "checkout", !.mode = "open", !.conn = c, !.pool = registry[c]] \in Job
      BY <3>1, NoJobType DEF Job, NoJob, PCs, Modes
    <3> QED
      BY <1>1, <3>2, JobTypes DEF OpenStart, Start
  <2> QED
    BY <1>1, <2>1 DEF OpenStart
<1>2. ASSUME NEW t \in Tasks, Checkout(t) PROVE TypeOK'
  <2> PICK from \in {"checkout", "lookup"}, s \in avail : Checkout(t)!(from, s)
    BY <1>2 DEF Checkout
  <2>1. job' \in [Tasks -> Job]
    <3> DEFINE l == IF from = "checkout" THEN "opened" ELSE "reading"
    <3>1. l \in PCs
      BY DEF PCs
    <3>2. [job[t] EXCEPT !.hand = s, !.pc = l] \in Job
      BY <3>1, JobFields
    <3>3. job' = [job EXCEPT ![t] = [job[t] EXCEPT !.hand = s, !.pc = l]]
      OBVIOUS
    <3> QED
      BY <3>2, <3>3, JobTypes
  <2>2. avail' \subseteq Clients
    OBVIOUS
  <2>3. sess' \in [Clients -> Session]
    OBVIOUS
  <2> QED
    BY <2>1, <2>2, <2>3
<1>3. ASSUME NEW t \in Tasks, CheckoutFails(t) \/ ResolveReadOnly(t) PROVE TypeOK'
  <2>1. job' \in [Tasks -> Job]
    BY <1>3, DoneType DEF CheckoutFails, ResolveReadOnly
  <2> QED
    BY <1>3, <2>1 DEF CheckoutFails, ResolveReadOnly
<1>4. ASSUME NEW t \in Tasks, OpenInline(t) PROVE TypeOK'
  <2>1. job[t].hand \in Clients /\ sess[job[t].hand] \in Session
    BY <1>4, JobAt DEF OpenInline
  <2>2. PICK q \in Session : Release(job[t].hand, q)
    BY <1>4, <2>1 DEF OpenInline
  <2>3. avail' \subseteq Clients /\ sess' \in [Clients -> Session]
    BY <2>1, <2>2, ReleaseTypes
  <2>4. job' \in [Tasks -> Job]
    BY <1>4, DoneType DEF OpenInline
  <2> QED
    BY <1>4, <2>3, <2>4 DEF OpenInline
<1>5. ASSUME NEW t \in Tasks, OpenFails(t) PROVE TypeOK'
  <2>1. job[t].hand \in Clients /\ sess[job[t].hand] \in Session
    BY <1>5, JobAt DEF OpenFails
  <2>2. PICK q \in Session : Release(job[t].hand, q)
    BY <1>5, <2>1 DEF OpenFails
  <2>3. avail' \subseteq Clients /\ sess' \in [Clients -> Session]
    BY <2>1, <2>2, ReleaseTypes
  <2>4. job' \in [Tasks -> Job]
    BY <1>5, DoneType DEF OpenFails
  <2> QED
    BY <1>5, <2>3, <2>4 DEF OpenFails
<1>6. ASSUME NEW t \in Tasks, NEW x \in Cursors, OpenRows(t, x) PROVE TypeOK'
  <2>1. job[t].hand \in Clients /\ job[t].pool \in Pools
    BY <1>6, JobAt DEF OpenRows
  <2>2. job' \in [Tasks -> Job]
    <3>1. PICK l \in {"stash", "register"} :
              job' = [job EXCEPT ![t].pc = l, ![t].hand = None, ![t].cur = x]
      BY <1>6 DEF OpenRows
    <3>2. l \in PCs
      BY DEF PCs
    <3>3. [job[t] EXCEPT !.pc = l, !.hand = None, !.cur = x] \in Job
      BY <3>2, JobFields
    <3>4. job' = [job EXCEPT ![t] = [job[t] EXCEPT !.pc = l, !.hand = None, !.cur = x]]
      BY <3>1
    <3> QED
      BY <3>3, <3>4, JobTypes
  <2>3. sess' \in [Clients -> Session] /\ client' \in [Cursors -> Clients \cup {None}]
    BY <1>6, <2>1 DEF OpenRows
  <2>4. home' \in [Cursors -> Pools \cup {None}]
    BY <1>6, <2>1 DEF OpenRows
  <2> QED
    BY <1>6, <2>2, <2>3, <2>4 DEF OpenRows
<1>7. ASSUME NEW t \in Tasks, Stash(t) PROVE TypeOK'
  <2>1. job[t].cur \in Cursors
    BY <1>7, JobAt DEF Stash
  <2>2. "commit" \in PCs
    BY DEF PCs
  <2>3. job' \in [Tasks -> Job]
    BY <1>7, <2>2, GoType DEF Stash
  <2> QED
    BY <1>7, <2>1, <2>3 DEF Stash
<1>8. ASSUME NEW t \in Tasks, Commit(t) PROVE TypeOK'
  <2>1. job[t].cur \in Cursors /\ client[job[t].cur] # None
    BY <1>8, OwnedLive DEF Commit, Owning
  <2>2. PICK q \in Session : DropState(job[t].cur, q)
    BY <1>8, <2>1, LiveClient DEF Commit
  <2>3. job' \in [Tasks -> Job]
    BY <1>8, DoneType DEF Commit
  <2> QED
    BY <1>8, <2>1, <2>2, <2>3, DropTypes DEF Commit
<1>9. ASSUME NEW t \in Tasks, Register(t) PROVE TypeOK'
  <2>1. job[t].cur \in Cursors
    BY <1>9, JobAt DEF Register
  <2>2. [job[t] EXCEPT !.pc = "lookup", !.cur = None] \in Job
    BY JobFields DEF PCs
  <2>3. [job EXCEPT ![t].pc = "lookup", ![t].cur = None]
           = [job EXCEPT ![t] = [job[t] EXCEPT !.pc = "lookup", !.cur = None]]
    OBVIOUS
  <2>4. job' \in [Tasks -> Job]
    BY <1>9, <2>2, <2>3, JobTypes, DoneType DEF Register
  <2> QED
    BY <1>9, <2>1, <2>4 DEF Register
<1>10. ASSUME NEW t \in Tasks, NEW x \in Cursors, FetchStart(t, x) PROVE TypeOK'
  <2>1. [NoJob EXCEPT !.pc = "take", !.cur = x] \in Job
    BY NoJobType, JobFields DEF PCs
  <2>2. job' \in [Tasks -> Job]
    BY <1>10, <2>1, JobTypes DEF FetchStart, Start
  <2> QED
    BY <1>10, <2>2 DEF FetchStart
<1>11. ASSUME NEW t \in Tasks, FetchTake(t) PROVE TypeOK'
  <2>1. "fetching" \in PCs
    BY DEF PCs
  <2>2. job' \in [Tasks -> Job]
    BY <1>11, <2>1, DoneType, GoType DEF FetchTake
  <2> QED
    BY <1>11, <2>2 DEF FetchTake, TakeOut
<1>12. ASSUME NEW t \in Tasks, FetchFails(t) PROVE TypeOK'
  <2>1. job[t].cur \in Cursors /\ client[job[t].cur] # None
    BY <1>12, OwnedLive DEF FetchFails, Owning
  <2>2. PICK q \in Session : DropState(job[t].cur, q)
    BY <1>12, <2>1, LiveClient DEF FetchFails
  <2>3. job' \in [Tasks -> Job]
    BY <1>12, DoneType DEF FetchFails
  <2> QED
    BY <1>12, <2>1, <2>2, <2>3, DropTypes DEF FetchFails
<1>13. ASSUME NEW t \in Tasks, FetchRows(t) PROVE TypeOK'
  <2>1. {"stash", "register"} \subseteq PCs
    BY DEF PCs
  <2>2. job' \in [Tasks -> Job]
    BY <1>13, <2>1, GoType DEF FetchRows
  <2> QED
    BY <1>13, <2>2 DEF FetchRows
<1>14. ASSUME NEW t \in Tasks, NEW x \in Cursors, NEW l \in {"commit", "rollback"},
              EndCursor(t, x, l)
       PROVE  TypeOK'
  <2>1. [NoJob EXCEPT !.pc = l, !.cur = x] \in Job
    BY NoJobType, JobFields DEF PCs
  <2>2. job' \in [Tasks -> Job]
    BY <1>14, <2>1, JobTypes DEF EndCursor, Start
  <2>3. missed' \subseteq Cursors
    BY <1>14 DEF EndCursor
  <2>4. aged' \subseteq inner' \cup finished' /\ inner' \subseteq Cursors
    BY <1>14 DEF EndCursor, TakeOut
  <2> QED
    BY <1>14, <2>2, <2>3, <2>4 DEF EndCursor
<1>15. ASSUME NEW t \in Tasks, NEW x \in Cursors, CloseCursor(t, x) \/ Cancel(t, x) PROVE TypeOK'
  BY <1>14, <1>15 DEF CloseCursor, Cancel
<1>16. ASSUME NEW t \in Tasks, Rollback(t) PROVE TypeOK'
  <2>1. job[t].cur \in Cursors /\ client[job[t].cur] # None
    BY <1>16, OwnedLive DEF Rollback, Owning
  <2>2. PICK q \in Session : DropState(job[t].cur, q)
    BY <1>16, <2>1, LiveClient DEF Rollback
  <2>3. job' \in [Tasks -> Job]
    BY <1>16, DoneType DEF Rollback
  <2> QED
    BY <1>16, <2>1, <2>2, <2>3, DropTypes DEF Rollback
<1>17. ASSUME NEW t \in Tasks, NEW c \in Conns, NEW x \in Cursors, ResolveStart(t, c, x) PROVE TypeOK'
  <2> DEFINE l == IF x \in inner THEN "register" ELSE "touch"
             j == [NoJob EXCEPT !.conn = c, !.pool = registry[c], !.mode = "resolve",
                   !.pc = l, !.cur = x]
  <2>1. registry[c] \in Pools
    BY <1>17 DEF ResolveStart
  <2>2. l \in PCs
    BY DEF PCs
  <2>3. j \in Job
    <3> HIDE DEF l
    <3> QED
      BY <2>1, <2>2 DEF NoJob, Job, Modes
  <2>4. Start(t, j)
    BY <1>17 DEF ResolveStart
  <2>5. job' \in [Tasks -> Job]
    <3> HIDE DEF j
    <3> QED
      BY <2>3, <2>4, JobTypes DEF Start
  <2> HIDE DEF j
  <2> QED
    BY <1>17, <2>5 DEF ResolveStart, TakeOut
<1>18. ASSUME NEW t \in Tasks, ResolveFinished(t) PROVE TypeOK'
  <2>1. [job[t] EXCEPT !.pc = "lookup", !.cur = None] \in Job
    BY JobFields DEF PCs
  <2>2. [job EXCEPT ![t].pc = "lookup", ![t].cur = None]
           = [job EXCEPT ![t] = [job[t] EXCEPT !.pc = "lookup", !.cur = None]]
    OBVIOUS
  <2>3. job' \in [Tasks -> Job]
    BY <1>18, <2>1, <2>2, JobTypes, DoneType DEF ResolveFinished
  <2> QED
    BY <1>18, <2>3 DEF ResolveFinished
<1>19. ASSUME NEW t \in Tasks, ResolveRead(t) PROVE TypeOK'
  <2>1. job[t].hand \in Clients /\ sess[job[t].hand] \in Session
    BY <1>19, JobAt DEF ResolveRead
  <2>2. PICK q \in Session : Release(job[t].hand, q)
    BY <1>19, <2>1 DEF ResolveRead
  <2>3. avail' \subseteq Clients /\ sess' \in [Clients -> Session]
    BY <2>1, <2>2, ReleaseTypes
  <2>4. job' \in [Tasks -> Job]
    BY <1>19, DoneType DEF ResolveRead
  <2> QED
    BY <1>19, <2>3, <2>4 DEF ResolveRead
<1>20. ASSUME NEW t \in Tasks, NEW c \in Conns, ConnectStart(t, c) PROVE TypeOK'
  <2> DEFINE p == <<c, built[c] + 1>>
  <2>1. built[c] + 1 \in 0..MaxPools /\ p \in Pools
    BY <1>20, ConstantAssumption DEF ConnectStart, ConstantAssumption, Pools
  <2>2. [NoJob EXCEPT !.pc = "probe", !.conn = c, !.pool = p] \in Job
    BY <2>1, NoJobType DEF NoJob, Job, PCs
  <2>3. job' \in [Tasks -> Job]
    BY <1>20, <2>2, JobTypes DEF ConnectStart, Start
  <2>4. avail' \subseteq Clients
    BY <1>20 DEF ConnectStart, ClientsOf
  <2>5. built' \in [Conns -> 0..MaxPools]
    BY <1>20, <2>1 DEF ConnectStart
  <2> QED
    BY <1>20, <2>3, <2>4, <2>5 DEF ConnectStart
<1>21. ASSUME NEW t \in Tasks, ConnectOk(t) PROVE TypeOK'
  <2>1. job' \in [Tasks -> Job]
    BY <1>21, DoneType DEF ConnectOk
  <2>2. job[t].conn \in Conns /\ job[t].pool \in Pools
    BY <1>21, JobAt DEF ConnectOk
  <2>3. {registry[job[t].conn]} \ {None} \subseteq Pools
    BY <2>2
  <2>4. ShutPools({registry[job[t].conn]} \ {None})
    BY <1>21 DEF ConnectOk
  <2>5. shut' \subseteq Pools /\ avail' \subseteq Clients /\ sess' \in [Clients -> Session]
    BY <2>3, <2>4, ShutTypes
  <2> QED
    BY <1>21, <2>1, <2>2, <2>5 DEF ConnectOk
<1>22. ASSUME NEW t \in Tasks, ConnectFails(t) PROVE TypeOK'
  <2>1. job' \in [Tasks -> Job]
    BY <1>22, DoneType DEF ConnectFails
  <2>2. shut' \subseteq Pools /\ avail' \subseteq Clients /\ sess' \in [Clients -> Session]
    <3>1. {job[t].pool} \subseteq Pools
      BY <1>22, JobAt DEF ConnectFails
    <3> QED
      BY <1>22, <3>1, ShutTypes DEF ConnectFails
  <2> QED
    BY <1>22, <2>1, <2>2 DEF ConnectFails
<1>23. ASSUME NEW t \in Tasks, NEW c \in Conns, NEW m \in {"disconnect", "update", "delete"},
              LifecycleStart(t, c, m)
       PROVE  TypeOK'
  <2> DEFINE l == IF m = "update" THEN "evict" ELSE "drain"
             j == [NoJob EXCEPT !.pc = l, !.conn = c, !.mode = m]
  <2>1. l \in PCs /\ m \in Modes
    BY DEF PCs, Modes
  <2>2. j \in Job
    <3> HIDE DEF l
    <3> QED
      BY <2>1 DEF NoJob, Job
  <2>3. Start(t, j)
    BY <1>23 DEF LifecycleStart
  <2>4. job' \in [Tasks -> Job]
    <3> HIDE DEF j
    <3> QED
      BY <2>2, <2>3, JobTypes DEF Start
  <2> HIDE DEF j
  <2> QED
    BY <1>23, <2>4 DEF LifecycleStart
<1>24. ASSUME NEW t \in Tasks, Drain(t) PROVE TypeOK'
  <2> DEFINE xs == inner \cap OfConn(job[t].conn)
  <2>1. [job[t] EXCEPT !.drained = xs, !.pc = "cleanup"] \in Job
    BY JobFields DEF PCs
  <2>2. job' = [job EXCEPT ![t] = [job[t] EXCEPT !.drained = xs, !.pc = "cleanup"]]
    BY <1>24 DEF Drain
  <2>3. job' \in [Tasks -> Job]
    BY <2>1, <2>2, JobTypes
  <2> QED
    BY <1>24, <2>3 DEF Drain, TakeOut
<1>25. ASSUME NEW t \in Tasks, NEW x \in Cursors, Cleanup(t, x) PROVE TypeOK'
  <2>1. client[x] # None
    BY <1>25, OwnedLive DEF Cleanup
  <2>2. PICK q \in Session : DropState(x, q)
    BY <1>25, <2>1, LiveClient DEF Cleanup
  <2>3. job' \in [Tasks -> Job]
    <3>1. [job[t] EXCEPT !.drained = @ \ {x}] \in Job
      BY JobFields, JobAt
    <3>2. job' = [job EXCEPT ![t] = [job[t] EXCEPT !.drained = @ \ {x}]]
      BY <1>25 DEF Cleanup
    <3> QED
      BY <3>1, <3>2, JobTypes
  <2> QED
    BY <1>25, <2>1, <2>2, <2>3, DropTypes DEF Cleanup
<1>26. ASSUME NEW t \in Tasks, Tidy(t) PROVE TypeOK'
  <2>1. job' \in [Tasks -> Job]
    <3>1. "evict" \in PCs
      BY DEF PCs
    <3> QED
      BY <1>26, <3>1, DoneType, GoType DEF Tidy
  <2> QED
    BY <1>26, <2>1 DEF Tidy
<1>27. ASSUME NEW t \in Tasks, Evict(t) PROVE TypeOK'
  <2>1. job[t].conn \in Conns /\ job[t].mode \in {"disconnect", "update", "delete"}
    BY <1>27, JobAt DEF Evict
  <2>2. job' \in [Tasks -> Job]
    BY <1>27, <2>1, DoneType, GoType DEF Evict, PCs
  <2>3. shut' \subseteq Pools /\ avail' \subseteq Clients /\ sess' \in [Clients -> Session]
    <3>1. {registry[job[t].conn]} \ {None} \subseteq Pools
      BY <2>1
    <3> QED
      BY <1>27, <3>1, ShutTypes DEF Evict
  <2> QED
    BY <1>27, <2>1, <2>2, <2>3 DEF Evict
<1>28. ASSUME NEW t \in Tasks, Unsave(t) PROVE TypeOK'
  <2>1. job' \in [Tasks -> Job]
    BY <1>28, DoneType DEF Unsave
  <2> QED
    BY <1>28, <2>1 DEF Unsave
<1>29. ASSUME SweepDrain PROVE TypeOK'
  BY <1>29 DEF SweepDrain, TakeOut
<1>30. ASSUME NEW x \in Cursors, SweepOne(x) PROVE TypeOK'
  <2>1. client[x] # None
    BY <1>30, OwnedLive DEF SweepOne
  <2>2. PICK q \in Session : DropState(x, q)
    BY <1>30, <2>1, LiveClient DEF SweepOne
  <2> QED
    BY <1>30, <2>1, <2>2, DropTypes DEF SweepOne
<1>31. ASSUME SweepFinished PROVE TypeOK'
  BY <1>31 DEF SweepFinished
<1>32. ASSUME NEW x \in Cursors, Age(x) PROVE TypeOK'
  BY <1>32 DEF Age
<1>33. ASSUME NEW s \in Clients, LoseSession(s) PROVE TypeOK'
  <2>1. losses' \in 0..MaxLosses
    BY <1>33, ConstantAssumption DEF LoseSession, ConstantAssumption
  <2> QED
    BY <1>33, <2>1 DEF LoseSession
<1>34. ASSUME WalkAway PROVE TypeOK'
  BY <1>34 DEF WalkAway
<1>35. CASE UNCHANGED vars
  BY <1>35 DEF vars
<1> HIDE DEF IInv, TypeOK, At, poolVars, sessVars, regVars, envVars
<1> QED
  BY <1>1, <1>2, <1>3, <1>4, <1>5, <1>6, <1>7, <1>8, <1>9, <1>10, <1>11, <1>12, <1>13, <1>14, <1>15, <1>16, <1>17, <1>18, <1>19, <1>20, <1>21, <1>22, <1>23, <1>24, <1>25, <1>26, <1>27, <1>28, <1>29, <1>30, <1>31, <1>32, <1>33, <1>34, <1>35 DEF Next, UserCommand, Proceed, Sweep
----------------------------------------------------------------------------
(* JobShape: what a command has at hand.                                    *)

\* A command that takes a well-shaped activation keeps JobShape.
LEMMA ShapeKept ==
    ASSUME TypeOK, JobShape, NEW t \in Tasks, NEW j, Shape(j), job' = [job EXCEPT ![t] = j]
    PROVE  JobShape'
  BY DEF TypeOK, JobShape

\* A command that ends keeps JobShape.
LEMMA ShapeDone ==
    ASSUME TypeOK, JobShape, NEW t \in Tasks, Done(t)
    PROVE  JobShape'
<1>1. Shape(NoJob)
  BY NoneDistinct DEF Shape, NoJob
<1> QED
  BY <1>1, ShapeKept DEF Done

\* A command that moves to an await its variables fit keeps JobShape.
LEMMA ShapeGo ==
    ASSUME IInv, NEW t \in Tasks, NEW l, Go(t, l), Shape([job[t] EXCEPT !.pc = l])
    PROVE  JobShape'
<1>1. [job EXCEPT ![t].pc = l] = [job EXCEPT ![t] = [job[t] EXCEPT !.pc = l]]
  OBVIOUS
<1> QED
  BY <1>1, ShapeKept DEF Go, IInv

\* A command moves between awaits at which it needs no more than its cursor.
LEMMA ShapeGoBusy ==
    ASSUME IInv, NEW t \in Tasks, NEW l, Go(t, l), job[t].pc \in Busy,
           \/ l \in {"commit", "rollback", "stash"}
           \/ l = "fetching" /\ job[t].pc = "take"
           \/ l = "register" /\ job[t].mode # "resolve"
    PROVE  JobShape'
<1>1. job[t] \in Job /\ Shape(job[t])
  BY DEF IInv, TypeOK, JobShape
<1>2. Shape([job[t] EXCEPT !.pc = l])
  BY <1>1 DEF Shape, Job
<1> QED
  BY <1>2, ShapeGo

\* Every step keeps what a command has at hand.
LEMMA ShapeStep == IInv /\ [Next]_vars => JobShape'
<1> SUFFICES ASSUME IInv, [Next]_vars PROVE JobShape'
  OBVIOUS
<1> USE NoneDistinct
<1>0. TypeOK /\ JobShape
  BY DEF IInv
<1>1. ASSUME NEW t \in Tasks, NEW c \in Conns, OpenStart(t, c) PROVE JobShape'
  <2>1. registry[c] \in Pools
    BY <1>0, <1>1 DEF TypeOK, OpenStart
  <2>2. Shape([NoJob EXCEPT !.pc = "checkout", !.mode = "open", !.conn = c, !.pool = registry[c]])
    BY <2>1 DEF Shape, NoJob
  <2> QED
    BY <1>0, <1>1, <2>2, ShapeKept DEF OpenStart, Start
<1>2. ASSUME NEW t \in Tasks, Checkout(t) PROVE JobShape'
  <2> PICK from \in {"checkout", "lookup"}, s \in avail : Checkout(t)!(from, s)
    BY <1>2 DEF Checkout
  <2> DEFINE j == [job[t] EXCEPT !.hand = s, !.pc = IF from = "checkout" THEN "opened" ELSE "reading"]
  <2>1. job' = [job EXCEPT ![t] = j]
    OBVIOUS
  <2>2. job[t] \in Job /\ Shape(job[t]) /\ s \in Clients
    BY <1>0 DEF TypeOK, JobShape
  <2>3. Shape(j)
    BY <2>2 DEF Shape, Job, At
  <2> HIDE DEF j
  <2> QED
    BY <1>0, <2>1, <2>3, ShapeKept
<1>3. ASSUME NEW t \in Tasks, CheckoutFails(t) \/ ResolveReadOnly(t) PROVE JobShape'
  BY <1>0, <1>3, ShapeDone DEF CheckoutFails, ResolveReadOnly
<1>4. ASSUME NEW t \in Tasks, OpenInline(t) \/ OpenFails(t) \/ ResolveRead(t) PROVE JobShape'
  <2>1. Done(t)
    BY <1>4 DEF OpenInline, OpenFails, ResolveRead
  <2> QED
    BY <1>0, <2>1, ShapeDone
<1>5. ASSUME NEW t \in Tasks, Commit(t) \/ Rollback(t) \/ FetchFails(t) PROVE JobShape'
  <2>1. Done(t)
    BY <1>5 DEF Commit, Rollback, FetchFails
  <2> QED
    BY <1>0, <2>1, ShapeDone
<1>6. ASSUME NEW t \in Tasks, NEW x \in Cursors, OpenRows(t, x) PROVE JobShape'
  <2>1. PICK l \in {"stash", "register"} :
            job' = [job EXCEPT ![t].pc = l, ![t].hand = None, ![t].cur = x]
    BY <1>6 DEF OpenRows
  <2> DEFINE j == [job[t] EXCEPT !.pc = l, !.hand = None, !.cur = x]
  <2>2. job' = [job EXCEPT ![t] = j]
    BY <2>1
  <2>3. job[t] \in Job /\ Shape(job[t]) /\ job[t].pc = "opened"
    BY <1>0, <1>6 DEF TypeOK, JobShape, OpenRows, At
  <2>4. Shape(j)
    BY <2>3 DEF Shape, Job
  <2> HIDE DEF j
  <2> QED
    BY <1>0, <2>2, <2>4, ShapeKept
<1>7. ASSUME NEW t \in Tasks, Stash(t) PROVE JobShape'
  BY <1>7, ShapeGoBusy DEF Stash, At, Busy
<1>8. ASSUME NEW t \in Tasks, Register(t) PROVE JobShape'
  <2> DEFINE j == [job[t] EXCEPT !.pc = "lookup", !.cur = None]
  <2>1. job[t] \in Job /\ Shape(job[t]) /\ job[t].pc = "register"
    BY <1>0, <1>8 DEF TypeOK, JobShape, Register, At
  <2>2. job[t].mode = "resolve" => Shape(j)
    BY <2>1 DEF Shape, Job
  <2>3. [job EXCEPT ![t].pc = "lookup", ![t].cur = None] = [job EXCEPT ![t] = j]
    OBVIOUS
  <2> HIDE DEF j
  <2> QED
    BY <1>0, <1>8, <2>2, <2>3, ShapeKept, ShapeDone DEF Register
<1>9. ASSUME NEW t \in Tasks, NEW x \in Cursors, FetchStart(t, x) PROVE JobShape'
  <2>1. Shape([NoJob EXCEPT !.pc = "take", !.cur = x])
    BY DEF Shape, NoJob
  <2> QED
    BY <1>0, <1>9, <2>1, ShapeKept DEF FetchStart, Start
<1>10. ASSUME NEW t \in Tasks, FetchTake(t) PROVE JobShape'
  <2>1. job[t].pc = "take" /\ (Go(t, "fetching") \/ Done(t))
    BY <1>10 DEF FetchTake, At
  <2> QED
    BY <1>0, <2>1, ShapeGoBusy, ShapeDone
<1>11. ASSUME NEW t \in Tasks, FetchRows(t) PROVE JobShape'
  <2>1. job[t].mode = "none"
    BY <1>0, <1>11 DEF FetchRows, At, JobShape, Shape
  <2> QED
    BY <1>11, <2>1, ShapeGoBusy DEF FetchRows, At, Busy
<1>12. ASSUME NEW t \in Tasks, NEW x \in Cursors, NEW l \in {"commit", "rollback"},
              EndCursor(t, x, l)
       PROVE  JobShape'
  <2>1. Shape([NoJob EXCEPT !.pc = l, !.cur = x])
    BY DEF Shape, NoJob
  <2>2. CASE x \in inner
    BY <1>0, <1>12, <2>1, <2>2, ShapeKept DEF EndCursor, Start
  <2>3. CASE x \notin inner
    BY <1>0, <1>12, <2>3 DEF EndCursor, JobShape
  <2> QED
    BY <2>2, <2>3
<1>13. ASSUME NEW t \in Tasks, NEW x \in Cursors, CloseCursor(t, x) \/ Cancel(t, x) PROVE JobShape'
  BY <1>12, <1>13 DEF CloseCursor, Cancel
<1>14. ASSUME NEW t \in Tasks, NEW c \in Conns, NEW x \in Cursors, ResolveStart(t, c, x) PROVE JobShape'
  <2> DEFINE j == [NoJob EXCEPT !.conn = c, !.pool = registry[c], !.mode = "resolve",
                   !.pc = IF x \in inner THEN "register" ELSE "touch", !.cur = x]
  <2>1. registry[c] \in Pools
    BY <1>0, <1>14 DEF TypeOK, ResolveStart
  <2>2. Shape(j)
    BY <2>1 DEF Shape, NoJob
  <2> QED
    BY <1>0, <1>14, <2>2, ShapeKept DEF ResolveStart, Start
<1>15. ASSUME NEW t \in Tasks, ResolveFinished(t) PROVE JobShape'
  <2> DEFINE j == [job[t] EXCEPT !.pc = "lookup", !.cur = None]
  <2>1. job[t] \in Job /\ Shape(job[t]) /\ job[t].pc = "touch"
    BY <1>0, <1>15 DEF TypeOK, JobShape, ResolveFinished, At
  <2>2. Shape(j)
    BY <2>1 DEF Shape, Job
  <2>3. [job EXCEPT ![t].pc = "lookup", ![t].cur = None] = [job EXCEPT ![t] = j]
    OBVIOUS
  <2> HIDE DEF j
  <2> QED
    BY <1>0, <1>15, <2>2, <2>3, ShapeKept, ShapeDone DEF ResolveFinished
<1>16. ASSUME NEW t \in Tasks, NEW c \in Conns, ConnectStart(t, c) PROVE JobShape'
  <2> DEFINE p == <<c, built[c] + 1>>
  <2>1. p \in Pools
    BY <1>0, <1>16, ConstantAssumption DEF TypeOK, ConnectStart, ConstantAssumption, Pools
  <2>2. Shape([NoJob EXCEPT !.pc = "probe", !.conn = c, !.pool = p])
    BY <2>1 DEF Shape, NoJob
  <2> QED
    BY <1>0, <1>16, <2>2, ShapeKept DEF ConnectStart, Start
<1>17. ASSUME NEW t \in Tasks, ConnectOk(t) \/ ConnectFails(t) \/ Unsave(t) PROVE JobShape'
  BY <1>0, <1>17, ShapeDone DEF ConnectOk, ConnectFails, Unsave
<1>18. ASSUME NEW t \in Tasks, NEW c \in Conns, NEW m \in {"disconnect", "update", "delete"},
              LifecycleStart(t, c, m)
       PROVE  JobShape'
  <2>1. Shape([NoJob EXCEPT !.pc = IF m = "update" THEN "evict" ELSE "drain", !.conn = c, !.mode = m])
    BY DEF Shape, NoJob
  <2> QED
    BY <1>0, <1>18, <2>1, ShapeKept DEF LifecycleStart, Start
<1>19. ASSUME NEW t \in Tasks, Drain(t) PROVE JobShape'
  <2> DEFINE j == [job[t] EXCEPT !.drained = inner \cap OfConn(job[t].conn), !.pc = "cleanup"]
  <2>1. job[t] \in Job /\ Shape(job[t]) /\ job[t].pc = "drain"
    BY <1>0, <1>19 DEF TypeOK, JobShape, Drain, At
  <2>2. Shape(j)
    BY <2>1 DEF Shape, Job
  <2>3. job' = [job EXCEPT ![t] = j]
    BY <1>19 DEF Drain
  <2> HIDE DEF j
  <2> QED
    BY <1>0, <2>2, <2>3, ShapeKept
<1>20. ASSUME NEW t \in Tasks, NEW x \in Cursors, Cleanup(t, x) PROVE JobShape'
  <2> DEFINE j == [job[t] EXCEPT !.drained = @ \ {x}]
  <2>1. job[t] \in Job /\ Shape(job[t]) /\ job[t].pc = "cleanup"
    BY <1>0, <1>20 DEF TypeOK, JobShape, Cleanup, At
  <2>2. Shape(j)
    BY <2>1 DEF Shape, Job
  <2>3. job' = [job EXCEPT ![t] = j]
    BY <1>20 DEF Cleanup
  <2> HIDE DEF j
  <2> QED
    BY <1>0, <2>2, <2>3, ShapeKept
<1>21. ASSUME NEW t \in Tasks, Tidy(t) PROVE JobShape'
  <2>1. job[t] \in Job /\ Shape(job[t]) /\ job[t].pc = "cleanup" /\ job[t].drained = {}
    BY <1>0, <1>21 DEF TypeOK, JobShape, Tidy, At
  <2>2. CASE job[t].mode \in {"disconnect", "delete"}
    <3>1. Shape([job[t] EXCEPT !.pc = "evict"])
      BY <2>1, <2>2 DEF Shape, Job
    <3> QED
      BY <1>0, <1>21, <2>2, <3>1, ShapeGo, ShapeDone DEF Tidy
  <2>3. CASE job[t].mode = "update"
    BY <1>0, <1>21, <2>3, ShapeDone DEF Tidy
  <2> QED
    BY <2>1, <2>2, <2>3 DEF Shape
<1>22. ASSUME NEW t \in Tasks, Evict(t) PROVE JobShape'
  <2>1. job[t] \in Job /\ Shape(job[t]) /\ job[t].pc = "evict"
    BY <1>0, <1>22 DEF TypeOK, JobShape, Evict, At
  <2>2. Shape([job[t] EXCEPT !.pc = "drain"]) /\ Shape([job[t] EXCEPT !.pc = "unsave"])
    BY <2>1 DEF Shape, Job
  <2>3. Done(t) \/ Go(t, "drain") \/ Go(t, "unsave")
    BY <1>22, <2>1 DEF Evict, Shape
  <2> QED
    BY <1>0, <2>2, <2>3, ShapeGo, ShapeDone
<1>23. ASSUME UNCHANGED job PROVE JobShape'
  BY <1>0, <1>23 DEF JobShape
<1>24. ASSUME Sweep \/ (\E x \in Cursors : Age(x)) \/ (\E s \in Clients : LoseSession(s))
              \/ WalkAway \/ UNCHANGED vars
       PROVE  UNCHANGED job
  BY <1>24 DEF Sweep, SweepDrain, SweepOne, SweepFinished, Age, LoseSession, WalkAway, vars
<1> QED
  BY <1>1, <1>2, <1>3, <1>4, <1>5, <1>6, <1>7, <1>8, <1>9, <1>10, <1>11, <1>13, <1>14, <1>15,
     <1>16, <1>17, <1>18, <1>19, <1>20, <1>21, <1>22, <1>23, <1>24
     DEF Next, UserCommand, Proceed

----------------------------------------------------------------------------
(* SingleOwner: how each command moves CursorStates between owners.         *)

OwnedBy(j) == j.drained \cup (IF j.pc \in Owning THEN {j.cur} ELSE {})

\* Only the command of task t moves, to job record j.
Moves(t, j) == job' = [job EXCEPT ![t] = j]

SameLive == \A x \in Cursors : client'[x] # None <=> client[x] # None

\* A move of one command changes nobody else's possessions.
LEMMA MoveOwned ==
    ASSUME TypeOK, NEW t \in Tasks, NEW j, Moves(t, j)
    PROVE  Owned(t)' = OwnedBy(j) /\ \A u \in Tasks \ {t} : Owned(u)' = Owned(u)
  BY DEF TypeOK, Moves, Owned, OwnedBy

\* A command that ends owns nothing.
LEMMA DoneOwned ==
    ASSUME TypeOK, NEW t \in Tasks, Done(t)
    PROVE  Owned(t)' = {} /\ \A u \in Tasks \ {t} : Owned(u)' = Owned(u)
<1>1. OwnedBy(NoJob) = {}
  BY DEF OwnedBy, NoJob, Owning
<1> QED
  BY <1>1, MoveOwned DEF Done, Moves

\* A command that moves owns what its new await says.
LEMMA GoOwned ==
    ASSUME TypeOK, NEW t \in Tasks, NEW l, Go(t, l)
    PROVE  /\ Owned(t)' = job[t].drained \cup (IF l \in Owning THEN {job[t].cur} ELSE {})
           /\ \A u \in Tasks \ {t} : Owned(u)' = Owned(u)
<1> DEFINE j == [job[t] EXCEPT !.pc = l]
<1>1. Moves(t, j)
  BY DEF Go, Moves
<1>2. job[t] \in Job
  BY DEF TypeOK
<1>3. OwnedBy(j) = job[t].drained \cup (IF l \in Owning THEN {job[t].cur} ELSE {})
  BY <1>2 DEF OwnedBy, Job
<1> HIDE DEF j
<1> QED
  BY <1>1, <1>3, MoveOwned

\* What a command owns at its await.
LEMMA OwnedAt ==
    ASSUME IInv, NEW t \in Tasks
    PROVE  /\ job[t].pc # "cleanup" => job[t].drained = {}
           /\ job[t].pc = "cleanup" => Owned(t) = job[t].drained
           /\ job[t].pc \in Owning => Owned(t) = {job[t].cur} /\ job[t].cur \in Cursors
           /\ job[t].pc \notin Owning \cup {"cleanup"} => Owned(t) = {}
  BY DEF IInv, JobShape, Shape, Owned, Owning

\* Where nobody's possessions change, neither do the owners.
LEMMA OwnersSame ==
    ASSUME SingleOwner, UNCHANGED <<inner, sweeper>>, SameLive,
           \A u \in Tasks : Owned(u)' = Owned(u)
    PROVE  SingleOwner'
  BY DEF SingleOwner, SameLive

\* Task t takes the states xs out of the registry.
LEMMA OwnersTake ==
    ASSUME SingleOwner, SameLive, UNCHANGED sweeper, NEW t \in Tasks, NEW xs,
           inner' = inner \ xs, Owned(t) = {}, Owned(t)' = xs \cap inner,
           \A u \in Tasks \ {t} : Owned(u)' = Owned(u)
    PROVE  SingleOwner'
  BY DEF SingleOwner, SameLive

\* Task t puts the state x, all it owns, into the registry.
LEMMA OwnersPut ==
    ASSUME SingleOwner, SameLive, UNCHANGED sweeper, NEW t \in Tasks, NEW x \in Cursors,
           inner' = inner \cup {x}, Owned(t) = {x}, Owned(t)' = {},
           \A u \in Tasks \ {t} : Owned(u)' = Owned(u)
    PROVE  SingleOwner'
  BY DEF SingleOwner, SameLive

\* Task t drops the state x.
LEMMA OwnersDrop ==
    ASSUME TypeOK, SingleOwner, UNCHANGED <<inner, sweeper>>, NEW t \in Tasks, NEW x \in Owned(t),
           client' = [client EXCEPT ![x] = None], Owned(t)' = Owned(t) \ {x},
           \A u \in Tasks \ {t} : Owned(u)' = Owned(u)
    PROVE  SingleOwner'
  BY DEF TypeOK, SingleOwner

\* Every step leaves each live state with one owner.
LEMMA OwnStep == IInv /\ [Next]_vars => SingleOwner'
<1> SUFFICES ASSUME IInv, [Next]_vars PROVE SingleOwner'
  OBVIOUS
<1>0. TypeOK /\ SingleOwner
  BY DEF IInv
<1> USE DEF regVars
(* Commands that own no state before or after the step.                     *)
<1>1. ASSUME NEW t \in Tasks, job[t].pc \notin Owning \cup {"cleanup"}, Done(t),
             UNCHANGED <<inner, sweeper, client>>
      PROVE  SingleOwner'
  BY <1>0, <1>1, DoneOwned, OwnedAt, OwnersSame DEF SameLive
<1>2. ASSUME NEW t \in Tasks, NEW j, job[t].pc \notin Owning \cup {"cleanup"}, Moves(t, j),
             OwnedBy(j) = {}, UNCHANGED <<inner, sweeper, client>>
      PROVE  SingleOwner'
  BY <1>0, <1>2, MoveOwned, OwnedAt, OwnersSame DEF SameLive
<1>3. ASSUME NEW t \in Tasks, CheckoutFails(t) \/ ResolveReadOnly(t) PROVE SingleOwner'
  BY <1>1, <1>3 DEF CheckoutFails, ResolveReadOnly, At, Owning
<1>4. ASSUME NEW t \in Tasks, OpenInline(t) \/ OpenFails(t) PROVE SingleOwner'
  BY <1>1, <1>4 DEF OpenInline, OpenFails, At, Owning
<1>5. ASSUME NEW t \in Tasks, ResolveRead(t) PROVE SingleOwner'
  BY <1>1, <1>5 DEF ResolveRead, At, Owning
<1>6. ASSUME NEW t \in Tasks, ConnectOk(t) \/ ConnectFails(t) \/ Unsave(t) PROVE SingleOwner'
  BY <1>1, <1>6 DEF ConnectOk, ConnectFails, Unsave, At, Owning
<1>7. ASSUME NEW t \in Tasks, NEW c \in Conns, OpenStart(t, c) PROVE SingleOwner'
  <2> DEFINE j == [NoJob EXCEPT !.pc = "checkout", !.mode = "open", !.conn = c, !.pool = registry[c]]
  <2>1. OwnedBy(j) = {}
    BY DEF OwnedBy, NoJob, Owning
  <2>2. Moves(t, j) /\ job[t].pc \notin Owning \cup {"cleanup"} /\ UNCHANGED <<inner, sweeper, client>>
    BY <1>7 DEF OpenStart, Start, At, Owning, Moves
  <2> HIDE DEF j
  <2> QED
    BY <1>2, <2>1, <2>2
<1>8. ASSUME NEW t \in Tasks, NEW c \in Conns, ConnectStart(t, c) PROVE SingleOwner'
  <2> DEFINE j == [NoJob EXCEPT !.pc = "probe", !.conn = c, !.pool = <<c, built[c] + 1>>]
  <2>1. OwnedBy(j) = {}
    BY DEF OwnedBy, NoJob, Owning
  <2>2. Moves(t, j) /\ job[t].pc \notin Owning \cup {"cleanup"} /\ UNCHANGED <<inner, sweeper, client>>
    BY <1>8 DEF ConnectStart, Start, At, Owning, Moves
  <2> HIDE DEF j
  <2> QED
    BY <1>2, <2>1, <2>2
<1>9. ASSUME NEW t \in Tasks, NEW c \in Conns, NEW m \in {"disconnect", "update", "delete"},
             LifecycleStart(t, c, m)
      PROVE  SingleOwner'
  <2> DEFINE j == [NoJob EXCEPT !.pc = IF m = "update" THEN "evict" ELSE "drain", !.conn = c, !.mode = m]
  <2>1. OwnedBy(j) = {}
    BY DEF OwnedBy, NoJob, Owning
  <2>2. Moves(t, j) /\ job[t].pc \notin Owning \cup {"cleanup"} /\ UNCHANGED <<inner, sweeper, client>>
    BY <1>9 DEF LifecycleStart, Start, At, Owning, Moves
  <2> HIDE DEF j
  <2> QED
    BY <1>2, <2>1, <2>2
<1>10. ASSUME NEW t \in Tasks, NEW x \in Cursors, FetchStart(t, x) PROVE SingleOwner'
  <2> DEFINE j == [NoJob EXCEPT !.pc = "take", !.cur = x]
  <2>1. OwnedBy(j) = {}
    BY DEF OwnedBy, NoJob, Owning
  <2>2. Moves(t, j) /\ job[t].pc \notin Owning \cup {"cleanup"} /\ UNCHANGED <<inner, sweeper, client>>
    BY <1>10 DEF FetchStart, Start, At, Owning, Moves
  <2> HIDE DEF j
  <2> QED
    BY <1>2, <2>1, <2>2
<1>11. ASSUME NEW t \in Tasks, Checkout(t) PROVE SingleOwner'
  <2> PICK from \in {"checkout", "lookup"}, s \in avail : Checkout(t)!(from, s)
    BY <1>11 DEF Checkout
  <2> DEFINE j == [job[t] EXCEPT !.hand = s, !.pc = IF from = "checkout" THEN "opened" ELSE "reading"]
  <2>1. job[t] \in Job /\ job[t].pc \notin Owning \cup {"cleanup"} /\ job[t].drained = {}
    BY <1>0, OwnedAt DEF TypeOK, At, Owning
  <2>2. OwnedBy(j) = {}
    BY <2>1 DEF OwnedBy, Owning, Job
  <2>3. Moves(t, j) /\ UNCHANGED <<inner, sweeper, client>>
    BY DEF Moves
  <2> HIDE DEF j
  <2> QED
    BY <1>2, <2>1, <2>2, <2>3
<1>12. ASSUME NEW t \in Tasks, ResolveFinished(t) PROVE SingleOwner'
  <2> DEFINE j == [job[t] EXCEPT !.pc = "lookup", !.cur = None]
  <2>1. job[t] \in Job /\ job[t].pc \notin Owning \cup {"cleanup"} /\ job[t].drained = {}
    BY <1>0, <1>12, OwnedAt DEF TypeOK, ResolveFinished, At, Owning
  <2>2. OwnedBy(j) = {}
    BY <2>1 DEF OwnedBy, Owning, Job
  <2>3. Done(t) \/ Moves(t, j)
    BY <1>12 DEF Moves, ResolveFinished
  <2>4. UNCHANGED <<inner, sweeper, client>>
    BY <1>12 DEF ResolveFinished
  <2> HIDE DEF j
  <2> QED
    BY <1>1, <1>2, <2>1, <2>2, <2>3, <2>4
<1>13. ASSUME NEW t \in Tasks, Evict(t) PROVE SingleOwner'
  <2>1. job[t].pc \notin Owning \cup {"cleanup"} /\ job[t].drained = {}
    BY <1>13, OwnedAt DEF Evict, At, Owning
  <2>2. Done(t) \/ Go(t, "drain") \/ Go(t, "unsave")
    BY <1>13, JobAt DEF Evict, At
  <2>3. \A u \in Tasks : Owned(u)' = Owned(u)
    BY <1>0, <2>1, <2>2, DoneOwned, GoOwned, OwnedAt DEF Owning
  <2>4. UNCHANGED <<inner, sweeper, client>>
    BY <1>13 DEF Evict
  <2> QED
    BY <1>0, <2>3, <2>4, OwnersSame DEF SameLive
<1>14. ASSUME NEW t \in Tasks, Tidy(t) PROVE SingleOwner'
  <2>1. job[t].drained = {} /\ Owned(t) = {}
    BY <1>14, OwnedAt DEF Tidy, At
  <2>2. Done(t) \/ Go(t, "evict")
    BY <1>14 DEF Tidy
  <2>3. \A u \in Tasks : Owned(u)' = Owned(u)
    BY <1>0, <2>1, <2>2, DoneOwned, GoOwned DEF Owning
  <2>4. UNCHANGED <<inner, sweeper, client>>
    BY <1>14 DEF Tidy
  <2> QED
    BY <1>0, <2>3, <2>4, OwnersSame DEF SameLive
(* A command keeps the state it owns.                                       *)
<1>15. ASSUME NEW t \in Tasks, NEW l \in Owning, Go(t, l), job[t].pc \in Owning,
              UNCHANGED <<inner, sweeper, client>>
       PROVE  SingleOwner'
  <2>1. Owned(t)' = Owned(t)
    BY <1>0, <1>15, GoOwned, OwnedAt DEF Owning
  <2>2. \A u \in Tasks : Owned(u)' = Owned(u)
    BY <1>0, <1>15, <2>1, GoOwned
  <2> QED
    BY <1>0, <1>15, <2>2, OwnersSame DEF SameLive
<1>16. ASSUME NEW t \in Tasks, Stash(t) PROVE SingleOwner'
  BY <1>15, <1>16 DEF Stash, At, Owning
<1>17. ASSUME NEW t \in Tasks, FetchRows(t) PROVE SingleOwner'
  BY <1>15, <1>17 DEF FetchRows, At, Owning
(* States leave the registry.                                               *)
<1>18. ASSUME NEW t \in Tasks, FetchTake(t) PROVE SingleOwner'
  <2>1. job[t].drained = {} /\ Owned(t) = {} /\ inner' = inner \ {job[t].cur} /\ UNCHANGED <<sweeper, client>>
    BY <1>18, OwnedAt DEF FetchTake, At, Owning, TakeOut
  <2>2. CASE job[t].cur \in inner
    <3>1. Go(t, "fetching")
      BY <1>18, <2>2 DEF FetchTake
    <3>2. Owned(t)' = {job[t].cur} \cap inner /\ \A u \in Tasks \ {t} : Owned(u)' = Owned(u)
      BY <1>0, <2>1, <2>2, <3>1, GoOwned DEF Owning
    <3> QED
      BY <1>0, <2>1, <3>2, OwnersTake DEF SameLive
  <2>3. CASE job[t].cur \notin inner
    BY <1>0, <1>1, <1>18, <2>1, <2>3 DEF FetchTake, At, Owning
  <2> QED
    BY <2>2, <2>3
<1>19. ASSUME NEW t \in Tasks, NEW x \in Cursors, NEW l \in {"commit", "rollback"}, EndCursor(t, x, l)
       PROVE  SingleOwner'
  <2>1. CASE x \in inner
    <3> DEFINE j == [NoJob EXCEPT !.pc = l, !.cur = x]
    <3>1. OwnedBy(j) = {x}
      BY DEF OwnedBy, NoJob, Owning
    <3>2. Moves(t, j) /\ Owned(t) = {} /\ inner' = inner \ {x} /\ UNCHANGED <<sweeper, client>>
      BY <1>19, <2>1, OwnedAt DEF EndCursor, Start, Moves, At, Owning, TakeOut
    <3> HIDE DEF j
    <3>3. Owned(t)' = {x} \cap inner /\ \A u \in Tasks \ {t} : Owned(u)' = Owned(u)
      BY <1>0, <2>1, <3>1, <3>2, MoveOwned
    <3> QED
      BY <1>0, <3>2, <3>3, OwnersTake DEF SameLive
  <2>2. CASE x \notin inner
    BY <1>0, <1>19, <2>2, OwnersSame DEF EndCursor, Owned, SameLive
  <2> QED
    BY <2>1, <2>2
<1>20. ASSUME NEW t \in Tasks, NEW x \in Cursors, CloseCursor(t, x) \/ Cancel(t, x) PROVE SingleOwner'
  BY <1>19, <1>20 DEF CloseCursor, Cancel
<1>21. ASSUME NEW t \in Tasks, NEW c \in Conns, NEW x \in Cursors, ResolveStart(t, c, x) PROVE SingleOwner'
  <2> DEFINE j == [NoJob EXCEPT !.conn = c, !.pool = registry[c], !.mode = "resolve",
                   !.pc = IF x \in inner THEN "register" ELSE "touch", !.cur = x]
  <2>1. OwnedBy(j) = {x} \cap inner
    BY DEF OwnedBy, NoJob, Owning
  <2>2. Moves(t, j) /\ Owned(t) = {} /\ inner' = inner \ {x} /\ UNCHANGED <<sweeper, client>>
    BY <1>21, OwnedAt DEF ResolveStart, Start, Moves, At, Owning, TakeOut
  <2> HIDE DEF j
  <2>3. Owned(t)' = {x} \cap inner /\ \A u \in Tasks \ {t} : Owned(u)' = Owned(u)
    BY <1>0, <2>1, <2>2, MoveOwned
  <2> QED
    BY <1>0, <2>2, <2>3, OwnersTake DEF SameLive
<1>22. ASSUME NEW t \in Tasks, Drain(t) PROVE SingleOwner'
  <2> DEFINE xs == inner \cap OfConn(job[t].conn)
             j  == [job[t] EXCEPT !.drained = xs, !.pc = "cleanup"]
  <2>1. job[t] \in Job /\ Owned(t) = {} /\ UNCHANGED <<sweeper, client>> /\ inner' = inner \ xs
    BY <1>0, <1>22, OwnedAt DEF TypeOK, Drain, At, Owning, TakeOut
  <2>2. OwnedBy(j) = xs
    BY <2>1 DEF OwnedBy, Owning, Job
  <2>3. Moves(t, j)
    BY <1>22 DEF Drain, Moves
  <2>4. xs \cap inner = xs
    OBVIOUS
  <2> HIDE DEF j, xs
  <2>5. Owned(t)' = xs \cap inner /\ \A u \in Tasks \ {t} : Owned(u)' = Owned(u)
    BY <1>0, <2>2, <2>3, <2>4, MoveOwned
  <2> QED
    BY <1>0, <2>1, <2>5, OwnersTake DEF SameLive
<1>23. ASSUME SweepDrain PROVE SingleOwner'
  <2>1. \A u \in Tasks : Owned(u)' = Owned(u)
    BY <1>23 DEF SweepDrain, Owned
  <2>2. sweeper.drained = {}
    BY <1>23 DEF SweepDrain, IInv, SweeperRests
  <2>3. inner' = inner \ aged /\ sweeper'.drained = inner \cap aged /\ UNCHANGED client
    BY <1>23 DEF SweepDrain, TakeOut
  <2> QED
    BY <1>0, <2>1, <2>2, <2>3 DEF SingleOwner
(* A state enters the registry.                                             *)
<1>24. ASSUME NEW t \in Tasks, Register(t) PROVE SingleOwner'
  <2> DEFINE x == job[t].cur
             j == [job[t] EXCEPT !.pc = "lookup", !.cur = None]
  <2>1. job[t] \in Job /\ Owned(t) = {x} /\ x \in Cursors /\ job[t].drained = {}
        /\ UNCHANGED <<sweeper, client>> /\ inner' = inner \cup {x}
    BY <1>0, <1>24, OwnedAt DEF TypeOK, Register, At, Owning
  <2>2. OwnedBy(j) = {}
    BY <2>1 DEF OwnedBy, Owning, Job
  <2>3. Done(t) \/ Moves(t, j)
    BY <1>24 DEF Register, Moves
  <2> HIDE DEF j, x
  <2>4. Owned(t)' = {} /\ \A u \in Tasks \ {t} : Owned(u)' = Owned(u)
    BY <1>0, <2>2, <2>3, MoveOwned, DoneOwned
  <2> QED
    BY <1>0, <2>1, <2>4, OwnersPut DEF SameLive
(* States are born and dropped.                                             *)
<1>25. ASSUME NEW t \in Tasks, NEW x \in Cursors, OpenRows(t, x) PROVE SingleOwner'
  <2>1. PICK l \in {"stash", "register"} :
            job' = [job EXCEPT ![t].pc = l, ![t].hand = None, ![t].cur = x]
    BY <1>25 DEF OpenRows
  <2> DEFINE j == [job[t] EXCEPT !.pc = l, !.hand = None, !.cur = x]
  <2>2. job[t] \in Job /\ Owned(t) = {} /\ job[t].drained = {}
    BY <1>0, <1>25, OwnedAt DEF TypeOK, OpenRows, At, Owning
  <2>3. OwnedBy(j) = {x}
    BY <2>2 DEF OwnedBy, Owning, Job
  <2>4. Moves(t, j)
    BY <2>1 DEF Moves
  <2> HIDE DEF j
  <2>5. Owned(t)' = {x} /\ \A u \in Tasks \ {t} : Owned(u)' = Owned(u)
    BY <1>0, <2>3, <2>4, MoveOwned
  <2>6. client[x] = None /\ UNCHANGED <<inner, sweeper>>
    BY <1>25 DEF OpenRows, IInv, HomeKnown
  <2>7. client' = [client EXCEPT ![x] = job[t].hand] /\ job[t].hand # None
    BY <1>25, JobAt, NoneDistinct DEF OpenRows, At
  <2> QED
    BY <1>0, <2>2, <2>5, <2>6, <2>7 DEF SingleOwner, TypeOK
<1>26. ASSUME NEW t \in Tasks, Commit(t) \/ Rollback(t) \/ FetchFails(t) PROVE SingleOwner'
  <2> DEFINE x == job[t].cur
  <2>1. Done(t) /\ Owned(t) = {x} /\ UNCHANGED <<inner, sweeper>>
    BY <1>26, OwnedAt DEF Commit, Rollback, FetchFails, At, Owning
  <2>2. client' = [client EXCEPT ![x] = None]
    BY <1>26 DEF Commit, Rollback, FetchFails, DropState
  <2> HIDE DEF x
  <2> QED
    BY <1>0, <2>1, <2>2, DoneOwned, OwnersDrop
<1>27. ASSUME NEW t \in Tasks, NEW x \in Cursors, Cleanup(t, x) PROVE SingleOwner'
  <2> DEFINE j == [job[t] EXCEPT !.drained = @ \ {x}]
  <2>1. job[t] \in Job /\ job[t].pc = "cleanup" /\ Owned(t) = job[t].drained /\ x \in Owned(t)
    BY <1>0, <1>27, OwnedAt DEF TypeOK, Cleanup, At
  <2>2. OwnedBy(j) = Owned(t) \ {x}
    BY <2>1 DEF OwnedBy, Owning, Job
  <2>3. Moves(t, j) /\ client' = [client EXCEPT ![x] = None] /\ UNCHANGED <<inner, sweeper>>
    BY <1>27 DEF Cleanup, Moves, DropState
  <2> HIDE DEF j
  <2> QED
    BY <1>0, <2>1, <2>2, <2>3, MoveOwned, OwnersDrop
<1>28. ASSUME NEW x \in Cursors, SweepOne(x) PROVE SingleOwner'
  <2>1. \A u \in Tasks : Owned(u)' = Owned(u)
    BY <1>28 DEF SweepOne, Owned
  <2>2. x \in sweeper.drained /\ sweeper'.drained = sweeper.drained \ {x} /\ UNCHANGED inner
        /\ client' = [client EXCEPT ![x] = None]
    BY <1>0, <1>28 DEF SweepOne, DropState, TypeOK
  <2> QED
    BY <1>0, <2>1, <2>2 DEF SingleOwner, TypeOK
(* Steps of the environment.                                                *)
<1>29. ASSUME SweepFinished PROVE SingleOwner'
  <2>1. \A u \in Tasks : Owned(u)' = Owned(u)
    BY <1>29 DEF SweepFinished, Owned
  <2>2. sweeper'.drained = sweeper.drained /\ UNCHANGED <<inner, client>>
    BY <1>0, <1>29 DEF SweepFinished, TypeOK
  <2> QED
    BY <1>0, <2>1, <2>2 DEF SingleOwner
<1>30. ASSUME (\E x \in Cursors : Age(x)) \/ (\E s \in Clients : LoseSession(s)) \/ WalkAway \/ UNCHANGED vars
       PROVE  SingleOwner'
  <2>1. UNCHANGED <<job, sweeper, inner, client>>
    BY <1>30 DEF Age, LoseSession, WalkAway, vars
  <2> QED
    BY <1>0, <2>1 DEF SingleOwner, Owned
<1> QED
  BY <1>3, <1>4, <1>5, <1>6, <1>7, <1>8, <1>9, <1>10, <1>11, <1>12, <1>13, <1>14, <1>16, <1>17, <1>18,
     <1>20, <1>21, <1>22, <1>23, <1>24, <1>25, <1>26, <1>27, <1>28, <1>29, <1>30
     DEF Next, UserCommand, Proceed, Sweep

----------------------------------------------------------------------------
(* HomeKnown, FinishedEnding and SweeperRests.                              *)

\* Every step keeps the connection of each cursor that exists.
LEMMA HomeStep == IInv /\ [Next]_vars => HomeKnown'
<1> SUFFICES ASSUME IInv, [Next]_vars PROVE HomeKnown'
  OBVIOUS
<1>0. TypeOK /\ HomeKnown
  BY DEF IInv
<1> USE DEF regVars
\* An id is never forgotten, and a step that keeps the clients or drops one,
\* and finishes no id, keeps HomeKnown.
<1>1. ASSUME UNCHANGED home, finished' \subseteq finished,
             \/ UNCHANGED client
             \/ \E x \in Cursors : client' = [client EXCEPT ![x] = None]
      PROVE  HomeKnown'
  BY <1>0, <1>1 DEF TypeOK, HomeKnown
<1>2. ASSUME NEW t \in Tasks, NEW x \in Cursors, OpenRows(t, x) PROVE HomeKnown'
  <2>1. job[t].pool # None
    BY <1>2, JobAt, NoneDistinct DEF OpenRows, At
  <2> QED
    BY <1>0, <1>2, <2>1 DEF OpenRows, TypeOK, HomeKnown
<1>3. ASSUME NEW t \in Tasks, Stash(t) PROVE HomeKnown'
  <2>1. job[t].cur \in Cursors /\ client[job[t].cur] # None
    BY <1>3, OwnedLive DEF Stash, At, Owning
  <2> QED
    BY <1>0, <1>3, <2>1 DEF Stash, HomeKnown
<1>4. ASSUME NEW t \in Tasks, Commit(t) \/ Rollback(t) \/ FetchFails(t) PROVE HomeKnown'
  <2>1. job[t].cur \in Cursors
    BY <1>4, JobAt DEF Commit, Rollback, FetchFails, At, Busy
  <2> QED
    BY <1>1, <1>4, <2>1 DEF Commit, Rollback, FetchFails, DropState
<1>5. ASSUME NEW x \in Cursors, SweepOne(x) \/ \E t \in Tasks : Cleanup(t, x) PROVE HomeKnown'
  BY <1>1, <1>5 DEF Cleanup, SweepOne, DropState
<1>6. ASSUME NEW t \in Tasks, UserCommand(t) PROVE HomeKnown'
  <2>1. UNCHANGED <<home, finished, client>>
    BY <1>6 DEF UserCommand, OpenStart, ConnectStart, LifecycleStart, FetchStart, CloseCursor,
                Cancel, EndCursor, ResolveStart
  <2> QED
    BY <1>1, <2>1
<1>7. ASSUME NEW t \in Tasks,
             \/ Checkout(t) \/ CheckoutFails(t) \/ ResolveReadOnly(t) \/ OpenInline(t) \/ OpenFails(t)
             \/ Register(t) \/ FetchTake(t) \/ FetchRows(t)
             \/ ResolveFinished(t) \/ ResolveRead(t) \/ ConnectOk(t) \/ ConnectFails(t)
             \/ Drain(t) \/ Tidy(t) \/ Evict(t) \/ Unsave(t)
      PROVE  HomeKnown'
  <2>1. UNCHANGED <<home, client>> /\ finished' \subseteq finished
    BY <1>7 DEF Checkout, CheckoutFails, ResolveReadOnly, OpenInline, OpenFails, Register, FetchTake, FetchRows,
                ResolveFinished, ResolveRead, ConnectOk, ConnectFails, Drain, Tidy, Evict, Unsave
  <2> QED
    BY <1>1, <2>1
<1>8. ASSUME \/ SweepDrain \/ SweepFinished \/ (\E x \in Cursors : Age(x))
             \/ (\E s \in Clients : LoseSession(s)) \/ WalkAway \/ UNCHANGED vars
      PROVE  HomeKnown'
  <2>1. UNCHANGED <<home, client>> /\ finished' \subseteq finished
    BY <1>8 DEF SweepDrain, SweepFinished, Age, LoseSession, WalkAway, vars
  <2> QED
    BY <1>1, <2>1
<1> QED
  BY <1>2, <1>3, <1>4, <1>5, <1>6, <1>7, <1>8 DEF Next, Proceed, Sweep

\* Every step leaves a finished cursor with the command that ends it, or gone.
LEMMA FinishedStep == IInv /\ [Next]_vars => FinishedEnding'
<1> SUFFICES ASSUME IInv, [Next]_vars PROVE FinishedEnding'
  OBVIOUS
<1>0. TypeOK /\ FinishedEnding /\ SingleOwner /\ finished \subseteq Cursors
  BY DEF IInv, TypeOK
<1> USE DEF regVars
\* A step that finishes no id, drops states only, and ends no commit.
<1>1. ASSUME finished' \subseteq finished,
             \A x \in Cursors : client'[x] # None => client[x] # None,
             \A u \in Tasks : job[u].pc = "commit" => job'[u] = job[u]
      PROVE  FinishedEnding'
  BY <1>0, <1>1 DEF FinishedEnding
<1>2. ASSUME NEW t \in Tasks, job[t].pc # "commit", \E j : Moves(t, j)
      PROVE  \A u \in Tasks : job[u].pc = "commit" => job'[u] = job[u]
  BY <1>0, <1>2 DEF TypeOK, Moves
<1>3. ASSUME NEW t \in Tasks, NEW x \in Cursors, OpenRows(t, x) PROVE FinishedEnding'
  <2>1. client[x] = None /\ x \notin finished /\ UNCHANGED finished
    BY <1>3 DEF OpenRows, IInv, HomeKnown
  <2>2. \A y \in Cursors \ {x} : client'[y] = client[y]
    BY <1>0, <1>3 DEF OpenRows, TypeOK
  <2>3. \A u \in Tasks : job[u].pc = "commit" => job'[u] = job[u]
    BY <1>0, <1>3 DEF OpenRows, At, TypeOK
  <2> QED
    BY <1>0, <2>1, <2>2, <2>3 DEF FinishedEnding
<1>4. ASSUME NEW t \in Tasks, Stash(t) PROVE FinishedEnding'
  <2>1. job[t] \in Job /\ job[t].pc = "stash" /\ UNCHANGED client /\ finished' = finished \cup {job[t].cur}
    BY <1>0, <1>4 DEF Stash, At, TypeOK
  <2>2. job'[t].pc = "commit" /\ job'[t].cur = job[t].cur
    BY <1>0, <1>4, <2>1 DEF Stash, Go, TypeOK, Job
  <2>3. \A u \in Tasks : job[u].pc = "commit" => job'[u] = job[u]
    BY <1>0, <1>4, <2>1 DEF Stash, Go, TypeOK
  <2> QED
    BY <1>0, <2>1, <2>2, <2>3 DEF FinishedEnding
<1>5. ASSUME NEW t \in Tasks, Commit(t) PROVE FinishedEnding'
  <2>1. client' = [client EXCEPT ![job[t].cur] = None] /\ UNCHANGED finished
    BY <1>5 DEF Commit, DropState
  <2>2. \A u \in Tasks \ {t} : job'[u] = job[u]
    BY <1>0, <1>5 DEF Commit, Done, TypeOK
  <2>3. job[t].cur \in Cursors
    BY <1>5, JobAt DEF Commit, At, Busy
  <2> QED
    BY <1>0, <2>1, <2>2, <2>3 DEF FinishedEnding, TypeOK
<1>6. ASSUME NEW t \in Tasks, Rollback(t) \/ FetchFails(t) PROVE FinishedEnding'
  <2>1. client' = [client EXCEPT ![job[t].cur] = None] /\ UNCHANGED finished /\ job[t].cur \in Cursors
    BY <1>6, JobAt DEF Rollback, FetchFails, DropState, At, Busy
  <2>2. job[t].pc # "commit" /\ Moves(t, NoJob)
    BY <1>6 DEF Rollback, FetchFails, At, Done, Moves
  <2> QED
    BY <1>0, <1>1, <1>2, <2>1, <2>2 DEF TypeOK
<1>7. ASSUME NEW t \in Tasks, NEW x \in Cursors, Cleanup(t, x) PROVE FinishedEnding'
  <2>1. client' = [client EXCEPT ![x] = None] /\ UNCHANGED finished
    BY <1>7 DEF Cleanup, DropState
  <2>2. job[t].pc # "commit" /\ Moves(t, [job[t] EXCEPT !.drained = @ \ {x}])
    BY <1>7 DEF Cleanup, At, Moves
  <2> QED
    BY <1>0, <1>1, <1>2, <2>1, <2>2 DEF TypeOK
<1>8. ASSUME NEW x \in Cursors, SweepOne(x) PROVE FinishedEnding'
  <2>1. client' = [client EXCEPT ![x] = None] /\ UNCHANGED <<finished, job>>
    BY <1>8 DEF SweepOne, DropState
  <2> QED
    BY <1>0, <1>1, <2>1 DEF TypeOK
<1>9. ASSUME NEW t \in Tasks, UserCommand(t) PROVE FinishedEnding'
  <2>1. UNCHANGED <<finished, client>> /\ (UNCHANGED job \/ \E j : Start(t, j))
    BY <1>9 DEF UserCommand, OpenStart, ConnectStart, LifecycleStart, FetchStart, CloseCursor,
                Cancel, EndCursor, ResolveStart
  <2>2. UNCHANGED job \/ (job[t].pc # "commit" /\ \E j : Moves(t, j))
    BY <2>1 DEF Start, At, Moves
  <2> QED
    BY <1>1, <1>2, <2>1, <2>2
<1>10. ASSUME NEW t \in Tasks,
              \/ Checkout(t) \/ CheckoutFails(t) \/ ResolveReadOnly(t) \/ OpenInline(t) \/ OpenFails(t)
              \/ Register(t) \/ FetchTake(t) \/ FetchRows(t)
              \/ ResolveFinished(t) \/ ResolveRead(t) \/ ConnectOk(t) \/ ConnectFails(t)
              \/ Drain(t) \/ Tidy(t) \/ Evict(t) \/ Unsave(t)
       PROVE  FinishedEnding'
  <2>1. UNCHANGED client /\ finished' \subseteq finished
    BY <1>10 DEF Checkout, CheckoutFails, ResolveReadOnly, OpenInline, OpenFails, Register, FetchTake, FetchRows,
                 ResolveFinished, ResolveRead, ConnectOk, ConnectFails, Drain, Tidy, Evict, Unsave
  <2>2. \A u \in Tasks : job[u].pc = "commit" => job'[u] = job[u]
    <3>1. job[t].pc # "commit"
      BY <1>10 DEF Checkout, CheckoutFails, ResolveReadOnly, OpenInline, OpenFails, Register, FetchTake, FetchRows,
                   ResolveFinished, ResolveRead, ConnectOk, ConnectFails, Drain, Tidy, Evict, Unsave, At
    <3>2. \A u \in Tasks \ {t} : job'[u] = job[u]
      <4>1. ASSUME Done(t) \/ \E l : Go(t, l) PROVE \A u \in Tasks \ {t} : job'[u] = job[u]
        BY <1>0, <4>1 DEF Done, Go, TypeOK
      <4>2. CASE Checkout(t)
        BY <1>0, <4>2 DEF Checkout, TypeOK
      <4>3. CASE CheckoutFails(t) \/ ResolveReadOnly(t) \/ OpenInline(t) \/ OpenFails(t) \/ ResolveRead(t)
                 \/ ConnectOk(t) \/ ConnectFails(t) \/ Unsave(t)
        <5>1. Done(t)
          BY <4>3 DEF CheckoutFails, ResolveReadOnly, OpenInline, OpenFails, ResolveRead, ConnectOk, ConnectFails, Unsave
        <5> QED
          BY <4>1, <5>1
      <4>4. CASE FetchTake(t) \/ FetchRows(t) \/ Tidy(t)
        <5>1. Done(t) \/ \E l : Go(t, l)
          BY <4>4 DEF FetchTake, FetchRows, Tidy
        <5> QED
          BY <4>1, <5>1
      <4>5. CASE Evict(t)
        <5>1. Done(t) \/ \E l : Go(t, l)
          BY <4>5, JobAt DEF Evict, At
        <5> QED
          BY <4>1, <5>1
      <4>6. CASE Register(t) \/ ResolveFinished(t)
        BY <1>0, <4>6 DEF Register, ResolveFinished, Done, TypeOK
      <4>7. CASE Drain(t)
        BY <1>0, <4>7 DEF Drain, TypeOK
      <4> QED
        BY <1>10, <4>2, <4>3, <4>4, <4>5, <4>6, <4>7
    <3> QED
      BY <3>1, <3>2
  <2> QED
    BY <1>1, <2>1, <2>2
<1>11. ASSUME \/ SweepDrain \/ SweepFinished \/ (\E x \in Cursors : Age(x))
              \/ (\E s \in Clients : LoseSession(s)) \/ WalkAway \/ UNCHANGED vars
       PROVE  FinishedEnding'
  <2>1. UNCHANGED <<job, client>> /\ finished' \subseteq finished
    BY <1>11 DEF SweepDrain, SweepFinished, Age, LoseSession, WalkAway, vars
  <2> QED
    BY <1>1, <2>1
<1> QED
  BY <1>3, <1>4, <1>5, <1>6, <1>7, <1>8, <1>9, <1>10, <1>11 DEF Next, Proceed, Sweep

\* Every step leaves the sweeper empty-handed between rounds.
LEMMA SweeperStep == IInv /\ [Next]_vars => SweeperRests'
<1> SUFFICES ASSUME IInv, [Next]_vars PROVE SweeperRests'
  OBVIOUS
<1>0. SweeperRests /\ sweeper \in [pc : {"tick", "sweep"}, drained : SUBSET Cursors]
  BY DEF IInv, TypeOK
<1>1. CASE Sweep
  BY <1>0, <1>1 DEF Sweep, SweepDrain, SweepOne, SweepFinished, SweeperRests
<1>2. CASE UNCHANGED sweeper
  BY <1>0, <1>2 DEF SweeperRests
<1>3. ASSUME NEW t \in Tasks, UserCommand(t) \/ Checkout(t) PROVE UNCHANGED sweeper
  BY <1>3 DEF UserCommand, OpenStart, ConnectStart, LifecycleStart, FetchStart, CloseCursor,
              Cancel, EndCursor, ResolveStart, Checkout
<1>4. ASSUME NEW t \in Tasks, Proceed(t) PROVE UNCHANGED sweeper
  BY <1>4 DEF Proceed, CheckoutFails, ResolveReadOnly, OpenInline, OpenFails, OpenRows, Cleanup, Stash, Commit,
              Rollback, Register, FetchTake, FetchFails, FetchRows, ResolveFinished, ResolveRead,
              ConnectOk, ConnectFails, Drain, Tidy, Evict, Unsave
<1>5. ASSUME (\E x \in Cursors : Age(x)) \/ (\E s \in Clients : LoseSession(s)) \/ WalkAway
             \/ UNCHANGED vars
      PROVE  UNCHANGED sweeper
  BY <1>5 DEF Age, LoseSession, WalkAway, vars
<1> QED
  BY <1>1, <1>2, <1>3, <1>4, <1>5 DEF Next

----------------------------------------------------------------------------
(* The theorems.                                                            *)

\* The inductive invariant holds in every reachable state: types, the shape of
\* every command's local state, ownership of cursors, known connections of
\* cursors, finished cursors at their end, and a sweeper that holds nothing
\* between rounds.
THEOREM Invariance == Spec => []IInv
<1>1. IInv /\ [Next]_vars => IInv'
  BY TypeStep, ShapeStep, OwnStep, HomeStep, FinishedStep, SweeperStep DEF IInv
<1> QED
  BY InitInv, <1>1, PTL DEF Spec

\* Every variable keeps its type, for any number of tasks, connections,
\* cursors, pools, slots and lost sessions.
THEOREM TypeCorrect == Spec => []TypeOK
<1>1. IInv => TypeOK
  BY DEF IInv
<1> QED
  BY Invariance, <1>1, PTL

\* A live CursorState has exactly one owner: the registry, one command or the
\* sweeper, however fetches, closes, cancels, cleanups and sweeps interleave.
THEOREM Ownership == Spec => []SingleOwner
<1>1. IInv => SingleOwner
  BY DEF IInv
<1> QED
  BY Invariance, <1>1, PTL

\* Metadata of a finished cursor never coexists with a registered state.
THEOREM FinishedNeverRegistered == Spec => []FinishedIsOver
<1>1. IInv => FinishedIsOver
  <2> SUFFICES ASSUME IInv, NEW x \in finished, x \in inner PROVE FALSE
    BY DEF FinishedIsOver
  <2>1. x \in Cursors /\ client[x] # None
    BY OwnedLive
  <2>2. PICK t \in Tasks : job[t].pc = "commit" /\ job[t].cur = x
    BY <2>1 DEF IInv, FinishedEnding
  <2>3. x \in Owned(t)
    BY <2>2 DEF Owned, Owning
  <2> QED
    BY <2>1, <2>3 DEF IInv, SingleOwner
<1> QED
  BY Invariance, <1>1, PTL

\* No step revives a dropped CursorState: query_fetch_page's re-insert can
\* never bring back what close, cancel, cleanup or the sweeper gave up.
THEOREM NoRevival == Spec => DeadStaysDead
<1> DEFINE Kept == Dropped \subseteq Dropped' /\ Dropped' \cap inner' = {}
<1>1. IInv /\ IInv' /\ [Next]_vars => [Kept]_vars
  <2> SUFFICES ASSUME IInv, IInv', Next PROVE Kept
    BY DEF vars, regVars
  <2>0. client \in [Cursors -> Clients \cup {None}] /\ home \in [Cursors -> Pools \cup {None}]
    BY DEF IInv, TypeOK
  <2>1. Dropped' \cap inner' = {}
    BY DEF IInv, SingleOwner, Dropped
  <2>2. \A x \in Cursors : home[x] # None =>
           /\ home'[x] # None
           /\ client[x] = None => client'[x] = None
    <3>1. ASSUME NEW t \in Tasks, NEW x \in Cursors, OpenRows(t, x) PROVE <2>2
      BY <2>0, <3>1 DEF OpenRows
    <3>2. ASSUME UNCHANGED home,
                 \/ UNCHANGED client
                 \/ \E x : client' = [client EXCEPT ![x] = None]
          PROVE <2>2
      BY <2>0, <3>2
    <3>3. ASSUME NEW t \in Tasks, UserCommand(t) \/ Checkout(t) PROVE UNCHANGED <<home, client>>
      BY <3>3 DEF UserCommand, OpenStart, ConnectStart, LifecycleStart, FetchStart, CloseCursor,
                  Cancel, EndCursor, ResolveStart, Checkout, regVars
    <3>4. ASSUME NEW t \in Tasks,
                 \/ CheckoutFails(t) \/ ResolveReadOnly(t) \/ OpenInline(t) \/ OpenFails(t)
                 \/ Stash(t) \/ Register(t) \/ FetchTake(t) \/ FetchRows(t)
                 \/ ResolveFinished(t) \/ ResolveRead(t) \/ ConnectOk(t) \/ ConnectFails(t)
                 \/ Drain(t) \/ Tidy(t) \/ Evict(t) \/ Unsave(t)
          PROVE  UNCHANGED <<home, client>>
      BY <3>4 DEF CheckoutFails, ResolveReadOnly, OpenInline, OpenFails, Stash, Register, FetchTake, FetchRows,
                  ResolveFinished, ResolveRead, ConnectOk, ConnectFails, Drain, Tidy, Evict, Unsave, regVars
    <3>5. ASSUME NEW t \in Tasks,
                 \/ Commit(t) \/ Rollback(t) \/ FetchFails(t) \/ \E x \in Cursors : Cleanup(t, x)
          PROVE  UNCHANGED home /\ \E x : client' = [client EXCEPT ![x] = None]
      BY <3>5 DEF Commit, Rollback, FetchFails, Cleanup, DropState
    <3>6. ASSUME NEW x \in Cursors, SweepOne(x)
          PROVE  UNCHANGED home /\ client' = [client EXCEPT ![x] = None]
      BY <3>6 DEF SweepOne, DropState
    <3>7. ASSUME \/ SweepDrain \/ SweepFinished \/ (\E x \in Cursors : Age(x))
                 \/ (\E s \in Clients : LoseSession(s)) \/ WalkAway
          PROVE  UNCHANGED <<home, client>>
      BY <3>7 DEF SweepDrain, SweepFinished, Age, LoseSession, WalkAway, regVars
    <3> QED
      BY <3>1, <3>2, <3>3, <3>4, <3>5, <3>6, <3>7 DEF Next, Proceed, Sweep
  <2> QED
    BY <2>1, <2>2 DEF Dropped
<1> QED
  BY Invariance, <1>1, PTL DEF Spec, DeadStaysDead

----------------------------------------------------------------------------
(* Who holds a client, and the session behind it.  Every step does one of   *)
(* five things to the clients.                                              *)

\* A client in a pool, in a hand or in a state is of a pool that was built.
BuiltOnly ==
    \A s \in Clients :
        \/ s \in avail
        \/ \E x \in Cursors : client[x] = s
        \/ \E t \in Tasks : job[t].hand = s
        => PoolOf(s)[2] <= built[ConnOf(PoolOf(s))]

\* The inductive invariant for clients and sessions.
CInv ==
    /\ IInv
    /\ ClientExclusive
    /\ BuiltOnly
    /\ CursorUsable
    /\ OpenCursorOwned

\* Nobody takes a client, nobody uses one; pools may close, sessions may die.
ClientsRest ==
    /\ UNCHANGED <<client, built>>
    /\ shut \subseteq shut' /\ avail' \subseteq avail
    /\ \A s \in avail \ avail' : PoolOf(s) \in shut'
    /\ \A t \in Tasks : job'[t].hand = job[t].hand
    /\ \A s \in Clients : sess'[s] \in {sess[s], Gone}

\* The clients of a pool that was not there before come into being.
ClientsBuilt(p) ==
    /\ p[2] = built[ConnOf(p)] + 1
    /\ built' = [built EXCEPT ![ConnOf(p)] = p[2]]
    /\ avail' = avail \cup ClientsOf(p)
    /\ \A t \in Tasks : job'[t].hand = job[t].hand
    /\ UNCHANGED <<client, sess, shut>>

\* The pool hands s out to the command of t.
HandedOut(t, s) ==
    /\ s \in avail /\ job[t].hand = None
    /\ avail' = avail \ {s}
    /\ job'[t].hand = s
    /\ \A u \in Tasks \ {t} : job'[u].hand = job[u].hand
    /\ sess' = [sess EXCEPT ![s] = IF @.txn = "gone" THEN Idle ELSE @]
    /\ UNCHANGED <<client, built, shut>>

\* The command of t gives the client in its hand to the state x, which declared
\* its cursor on it.
GivenTo(t, x) ==
    /\ job[t].hand \in Clients
    /\ client[x] = None
    /\ client' = [client EXCEPT ![x] = job[t].hand]
    /\ sess' = [sess EXCEPT ![job[t].hand] = Open(x)]
    /\ job'[t].hand = None
    /\ \A u \in Tasks \ {t} : job'[u].hand = job[u].hand
    /\ UNCHANGED <<avail, built, shut>>

\* A client in use goes back, its session without a cursor, to a pool that is open.
HandedBack(s) ==
    /\ (\E t \in Tasks : job[t].hand = s) \/ (\E x \in Cursors : client[x] = s)
    /\ avail \subseteq avail' /\ avail' \subseteq avail \cup {s}
    /\ PoolOf(s) \notin shut => s \in avail'
    /\ \A x \in Cursors : client'[x] = IF client[x] = s THEN None ELSE client[x]
    /\ \A t \in Tasks : job'[t].hand = IF job[t].hand = s THEN None ELSE job[t].hand
    /\ sess'[s].cursor = None
    /\ \A r \in Clients \ {s} : sess'[r] = sess[r]
    /\ UNCHANGED <<built, shut>>

\* Resting clients stay with whom they are.
LEMMA RestKeeps ==
    ASSUME CInv, ClientsRest
    PROVE  ClientExclusive' /\ BuiltOnly' /\ CursorUsable' /\ OpenCursorOwned'
<1>1. ClientExclusive'
  BY DEF CInv, ClientExclusive, ClientsRest
<1>2. BuiltOnly'
  BY DEF CInv, BuiltOnly, ClientsRest
<1>3. CursorUsable'
  BY DEF CInv, IInv, TypeOK, CursorUsable, ClientsRest
<1>4. OpenCursorOwned'
  BY DEF CInv, OpenCursorOwned, ClientsRest, Gone
<1> QED
  BY <1>1, <1>2, <1>3, <1>4

\* Nobody can hold a client that was not there.
LEMMA BuiltKeeps ==
    ASSUME CInv, NEW p \in Pools, ClientsBuilt(p)
    PROVE  ClientExclusive' /\ BuiltOnly' /\ CursorUsable' /\ OpenCursorOwned'
<1>0. built \in [Conns -> 0..MaxPools] /\ MaxPools \in Nat
  BY ConstantAssumption DEF ConstantAssumption, CInv, IInv, TypeOK
<1>p. p[1] \in Conns /\ p[2] \in Nat
  BY <1>0 DEF Pools
<1>s. \A s \in Clients : PoolOf(s) \in Pools /\ PoolOf(s)[1] \in Conns /\ PoolOf(s)[2] \in Nat
  BY <1>0 DEF Clients, Pools
<1>1. \A s \in ClientsOf(p) : /\ \A x \in Cursors : client[x] # s
                              /\ \A t \in Tasks : job[t].hand # s
  <2> SUFFICES ASSUME NEW s \in Clients, PoolOf(s) = p,
                      (\E x \in Cursors : client[x] = s) \/ (\E t \in Tasks : job[t].hand = s)
               PROVE  FALSE
    BY DEF ClientsOf
  <2>1. PoolOf(s)[2] <= built[ConnOf(PoolOf(s))]
    BY DEF CInv, BuiltOnly
  <2>2. p[2] <= built[p[1]] /\ p[2] = built[p[1]] + 1 /\ built[p[1]] \in Nat
    BY <1>0, <1>p, <2>1 DEF ClientsBuilt
  <2> QED
    BY <2>2
<1>2. ClientExclusive'
  BY <1>1 DEF CInv, ClientExclusive, ClientsBuilt
<1>3. BuiltOnly'
  <2> SUFFICES ASSUME NEW s \in Clients,
                      \/ s \in avail'
                      \/ \E x \in Cursors : client'[x] = s
                      \/ \E t \in Tasks : job'[t].hand = s
               PROVE  PoolOf(s)[2] <= built'[PoolOf(s)[1]]
    BY DEF BuiltOnly
  <2>1. built'[p[1]] = p[2] /\ \A c \in Conns \ {p[1]} : built'[c] = built[c]
    BY <1>0, <1>p DEF ClientsBuilt
  <2>2. CASE PoolOf(s) = p
    BY <1>p, <2>1, <2>2
  <2>3. CASE PoolOf(s) # p
    <3>1. s \in avail \/ (\E x \in Cursors : client[x] = s) \/ (\E t \in Tasks : job[t].hand = s)
      BY <2>3 DEF ClientsBuilt, ClientsOf
    <3>2. PoolOf(s)[2] <= built[PoolOf(s)[1]]
      BY <3>1 DEF CInv, BuiltOnly
    <3>3. built[PoolOf(s)[1]] \in Nat /\ built'[PoolOf(s)[1]] \in Nat
          /\ built[PoolOf(s)[1]] <= built'[PoolOf(s)[1]]
      <4>1. CASE PoolOf(s)[1] = p[1]
        BY <1>0, <1>p, <1>s, <2>1, <4>1 DEF ClientsBuilt
      <4>2. CASE PoolOf(s)[1] # p[1]
        BY <1>0, <1>s, <2>1, <4>2
      <4> QED
        BY <4>1, <4>2
    <3> QED
      BY <1>s, <3>2, <3>3
  <2> QED
    BY <2>2, <2>3
<1>4. CursorUsable' /\ OpenCursorOwned'
  BY DEF CInv, CursorUsable, OpenCursorOwned, ClientsBuilt
<1> QED
  BY <1>2, <1>3, <1>4

\* What is handed out was at rest.
LEMMA OutKeeps ==
    ASSUME CInv, NEW t \in Tasks, NEW s \in Clients, HandedOut(t, s)
    PROVE  ClientExclusive' /\ BuiltOnly' /\ CursorUsable' /\ OpenCursorOwned'
<1>0. /\ sess \in [Clients -> Session] /\ client \in [Cursors -> Clients \cup {None}]
      /\ \A x \in Cursors : client[x] # s
      /\ \A u \in Tasks : job[u].hand # s
  BY DEF CInv, IInv, TypeOK, ClientExclusive, HandedOut
<1>1. ClientExclusive'
  BY <1>0 DEF CInv, ClientExclusive, HandedOut
<1>2. BuiltOnly'
  <2> SUFFICES ASSUME NEW r \in Clients,
                      \/ r \in avail'
                      \/ \E x \in Cursors : client'[x] = r
                      \/ \E u \in Tasks : job'[u].hand = r
               PROVE  PoolOf(r)[2] <= built[ConnOf(PoolOf(r))]
    BY DEF BuiltOnly, HandedOut
  <2>1. r \in avail \/ (\E x \in Cursors : client[x] = r) \/ (\E u \in Tasks : job[u].hand = r)
    BY DEF HandedOut
  <2> QED
    BY <2>1 DEF CInv, BuiltOnly
<1>3. CursorUsable'
  BY <1>0, NoneDistinct DEF CInv, CursorUsable, HandedOut
<1>4. OpenCursorOwned'
  BY <1>0 DEF CInv, OpenCursorOwned, HandedOut, Idle
<1> QED
  BY <1>1, <1>2, <1>3, <1>4

\* A client moves from a hand to a state.
LEMMA GivenKeeps ==
    ASSUME CInv, NEW t \in Tasks, NEW x \in Cursors, GivenTo(t, x)
    PROVE  ClientExclusive' /\ BuiltOnly' /\ CursorUsable' /\ OpenCursorOwned'
<1> DEFINE s == job[t].hand
<1>0. /\ sess \in [Clients -> Session] /\ client \in [Cursors -> Clients \cup {None}]
      /\ \A y \in Cursors : client[y] # s
      /\ \A u \in Tasks \ {t} : job[u].hand # s
      /\ s \notin avail /\ s \in Clients
  BY DEF CInv, IInv, TypeOK, ClientExclusive, GivenTo
<1>1. /\ client'[x] = s /\ \A y \in Cursors \ {x} : client'[y] = client[y]
      /\ sess'[s] = Open(x) /\ \A r \in Clients \ {s} : sess'[r] = sess[r]
      /\ job'[t].hand = None /\ \A u \in Tasks \ {t} : job'[u].hand = job[u].hand
      /\ UNCHANGED <<avail, built>> /\ client[x] = None
  BY <1>0 DEF GivenTo
<1>6. s # None
  BY <1>0, NoneDistinct
<1>7. BuiltOnly /\ ClientExclusive /\ CursorUsable /\ OpenCursorOwned
  BY DEF CInv
<1>8. job[t].hand = s
  OBVIOUS
<1> HIDE DEF s
<1>2. ClientExclusive'
  BY <1>0, <1>1, <1>7, NoneDistinct DEF ClientExclusive
<1>3. BuiltOnly'
  <2> SUFFICES ASSUME NEW r \in Clients,
                      \/ r \in avail'
                      \/ \E y \in Cursors : client'[y] = r
                      \/ \E u \in Tasks : job'[u].hand = r
               PROVE  PoolOf(r)[2] <= built[ConnOf(PoolOf(r))]
    BY <1>1 DEF BuiltOnly
  <2>1. r \in avail \/ (\E y \in Cursors : client[y] = r) \/ (\E u \in Tasks : job[u].hand = r)
    BY <1>1, <1>8, NoneDistinct
  <2> QED
    BY <2>1, <1>7 DEF BuiltOnly
<1>4. CursorUsable'
  BY <1>0, <1>1, <1>7, NoneDistinct DEF CursorUsable
<1>5. OpenCursorOwned'
  <2> SUFFICES ASSUME NEW r \in Clients, sess'[r].cursor # None
               PROVE  client'[sess'[r].cursor] = r
    BY DEF OpenCursorOwned
  <2>1. CASE r = s
    BY <1>1, <2>1 DEF Open
  <2>2. CASE r # s
    <3>1. client[sess[r].cursor] = r /\ sess[r].cursor # None /\ sess'[r] = sess[r]
      BY <1>1, <1>7, <2>2 DEF OpenCursorOwned
    <3>2. sess[r].cursor \in Cursors
      BY <1>0, <3>1 DEF Session
    <3>3. sess[r].cursor # x
      BY <1>1, <3>1, NoneDistinct
    <3> QED
      BY <1>1, <3>1, <3>2, <3>3
  <2> QED
    BY <2>1, <2>2
<1> QED
  BY <1>2, <1>3, <1>4, <1>5

\* What goes back is nobody's.
LEMMA BackKeeps ==
    ASSUME CInv, NEW s \in Clients, HandedBack(s)
    PROVE  ClientExclusive' /\ BuiltOnly' /\ CursorUsable' /\ OpenCursorOwned'
<1>0. /\ sess \in [Clients -> Session] /\ client \in [Cursors -> Clients \cup {None}]
      /\ BuiltOnly /\ ClientExclusive /\ CursorUsable /\ OpenCursorOwned
      /\ s # None
  BY NoneDistinct DEF CInv, IInv, TypeOK
<1>1. ClientExclusive'
  BY <1>0, NoneDistinct DEF ClientExclusive, HandedBack
<1>2. BuiltOnly'
  <2> SUFFICES ASSUME NEW r \in Clients,
                      \/ r \in avail'
                      \/ \E y \in Cursors : client'[y] = r
                      \/ \E u \in Tasks : job'[u].hand = r
               PROVE  PoolOf(r)[2] <= built[ConnOf(PoolOf(r))]
    BY DEF BuiltOnly, HandedBack
  <2>1. r \in avail \/ (\E y \in Cursors : client[y] = r) \/ (\E u \in Tasks : job[u].hand = r)
    BY NoneDistinct DEF HandedBack
  <2> QED
    BY <2>1, <1>0 DEF BuiltOnly
<1>3. CursorUsable'
  <2> SUFFICES ASSUME NEW x \in Cursors, client'[x] # None
               PROVE  sess'[client'[x]] \in {Open(x), Gone}
    BY DEF CursorUsable
  <2>1. client'[x] = client[x] /\ client[x] # s /\ client[x] \in Clients
    BY <1>0 DEF HandedBack
  <2> QED
    BY <1>0, <2>1 DEF CursorUsable, HandedBack
<1>4. OpenCursorOwned'
  <2> SUFFICES ASSUME NEW r \in Clients, sess'[r].cursor # None
               PROVE  client'[sess'[r].cursor] = r
    BY DEF OpenCursorOwned
  <2>1. r # s /\ sess'[r] = sess[r]
    BY DEF HandedBack
  <2>2. client[sess[r].cursor] = r /\ sess[r].cursor \in Cursors
    BY <1>0, <2>1 DEF OpenCursorOwned, Session
  <2> QED
    BY <2>1, <2>2 DEF HandedBack
<1> QED
  BY <1>1, <1>2, <1>3, <1>4

\* A command that ends has nothing in its hand.
LEMMA DoneHand ==
    ASSUME TypeOK, NEW t \in Tasks, Done(t)
    PROVE  \A u \in Tasks : job'[u].hand = IF u = t THEN None ELSE job[u].hand
  BY DEF TypeOK, Done, NoJob

\* A command that moves on keeps what it has in its hand.
LEMMA MoveHand ==
    ASSUME TypeOK, NEW t \in Tasks, NEW j, Moves(t, j)
    PROVE  \A u \in Tasks : job'[u].hand = IF u = t THEN j.hand ELSE job[u].hand
  BY DEF TypeOK, Moves

\* So does one whose await alone changes.
LEMMA GoHand ==
    ASSUME TypeOK, NEW t \in Tasks, NEW l, Go(t, l)
    PROVE  \A u \in Tasks : job'[u].hand = job[u].hand
<1> DEFINE j == [job[t] EXCEPT !.pc = l]
<1>1. Moves(t, j)
  BY DEF Go, Moves
<1>2. j.hand = job[t].hand
  BY DEF TypeOK, Job
<1> HIDE DEF j
<1> QED
  BY <1>1, <1>2, MoveHand

\* Only a command that was handed a client has one.
LEMMA EmptyHand ==
    ASSUME IInv, NEW t \in Tasks, job[t].pc \notin {"opened", "reading"}
    PROVE  job[t].hand = None
  BY DEF IInv, JobShape, Shape

\* Closing pools takes no client away from anybody.
LEMMA ShutRests ==
    ASSUME TypeOK, NEW ps, ShutPools(ps)
    PROVE  /\ shut \subseteq shut' /\ avail' \subseteq avail
           /\ \A s \in avail \ avail' : PoolOf(s) \in shut'
           /\ \A s \in Clients : sess'[s] \in {sess[s], Gone}
  BY DEF TypeOK, ShutPools

\* A client released by the command that has it goes back.
LEMMA ReleasedFromHand ==
    ASSUME CInv, NEW t \in Tasks, job[t].pc \in {"opened", "reading"}, NEW q \in Session,
           q.cursor = None, Release(job[t].hand, q), Done(t), UNCHANGED <<client, built, shut>>
    PROVE  job[t].hand \in Clients /\ HandedBack(job[t].hand)
<1> DEFINE s == job[t].hand
<1>1. TypeOK /\ IInv /\ ClientExclusive
  BY DEF CInv, IInv
<1>2. s \in Clients
  BY <1>1, JobAt
<1>3. \A u \in Tasks : job'[u].hand = IF job[u].hand = s THEN None ELSE job[u].hand
  BY <1>1, <1>2, DoneHand DEF ClientExclusive
<1>4. \A x \in Cursors : client[x] # s
  BY <1>1, <1>2 DEF ClientExclusive
<1>5. /\ avail \subseteq avail' /\ avail' \subseteq avail \cup {s}
      /\ PoolOf(s) \notin shut => s \in avail'
      /\ sess'[s].cursor = None
      /\ \A r \in Clients \ {s} : sess'[r] = sess[r]
  BY <1>1, <1>2 DEF TypeOK, Release, Gone
<1>6. \E u \in Tasks : job[u].hand = s
  OBVIOUS
<1> HIDE DEF s
<1>7. HandedBack(s)
  BY <1>3, <1>4, <1>5, <1>6 DEF HandedBack
<1> QED
  BY <1>2, <1>7 DEF s

\* So does the client of a state that is dropped.
LEMMA ReleasedFromState ==
    ASSUME CInv, NEW x \in Cursors, client[x] # None, NEW q \in Session, q.cursor = None,
           DropState(x, q), \A u \in Tasks : job'[u].hand = job[u].hand, UNCHANGED <<built, shut>>
    PROVE  client[x] \in Clients /\ HandedBack(client[x])
<1> DEFINE s == client[x]
<1>1. TypeOK /\ ClientExclusive
  BY DEF CInv, IInv
<1>2. s \in Clients
  BY <1>1, LiveClient
<1>3. \A u \in Tasks : job'[u].hand = IF job[u].hand = s THEN None ELSE job[u].hand
  BY <1>1, <1>2 DEF ClientExclusive
<1>4. \A y \in Cursors : client'[y] = IF client[y] = s THEN None ELSE client[y]
  BY <1>1, <1>2 DEF ClientExclusive, DropState, TypeOK
<1>5. /\ avail \subseteq avail' /\ avail' \subseteq avail \cup {s}
      /\ PoolOf(s) \notin shut => s \in avail'
      /\ sess'[s].cursor = None
      /\ \A r \in Clients \ {s} : sess'[r] = sess[r]
  BY <1>1, <1>2 DEF TypeOK, DropState, Release, Gone
<1>6. \E y \in Cursors : client[y] = s
  OBVIOUS
<1> HIDE DEF s
<1>7. HandedBack(s)
  BY <1>3, <1>4, <1>5, <1>6 DEF HandedBack
<1> QED
  BY <1>2, <1>7 DEF s

\* However a command or the sweeper ends a live state, the session is left
\* without its cursor.
LEMMA EndsWithoutCursor ==
    ASSUME CInv, NEW x \in Cursors, client[x] # None
    PROVE  LET q == sess[client[x]] IN
           \A p \in {AfterClose(q, x), AfterRollback(q), AfterError(q)} :
               p \in Session /\ p.cursor = None
<1> DEFINE q == sess[client[x]]
<1>1. q \in {Open(x), Gone}
  BY DEF CInv, CursorUsable
<1>2. q \in Session
  BY LiveClient DEF CInv, IInv
<1> HIDE DEF q
<1>3. /\ AfterClose(q, x) \in Session /\ AfterClose(q, x).cursor = None
      /\ AfterRollback(q) \in Session /\ AfterRollback(q).cursor = None
      /\ AfterError(q) \in Session /\ AfterError(q).cursor = None
  BY <1>1, <1>2, SessionTypes, NoneDistinct
     DEF AfterClose, AfterRollback, AfterError, Open, Gone, Idle, Failed
<1> QED
  BY <1>3 DEF q

\* A command that has a client finds no cursor open on it.
LEMMA HandHasNoCursor ==
    ASSUME CInv, NEW t \in Tasks, job[t].pc \in {"opened", "reading"}
    PROVE  /\ job[t].hand \in Clients /\ sess[job[t].hand] \in Session
           /\ sess[job[t].hand].cursor = None
           /\ AfterError(sess[job[t].hand]) \in Session
           /\ AfterError(sess[job[t].hand]).cursor = None
<1> DEFINE s == job[t].hand
<1>1. s \in Clients /\ sess[s] \in Session
  BY JobAt DEF CInv, IInv, TypeOK
<1>2. \A x \in Cursors : client[x] # s
  BY <1>1 DEF CInv, ClientExclusive
<1>3. sess[s].cursor = None
  BY <1>1, <1>2 DEF CInv, OpenCursorOwned, Session
<1> HIDE DEF s
<1>4. AfterError(sess[s]) \in Session /\ AfterError(sess[s]).cursor = None
  BY <1>1, <1>3, SessionTypes DEF AfterError, Failed
<1> QED
  BY <1>1, <1>3, <1>4 DEF s

\* A step does one of the five things to the clients.
FiveKinds ==
    \/ ClientsRest
    \/ \E p \in Pools : ClientsBuilt(p)
    \/ \E t \in Tasks, s \in Clients : HandedOut(t, s)
    \/ \E t \in Tasks, x \in Cursors : GivenTo(t, x)
    \/ \E s \in Clients : HandedBack(s)

\* Every step is of one of the five kinds.
LEMMA StepKinds == CInv /\ [Next]_vars => FiveKinds
<1> SUFFICES ASSUME CInv, [Next]_vars PROVE FiveKinds
  OBVIOUS
<1>0. TypeOK /\ IInv
  BY DEF CInv, IInv
<1> USE DEF poolVars, sessVars, regVars, envVars
(* Nobody takes or gives a client.                                          *)
<1>1. ASSUME UNCHANGED <<client, built, sess, avail, shut>>,
             \A t \in Tasks : job'[t].hand = job[t].hand
      PROVE  FiveKinds
  BY <1>1 DEF FiveKinds, ClientsRest
<1>2. ASSUME NEW t \in Tasks, Done(t), job[t].pc \notin {"opened", "reading"}
      PROVE  \A u \in Tasks : job'[u].hand = job[u].hand
  BY <1>0, <1>2, DoneHand, EmptyHand
<1>3. ASSUME NEW t \in Tasks, NEW j, Start(t, j), j.hand = None
      PROVE  \A u \in Tasks : job'[u].hand = job[u].hand
  BY <1>0, <1>3, MoveHand, EmptyHand DEF Start, At, Moves
<1>4. ASSUME NEW t \in Tasks, NEW c \in Conns, OpenStart(t, c) PROVE FiveKinds
  BY <1>1, <1>3, <1>4 DEF OpenStart, NoJob
<1>5. ASSUME NEW t \in Tasks, NEW c \in Conns, NEW m, LifecycleStart(t, c, m) PROVE FiveKinds
  BY <1>1, <1>3, <1>5 DEF LifecycleStart, NoJob
<1>6. ASSUME NEW t \in Tasks, NEW x \in Cursors, FetchStart(t, x) PROVE FiveKinds
  BY <1>1, <1>3, <1>6 DEF FetchStart, NoJob
<1>7. ASSUME NEW t \in Tasks, NEW x \in Cursors, CloseCursor(t, x) \/ Cancel(t, x) PROVE FiveKinds
  BY <1>1, <1>3, <1>7 DEF CloseCursor, Cancel, EndCursor, NoJob
<1>8. ASSUME NEW t \in Tasks, NEW c \in Conns, NEW x \in Cursors, ResolveStart(t, c, x) PROVE FiveKinds
  BY <1>1, <1>3, <1>8 DEF ResolveStart, NoJob
<1>9. ASSUME NEW t \in Tasks, CheckoutFails(t) \/ ResolveReadOnly(t) \/ Unsave(t) PROVE FiveKinds
  BY <1>1, <1>2, <1>9 DEF CheckoutFails, ResolveReadOnly, Unsave, At
<1>10. ASSUME NEW t \in Tasks, Stash(t) \/ FetchTake(t) \/ FetchRows(t) \/ Tidy(t) PROVE FiveKinds
  <2>1. \A u \in Tasks : job'[u].hand = job[u].hand
    BY <1>0, <1>2, <1>10, GoHand DEF Stash, FetchTake, FetchRows, Tidy, At
  <2> QED
    BY <1>1, <1>10, <2>1 DEF Stash, FetchTake, FetchRows, Tidy
<1>11. ASSUME NEW t \in Tasks, Register(t) \/ ResolveFinished(t) PROVE FiveKinds
  <2> DEFINE j == [job[t] EXCEPT !.pc = "lookup", !.cur = None]
  <2>1. Done(t) \/ Moves(t, j)
    BY <1>11 DEF Register, ResolveFinished, Moves
  <2>2. j.hand = job[t].hand
    BY <1>0 DEF TypeOK, Job
  <2> HIDE DEF j
  <2>3. \A u \in Tasks : job'[u].hand = job[u].hand
    BY <1>0, <1>2, <1>11, <2>1, <2>2, MoveHand DEF Register, ResolveFinished, At
  <2> QED
    BY <1>1, <1>11, <2>3 DEF Register, ResolveFinished
<1>12. ASSUME NEW t \in Tasks, Drain(t) PROVE FiveKinds
  <2> DEFINE j == [job[t] EXCEPT !.drained = inner \cap OfConn(job[t].conn), !.pc = "cleanup"]
  <2>1. Moves(t, j)
    BY <1>12 DEF Drain, Moves
  <2>2. j.hand = job[t].hand
    BY <1>0 DEF TypeOK, Job
  <2> HIDE DEF j
  <2>3. \A u \in Tasks : job'[u].hand = job[u].hand
    BY <1>0, <2>1, <2>2, MoveHand
  <2> QED
    BY <1>1, <1>12, <2>3 DEF Drain
(* Pools close, sessions die.                                               *)
<1>13. ASSUME NEW t \in Tasks, ConnectOk(t) \/ ConnectFails(t) \/ Evict(t) PROVE FiveKinds
  <2>1. \A u \in Tasks : job'[u].hand = job[u].hand
    <3>1. job[t].pc = "evict" => job[t].mode \in {"disconnect", "update", "delete"}
      BY <1>0, JobAt
    <3> QED
      BY <1>0, <1>2, <1>13, <3>1, GoHand DEF ConnectOk, ConnectFails, Evict, At
  <2>2. /\ shut \subseteq shut' /\ avail' \subseteq avail
        /\ \A s \in avail \ avail' : PoolOf(s) \in shut'
        /\ \A s \in Clients : sess'[s] \in {sess[s], Gone}
    BY <1>0, <1>13, ShutRests DEF ConnectOk, ConnectFails, Evict
  <2>3. UNCHANGED <<client, built>>
    BY <1>13 DEF ConnectOk, ConnectFails, Evict
  <2> QED
    BY <2>1, <2>2, <2>3 DEF FiveKinds, ClientsRest
<1>14. ASSUME NEW s \in Clients, LoseSession(s) PROVE FiveKinds
  <2>1. \A r \in Clients : sess'[r] \in {sess[r], Gone}
    BY <1>0, <1>14 DEF LoseSession, TypeOK
  <2>2. ClientsRest
    BY <1>14, <2>1 DEF LoseSession, ClientsRest
  <2> QED
    BY <2>2 DEF FiveKinds
<1>15. ASSUME \/ SweepDrain \/ SweepFinished \/ (\E x \in Cursors : Age(x)) \/ WalkAway \/ UNCHANGED vars
       PROVE  FiveKinds
  <2>1. UNCHANGED <<client, built, sess, avail, job, shut>>
    BY <1>15 DEF SweepDrain, SweepFinished, Age, WalkAway, vars
  <2> QED
    BY <1>1, <2>1
(* A pool is built, a client handed out, a cursor declared.                 *)
<1>16. ASSUME NEW t \in Tasks, NEW c \in Conns, ConnectStart(t, c) PROVE FiveKinds
  <2> DEFINE p == <<c, built[c] + 1>>
             j == [NoJob EXCEPT !.pc = "probe", !.conn = c, !.pool = p]
  <2>1. p \in Pools
    BY <1>0, <1>16, ConstantAssumption DEF ConstantAssumption, ConnectStart, TypeOK, Pools
  <2>2. Start(t, j) /\ j.hand = None
    BY <1>16 DEF ConnectStart, NoJob
  <2>3. p[1] = c /\ p[2] = built[c] + 1
    OBVIOUS
  <2>4. /\ built' = [built EXCEPT ![c] = built[c] + 1]
        /\ avail' = avail \cup ClientsOf(p)
        /\ UNCHANGED <<client, sess, shut>>
    BY <1>16 DEF ConnectStart
  <2> HIDE DEF p, j
  <2>5. ClientsBuilt(p)
    BY <1>3, <2>2, <2>3, <2>4 DEF ClientsBuilt
  <2> QED
    BY <2>1, <2>5 DEF FiveKinds
<1>17. ASSUME NEW t \in Tasks, Checkout(t) PROVE FiveKinds
  <2> PICK from \in {"checkout", "lookup"}, s \in avail : Checkout(t)!(from, s)
    BY <1>17 DEF Checkout
  <2> DEFINE j == [job[t] EXCEPT !.hand = s, !.pc = IF from = "checkout" THEN "opened" ELSE "reading"]
  <2>1. Moves(t, j)
    BY DEF Moves
  <2>2. j.hand = s /\ s \in Clients
    BY <1>0 DEF TypeOK, Job
  <2> HIDE DEF j
  <2>5. \A u \in Tasks : job'[u].hand = IF u = t THEN j.hand ELSE job[u].hand
    BY ONLY <1>0, <2>1, MoveHand
  <2>3. job'[t].hand = s /\ \A u \in Tasks \ {t} : job'[u].hand = job[u].hand
    BY ONLY <2>2, <2>5
  <2>6. job[t].hand = None
    BY <1>0, EmptyHand DEF At
  <2>4. HandedOut(t, s)
    BY <2>3, <2>6 DEF HandedOut
  <2> QED
    BY <2>2, <2>4 DEF FiveKinds
<1>18. ASSUME NEW t \in Tasks, NEW x \in Cursors, OpenRows(t, x) PROVE FiveKinds
  <2>1. PICK l \in {"stash", "register"} :
            job' = [job EXCEPT ![t].pc = l, ![t].hand = None, ![t].cur = x]
    BY <1>18 DEF OpenRows
  <2> DEFINE j == [job[t] EXCEPT !.pc = l, !.hand = None, !.cur = x]
  <2>2. Moves(t, j)
    BY <2>1 DEF Moves
  <2>3. j.hand = None
    BY <1>0 DEF TypeOK, Job
  <2> HIDE DEF j
  <2>4. job[t].hand \in Clients /\ client[x] = None
    BY <1>0, <1>18, JobAt DEF OpenRows, At, IInv, HomeKnown
  <2>5. GivenTo(t, x)
    BY <1>0, <1>18, <2>2, <2>3, <2>4, MoveHand DEF OpenRows, GivenTo
  <2> QED
    BY <2>5 DEF FiveKinds
(* A client goes back: out of a hand, or with the state that owned it.      *)
<1>19. ASSUME NEW t \in Tasks, OpenInline(t) PROVE FiveKinds
  <2>1. job[t].pc = "opened" /\ Done(t) /\ UNCHANGED <<client, built, shut>>
    BY <1>19 DEF OpenInline, At
  <2>2. PICK q \in {Idle, Open(None)} : Release(job[t].hand, q)
    BY <1>19 DEF OpenInline
  <2>3. q \in Session /\ q.cursor = None
    BY SessionTypes DEF Idle, Open
  <2> QED
    BY <2>1, <2>2, <2>3, ReleasedFromHand DEF FiveKinds
<1>20. ASSUME NEW t \in Tasks, OpenFails(t) \/ ResolveRead(t) PROVE FiveKinds
  <2>1. job[t].pc \in {"opened", "reading"} /\ Done(t) /\ UNCHANGED <<client, built, shut>>
    BY <1>20 DEF OpenFails, ResolveRead, At
  <2>2. PICK q \in {sess[job[t].hand], AfterError(sess[job[t].hand]), Failed} : Release(job[t].hand, q)
    BY <1>20 DEF OpenFails, ResolveRead
  <2>3. q \in Session /\ q.cursor = None
    BY <2>1, HandHasNoCursor, SessionTypes DEF Failed
  <2> QED
    BY <2>1, <2>2, <2>3, ReleasedFromHand DEF FiveKinds
<1>21. ASSUME NEW t \in Tasks, Commit(t) \/ Rollback(t) \/ FetchFails(t) PROVE FiveKinds
  <2> DEFINE x == job[t].cur
  <2>1. job[t].pc \in Owning /\ job[t].pc \notin {"opened", "reading"} /\ Done(t) /\ UNCHANGED <<built, shut>>
    BY <1>21 DEF Commit, Rollback, FetchFails, At, Owning
  <2>2. x \in Cursors /\ client[x] # None
    BY <1>0, <2>1, OwnedLive
  <2>3. PICK q \in {AfterClose(sess[client[x]], x), AfterRollback(sess[client[x]]), AfterError(sess[client[x]])} :
            DropState(x, q)
    BY <1>21 DEF Commit, Rollback, FetchFails
  <2> HIDE DEF x
  <2>4. q \in Session /\ q.cursor = None
    BY <2>2, <2>3, EndsWithoutCursor
  <2>5. \A u \in Tasks : job'[u].hand = job[u].hand
    BY <1>2, <2>1
  <2> QED
    BY <2>1, <2>2, <2>3, <2>4, <2>5, ReleasedFromState DEF FiveKinds
<1>22. ASSUME NEW x \in Cursors, DropState(x, AfterClose(sess[client[x]], x)), client[x] # None,
              \A u \in Tasks : job'[u].hand = job[u].hand, UNCHANGED <<built, shut>>
       PROVE  FiveKinds
  <2>1. AfterClose(sess[client[x]], x) \in Session /\ AfterClose(sess[client[x]], x).cursor = None
    BY <1>22, EndsWithoutCursor
  <2> QED
    BY <1>22, <2>1, ReleasedFromState DEF FiveKinds
<1>23. ASSUME NEW t \in Tasks, NEW x \in Cursors, Cleanup(t, x) PROVE FiveKinds
  <2> DEFINE j == [job[t] EXCEPT !.drained = @ \ {x}]
  <2>1. Moves(t, j) /\ UNCHANGED <<built, shut>>
    BY <1>23 DEF Cleanup, Moves
  <2>2. j.hand = job[t].hand
    BY <1>0 DEF TypeOK, Job
  <2> HIDE DEF j
  <2>3. client[x] # None /\ DropState(x, AfterClose(sess[client[x]], x))
    BY <1>0, <1>23, OwnedLive DEF Cleanup
  <2> QED
    BY <1>0, <1>22, <2>1, <2>2, <2>3, MoveHand
<1>24. ASSUME NEW x \in Cursors, SweepOne(x) PROVE FiveKinds
  <2>1. client[x] # None /\ DropState(x, AfterClose(sess[client[x]], x))
    BY <1>0, <1>24, OwnedLive DEF SweepOne
  <2> QED
    BY <1>22, <1>24, <2>1 DEF SweepOne
<1> QED
  BY <1>4, <1>5, <1>6, <1>7, <1>8, <1>9, <1>10, <1>11, <1>12, <1>13, <1>14, <1>15, <1>16, <1>17,
     <1>18, <1>19, <1>20, <1>21, <1>23, <1>24 DEF Next, UserCommand, Proceed, Sweep

\* Every step keeps the inductive invariant for clients and sessions.
LEMMA ClientStep == CInv /\ [Next]_vars => CInv'
<1> SUFFICES ASSUME CInv, [Next]_vars PROVE CInv'
  OBVIOUS
<1>1. IInv'
  BY TypeStep, ShapeStep, OwnStep, HomeStep, FinishedStep, SweeperStep DEF CInv, IInv
<1>2. ClientExclusive' /\ BuiltOnly' /\ CursorUsable' /\ OpenCursorOwned'
  BY StepKinds, RestKeeps, BuiltKeeps, OutKeeps, GivenKeeps, BackKeeps DEF FiveKinds
<1> QED
  BY <1>1, <1>2 DEF CInv

\* Before anything is connected no client is anywhere.
LEMMA ClientInit == Init => CInv
<1> SUFFICES ASSUME Init PROVE CInv
  OBVIOUS
<1>1. /\ avail = {} /\ \A x \in Cursors : client[x] = None
      /\ \A t \in Tasks : job[t].hand = None
      /\ \A s \in Clients : sess[s].cursor = None
  BY DEF Init, NoJob, Gone
<1>2. ClientExclusive /\ BuiltOnly /\ CursorUsable /\ OpenCursorOwned
  BY <1>1, NoneDistinct DEF ClientExclusive, BuiltOnly, CursorUsable, OpenCursorOwned
<1> QED
  BY <1>2, InitInv DEF CInv

----------------------------------------------------------------------------
(* Which pools are open.                                                    *)

\* The pools that were built so far.
Built == {p \in Pools : p[2] <= built[ConnOf(p)]}

\* Registered pools are those of their connection, built and open; so are the
\* pools being probed, each by one command and none of them registered.
PInv ==
    /\ IInv
    /\ shut \subseteq Built
    /\ \A c \in Conns : registry[c] # None =>
           ConnOf(registry[c]) = c /\ registry[c] \in Built \ shut
    /\ \A t \in Tasks : At(t, "probe") =>
           /\ job[t].pool \in Built \ shut /\ ConnOf(job[t].pool) = job[t].conn
           /\ registry[job[t].conn] # job[t].pool
           /\ \A u \in Tasks \ {t} : At(u, "probe") => job[u].pool # job[t].pool
    /\ \A p \in Built \ shut :
           registry[ConnOf(p)] = p \/ \E t \in Tasks : At(t, "probe") /\ job[t].pool = p

\* A step of a command that neither builds, registers nor closes a pool.
PoolsRest ==
    /\ UNCHANGED <<registry, built, shut>>
    /\ \A t \in Tasks : At(t, "probe") \/ At(t, "probe")' => job'[t] = job[t]

\* Such a step keeps account of the pools.
LEMMA PoolsRestKeeps ==
    ASSUME PInv, PoolsRest, IInv'
    PROVE  PInv'
<1>1. Built' = Built
  BY DEF PoolsRest, Built
<1>2. \A t \in Tasks : At(t, "probe")' => At(t, "probe") /\ job'[t] = job[t]
  BY DEF PoolsRest, At
<1>3. \A t \in Tasks : At(t, "probe") => At(t, "probe")' /\ job'[t] = job[t]
  BY DEF PoolsRest, At
<1> QED
  BY <1>1, <1>2, <1>3 DEF PInv, PoolsRest

\* A command that was not probing and does not begin to leaves the probes alone.
LEMMA RestDone ==
    ASSUME TypeOK, NEW t \in Tasks, NEW j, job[t].pc # "probe", j.pc # "probe",
           job' = [job EXCEPT ![t] = j]
    PROVE  \A u \in Tasks : At(u, "probe") \/ At(u, "probe")' => job'[u] = job[u]
  BY DEF TypeOK, At

\* Only connecting and evicting touch the pools.
LEMMA PoolSteps ==
    ASSUME IInv, [Next]_vars,
           \A t \in Tasks : /\ \A c \in Conns : ~ConnectStart(t, c)
                            /\ ~ConnectOk(t) /\ ~ConnectFails(t) /\ ~Evict(t)
    PROVE  PoolsRest
<1> USE DEF poolVars, sessVars, regVars, envVars
<1>0. TypeOK
  BY DEF IInv
<1>1. ASSUME NEW t \in Tasks, NEW j, j.pc # "probe", Start(t, j)
      PROVE  \A u \in Tasks : At(u, "probe") \/ At(u, "probe")' => job'[u] = job[u]
  BY <1>0, <1>1, RestDone DEF Start, At
<1>2. ASSUME NEW t \in Tasks, job[t].pc # "probe", Done(t)
      PROVE  \A u \in Tasks : At(u, "probe") \/ At(u, "probe")' => job'[u] = job[u]
  BY <1>0, <1>2, RestDone DEF Done, NoJob
<1>3. ASSUME NEW t \in Tasks, NEW l, l # "probe", job[t].pc # "probe", Go(t, l)
      PROVE  \A u \in Tasks : At(u, "probe") \/ At(u, "probe")' => job'[u] = job[u]
  <2> DEFINE j == [job[t] EXCEPT !.pc = l]
  <2>1. job' = [job EXCEPT ![t] = j] /\ j.pc # "probe"
    BY <1>0, <1>3 DEF Go, TypeOK, Job
  <2> HIDE DEF j
  <2> QED
    BY <1>0, <1>3, <2>1, RestDone
<1>4. ASSUME NEW t \in Tasks, UserCommand(t) PROVE PoolsRest
  <2>1. CASE \E c \in Conns : OpenStart(t, c)
    BY <1>1, <2>1 DEF OpenStart, NoJob, PoolsRest
  <2>2. CASE \E c \in Conns, m \in {"disconnect", "update", "delete"} : LifecycleStart(t, c, m)
    BY <1>1, <2>2 DEF LifecycleStart, NoJob, PoolsRest
  <2>3. CASE \E x \in Cursors : FetchStart(t, x)
    BY <1>1, <2>3 DEF FetchStart, NoJob, PoolsRest
  <2>4. CASE \E x \in Cursors : CloseCursor(t, x) \/ Cancel(t, x)
    BY <1>1, <2>4 DEF CloseCursor, Cancel, EndCursor, NoJob, PoolsRest, At
  <2>5. CASE \E c \in Conns, x \in Cursors : ResolveStart(t, c, x)
    BY <1>1, <2>5 DEF ResolveStart, NoJob, PoolsRest
  <2> QED
    BY <1>4, <2>1, <2>2, <2>3, <2>4, <2>5 DEF UserCommand
<1>5. ASSUME NEW t \in Tasks,
             \/ CheckoutFails(t) \/ OpenInline(t) \/ OpenFails(t) \/ Commit(t) \/ Rollback(t)
             \/ FetchFails(t) \/ ResolveReadOnly(t) \/ ResolveRead(t) \/ Unsave(t)
      PROVE  PoolsRest
  <2>1. Done(t) /\ job[t].pc # "probe"
    BY <1>5 DEF CheckoutFails, OpenInline, OpenFails, Commit, Rollback, FetchFails, ResolveReadOnly,
                ResolveRead, Unsave, At
  <2>2. UNCHANGED <<registry, built, shut>>
    BY <1>5 DEF CheckoutFails, OpenInline, OpenFails, Commit, Rollback, FetchFails, ResolveReadOnly,
                ResolveRead, Unsave
  <2> QED
    BY <1>2, <2>1, <2>2 DEF PoolsRest
<1>6. ASSUME NEW t \in Tasks, Stash(t) \/ FetchTake(t) \/ FetchRows(t) \/ Tidy(t) PROVE PoolsRest
  <2>1. /\ job[t].pc # "probe"
        /\ Done(t) \/ \E l \in {"commit", "fetching", "stash", "register", "evict"} : Go(t, l)
    BY <1>6 DEF Stash, FetchTake, FetchRows, Tidy, At
  <2>2. UNCHANGED <<registry, built, shut>>
    BY <1>6 DEF Stash, FetchTake, FetchRows, Tidy
  <2> QED
    BY <1>2, <1>3, <2>1, <2>2 DEF PoolsRest
<1>7. ASSUME NEW t \in Tasks,
             \/ Checkout(t) \/ Register(t) \/ ResolveFinished(t) \/ Drain(t)
             \/ \E x \in Cursors : OpenRows(t, x) \/ Cleanup(t, x)
      PROVE  PoolsRest
  <2>1. /\ job[t].pc # "probe"
        /\ \A u \in Tasks \ {t} : job'[u] = job[u]
    <3>0. job \in [Tasks -> Job]
      BY <1>0 DEF TypeOK
    <3>1. CASE Checkout(t) \/ Drain(t)
      BY <3>0, <3>1 DEF Checkout, Drain, At
    <3>2. CASE Register(t) \/ ResolveFinished(t)
      BY <3>0, <3>2 DEF Register, ResolveFinished, Done, At
    <3>3. CASE \E x \in Cursors : OpenRows(t, x)
      BY <3>0, <3>3 DEF OpenRows, At
    <3>4. CASE \E x \in Cursors : Cleanup(t, x)
      BY <3>0, <3>4 DEF Cleanup, At
    <3> QED
      BY <1>7, <3>1, <3>2, <3>3, <3>4
  <2>2. job'[t].pc # "probe"
    <3>0. job \in [Tasks -> Job] /\ job[t] \in Job
      BY <1>0 DEF TypeOK
    <3>1. CASE Checkout(t)
      BY <3>0, <3>1 DEF Checkout, Job
    <3>2. CASE Register(t) \/ ResolveFinished(t)
      BY <3>0, <3>2 DEF Register, ResolveFinished, Done, NoJob, Job
    <3>3. CASE Drain(t)
      BY <3>0, <3>3 DEF Drain, Job
    <3>4. CASE \E x \in Cursors : OpenRows(t, x)
      BY <3>0, <3>4 DEF OpenRows, Job
    <3>5. CASE \E x \in Cursors : Cleanup(t, x)
      BY <3>0, <3>5 DEF Cleanup, At, Job
    <3> QED
      BY <1>7, <3>1, <3>2, <3>3, <3>4, <3>5
  <2>3. UNCHANGED <<registry, built, shut>>
    BY <1>7 DEF Checkout, Register, ResolveFinished, Drain, OpenRows, Cleanup
  <2> QED
    BY <2>1, <2>2, <2>3 DEF PoolsRest, At
<1>8. ASSUME Sweep \/ (\E x \in Cursors : Age(x)) \/ (\E s \in Clients : LoseSession(s)) \/ WalkAway
             \/ UNCHANGED vars
      PROVE  PoolsRest
  BY <1>8 DEF Sweep, SweepDrain, SweepOne, SweepFinished, Age, LoseSession, WalkAway, vars, PoolsRest
<1> QED
  BY <1>4, <1>5, <1>6, <1>7, <1>8 DEF Next, Proceed, UserCommand

\* A connection attempt builds a pool that was not there and probes it.
LEMMA ConnectStartPools ==
    ASSUME PInv, IInv', NEW t \in Tasks, NEW c \in Conns, ConnectStart(t, c)
    PROVE  PInv'
<1> DEFINE n == <<c, built[c] + 1>>
           j == [NoJob EXCEPT !.pc = "probe", !.conn = c, !.pool = n]
<1>1. /\ TypeOK /\ MaxPools \in Nat /\ built[c] \in Nat
  BY ConstantAssumption DEF ConstantAssumption, PInv, IInv, TypeOK
<1>2. n \in Pools /\ n \notin Built /\ n[1] = c /\ n[2] = built[c] + 1
  BY <1>1 DEF Pools, Built, ConnectStart, TypeOK
<1>3. Built' = Built \cup {n}
  <2>1. \A p \in Pools : p[1] \in Conns /\ p[2] \in Nat /\ p = <<p[1], p[2]>>
    BY <1>1 DEF Pools
  <2>2. built' = [built EXCEPT ![c] = built[c] + 1] /\ built \in [Conns -> Nat]
    BY <1>1 DEF ConnectStart, TypeOK
  <2>3. ASSUME NEW p \in Pools PROVE p \in Built' <=> p \in Built \/ p = n
    <3>1. CASE p[1] = c
      BY <1>1, <1>2, <2>1, <2>2, <3>1 DEF Built
    <3>2. CASE p[1] # c
      BY <1>1, <1>2, <2>1, <2>2, <3>2 DEF Built
    <3> QED
      BY <3>1, <3>2
  <2> QED
    BY <1>2, <2>3 DEF Built
<1>4. /\ job'[t] = j /\ \A u \in Tasks \ {t} : job'[u] = job[u]
      /\ ~At(t, "probe") /\ UNCHANGED <<registry, shut>>
  BY <1>1 DEF ConnectStart, Start, At, TypeOK
<1>5. j.pc = "probe" /\ j.conn = c /\ j.pool = n
  BY DEF NoJob
<1> HIDE DEF n, j
<1>6. registry[c] # n
  BY <1>2, NoneDistinct DEF PInv
<1>7. \A u \in Tasks : At(u, "probe") => job[u].pool # n
  BY <1>2 DEF PInv
<1>8. \A u \in Tasks \ {t} : At(u, "probe")' <=> At(u, "probe")
  BY <1>4 DEF At
<1>9. At(t, "probe")'
  BY <1>4, <1>5 DEF At
<1>10. shut' \subseteq Built' /\ \A d \in Conns : registry'[d] # None =>
           ConnOf(registry'[d]) = d /\ registry'[d] \in Built' \ shut'
  BY <1>3, <1>4 DEF PInv
<1>11. ASSUME NEW u \in Tasks, At(u, "probe")'
       PROVE  /\ job'[u].pool \in Built' \ shut' /\ ConnOf(job'[u].pool) = job'[u].conn
              /\ registry'[job'[u].conn] # job'[u].pool
              /\ \A v \in Tasks \ {u} : At(v, "probe")' => job'[v].pool # job'[u].pool
  <2>1. CASE u = t
    BY <1>2, <1>3, <1>4, <1>5, <1>6, <1>7, <1>8, <2>1 DEF PInv
  <2>2. CASE u # t
    BY <1>3, <1>4, <1>5, <1>7, <1>8, <1>11, <2>2 DEF PInv
  <2> QED
    BY <2>1, <2>2
<1>12. ASSUME NEW p \in Built' \ shut'
       PROVE  registry'[ConnOf(p)] = p \/ \E u \in Tasks : At(u, "probe")' /\ job'[u].pool = p
  <2>1. CASE p = n
    BY <1>4, <1>5, <1>9, <2>1
  <2>2. CASE p # n
    BY <1>3, <1>4, <1>8, <2>2 DEF PInv
  <2> QED
    BY <2>1, <2>2
<1> QED
  BY <1>10, <1>11, <1>12 DEF PInv

\* What one command makes of the pool of its connection when a probe or an
\* eviction ends: `now` is registered, `gone` closed.
LEMMA SwapPools ==
    ASSUME PInv, IInv', NEW t \in Tasks, NEW c \in Conns, NEW now \in Pools \cup {None},
           NEW gone \in SUBSET Built, job[t].conn = c,
           job'[t].pc # "probe", \A u \in Tasks \ {t} : job'[u] = job[u],
           registry' = [registry EXCEPT ![c] = now], UNCHANGED built, shut' = shut \cup gone,
           \/ At(t, "probe") /\ now = job[t].pool /\ gone = {registry[c]} \ {None}
           \/ At(t, "probe") /\ now = registry[c] /\ gone = {job[t].pool}
           \/ ~At(t, "probe") /\ now = None /\ gone = {registry[c]} \ {None}
    PROVE  PInv'
<1>1. Built' = Built /\ shut' \subseteq Built' /\ registry \in [Conns -> Pools \cup {None}]
  BY DEF Built, PInv, IInv, TypeOK
<1>2. \A u \in Tasks : At(u, "probe")' => u # t /\ At(u, "probe") /\ job'[u] = job[u]
  BY DEF At
<1>3. \A u \in Tasks \ {t} : At(u, "probe") => At(u, "probe")'
  BY DEF At
<1>4. registry'[c] = now /\ \A d \in Conns \ {c} : registry'[d] = registry[d]
  BY <1>1
<1>5. ASSUME NEW d \in Conns, registry'[d] # None
      PROVE  ConnOf(registry'[d]) = d /\ registry'[d] \in Built' \ shut'
  <2>1. CASE d = c
    BY <1>1, <1>4, <1>5, <2>1 DEF PInv
  <2>2. CASE d # c
    <3>1. registry'[d] = registry[d] /\ ConnOf(registry[d]) = d /\ registry[d] \in Built \ shut
      BY <1>4, <1>5, <2>2 DEF PInv
    <3>2. \A p \in gone : ConnOf(p) = c
      BY DEF PInv
    <3> QED
      BY <1>1, <2>2, <3>1, <3>2
  <2> QED
    BY <2>1, <2>2
<1>6. ASSUME NEW u \in Tasks, At(u, "probe")'
      PROVE  /\ job'[u].pool \in Built' \ shut' /\ ConnOf(job'[u].pool) = job'[u].conn
             /\ registry'[job'[u].conn] # job'[u].pool
             /\ \A v \in Tasks \ {u} : At(v, "probe")' => job'[v].pool # job'[u].pool
  <2>1. u # t /\ At(u, "probe") /\ job'[u] = job[u]
    BY <1>2, <1>6
  <2>2. /\ job[u].pool \in Built \ shut /\ ConnOf(job[u].pool) = job[u].conn
        /\ registry[job[u].conn] # job[u].pool
        /\ \A v \in Tasks \ {u} : At(v, "probe") => job[v].pool # job[u].pool
    BY <2>1 DEF PInv
  <2>3. job[u].conn \in Conns /\ job[u].pool # None
    BY <2>2, NoneDistinct DEF Built, Pools
  <2>4. job[u].pool \notin gone
    <3>1. CASE gone = {job[t].pool} /\ At(t, "probe")
      BY <2>1, <2>2, <3>1
    <3>2. CASE gone = {registry[c]} \ {None}
      <4> SUFFICES ASSUME job[u].pool = registry[c], registry[c] # None PROVE FALSE
        BY <3>2
      <4>1. ConnOf(registry[c]) = c
        BY DEF PInv
      <4> QED
        BY <2>2, <4>1
    <3> QED
      BY <3>1, <3>2
  <2>5. registry'[job[u].conn] # job[u].pool
    <3>1. CASE job[u].conn = c
      BY <1>4, <2>1, <2>2, <2>3, <3>1
    <3>2. CASE job[u].conn # c
      BY <1>4, <2>2, <2>3, <3>2
    <3> QED
      BY <3>1, <3>2
  <2> QED
    BY <1>1, <1>2, <2>1, <2>2, <2>4, <2>5
<1>7. ASSUME NEW p \in Built' \ shut'
      PROVE  registry'[ConnOf(p)] = p \/ \E u \in Tasks : At(u, "probe")' /\ job'[u].pool = p
  <2>1. p \in Built \ shut /\ p \notin gone /\ p # None /\ ConnOf(p) \in Conns
    BY <1>1, NoneDistinct DEF Built, Pools
  <2>2. CASE registry[ConnOf(p)] = p
    BY <1>4, <2>1, <2>2
  <2>3. CASE \E u \in Tasks : At(u, "probe") /\ job[u].pool = p
    <3>1. PICK u \in Tasks : At(u, "probe") /\ job[u].pool = p
      BY <2>3
    <3>2. CASE u = t
      <4>1. ConnOf(p) = c
        BY <3>1, <3>2 DEF PInv
      <4> QED
        BY <1>4, <2>1, <3>1, <3>2, <4>1
    <3>3. CASE u # t
      BY <1>3, <3>1, <3>3
    <3> QED
      BY <3>2, <3>3
  <2> QED
    BY <2>1, <2>2, <2>3 DEF PInv
<1> QED
  BY <1>1, <1>5, <1>6, <1>7 DEF PInv

\* Every step keeps account of the pools.
LEMMA PoolStep == PInv /\ IInv' /\ [Next]_vars => PInv'
<1> SUFFICES ASSUME PInv, IInv', [Next]_vars PROVE PInv'
  OBVIOUS
<1>0. TypeOK /\ IInv
  BY DEF PInv, IInv
<1>1. ASSUME NEW t \in Tasks, NEW c \in Conns, ConnectStart(t, c) PROVE PInv'
  BY <1>1, ConnectStartPools
<1>2. ASSUME NEW t \in Tasks, ConnectOk(t) \/ ConnectFails(t) PROVE PInv'
  <2> DEFINE c == job[t].conn
  <2>1. At(t, "probe") /\ Done(t) /\ UNCHANGED built
    BY <1>2 DEF ConnectOk, ConnectFails
  <2>2. /\ c \in Conns /\ job[t].pool \in Built /\ job[t].pool \in Pools
        /\ registry \in [Conns -> Pools \cup {None}]
    BY <1>0, <2>1, JobAt DEF At, PInv, TypeOK
  <2>3. {registry[c]} \ {None} \subseteq Built
    BY <2>2 DEF PInv
  <2>4. job'[t].pc # "probe" /\ \A u \in Tasks \ {t} : job'[u] = job[u]
    BY <1>0, <2>1 DEF Done, NoJob, TypeOK
  <2>5. \/ registry' = [registry EXCEPT ![c] = job[t].pool] /\ shut' = shut \cup ({registry[c]} \ {None})
        \/ registry' = [registry EXCEPT ![c] = registry[c]] /\ shut' = shut \cup {job[t].pool}
    BY <1>2, <2>2 DEF ConnectOk, ConnectFails, ShutPools
  <2>6. job[t].conn = c
    OBVIOUS
  <2> HIDE DEF c
  <2>7. CASE registry' = [registry EXCEPT ![c] = job[t].pool] /\ shut' = shut \cup ({registry[c]} \ {None})
    BY <2>1, <2>2, <2>3, <2>4, <2>6, <2>7, SwapPools
  <2>8. CASE registry' = [registry EXCEPT ![c] = registry[c]] /\ shut' = shut \cup {job[t].pool}
    <3> DEFINE now  == registry[c]
               gone == {job[t].pool}
    <3>1. gone \in SUBSET Built /\ now \in Pools \cup {None}
      BY <2>2
    <3>2. registry' = [registry EXCEPT ![c] = now] /\ shut' = shut \cup gone
      BY <2>8
    <3>3. At(t, "probe") /\ now = registry[c] /\ gone = {job[t].pool}
      BY <2>1
    <3> HIDE DEF now, gone
    <3> QED
      BY <2>1, <2>2, <2>4, <2>6, <3>1, <3>2, <3>3, SwapPools
  <2> QED
    BY <2>5, <2>7, <2>8
<1>3. ASSUME NEW t \in Tasks, Evict(t) PROVE PInv'
  <2> DEFINE c == job[t].conn
  <2>1. /\ ~At(t, "probe") /\ UNCHANGED built /\ registry' = [registry EXCEPT ![c] = None]
        /\ shut' = shut \cup ({registry[c]} \ {None})
    BY <1>3 DEF Evict, At, ShutPools
  <2>2. c \in Conns /\ job[t].mode \in {"disconnect", "update", "delete"}
    BY <1>0, <1>3, JobAt DEF Evict, At
  <2>3. {registry[c]} \ {None} \subseteq Built
    BY <2>2 DEF PInv
  <2>4. job'[t].pc # "probe" /\ \A u \in Tasks \ {t} : job'[u] = job[u]
    <3>1. Done(t) \/ Go(t, "drain") \/ Go(t, "unsave")
      BY <1>3, <2>2 DEF Evict
    <3> QED
      BY <1>0, <3>1 DEF Done, Go, NoJob, TypeOK, Job
  <2>5. job[t].conn = c
    OBVIOUS
  <2> HIDE DEF c
  <2> QED
    BY <2>1, <2>2, <2>3, <2>4, <2>5, SwapPools
<1>4. CASE \A t \in Tasks : /\ \A c \in Conns : ~ConnectStart(t, c)
                            /\ ~ConnectOk(t) /\ ~ConnectFails(t) /\ ~Evict(t)
  BY <1>0, <1>4, PoolSteps, PoolsRestKeeps
<1> QED
  BY <1>1, <1>2, <1>3, <1>4

\* Before anything is connected there is no pool.
LEMMA PoolInit == Init => PInv
<1> SUFFICES ASSUME Init PROVE PInv
  OBVIOUS
<1>1. shut = {} /\ (\A c \in Conns : registry[c] = None) /\ \A t \in Tasks : ~At(t, "probe")
  BY DEF Init, At, NoJob
<1>2. Built = {}
  <2> SUFFICES ASSUME NEW p \in Built PROVE FALSE
    OBVIOUS
  <2>1. p[1] \in Conns /\ p[2] \in 1..MaxPools /\ p[2] <= built[p[1]]
    BY DEF Built, Pools
  <2>2. p[2] <= 0
    BY <2>1 DEF Init
  <2> QED
    BY <2>1, <2>2, ConstantAssumption DEF ConstantAssumption
<1> QED
  BY <1>1, <1>2, InitInv DEF PInv

----------------------------------------------------------------------------
(* The theorems about clients, sessions and pools.                          *)

\* Who holds each client, that it is of a pool that was built, and what the
\* session behind it is in, in every reachable state.
THEOREM ClientInvariance == Spec => []CInv
  BY ClientInit, ClientStep, PTL DEF Spec

\* A client rests in its pool, is in the hand of one command or belongs to one
\* CursorState, however commands, sweeps, evictions and reconnects interleave
\* (query/cursor.rs:13-18).
THEOREM NeverShared == Spec => []ClientExclusive
<1>1. CInv => ClientExclusive
  BY DEF CInv
<1> QED
  BY ClientInvariance, <1>1, PTL

\* A live CursorState can always be fetched from, unless its session died.
THEOREM AlwaysUsable == Spec => []CursorUsable
<1>1. CInv => CursorUsable
  BY DEF CInv
<1> QED
  BY ClientInvariance, <1>1, PTL

\* A session with a declared cursor is always the session of the CursorState
\* that is to close it.
THEOREM NeverOrphaned == Spec => []OpenCursorOwned
<1>1. CInv => OpenCursorOwned
  BY DEF CInv
<1> QED
  BY ClientInvariance, <1>1, PTL

\* What is accounted for stays so: a client is taken from its pool into a hand, from
\* a hand into a state, and goes back to its pool unless that was closed.
LEMMA AccountsKept ==
    CInv /\ IInv' /\ ClientsAccountedFor /\ [Next]_vars => ClientsAccountedFor'
<1> SUFFICES ASSUME CInv, IInv', ClientsAccountedFor, [Next]_vars,
                    NEW s \in Clients, PoolOf(s)[2] <= built'[ConnOf(PoolOf(s))], PoolOf(s) \notin shut'
             PROVE  \/ s \in avail'
                    \/ \E x \in Cursors : client'[x] = s
                    \/ \E t \in Tasks : job'[t].hand = s
  BY DEF ClientsAccountedFor
<1>0. /\ TypeOK /\ FiveKinds /\ s # None
      /\ PoolOf(s)[1] \in Conns /\ PoolOf(s)[2] \in Nat /\ PoolOf(s) \in Pools
      /\ built \in [Conns -> 0..MaxPools]
  BY StepKinds, NoneDistinct, ConstantAssumption DEF CInv, IInv, TypeOK, Clients, Pools, ConstantAssumption
<1>1. ASSUME PoolOf(s)[2] <= built[ConnOf(PoolOf(s))], PoolOf(s) \notin shut
      PROVE  \/ s \in avail
             \/ \E x \in Cursors : client[x] = s
             \/ \E t \in Tasks : job[t].hand = s
  BY <1>1 DEF ClientsAccountedFor
<1>2. CASE ClientsRest
  BY <1>1, <1>2 DEF ClientsRest
<1>3. ASSUME NEW p \in Pools, ClientsBuilt(p)
      PROVE  s \in avail' \/ (\E x \in Cursors : client'[x] = s) \/ \E t \in Tasks : job'[t].hand = s
  <2>1. CASE PoolOf(s) = p
    BY <1>3, <2>1 DEF ClientsBuilt, ClientsOf
  <2>2. CASE PoolOf(s) # p
    <3>1. p[1] \in Conns /\ p[2] \in Nat /\ p = <<p[1], p[2]>> /\ PoolOf(s) = <<PoolOf(s)[1], PoolOf(s)[2]>>
      BY <1>0, ConstantAssumption DEF Pools, ConstantAssumption
    <3>2. PoolOf(s)[2] <= built[ConnOf(PoolOf(s))]
      <4>1. CASE PoolOf(s)[1] = p[1]
        <5>1. built[p[1]] \in Nat /\ p[2] = built[p[1]] + 1 /\ built'[p[1]] = p[2]
          BY <1>0, <1>3, <3>1, ConstantAssumption DEF ClientsBuilt, ConstantAssumption
        <5>2. PoolOf(s)[2] # p[2]
          BY <2>2, <3>1, <4>1
        <5> QED
          BY <1>0, <4>1, <5>1, <5>2
      <4>2. CASE PoolOf(s)[1] # p[1]
        BY <1>0, <1>3, <3>1, <4>2 DEF ClientsBuilt
      <4> QED
        BY <4>1, <4>2
    <3> QED
      BY <1>1, <1>3, <3>2 DEF ClientsBuilt
  <2> QED
    BY <2>1, <2>2
<1>4. ASSUME NEW t \in Tasks, NEW r \in Clients, HandedOut(t, r)
      PROVE  s \in avail' \/ (\E x \in Cursors : client'[x] = s) \/ \E u \in Tasks : job'[u].hand = s
  BY <1>0, <1>1, <1>4 DEF HandedOut
<1>5. ASSUME NEW t \in Tasks, NEW x \in Cursors, GivenTo(t, x)
      PROVE  s \in avail' \/ (\E y \in Cursors : client'[y] = s) \/ \E u \in Tasks : job'[u].hand = s
  BY <1>0, <1>1, <1>5 DEF GivenTo, TypeOK
<1>6. ASSUME NEW r \in Clients, HandedBack(r)
      PROVE  s \in avail' \/ (\E x \in Cursors : client'[x] = s) \/ \E t \in Tasks : job'[t].hand = s
  BY <1>0, <1>1, <1>6 DEF HandedBack
<1> QED
  BY <1>0, <1>2, <1>3, <1>4, <1>5, <1>6 DEF FiveKinds

\* Reconnects, evictions and failed probes leave no pool open that is neither
\* registered nor being probed, and none registered that is closed
\* (connection/pool.rs); and however a command ends, an open pool keeps every
\* client it was built with: none is forgotten on an error path, and a waiting
\* pool.get() waits for somebody who has one.
THEOREM NoLeaks == Spec => []NothingLeaks
<1>1. PInv => PoolsAccountedFor
  BY NoneDistinct DEF PInv, PoolsAccountedFor, Built, Pools
<1>2. PInv /\ IInv' /\ [Next]_vars => PInv'
  BY PoolStep
<1>3. Init => ClientsAccountedFor
  <2> SUFFICES ASSUME Init, NEW s \in Clients PROVE ~(PoolOf(s)[2] <= built[ConnOf(PoolOf(s))])
    BY DEF ClientsAccountedFor
  <2>1. PoolOf(s)[1] \in Conns /\ PoolOf(s)[2] \in 1..MaxPools
    BY DEF Clients, Pools
  <2> QED
    BY <2>1, ConstantAssumption DEF Init, ConstantAssumption
<1>4. CInv /\ IInv' /\ ClientsAccountedFor /\ [Next]_vars => ClientsAccountedFor'
  BY AccountsKept
<1>5. PoolsAccountedFor /\ ClientsAccountedFor => NothingLeaks
  BY DEF NothingLeaks
<1> QED
  BY PoolInit, <1>1, <1>2, <1>3, <1>4, <1>5, Invariance, ClientInvariance, PTL DEF Spec

----------------------------------------------------------------------------
(* CursorPool implements CursorLease.                                       *)

PlaceOf == [x \in Cursors |-> Place(x)]

\* When every open cursor has a state, and every state a session with its cursor
\* or a dead one, the cursors declared are those the sessions of states have.
LEMMA DeclaredOf ==
    ASSUME NEW cl \in [Cursors -> Clients \cup {None}], NEW se,
           \A x \in Cursors : cl[x] # None => se[cl[x]] \in {Open(x), Gone},
           \A s \in Clients : se[s].cursor # None => cl[se[s].cursor] = s
    PROVE  {x \in Cursors : \E s \in Clients : se[s].cursor = x}
             = {x \in Cursors : cl[x] # None /\ se[cl[x]] = Open(x)}
<1>1. ASSUME NEW x \in Cursors, NEW s \in Clients, se[s].cursor = x
      PROVE  cl[x] = s /\ s # None /\ se[s] = Open(x)
  BY <1>1, NoneDistinct DEF Gone
<1>2. ASSUME NEW x \in Cursors, cl[x] # None, se[cl[x]] = Open(x)
      PROVE  cl[x] \in Clients /\ se[cl[x]].cursor = x
  BY <1>2 DEF Open
<1> QED
  BY <1>1, <1>2

\* A transaction the server has is that of a live state, on its client.
LEMMA DeclaredIs ==
    ASSUME CInv
    PROVE  Declared = {x \in Cursors : client[x] # None /\ sess[client[x]] = Open(x)}
  BY DeclaredOf DEF CInv, IInv, TypeOK, CursorUsable, OpenCursorOwned, Declared

\* So it is after a step.
LEMMA DeclaredBecomes ==
    ASSUME CInv'
    PROVE  Declared' = {x \in Cursors : client'[x] # None /\ sess'[client'[x]] = Open(x)}
  BY DeclaredOf DEF CInv, IInv, TypeOK, CursorUsable, OpenCursorOwned, Declared

\* Where nobody's state, home or session changes, neither do the transactions.
LEMMA DeclaredRest ==
    ASSUME CInv, CInv', UNCHANGED client,
           \A x \in Cursors : client[x] # None => sess'[client[x]] = sess[client[x]]
    PROVE  Declared' = Declared
<1>1. Declared' = {x \in Cursors : client'[x] # None /\ sess'[client'[x]] = Open(x)}
  BY DeclaredBecomes
<1> QED
  BY <1>1, DeclaredIs

\* Steps that move no state and touch no state's session change no lease.
LEMMA LeasesRest ==
    ASSUME CInv, CInv', UNCHANGED <<client, home, inner>>,
           \A x \in Cursors : client[x] # None => sess'[client[x]] = sess[client[x]]
    PROVE  UNCHANGED <<PlaceOf, client, Declared>>
  BY DeclaredRest DEF PlaceOf, Place

\* A state that enters the registry is parked.
LEMMA Parked ==
    ASSUME CInv, CInv', UNCHANGED <<client, home, sess>>,
           NEW x \in Cursors, client[x] # None, x \notin inner, inner' = inner \cup {x}
    PROVE  Lease!Park(x)
<1>1. home[x] # None
  BY DEF CInv, IInv, HomeKnown
<1>2. Place(x) = "out" /\ Place(x)' = "parked" /\ \A y \in Cursors \ {x} : Place(y)' = Place(y)
  BY <1>1 DEF Place
<1>3. [y \in Cursors |-> Place(y)]' = [[y \in Cursors |-> Place(y)] EXCEPT ![x] = "parked"]
  BY <1>2
<1>4. Declared' = Declared
  BY DeclaredRest
<1> QED
  BY <1>2, <1>3, <1>4 DEF Lease!Park

\* States that leave the registry are taken back.
LEMMA TakenBack ==
    ASSUME CInv, CInv', UNCHANGED <<client, home, sess>>, NEW xs, inner' = inner \ xs
    PROVE  \E ys \in SUBSET Cursors : Lease!TakeBack(ys)
<1> DEFINE ys == xs \cap inner
<1>1. ys \subseteq Cursors /\ \A x \in ys : client[x] # None /\ home[x] # None
  BY OwnedLive DEF CInv, IInv, HomeKnown
<1>2. \A x \in ys : Place(x) = "parked" /\ Place(x)' = "out"
  BY <1>1 DEF Place
<1>3. \A x \in Cursors \ ys : Place(x)' = Place(x)
  BY DEF Place
<1>4. Declared' = Declared
  BY DeclaredRest
<1> HIDE DEF ys
<1>5. /\ \A x \in ys : [y \in Cursors |-> Place(y)][x] = "parked"
      /\ [x \in Cursors |-> Place(x)]'
           = [x \in Cursors |-> IF x \in ys THEN "out" ELSE [y \in Cursors |-> Place(y)][x]]
  BY <1>1, <1>2, <1>3
<1>6. Lease!TakeBack(ys)
  BY <1>4, <1>5 DEF Lease!TakeBack
<1> QED
  BY <1>1, <1>6

\* A state that is dropped ends its lease, and with it the transaction.
LEMMA GivenUp ==
    ASSUME CInv, CInv', NEW x \in Cursors, client[x] # None, x \notin inner,
           NEW q \in Session, q.cursor = None, DropState(x, q), UNCHANGED <<home, inner>>
    PROVE  Lease!GiveUp(x)
<1>1. TypeOK /\ client[x] \in Clients /\ home[x] # None
  BY LiveClient DEF CInv, IInv, HomeKnown
<1>2. client' = [client EXCEPT ![x] = None] /\ client'[x] = None
      /\ \A y \in Cursors \ {x} : client'[y] = client[y]
  BY <1>1 DEF DropState, TypeOK
<1>3. Place(x) = "out" /\ Place(x)' = "over" /\ \A y \in Cursors \ {x} : Place(y)' = Place(y)
  BY <1>1, <1>2 DEF Place
<1>4. [y \in Cursors |-> Place(y)]' = [[y \in Cursors |-> Place(y)] EXCEPT ![x] = "over"]
  BY <1>3
<1>5. \A y \in Cursors \ {x} : client[y] # None => sess'[client[y]] = sess[client[y]]
  BY <1>1 DEF CInv, ClientExclusive, DropState, Release, TypeOK
<1>6. Declared' = Declared \ {x}
  <2>1. Declared' = {y \in Cursors : client'[y] # None /\ sess'[client'[y]] = Open(y)}
    BY DeclaredBecomes
  <2> QED
    BY <1>2, <1>5, <2>1, DeclaredIs
<1> QED
  BY <1>2, <1>3, <1>4, <1>6 DEF Lease!GiveUp

\* A command that declares a cursor on the client in its hand grants a lease.
LEMMA Granted ==
    ASSUME CInv, CInv', NEW t \in Tasks, NEW x \in Cursors, OpenRows(t, x)
    PROVE  Lease!Grant(x, job[t].hand) /\ job[t].hand \in Clients
<1> DEFINE s == job[t].hand
<1>1. TypeOK /\ s \in Clients /\ home[x] = None /\ client[x] = None /\ job[t].pool \in Pools
  BY JobAt DEF CInv, IInv, OpenRows, At, HomeKnown
<1>2. \A y \in Cursors : client[y] # s
  BY <1>1 DEF CInv, ClientExclusive
<1>3. /\ client' = [client EXCEPT ![x] = s] /\ sess' = [sess EXCEPT ![s] = Open(x)]
      /\ home' = [home EXCEPT ![x] = job[t].pool] /\ inner' = inner
  BY DEF OpenRows
<1>4. x \notin inner
  BY <1>1, OwnedLive DEF CInv
<1> HIDE DEF s
<1>5. Place(x) = "unborn" /\ Place(x)' = "out" /\ \A y \in Cursors \ {x} : Place(y)' = Place(y)
  BY <1>1, <1>3, <1>4, NoneDistinct DEF Place, TypeOK
<1>6. [y \in Cursors |-> Place(y)]' = [[y \in Cursors |-> Place(y)] EXCEPT ![x] = "out"]
  BY <1>5
<1>7. Declared' = Declared \cup {x}
  <2>1. Declared' = {y \in Cursors : client'[y] # None /\ sess'[client'[y]] = Open(y)}
    BY DeclaredBecomes
  <2>2. \A y \in Cursors \ {x} : client[y] # None => sess'[client[y]] = sess[client[y]]
    BY <1>1, <1>2, <1>3 DEF TypeOK
  <2>3. client'[x] = s /\ sess'[s] = Open(x) /\ \A y \in Cursors \ {x} : client'[y] = client[y]
    BY <1>1, <1>3 DEF TypeOK
  <2> QED
    BY <1>1, <2>1, <2>2, <2>3, DeclaredIs, NoneDistinct
<1>8. Lease!Grant(x, s)
  BY <1>2, <1>3, <1>5, <1>6, <1>7 DEF Lease!Grant
<1> QED
  BY <1>1, <1>8 DEF s

\* A session that dies takes its transaction along, and no lease.
LEMMA LostOne ==
    ASSUME CInv, CInv', NEW s \in Clients, LoseSession(s)
    PROVE  (\E x \in Cursors : Lease!Lose(x)) \/ UNCHANGED <<PlaceOf, client, Declared>>
<1>1. TypeOK /\ sess' = [sess EXCEPT ![s] = Gone] /\ UNCHANGED <<client, home, inner>>
  BY DEF CInv, IInv, LoseSession, regVars
<1>2. UNCHANGED [x \in Cursors |-> Place(x)]
  BY <1>1 DEF Place
<1>3. Declared' = {x \in Declared : sess[s].cursor # x}
  <2>1. \A r \in Clients : sess'[r] = IF r = s THEN Gone ELSE sess[r]
    BY <1>1 DEF TypeOK
  <2>2. \A x \in Cursors : x # None /\ \A r \in Clients : sess[r].cursor = x => client[x] = r
    BY NoneDistinct DEF CInv, OpenCursorOwned
  <2> QED
    BY <2>1, <2>2 DEF Declared, Gone
<1>4. CASE sess[s].cursor \in Declared
  <2>1. Lease!Lose(sess[s].cursor)
    BY <1>1, <1>2, <1>3, <1>4 DEF Lease!Lose
  <2>2. Declared \subseteq Cursors
    BY DEF Declared
  <2> QED
    BY <1>4, <2>1, <2>2
<1>5. CASE sess[s].cursor \notin Declared
  BY <1>1, <1>2, <1>3, <1>5 DEF PlaceOf
<1> QED
  BY <1>4, <1>5

\* A client that is with no state is at rest in its pool or in a hand.
LEMMA StatesApart ==
    ASSUME CInv
    PROVE  /\ \A s \in avail : \A x \in Cursors : client[x] # s
           /\ \A t \in Tasks : job[t].pc \in {"opened", "reading"} =>
                \A x \in Cursors : client[x] # job[t].hand
<1>1. avail \subseteq Clients
  BY DEF CInv, IInv, TypeOK
<1>2. \A t \in Tasks : job[t].pc \in {"opened", "reading"} => job[t].hand \in Clients
  BY JobAt DEF CInv
<1> QED
  BY <1>1, <1>2 DEF CInv, ClientExclusive

\* What a step does to the leases.
LeaseKinds == Lease!LeaseNext \/ UNCHANGED <<PlaceOf, client, Declared>>

\* Every step of the commands, the sweeper and the environment is a step of a
\* lease, or none.
LEMMA LeaseStep == CInv /\ CInv' /\ [Next]_vars => LeaseKinds
<1> SUFFICES ASSUME CInv, CInv', [Next]_vars PROVE LeaseKinds
  OBVIOUS
<1>0. TypeOK /\ IInv /\ SingleOwner
  BY DEF CInv, IInv
<1> USE DEF poolVars, sessVars, regVars, envVars
(* No lease is concerned.                                                   *)
<1>1. ASSUME UNCHANGED <<client, home, inner>>,
             \A x \in Cursors : client[x] # None => sess'[client[x]] = sess[client[x]]
      PROVE  LeaseKinds
  BY <1>1, LeasesRest DEF LeaseKinds
<1>2. ASSUME NEW t \in Tasks, NEW c \in Conns,
             \/ OpenStart(t, c) \/ ConnectStart(t, c) \/ \E m : LifecycleStart(t, c, m)
      PROVE  LeaseKinds
  BY <1>1, <1>2 DEF OpenStart, ConnectStart, LifecycleStart
<1>3. ASSUME NEW t \in Tasks,
             \/ CheckoutFails(t) \/ ResolveReadOnly(t) \/ Unsave(t) \/ Stash(t)
             \/ FetchRows(t) \/ Tidy(t) \/ ResolveFinished(t) \/ \E x \in Cursors : FetchStart(t, x)
      PROVE  LeaseKinds
  BY <1>1, <1>3 DEF CheckoutFails, ResolveReadOnly, Unsave, Stash, FetchRows, Tidy, ResolveFinished, FetchStart
<1>4. ASSUME SweepFinished \/ (\E x \in Cursors : Age(x)) \/ WalkAway \/ UNCHANGED vars PROVE LeaseKinds
  BY <1>1, <1>4 DEF SweepFinished, Age, WalkAway, vars
(* Sessions change that are no state's.                                     *)
<1>5. ASSUME NEW t \in Tasks, ConnectOk(t) \/ ConnectFails(t) \/ Evict(t) PROVE LeaseKinds
  <2>1. PICK ps : ShutPools(ps)
    BY <1>5 DEF ConnectOk, ConnectFails, Evict
  <2>2. \A s \in Clients \ avail : sess'[s] = sess[s]
    BY <2>1 DEF ShutPools
  <2>3. \A x \in Cursors : client[x] # None => sess'[client[x]] = sess[client[x]]
    BY <1>0, <2>2, StatesApart, LiveClient
  <2> QED
    BY <1>1, <1>5, <2>3 DEF ConnectOk, ConnectFails, Evict
<1>6. ASSUME NEW t \in Tasks, Checkout(t) PROVE LeaseKinds
  <2>1. PICK s \in avail : sess' = [sess EXCEPT ![s] = IF @.txn = "gone" THEN Idle ELSE @]
    BY <1>6 DEF Checkout
  <2>2. \A x \in Cursors : client[x] # None => sess'[client[x]] = sess[client[x]]
    BY <1>0, <2>1, StatesApart, LiveClient DEF TypeOK
  <2> QED
    BY <1>1, <1>6, <2>2 DEF Checkout
<1>7. ASSUME NEW t \in Tasks, OpenInline(t) \/ OpenFails(t) \/ ResolveRead(t) PROVE LeaseKinds
  <2>1. job[t].pc \in {"opened", "reading"} /\ UNCHANGED <<client, home, inner>>
    BY <1>7 DEF OpenInline, OpenFails, ResolveRead, At
  <2>2. PICK q : Release(job[t].hand, q)
    BY <1>7 DEF OpenInline, OpenFails, ResolveRead
  <2>3. \A x \in Cursors : client[x] # None => sess'[client[x]] = sess[client[x]]
    BY <1>0, <2>1, <2>2, StatesApart, LiveClient DEF TypeOK, Release
  <2> QED
    BY <1>1, <2>1, <2>3
(* A state goes into the registry, or comes out of it.                      *)
<1>8. ASSUME NEW t \in Tasks, Register(t) PROVE LeaseKinds
  <2> DEFINE x == job[t].cur
  <2>1. x \in Cursors /\ client[x] # None /\ x \notin inner
    BY <1>0, <1>8, OwnedLive DEF Register, At, SingleOwner, Owned, Owning
  <2>2. inner' = inner \cup {x} /\ UNCHANGED <<client, home, sess>>
    BY <1>8 DEF Register
  <2> HIDE DEF x
  <2>3. Lease!Park(x)
    BY <2>1, <2>2, Parked
  <2> QED
    BY <2>1, <2>3 DEF LeaseKinds, Lease!LeaseNext
<1>9. ASSUME NEW xs, inner' = inner \ xs, UNCHANGED <<client, home, sess>> PROVE LeaseKinds
  BY <1>9, TakenBack DEF LeaseKinds, Lease!LeaseNext
<1>10. ASSUME NEW t \in Tasks, NEW x \in Cursors,
              CloseCursor(t, x) \/ Cancel(t, x) \/ \E c \in Conns : ResolveStart(t, c, x)
       PROVE  LeaseKinds
  <2>1. UNCHANGED <<client, home, sess>>
    BY <1>10 DEF CloseCursor, Cancel, EndCursor, ResolveStart
  <2>2. inner' = inner \ {x} \/ inner' = inner
    BY <1>10 DEF CloseCursor, Cancel, EndCursor, ResolveStart, TakeOut
  <2> QED
    BY <1>1, <1>9, <2>1, <2>2
<1>11. ASSUME SweepDrain \/ \E t \in Tasks : FetchTake(t) \/ Drain(t) PROVE LeaseKinds
  BY <1>9, <1>11 DEF SweepDrain, FetchTake, Drain, TakeOut
(* A lease is granted, one ends, a transaction is lost.                     *)
<1>12. ASSUME NEW t \in Tasks, NEW x \in Cursors, OpenRows(t, x) PROVE LeaseKinds
  <2>1. Lease!Grant(x, job[t].hand) /\ job[t].hand \in Clients
    BY <1>12, Granted
  <2> QED
    BY <2>1 DEF LeaseKinds, Lease!LeaseNext
<1>13. ASSUME NEW x \in Cursors, client[x] # None, x \notin inner, UNCHANGED <<home, inner>>,
              NEW q \in {AfterClose(sess[client[x]], x), AfterRollback(sess[client[x]]), AfterError(sess[client[x]])},
              DropState(x, q)
       PROVE  LeaseKinds
  <2>1. q \in Session /\ q.cursor = None
    BY <1>13, EndsWithoutCursor
  <2>2. Lease!GiveUp(x)
    BY <1>13, <2>1, GivenUp
  <2> QED
    BY <2>2 DEF LeaseKinds, Lease!LeaseNext
<1>14. ASSUME NEW t \in Tasks, Commit(t) \/ Rollback(t) \/ FetchFails(t) PROVE LeaseKinds
  <2> DEFINE x == job[t].cur
  <2>1. x \in Cursors /\ client[x] # None /\ x \notin inner
    BY <1>0, <1>14, OwnedLive DEF Commit, Rollback, FetchFails, At, SingleOwner, Owned, Owning
  <2>2. UNCHANGED <<home, inner>>
    BY <1>14 DEF Commit, Rollback, FetchFails
  <2>3. PICK q \in {AfterClose(sess[client[x]], x), AfterRollback(sess[client[x]]), AfterError(sess[client[x]])} :
            DropState(x, q)
    BY <1>14 DEF Commit, Rollback, FetchFails
  <2> HIDE DEF x
  <2> QED
    BY <1>13, <2>1, <2>2, <2>3
<1>15. ASSUME NEW t \in Tasks, NEW x \in Cursors, Cleanup(t, x) PROVE LeaseKinds
  <2>1. client[x] # None /\ x \notin inner
    BY <1>0, <1>15, OwnedLive DEF Cleanup, SingleOwner, Owned
  <2> QED
    BY <1>13, <1>15, <2>1 DEF Cleanup
<1>16. ASSUME NEW x \in Cursors, SweepOne(x) PROVE LeaseKinds
  <2>1. client[x] # None /\ x \notin inner
    BY <1>0, <1>16, OwnedLive DEF SweepOne, SingleOwner
  <2> QED
    BY <1>13, <1>16, <2>1 DEF SweepOne
<1>17. ASSUME NEW s \in Clients, LoseSession(s) PROVE LeaseKinds
  BY <1>17, LostOne DEF LeaseKinds, Lease!LeaseNext
<1> QED
  BY <1>2, <1>3, <1>4, <1>5, <1>6, <1>7, <1>8, <1>10, <1>11, <1>12, <1>14, <1>15, <1>16, <1>17
     DEF Next, UserCommand, Proceed, Sweep

\* Before anything is connected no lease was granted.
LEMMA LeaseBegins == Init => Lease!LeaseInit
<1> SUFFICES ASSUME Init PROVE Lease!LeaseInit
  OBVIOUS
<1>1. [x \in Cursors |-> Place(x)] = [x \in Cursors |-> "unborn"]
  BY DEF Init, Place
<1>2. Declared = {}
  BY NoneDistinct DEF Init, Declared, Gone
<1> QED
  BY <1>1, <1>2 DEF Init, Lease!LeaseInit

\* The registry, the commands and the sweeper implement a lease of a client: a
\* cursor is granted one client once, keeps it on every way in and out of the
\* registry, and is ended once, by whoever took it out, together with its
\* transaction (query/cursor.rs, query_open_cursor to query_cancel).
THEOREM ImplementsLease == Spec => CursorLeases
<1>1. Init => Lease!LeaseInit
  BY LeaseBegins
<1>2. CInv /\ CInv' /\ [Next]_vars =>
        [Lease!LeaseNext]_<<[x \in Cursors |-> Place(x)], client, Declared>>
  BY LeaseStep DEF LeaseKinds, PlaceOf
<1> QED
  BY <1>1, <1>2, ClientInvariance, PTL DEF Spec, CursorLeases, Lease!LeaseSpec
=============================================================================
