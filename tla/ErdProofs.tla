------------------------------ MODULE ErdProofs ------------------------------
(***************************************************************************)
(* Proofs about the canvas.                                                *)
(*                                                                         *)
(* ErdEdit, for every set of operations and scripts: its two stacks of     *)
(* snapshots implement the one line of EditHistory, and Apply sends what   *)
(* is shown until the user walks the history.  First come LineOf, the line *)
(* that two stacks and the document between them stand for, and its        *)
(* steps; then the actions one by one.                                     *)
(*                                                                         *)
(* ErdDdl, for every base and every log: a script that runs leaves the     *)
(* schema of the canvas.  The functions that walk the log are shown to be  *)
(* the recursions they are written as; the graph after n operations is     *)
(* read off the log without recursion; so is the database after n of a     *)
(* group's, which is compared with the graph at the end.                   *)
(***************************************************************************)
EXTENDS ErdEdit, ErdDdl, TLAPS, SequenceTheorems, FiniteSetTheorems, NaturalsInduction, WellFoundedInduction

----------------------------------------------------------------------------
(* Stacks and the line they make.                                          *)

\* Popping drops the last element and moves no other.
LEMMA PopShape ==
    ASSUME NEW S, NEW s \in Seq(S), s # <<>>
    PROVE  /\ Len(s) \in Nat \ {0} /\ s[Len(s)] \in S
           /\ Pop(s) \in Seq(S) /\ Len(Pop(s)) = Len(s) - 1
           /\ \A i \in 1..(Len(s) - 1) : Pop(s)[i] = s[i]
<1>1. Len(s) \in Nat \ {0}
  BY EmptySeq
<1> QED
  BY <1>1, SubSeqProperties DEF Pop

\* Pushing adds an element at the end and moves no other.
LEMMA PushShape ==
    ASSUME NEW S, NEW s \in Seq(S), NEW e \in S
    PROVE  /\ Append(s, e) \in Seq(S) /\ Len(Append(s, e)) = Len(s) + 1
           /\ Append(s, e) # <<>>
           /\ \A i \in 1..Len(s) : Append(s, e)[i] = s[i]
           /\ Append(s, e)[Len(s) + 1] = e
  BY AppendProperties

\* The line is a sequence of the documents on the stacks and the one shown.
LEMMA LineShape ==
    ASSUME NEW S, NEW u \in Seq(S), NEW d \in S, NEW r \in Seq(S)
    PROVE  /\ LineOf(u, d, r) \in Seq(S)
           /\ Len(LineOf(u, d, r)) = Len(u) + 1 + Len(r)
           /\ \A i \in 1..Len(u) : LineOf(u, d, r)[i] = u[i]
           /\ LineOf(u, d, r)[Len(u) + 1] = d
<1> DEFINE n == Len(u) + 1 + Len(r)
<1>1. n \in Nat /\ Len(u) \in Nat /\ Len(r) \in Nat
  OBVIOUS
<1>2. LineOf(u, d, r) \in [1..n -> S]
  BY <1>1 DEF LineOf
<1>3. LineOf(u, d, r) \in Seq(S)
  BY <1>1, <1>2, SeqDef
<1>4. Len(LineOf(u, d, r)) = n
  BY <1>1, <1>2, <1>3, LenProperties
<1> QED
  BY <1>1, <1>3, <1>4 DEF LineOf

\* An edit after the document shown.
LEMMA LinePushed ==
    ASSUME NEW S, NEW u \in Seq(S), NEW d \in S, NEW r \in Seq(S), NEW e \in S
    PROVE  /\ Len(LineOf(Append(u, d), e, <<>>)) = Len(u) + 2
           /\ \A i \in 1..(Len(u) + 1) : LineOf(Append(u, d), e, <<>>)[i] = LineOf(u, d, r)[i]
<1> DEFINE v == Append(u, d)
           none == <<>>
<1>1. none \in Seq(S) /\ Len(none) = 0
  OBVIOUS
<1>2. /\ v \in Seq(S) /\ Len(v) = Len(u) + 1
      /\ \A i \in 1..Len(u) : v[i] = u[i]
      /\ v[Len(u) + 1] = d
  BY PushShape
<1> HIDE DEF v, none
<1>3. /\ Len(LineOf(v, e, none)) = Len(v) + 1 + Len(none)
      /\ \A i \in 1..Len(v) : LineOf(v, e, none)[i] = v[i]
  <2>1. v \in Seq(S) /\ none \in Seq(S)
    BY <1>1, <1>2
  <2> QED
    BY <2>1, LineShape
<1>4. /\ \A i \in 1..Len(u) : LineOf(u, d, r)[i] = u[i]
      /\ LineOf(u, d, r)[Len(u) + 1] = d
  BY LineShape
<1>5. Len(u) \in Nat
  OBVIOUS
<1>6. ASSUME NEW i \in 1..(Len(u) + 1)
      PROVE  LineOf(v, e, none)[i] = LineOf(u, d, r)[i]
  <2>1. CASE i \in 1..Len(u)
    BY <1>2, <1>3, <1>4, <1>5, <2>1
  <2>2. CASE i = Len(u) + 1
    BY <1>2, <1>3, <1>4, <1>5, <2>2
  <2> QED
    BY <1>5, <2>1, <2>2
<1>7. Len(LineOf(v, e, none)) = Len(u) + 2
  BY <1>1, <1>2, <1>3, <1>5
<1> QED
  BY <1>6, <1>7 DEF v, none

\* The document shown is replaced.
LEMMA LineAmended ==
    ASSUME NEW S, NEW u \in Seq(S), NEW d \in S, NEW r \in Seq(S), NEW e \in S
    PROVE  /\ Len(LineOf(u, e, <<>>)) = Len(u) + 1
           /\ \A i \in 1..Len(u) : LineOf(u, e, <<>>)[i] = LineOf(u, d, r)[i]
<1>1. ASSUME NEW x \in S, NEW q \in Seq(S)
      PROVE  /\ Len(LineOf(u, x, q)) = Len(u) + 1 + Len(q)
             /\ \A i \in 1..Len(u) : LineOf(u, x, q)[i] = u[i]
  BY <1>1, LineShape
<1>2. \A i \in 1..Len(u) : LineOf(u, d, r)[i] = u[i]
  BY <1>1
<1> DEFINE none == <<>>
<1>3. none \in Seq(S) /\ Len(none) = 0
  OBVIOUS
<1> HIDE DEF none
<1>4. /\ Len(LineOf(u, e, none)) = Len(u) + 1 + Len(none)
      /\ \A i \in 1..Len(u) : LineOf(u, e, none)[i] = u[i]
  BY <1>1, <1>3
<1>5. Len(u) \in Nat
  OBVIOUS
<1> QED
  BY <1>2, <1>3, <1>4, <1>5 DEF none

\* Undo moves a document from one stack to the other and leaves the line as it is.
LEMMA LineUndone ==
    ASSUME NEW S, NEW u \in Seq(S), NEW d \in S, NEW r \in Seq(S), u # <<>>
    PROVE  LineOf(Pop(u), u[Len(u)], Append(r, d)) = LineOf(u, d, r)
<1> DEFINE n == Len(u) + 1 + Len(r)
<1>1. /\ Len(u) \in Nat \ {0} /\ Len(r) \in Nat
      /\ Len(Pop(u)) = Len(u) - 1 /\ \A i \in 1..(Len(u) - 1) : Pop(u)[i] = u[i]
  BY PopShape
<1>2. /\ Len(Append(r, d)) = Len(r) + 1 /\ Append(r, d)[Len(r) + 1] = d
      /\ \A i \in 1..Len(r) : Append(r, d)[i] = r[i]
  BY PushShape
<1>3. Len(Pop(u)) + 1 + Len(Append(r, d)) = n
  BY <1>1, <1>2
<1>4. ASSUME NEW i \in 1..n
      PROVE  LineOf(Pop(u), u[Len(u)], Append(r, d))[i] = LineOf(u, d, r)[i]
  <2> DEFINE w == Pop(u)
             q == Append(r, d)
             e == u[Len(u)]
  <2>5. /\ Len(w) = Len(u) - 1 /\ Len(q) = Len(r) + 1
        /\ q[Len(r) + 1] = d
        /\ \A j \in 1..Len(r) : q[j] = r[j]
        /\ \A j \in 1..(Len(u) - 1) : w[j] = u[j]
        /\ e = u[Len(u)]
    BY <1>1, <1>2
  <2> HIDE DEF w, q, e
  <2>6. LineOf(w, e, q)[i] = IF i <= Len(w) THEN w[i]
                             ELSE IF i = Len(w) + 1 THEN e
                             ELSE q[Len(w) + Len(q) + 2 - i]
    BY <1>1, <2>5 DEF LineOf
  <2>7. LineOf(u, d, r)[i] = IF i <= Len(u) THEN u[i]
                             ELSE IF i = Len(u) + 1 THEN d
                             ELSE r[Len(u) + Len(r) + 2 - i]
    BY <1>1 DEF LineOf
  <2>8. LineOf(w, e, q)[i] = LineOf(u, d, r)[i]
    <3>1. CASE i <= Len(u) - 1
      BY <1>1, <2>5, <2>6, <2>7, <3>1
    <3>2. CASE i = Len(u)
      BY <1>1, <2>5, <2>6, <2>7, <3>2
    <3>3. CASE i = Len(u) + 1
      BY <1>1, <2>5, <2>6, <2>7, <3>3
    <3>4. CASE i > Len(u) + 1
      <4>1. /\ Len(u) + Len(r) + 2 - i \in 1..Len(r)
            /\ Len(w) + Len(q) + 2 - i = Len(u) + Len(r) + 2 - i
            /\ ~(i <= Len(w)) /\ i # Len(w) + 1
        BY <1>1, <2>5, <3>4
      <4> QED
        BY <2>5, <2>6, <2>7, <3>4, <4>1
    <3> QED
      BY <1>1, <3>1, <3>2, <3>3, <3>4
  <2> QED
    BY <2>8 DEF w, q, e
<1> QED
  BY <1>3, <1>4 DEF LineOf

\* So does redo, the other way round.
LEMMA LineRedone ==
    ASSUME NEW S, NEW u \in Seq(S), NEW d \in S, NEW r \in Seq(S), r # <<>>
    PROVE  LineOf(Append(u, d), r[Len(r)], Pop(r)) = LineOf(u, d, r)
<1>1. /\ Len(r) \in Nat \ {0} /\ r[Len(r)] \in S /\ Pop(r) \in Seq(S)
      /\ Len(Pop(r)) = Len(r) - 1 /\ \A i \in 1..(Len(r) - 1) : Pop(r)[i] = r[i]
  BY PopShape
<1>2. /\ Append(u, d) \in Seq(S) /\ Append(u, d) # <<>>
      /\ Len(Append(u, d)) = Len(u) + 1 /\ Append(u, d)[Len(u) + 1] = d
      /\ \A i \in 1..Len(u) : Append(u, d)[i] = u[i]
  BY PushShape
<1>3. Pop(Append(u, d)) = u
  <2> DEFINE v == Append(u, d)
  <2>1. /\ v \in Seq(S) /\ v # <<>> /\ Len(v) = Len(u) + 1
        /\ \A i \in 1..Len(u) : v[i] = u[i]
    BY <1>2
  <2>2. Len(u) \in Nat
    OBVIOUS
  <2> HIDE DEF v
  <2>3. /\ Pop(v) \in Seq(S) /\ Len(Pop(v)) = Len(v) - 1
        /\ \A i \in 1..(Len(v) - 1) : Pop(v)[i] = v[i]
    <3>1. v \in Seq(S) /\ v # <<>>
      BY <2>1
    <3> QED
      BY <3>1, PopShape
  <2>4. /\ Pop(v) \in Seq(S) /\ Len(Pop(v)) = Len(u)
        /\ \A i \in 1..Len(Pop(v)) : Pop(v)[i] = u[i]
    BY <2>1, <2>2, <2>3
  <2>5. Pop(v) = u
    BY <2>4, SeqEqual
  <2> QED
    BY <2>5 DEF v
<1>4. Append(Pop(r), r[Len(r)]) = r
  <2>1. Append(Pop(r), r[Len(r)]) \in Seq(S) /\ Len(Append(Pop(r), r[Len(r)])) = Len(r)
    BY <1>1, PushShape
  <2>2. \A i \in 1..Len(r) : Append(Pop(r), r[Len(r)])[i] = r[i]
    BY <1>1, PushShape
  <2> QED
    BY <2>1, <2>2, SeqEqual
<1>5. LineOf(Pop(Append(u, d)), Append(u, d)[Len(Append(u, d))], Append(Pop(r), r[Len(r)]))
        = LineOf(Append(u, d), r[Len(r)], Pop(r))
  BY <1>1, <1>2, LineUndone
<1> QED
  BY <1>2, <1>3, <1>4, <1>5

\* With nothing on the stacks the line is the one document.
LEMMA LineAlone == ASSUME NEW d PROVE LineOf(<<>>, d, <<>>) = <<d>>
<1> DEFINE none == <<>>
<1>1. Len(none) = 0
  OBVIOUS
<1> HIDE DEF none
<1>2. LineOf(none, d, none) = [i \in 1..1 |-> d]
  BY <1>1 DEF LineOf
<1>3. [i \in 1..1 |-> d] = <<d>>
  OBVIOUS
<1> QED
  BY <1>2, <1>3 DEF none

----------------------------------------------------------------------------
(* The invariant.                                                          *)

\* The oldest document is the empty one, so a coalesced drag, which replaces the
\* document shown, always has an older one on the stack below it.
StartsBlank == IF past = <<>> THEN ops = <<>> ELSE past[1] = <<>>

ErdInv == ErdTypeOK /\ StartsBlank /\ SendsWhatIsShown

\* The documents and the two stacks of a typed state.
LEMMA Typed ==
    ASSUME ErdTypeOK
    PROVE  /\ ops \in Seq(Ops)
           /\ past \in Seq(Seq(Ops)) /\ future \in Seq(Seq(Ops))
  BY DEF ErdTypeOK

\* A tab starts with the empty document alone.
LEMMA ErdInitInv == ErdInit => ErdInv
<1> SUFFICES ASSUME ErdInit PROVE ErdInv
  OBVIOUS
<1>1. <<>> \in Seq(Ops) /\ <<>> \in Seq(Seq(Ops))
  OBVIOUS
<1>2. ErdTypeOK
  BY <1>1 DEF ErdInit, ErdTypeOK
<1> QED
  BY <1>2 DEF ErdInit, ErdInv, StartsBlank, SendsWhatIsShown, ToApply

\* What a push of the document shown does to the stack: both kinds of edit do it.
Edited(new) ==
    /\ ops' = new
    /\ past' = Append(past, ops)
    /\ future' = <<>>

\* A push keeps the stacks typed and the empty document at the bottom.
LEMMA EditedKeeps ==
    ASSUME ErdInv, NEW new \in Seq(Ops), Edited(new)
    PROVE  /\ ops' \in Seq(Ops) /\ past' \in Seq(Seq(Ops)) /\ future' \in Seq(Seq(Ops))
           /\ StartsBlank'
<1>1. ops \in Seq(Ops) /\ past \in Seq(Seq(Ops))
  BY Typed DEF ErdInv
<1>2. /\ past' \in Seq(Seq(Ops)) /\ past' # <<>>
      /\ \A i \in 1..Len(past) : past'[i] = past[i]
      /\ past'[Len(past) + 1] = ops
  BY <1>1, PushShape DEF Edited
<1>3. StartsBlank'
  <2>1. CASE past = <<>>
    <3>1. Len(past) = 0 /\ ops = <<>>
      BY <2>1 DEF ErdInv, StartsBlank
    <3> QED
      BY <1>2, <3>1 DEF StartsBlank
  <2>2. CASE past # <<>>
    <3>1. 1 \in 1..Len(past) /\ past[1] = <<>>
      BY <1>1, <2>2, EmptySeq DEF ErdInv, StartsBlank
    <3> QED
      BY <1>2, <3>1 DEF StartsBlank
  <2> QED
    BY <2>1, <2>2
<1>4. future' \in Seq(Seq(Ops))
  BY DEF Edited
<1> QED
  BY <1>2, <1>3, <1>4 DEF Edited

\* A push is an edit of the history.
LEMMA EditedExtends ==
    ASSUME ErdInv, NEW new \in Seq(Ops), Edited(new)
    PROVE  History!Extend
<1>1. ops \in Seq(Ops) /\ past \in Seq(Seq(Ops)) /\ future \in Seq(Seq(Ops))
  BY Typed DEF ErdInv
<1>2. Len(past) \in Nat /\ Len(past') = Len(past) + 1
  BY <1>1, PushShape DEF Edited
<1>3. /\ Len(LineOf(Append(past, ops), new, <<>>)) = Len(past) + 2
      /\ \A i \in 1..(Len(past) + 1) :
            LineOf(Append(past, ops), new, <<>>)[i] = LineOf(past, ops, future)[i]
  BY <1>1, LinePushed
<1>4. Documents' = LineOf(Append(past, ops), new, <<>>)
  BY DEF Documents, Edited
<1>5. /\ Len(Documents') = Len(past) + 2
      /\ \A i \in 1..(Len(past) + 1) : Documents'[i] = Documents[i]
  BY <1>3, <1>4 DEF Documents
<1> QED
  BY <1>2, <1>5 DEF History!Extend, History!Keeps

----------------------------------------------------------------------------
(* Every step keeps the invariant and is a step of the history.            *)

\* A canvas operation, as an edit of its own or folded into the last drag.
LEMMA PushOpStep ==
    ASSUME ErdInv, NEW op \in Ops, PushOp(op)
    PROVE  ErdInv' /\ (History!Extend \/ History!Amend)
<1>1. ops \in Seq(Ops) /\ past \in Seq(Seq(Ops)) /\ future \in Seq(Seq(Ops))
  BY Typed DEF ErdInv
<1>2. SendsWhatIsShown'
  BY DEF PushOp, SendsWhatIsShown, ToApply
<1>3. CASE ~Coalesces(op)
  <2>1. Edited(Append(ops, op)) /\ Append(ops, op) \in Seq(Ops)
    BY <1>1, <1>3 DEF PushOp, Edited
  <2>2. /\ ops' \in Seq(Ops) /\ past' \in Seq(Seq(Ops)) /\ future' \in Seq(Seq(Ops))
        /\ StartsBlank' /\ History!Extend
    BY <2>1, EditedKeeps, EditedExtends
  <2>3. ErdTypeOK'
    BY <2>2 DEF PushOp, paneVars, ErdInv, ErdTypeOK
  <2> QED
    BY <1>2, <2>2, <2>3 DEF ErdInv
<1>4. CASE Coalesces(op)
  <2>1. past # <<>>
    BY <1>4 DEF ErdInv, StartsBlank, Coalesces
  <2>2. /\ ops' = [ops EXCEPT ![Len(ops)] = op]
        /\ past' = past /\ future' = <<>>
    BY <1>4 DEF PushOp
  <2>3. ops' \in Seq(Ops)
    <3>1. Len(ops) \in 1..Len(ops)
      BY <1>1, <1>4, EmptySeq DEF Coalesces
    <3> QED
      BY <1>1, <2>2, <3>1, ExceptSeq
  <2>4. ErdTypeOK'
    <3>1. /\ lastChangeBy' = "visual" /\ lastReverseText' = NoText /\ travelled' = FALSE
          /\ UNCHANGED <<astParseError, mode, typed, parsing, dialog, applying>>
      BY DEF PushOp, paneVars
    <3>2. past' \in Seq(Seq(Ops)) /\ future' \in Seq(Seq(Ops))
      BY <1>1, <2>2
    <3> QED
      BY <2>3, <3>1, <3>2 DEF ErdInv, ErdTypeOK
  <2>5. StartsBlank'
    BY <2>1, <2>2 DEF ErdInv, StartsBlank
  <2>6. History!Amend
    <3> DEFINE new == ops'
    <3>1. new \in Seq(Ops)
      BY <2>3
    <3>2. Documents' = LineOf(past, new, <<>>)
      BY <2>2 DEF Documents
    <3> HIDE DEF new
    <3>3. /\ Len(LineOf(past, new, <<>>)) = Len(past) + 1
          /\ \A i \in 1..Len(past) : LineOf(past, new, <<>>)[i] = LineOf(past, ops, future)[i]
      BY <1>1, <3>1, LineAmended
    <3>4. /\ Len(Documents') = Len(past) + 1
          /\ \A i \in 1..Len(past) : Documents'[i] = Documents[i]
      BY <3>2, <3>3 DEF Documents
    <3>5. Len(past) \in Nat \ {0}
      BY <1>1, <2>1, EmptySeq
    <3> QED
      BY <2>2, <3>4, <3>5 DEF History!Amend, History!Keeps
  <2> QED
    BY <1>2, <2>4, <2>5, <2>6 DEF ErdInv
<1> QED
  BY <1>3, <1>4

\* A parse that lands is an edit, whatever the store holds by then.
LEMMA ParseLandsStep ==
    ASSUME ErdInv, NEW t \in parsing, ParseLands(t)
    PROVE  ErdInv' /\ History!Extend
<1>1. t \in Texts \ Broken /\ Script[t] \in Seq(Ops)
  BY ErdAssumption DEF ErdInv, ErdTypeOK, ParseLands
<1>2. Edited(Script[t])
  BY DEF ParseLands, Edited
<1>3. /\ ops' \in Seq(Ops) /\ past' \in Seq(Seq(Ops)) /\ future' \in Seq(Seq(Ops))
      /\ StartsBlank' /\ History!Extend
  BY <1>1, <1>2, EditedKeeps, EditedExtends
<1>4. ErdTypeOK'
  BY <1>1, <1>3 DEF ParseLands, ErdInv, ErdTypeOK
<1>5. SendsWhatIsShown'
  BY <1>1, ErdAssumption DEF ParseLands, SendsWhatIsShown, ToApply
<1> QED
  BY <1>3, <1>4, <1>5 DEF ErdInv

\* Undo moves the cursor back and keeps every document.
LEMMA UndoStep ==
    ASSUME ErdInv, Undo
    PROVE  ErdInv' /\ History!StepBack
<1>1. /\ ops \in Seq(Ops) /\ past \in Seq(Seq(Ops)) /\ future \in Seq(Seq(Ops))
      /\ past # <<>>
  BY Typed DEF ErdInv, Undo
<1>2. /\ Len(past) \in Nat \ {0} /\ past[Len(past)] \in Seq(Ops)
      /\ Pop(past) \in Seq(Seq(Ops)) /\ Len(Pop(past)) = Len(past) - 1
      /\ \A i \in 1..(Len(past) - 1) : Pop(past)[i] = past[i]
  BY <1>1, PopShape
<1>3. /\ ops' = past[Len(past)] /\ past' = Pop(past)
      /\ future' = Append(future, ops) /\ travelled'
  BY DEF Undo
<1>4. ErdTypeOK'
  BY <1>1, <1>2, <1>3 DEF Undo, paneVars, ErdInv, ErdTypeOK
<1>5. StartsBlank'
  <2>1. past[1] = <<>>
    BY <1>1 DEF ErdInv, StartsBlank
  <2>2. CASE past' = <<>>
    <3>1. Len(past') = 0
      BY <2>2
    <3>2. Len(past) = 1
      BY <1>2, <1>3, <3>1
    <3>3. ops' = <<>>
      BY <1>3, <2>1, <3>2
    <3> QED
      BY <2>2, <3>3 DEF StartsBlank
  <2>3. CASE past' # <<>>
    <3>1. Len(past') \in Nat \ {0}
      BY <1>2, <1>3, <2>3, EmptySeq
    <3> QED
      BY <1>2, <1>3, <2>1, <2>3, <3>1 DEF StartsBlank
  <2> QED
    BY <2>2, <2>3
<1>6. History!StepBack
  <2>1. Documents' = Documents
    BY <1>1, <1>3, LineUndone DEF Documents
  <2> QED
    BY <1>2, <1>3, <2>1 DEF History!StepBack
<1> QED
  BY <1>3, <1>4, <1>5, <1>6 DEF ErdInv, SendsWhatIsShown

\* Redo moves it forward again.
LEMMA RedoStep ==
    ASSUME ErdInv, Redo
    PROVE  ErdInv' /\ History!StepForward
<1>1. /\ ops \in Seq(Ops) /\ past \in Seq(Seq(Ops)) /\ future \in Seq(Seq(Ops))
      /\ future # <<>>
  BY Typed DEF ErdInv, Redo
<1>2. /\ Len(future) \in Nat \ {0} /\ future[Len(future)] \in Seq(Ops)
      /\ Pop(future) \in Seq(Seq(Ops))
  BY <1>1, PopShape
<1>3. /\ ops' = future[Len(future)] /\ past' = Append(past, ops)
      /\ future' = Pop(future) /\ travelled'
  BY DEF Redo
<1>4. /\ past' \in Seq(Seq(Ops)) /\ past' # <<>> /\ Len(past') = Len(past) + 1
      /\ \A i \in 1..Len(past) : past'[i] = past[i]
      /\ past'[Len(past) + 1] = ops
  <2>1. ops \in Seq(Ops) /\ past \in Seq(Seq(Ops)) /\ past' = Append(past, ops)
    BY <1>1, <1>3
  <2> QED
    BY ONLY <2>1, PushShape
<1>5. ErdTypeOK'
  BY <1>2, <1>3, <1>4 DEF Redo, paneVars, ErdInv, ErdTypeOK
<1>6. StartsBlank'
  <2>1. CASE past = <<>>
    <3>1. Len(past) = 0 /\ ops = <<>>
      BY <2>1 DEF ErdInv, StartsBlank
    <3> QED
      BY <1>4, <3>1 DEF StartsBlank
  <2>2. CASE past # <<>>
    <3>1. 1 \in 1..Len(past) /\ past[1] = <<>>
      BY <1>1, <2>2, EmptySeq DEF ErdInv, StartsBlank
    <3> QED
      BY <1>4, <3>1 DEF StartsBlank
  <2> QED
    BY <2>1, <2>2
<1>7. History!StepForward
  <2>1. Documents' = Documents
    BY <1>1, <1>3, LineRedone DEF Documents
  <2>2. Len(Documents) = Len(past) + 1 + Len(future) /\ Len(past) \in Nat
    BY <1>1, LineShape DEF Documents
  <2> QED
    BY <1>2, <1>4, <2>1, <2>2 DEF History!StepForward
<1> QED
  BY <1>3, <1>5, <1>6, <1>7 DEF ErdInv, SendsWhatIsShown

\* A discard, asked for or after an Apply that went through, forgets the line.
LEMMA DiscardedStep ==
    ASSUME Discarded
    PROVE  /\ ops' \in Seq(Ops) /\ past' \in Seq(Seq(Ops)) /\ future' \in Seq(Seq(Ops))
           /\ StartsBlank' /\ SendsWhatIsShown' /\ History!Forget
<1>1. ops' = <<>> /\ past' = <<>> /\ future' = <<>> /\ lastChangeBy' = "none"
  BY DEF Discarded
<1>2. StartsBlank' /\ SendsWhatIsShown'
  BY <1>1 DEF StartsBlank, SendsWhatIsShown, ToApply
<1>3. Documents' = << <<>> >>
  BY <1>1, LineAlone DEF Documents
<1>4. Len(past') = 0
  BY <1>1
<1>5. History!Forget
  BY <1>3, <1>4 DEF History!Forget
<1> QED
  BY <1>1, <1>2, <1>5

\* The steps that leave the operations and the two stacks alone.
LEMMA StoreUntouched ==
    ASSUME ErdInv, UNCHANGED <<ops, past, future, lastChangeBy, lastReverseText, travelled>>
    PROVE  /\ StartsBlank' /\ SendsWhatIsShown'
           /\ UNCHANGED <<Documents, Len(past) + 1>>
  BY DEF ErdInv, StartsBlank, SendsWhatIsShown, ToApply, Documents

\* Every step of the tab keeps the invariant and is a step of the history or none.
LEMMA ErdNextStep ==
    ASSUME ErdInv, [ErdNext]_erdVars
    PROVE  ErdInv' /\ [History!HistoryNext]_<<Documents, Len(past) + 1>>
<1> USE DEF History!HistoryNext
<1>1. ASSUME NEW op \in Ops, PushOp(op)
      PROVE  ErdInv' /\ History!HistoryNext
  BY <1>1, PushOpStep
<1>2. CASE Undo
  BY <1>2, UndoStep
<1>3. CASE Redo
  BY <1>3, RedoStep
<1>4. ASSUME NEW t \in parsing, ParseLands(t)
      PROVE  ErdInv' /\ History!HistoryNext
  BY <1>4, ParseLandsStep
<1>5. CASE ConfirmDiscard
  <2>1. Discarded
    BY <1>5 DEF ConfirmDiscard
  <2>2. ErdTypeOK'
    BY <1>5, <2>1, DiscardedStep DEF ConfirmDiscard, Discarded, ErdInv, ErdTypeOK
  <2> QED
    BY <2>1, <2>2, DiscardedStep DEF ErdInv
<1>6. ASSUME NEW s \in applying, ApplySucceeds(s)
      PROVE  ErdInv' /\ History!HistoryNext
  <2>1. Discarded
    BY <1>6 DEF ApplySucceeds
  <2>2. ErdTypeOK'
    BY <1>6, <2>1, DiscardedStep DEF ApplySucceeds, Discarded, ErdInv, ErdTypeOK
  <2> QED
    BY <2>1, <2>2, DiscardedStep DEF ErdInv
<1>7. CASE \/ ToggleMode
           \/ \E t \in Texts : TypeText(t)
           \/ StartParse
           \/ \E t \in parsing : ParseFails(t)
           \/ \E which \in {"apply", "discard"} : OpenDialog(which)
           \/ CloseDialog
           \/ ConfirmApply
           \/ \E s \in applying : ApplyFails(s)
           \/ UNCHANGED erdVars
  <2>1. UNCHANGED <<ops, past, future, lastChangeBy, lastReverseText, travelled>>
    BY <1>7 DEF ToggleMode, TypeText, StartParse, ParseFails, OpenDialog, CloseDialog,
                ConfirmApply, ApplyFails, storeVars, erdVars
  <2>2. ToApply \in Seq(Ops)
    BY ErdAssumption DEF ToApply, ErdInv, ErdTypeOK
  <2>3. ErdTypeOK'
    <3> USE DEF storeVars, ErdInv, ErdTypeOK
    <3>1. CASE ToggleMode
      BY <3>1 DEF ToggleMode
    <3>2. CASE \E t \in Texts : TypeText(t)
      BY <3>2 DEF TypeText
    <3>3. CASE StartParse
      BY <3>3 DEF StartParse
    <3>4. CASE \E t \in parsing : ParseFails(t)
      BY <3>4 DEF ParseFails
    <3>5. CASE \E which \in {"apply", "discard"} : OpenDialog(which)
      BY <3>5 DEF OpenDialog
    <3>6. CASE CloseDialog
      BY <3>6 DEF CloseDialog
    <3>7. CASE ConfirmApply
      BY <3>7, <2>2 DEF ConfirmApply
    <3>8. CASE \E s \in applying : ApplyFails(s)
      BY <3>8 DEF ApplyFails
    <3>9. CASE UNCHANGED erdVars
      BY <3>9 DEF erdVars
    <3> QED
      BY <1>7, <3>1, <3>2, <3>3, <3>4, <3>5, <3>6, <3>7, <3>8, <3>9
  <2> QED
    BY <2>1, <2>3, StoreUntouched DEF ErdInv
<1> QED
  BY <1>1, <1>2, <1>3, <1>4, <1>5, <1>6, <1>7 DEF ErdNext

----------------------------------------------------------------------------
(* The theorems.                                                           *)

\* The invariant holds in every reachable state.
THEOREM ErdInvariance == ErdSpec => []ErdInv
<1>1. ErdInv /\ [ErdNext]_erdVars => ErdInv'
  BY ErdNextStep
<1> QED
  BY ErdInitInv, <1>1, PTL DEF ErdSpec

\* Every variable of the edit store and of the pane keeps its type.
THEOREM ErdTypeCorrect == ErdSpec => []ErdTypeOK
<1>1. ErdInv => ErdTypeOK
  BY DEF ErdInv
<1> QED
  BY ErdInvariance, <1>1, PTL

\* Apply sends what the canvas shows until the user walks the history: no late parse and
\* no coalesced drag pairs the operations of one script with the text of another.
THEOREM AppliesWhatIsShown == ErdSpec => []SendsWhatIsShown
<1>1. ErdInv => SendsWhatIsShown
  BY DEF ErdInv
<1> QED
  BY ErdInvariance, <1>1, PTL

\* The two stacks implement one linear history: the store refines EditHistory.
THEOREM ImplementsHistory == ErdSpec => LinearUndo
<1>1. ErdInit => History!HistoryInit
  <2> SUFFICES ASSUME ErdInit PROVE History!HistoryInit
    OBVIOUS
  <2>1. past = <<>> /\ ops = <<>> /\ future = <<>> /\ Len(past) = 0
    BY DEF ErdInit
  <2> QED
    BY <2>1, LineAlone DEF History!HistoryInit, Documents
<1>2. ErdInv /\ [ErdNext]_erdVars => [History!HistoryNext]_<<Documents, Len(past) + 1>>
  BY ErdNextStep
<1> QED
  BY ErdInvariance, <1>1, <1>2, PTL DEF ErdSpec, LinearUndo, History!HistorySpec

----------------------------------------------------------------------------
(* The script that Apply sends.  First: the functions that walk the log    *)
(* satisfy the equations they are defined by.                              *)

\* Every set of numbers that is not empty has a least one.
LEMMA LeastNumber ==
    ASSUME NEW S \in SUBSET Nat, S # {}
    PROVE  \E m \in S : \A n \in S : m <= n
<1>1. ASSUME NEW R, IsWellFoundedOn(R, Nat), \A m, n \in Nat : n < m => <<n, m>> \in R
      PROVE  \E m \in S : \A n \in S : m <= n
  <2>1. PICK m \in S : \A n \in S : ~ (<<n, m>> \in R)
    BY <1>1, WFMin
  <2>2. \A n \in S : ~ (n < m)
    BY <1>1, <2>1
  <2> QED
    BY <2>2
<1>2. \A m, n \in Nat : n < m => <<n, m>> \in OpToRel(<, Nat)
  BY DEF OpToRel
<1> QED
  BY <1>1, <1>2, NatLessThanWellFounded, Zenon

\* What holds at the start and is kept by every step holds at the end.
LEMMA StepByStep ==
    ASSUME NEW last \in Nat, NEW S, 0 \in S, \A n \in 0..(last - 1) : n \in S => n + 1 \in S
    PROVE  \A n \in 0..last : n \in S
<1> DEFINE T == {n \in 0..last : n \notin S}
<1>1. SUFFICES ASSUME T # {} PROVE FALSE
  OBVIOUS
<1>2. PICK m \in T : \A n \in T : m <= n
  <2>1. T \in SUBSET Nat
    OBVIOUS
  <2> HIDE DEF T
  <2> QED
    BY <1>1, <2>1, LeastNumber
<1>3. m \in 1..last /\ m \notin S /\ m - 1 \in 0..last /\ ~(m <= m - 1)
  BY <1>2
<1>4. m - 1 \in S
  BY <1>2, <1>3
<1>5. m - 1 \in 0..(last - 1) /\ (m - 1) + 1 = m
  BY <1>3
<1> QED
  BY <1>3, <1>4, <1>5

\* The loop of applyOps does what it says (applyOps.ts: applyOps).
LEMMA PlayedIs ==
    ASSUME Len(log) \in Nat
    PROVE  Played = [n \in 0..Len(log) |-> IF n = 0 THEN BaseGraph ELSE ApplyOp(Played[n - 1], n)]
<1> DEFINE Upto(f, m) == f = [n \in 0..m |-> IF n = 0 THEN BaseGraph ELSE ApplyOp(f[n - 1], n)]
           S == {m \in 0..Len(log) : \E f : Upto(f, m)}
<1>1. 0 \in S
  <2> DEFINE f == [n \in 0..0 |-> BaseGraph]
  <2>1. Upto(f, 0)
    OBVIOUS
  <2>2. \E h : Upto(h, 0)
    BY <2>1
  <2> QED
    BY <2>2
<1>2. ASSUME NEW k \in 0..(Len(log) - 1), k \in S
      PROVE  k + 1 \in S
  <2>1. PICK f : Upto(f, k)
    BY <1>2
  <2> DEFINE m == k + 1
             g == [n \in 0..m |-> IF n = m THEN ApplyOp(f[k], m) ELSE f[n]]
  <2>2. m \in 1..Len(log) /\ m - 1 = k /\ \A n \in 0..k : g[n] = f[n]
    OBVIOUS
  <2>3. \A n \in 0..m : g[n] = IF n = 0 THEN BaseGraph ELSE ApplyOp(g[n - 1], n)
    <3> TAKE n \in 0..m
    <3>1. CASE n = m
      BY <3>1, <2>2
    <3>2. CASE n # m
      <4>1. g[n] = f[n] /\ n \in 0..k /\ (n # 0 => g[n - 1] = f[n - 1])
        BY <3>2, <2>2
      <4> QED
        BY <4>1, <2>1
    <3> QED
      BY <3>1, <3>2
  <2>4. Upto(g, m)
    BY <2>3
  <2>5. \E h : Upto(h, m)
    BY <2>4
  <2> HIDE DEF Upto, m, g
  <2> QED
    BY <2>2, <2>5 DEF m
<1> HIDE DEF S
<1>3. Len(log) \in S
  <2>1. \A k \in 0..(Len(log) - 1) : k \in S => k + 1 \in S
    BY <1>2
  <2>2. \A m \in 0..Len(log) : m \in S
    BY <1>1, <2>1, StepByStep
  <2> QED
    BY <2>2
<1>4. \E f : Upto(f, Len(log))
  BY <1>3 DEF S
<1> QED
  BY <1>4 DEF Played

\* So does the loop of generateDdl for a group of statements, run by PostgreSQL.
LEMMA AfterIs ==
    ASSUME Len(log) \in Nat, NEW group, NEW db
    PROVE  After(group, db) =
             [n \in 0..Len(log) |-> IF n = 0 THEN db ELSE Exec(After(group, db)[n - 1], Statement(group, n))]
<1> DEFINE Upto(f, m) == f = [n \in 0..m |-> IF n = 0 THEN db ELSE Exec(f[n - 1], Statement(group, n))]
           S == {m \in 0..Len(log) : \E f : Upto(f, m)}
<1>1. 0 \in S
  <2> DEFINE f == [n \in 0..0 |-> db]
  <2>1. Upto(f, 0)
    OBVIOUS
  <2>2. \E h : Upto(h, 0)
    BY <2>1
  <2> QED
    BY <2>2
<1>2. ASSUME NEW k \in 0..(Len(log) - 1), k \in S
      PROVE  k + 1 \in S
  <2>1. PICK f : Upto(f, k)
    BY <1>2
  <2> DEFINE m == k + 1
             g == [n \in 0..m |-> IF n = m THEN Exec(f[k], Statement(group, m)) ELSE f[n]]
  <2>2. m \in 1..Len(log) /\ m - 1 = k /\ \A n \in 0..k : g[n] = f[n]
    OBVIOUS
  <2>3. \A n \in 0..m : g[n] = IF n = 0 THEN db ELSE Exec(g[n - 1], Statement(group, n))
    <3> TAKE n \in 0..m
    <3>1. CASE n = m
      BY <3>1, <2>2
    <3>2. CASE n # m
      <4>1. g[n] = f[n] /\ n \in 0..k /\ (n # 0 => g[n - 1] = f[n - 1])
        BY <3>2, <2>2
      <4> QED
        BY <4>1, <2>1
    <3> QED
      BY <3>1, <3>2
  <2>4. Upto(g, m)
    BY <2>3
  <2>5. \E h : Upto(h, m)
    BY <2>4
  <2> HIDE DEF Upto, m, g
  <2> QED
    BY <2>2, <2>5 DEF m
<1> HIDE DEF S
<1>3. Len(log) \in S
  <2>1. \A k \in 0..(Len(log) - 1) : k \in S => k + 1 \in S
    BY <1>2
  <2>2. \A m \in 0..Len(log) : m \in S
    BY <1>1, <2>1, StepByStep
  <2> QED
    BY <2>2
<1>4. \E f : Upto(f, Len(log))
  BY <1>3 DEF S
<1> QED
  BY <1>4 DEF After

\* And the loop that finds the name of a table (ddlGen.ts: resolveTableSchemaName).
LEMMA FollowedIs ==
    ASSUME Len(log) \in Nat, NEW t
    PROVE  Followed(t) =
             [n \in 0..Len(log) |->
                IF n = 0 THEN t.name
                ELSE Follow(Followed(t)[n - 1], n)]
<1> DEFINE Upto(f, m) == f = [n \in 0..m |-> IF n = 0 THEN t.name ELSE Follow(f[n - 1], n)]
           S == {m \in 0..Len(log) : \E f : Upto(f, m)}
<1>1. 0 \in S
  <2> DEFINE f == [n \in 0..0 |-> t.name]
  <2>1. Upto(f, 0)
    OBVIOUS
  <2>2. \E h : Upto(h, 0)
    BY <2>1
  <2> QED
    BY <2>2
<1>2. ASSUME NEW k \in 0..(Len(log) - 1), k \in S
      PROVE  k + 1 \in S
  <2>1. PICK f : Upto(f, k)
    BY <1>2
  <2> DEFINE m == k + 1
             g == [n \in 0..m |-> IF n = m THEN Follow(f[k], m) ELSE f[n]]
  <2>2. m \in 1..Len(log) /\ m - 1 = k /\ \A n \in 0..k : g[n] = f[n]
    OBVIOUS
  <2>3. \A n \in 0..m : g[n] = IF n = 0 THEN t.name ELSE Follow(g[n - 1], n)
    <3> TAKE n \in 0..m
    <3>1. CASE n = m
      BY <3>1, <2>2
    <3>2. CASE n # m
      <4>1. g[n] = f[n] /\ n \in 0..k /\ (n # 0 => g[n - 1] = f[n - 1])
        BY <3>2, <2>2
      <4> QED
        BY <4>1, <2>1
    <3> QED
      BY <3>1, <3>2
  <2>4. Upto(g, m)
    BY <2>3
  <2>5. \E h : Upto(h, m)
    BY <2>4
  <2> HIDE DEF Upto, m, g
  <2> QED
    BY <2>2, <2>5 DEF m
<1> HIDE DEF S
<1>3. Len(log) \in S
  <2>1. \A k \in 0..(Len(log) - 1) : k \in S => k + 1 \in S
    BY <1>2
  <2>2. \A m \in 0..Len(log) : m \in S
    BY <1>1, <2>1, StepByStep
  <2> QED
    BY <2>2
<1>4. \E f : Upto(f, Len(log))
  BY <1>3 DEF S
<1> QED
  BY <1>4 DEF Followed

----------------------------------------------------------------------------
(* What the log says of the graph after its first operations.              *)

Tables(n) ==
    {Base(x) : x \in BaseTables} \cup {New(i) : i \in {j \in 1..n : log[j].kind = "addTable"}}

Columns(t, n) ==
    (IF IsBase(t) THEN {Base(x) : x \in BaseColumns[t.name]} ELSE {t})
    \cup {New(i) : i \in {j \in 1..n : log[j].kind = "addColumn" /\ log[j].table = t}}

TableRenames(t, n) == {j \in 1..n : log[j].kind = "renameTable" /\ log[j].table = t}

ColumnRenames(t, c, n) ==
    {j \in 1..n : log[j].kind = "renameColumn" /\ log[j].table = t /\ log[j].column = c}

TableName(t, n) == LastName(IF IsBase(t) THEN t.name ELSE log[t.op].name, TableRenames(t, n))

FirstColumn(c) ==
    IF IsBase(c) THEN c.name ELSE IF log[c.op].kind = "addTable" THEN KeyName ELSE log[c.op].name

ColumnName(t, c, n) == LastName(FirstColumn(c), ColumnRenames(t, c, n))

Fks(n) ==
    {[from |-> log[i].table, column |-> log[i].column, to |-> log[i].target] :
        i \in {j \in 1..n : log[j].kind = "addFk"}}

Row(t, n) == [name |-> TableName(t, n), columns |-> [c \in Columns(t, n) |-> ColumnName(t, c, n)]]

GraphAfter(n) == [tables |-> [t \in Tables(n) |-> Row(t, n)], fks |-> Fks(n)]

\* What an operation refers to is of the base or was added by an earlier one.
RefersBack ==
    \A i \in DOMAIN log :
        /\ log[i].kind # "addTable" => log[i].table \in Tables(i - 1)
        /\ log[i].kind \in {"renameColumn", "addFk"} => log[i].column \in Columns(log[i].table, i - 1)
        /\ log[i].kind = "addFk" => log[i].target \in Tables(i - 1) /\ log[i].target # log[i].table

DdlInv == DdlTypeOK /\ RefersBack

\* The operations are of five kinds, and their number is bounded.
LEMMA OpKinds ==
    ASSUME DdlTypeOK
    PROVE  /\ Len(log) \in Nat /\ DOMAIN log = 1..Len(log)
           /\ \A i \in 1..Len(log) :
                 /\ log[i].kind \in {"addTable", "addColumn", "renameTable", "renameColumn", "addFk"}
                 /\ log[i].kind \in {"addTable", "addColumn", "renameTable", "renameColumn"} =>
                       log[i].name \in STRING
<1>1. log \in Seq(CanvasOps)
  BY DEF DdlTypeOK
<1>2. \A op \in CanvasOps :
         /\ op.kind \in {"addTable", "addColumn", "renameTable", "renameColumn", "addFk"}
         /\ op.kind \in {"addTable", "addColumn", "renameTable", "renameColumn"} => op.name \in STRING
  BY DEF CanvasOps
<1>3. Len(log) \in Nat /\ DOMAIN log = 1..Len(log) /\ \A i \in 1..Len(log) : log[i] \in CanvasOps
  BY <1>1
<1> QED
  BY <1>2, <1>3

\* References to the base and to what was added are told apart, and tell what they refer to.
LEMMA RefsApart ==
    /\ \A x : IsBase(Base(x)) /\ Base(x).name = x /\ Base(x).op = 0
    /\ \A x, y : Base(x) = Base(y) => x = y
    /\ \A i \in Nat \ {0} : ~IsBase(New(i)) /\ New(i).op = i
    /\ \A i, j \in Nat \ {0} : New(i) = New(j) => i = j
    /\ \A x : \A i \in Nat \ {0} : Base(x) # New(i)
  BY DEF IsBase, Base, New

\* The name a thing has last is the one the last of its renames gave.
LEMMA LastNameIs ==
    ASSUME NEW first, NEW R \in SUBSET Nat, NEW n \in R, \A j \in R : j <= n
    PROVE  LastName(first, R) = log[n].name
<1>1. \E x \in R : \A y \in R : x >= y
  OBVIOUS
<1>2. Max(R) \in R /\ \A y \in R : Max(R) >= y
  BY <1>1 DEF Max
<1>3. Max(R) = n
  <2>1. Max(R) \in Nat /\ n \in Nat /\ Max(R) >= n /\ Max(R) <= n
    BY <1>2
  <2> QED
    BY <2>1
<1> QED
  BY <1>3 DEF LastName

\* One more operation renames a table, or does not.
LEMMA NextTableName ==
    ASSUME NEW t, NEW n \in Nat \ {0}
    PROVE  /\ log[n].kind = "renameTable" /\ log[n].table = t => TableName(t, n) = log[n].name
           /\ ~(log[n].kind = "renameTable" /\ log[n].table = t) => TableName(t, n) = TableName(t, n - 1)
<1>1. CASE log[n].kind = "renameTable" /\ log[n].table = t
  <2>1. TableRenames(t, n) \in SUBSET Nat /\ n \in TableRenames(t, n) /\ \A j \in TableRenames(t, n) : j <= n
    BY <1>1 DEF TableRenames
  <2> QED
    BY <1>1, <2>1, LastNameIs DEF TableName
<1>2. CASE ~(log[n].kind = "renameTable" /\ log[n].table = t)
  <2>1. TableRenames(t, n) = TableRenames(t, n - 1)
    BY <1>2 DEF TableRenames
  <2> QED
    BY <1>2, <2>1 DEF TableName
<1> QED
  BY <1>1, <1>2

\* One more operation renames a column, or does not.
LEMMA NextColumnName ==
    ASSUME NEW t, NEW c, NEW n \in Nat \ {0}
    PROVE  /\ log[n].kind = "renameColumn" /\ log[n].table = t /\ log[n].column = c =>
                 ColumnName(t, c, n) = log[n].name
           /\ ~(log[n].kind = "renameColumn" /\ log[n].table = t /\ log[n].column = c) =>
                 ColumnName(t, c, n) = ColumnName(t, c, n - 1)
<1>1. CASE log[n].kind = "renameColumn" /\ log[n].table = t /\ log[n].column = c
  <2>1. /\ ColumnRenames(t, c, n) \in SUBSET Nat /\ n \in ColumnRenames(t, c, n)
        /\ \A j \in ColumnRenames(t, c, n) : j <= n
    BY <1>1 DEF ColumnRenames
  <2> QED
    BY <1>1, <2>1, LastNameIs DEF ColumnName
<1>2. CASE ~(log[n].kind = "renameColumn" /\ log[n].table = t /\ log[n].column = c)
  <2>1. ColumnRenames(t, c, n) = ColumnRenames(t, c, n - 1)
    BY <1>2 DEF ColumnRenames
  <2> QED
    BY <1>2, <2>1 DEF ColumnName
<1> QED
  BY <1>1, <1>2

\* Before an operation nothing refers to what it adds.
LEMMA NotYetNamed ==
    ASSUME DdlInv, NEW n \in 1..Len(log)
    PROVE  /\ New(n) \notin Tables(n - 1)
           /\ \A t \in Tables(n - 1) : New(n) \notin Columns(t, n - 1)
           /\ \A i \in 1..n : log[i].kind # "addTable" => log[i].table # New(n)
           /\ \A i \in 1..n : log[i].kind = "renameColumn" => log[i].column # New(n)
           /\ \A i \in Nat : i < n => Columns(New(n), i) = {New(n)}
<1>1. Len(log) \in Nat /\ DOMAIN log = 1..Len(log)
  BY OpKinds DEF DdlInv
<1>2. New(n) \notin Tables(n - 1)
  BY <1>1, RefsApart DEF Tables
<1>3. ASSUME NEW t \in Tables(n - 1) PROVE New(n) \notin Columns(t, n - 1)
  BY <1>1, <1>2, <1>3, RefsApart DEF Columns
<1>4. ASSUME NEW i \in 1..n, log[i].kind # "addTable"
      PROVE  log[i].table # New(n) /\ log[i].table \in Tables(i - 1) /\ Tables(i - 1) \subseteq Tables(n - 1)
  <2>1. log[i].table \in Tables(i - 1)
    BY <1>1, <1>4 DEF DdlInv, RefersBack
  <2>2. Tables(i - 1) \subseteq Tables(n - 1)
    BY <1>1 DEF Tables
  <2> QED
    BY <1>2, <2>1, <2>2
<1>5. ASSUME NEW i \in 1..n, log[i].kind = "renameColumn" PROVE log[i].column # New(n)
  <2>1. log[i].column \in Columns(log[i].table, i - 1)
    BY <1>1, <1>5 DEF DdlInv, RefersBack
  <2>2. Columns(log[i].table, i - 1) \subseteq Columns(log[i].table, n - 1)
    BY <1>1 DEF Columns
  <2>3. log[i].table \in Tables(n - 1)
    BY <1>4, <1>5
  <2> QED
    BY <1>3, <2>1, <2>2, <2>3
<1>6. ASSUME NEW i \in Nat, i < n PROVE Columns(New(n), i) = {New(n)}
  <2>1. \A j \in 1..i : ~(log[j].kind = "addColumn" /\ log[j].table = New(n))
    BY <1>1, <1>4, <1>6
  <2> QED
    BY <1>1, <2>1, RefsApart DEF Columns
<1> QED
  BY <1>2, <1>3, <1>4, <1>5, <1>6

\* The graph before the operations.
LEMMA GraphFirst == BaseGraph = GraphAfter(0)
<1>1. Tables(0) = {Base(x) : x \in BaseTables} /\ Fks(0) = {}
  BY DEF Tables, Fks
<1>2. ASSUME NEW x \in BaseTables
      PROVE  /\ Columns(Base(x), 0) = {Base(c) : c \in BaseColumns[x]}
             /\ TableName(Base(x), 0) = Base(x).name
             /\ \A c \in Columns(Base(x), 0) : ColumnName(Base(x), c, 0) = c.name
  <2>1. Columns(Base(x), 0) = {Base(c) : c \in BaseColumns[x]}
    BY RefsApart DEF Columns
  <2>2. TableRenames(Base(x), 0) = {} /\ \A c : ColumnRenames(Base(x), c, 0) = {}
    BY DEF TableRenames, ColumnRenames
  <2>3. TableName(Base(x), 0) = Base(x).name
    BY <2>2, RefsApart DEF TableName, LastName
  <2>4. ASSUME NEW c \in Columns(Base(x), 0) PROVE ColumnName(Base(x), c, 0) = c.name
    <3>1. IsBase(c)
      BY <2>1, RefsApart
    <3> QED
      BY <2>2, <3>1 DEF ColumnName, FirstColumn, LastName
  <2> QED
    BY <2>1, <2>3, <2>4
<1>3. ASSUME NEW t \in Tables(0)
      PROVE  /\ TableName(t, 0) = t.name
             /\ [c \in Columns(t, 0) |-> ColumnName(t, c, 0)] = [c \in {Base(n) : n \in BaseColumns[t.name]} |-> c.name]
  <2>1. PICK x \in BaseTables : t = Base(x)
    BY <1>1
  <2>2. Columns(t, 0) = {Base(n) : n \in BaseColumns[t.name]}
    BY <1>2, <2>1, RefsApart
  <2> QED
    BY <1>2, <2>1, <2>2
<1>4. GraphAfter(0).tables = BaseGraph.tables
  BY <1>1, <1>3 DEF GraphAfter, Row, BaseGraph
<1> QED
  BY <1>1, <1>4 DEF GraphAfter, BaseGraph

\* An operation leaves the tables and columns alone that it does not name.
LEMMA OthersKept ==
    ASSUME DdlInv, NEW n \in 1..Len(log)
    PROVE  /\ log[n].kind = "addTable" => Tables(n) = Tables(n - 1) \cup {New(n)}
           /\ log[n].kind # "addTable" => Tables(n) = Tables(n - 1) /\ log[n].table \in Tables(n - 1)
           /\ log[n].kind # "addFk" => Fks(n) = Fks(n - 1)
           /\ \A t : log[n].kind \in {"addTable", "addFk"} \/ log[n].table # t => Row(t, n) = Row(t, n - 1)
<1>0. Len(log) \in Nat /\ DOMAIN log = 1..Len(log) /\ n \in Nat \ {0}
  BY OpKinds DEF DdlInv
<1>1. /\ log[n].kind = "addTable" => Tables(n) = Tables(n - 1) \cup {New(n)}
      /\ log[n].kind # "addTable" => Tables(n) = Tables(n - 1)
  BY <1>0 DEF Tables
<1>2. log[n].kind # "addTable" => log[n].table \in Tables(n - 1)
  BY <1>0 DEF DdlInv, RefersBack
<1>3. log[n].kind # "addFk" => Fks(n) = Fks(n - 1)
  BY <1>0 DEF Fks
<1>4. ASSUME NEW t, log[n].kind \in {"addTable", "addFk"} \/ log[n].table # t
      PROVE  Row(t, n) = Row(t, n - 1)
  <2>1. TableName(t, n) = TableName(t, n - 1)
    BY <1>0, <1>4, NextTableName
  <2>2. \A c : ColumnName(t, c, n) = ColumnName(t, c, n - 1)
    BY <1>0, <1>4, NextColumnName
  <2>3. Columns(t, n) = Columns(t, n - 1)
    BY <1>0, <1>4 DEF Columns
  <2> QED
    BY <2>1, <2>2, <2>3 DEF Row
<1> QED
  BY <1>1, <1>2, <1>3, <1>4

\* One row of the graph is another, and the rest is as it was.
LEMMA OneRowPlayed ==
    ASSUME DdlInv, NEW n \in 1..Len(log), log[n].kind \in {"addColumn", "renameTable", "renameColumn"}
    PROVE  LET t == log[n].table
               g == GraphAfter(n - 1)
           IN  /\ Row(t, n - 1) = g.tables[t]
               /\ \A x : Row(t, n) = [Row(t, n - 1) EXCEPT !.name = x] =>
                         GraphAfter(n) = [g EXCEPT !.tables[t].name = x]
               /\ \A x : Row(t, n) = [Row(t, n - 1) EXCEPT !.columns = x] =>
                         GraphAfter(n) = [g EXCEPT !.tables[t].columns = x]
               /\ \A c, x : Row(t, n) = [Row(t, n - 1) EXCEPT !.columns[c] = x] =>
                         GraphAfter(n) = [g EXCEPT !.tables[t].columns[c] = x]
<1> DEFINE t == log[n].table
           D == Tables(n - 1)
           f == [u \in D |-> Row(u, n - 1)]
           fks == Fks(n - 1)
           h == [tables |-> f, fks |-> fks]
           With(row) == [tables |-> [f EXCEPT ![t] = row], fks |-> fks]
<1>1. /\ Tables(n) = D /\ t \in D /\ Fks(n) = fks
      /\ \A u : u # t => Row(u, n) = Row(u, n - 1)
  BY OthersKept
<1>2. GraphAfter(n - 1) = h /\ f[t] = Row(t, n - 1) /\ GraphAfter(n - 1).tables[t] = Row(t, n - 1)
  BY <1>1 DEF GraphAfter
<1>3. GraphAfter(n) = With(Row(t, n))
  <2>1. [u \in D |-> Row(u, n)] = [f EXCEPT ![t] = Row(t, n)]
    BY <1>1
  <2> QED
    BY <1>1, <2>1 DEF GraphAfter
<1>4. \A y : [h EXCEPT !.tables = y] = [tables |-> y, fks |-> fks]
  <2> HIDE DEF f, fks
  <2> QED
    OBVIOUS
<1>5. ASSUME NEW x, Row(t, n) = [Row(t, n - 1) EXCEPT !.name = x]
      PROVE  GraphAfter(n) = [GraphAfter(n - 1) EXCEPT !.tables[t].name = x]
  <2>1. [h EXCEPT !.tables[t].name = x] = With([f[t] EXCEPT !.name = x])
    <3> HIDE DEF t, f, fks
    <3>1. [h EXCEPT !.tables[t].name = x] = [h EXCEPT !.tables = [f EXCEPT ![t] = [f[t] EXCEPT !.name = x]]]
      OBVIOUS
    <3> HIDE DEF h
    <3> QED
      BY <1>4, <3>1, Zenon
  <2> HIDE DEF t, D, f, fks, h, With
  <2>2. Row(t, n) = [f[t] EXCEPT !.name = x]
    BY <1>2, <1>5, Zenon
  <2>3. GraphAfter(n) = [h EXCEPT !.tables[t].name = x]
    BY <1>3, <2>1, <2>2, Zenon
  <2> QED
    BY <1>2, <2>3, Zenon
<1>6. ASSUME NEW x, Row(t, n) = [Row(t, n - 1) EXCEPT !.columns = x]
      PROVE  GraphAfter(n) = [GraphAfter(n - 1) EXCEPT !.tables[t].columns = x]
  <2>1. [h EXCEPT !.tables[t].columns = x] = With([f[t] EXCEPT !.columns = x])
    <3> HIDE DEF t, f, fks
    <3>1. [h EXCEPT !.tables[t].columns = x] = [h EXCEPT !.tables = [f EXCEPT ![t] = [f[t] EXCEPT !.columns = x]]]
      OBVIOUS
    <3> HIDE DEF h
    <3> QED
      BY <1>4, <3>1, Zenon
  <2> HIDE DEF t, D, f, fks, h, With
  <2>2. Row(t, n) = [f[t] EXCEPT !.columns = x]
    BY <1>2, <1>6, Zenon
  <2>3. GraphAfter(n) = [h EXCEPT !.tables[t].columns = x]
    BY <1>3, <2>1, <2>2, Zenon
  <2> QED
    BY <1>2, <2>3, Zenon
<1>7. ASSUME NEW c, NEW x, Row(t, n) = [Row(t, n - 1) EXCEPT !.columns[c] = x]
      PROVE  GraphAfter(n) = [GraphAfter(n - 1) EXCEPT !.tables[t].columns[c] = x]
  <2>1. [h EXCEPT !.tables[t].columns[c] = x] = With([f[t] EXCEPT !.columns[c] = x])
    <3> HIDE DEF t, f, fks
    <3>1. [h EXCEPT !.tables[t].columns[c] = x] = [h EXCEPT !.tables = [f EXCEPT ![t] = [f[t] EXCEPT !.columns[c] = x]]]
      OBVIOUS
    <3> HIDE DEF h
    <3> QED
      BY <1>4, <3>1, Zenon
  <2> HIDE DEF t, D, f, fks, h, With
  <2>2. Row(t, n) = [f[t] EXCEPT !.columns[c] = x]
    BY <1>2, <1>7, Zenon
  <2>3. GraphAfter(n) = [h EXCEPT !.tables[t].columns[c] = x]
    BY <1>3, <2>1, <2>2, Zenon
  <2> QED
    BY <1>2, <2>3, Zenon
<1>8. Row(t, n - 1) = GraphAfter(n - 1).tables[t]
  BY <1>2
<1> QED
  BY <1>5, <1>6, <1>7, <1>8, Zenon

\* The table that the canvas adds, with its key column.
LEMMA AddTablePlayed ==
    ASSUME DdlInv, NEW n \in 1..Len(log), log[n].kind = "addTable"
    PROVE  GraphAfter(n) = ApplyOp(GraphAfter(n - 1), n)
<1> DEFINE g == GraphAfter(n - 1)
           new == [name |-> log[n].name, columns |-> Put(<<>>, New(n), KeyName)]
<1>0. Len(log) \in Nat /\ DOMAIN log = 1..Len(log) /\ n \in Nat \ {0}
  BY OpKinds DEF DdlInv
<1>1. /\ Tables(n) = Tables(n - 1) \cup {New(n)} /\ Fks(n) = Fks(n - 1) /\ New(n) \notin Tables(n - 1)
      /\ \A t : Row(t, n) = Row(t, n - 1)
  BY OthersKept, NotYetNamed
<1>2. Row(New(n), n) = new
  <2>1. Columns(New(n), n) = {New(n)}
    <3>1. Columns(New(n), n) = Columns(New(n), n - 1)
      BY <1>0 DEF Columns
    <3> QED
      BY <1>0, <3>1, NotYetNamed
  <2>2. TableRenames(New(n), n) = {} /\ ColumnRenames(New(n), New(n), n) = {}
    BY <1>0, NotYetNamed DEF TableRenames, ColumnRenames
  <2>3. TableName(New(n), n) = log[n].name
    BY <1>0, <2>2, RefsApart DEF TableName, LastName
  <2>4. ColumnName(New(n), New(n), n) = KeyName
    BY <1>0, <2>2, RefsApart DEF ColumnName, FirstColumn, LastName
  <2>5. Put(<<>>, New(n), KeyName) = [c \in {New(n)} |-> KeyName]
    BY DEF Put
  <2> QED
    BY <2>1, <2>3, <2>4, <2>5 DEF Row
<1>3. GraphAfter(n).tables = Put(g.tables, New(n), new)
  BY <1>1, <1>2 DEF GraphAfter, Put
<1>4. GraphAfter(n) = [tables |-> GraphAfter(n).tables, fks |-> Fks(n)] /\ g = [tables |-> g.tables, fks |-> Fks(n - 1)]
  BY DEF GraphAfter
<1>5. GraphAfter(n) = [g EXCEPT !.tables = Put(g.tables, New(n), new)]
  <2>1. \A a, b, e : [[tables |-> a, fks |-> e] EXCEPT !.tables = b] = [tables |-> b, fks |-> e]
    OBVIOUS
  <2> HIDE DEF g, new
  <2> QED
    BY <1>1, <1>3, <1>4, <2>1
<1> QED
  BY <1>5 DEF ApplyOp

\* A table gets another column.
LEMMA AddColumnPlayed ==
    ASSUME DdlInv, NEW n \in 1..Len(log), log[n].kind = "addColumn"
    PROVE  GraphAfter(n) = ApplyOp(GraphAfter(n - 1), n)
<1> DEFINE g == GraphAfter(n - 1)
           t == log[n].table
           r == Row(t, n - 1)
<1>0. Len(log) \in Nat /\ DOMAIN log = 1..Len(log) /\ n \in Nat \ {0}
  BY OpKinds DEF DdlInv
<1>1. /\ Tables(n) = Tables(n - 1) /\ Fks(n) = Fks(n - 1) /\ t \in Tables(n - 1)
      /\ \A u : u # t => Row(u, n) = Row(u, n - 1)
  BY OthersKept
<1>2. Row(t, n) = [r EXCEPT !.columns = Put(r.columns, New(n), log[n].name)]
  <2>1. Columns(t, n) = Columns(t, n - 1) \cup {New(n)} /\ New(n) \notin Columns(t, n - 1)
    <3>1. {j \in 1..n : log[j].kind = "addColumn" /\ log[j].table = t} =
          {j \in 1..(n - 1) : log[j].kind = "addColumn" /\ log[j].table = t} \cup {n}
      BY <1>0
    <3>2. New(n) \notin Columns(t, n - 1)
      BY <1>1, NotYetNamed
    <3> QED
      BY <3>1, <3>2 DEF Columns
  <2>2. TableName(t, n) = TableName(t, n - 1) /\ \A c : ColumnName(t, c, n) = ColumnName(t, c, n - 1)
    BY <1>0, NextTableName, NextColumnName
  <2>3. ColumnName(t, New(n), n) = log[n].name
    <3>1. ColumnRenames(t, New(n), n) = {}
      BY <1>0, NotYetNamed DEF ColumnRenames
    <3> QED
      BY <1>0, <3>1, RefsApart DEF ColumnName, FirstColumn, LastName
  <2>4. [c \in Columns(t, n) |-> ColumnName(t, c, n)] = Put(r.columns, New(n), log[n].name)
    BY <2>1, <2>2, <2>3 DEF Row, Put
  <2>5. r = [name |-> TableName(t, n - 1), columns |-> r.columns]
    BY DEF Row
  <2>6. Row(t, n) = [name |-> TableName(t, n - 1), columns |-> Put(r.columns, New(n), log[n].name)]
    BY <2>2, <2>4 DEF Row
  <2> DEFINE name == TableName(t, n - 1)
             old == r.columns
             new == Put(old, New(n), log[n].name)
  <2>7. [[name |-> name, columns |-> old] EXCEPT !.columns = new] = [name |-> name, columns |-> new]
    <3> HIDE DEF name, old, new
    <3> QED
      OBVIOUS
  <2>8. [r EXCEPT !.columns = new] = [name |-> name, columns |-> new]
    <3> HIDE DEF new
    <3> DEFINE q == r
    <3>1. q = [name |-> name, columns |-> old]
      BY <2>5
    <3> HIDE DEF q, name, old
    <3>2. [q EXCEPT !.columns = new] = [[name |-> name, columns |-> old] EXCEPT !.columns = new]
      BY <3>1, Zenon
    <3> QED
      BY <2>7, <3>2, Zenon DEF q
  <2> QED
    BY <2>6, <2>8
<1>3. GraphAfter(n) = [g EXCEPT !.tables[t].columns = Put(g.tables[t].columns, New(n), log[n].name)]
  <2>1. /\ Row(t, n - 1) = g.tables[t]
        /\ \A x : Row(t, n) = [Row(t, n - 1) EXCEPT !.columns = x] =>
                  GraphAfter(n) = [g EXCEPT !.tables[t].columns = x]
    BY OneRowPlayed
  <2> QED
    BY <1>2, <2>1, Zenon
<1> QED
  BY <1>3 DEF ApplyOp

\* A table or one of its columns gets another name, or the table a foreign key.
LEMMA OthersPlayed ==
    ASSUME DdlInv, NEW n \in 1..Len(log), log[n].kind \in {"renameTable", "renameColumn", "addFk"}
    PROVE  GraphAfter(n) = ApplyOp(GraphAfter(n - 1), n)
<1> DEFINE g == GraphAfter(n - 1)
           t == log[n].table
           r == Row(t, n - 1)
<1>0. Len(log) \in Nat /\ DOMAIN log = 1..Len(log) /\ n \in Nat \ {0}
  BY OpKinds DEF DdlInv
<1>1. /\ Tables(n) = Tables(n - 1) /\ t \in Tables(n - 1)
      /\ \A u : u # t => Row(u, n) = Row(u, n - 1)
  BY OthersKept
<1>2. Columns(t, n) = Columns(t, n - 1)
  BY <1>0 DEF Columns
<1>3. CASE log[n].kind = "renameTable"
  <2>1. TableName(t, n) = log[n].name /\ \A c : ColumnName(t, c, n) = ColumnName(t, c, n - 1)
    BY <1>0, <1>3, NextTableName, NextColumnName
  <2>2. Row(t, n) = [r EXCEPT !.name = log[n].name]
    <3>1. \A x, y, c : [[name |-> x, columns |-> c] EXCEPT !.name = y] = [name |-> y, columns |-> c]
      OBVIOUS
    <3>2. [c \in Columns(t, n) |-> ColumnName(t, c, n)] = r.columns /\ r = [name |-> r.name, columns |-> r.columns]
      BY <1>2, <2>1 DEF Row
    <3>3. Row(t, n) = [name |-> log[n].name, columns |-> r.columns]
      BY <2>1, <3>2 DEF Row
    <3> HIDE DEF r
    <3> QED
      BY <3>1, <3>2, <3>3
  <2>4. GraphAfter(n) = [g EXCEPT !.tables[t].name = log[n].name]
    BY <1>3, <2>2, OneRowPlayed
  <2> QED
    BY <1>3, <2>4 DEF ApplyOp
<1>4. CASE log[n].kind = "renameColumn"
  <2> DEFINE c == log[n].column
  <2>1. /\ TableName(t, n) = TableName(t, n - 1) /\ ColumnName(t, c, n) = log[n].name
        /\ \A d : d # c => ColumnName(t, d, n) = ColumnName(t, d, n - 1)
    BY <1>0, <1>4, NextTableName, NextColumnName
  <2>2. c \in Columns(t, n - 1)
    BY <1>0, <1>4 DEF DdlInv, RefersBack
  <2>3. Row(t, n) = [r EXCEPT !.columns[c] = log[n].name]
    <3> DEFINE f == [d \in Columns(t, n - 1) |-> ColumnName(t, d, n - 1)]
    <3>1. [d \in Columns(t, n) |-> ColumnName(t, d, n)] = [f EXCEPT ![c] = log[n].name]
      BY <1>2, <2>1, <2>2
    <3>2. \A x, h, y : [[name |-> x, columns |-> h] EXCEPT !.columns[c] = y] = [name |-> x, columns |-> [h EXCEPT ![c] = y]]
      OBVIOUS
    <3>3. r = [name |-> TableName(t, n), columns |-> f]
      BY <2>1 DEF Row
    <3>4. Row(t, n) = [name |-> TableName(t, n), columns |-> [f EXCEPT ![c] = log[n].name]]
      BY <3>1 DEF Row
    <3> HIDE DEF f, r, c
    <3> QED
      BY <3>2, <3>3, <3>4
  <2>4. \A d, x : Row(t, n) = [r EXCEPT !.columns[d] = x] =>
                     GraphAfter(n) = [g EXCEPT !.tables[t].columns[d] = x]
    BY <1>4, OneRowPlayed
  <2>5. GraphAfter(n) = [g EXCEPT !.tables[t].columns[c] = log[n].name]
    BY <2>3, <2>4
  <2> QED
    BY <1>4, <2>5 DEF ApplyOp
<1>5. CASE log[n].kind = "addFk"
  <2>1. Row(t, n) = r
    BY <1>5, OthersKept
  <2>2. Fks(n) = Fks(n - 1) \cup {[from |-> t, column |-> log[n].column, to |-> log[n].target]}
    BY <1>0, <1>5 DEF Fks
  <2>3. GraphAfter(n) = [g EXCEPT !.fks = Fks(n)]
    <3>1. g = [tables |-> g.tables, fks |-> Fks(n - 1)]
      BY DEF GraphAfter
    <3>2. GraphAfter(n) = [tables |-> g.tables, fks |-> Fks(n)]
      BY <1>1, <2>1 DEF GraphAfter
    <3>3. \A f, a, b : [[tables |-> f, fks |-> a] EXCEPT !.fks = b] = [tables |-> f, fks |-> b]
      OBVIOUS
    <3> HIDE DEF g
    <3> QED
      BY <3>1, <3>2, <3>3
  <2> QED
    BY <1>5, <2>2, <2>3 DEF ApplyOp, GraphAfter
<1> QED
  BY <1>3, <1>4, <1>5

\* The graph on the canvas is what the log says of it (applyOps.ts: applyOps).
LEMMA PlayedIsGraph ==
    ASSUME DdlInv
    PROVE  \A n \in 0..Len(log) : Played[n] = GraphAfter(n)
<1> DEFINE S == {n \in 0..Len(log) : Played[n] = GraphAfter(n)}
<1>0. Len(log) \in Nat
  BY OpKinds DEF DdlInv
<1>1. Played = [n \in 0..Len(log) |-> IF n = 0 THEN BaseGraph ELSE ApplyOp(Played[n - 1], n)]
  BY <1>0, PlayedIs
<1>2. 0 \in S
  BY <1>0, <1>1, GraphFirst
<1>3. ASSUME NEW m \in 0..(Len(log) - 1), m \in S PROVE m + 1 \in S
  <2> DEFINE n == m + 1
  <2>1. n \in 1..Len(log) /\ n - 1 = m /\ n # 0 /\ n \in 0..Len(log)
    BY <1>0
  <2>2. Played[n] = ApplyOp(Played[n - 1], n)
    BY <1>1, <2>1
  <2>3. GraphAfter(n) = ApplyOp(GraphAfter(n - 1), n)
    BY <2>1, OpKinds, AddTablePlayed, AddColumnPlayed, OthersPlayed DEF DdlInv
  <2>4. Played[n] = GraphAfter(n)
    BY <1>3, <2>1, <2>2, <2>3
  <2> QED
    BY <2>1, <2>4
<1> HIDE DEF S
<1>4. \A n \in 0..Len(log) : n \in S
  BY <1>0, <1>2, <1>3, StepByStep
<1> QED
  BY <1>4 DEF S

\* So the working graph is the tables, names, columns and foreign keys the log says.
LEMMA WorkingGraphIs ==
    ASSUME DdlInv
    PROVE  LET L == Len(log)
               g == WorkingGraph
           IN  /\ DOMAIN g.tables = Tables(L) /\ g.fks = Fks(L)
               /\ \A t \in Tables(L) :
                     /\ g.tables[t].name = TableName(t, L)
                     /\ g.tables[t].columns = [c \in Columns(t, L) |-> ColumnName(t, c, L)]
<1>1. Len(log) \in Nat
  BY OpKinds DEF DdlInv
<1>2. WorkingGraph = GraphAfter(Len(log))
  BY <1>1, PlayedIsGraph DEF WorkingGraph
<1>3. WorkingGraph.tables = [t \in Tables(Len(log)) |-> Row(t, Len(log))] /\ WorkingGraph.fks = Fks(Len(log))
  BY <1>2 DEF GraphAfter
<1>4. \A t : Row(t, Len(log)).name = TableName(t, Len(log)) /\
             Row(t, Len(log)).columns = [c \in Columns(t, Len(log)) |-> ColumnName(t, c, Len(log))]
  BY DEF Row
<1> QED
  BY <1>3, <1>4

----------------------------------------------------------------------------
(* The invariant.                                                          *)

\* What an operation may refer to when it is pushed.
Refers(op) ==
    /\ op.kind # "addTable" => op.table \in Tables(Len(log))
    /\ op.kind \in {"renameColumn", "addFk"} => op.column \in Columns(op.table, Len(log))
    /\ op.kind = "addFk" => op.target \in Tables(Len(log)) /\ op.target # op.table

\* Tables and columns are references, and no more were added than the log is long.
LEMMA WithinBounds ==
    ASSUME DdlInv
    PROVE  /\ Tables(Len(log)) \subseteq Refs
           /\ \A t \in Tables(Len(log)) : Columns(t, Len(log)) \subseteq Refs
           /\ \A t \in Tables(Len(log)) : t.op \in 0..Len(log)
<1>0. Len(log) \in Nat /\ DOMAIN log = 1..Len(log) /\ Len(log) <= MaxOps /\ MaxOps \in Nat
  BY OpKinds, DdlAssumption DEF DdlInv, DdlTypeOK
<1>1. \A i \in 1..Len(log) : New(i) \in Refs
  BY <1>0 DEF Refs
<1>2. \A x \in BaseTables : Base(x) \in Refs /\ \A y \in BaseColumns[x] : Base(y) \in Refs
  BY DEF Refs
<1>3. ASSUME NEW t \in Tables(Len(log))
      PROVE  t \in Refs /\ Columns(t, Len(log)) \subseteq Refs /\ t.op \in 0..Len(log)
  <2>1. CASE \E x \in BaseTables : t = Base(x)
    <3>1. PICK x \in BaseTables : t = Base(x)
      BY <2>1
    <3>2. Columns(t, Len(log)) \subseteq {Base(y) : y \in BaseColumns[x]} \cup {New(i) : i \in 1..Len(log)}
      BY <1>0, <3>1, RefsApart DEF Columns
    <3> QED
      BY <1>0, <1>1, <1>2, <3>1, <3>2, RefsApart
  <2>2. CASE \E i \in 1..Len(log) : t = New(i)
    <3>1. PICK i \in 1..Len(log) : t = New(i)
      BY <2>2
    <3>2. i \in Nat \ {0} /\ t.op = i /\ ~IsBase(t)
      BY <1>0, <3>1, RefsApart
    <3>3. Columns(t, Len(log)) \subseteq {t} \cup {New(j) : j \in 1..Len(log)}
      BY <3>2 DEF Columns
    <3> QED
      BY <1>0, <1>1, <3>1, <3>2, <3>3
  <2>3. (\E x \in BaseTables : t = Base(x)) \/ \E i \in 1..Len(log) : t = New(i)
    BY DEF Tables
  <2> QED
    BY <2>1, <2>2, <2>3
<1> QED
  BY <1>3

\* A set of references to operations is as large as the set of the operations.
LEMMA HowMany ==
    ASSUME NEW I, NEW k \in Nat, I \subseteq 1..k
    PROVE  LET S == {New(i) : i \in I} IN
           IsFiniteSet(S) /\ Cardinality(S) \in 0..k
<1> DEFINE S == {New(i) : i \in I}
           f == [i \in I |-> New(i)]
<1>1. IsFiniteSet(I) /\ Cardinality(I) \in 0..k
  <2>1. IsFiniteSet(1..k) /\ Cardinality(1..k) = k
    BY FS_Interval
  <2>2. IsFiniteSet(I) /\ Cardinality(I) <= k
    BY <2>1, FS_Subset
  <2> QED
    BY <2>2, FS_CardinalityType
<1>2. f \in Surjection(I, S)
  BY DEF Surjection
<1> HIDE DEF S, f
<1>3. IsFiniteSet(S) /\ Cardinality(S) <= Cardinality(I)
  BY <1>1, <1>2, FS_Surjection
<1>4. Cardinality(S) \in Nat
  BY <1>3, FS_CardinalityType
<1>5. IsFiniteSet(S) /\ Cardinality(S) \in 0..k
  BY <1>1, <1>3, <1>4
<1> QED
  BY <1>5 DEF S

\* The names that the canvas gives are names.
LEMMA GivenNames ==
    ASSUME DdlInv, Len(log) < MaxOps
    PROVE  /\ NewTable(Cardinality(NewTables) + 1) \in STRING
           /\ \A t \in Tables(Len(log)) : NewColumn(Cardinality(Columns(t, Len(log))) + 1) \in STRING
<1> DEFINE L == Len(log)
<1>0. L \in Nat /\ DOMAIN log = 1..L /\ MaxOps \in Nat
  BY OpKinds, DdlAssumption DEF DdlInv
<1>1. NewTable(Cardinality(NewTables) + 1) \in STRING
  <2> DEFINE I == {j \in 1..L : log[j].kind = "addTable"}
  <2>1. DOMAIN WorkingGraph.tables = Tables(L)
    BY WorkingGraphIs
  <2>2. NewTables = {New(i) : i \in I}
    BY <1>0, <2>1, RefsApart DEF NewTables, Tables
  <2>3. Cardinality(NewTables) \in 0..L
    BY <1>0, <2>2, HowMany
  <2>4. Cardinality(NewTables) + 1 \in 1..MaxOps
    BY <1>0, <2>3
  <2> QED
    BY <2>4, DdlAssumption
<1>2. ASSUME NEW t \in Tables(L) PROVE NewColumn(Cardinality(Columns(t, L)) + 1) \in STRING
  <2> DEFINE I == {j \in 1..L : log[j].kind = "addColumn" /\ log[j].table = t}
             S == {New(i) : i \in I}
  <2>1. CASE \E x \in BaseTables : t = Base(x)
    <3>1. PICK x \in BaseTables : t = Base(x)
      BY <2>1
    <3> DEFINE B == {Base(y) : y \in BaseColumns[x]}
               f == [y \in BaseColumns[x] |-> Base(y)]
    <3>2. Columns(t, L) = B \cup S /\ B \cap S = {}
      BY <1>0, <3>1, RefsApart DEF Columns
    <3>3. IsFiniteSet(S) /\ Cardinality(S) \in 0..L
      BY <1>0, HowMany
    <3>4. IsFiniteSet(B) /\ Cardinality(B) = Cardinality(BaseColumns[x]) /\ Cardinality(B) \in Nat
      <4>1. f \in Surjection(BaseColumns[x], B) /\ f \in Injection(BaseColumns[x], B)
        BY RefsApart DEF Surjection, Injection, IsInjective
      <4>2. IsFiniteSet(BaseColumns[x])
        BY DdlAssumption
      <4> HIDE DEF B, f
      <4>3. IsFiniteSet(B) /\ Cardinality(B) = Cardinality(BaseColumns[x])
        BY <4>1, <4>2, FS_Surjection
      <4> QED
        BY <4>3, FS_CardinalityType
    <3>5. Cardinality(Columns(t, L)) = Cardinality(B) + Cardinality(S)
      <4> HIDE DEF B, S
      <4>1. Cardinality(B \cup S) = Cardinality(B) + Cardinality(S) - Cardinality({})
        BY <3>2, <3>3, <3>4, FS_Union
      <4> QED
        BY <3>2, <3>3, <3>4, <4>1, FS_EmptySet
    <3> HIDE DEF B, S, f
    <3>6. Cardinality(S) + 1 \in 1..MaxOps
      BY <1>0, <3>3
    <3>7. Cardinality(Columns(t, L)) + 1 = Cardinality(BaseColumns[x]) + (Cardinality(S) + 1)
      BY <3>3, <3>4, <3>5
    <3> QED
      BY <3>6, <3>7, DdlAssumption
  <2>2. CASE \E i \in 1..L : t = New(i) /\ log[i].kind = "addTable"
    <3>1. PICK i \in 1..L : t = New(i) /\ log[i].kind = "addTable"
      BY <2>2
    <3>2. Columns(t, L) = {New(j) : j \in I \cup {i}}
      BY <1>0, <3>1, RefsApart DEF Columns
    <3>3. Cardinality(Columns(t, L)) \in 0..L
      BY <1>0, <3>2, HowMany
    <3>4. Cardinality(Columns(t, L)) + 1 \in 1..MaxOps
      BY <1>0, <3>3
    <3> QED
      BY <3>4, DdlAssumption
  <2>3. (\E x \in BaseTables : t = Base(x)) \/ \E i \in 1..L : t = New(i) /\ log[i].kind = "addTable"
    BY DEF Tables
  <2> QED
    BY <2>1, <2>2, <2>3
<1> QED
  BY <1>1, <1>2

\* Every step pushes an operation that refers to what is there.
LEMMA NextPushes ==
    ASSUME DdlInv, DdlNext
    PROVE  \E op \in CanvasOps : Push(op) /\ Refers(op)
<1> DEFINE L == Len(log)
           g == WorkingGraph
<1>1. /\ DOMAIN g.tables = Tables(L) /\ Tables(L) \subseteq Refs
      /\ \A t \in Tables(L) : DOMAIN g.tables[t].columns = Columns(t, L) /\ Columns(t, L) \subseteq Refs
  BY WorkingGraphIs, WithinBounds
<1>2. CASE AddTable
  <2> DEFINE op == [kind |-> "addTable", name |-> NewTable(Cardinality(NewTables) + 1)]
  <2>1. Push(op) /\ Len(log) < MaxOps
    BY <1>2 DEF AddTable, Push
  <2>2. op \in CanvasOps
    BY <2>1, GivenNames DEF CanvasOps
  <2>3. Refers(op)
    BY DEF Refers
  <2> QED
    BY <2>1, <2>2, <2>3
<1>3. CASE \E t \in DOMAIN g.tables : AddColumn(t)
  <2>1. PICK t \in Tables(L) : AddColumn(t)
    BY <1>1, <1>3
  <2> DEFINE op == [kind |-> "addColumn", table |-> t, name |-> NewColumn(Cardinality(Columns(t, L)) + 1)]
  <2>2. Push(op) /\ Len(log) < MaxOps
    BY <1>1, <2>1 DEF AddColumn, Push
  <2>3. op \in CanvasOps
    BY <1>1, <2>2, GivenNames DEF CanvasOps
  <2>4. Refers(op)
    BY DEF Refers
  <2> QED
    BY <2>2, <2>3, <2>4
<1>4. CASE \E t \in DOMAIN g.tables, name \in TypedNames : RenameTable(t, name)
  <2>1. PICK t \in Tables(L), name \in TypedNames : RenameTable(t, name)
    BY <1>1, <1>4
  <2> DEFINE op == [kind |-> "renameTable", table |-> t, name |-> name]
  <2>2. Push(op)
    BY <2>1 DEF RenameTable
  <2>3. op \in CanvasOps
    BY <1>1, DdlAssumption DEF CanvasOps
  <2>4. Refers(op)
    BY DEF Refers
  <2> QED
    BY <2>2, <2>3, <2>4
<1>5. CASE \E t \in DOMAIN g.tables : \E c \in DOMAIN g.tables[t].columns, name \in TypedNames : RenameColumn(t, c, name)
  <2>1. PICK t \in Tables(L) : \E c \in Columns(t, L), name \in TypedNames : RenameColumn(t, c, name)
    BY <1>1, <1>5
  <2>2. PICK c \in Columns(t, L), name \in TypedNames : RenameColumn(t, c, name)
    BY <2>1
  <2> DEFINE op == [kind |-> "renameColumn", table |-> t, column |-> c, name |-> name]
  <2>3. Push(op)
    BY <2>2 DEF RenameColumn
  <2>4. op \in CanvasOps
    BY <1>1, DdlAssumption DEF CanvasOps
  <2>5. Refers(op)
    BY DEF Refers
  <2> QED
    BY <2>3, <2>4, <2>5
<1>6. CASE \E s, t \in DOMAIN g.tables : \E c \in DOMAIN g.tables[s].columns : AddFk(s, c, t)
  <2>1. PICK s \in Tables(L), t \in Tables(L) : \E c \in Columns(s, L) : AddFk(s, c, t)
    BY <1>1, <1>6
  <2>2. PICK c \in Columns(s, L) : AddFk(s, c, t)
    BY <2>1
  <2> DEFINE op == [kind |-> "addFk", table |-> s, column |-> c, target |-> t]
  <2>3. Push(op) /\ s # t
    BY <2>2 DEF AddFk
  <2>4. op \in CanvasOps
    BY <1>1 DEF CanvasOps
  <2>5. Refers(op)
    BY <2>3 DEF Refers
  <2> QED
    BY <2>3, <2>4, <2>5
<1> QED
  BY <1>2, <1>3, <1>4, <1>5, <1>6 DEF DdlNext

\* Pushing an operation leaves what the log says of the graph before it.
LEMMA PushKeeps ==
    ASSUME DdlInv, NEW op \in CanvasOps, Push(op), Refers(op)
    PROVE  DdlInv'
<1> DEFINE L == Len(log)
<1>0. L \in Nat /\ DOMAIN log = 1..L /\ MaxOps \in Nat /\ log \in Seq(CanvasOps)
  BY OpKinds, DdlAssumption DEF DdlInv, DdlTypeOK
<1>1. L < MaxOps /\ log' = Append(log, op)
  BY DEF Push
<1>2. /\ log' \in Seq(CanvasOps) /\ Len(log') = L + 1 /\ DOMAIN log' = 1..(L + 1)
      /\ \A i \in 1..L : log'[i] = log[i]
      /\ log'[L + 1] = op
  BY <1>0, <1>1
<1>3. \A n \in 0..L : Tables(n)' = Tables(n)
  BY <1>0, <1>2 DEF Tables
<1>4. \A n \in 0..L : \A t : (Columns(t, n))' = Columns(t, n)
  BY <1>0, <1>2 DEF Columns
<1>5. \A i \in 1..(L + 1) : log'[i].kind # "addTable" => log'[i].table.op < i
  <2>1. op.kind # "addTable" => op.table.op < L + 1
    BY <1>0, WithinBounds DEF Refers
  <2>2. \A i \in 1..L : log[i].kind # "addTable" => log[i].table.op < i
    BY <1>0 DEF DdlInv, DdlTypeOK
  <2>3. \A i \in 1..(L + 1) : i \in 1..L \/ i = L + 1
    BY <1>0
  <2> QED
    BY <1>2, <2>1, <2>2, <2>3
<1>6. DdlTypeOK'
  <2>1. Len(log') <= MaxOps
    BY <1>0, <1>1, <1>2
  <2> QED
    BY <1>2, <1>5, <2>1 DEF DdlTypeOK
<1>7. ASSUME NEW i \in 1..(L + 1)
      PROVE  /\ log'[i].kind # "addTable" => log'[i].table \in Tables(i - 1)'
             /\ log'[i].kind \in {"renameColumn", "addFk"} => log'[i].column \in (Columns(log[i].table, i - 1))'
             /\ log'[i].kind = "addFk" => log'[i].target \in Tables(i - 1)' /\ log'[i].target # log'[i].table
  <2>1. i - 1 \in 0..L /\ Tables(i - 1)' = Tables(i - 1) /\ \A t : (Columns(t, i - 1))' = Columns(t, i - 1)
    BY <1>0, <1>3, <1>4
  <2>2. CASE i \in 1..L
    BY <1>0, <1>2, <2>1, <2>2 DEF DdlInv, RefersBack
  <2>3. CASE i = L + 1
    BY <1>0, <1>2, <2>1, <2>3 DEF Refers
  <2> QED
    BY <1>0, <2>2, <2>3
<1> QED
  BY <1>2, <1>6, <1>7 DEF DdlInv, RefersBack

\* The log is of operations that refer to what is there (ErdPane.tsx: tableRefForWorking).
THEOREM DdlInvariance == DdlSpec => []DdlInv
<1>1. DdlInit => DdlInv
  <2> SUFFICES ASSUME DdlInit PROVE DdlInv
    OBVIOUS
  <2>1. log \in Seq(CanvasOps) /\ Len(log) = 0 /\ DOMAIN log = {} /\ MaxOps \in Nat
    BY DdlAssumption DEF DdlInit
  <2> QED
    BY <2>1 DEF DdlInv, DdlTypeOK, RefersBack
<1>2. DdlInv /\ [DdlNext]_log => DdlInv'
  <2> SUFFICES ASSUME DdlInv, [DdlNext]_log PROVE DdlInv'
    OBVIOUS
  <2>1. CASE DdlNext
    <3>1. PICK op \in CanvasOps : Push(op) /\ Refers(op)
      BY <2>1, NextPushes
    <3> QED
      BY <3>1, PushKeeps
  <2>2. CASE log' = log
    BY <2>2 DEF DdlInv, DdlTypeOK, RefersBack, Tables, Columns
  <2> QED
    BY <2>1, <2>2
<1> QED
  BY <1>1, <1>2, PTL DEF DdlSpec

\* The operations in the log are of their types, and refer to earlier ones.
THEOREM DdlTypesCorrect == DdlSpec => []DdlTypeOK
<1>1. DdlInv => DdlTypeOK
  BY DEF DdlInv
<1> QED
  BY <1>1, DdlInvariance, PTL

----------------------------------------------------------------------------
(* The names of the script (ddlGen.ts) are the names of the canvas.        *)

\* Every set of numbers that is bounded and not empty has a greatest one.
LEMMA GreatestNumber ==
    ASSUME NEW n \in Nat, NEW R, R \subseteq 1..n, R # {}
    PROVE  \E j \in R : \A i \in R : i <= j
<1> DEFINE T == {k \in Nat : \A j \in R : j <= k}
<1>1. n \in T /\ T \in SUBSET Nat
  OBVIOUS
<1>2. PICK m \in T : \A k \in T : m <= k
  <2> HIDE DEF T
  <2> QED
    BY <1>1, LeastNumber
<1>3. m \in Nat /\ \A j \in R : j <= m
  BY <1>2
<1>4. CASE m \in R
  BY <1>3, <1>4
<1>5. CASE m \notin R
  <2>1. \A j \in R : j \in Nat /\ j <= m /\ j # m /\ j >= 1
    BY <1>3, <1>5
  <2>2. PICK h : h \in R
    OBVIOUS
  <2>3. h \in Nat /\ h >= 1 /\ h <= m
    BY <2>1, <2>2
  <2>4. m - 1 \in Nat
    BY <1>3, <2>3
  <2>5. \A j \in R : j <= m - 1
    BY <1>3, <2>1
  <2>6. m - 1 \in T
    BY <2>4, <2>5
  <2>7. ~(m <= m - 1)
    BY <1>3
  <2> QED
    BY <1>2, <2>6, <2>7
<1> QED
  BY <1>4, <1>5

\* The name of a table is that of one of its renames, or its first.
LEMMA TableNameOf ==
    ASSUME NEW t, NEW n \in Nat
    PROVE  /\ TableRenames(t, n) = {} => TableName(t, n) = IF IsBase(t) THEN t.name ELSE log[t.op].name
           /\ TableRenames(t, n) # {} => \E j \in TableRenames(t, n) : TableName(t, n) = log[j].name
<1> DEFINE R == TableRenames(t, n)
<1>1. R \subseteq 1..n /\ R \in SUBSET Nat
  BY DEF TableRenames
<1>2. R = {} => TableName(t, n) = IF IsBase(t) THEN t.name ELSE log[t.op].name
  BY DEF TableName, LastName
<1>3. ASSUME R # {} PROVE \E j \in R : TableName(t, n) = log[j].name
  <2>1. PICK j \in R : \A i \in R : i <= j
    <3> HIDE DEF R
    <3> QED
      BY <1>1, <1>3, GreatestNumber
  <2>2. TableName(t, n) = log[j].name
    BY <1>1, <2>1, LastNameIs DEF TableName
  <2> QED
    BY <2>2
<1> QED
  BY <1>2, <1>3

\* So is the name of a column.
LEMMA ColumnNameOf ==
    ASSUME NEW t, NEW c, NEW n \in Nat
    PROVE  /\ ColumnRenames(t, c, n) = {} => ColumnName(t, c, n) = FirstColumn(c)
           /\ ColumnRenames(t, c, n) # {} => \E j \in ColumnRenames(t, c, n) : ColumnName(t, c, n) = log[j].name
<1> DEFINE R == ColumnRenames(t, c, n)
<1>1. R \subseteq 1..n /\ R \in SUBSET Nat
  BY DEF ColumnRenames
<1>2. R = {} => ColumnName(t, c, n) = FirstColumn(c)
  BY DEF ColumnName, LastName
<1>3. ASSUME R # {} PROVE \E j \in R : ColumnName(t, c, n) = log[j].name
  <2>1. PICK j \in R : \A i \in R : i <= j
    <3> HIDE DEF R
    <3> QED
      BY <1>1, <1>3, GreatestNumber
  <2>2. ColumnName(t, c, n) = log[j].name
    BY <1>1, <2>1, LastNameIs DEF ColumnName
  <2> QED
    BY <2>2
<1> QED
  BY <1>2, <1>3

\* A column that was added is the key of the table added with it, or was added to its table.
LEMMA AddedWhere ==
    ASSUME NEW n \in Nat, NEW t \in Tables(n), NEW i \in Nat \ {0}, New(i) \in Columns(t, n)
    PROVE  /\ i \in 1..n
           /\ \/ log[i].kind = "addTable" /\ t = New(i)
              \/ log[i].kind = "addColumn" /\ log[i].table = t
<1>1. CASE t = New(i)
  <2>1. \A x \in BaseTables : t # Base(x)
    BY <1>1, RefsApart
  <2>2. PICK k \in 1..n : t = New(k) /\ log[k].kind = "addTable"
    BY <2>1 DEF Tables
  <2>3. New(k) = New(i) /\ k \in Nat \ {0}
    BY <1>1, <2>2
  <2>4. k = i
    BY <2>3, RefsApart
  <2> QED
    BY <1>1, <2>2, <2>4
<1>2. CASE t # New(i)
  <2>1. \A x : New(i) # Base(x)
    BY RefsApart
  <2>2. New(i) \in {New(k) : k \in {j \in 1..n : log[j].kind = "addColumn" /\ log[j].table = t}}
    BY <1>2, <2>1 DEF Columns
  <2>3. PICK k \in 1..n : New(i) = New(k) /\ log[k].kind = "addColumn" /\ log[k].table = t
    BY <2>2
  <2>4. k = i
    BY <2>3, RefsApart
  <2> QED
    BY <2>3, <2>4
<1> QED
  BY <1>1, <1>2

\* The last names of tables and columns that generateDdl uses are those on the canvas.
LEMMA FinalNames ==
    ASSUME DdlInv
    PROVE  LET L == Len(log) IN
           /\ \A i \in 1..L : log[i].kind = "addTable" => FinalTable(i) = TableName(New(i), L)
           /\ \A t \in Tables(L) : \A i \in 1..L : New(i) \in Columns(t, L) =>
                 FinalColumn(i) = ColumnName(t, New(i), L)
           /\ \A t \in Tables(L) : \A c \in Columns(t, L) : FkColumn(t, c) = ColumnName(t, c, L)
<1> DEFINE L == Len(log)
<1>0. L \in Nat /\ DOMAIN log = 1..L
  BY OpKinds DEF DdlInv
<1>1. ASSUME NEW i \in 1..L, log[i].kind = "addTable" PROVE FinalTable(i) = TableName(New(i), L)
  <2>1. ~IsBase(New(i)) /\ New(i).op = i
    BY <1>0, RefsApart
  <2>2. TableRenames(New(i), L) = {j \in DOMAIN log : log[j].kind = "renameTable" /\ log[j].table = New(i)}
    BY <1>0 DEF TableRenames
  <2> QED
    BY <2>1, <2>2 DEF FinalTable, TableName
<1>2. ASSUME NEW t \in Tables(L), NEW i \in 1..L, New(i) \in Columns(t, L)
      PROVE  FinalColumn(i) = ColumnName(t, New(i), L)
  <2>1. i \in Nat \ {0} /\ L \in Nat
    BY <1>0
  <2>2. ASSUME NEW j \in 1..L, log[j].kind = "renameColumn", log[j].column = New(i)
        PROVE  log[j].table = t
    <3>1. j - 1 \in Nat
      BY <1>0
    <3>2. log[j].table \in Tables(j - 1) /\ New(i) \in Columns(log[j].table, j - 1)
      BY <1>0, <2>2 DEF DdlInv, RefersBack
    <3>3. \/ log[i].kind = "addTable" /\ log[j].table = New(i)
          \/ log[i].kind = "addColumn" /\ log[i].table = log[j].table
      BY <2>1, <3>1, <3>2, AddedWhere
    <3>4. \/ log[i].kind = "addTable" /\ t = New(i)
          \/ log[i].kind = "addColumn" /\ log[i].table = t
      BY <1>2, <2>1, AddedWhere
    <3> QED
      BY <3>3, <3>4
  <2>3. ColumnRenames(t, New(i), L) = {j \in DOMAIN log : log[j].kind = "renameColumn" /\ log[j].column = New(i)}
    BY <1>0, <2>2 DEF ColumnRenames
  <2>4. ~IsBase(New(i)) /\ New(i).op = i
    BY <1>0, RefsApart
  <2> QED
    BY <2>3, <2>4 DEF FinalColumn, ColumnName, FirstColumn
<1>3. ASSUME NEW t \in Tables(L), NEW c \in Columns(t, L) PROVE FkColumn(t, c) = ColumnName(t, c, L)
  <2>1. CASE IsBase(c)
    <3>1. ColumnRenames(t, c, L) = {j \in DOMAIN log : log[j].kind = "renameColumn" /\ log[j].table = t /\ log[j].column = c}
      BY <1>0 DEF ColumnRenames
    <3> QED
      BY <2>1, <3>1 DEF FkColumn, ColumnName, FirstColumn
  <2>2. CASE ~IsBase(c)
    <3>1. \E i \in 1..L : c = New(i)
      <4>1. CASE c = t
        BY <2>2, <4>1, RefsApart DEF Tables
      <4>2. CASE c # t
        BY <2>2, <4>2, RefsApart DEF Columns
      <4> QED
        BY <4>1, <4>2
    <3>2. PICK i \in 1..L : c = New(i)
      BY <3>1
    <3>3. c.op = i
      BY <1>0, <3>2, RefsApart
    <3> QED
      BY <1>2, <2>2, <3>2, <3>3 DEF FkColumn
  <2> QED
    BY <2>1, <2>2
<1> QED
  BY <1>1, <1>2, <1>3

\* A log that validates, and in which no name is used twice.
Clean == DdlInv /\ ~HasErrors /\ FreshNames

\* What the names are then: distinct, and those given later are not names of the base.
LEMMA CleanNames ==
    ASSUME Clean
    PROVE  LET L == Len(log) IN
           /\ \A t, u \in Tables(L) : TableName(t, L) = TableName(u, L) => t = u
           /\ \A t \in Tables(L) : \A c, d \in Columns(t, L) : ColumnName(t, c, L) = ColumnName(t, d, L) => c = d
           /\ \A i \in 1..L : log[i].kind = "addTable" => TableName(New(i), L) \notin BaseTables
           /\ \A i \in 1..L : log[i].kind = "renameTable" => log[i].name \notin BaseTables
           /\ \A i \in 1..L : log[i].kind \in {"addColumn", "renameColumn"} /\ IsBase(log[i].table) =>
                 log[i].name \notin BaseColumns[log[i].table.name]
<1> DEFINE L == Len(log)
           g == WorkingGraph
<1>0. L \in Nat /\ DOMAIN log = 1..L /\ DdlInv
  BY OpKinds DEF DdlInv, Clean
<1>1. DOMAIN g.tables = Tables(L)
  BY <1>0, WorkingGraphIs
<1>2. \A t \in Tables(L) :
         g.tables[t].name = TableName(t, L) /\ g.tables[t].columns = [c \in Columns(t, L) |-> ColumnName(t, c, L)]
  BY <1>0, WorkingGraphIs
<1>3. \A t, u \in Tables(L) : TableName(t, L) = TableName(u, L) => t = u
  <2> DEFINE f == [t \in DOMAIN g.tables |-> g.tables[t].name]
  <2>1. \A x, y \in DOMAIN f : f[x] = f[y] => x = y
    BY DEF Clean, FreshNames
  <2>2. DOMAIN f = Tables(L) /\ \A t \in Tables(L) : f[t] = TableName(t, L)
    BY <1>1, <1>2
  <2> HIDE DEF f
  <2> QED
    BY <2>1, <2>2
<1>4. ASSUME NEW t \in Tables(L)
      PROVE  \A c, d \in Columns(t, L) : ColumnName(t, c, L) = ColumnName(t, d, L) => c = d
  <2> DEFINE f == g.tables[t].columns
  <2>1. \A x, y \in DOMAIN f : f[x] = f[y] => x = y
    BY <1>1 DEF Clean, FreshNames
  <2>2. f = [c \in Columns(t, L) |-> ColumnName(t, c, L)]
    BY <1>2
  <2>3. DOMAIN f = Columns(t, L) /\ \A c \in Columns(t, L) : f[c] = ColumnName(t, c, L)
    BY <2>2
  <2> HIDE DEF f
  <2> QED
    BY <2>1, <2>3
<1>5. \A i \in 1..L : log[i].kind = "addTable" => TableName(New(i), L) \notin BaseTables
  <2>1. \A i \in 1..L : log[i].kind = "addTable" => FinalTable(i) \notin BaseTables
    BY <1>0 DEF Clean, HasErrors
  <2> QED
    BY <1>0, <2>1, FinalNames
<1>6. \A i \in 1..L : log[i].kind = "renameTable" => log[i].name \notin BaseTables
  BY <1>0 DEF Clean, FreshNames
<1>7. \A i \in 1..L : log[i].kind = "renameColumn" /\ IsBase(log[i].table) =>
                 log[i].name \notin BaseColumns[log[i].table.name]
  BY <1>0 DEF Clean, FreshNames
<1>8. \A i \in 1..L : log[i].kind = "addColumn" /\ IsBase(log[i].table) =>
                 log[i].name \notin BaseColumns[log[i].table.name]
  BY <1>0 DEF Clean, HasErrors
<1> QED
  BY <1>3, <1>4, <1>5, <1>6, <1>7, <1>8

\* Tables are of the base or were added.
LEMMA TableKinds ==
    ASSUME NEW n \in Nat, NEW t \in Tables(n)
    PROVE  /\ IsBase(t) => t.name \in BaseTables /\ t = Base(t.name)
           /\ ~IsBase(t) => t.op \in 1..n /\ t = New(t.op) /\ log[t.op].kind = "addTable"
           /\ Key(t) \in Columns(t, n)
<1>1. CASE \E x \in BaseTables : t = Base(x)
  <2>1. PICK x \in BaseTables : t = Base(x)
    BY <1>1
  <2>2. IsBase(t) /\ t.name = x
    BY <2>1, RefsApart
  <2>3. KeyName \in BaseColumns[x]
    BY DdlAssumption
  <2> QED
    BY <2>1, <2>2, <2>3 DEF Key, Columns
<1>2. CASE \E i \in 1..n : t = New(i) /\ log[i].kind = "addTable"
  <2>1. PICK i \in 1..n : t = New(i) /\ log[i].kind = "addTable"
    BY <1>2
  <2>2. i \in Nat \ {0}
    OBVIOUS
  <2>3. ~IsBase(t) /\ t.op = i
    BY <2>1, <2>2, RefsApart
  <2> QED
    BY <2>1, <2>3 DEF Key, Columns
<1>3. (\E x \in BaseTables : t = Base(x)) \/ \E i \in 1..n : t = New(i) /\ log[i].kind = "addTable"
  BY DEF Tables
<1> QED
  BY <1>1, <1>2, <1>3

\* What of the base was not renamed has its name, and what was renamed has another.
LEMMA BaseNames ==
    ASSUME Clean, NEW t \in Tables(Len(log)), IsBase(t), NEW n \in 0..Len(log)
    PROVE  /\ TableRenames(t, n) = {} => TableName(t, n) = t.name
           /\ TableRenames(t, n) # {} => TableName(t, n) \notin BaseTables
           /\ \A x \in BaseColumns[t.name] :
                 /\ ColumnRenames(t, Base(x), n) = {} => ColumnName(t, Base(x), n) = x
                 /\ ColumnRenames(t, Base(x), n) # {} => ColumnName(t, Base(x), n) \notin BaseColumns[t.name]
           /\ \A i \in 1..Len(log) : log[i].kind = "addColumn" /\ log[i].table = t =>
                 ColumnName(t, New(i), Len(log)) \notin BaseColumns[t.name]
<1> DEFINE L == Len(log)
<1>0. L \in Nat /\ DOMAIN log = 1..L /\ n \in Nat /\ 1..n \subseteq 1..L
  BY OpKinds DEF DdlInv, Clean
<1>1. /\ \A j \in 1..L : log[j].kind = "renameTable" => log[j].name \notin BaseTables
      /\ \A j \in 1..L : log[j].kind \in {"addColumn", "renameColumn"} /\ log[j].table = t =>
            log[j].name \notin BaseColumns[t.name]
  BY CleanNames
<1>2. /\ TableRenames(t, n) = {} => TableName(t, n) = t.name
      /\ TableRenames(t, n) # {} => TableName(t, n) \notin BaseTables
  <2>1. \A j \in TableRenames(t, n) : log[j].name \notin BaseTables
    BY <1>0, <1>1 DEF TableRenames
  <2> QED
    BY <1>0, <2>1, TableNameOf
<1>3. ASSUME NEW x \in BaseColumns[t.name]
      PROVE  /\ ColumnRenames(t, Base(x), n) = {} => ColumnName(t, Base(x), n) = x
             /\ ColumnRenames(t, Base(x), n) # {} => ColumnName(t, Base(x), n) \notin BaseColumns[t.name]
  <2>1. \A j \in ColumnRenames(t, Base(x), n) : log[j].name \notin BaseColumns[t.name]
    BY <1>0, <1>1 DEF ColumnRenames
  <2>2. FirstColumn(Base(x)) = x
    BY RefsApart DEF FirstColumn
  <2> QED
    BY <1>0, <2>1, <2>2, ColumnNameOf
<1>4. ASSUME NEW i \in 1..L, log[i].kind = "addColumn", log[i].table = t
      PROVE  ColumnName(t, New(i), L) \notin BaseColumns[t.name]
  <2>1. \A j \in ColumnRenames(t, New(i), L) : log[j].name \notin BaseColumns[t.name]
    BY <1>0, <1>1 DEF ColumnRenames
  <2>2. FirstColumn(New(i)) = log[i].name
    BY <1>0, <1>4, RefsApart DEF FirstColumn
  <2>3. log[i].name \notin BaseColumns[t.name]
    BY <1>1, <1>4
  <2> QED
    BY <1>0, <2>1, <2>2, <2>3, ColumnNameOf
<1> QED
  BY <1>2, <1>3, <1>4

\* When groups do not get into each other's way, one rename gives the last name.
LEMMA OneRename ==
    ASSUME DdlInv, Untangled, NEW t \in Tables(Len(log)), IsBase(t), NEW n \in 0..Len(log)
    PROVE  /\ TableRenames(t, n) # {} => TableName(t, n) = TableName(t, Len(log))
           /\ \A i, j \in TableRenames(t, Len(log)) : i = j
           /\ \A x \in BaseColumns[t.name] : ColumnRenames(t, Base(x), n) # {} =>
                 ColumnName(t, Base(x), n) = ColumnName(t, Base(x), Len(log))
<1> DEFINE L == Len(log)
<1>0. L \in Nat /\ DOMAIN log = 1..L /\ n \in Nat /\ 1..n \subseteq 1..L
  BY OpKinds DEF DdlInv
<1>1. \A i, j \in TableRenames(t, L) : i = j
  BY <1>0 DEF TableRenames, Untangled
<1>2. TableRenames(t, n) # {} => TableName(t, n) = TableName(t, L)
  <2>1. TableRenames(t, n) \subseteq TableRenames(t, L)
    BY <1>0 DEF TableRenames
  <2>2. TableRenames(t, n) # {} => TableRenames(t, n) = TableRenames(t, L)
    BY <1>1, <2>1
  <2> QED
    BY <2>2 DEF TableName
<1>3. ASSUME NEW x \in BaseColumns[t.name], ColumnRenames(t, Base(x), n) # {}
      PROVE  ColumnName(t, Base(x), n) = ColumnName(t, Base(x), L)
  <2>1. ColumnRenames(t, Base(x), n) \subseteq ColumnRenames(t, Base(x), L)
    BY <1>0 DEF ColumnRenames
  <2>2. \A i, j \in ColumnRenames(t, Base(x), L) : i = j
    <3>1. IsBase(Base(x))
      BY RefsApart
    <3> QED
      BY <1>0, <3>1 DEF ColumnRenames, Untangled
  <2>3. ColumnRenames(t, Base(x), n) = ColumnRenames(t, Base(x), L)
    BY <1>3, <2>1, <2>2
  <2> QED
    BY <2>3 DEF ColumnName
<1> QED
  BY <1>1, <1>2, <1>3

\* A foreign key of the script is between tables and columns by their last names.
LEMMA FkOfIs ==
    ASSUME DdlInv, NEW m \in 1..Len(log), log[m].kind = "addFk"
    PROVE  LET L == Len(log)
               s == log[m].table
               t == log[m].target
           IN  /\ s \in Tables(L) /\ t \in Tables(L) /\ log[m].column \in Columns(s, L) /\ Key(t) \in Columns(t, L)
               /\ FkOf(m) = [from |-> FkTable(s), column |-> ColumnName(s, log[m].column, L),
                             to |-> FkTable(t), key |-> ColumnName(t, Key(t), L)]
               /\ ~IsBase(s) => FkTable(s) = TableName(s, L)
               /\ ~IsBase(t) => FkTable(t) = TableName(t, L)
<1> DEFINE L == Len(log)
           s == log[m].table
           t == log[m].target
<1>0. L \in Nat /\ DOMAIN log = 1..L /\ m - 1 \in Nat /\ m - 1 <= L
  BY OpKinds DEF DdlInv
<1>1. s \in Tables(m - 1) /\ t \in Tables(m - 1) /\ log[m].column \in Columns(s, m - 1)
  BY <1>0 DEF DdlInv, RefersBack
<1>2. Tables(m - 1) \subseteq Tables(L) /\ Columns(s, m - 1) \subseteq Columns(s, L)
  BY <1>0 DEF Tables, Columns
<1>3. s \in Tables(L) /\ t \in Tables(L) /\ log[m].column \in Columns(s, L)
  BY <1>1, <1>2
<1>4. Key(t) \in Columns(t, L)
  BY <1>0, <1>3, TableKinds
<1>5. ASSUME NEW u \in Tables(L), ~IsBase(u) PROVE FkTable(u) = TableName(u, L)
  <2>1. u.op \in 1..L /\ u = New(u.op) /\ log[u.op].kind = "addTable"
    BY <1>0, <1>5, TableKinds
  <2>2. FinalTable(u.op) = TableName(u, L)
    BY <2>1, FinalNames
  <2> QED
    BY <1>5, <2>2 DEF FkTable
<1>6. FkColumn(s, log[m].column) = ColumnName(s, log[m].column, L) /\ FkColumn(t, Key(t)) = ColumnName(t, Key(t), L)
  BY <1>3, <1>4, FinalNames
<1>7. FkOf(m) = [from |-> FkTable(s), column |-> ColumnName(s, log[m].column, L),
                 to |-> FkTable(t), key |-> ColumnName(t, Key(t), L)]
  BY <1>6 DEF FkOf
<1> QED
  BY <1>3, <1>4, <1>5, <1>7

----------------------------------------------------------------------------
(* The database between the statements of the script, while they run: the  *)
(* tables of the log's first a operations are created, and of the base the *)
(* first b renamed the tables, the first c added columns and the first d   *)
(* renamed them; of the foreign keys that were not written inside a CREATE *)
(* TABLE, those of the first e are there.                                  *)

TableNow(t, b) == TableName(t, IF IsBase(t) THEN b ELSE Len(log))

ColumnsNow(t, c, d) ==
    IF IsBase(t)
      THEN {ColumnName(t, Base(x), d) : x \in BaseColumns[t.name]}
           \cup {ColumnName(t, New(i), Len(log)) : i \in {j \in 1..c : log[j].kind = "addColumn" /\ log[j].table = t}}
      ELSE {ColumnName(t, x, Len(log)) : x \in Columns(t, Len(log))}

KeyNow(t, d) == ColumnName(t, Key(t), IF IsBase(t) THEN d ELSE Len(log))

FksNow(a, e) ==
    {FkOf(m) : m \in {j \in 1..Len(log) : Inline(log[j]) /\ log[j].table.op <= a}}
    \cup {FkOf(m) : m \in {j \in 1..e : log[j].kind = "addFk" /\ ~Inline(log[j])}}

RowNow(t, c, d) == [columns |-> ColumnsNow(t, c, d), key |-> KeyNow(t, d)]

IsDb(db, a, b, c, d, e) ==
    /\ db.runs /\ DOMAIN db = {"runs", "tables", "fks"}
    /\ db.tables = [x \in {TableNow(t, b) : t \in Tables(a)} |-> db.tables[x]]
    /\ \A t \in Tables(a) : db.tables[TableNow(t, b)] = RowNow(t, c, d)
    /\ \A t, u \in Tables(a) : TableNow(t, b) = TableNow(u, b) => t = u
    /\ \A t \in Tables(a) : IsBase(t) => \A i, j \in TableRenames(t, b) : i = j
    /\ db.fks = FksNow(a, e)

\* The same by the group that is under way and how many operations it has looked at.
Stage(group, n, db) ==
    LET L == Len(log) IN
    CASE group = "create" -> IsDb(db, n, 0, 0, 0, 0)
      [] group = "renameTable" -> IsDb(db, L, n, 0, 0, 0)
      [] group = "addColumn" -> IsDb(db, L, L, n, 0, 0)
      [] group = "renameColumn" -> IsDb(db, L, L, L, n, 0)
      [] group = "addFk" -> IsDb(db, L, L, L, L, n)

\* What generateDdl makes of an operation, group by group.
LEMMA StatementIs ==
    ASSUME NEW i
    PROVE  /\ Statement("create", i) =
                IF log[i].kind = "addTable" THEN Create(i) ELSE [kind |-> "none"]
           /\ Statement("renameTable", i) =
                IF log[i].kind = "renameTable" /\ IsBase(log[i].table)
                  THEN [kind |-> "renameTable", table |-> log[i].table.name, to |-> log[i].name]
                  ELSE [kind |-> "none"]
           /\ Statement("addColumn", i) =
                IF log[i].kind = "addColumn" /\ IsBase(log[i].table)
                  THEN [kind |-> "addColumn", table |-> log[i].table.name, column |-> FinalColumn(i)]
                  ELSE [kind |-> "none"]
           /\ Statement("renameColumn", i) =
                IF log[i].kind = "renameColumn" /\ IsBase(log[i].column)
                  THEN [kind |-> "renameColumn", table |-> log[i].table.name, column |-> log[i].column.name,
                        to |-> log[i].name]
                  ELSE [kind |-> "none"]
           /\ Statement("addFk", i) =
                IF log[i].kind = "addFk" /\ ~Inline(log[i])
                  THEN [kind |-> "addFk", fk |-> FkOf(i)]
                  ELSE [kind |-> "none"]
  BY DEF Statement

\* What PostgreSQL makes of a statement while the script runs, and once it failed.
LEMMA ExecIs ==
    ASSUME NEW db, NEW s
    PROVE  /\ ~db.runs => Exec(db, s) = db
           /\ db.runs => /\ s.kind = "none" => Exec(db, s) = db
                         /\ s.kind = "create" => Exec(db, s) = ExecCreate(db, s)
                         /\ s.kind = "renameTable" => Exec(db, s) = ExecRenameTable(db, s)
                         /\ s.kind = "addColumn" => Exec(db, s) = ExecAddColumn(db, s)
                         /\ s.kind = "renameColumn" => Exec(db, s) = ExecRenameColumn(db, s)
                         /\ s.kind = "addFk" => Exec(db, s) = ExecAddFk(db, s)
  BY DEF Exec

\* What holds at the start of a group and is kept by every statement holds after it.
LEMMA GroupRuns ==
    ASSUME DdlInv, NEW group, NEW db, Stage(group, 0, db), db.runs,
           \A n \in 1..Len(log) : \A d : Stage(group, n - 1, d) /\ d.runs =>
               LET r == Exec(d, Statement(group, n)) IN
               (r.runs => Stage(group, n, r)) /\ (Untangled => r.runs)
    PROVE  LET r == After(group, db)[Len(log)] IN
           (r.runs => Stage(group, Len(log), r)) /\ (Untangled => r.runs)
<1> DEFINE L == Len(log)
           f == After(group, db)
           S == {n \in 0..L : (f[n].runs => Stage(group, n, f[n])) /\ (Untangled => f[n].runs)}
<1>0. L \in Nat
  BY OpKinds DEF DdlInv
<1>1. f = [n \in 0..L |-> IF n = 0 THEN db ELSE Exec(f[n - 1], Statement(group, n))]
  BY <1>0, AfterIs
<1>2. f[0] = db /\ \A m \in 0..(L - 1) : f[m + 1] = Exec(f[m], Statement(group, m + 1))
  <2> HIDE DEF f
  <2>1. f[0] = db
    BY <1>0, <1>1
  <2>2. ASSUME NEW m \in 0..(L - 1) PROVE f[m + 1] = Exec(f[m], Statement(group, m + 1))
    <3>1. m + 1 \in 0..L /\ m + 1 # 0 /\ (m + 1) - 1 = m
      BY <1>0
    <3> QED
      BY <1>1, <3>1
  <2> QED
    BY <2>1, <2>2
<1> HIDE DEF f
<1>3. 0 \in S
  BY <1>0, <1>2
<1>4. ASSUME NEW m \in 0..(L - 1), m \in S PROVE m + 1 \in S
  <2> DEFINE n == m + 1
             d == f[m]
             r == Exec(d, Statement(group, n))
  <2>1. n \in 1..L /\ n - 1 = m /\ n \in 0..L
    BY <1>0
  <2>2. f[n] = r
    BY <1>2
  <2>3. (d.runs => Stage(group, m, d)) /\ (Untangled => d.runs)
    BY <1>4
  <2>4. CASE d.runs
    <3>1. Stage(group, n - 1, d) /\ d.runs
      BY <2>1, <2>3, <2>4
    <3>2. (r.runs => Stage(group, n, r)) /\ (Untangled => r.runs)
      BY <2>1, <3>1
    <3> QED
      BY <2>1, <2>2, <3>2
  <2>5. CASE ~d.runs
    <3>1. r = d
      BY <2>5, ExecIs
    <3> QED
      BY <2>1, <2>2, <2>3, <2>5, <3>1
  <2> QED
    BY <2>4, <2>5
<1> HIDE DEF S
<1>5. \A n \in 0..L : n \in S
  <2>1. \A m \in 0..(L - 1) : m \in S => m + 1 \in S
    BY <1>4
  <2> QED
    BY <1>0, <1>3, <2>1, StepByStep
<1>6. L \in S
  BY <1>0, <1>5
<1> QED
  BY <1>6 DEF S, f

\* What EXCEPT does to a database.
LEMMA DbEdited ==
    ASSUME NEW db, DOMAIN db = {"runs", "tables", "fks"}
    PROVE  /\ \A x : LET r == [db EXCEPT !.tables = x] IN
                     DOMAIN r = {"runs", "tables", "fks"} /\ r.runs = db.runs /\ r.tables = x /\ r.fks = db.fks
           /\ \A y : LET r == [db EXCEPT !.fks = y] IN
                     DOMAIN r = {"runs", "tables", "fks"} /\ r.runs = db.runs /\ r.tables = db.tables /\ r.fks = y
           /\ \A x, y : LET r == [db EXCEPT !.tables = x, !.fks = y] IN
                        DOMAIN r = {"runs", "tables", "fks"} /\ r.runs = db.runs /\ r.tables = x /\ r.fks = y
           /\ ~Failed(db).runs
  BY DEF Failed

\* The foreign keys written inside the CREATE TABLE of a new table.
LEMMA FksCreated ==
    ASSUME DdlInv, NEW n \in 1..Len(log)
    PROVE  /\ FksNow(n, 0) = FksNow(n - 1, 0)
                \cup {FkOf(m) : m \in {j \in DOMAIN log : Inline(log[j]) /\ log[j].table = New(n)}}
           /\ log[n].kind # "addTable" => FksNow(n, 0) = FksNow(n - 1, 0)
<1> DEFINE L == Len(log)
<1>0. L \in Nat /\ DOMAIN log = 1..L /\ n \in Nat \ {0}
  BY OpKinds DEF DdlInv
<1>1. ASSUME NEW j \in 1..L, Inline(log[j])
      PROVE  /\ log[j].table.op \in 1..L /\ log[log[j].table.op].kind = "addTable"
             /\ log[j].table = New(n) <=> log[j].table.op = n
  <2>1. log[j].kind = "addFk" /\ ~IsBase(log[j].table)
    BY <1>1 DEF Inline
  <2>2. log[j].table \in Tables(L)
    BY <2>1, FkOfIs
  <2>3. /\ log[j].table.op \in 1..L /\ log[j].table = New(log[j].table.op)
        /\ log[log[j].table.op].kind = "addTable"
    BY <1>0, <2>1, <2>2, TableKinds
  <2>4. New(n).op = n
    BY <1>0, RefsApart
  <2> QED
    BY <2>3, <2>4
<1>2. {j \in 1..L : Inline(log[j]) /\ log[j].table.op <= n} =
      {j \in 1..L : Inline(log[j]) /\ log[j].table.op <= n - 1} \cup
      {j \in 1..L : Inline(log[j]) /\ log[j].table = New(n)}
  <2>1. ASSUME NEW j \in 1..L, Inline(log[j])
        PROVE  log[j].table.op <= n <=> log[j].table.op <= n - 1 \/ log[j].table = New(n)
    <3>1. log[j].table.op \in Nat /\ (log[j].table = New(n) <=> log[j].table.op = n)
      BY <1>0, <1>1, <2>1
    <3> QED
      BY <1>0, <3>1
  <2> QED
    BY <2>1
<1>3. log[n].kind # "addTable" => {j \in 1..L : Inline(log[j]) /\ log[j].table = New(n)} = {}
  BY <1>1
<1>4. FksNow(n, 0) = FksNow(n - 1, 0) \cup {FkOf(m) : m \in {j \in 1..L : Inline(log[j]) /\ log[j].table = New(n)}}
  BY <1>2 DEF FksNow
<1> QED
  BY <1>0, <1>3, <1>4

\* CREATE TABLE makes a table with the name and the columns it has on the canvas last.
LEMMA CreatedTable ==
    ASSUME Clean, NEW n \in 1..Len(log), log[n].kind = "addTable"
    PROVE  /\ Create(n).kind = "create" /\ Create(n).table = TableNow(New(n), 0)
           /\ [columns |-> Range(Create(n).columns), key |-> Create(n).key] = RowNow(New(n), 0, 0)
           /\ IsInjective(Create(n).columns)
           /\ Create(n).fks = {FkOf(m) : m \in {j \in DOMAIN log : Inline(log[j]) /\ log[j].table = New(n)}}
           /\ \A t \in Tables(Len(log)) : t # New(n) => TableNow(t, 0) # TableNow(New(n), 0)
<1> DEFINE L == Len(log)
           t == New(n)
           D == {n} \cup {m \in DOMAIN log : log[m].kind = "addColumn" /\ log[m].table = t}
           f == [m \in D |-> FinalColumn(m)]
<1>0. L \in Nat /\ DOMAIN log = 1..L /\ n \in Nat \ {0} /\ DdlInv
  BY OpKinds DEF DdlInv, Clean
<1>1. t \in Tables(L) /\ ~IsBase(t) /\ t.op = n
  <2>1. t \in Tables(L)
    BY <1>0 DEF Tables
  <2> QED
    BY <1>0, <2>1, RefsApart
<1>2. /\ Create(n).kind = "create" /\ Create(n).table = FinalTable(n) /\ Create(n).columns = f
      /\ Create(n).key = FinalColumn(n)
      /\ Create(n).fks = {FkOf(m) : m \in {j \in DOMAIN log : Inline(log[j]) /\ log[j].table = t}}
  BY DEF Create
<1>3. FinalTable(n) = TableNow(t, 0)
  BY <1>0, <1>1, FinalNames DEF TableNow
<1>4. Columns(t, L) = {New(m) : m \in D}
  BY <1>0, <1>1 DEF Columns
<1>5. \A m \in D : m \in Nat \ {0} /\ m \in 1..L /\ New(m) \in Columns(t, L)
  BY <1>0, <1>4
<1>6. \A m \in D : FinalColumn(m) = ColumnName(t, New(m), L)
  BY <1>0, <1>1, <1>5, FinalNames
<1>7. Range(f) = ColumnsNow(t, 0, 0)
  <2>1. Range(f) = {FinalColumn(m) : m \in D}
    <3> HIDE DEF D
    <3> QED
      BY DEF Range
  <2>2. ColumnsNow(t, 0, 0) = {ColumnName(t, x, L) : x \in Columns(t, L)}
    BY <1>1 DEF ColumnsNow
  <2>3. {FinalColumn(m) : m \in D} = {ColumnName(t, New(m), L) : m \in D}
    BY <1>6
  <2> HIDE DEF D, t, L
  <2>4. {ColumnName(t, x, L) : x \in {New(m) : m \in D}} = {ColumnName(t, New(m), L) : m \in D}
    OBVIOUS
  <2> QED
    BY <1>4, <2>1, <2>2, <2>3, <2>4
<1>8. FinalColumn(n) = KeyNow(t, 0)
  <2>1. Key(t) = t
    BY <1>1 DEF Key
  <2>2. FinalColumn(n) = ColumnName(t, t, L)
    BY <1>6
  <2> QED
    BY <1>1, <2>1, <2>2 DEF KeyNow
<1>9. IsInjective(f)
  <2>1. ASSUME NEW a \in D, NEW b \in D, FinalColumn(a) = FinalColumn(b) PROVE a = b
    <3>1. ColumnName(t, New(a), L) = ColumnName(t, New(b), L)
      BY <1>6, <2>1
    <3>2. New(a) = New(b)
      BY <1>1, <1>5, <3>1, CleanNames
    <3> QED
      BY <1>5, <3>2, RefsApart
  <2> HIDE DEF D
  <2> QED
    BY <2>1 DEF IsInjective
<1>10. ASSUME NEW u \in Tables(L), u # t PROVE TableNow(u, 0) # TableNow(t, 0)
  <2>1. TableNow(t, 0) = TableName(t, L)
    BY <1>1 DEF TableNow
  <2>2. CASE IsBase(u)
    <3>1. TableNow(u, 0) = TableName(u, 0)
      BY <2>2 DEF TableNow
    <3>2. TableRenames(u, 0) = {}
      BY DEF TableRenames
    <3>3. TableName(u, 0) = u.name
      BY <2>2, <3>2, TableNameOf
    <3>4. u.name \in BaseTables
      BY <1>0, <2>2, TableKinds
    <3>5. TableName(t, L) \notin BaseTables
      BY CleanNames
    <3> QED
      BY <2>1, <3>1, <3>3, <3>4, <3>5
  <2>3. CASE ~IsBase(u)
    <3>1. TableNow(u, 0) = TableName(u, L)
      BY <2>3 DEF TableNow
    <3> QED
      BY <1>1, <1>10, <2>1, <3>1, CleanNames
  <2> QED
    BY <2>2, <2>3
<1>11. [columns |-> Range(f), key |-> FinalColumn(n)] = RowNow(t, 0, 0)
  BY <1>7, <1>8 DEF RowNow
<1> HIDE DEF f
<1> QED
  BY <1>2, <1>3, <1>9, <1>10, <1>11

\* CREATE TABLE keeps the database what it should be.
LEMMA CreateStep ==
    ASSUME Clean, NEW n \in 1..Len(log), NEW db, IsDb(db, n - 1, 0, 0, 0, 0)
    PROVE  LET r == Exec(db, Statement("create", n)) IN
           (r.runs => IsDb(r, n, 0, 0, 0, 0)) /\ (Untangled => r.runs)
<1> DEFINE L == Len(log)
           r == Exec(db, Statement("create", n))
<1>0. L \in Nat /\ DOMAIN log = 1..L /\ n \in Nat \ {0} /\ DdlInv
  BY OpKinds DEF DdlInv, Clean
<1>1. CASE log[n].kind # "addTable"
  <2>1. r = db /\ db.runs
    BY <1>1, StatementIs, ExecIs DEF IsDb
  <2>2. Tables(n) = Tables(n - 1) /\ FksNow(n, 0) = FksNow(n - 1, 0)
    BY <1>0, <1>1, OthersKept, FksCreated
  <2> QED
    BY <2>1, <2>2 DEF IsDb
<1>2. CASE log[n].kind = "addTable"
  <2> DEFINE N == TableNow(New(n), 0)
             row == RowNow(New(n), 0, 0)
             T == Put(db.tables, N, row)
             new == {FkOf(m) : m \in {j \in DOMAIN log : Inline(log[j]) /\ log[j].table = New(n)}}
             G == \A fk \in new : CanRefer(T, fk)
             r2 == [db EXCEPT !.tables = T, !.fks = db.fks \cup new]
  <2>1. /\ Tables(n) = Tables(n - 1) \cup {New(n)} /\ New(n) \notin Tables(n - 1)
        /\ Tables(n - 1) \subseteq Tables(L) /\ New(n) \in Tables(L)
    <3>1. Tables(n - 1) \subseteq Tables(L) /\ New(n) \in Tables(L)
      BY <1>0, <1>2 DEF Tables
    <3> QED
      BY <1>0, <1>2, <3>1, OthersKept, NotYetNamed
  <2>2. \A t \in Tables(n - 1) : TableNow(t, 0) # N
    BY <1>2, <2>1, CreatedTable
  <2>3. DOMAIN db.tables = {TableNow(t, 0) : t \in Tables(n - 1)} /\ N \notin DOMAIN db.tables
    <3>1. db.tables = [x \in {TableNow(t, 0) : t \in Tables(n - 1)} |-> db.tables[x]]
      BY DEF IsDb
    <3>2. DOMAIN db.tables = {TableNow(t, 0) : t \in Tables(n - 1)}
      BY <3>1
    <3> QED
      BY <2>2, <3>2
  <2>4. r = IF G THEN r2 ELSE Failed(db)
    <3>1. r = ExecCreate(db, Create(n))
      BY <1>2, StatementIs, ExecIs, CreatedTable DEF IsDb
    <3>2. /\ Create(n).table = N /\ IsInjective(Create(n).columns) /\ Create(n).fks = new
          /\ [columns |-> Range(Create(n).columns), key |-> Create(n).key] = row
      BY <1>2, CreatedTable
    <3> HIDE DEF N, row, new
    <3> QED
      BY <2>3, <3>1, <3>2 DEF ExecCreate
  <2>5. /\ DOMAIN r2 = {"runs", "tables", "fks"} /\ r2.runs = db.runs /\ r2.tables = T /\ r2.fks = db.fks \cup new
        /\ ~Failed(db).runs /\ db.runs
    <3> HIDE DEF T, new
    <3> QED
      BY DbEdited DEF IsDb
  <2>6. DOMAIN T = {TableNow(t, 0) : t \in Tables(n)}
    BY <2>1, <2>3 DEF Put
  <2>7. \A t \in Tables(n) : T[TableNow(t, 0)] = RowNow(t, 0, 0)
    <3>1. \A t \in Tables(n - 1) : T[TableNow(t, 0)] = RowNow(t, 0, 0)
      BY <2>2, <2>3 DEF Put, IsDb
    <3>2. T[N] = row
      BY DEF Put
    <3> QED
      BY <2>1, <3>1, <3>2
  <2>8. IsDb(r2, n, 0, 0, 0, 0)
    <3>1. T = [x \in {TableNow(t, 0) : t \in Tables(n)} |-> T[x]]
      BY <2>6 DEF Put
    <3>2. \A t, u \in Tables(n) : TableNow(t, 0) = TableNow(u, 0) => t = u
      BY <2>1, <2>2 DEF IsDb
    <3>3. \A t \in Tables(n) : IsBase(t) => \A i, j \in TableRenames(t, 0) : i = j
      BY DEF TableRenames
    <3>4. db.fks \cup new = FksNow(n, 0)
      BY <1>0, FksCreated DEF IsDb
    <3> HIDE DEF T, new, r2
    <3> QED
      BY <2>5, <2>7, <3>1, <3>2, <3>3, <3>4 DEF IsDb
  <2>9. ASSUME Untangled PROVE G
    <3>1. SUFFICES ASSUME NEW m \in 1..L, Inline(log[m]), log[m].table = New(n)
                   PROVE  CanRefer(T, FkOf(m))
      BY <1>0
    <3> DEFINE t == log[m].target
    <3>2. log[m].kind = "addFk" /\ ~IsBase(New(n)) /\ ~IsBase(t)
      BY <3>1 DEF Inline
    <3>3. t.op < New(n).op
      BY <1>0, <2>9, <3>1 DEF Untangled
    <3>4. /\ t \in Tables(L) /\ Key(t) \in Columns(t, L) /\ log[m].column \in Columns(New(n), L)
          /\ FkOf(m) = [from |-> FkTable(New(n)), column |-> ColumnName(New(n), log[m].column, L),
                        to |-> FkTable(t), key |-> ColumnName(t, Key(t), L)]
          /\ FkTable(New(n)) = TableName(New(n), L) /\ FkTable(t) = TableName(t, L)
      <4> DEFINE u == log[m].table
      <4>1. /\ t \in Tables(L) /\ Key(t) \in Columns(t, L) /\ log[m].column \in Columns(u, L)
            /\ FkOf(m) = [from |-> FkTable(u), column |-> ColumnName(u, log[m].column, L),
                          to |-> FkTable(t), key |-> ColumnName(t, Key(t), L)]
            /\ ~IsBase(u) => FkTable(u) = TableName(u, L)
            /\ ~IsBase(t) => FkTable(t) = TableName(t, L)
        BY <1>0, <3>2, FkOfIs
      <4>2. u = New(n)
        BY <3>1
      <4> HIDE DEF t, u
      <4> QED
        BY <3>2, <4>1, <4>2
    <3>5. t \in Tables(n - 1)
      <4>1. t.op \in 1..L /\ t = New(t.op) /\ log[t.op].kind = "addTable"
        BY <1>0, <3>2, <3>4, TableKinds
      <4>2. New(n).op = n
        BY <1>0, RefsApart
      <4>3. t.op \in 1..(n - 1)
        BY <1>0, <3>3, <4>1, <4>2
      <4> QED
        BY <4>1, <4>3 DEF Tables
    <3>6. FkTable(New(n)) = N /\ FkTable(t) = TableNow(t, 0)
      BY <3>2, <3>4 DEF TableNow
    <3>7. T[N] = row /\ T[TableNow(t, 0)] = RowNow(t, 0, 0) /\ N \in DOMAIN T /\ TableNow(t, 0) \in DOMAIN T
      BY <2>1, <2>6, <2>7, <3>5
    <3>8. ColumnName(New(n), log[m].column, L) \in row.columns
      BY <3>2, <3>4 DEF RowNow, ColumnsNow
    <3>9. ColumnName(t, Key(t), L) = RowNow(t, 0, 0).key
      BY <3>2 DEF RowNow, KeyNow
    <3> HIDE DEF T, N, row, t
    <3> QED
      BY <3>4, <3>6, <3>7, <3>8, <3>9 DEF CanRefer
  <2> HIDE DEF r2, G, T
  <2> QED
    BY <2>4, <2>5, <2>8, <2>9
<1> QED
  BY <1>1, <1>2

\* The tables in the database have the names of the canvas, those of the base so far.
LEMMA TablesThere ==
    ASSUME NEW db, NEW a, NEW b, NEW c, NEW d, NEW e, IsDb(db, a, b, c, d, e)
    PROVE  DOMAIN db.tables = {TableNow(t, b) : t \in Tables(a)}
<1>1. db.tables = [x \in {TableNow(t, b) : t \in Tables(a)} |-> db.tables[x]]
  BY DEF IsDb
<1> QED
  BY <1>1

\* A name of the base is that of its table, which then was not renamed.
LEMMA BaseNameOf ==
    ASSUME Clean, NEW n \in 0..Len(log), NEW t \in Tables(Len(log)), TableNow(t, n) \in BaseTables
    PROVE  IsBase(t) /\ t = Base(TableNow(t, n)) /\ TableRenames(t, n) = {}
<1> DEFINE L == Len(log)
<1>0. L \in Nat /\ DdlInv
  BY OpKinds DEF DdlInv, Clean
<1>1. CASE ~IsBase(t)
  <2>1. t.op \in 1..L /\ t = New(t.op) /\ log[t.op].kind = "addTable"
    BY <1>0, <1>1, TableKinds
  <2>2. TableName(New(t.op), L) \notin BaseTables
    BY <2>1, CleanNames
  <2>3. TableNow(t, n) = TableName(t, L)
    BY <1>1 DEF TableNow
  <2> QED
    BY <2>1, <2>2, <2>3
<1>2. CASE IsBase(t)
  <2>1. TableNow(t, n) = TableName(t, n)
    BY <1>2 DEF TableNow
  <2>2. TableRenames(t, n) = {}
    BY <1>2, <2>1, BaseNames
  <2>3. TableName(t, n) = t.name
    BY <1>2, <2>2, BaseNames
  <2>4. t = Base(t.name)
    BY <1>0, <1>2, TableKinds
  <2> QED
    BY <1>2, <2>1, <2>2, <2>3, <2>4
<1> QED
  BY <1>1, <1>2

\* ALTER TABLE ... RENAME TO keeps the database what it should be.
LEMMA RenameTableStep ==
    ASSUME Clean, NEW n \in 1..Len(log), NEW db, IsDb(db, Len(log), n - 1, 0, 0, 0)
    PROVE  LET r == Exec(db, Statement("renameTable", n)) IN
           (r.runs => IsDb(r, Len(log), n, 0, 0, 0)) /\ (Untangled => r.runs)
<1> DEFINE L == Len(log)
           r == Exec(db, Statement("renameTable", n))
           u == log[n].table
           D == DOMAIN db.tables
<1>0. L \in Nat /\ DOMAIN log = 1..L /\ n \in Nat \ {0} /\ n \in 0..L /\ n - 1 \in 0..L /\ DdlInv
  BY OpKinds DEF DdlInv, Clean
<1>1. D = {TableNow(t, n - 1) : t \in Tables(L)} /\ db.tables = [x \in D |-> db.tables[x]]
  <2>1. D = {TableNow(t, n - 1) : t \in Tables(L)}
    BY TablesThere
  <2> QED
    BY <2>1 DEF IsDb
<1>2. ASSUME NEW t \in Tables(L), ~(log[n].kind = "renameTable" /\ IsBase(u)) \/ t # u
      PROVE  TableNow(t, n) = TableNow(t, n - 1) /\ (IsBase(t) => TableRenames(t, n) = TableRenames(t, n - 1))
  <2>1. CASE IsBase(t)
    <3>1. ~(log[n].kind = "renameTable" /\ u = t)
      BY <1>2, <2>1
    <3>2. TableName(t, n) = TableName(t, n - 1)
      BY <1>0, <3>1, NextTableName
    <3>3. TableRenames(t, n) = TableRenames(t, n - 1)
      BY <1>0, <3>1 DEF TableRenames
    <3> QED
      BY <2>1, <3>2, <3>3 DEF TableNow
  <2>2. CASE ~IsBase(t)
    BY <2>2 DEF TableNow
  <2> QED
    BY <2>1, <2>2
<1>3. CASE ~(log[n].kind = "renameTable" /\ IsBase(u))
  <2>1. r = db /\ db.runs
    BY <1>3, StatementIs, ExecIs DEF IsDb
  <2>2. \A t \in Tables(L) :
           TableNow(t, n) = TableNow(t, n - 1) /\ (IsBase(t) => TableRenames(t, n) = TableRenames(t, n - 1))
    BY <1>2, <1>3
  <2>3. D = {TableNow(t, n) : t \in Tables(L)}
    BY <1>1, <2>2
  <2>4. IsDb(db, L, n, 0, 0, 0)
    BY <1>1, <2>2, <2>3 DEF IsDb
  <2> QED
    BY <2>1, <2>4
<1>4. CASE log[n].kind = "renameTable" /\ IsBase(u)
  <2> DEFINE old == u.name
             new == log[n].name
             T == [x \in (D \ {old}) \cup {new} |-> IF x = new THEN db.tables[old] ELSE db.tables[x]]
             G == old \in D /\ new \notin D
             r2 == [db EXCEPT !.tables = T]
  <2>1. u \in Tables(L) /\ u = Base(old) /\ old \in BaseTables
    <3>1. Tables(n - 1) \subseteq Tables(L)
      BY <1>0 DEF Tables
    <3>2. u \in Tables(L)
      BY <1>0, <1>4, <3>1, OthersKept
    <3> QED
      BY <1>0, <1>4, <3>2, TableKinds
  <2>2. r = IF G THEN r2 ELSE Failed(db)
    <3>1. r = ExecRenameTable(db, [kind |-> "renameTable", table |-> old, to |-> new])
      BY <1>4, StatementIs, ExecIs DEF IsDb
    <3> HIDE DEF old, new
    <3> QED
      BY <3>1 DEF ExecRenameTable
  <2>3. /\ DOMAIN r2 = {"runs", "tables", "fks"} /\ r2.runs = db.runs /\ r2.tables = T /\ r2.fks = db.fks
        /\ ~Failed(db).runs /\ db.runs
    <3> HIDE DEF T
    <3> QED
      BY DbEdited DEF IsDb
  <2>4. TableNow(u, n) = new /\ TableName(u, n) = new
    <3>1. TableName(u, n) = new
      BY <1>0, <1>4, NextTableName
    <3> QED
      BY <1>4, <3>1 DEF TableNow
  <2>5. TableRenames(u, n) = TableRenames(u, n - 1) \cup {n}
    BY <1>0, <1>4 DEF TableRenames
  <2>6. ASSUME G PROVE IsDb(r2, L, n, 0, 0, 0)
    <3>1. TableNow(u, n - 1) = old /\ TableRenames(u, n - 1) = {}
      <4>1. PICK t \in Tables(L) : TableNow(t, n - 1) = old
        BY <1>1, <2>6
      <4>2. t = Base(old) /\ TableRenames(t, n - 1) = {}
        BY <1>0, <2>1, <4>1, BaseNameOf
      <4> QED
        BY <2>1, <4>1, <4>2
    <3>2. \A t \in Tables(L) : t # u => TableNow(t, n) = TableNow(t, n - 1) /\ TableNow(t, n) # old /\ TableNow(t, n) \in D
      BY <1>1, <1>2, <2>1, <3>1 DEF IsDb
    <3>3. (D \ {old}) \cup {new} = {TableNow(t, n) : t \in Tables(L)}
      <4>1. ASSUME NEW x \in D, x # old PROVE \E t \in Tables(L) : x = TableNow(t, n)
        <5>1. PICK t \in Tables(L) : x = TableNow(t, n - 1)
          BY <1>1, <4>1
        <5>2. t # u
          BY <3>1, <4>1, <5>1
        <5> QED
          BY <3>2, <5>1, <5>2
      <4>2. \A t \in Tables(L) : TableNow(t, n) \in (D \ {old}) \cup {new}
        BY <2>4, <3>2
      <4> HIDE DEF D, old, new
      <4> QED
        BY <2>1, <2>4, <4>1, <4>2
    <3>4. T = [x \in {TableNow(t, n) : t \in Tables(L)} |-> T[x]]
      BY <3>3
    <3>5. ASSUME NEW t \in Tables(L) PROVE T[TableNow(t, n)] = RowNow(t, 0, 0)
      <4>1. CASE t = u
        <5>1. db.tables[old] = RowNow(u, 0, 0)
          BY <2>1, <3>1 DEF IsDb
        <5>2. T[new] = db.tables[old]
          OBVIOUS
        <5> QED
          BY <2>4, <4>1, <5>1, <5>2
      <4>2. CASE t # u
        <5>1. db.tables[TableNow(t, n)] = RowNow(t, 0, 0)
          BY <3>2, <4>2 DEF IsDb
        <5>2. TableNow(t, n) \in D \ {old} /\ TableNow(t, n) # new
          BY <2>6, <3>2, <4>2
        <5> QED
          BY <5>1, <5>2
      <4> QED
        BY <4>1, <4>2
    <3>6. ASSUME NEW t \in Tables(L), NEW v \in Tables(L), TableNow(t, n) = TableNow(v, n) PROVE t = v
      <4>1. CASE t # u /\ v # u
        BY <3>2, <3>6, <4>1 DEF IsDb
      <4>2. CASE t = u \/ v = u
        BY <2>4, <2>6, <3>2, <3>6, <4>2
      <4> QED
        BY <4>1, <4>2
    <3>7. ASSUME NEW t \in Tables(L), IsBase(t) PROVE \A i, j \in TableRenames(t, n) : i = j
      <4>1. CASE t = u
        BY <2>5, <3>1, <4>1
      <4>2. CASE t # u
        BY <1>2, <3>7, <4>2 DEF IsDb
      <4> QED
        BY <4>1, <4>2
    <3>8. db.fks = FksNow(L, 0)
      BY DEF IsDb
    <3> HIDE DEF T, r2, L
    <3> QED
      BY <2>3, <3>4, <3>5, <3>6, <3>7, <3>8 DEF IsDb
  <2>7. ASSUME Untangled PROVE G
    <3>1. TableRenames(u, n - 1) = {}
      <4>1. TableRenames(u, n - 1) \subseteq TableRenames(u, L) /\ n \in TableRenames(u, L)
        BY <1>0, <1>4 DEF TableRenames
      <4>2. n \notin TableRenames(u, n - 1)
        BY <1>0 DEF TableRenames
      <4> QED
        BY <1>0, <1>4, <2>1, <2>7, <4>1, <4>2, OneRename
    <3>2. TableNow(u, n - 1) = old
      BY <1>0, <1>4, <2>1, <3>1, BaseNames DEF TableNow
    <3>3. new \notin BaseTables /\ new = TableName(u, L)
      <4>1. new \notin BaseTables
        BY <1>0, <1>4, CleanNames
      <4>2. TableName(u, n) = TableName(u, L)
        BY <1>0, <1>4, <2>1, <2>5, <2>7, OneRename
      <4> QED
        BY <2>4, <4>1, <4>2
    <3>4. ASSUME NEW t \in Tables(L) PROVE TableNow(t, n - 1) # new
      <4>1. CASE t = u
        BY <2>1, <3>2, <3>3, <4>1
      <4>2. CASE t # u /\ ~IsBase(t)
        BY <2>1, <3>3, <4>2, CleanNames DEF TableNow
      <4>3. CASE t # u /\ IsBase(t)
        <5>1. TableNow(t, n - 1) = TableName(t, n - 1)
          BY <4>3 DEF TableNow
        <5>2. CASE TableRenames(t, n - 1) = {}
          <6>1. TableName(t, n - 1) = t.name /\ t.name \in BaseTables
            BY <1>0, <4>3, <5>2, BaseNames, TableKinds
          <6> QED
            BY <3>3, <5>1, <6>1
        <5>3. CASE TableRenames(t, n - 1) # {}
          <6>1. TableName(t, n - 1) = TableName(t, L)
            BY <1>0, <2>7, <4>3, <5>3, OneRename
          <6> QED
            BY <2>1, <3>3, <4>3, <5>1, <6>1, CleanNames
        <5> QED
          BY <5>2, <5>3
      <4> QED
        BY <4>1, <4>2, <4>3
    <3> HIDE DEF old, new
    <3> QED
      BY <1>1, <2>1, <3>2, <3>4
  <2> HIDE DEF r2, G
  <2> QED
    BY <2>2, <2>3, <2>6, <2>7
<1> QED
  BY <1>3, <1>4

\* What EXCEPT does to a row of a database.
LEMMA RowEdited ==
    ASSUME NEW db, DOMAIN db = {"runs", "tables", "fks"}, NEW D, NEW t \in D,
           db.tables = [x \in D |-> db.tables[x]]
    PROVE  /\ \A v : LET r == [db EXCEPT !.tables[t] = v] IN
                     /\ DOMAIN r = {"runs", "tables", "fks"} /\ r.runs = db.runs /\ r.fks = db.fks
                     /\ r.tables = [x \in D |-> IF x = t THEN v ELSE db.tables[x]]
           /\ \A c : [db EXCEPT !.tables[t].columns = @ \cup {c}] =
                     [db EXCEPT !.tables[t] = [db.tables[t] EXCEPT !.columns = @ \cup {c}]]
<1>1. ASSUME NEW v
      PROVE  LET r == [db EXCEPT !.tables[t] = v] IN
             /\ DOMAIN r = {"runs", "tables", "fks"} /\ r.runs = db.runs /\ r.fks = db.fks
             /\ r.tables = [x \in D |-> IF x = t THEN v ELSE db.tables[x]]
  <2> DEFINE T == [db.tables EXCEPT ![t] = v]
             r == [db EXCEPT !.tables = T]
  <2>1. [db EXCEPT !.tables[t] = v] = r
    OBVIOUS
  <2>2. DOMAIN r = {"runs", "tables", "fks"} /\ r.runs = db.runs /\ r.tables = T /\ r.fks = db.fks
    <3> HIDE DEF T
    <3> QED
      BY DbEdited
  <2>3. T = [x \in D |-> IF x = t THEN v ELSE db.tables[x]]
    OBVIOUS
  <2> HIDE DEF T, r
  <2> QED
    BY <2>1, <2>2, <2>3
<1>2. ASSUME NEW c
      PROVE  [db EXCEPT !.tables[t].columns = @ \cup {c}] =
             [db EXCEPT !.tables[t] = [db.tables[t] EXCEPT !.columns = @ \cup {c}]]
  OBVIOUS
<1> QED
  BY <1>1, <1>2

\* ALTER TABLE ... ADD COLUMN keeps the database what it should be.
LEMMA AddColumnStep ==
    ASSUME Clean, NEW n \in 1..Len(log), NEW db, IsDb(db, Len(log), Len(log), n - 1, 0, 0)
    PROVE  LET r == Exec(db, Statement("addColumn", n)) IN
           (r.runs => IsDb(r, Len(log), Len(log), n, 0, 0)) /\ (Untangled => r.runs)
<1> DEFINE L == Len(log)
           r == Exec(db, Statement("addColumn", n))
           u == log[n].table
           D == DOMAIN db.tables
<1>0. L \in Nat /\ DOMAIN log = 1..L /\ n \in Nat \ {0} /\ L \in 0..L /\ 0 \in 0..L /\ DdlInv
  BY OpKinds DEF DdlInv, Clean
<1>1. D = {TableNow(t, L) : t \in Tables(L)} /\ db.tables = [x \in D |-> db.tables[x]]
  <2>1. D = {TableNow(t, L) : t \in Tables(L)}
    BY TablesThere
  <2> QED
    BY <2>1 DEF IsDb
<1>2. ASSUME NEW t \in Tables(L), ~(log[n].kind = "addColumn" /\ IsBase(u)) \/ t # u
      PROVE  RowNow(t, n, 0) = RowNow(t, n - 1, 0)
  <2>1. CASE IsBase(t)
    <3>1. {j \in 1..n : log[j].kind = "addColumn" /\ log[j].table = t} =
          {j \in 1..(n - 1) : log[j].kind = "addColumn" /\ log[j].table = t}
      BY <1>0, <1>2, <2>1
    <3> QED
      BY <2>1, <3>1 DEF RowNow, ColumnsNow
  <2>2. CASE ~IsBase(t)
    BY <2>2 DEF RowNow, ColumnsNow
  <2> QED
    BY <2>1, <2>2
<1>3. CASE ~(log[n].kind = "addColumn" /\ IsBase(u))
  <2>1. r = db /\ db.runs
    BY <1>3, StatementIs, ExecIs DEF IsDb
  <2>2. \A t \in Tables(L) : RowNow(t, n, 0) = RowNow(t, n - 1, 0)
    BY <1>2, <1>3
  <2>3. IsDb(db, L, L, n, 0, 0)
    BY <2>2 DEF IsDb
  <2> QED
    BY <2>1, <2>3
<1>4. CASE log[n].kind = "addColumn" /\ IsBase(u)
  <2> DEFINE old == u.name
             col == ColumnName(u, New(n), L)
             G == old \in D /\ col \notin db.tables[old].columns
             r2 == [db EXCEPT !.tables[old].columns = @ \cup {col}]
  <2>1. u \in Tables(L) /\ u = Base(old) /\ old \in BaseTables
    <3>1. Tables(n - 1) \subseteq Tables(L)
      BY <1>0 DEF Tables
    <3>2. u \in Tables(L)
      BY <1>0, <1>4, <3>1, OthersKept
    <3> QED
      BY <1>0, <1>4, <3>2, TableKinds
  <2>2. \A i \in 1..L : log[i].kind = "addColumn" /\ log[i].table = u => New(i) \in Columns(u, L)
    BY DEF Columns
  <2>3. FinalColumn(n) = col
    BY <1>0, <1>4, <2>1, <2>2, FinalNames
  <2>4. r = IF G THEN r2 ELSE Failed(db)
    <3>1. r = ExecAddColumn(db, [kind |-> "addColumn", table |-> old, column |-> col])
      BY <1>4, <2>3, StatementIs, ExecIs DEF IsDb
    <3> HIDE DEF old, col
    <3> QED
      BY <3>1 DEF ExecAddColumn
  <2>5. ~Failed(db).runs /\ db.runs
    BY DbEdited DEF IsDb
  <2>6. ColumnsNow(u, n, 0) = ColumnsNow(u, n - 1, 0) \cup {col} /\ KeyNow(u, 0) = RowNow(u, n - 1, 0).key
    <3>1. {j \in 1..n : log[j].kind = "addColumn" /\ log[j].table = u} =
          {j \in 1..(n - 1) : log[j].kind = "addColumn" /\ log[j].table = u} \cup {n}
      BY <1>0, <1>4
    <3> QED
      BY <1>4, <3>1 DEF ColumnsNow, RowNow
  <2>7. TableNow(u, L) \in D
    BY <1>1, <2>1
  <2>8. ASSUME G PROVE IsDb(r2, L, L, n, 0, 0) /\ r2.runs
    <3> DEFINE row == [db.tables[old] EXCEPT !.columns = @ \cup {col}]
               T == [x \in D |-> IF x = old THEN row ELSE db.tables[x]]
    <3>1. TableNow(u, L) = old
      <4>1. PICK t \in Tables(L) : TableNow(t, L) = old
        BY <1>1, <2>8
      <4>2. t = Base(old)
        BY <1>0, <2>1, <4>1, BaseNameOf
      <4> QED
        BY <2>1, <4>1, <4>2
    <3>2. DOMAIN r2 = {"runs", "tables", "fks"} /\ r2.runs = db.runs /\ r2.tables = T /\ r2.fks = db.fks
      <4>1. r2 = [db EXCEPT !.tables[old] = row]
        <5> HIDE DEF D, old, col
        <5> QED
          BY <1>1, <2>8, RowEdited DEF IsDb
      <4>2. \A v : LET q == [db EXCEPT !.tables[old] = v] IN
                  /\ DOMAIN q = {"runs", "tables", "fks"} /\ q.runs = db.runs /\ q.fks = db.fks
                  /\ q.tables = [x \in D |-> IF x = old THEN v ELSE db.tables[x]]
        <5> HIDE DEF D, old
        <5> QED
          BY <1>1, <2>8, RowEdited DEF IsDb
      <4> HIDE DEF row, D, old, r2
      <4> QED
        BY <4>1, <4>2
    <3>3. row = RowNow(u, n, 0)
      <4>1. db.tables[old] = [columns |-> ColumnsNow(u, n - 1, 0), key |-> KeyNow(u, 0)]
        <5>1. db.tables[old] = RowNow(u, n - 1, 0)
          BY <2>1, <3>1 DEF IsDb
        <5> QED
          BY <5>1 DEF RowNow
      <4>2. row = [columns |-> ColumnsNow(u, n - 1, 0) \cup {col}, key |-> KeyNow(u, 0)]
        <5>1. \A a, k, c : [[columns |-> a, key |-> k] EXCEPT !.columns = c] = [columns |-> c, key |-> k]
          OBVIOUS
        <5>2. row = [db.tables[old] EXCEPT !.columns = ColumnsNow(u, n - 1, 0) \cup {col}]
          BY <4>1
        <5> DEFINE A == ColumnsNow(u, n - 1, 0)
                   K == KeyNow(u, 0)
        <5>3. [[columns |-> A, key |-> K] EXCEPT !.columns = A \cup {col}] = [columns |-> A \cup {col}, key |-> K]
          <6> HIDE DEF A, K, col
          <6> QED
            BY <5>1
        <5>4. row = [[columns |-> A, key |-> K] EXCEPT !.columns = A \cup {col}]
          BY <4>1
        <5> HIDE DEF row, col, A, K
        <5> QED
          BY <5>3, <5>4 DEF A, K
      <4> QED
        BY <2>6, <4>2 DEF RowNow
    <3>4. ASSUME NEW t \in Tables(L) PROVE T[TableNow(t, L)] = RowNow(t, n, 0)
      <4>1. TableNow(t, L) \in D
        BY <1>1
      <4>2. CASE t = u
        BY <3>1, <3>3, <4>1, <4>2
      <4>3. CASE t # u
        <5>1. TableNow(t, L) # old
          BY <2>1, <3>1, <4>3 DEF IsDb
        <5>2. db.tables[TableNow(t, L)] = RowNow(t, n, 0)
          BY <1>2, <4>3 DEF IsDb
        <5> QED
          BY <4>1, <5>1, <5>2
      <4> QED
        BY <4>2, <4>3
    <3>5. T = [x \in {TableNow(t, L) : t \in Tables(L)} |-> T[x]]
      BY <1>1
    <3>6. /\ \A t, v \in Tables(L) : TableNow(t, L) = TableNow(v, L) => t = v
          /\ \A t \in Tables(L) : IsBase(t) => \A i, j \in TableRenames(t, L) : i = j
          /\ db.fks = FksNow(L, 0)
      BY DEF IsDb
    <3> HIDE DEF T, r2, L
    <3> QED
      BY <2>5, <3>2, <3>4, <3>5, <3>6 DEF IsDb
  <2>9. ASSUME Untangled PROVE G
    <3>1. TableRenames(u, L) = {}
      BY <1>0, <1>4, <2>9 DEF TableRenames, Untangled
    <3>2. TableNow(u, L) = old
      BY <1>0, <1>4, <2>1, <3>1, BaseNames DEF TableNow
    <3>3. db.tables[old].columns = ColumnsNow(u, n - 1, 0)
      <4>1. db.tables[old] = RowNow(u, n - 1, 0)
        BY <2>1, <3>2 DEF IsDb
      <4> QED
        BY <4>1 DEF RowNow
    <3>4. \A x \in BaseColumns[old] : ColumnName(u, Base(x), 0) # col
      <4>1. ASSUME NEW x \in BaseColumns[old] PROVE ColumnName(u, Base(x), 0) = x
        <5>1. ColumnRenames(u, Base(x), 0) = {}
          BY DEF ColumnRenames
        <5> QED
          BY <1>0, <1>4, <2>1, <5>1, BaseNames
      <4>2. col \notin BaseColumns[old]
        BY <1>0, <1>4, <2>1, BaseNames
      <4> QED
        BY <4>1, <4>2
    <3>5. \A i \in 1..(n - 1) : log[i].kind = "addColumn" /\ log[i].table = u => ColumnName(u, New(i), L) # col
      <4>1. SUFFICES ASSUME NEW i \in 1..(n - 1), log[i].kind = "addColumn", log[i].table = u,
                            ColumnName(u, New(i), L) = col
                     PROVE  FALSE
        OBVIOUS
      <4>2. i \in 1..L /\ i \in Nat \ {0} /\ i # n
        BY <1>0
      <4>3. New(i) = New(n)
        BY <1>4, <2>1, <2>2, <4>1, <4>2, CleanNames
      <4> QED
        BY <1>0, <4>2, <4>3, RefsApart
    <3>6. col \notin ColumnsNow(u, n - 1, 0)
      <4> HIDE DEF col
      <4> QED
        BY <1>4, <3>4, <3>5 DEF ColumnsNow
    <3> QED
      BY <2>7, <3>2, <3>3, <3>6
  <2> HIDE DEF r2, G
  <2> QED
    BY <2>4, <2>5, <2>8, <2>9
<1> QED
  BY <1>3, <1>4

\* ALTER TABLE ... RENAME COLUMN keeps the database what it should be.
LEMMA RenameColumnStep ==
    ASSUME Clean, NEW n \in 1..Len(log), NEW db, IsDb(db, Len(log), Len(log), Len(log), n - 1, 0)
    PROVE  LET r == Exec(db, Statement("renameColumn", n)) IN
           (r.runs => IsDb(r, Len(log), Len(log), Len(log), n, 0)) /\ (Untangled => r.runs)
<1> DEFINE L == Len(log)
           r == Exec(db, Statement("renameColumn", n))
           u == log[n].table
           D == DOMAIN db.tables
           x == log[n].column.name
           new == log[n].name
<1>0. L \in Nat /\ DOMAIN log = 1..L /\ n \in Nat \ {0} /\ L \in 0..L /\ n \in 0..L /\ n - 1 \in 0..L /\ DdlInv
  BY OpKinds DEF DdlInv, Clean
<1>1. D = {TableNow(t, L) : t \in Tables(L)} /\ db.tables = [y \in D |-> db.tables[y]]
  <2>1. D = {TableNow(t, L) : t \in Tables(L)}
    BY TablesThere
  <2> QED
    BY <2>1 DEF IsDb
<1>2. ASSUME NEW t \in Tables(L), ~(log[n].kind = "renameColumn" /\ IsBase(log[n].column)) \/ t # u
      PROVE  RowNow(t, L, n) = RowNow(t, L, n - 1)
  <2>1. CASE IsBase(t)
    <3>1. \A y : ColumnName(t, Base(y), n) = ColumnName(t, Base(y), n - 1)
      BY <1>0, <1>2, NextColumnName, RefsApart
    <3>2. Key(t) = Base(KeyName)
      BY <2>1 DEF Key
    <3> QED
      BY <2>1, <3>1, <3>2 DEF RowNow, ColumnsNow, KeyNow
  <2>2. CASE ~IsBase(t)
    BY <2>2 DEF RowNow, ColumnsNow, KeyNow
  <2> QED
    BY <2>1, <2>2
<1>3. CASE ~(log[n].kind = "renameColumn" /\ IsBase(log[n].column))
  <2>1. r = db /\ db.runs
    BY <1>3, StatementIs, ExecIs DEF IsDb
  <2>2. \A t \in Tables(L) : RowNow(t, L, n) = RowNow(t, L, n - 1)
    BY <1>2, <1>3
  <2>3. IsDb(db, L, L, L, n, 0)
    BY <2>2 DEF IsDb
  <2> QED
    BY <2>1, <2>3
<1>4. CASE log[n].kind = "renameColumn" /\ IsBase(log[n].column)
  <2> DEFINE old == u.name
             before == ColumnsNow(u, L, n - 1)
             row == [columns |-> (db.tables[old].columns \ {x}) \cup {new},
                     key |-> IF db.tables[old].key = x THEN new ELSE db.tables[old].key]
             G == old \in D /\ x \in db.tables[old].columns /\ new \notin db.tables[old].columns
             r2 == [db EXCEPT !.tables[old] = row]
             added == {ColumnName(u, New(i), L) : i \in {j \in 1..L : log[j].kind = "addColumn" /\ log[j].table = u}}
  <2>1. /\ u \in Tables(L) /\ IsBase(u) /\ u = Base(old) /\ old \in BaseTables
        /\ x \in BaseColumns[old] /\ log[n].column = Base(x)
    <3>1. u \in Tables(n - 1) /\ log[n].column \in Columns(u, n - 1) /\ Tables(n - 1) \subseteq Tables(L)
      <4>1. Tables(n - 1) \subseteq Tables(L)
        BY <1>0 DEF Tables
      <4> QED
        BY <1>0, <1>4, <4>1 DEF DdlInv, RefersBack
    <3>2. n - 1 \in Nat /\ \A i \in 1..(n - 1) : i \in Nat \ {0}
      BY <1>0
    <3>3. IsBase(u)
      <4>1. SUFFICES ASSUME ~IsBase(u) PROVE FALSE
        OBVIOUS
      <4>2. u.op \in 1..(n - 1) /\ u = New(u.op)
        BY <3>1, <3>2, <4>1, TableKinds
      <4>3. \E i \in 1..(n - 1) : log[n].column = New(i)
        BY <3>1, <4>1, <4>2 DEF Columns
      <4> QED
        BY <1>4, <3>2, <4>3, RefsApart
    <3>4. \E y \in BaseColumns[old] : log[n].column = Base(y)
      BY <1>4, <3>1, <3>2, <3>3, RefsApart DEF Columns
    <3>5. x \in BaseColumns[old] /\ log[n].column = Base(x)
      BY <3>4, RefsApart
    <3> QED
      BY <1>0, <3>1, <3>3, <3>5, TableKinds
  <2>2. r = IF G THEN r2 ELSE Failed(db)
    <3>1. r = ExecRenameColumn(db, [kind |-> "renameColumn", table |-> old, column |-> x, to |-> new])
      BY <1>4, StatementIs, ExecIs DEF IsDb
    <3> DEFINE s == [kind |-> "renameColumn", table |-> old, column |-> x, to |-> new]
    <3>2. s.table = old /\ s.column = x /\ s.to = new
      OBVIOUS
    <3> HIDE DEF old, x, new, s
    <3> QED
      BY <3>1, <3>2, Zenon DEF ExecRenameColumn
  <2>3. ~Failed(db).runs /\ db.runs
    BY DbEdited DEF IsDb
  <2>4. /\ ColumnName(u, Base(x), n) = new
        /\ \A y : y # x => ColumnName(u, Base(y), n) = ColumnName(u, Base(y), n - 1)
    BY <1>0, <1>4, <2>1, NextColumnName, RefsApart
  <2>5. /\ before = {ColumnName(u, Base(y), n - 1) : y \in BaseColumns[old]} \cup added
        /\ ColumnsNow(u, L, n) = {ColumnName(u, Base(y), n) : y \in BaseColumns[old]} \cup added
    BY <2>1 DEF ColumnsNow
  <2>6. x \notin added /\ \A y \in BaseColumns[old] : ColumnName(u, Base(y), n - 1) = x =>
           y = x /\ ColumnRenames(u, Base(x), n - 1) = {}
    <3>1. x \notin added
      BY <2>1, <1>0, BaseNames
    <3>2. ASSUME NEW y \in BaseColumns[old], ColumnName(u, Base(y), n - 1) = x
          PROVE  y = x /\ ColumnRenames(u, Base(x), n - 1) = {}
      <4>1. ColumnRenames(u, Base(y), n - 1) = {}
        BY <1>0, <2>1, <3>2, BaseNames
      <4>2. ColumnName(u, Base(y), n - 1) = y
        BY <1>0, <2>1, <4>1, BaseNames
      <4> QED
        BY <3>2, <4>1, <4>2
    <3> QED
      BY <3>1, <3>2
  <2>7. TableNow(u, L) \in D
    BY <1>1, <2>1
  <2>8. ASSUME G PROVE IsDb(r2, L, L, L, n, 0) /\ r2.runs
    <3> DEFINE T == [y \in D |-> IF y = old THEN row ELSE db.tables[y]]
    <3>1. TableNow(u, L) = old
      <4>1. PICK t \in Tables(L) : TableNow(t, L) = old
        BY <1>1, <2>8
      <4>2. t = Base(old)
        BY <1>0, <2>1, <4>1, BaseNameOf
      <4> QED
        BY <2>1, <4>1, <4>2
    <3>2. DOMAIN r2 = {"runs", "tables", "fks"} /\ r2.runs = db.runs /\ r2.tables = T /\ r2.fks = db.fks
      <4>1. \A v : LET q == [db EXCEPT !.tables[old] = v] IN
                  /\ DOMAIN q = {"runs", "tables", "fks"} /\ q.runs = db.runs /\ q.fks = db.fks
                  /\ q.tables = [y \in D |-> IF y = old THEN v ELSE db.tables[y]]
        <5> HIDE DEF D, old
        <5> QED
          BY <1>1, <2>8, RowEdited DEF IsDb
      <4> HIDE DEF row, D, old
      <4> QED
        BY <4>1
    <3>3. db.tables[old].columns = before /\ db.tables[old].key = KeyNow(u, n - 1)
      <4>1. db.tables[old] = RowNow(u, L, n - 1)
        BY <2>1, <3>1 DEF IsDb
      <4> QED
        BY <4>1 DEF RowNow
    <3>4. ColumnRenames(u, Base(x), n - 1) = {} /\ ColumnName(u, Base(x), n - 1) = x
      <4>1. x \in before
        BY <2>8, <3>3
      <4>2. ColumnRenames(u, Base(x), n - 1) = {}
        BY <2>5, <2>6, <4>1
      <4> QED
        BY <1>0, <2>1, <4>2, BaseNames
    <3>5. ColumnsNow(u, L, n) = (before \ {x}) \cup {new}
      <4> HIDE DEF added, old, x, new, before, L
      <4>1. \A y \in BaseColumns[old] : y # x => ColumnName(u, Base(y), n - 1) # x
        BY <2>6
      <4> QED
        BY <2>1, <2>4, <2>5, <2>6, <3>4, <4>1
    <3>6. KeyNow(u, n) = IF KeyNow(u, n - 1) = x THEN new ELSE KeyNow(u, n - 1)
      <4>1. Key(u) = Base(KeyName) /\ KeyName \in BaseColumns[old]
        BY <2>1, DdlAssumption DEF Key
      <4>2. KeyNow(u, n) = ColumnName(u, Base(KeyName), n) /\ KeyNow(u, n - 1) = ColumnName(u, Base(KeyName), n - 1)
        BY <2>1, <4>1 DEF KeyNow
      <4> QED
        BY <2>4, <2>6, <3>4, <4>1, <4>2
    <3>7. row = RowNow(u, L, n)
      <4> HIDE DEF before, x, new
      <4> QED
        BY <3>3, <3>5, <3>6 DEF RowNow
    <3>8. ASSUME NEW t \in Tables(L) PROVE T[TableNow(t, L)] = RowNow(t, L, n)
      <4>1. TableNow(t, L) \in D
        BY <1>1
      <4> HIDE DEF row
      <4>2. CASE t = u
        BY <3>1, <3>7, <4>1, <4>2
      <4>3. CASE t # u
        <5>1. TableNow(t, L) # old
          BY <2>1, <3>1, <4>3 DEF IsDb
        <5>2. db.tables[TableNow(t, L)] = RowNow(t, L, n)
          BY <1>2, <4>3 DEF IsDb
        <5> QED
          BY <4>1, <5>1, <5>2
      <4> QED
        BY <4>2, <4>3
    <3>9. T = [y \in {TableNow(t, L) : t \in Tables(L)} |-> T[y]]
      BY <1>1
    <3>10. /\ \A t, v \in Tables(L) : TableNow(t, L) = TableNow(v, L) => t = v
           /\ \A t \in Tables(L) : IsBase(t) => \A i, j \in TableRenames(t, L) : i = j
           /\ db.fks = FksNow(L, 0)
      BY DEF IsDb
    <3> HIDE DEF T, r2, L
    <3> QED
      BY <2>3, <3>2, <3>8, <3>9, <3>10 DEF IsDb
  <2>9. ASSUME Untangled PROVE G
    <3>1. TableRenames(u, L) = {}
      BY <1>0, <1>4, <2>1, <2>9 DEF TableRenames, Untangled
    <3>2. TableNow(u, L) = old
      BY <1>0, <2>1, <3>1, BaseNames DEF TableNow
    <3>3. db.tables[old].columns = before
      <4>1. db.tables[old] = RowNow(u, L, n - 1)
        BY <2>1, <3>2 DEF IsDb
      <4> QED
        BY <4>1 DEF RowNow
    <3>4. ColumnRenames(u, Base(x), n - 1) = {}
      <4>1. \A i, j \in ColumnRenames(u, Base(x), L) : i = j
        <5>1. IsBase(Base(x))
          BY RefsApart
        <5> QED
          BY <1>0, <2>9, <5>1 DEF ColumnRenames, Untangled
      <4>2. ColumnRenames(u, Base(x), n - 1) \subseteq ColumnRenames(u, Base(x), L) /\ n \in ColumnRenames(u, Base(x), L)
        BY <1>0, <1>4, <2>1 DEF ColumnRenames
      <4>3. n \notin ColumnRenames(u, Base(x), n - 1)
        BY <1>0 DEF ColumnRenames
      <4> QED
        BY <4>1, <4>2, <4>3
    <3>5. x \in before
      <4>1. ColumnName(u, Base(x), n - 1) = x
        BY <1>0, <2>1, <3>4, BaseNames
      <4> QED
        BY <2>1, <2>5, <4>1
    <3>6. new = ColumnName(u, Base(x), L) /\ new \notin BaseColumns[old]
      <4>1. n \in ColumnRenames(u, Base(x), n)
        BY <1>0, <1>4, <2>1 DEF ColumnRenames
      <4>2. ColumnName(u, Base(x), n) = ColumnName(u, Base(x), L)
        BY <1>0, <2>1, <2>9, <4>1, OneRename
      <4>3. ColumnName(u, Base(x), n) \notin BaseColumns[old]
        BY <1>0, <2>1, <4>1, BaseNames
      <4> QED
        BY <2>4, <4>2, <4>3
    <3>7. \A y \in BaseColumns[old] : Base(y) \in Columns(u, L)
      BY <2>1 DEF Columns
    <3>8. new \notin added
      <4>1. ASSUME NEW i \in 1..L, log[i].kind = "addColumn", log[i].table = u, ColumnName(u, New(i), L) = new
            PROVE  FALSE
        <5>1. New(i) \in Columns(u, L) /\ Base(x) \in Columns(u, L)
          BY <2>1, <3>7, <4>1 DEF Columns
        <5>2. New(i) = Base(x)
          BY <2>1, <3>6, <4>1, <5>1, CleanNames
        <5> QED
          BY <1>0, <5>2, RefsApart
      <4> QED
        BY <4>1
    <3>9. ASSUME NEW y \in BaseColumns[old] PROVE ColumnName(u, Base(y), n - 1) # new
      <4>1. CASE ColumnRenames(u, Base(y), n - 1) = {}
        <5>1. ColumnName(u, Base(y), n - 1) = y
          BY <1>0, <2>1, <4>1, BaseNames
        <5> QED
          BY <3>6, <5>1
      <4>2. CASE ColumnRenames(u, Base(y), n - 1) # {}
        <5>1. ColumnName(u, Base(y), n - 1) = ColumnName(u, Base(y), L)
          BY <1>0, <2>1, <2>9, <4>2, OneRename
        <5>2. y # x
          BY <3>4, <4>2
        <5>3. Base(y) # Base(x)
          BY <5>2, RefsApart
        <5> QED
          BY <2>1, <3>6, <3>7, <5>1, <5>3, CleanNames
      <4> QED
        BY <4>1, <4>2
    <3>10. new \notin before
      <4> HIDE DEF new, added, before
      <4> QED
        BY <2>5, <3>8, <3>9
    <3> QED
      BY <2>7, <3>2, <3>3, <3>5, <3>10
  <2> HIDE DEF r2, G
  <2> QED
    BY <2>2, <2>3, <2>8, <2>9
<1> QED
  BY <1>3, <1>4

\* resolveTableSchemaName finds the name that a table got by its one rename.
LEMMA FollowedName ==
    ASSUME Clean, NEW t \in Tables(Len(log)), IsBase(t), \A i, j \in TableRenames(t, Len(log)) : i = j
    PROVE  FkTable(t) = TableName(t, Len(log))
<1> DEFINE L == Len(log)
           f == Followed(t)
           S == {n \in 0..L : f[n] = TableName(t, n)}
<1>0. L \in Nat /\ DOMAIN log = 1..L /\ DdlInv
  BY OpKinds DEF DdlInv, Clean
<1>1. f = [n \in 0..L |-> IF n = 0 THEN t.name ELSE Follow(f[n - 1], n)]
  BY <1>0, FollowedIs
<1>2. f[0] = t.name /\ \A m \in 0..(L - 1) : f[m + 1] = Follow(f[m], m + 1)
  <2> HIDE DEF f
  <2>1. f[0] = t.name
    BY <1>0, <1>1
  <2>2. ASSUME NEW m \in 0..(L - 1) PROVE f[m + 1] = Follow(f[m], m + 1)
    <3>1. m + 1 \in 0..L /\ m + 1 # 0 /\ (m + 1) - 1 = m
      BY <1>0
    <3> QED
      BY <1>1, <3>1
  <2> QED
    BY <2>1, <2>2
<1> HIDE DEF f
<1>3. 0 \in S
  <2>1. TableRenames(t, 0) = {}
    BY DEF TableRenames
  <2>2. TableName(t, 0) = t.name
    BY <2>1, TableNameOf
  <2> QED
    BY <1>0, <1>2, <2>2
<1>4. ASSUME NEW m \in 0..(L - 1), m \in S PROVE m + 1 \in S
  <2> DEFINE n == m + 1
  <2>1. n \in 1..L /\ n \in Nat \ {0} /\ n - 1 = m /\ m \in 0..L /\ n \in 0..L
    BY <1>0
  <2>2. f[m] = TableName(t, m)
    BY <1>4
  <2>3. t = Base(t.name)
    BY <1>0, TableKinds
  <2>4. CASE log[n].kind = "renameTable" /\ log[n].table = Base(f[m])
    <3>1. Base(f[m]) \in Tables(L)
      <4>1. Tables(n - 1) \subseteq Tables(L)
        BY <1>0, <2>1 DEF Tables
      <4> QED
        BY <1>0, <2>1, <2>4, <4>1, OthersKept
    <3>2. f[m] \in BaseTables
      BY <1>0, <3>1, TableKinds, RefsApart
    <3>3. TableRenames(t, m) = {}
      BY <2>1, <2>2, <3>2, BaseNames
    <3>4. f[m] = t.name
      BY <2>1, <2>2, <3>3, BaseNames
    <3>5. TableName(t, n) = log[n].name
      BY <2>1, <2>3, <2>4, <3>4, NextTableName
    <3>6. f[n] = log[n].name
      BY <1>2, <2>4 DEF Follow
    <3> QED
      BY <2>1, <3>5, <3>6
  <2>5. CASE ~(log[n].kind = "renameTable" /\ log[n].table = Base(f[m]))
    <3>1. f[n] = f[m]
      BY <1>2, <2>5 DEF Follow
    <3>2. ~(log[n].kind = "renameTable" /\ log[n].table = t)
      <4>1. SUFFICES ASSUME log[n].kind = "renameTable", log[n].table = t PROVE FALSE
        OBVIOUS
      <4>2. TableRenames(t, m) \subseteq TableRenames(t, L) /\ n \in TableRenames(t, L) /\ n \notin TableRenames(t, m)
        BY <1>0, <2>1, <4>1 DEF TableRenames
      <4>3. TableRenames(t, m) = {}
        BY <4>2
      <4>4. f[m] = t.name
        BY <2>1, <2>2, <4>3, BaseNames
      <4> QED
        BY <2>3, <2>5, <4>1, <4>4
    <3>3. TableName(t, n) = TableName(t, m)
      BY <2>1, <3>2, NextTableName
    <3> QED
      BY <2>1, <2>2, <3>1, <3>3
  <2> QED
    BY <2>4, <2>5
<1> HIDE DEF S
<1>5. \A n \in 0..L : n \in S
  <2>1. \A m \in 0..(L - 1) : m \in S => m + 1 \in S
    BY <1>4
  <2> QED
    BY <1>0, <1>3, <2>1, StepByStep
<1>6. f[L] = TableName(t, L)
  <2>1. L \in S
    BY <1>0, <1>5
  <2> QED
    BY <2>1 DEF S
<1> QED
  BY <1>6 DEF FkTable, f

\* A foreign key of the script is the canvas' foreign key in names.
LEMMA FkNamed ==
    ASSUME Clean, NEW m \in 1..Len(log), log[m].kind = "addFk",
           \A t \in Tables(Len(log)) : IsBase(t) => \A i, j \in TableRenames(t, Len(log)) : i = j
    PROVE  LET L == Len(log)
               s == log[m].table
               t == log[m].target
           IN  /\ s \in Tables(L) /\ t \in Tables(L) /\ log[m].column \in Columns(s, L) /\ Key(t) \in Columns(t, L)
               /\ FkOf(m) = [from |-> TableName(s, L), column |-> ColumnName(s, log[m].column, L),
                             to |-> TableName(t, L), key |-> ColumnName(t, Key(t), L)]
<1> DEFINE L == Len(log)
           s == log[m].table
           t == log[m].target
<1>0. DdlInv
  BY DEF Clean
<1>1. /\ s \in Tables(L) /\ t \in Tables(L) /\ log[m].column \in Columns(s, L) /\ Key(t) \in Columns(t, L)
      /\ FkOf(m) = [from |-> FkTable(s), column |-> ColumnName(s, log[m].column, L),
                    to |-> FkTable(t), key |-> ColumnName(t, Key(t), L)]
      /\ ~IsBase(s) => FkTable(s) = TableName(s, L)
      /\ ~IsBase(t) => FkTable(t) = TableName(t, L)
  BY <1>0, FkOfIs
<1>2. FkTable(s) = TableName(s, L)
  BY <1>1, FollowedName
<1>3. FkTable(t) = TableName(t, L)
  BY <1>1, FollowedName
<1> HIDE DEF s, t, L
<1>4. FkOf(m) = [from |-> TableName(s, L), column |-> ColumnName(s, log[m].column, L),
                 to |-> TableName(t, L), key |-> ColumnName(t, Key(t), L)]
  BY <1>1, <1>2, <1>3
<1> QED
  BY <1>1, <1>4 DEF s, t, L

\* At the end the tables in the database are those of the canvas.
LEMMA RowsAtEnd ==
    ASSUME DdlInv, NEW t \in Tables(Len(log))
    PROVE  LET L == Len(log) IN
           /\ TableNow(t, L) = TableName(t, L)
           /\ ColumnsNow(t, L, L) = {ColumnName(t, c, L) : c \in Columns(t, L)}
           /\ KeyNow(t, L) = ColumnName(t, Key(t), L)
<1> DEFINE L == Len(log)
<1>1. TableNow(t, L) = TableName(t, L) /\ KeyNow(t, L) = ColumnName(t, Key(t), L)
  BY DEF TableNow, KeyNow
<1>2. CASE IsBase(t)
  <2> DEFINE B == {Base(x) : x \in BaseColumns[t.name]}
             A == {New(i) : i \in {j \in 1..L : log[j].kind = "addColumn" /\ log[j].table = t}}
  <2>1. Columns(t, L) = B \cup A
    BY <1>2 DEF Columns
  <2>2. {ColumnName(t, c, L) : c \in B \cup A} = {ColumnName(t, c, L) : c \in B} \cup {ColumnName(t, c, L) : c \in A}
    <3> HIDE DEF A, B
    <3> QED
      OBVIOUS
  <2>3. {ColumnName(t, c, L) : c \in B} = {ColumnName(t, Base(x), L) : x \in BaseColumns[t.name]}
    OBVIOUS
  <2>4. {ColumnName(t, c, L) : c \in A} =
        {ColumnName(t, New(i), L) : i \in {j \in 1..L : log[j].kind = "addColumn" /\ log[j].table = t}}
    OBVIOUS
  <2> HIDE DEF A, B
  <2> QED
    BY <1>1, <1>2, <2>1, <2>2, <2>3, <2>4 DEF ColumnsNow
<1>3. CASE ~IsBase(t)
  BY <1>1, <1>3 DEF ColumnsNow
<1> QED
  BY <1>2, <1>3

\* ALTER TABLE ... ADD FOREIGN KEY runs, and keeps the database what it should be.
LEMMA AddFkStep ==
    ASSUME Clean, NEW n \in 1..Len(log), NEW db, IsDb(db, Len(log), Len(log), Len(log), Len(log), n - 1)
    PROVE  LET r == Exec(db, Statement("addFk", n)) IN
           r.runs /\ IsDb(r, Len(log), Len(log), Len(log), Len(log), n)
<1> DEFINE L == Len(log)
           r == Exec(db, Statement("addFk", n))
           D == DOMAIN db.tables
<1>0. L \in Nat /\ DOMAIN log = 1..L /\ n \in Nat \ {0} /\ DdlInv /\ db.runs
  BY OpKinds DEF DdlInv, Clean, IsDb
<1>1. /\ D = {TableNow(t, L) : t \in Tables(L)} /\ db.tables = [y \in D |-> db.tables[y]]
      /\ \A t \in Tables(L) : db.tables[TableNow(t, L)] = RowNow(t, L, L)
      /\ \A t, v \in Tables(L) : TableNow(t, L) = TableNow(v, L) => t = v
      /\ \A t \in Tables(L) : IsBase(t) => \A i, j \in TableRenames(t, L) : i = j
      /\ db.fks = FksNow(L, n - 1)
  <2>1. D = {TableNow(t, L) : t \in Tables(L)}
    BY TablesThere
  <2> QED
    BY <2>1 DEF IsDb
<1>2. CASE ~(log[n].kind = "addFk" /\ ~Inline(log[n]))
  <2>1. r = db
    BY <1>0, <1>2, StatementIs, ExecIs
  <2>2. {j \in 1..n : log[j].kind = "addFk" /\ ~Inline(log[j])} =
        {j \in 1..(n - 1) : log[j].kind = "addFk" /\ ~Inline(log[j])}
    BY <1>0, <1>2
  <2>3. FksNow(L, n) = FksNow(L, n - 1)
    BY <2>2 DEF FksNow
  <2> QED
    BY <1>0, <2>1, <2>3 DEF IsDb
<1>3. CASE log[n].kind = "addFk" /\ ~Inline(log[n])
  <2> DEFINE fk == FkOf(n)
             s == log[n].table
             t == log[n].target
             r2 == [db EXCEPT !.fks = db.fks \cup {fk}]
  <2>1. r = IF CanRefer(db.tables, fk) THEN r2 ELSE Failed(db)
    <3>1. r = ExecAddFk(db, [kind |-> "addFk", fk |-> fk])
      BY <1>0, <1>3, StatementIs, ExecIs
    <3> HIDE DEF fk
    <3> QED
      BY <3>1 DEF ExecAddFk
  <2>2. /\ s \in Tables(L) /\ t \in Tables(L) /\ log[n].column \in Columns(s, L) /\ Key(t) \in Columns(t, L)
        /\ fk = [from |-> TableName(s, L), column |-> ColumnName(s, log[n].column, L),
                 to |-> TableName(t, L), key |-> ColumnName(t, Key(t), L)]
    BY <1>1, <1>3, FkNamed
  <2>3. CanRefer(db.tables, fk)
    <3>1. /\ TableName(s, L) \in D /\ TableName(t, L) \in D
          /\ db.tables[TableName(s, L)] = RowNow(s, L, L) /\ db.tables[TableName(t, L)] = RowNow(t, L, L)
      BY <1>0, <1>1, <2>2, RowsAtEnd
    <3>2. ColumnName(s, log[n].column, L) \in RowNow(s, L, L).columns
      BY <1>0, <2>2, RowsAtEnd DEF RowNow
    <3>3. ColumnName(t, Key(t), L) = RowNow(t, L, L).key
      BY <1>0, <2>2, RowsAtEnd DEF RowNow
    <3> HIDE DEF s, t, fk
    <3> QED
      BY <2>2, <3>1, <3>2, <3>3 DEF CanRefer
  <2>4. DOMAIN r2 = {"runs", "tables", "fks"} /\ r2.runs = db.runs /\ r2.tables = db.tables /\ r2.fks = db.fks \cup {fk}
    <3> HIDE DEF fk
    <3> QED
      BY DbEdited DEF IsDb
  <2>5. db.fks \cup {fk} = FksNow(L, n)
    <3>1. {j \in 1..n : log[j].kind = "addFk" /\ ~Inline(log[j])} =
          {j \in 1..(n - 1) : log[j].kind = "addFk" /\ ~Inline(log[j])} \cup {n}
      BY <1>0, <1>3
    <3>2. FksNow(L, n) = FksNow(L, n - 1) \cup {fk}
      BY <3>1 DEF FksNow
    <3> QED
      BY <1>1, <3>2
  <2> HIDE DEF r2, fk
  <2> QED
    BY <1>0, <1>1, <2>1, <2>3, <2>4, <2>5 DEF IsDb
<1> QED
  BY <1>2, <1>3


\* Before the script the database is the base.
LEMMA BaseDbIs ==
    ASSUME Clean
    PROVE  IsDb(BaseDb, 0, 0, 0, 0, 0)
<1> DEFINE L == Len(log)
<1>0. L \in Nat /\ DOMAIN log = 1..L /\ 0 \in 0..L /\ DdlInv
  BY OpKinds DEF DdlInv, Clean
<1>1. Tables(0) = {Base(x) : x \in BaseTables} /\ Tables(0) \subseteq Tables(L)
  <2>1. {j \in 1..0 : log[j].kind = "addTable"} = {}
    OBVIOUS
  <2> QED
    BY <2>1 DEF Tables
<1>2. ASSUME NEW t \in Tables(0)
      PROVE  /\ IsBase(t) /\ t.name \in BaseTables /\ t = Base(t.name)
             /\ TableNow(t, 0) = t.name /\ TableRenames(t, 0) = {}
             /\ RowNow(t, 0, 0) = [columns |-> BaseColumns[t.name], key |-> KeyName]
  <2>1. PICK x \in BaseTables : t = Base(x)
    BY <1>1
  <2>2. IsBase(t) /\ t.name = x
    BY <2>1, RefsApart
  <2>3. TableRenames(t, 0) = {} /\ \A c : ColumnRenames(t, c, 0) = {}
    BY DEF TableRenames, ColumnRenames
  <2>4. t \in Tables(L)
    BY <1>1
  <2>5. TableName(t, 0) = x /\ \A y \in BaseColumns[x] : ColumnName(t, Base(y), 0) = y
    BY <1>0, <2>2, <2>3, <2>4, BaseNames
  <2>6. KeyName \in BaseColumns[x]
    BY DdlAssumption
  <2>7. KeyNow(t, 0) = KeyName
    BY <2>2, <2>5, <2>6 DEF KeyNow, Key
  <2>8. ColumnsNow(t, 0, 0) = BaseColumns[x]
    <3>1. {j \in 1..0 : log[j].kind = "addColumn" /\ log[j].table = t} = {}
      OBVIOUS
    <3>2. {ColumnName(t, Base(y), 0) : y \in BaseColumns[x]} = BaseColumns[x]
      BY <2>5
    <3> QED
      BY <2>2, <3>1, <3>2 DEF ColumnsNow
  <2> QED
    BY <2>1, <2>2, <2>3, <2>5, <2>7, <2>8 DEF TableNow, RowNow
<1>3. FksNow(0, 0) = {}
  <2>1. ASSUME NEW j \in 1..L, Inline(log[j]), log[j].table.op <= 0 PROVE FALSE
    <3> DEFINE u == log[j].table
    <3>1. j - 1 \in Nat /\ u \in Tables(j - 1)
      BY <1>0, <2>1 DEF DdlInv, RefersBack, Inline
    <3>2. ~IsBase(u)
      BY <2>1 DEF Inline
    <3>3. u.op \in 1..(j - 1)
      <4> DEFINE k == j - 1
      <4> HIDE DEF u, k
      <4>1. k \in Nat /\ u \in Tables(k)
        BY <3>1 DEF k
      <4>2. u.op \in 1..k
        BY <3>2, <4>1, TableKinds
      <4> QED
        BY <4>2 DEF k
    <3> QED
      BY <2>1, <3>3
  <2>2. {j \in 1..L : Inline(log[j]) /\ log[j].table.op <= 0} = {}
    BY <2>1
  <2>3. {j \in 1..0 : log[j].kind = "addFk" /\ ~Inline(log[j])} = {}
    OBVIOUS
  <2> QED
    BY <2>2, <2>3 DEF FksNow
<1>4. /\ BaseDb.runs /\ DOMAIN BaseDb = {"runs", "tables", "fks"} /\ BaseDb.fks = {}
      /\ DOMAIN BaseDb.tables = BaseTables
      /\ BaseDb.tables = [x \in BaseTables |-> [columns |-> BaseColumns[x], key |-> KeyName]]
  BY DEF BaseDb
<1>5. {TableNow(t, 0) : t \in Tables(0)} = BaseTables
  <2>1. \A x \in BaseTables : Base(x) \in Tables(0) /\ Base(x).name = x
    BY <1>1, RefsApart
  <2> QED
    BY <1>2, <2>1
<1>6. BaseDb.tables = [x \in BaseTables |-> BaseDb.tables[x]]
  BY <1>4
<1>7. \A t \in Tables(0) : BaseDb.tables[TableNow(t, 0)] = RowNow(t, 0, 0)
  BY <1>2, <1>4
<1>8. \A t, u \in Tables(0) : TableNow(t, 0) = TableNow(u, 0) => t = u
  BY <1>2
<1>9. \A t \in Tables(0) : \A i, j \in TableRenames(t, 0) : i = j
  BY <1>2
<1> QED
  BY <1>3, <1>4, <1>5, <1>6, <1>7, <1>8, <1>9 DEF IsDb

\* After the script the database is the canvas.
LEMMA SchemaIsCanvas ==
    ASSUME Clean, NEW db, IsDb(db, Len(log), Len(log), Len(log), Len(log), Len(log))
    PROVE  Schema(db) = Canvas
<1> DEFINE L == Len(log)
           g == WorkingGraph
           D == DOMAIN db.tables
           TableSet == {[name |-> g.tables[t].name, columns |-> {g.tables[t].columns[c] : c \in DOMAIN g.tables[t].columns}] :
                           t \in DOMAIN g.tables}
           FkSet == {[from |-> g.tables[f.from].name, column |-> g.tables[f.from].columns[f.column],
                      to |-> g.tables[f.to].name, key |-> g.tables[f.to].columns[Key(f.to)]] : f \in g.fks}
<1>0. L \in Nat /\ DOMAIN log = 1..L /\ DdlInv
  BY OpKinds DEF DdlInv, Clean
<1>1. /\ D = {TableNow(t, L) : t \in Tables(L)}
      /\ \A t \in Tables(L) : db.tables[TableNow(t, L)] = RowNow(t, L, L)
      /\ \A t \in Tables(L) : IsBase(t) => \A i, j \in TableRenames(t, L) : i = j
      /\ db.fks = FksNow(L, L)
  <2>1. D = {TableNow(t, L) : t \in Tables(L)}
    BY TablesThere
  <2> QED
    BY <2>1 DEF IsDb
<1>2. /\ DOMAIN g.tables = Tables(L) /\ g.fks = Fks(L)
      /\ \A t \in Tables(L) : /\ g.tables[t].name = TableName(t, L)
                              /\ g.tables[t].columns = [c \in Columns(t, L) |-> ColumnName(t, c, L)]
  BY <1>0, WorkingGraphIs
<1>3. \A t \in Tables(L) : DOMAIN g.tables[t].columns = Columns(t, L) /\
                           \A c \in Columns(t, L) : g.tables[t].columns[c] = ColumnName(t, c, L)
  BY <1>2
<1>4. \A t \in Tables(L) : /\ TableNow(t, L) = TableName(t, L)
                           /\ db.tables[TableNow(t, L)].columns = {ColumnName(t, c, L) : c \in Columns(t, L)}
  <2>1. ASSUME NEW t \in Tables(L)
        PROVE  /\ TableNow(t, L) = TableName(t, L)
               /\ db.tables[TableNow(t, L)].columns = {ColumnName(t, c, L) : c \in Columns(t, L)}
    <3>1. db.tables[TableNow(t, L)] = RowNow(t, L, L)
      BY <1>1
    <3>2. RowNow(t, L, L).columns = ColumnsNow(t, L, L)
      BY DEF RowNow
    <3> QED
      BY <1>0, <3>1, <3>2, RowsAtEnd
  <2> QED
    BY <2>1
<1> HIDE DEF g, D
<1>5. {[name |-> x, columns |-> db.tables[x].columns] : x \in D} = TableSet
  <2> DEFINE Of(x) == [name |-> x, columns |-> db.tables[x].columns]
             Shown(t) == [name |-> g.tables[t].name,
                          columns |-> {g.tables[t].columns[c] : c \in DOMAIN g.tables[t].columns}]
  <2>1. ASSUME NEW t \in Tables(L) PROVE Of(TableNow(t, L)) = Shown(t)
    <3>1. {g.tables[t].columns[c] : c \in DOMAIN g.tables[t].columns} = {ColumnName(t, c, L) : c \in Columns(t, L)}
      BY <1>3
    <3> QED
      BY <1>2, <1>4, <3>1
  <2>2. TableSet = {Shown(t) : t \in Tables(L)}
    BY <1>2
  <2> HIDE DEF Of, Shown, TableSet
  <2>3. {Of(x) : x \in D} = {Of(TableNow(t, L)) : t \in Tables(L)}
    BY <1>1
  <2>4. {Of(TableNow(t, L)) : t \in Tables(L)} = {Shown(t) : t \in Tables(L)}
    BY <2>1
  <2> QED
    BY <2>2, <2>3, <2>4 DEF Of
<1>6. db.fks = FkSet
  <2> DEFINE M == {m \in 1..L : log[m].kind = "addFk"}
             Edge(m) == [from |-> log[m].table, column |-> log[m].column, to |-> log[m].target]
             Named(f) == [from |-> g.tables[f.from].name, column |-> g.tables[f.from].columns[f.column],
                          to |-> g.tables[f.to].name, key |-> g.tables[f.to].columns[Key(f.to)]]
  <2>1. FksNow(L, L) = {FkOf(m) : m \in M}
    <3>1. ASSUME NEW j \in 1..L, Inline(log[j]) PROVE j \in M /\ log[j].table.op <= L
      <4> DEFINE u == log[j].table
      <4>1. log[j].kind = "addFk" /\ ~IsBase(u)
        BY <3>1 DEF Inline
      <4>2. u \in Tables(L)
        BY <1>0, <4>1, FkOfIs
      <4> HIDE DEF u
      <4>3. u.op \in 1..L
        BY <1>0, <4>1, <4>2, TableKinds
      <4> QED
        BY <1>0, <4>1, <4>3 DEF u
    <3>2. M = {j \in 1..L : Inline(log[j]) /\ log[j].table.op <= L}
              \cup {j \in 1..L : log[j].kind = "addFk" /\ ~Inline(log[j])}
      BY <3>1
    <3> HIDE DEF M
    <3> QED
      BY <3>2 DEF FksNow
  <2>2. Fks(L) = {Edge(m) : m \in M}
    BY DEF Fks
  <2>3. ASSUME NEW m \in M PROVE FkOf(m) = Named(Edge(m))
    <3> DEFINE s == log[m].table
               t == log[m].target
    <3>1. /\ s \in Tables(L) /\ t \in Tables(L) /\ log[m].column \in Columns(s, L) /\ Key(t) \in Columns(t, L)
          /\ FkOf(m) = [from |-> TableName(s, L), column |-> ColumnName(s, log[m].column, L),
                        to |-> TableName(t, L), key |-> ColumnName(t, Key(t), L)]
      BY <1>1, FkNamed
    <3>2. /\ g.tables[s].name = TableName(s, L) /\ g.tables[t].name = TableName(t, L)
          /\ g.tables[s].columns[log[m].column] = ColumnName(s, log[m].column, L)
          /\ g.tables[t].columns[Key(t)] = ColumnName(t, Key(t), L)
      BY <1>2, <1>3, <3>1
    <3>3. Edge(m).from = s /\ Edge(m).column = log[m].column /\ Edge(m).to = t
      OBVIOUS
    <3> HIDE DEF Edge, s, t
    <3> QED
      BY <3>1, <3>2, <3>3
  <2>4. FkSet = {Named(f) : f \in Fks(L)}
    BY <1>2
  <2> HIDE DEF Edge, Named, M, FkSet
  <2>5. {Named(f) : f \in Fks(L)} = {Named(Edge(m)) : m \in M}
    BY <2>2
  <2>6. {Named(Edge(m)) : m \in M} = {FkOf(m) : m \in M}
    BY <2>3
  <2> QED
    BY <1>1, <2>1, <2>4, <2>5, <2>6
<1> QED
  <2>1. Schema(db) = [tables |-> {[name |-> x, columns |-> db.tables[x].columns] : x \in D}, fks |-> db.fks]
    BY DEF Schema, D
  <2>2. Canvas = [tables |-> TableSet, fks |-> FkSet]
    BY DEF Canvas, g
  <2> QED
    BY <1>5, <1>6, <2>1, <2>2

\* A script that has failed has failed for good.
LEMMA FailedStays ==
    ASSUME DdlInv, NEW group, NEW db, ~db.runs
    PROVE  ~After(group, db)[Len(log)].runs
<1> DEFINE L == Len(log)
           f == After(group, db)
           S == {n \in 0..L : f[n] = db}
<1>0. L \in Nat
  BY OpKinds DEF DdlInv
<1>1. f = [n \in 0..L |-> IF n = 0 THEN db ELSE Exec(f[n - 1], Statement(group, n))]
  BY <1>0, AfterIs
<1> HIDE DEF f
<1>2. 0 \in S
  BY <1>0, <1>1
<1>3. ASSUME NEW m \in 0..(L - 1), m \in S PROVE m + 1 \in S
  <2>1. m + 1 \in 0..L /\ m + 1 # 0 /\ (m + 1) - 1 = m
    BY <1>0
  <2>2. f[m + 1] = Exec(f[m], Statement(group, m + 1))
    BY <1>1, <2>1
  <2>3. f[m + 1] = db
    BY <1>3, <2>2, ExecIs
  <2> QED
    BY <2>1, <2>3
<1> HIDE DEF S
<1>4. L \in S
  <2>1. \A m \in 0..(L - 1) : m \in S => m + 1 \in S
    BY <1>3
  <2>2. \A n \in 0..L : n \in S
    BY <1>0, <1>2, <2>1, StepByStep
  <2> QED
    BY <1>0, <2>2
<1> QED
  BY <1>4 DEF S, f

\* One group: from the stage it starts at to the stage it ends at, if it runs.
LEMMA GroupGives ==
    ASSUME Clean, NEW group \in {"create", "renameTable", "addColumn", "renameColumn", "addFk"},
           NEW db, db.runs => Stage(group, 0, db)
    PROVE  LET r == After(group, db)[Len(log)] IN
           (r.runs => db.runs /\ Stage(group, Len(log), r)) /\ (Untangled /\ db.runs => r.runs)
<1> DEFINE L == Len(log)
<1>0. L \in Nat /\ DdlInv
  BY OpKinds DEF DdlInv, Clean
<1>1. CASE ~db.runs
  BY <1>0, <1>1, FailedStays
<1>2. CASE db.runs
  <2>1. ASSUME NEW n \in 1..L, NEW d, Stage(group, n - 1, d), d.runs
        PROVE  LET r == Exec(d, Statement(group, n)) IN (r.runs => Stage(group, n, r)) /\ (Untangled => r.runs)
    <3>1. CASE group = "create"
      BY <2>1, <3>1, CreateStep DEF Stage
    <3>2. CASE group = "renameTable"
      BY <2>1, <3>2, RenameTableStep DEF Stage
    <3>3. CASE group = "addColumn"
      BY <2>1, <3>3, AddColumnStep DEF Stage
    <3>4. CASE group = "renameColumn"
      BY <2>1, <3>4, RenameColumnStep DEF Stage
    <3>5. CASE group = "addFk"
      BY <2>1, <3>5, AddFkStep DEF Stage
    <3> QED
      BY <3>1, <3>2, <3>3, <3>4, <3>5
  <2> QED
    BY <1>0, <1>2, <2>1, GroupRuns
<1> QED
  BY <1>1, <1>2

\* What a script leaves: the canvas, if it runs, and it runs when its groups are apart.
LEMMA ScriptRuns ==
    ASSUME Clean
    PROVE  LET db == Applied IN (db.runs \/ Untangled) => db.runs /\ Schema(db) = Canvas
<1> DEFINE L == Len(log)
           d1 == After("create", BaseDb)[L]
           d2 == After("renameTable", d1)[L]
           d3 == After("addColumn", d2)[L]
           d4 == After("renameColumn", d3)[L]
           d5 == After("addFk", d4)[L]
<1>1. Applied = d5
  BY DEF Applied
<1>2. BaseDb.runs /\ Stage("create", 0, BaseDb)
  BY BaseDbIs DEF Stage, IsDb
<1>3. (d1.runs => Stage("create", L, d1)) /\ (Untangled => d1.runs)
  BY <1>2, GroupGives
<1>4. d1.runs => Stage("renameTable", 0, d1)
  BY <1>3 DEF Stage
<1> HIDE DEF d1
<1>5. (d2.runs => Stage("renameTable", L, d2)) /\ (Untangled => d2.runs)
  BY <1>3, <1>4, GroupGives
<1>6. d2.runs => Stage("addColumn", 0, d2)
  BY <1>5 DEF Stage
<1> HIDE DEF d2
<1>7. (d3.runs => Stage("addColumn", L, d3)) /\ (Untangled => d3.runs)
  BY <1>5, <1>6, GroupGives
<1>8. d3.runs => Stage("renameColumn", 0, d3)
  BY <1>7 DEF Stage
<1> HIDE DEF d3
<1>9. (d4.runs => Stage("renameColumn", L, d4)) /\ (Untangled => d4.runs)
  BY <1>7, <1>8, GroupGives
<1>10. d4.runs => Stage("addFk", 0, d4)
  BY <1>9 DEF Stage
<1> HIDE DEF d4
<1>11. (d5.runs => Stage("addFk", L, d5)) /\ (Untangled => d5.runs)
  BY <1>9, <1>10, GroupGives
<1>12. d5.runs => IsDb(d5, L, L, L, L, L)
  BY <1>11 DEF Stage
<1> HIDE DEF d5
<1>13. d5.runs => Schema(d5) = Canvas
  BY <1>12, SchemaIsCanvas
<1> QED
  BY <1>1, <1>11, <1>13

\* A script that runs leaves the schema that the canvas shows, and one whose groups do
\* not get into each other's way runs, whatever was drawn and however long the log is
\* (ddlGen.ts: generateDdl regroups what applyOps.ts plays in order).
THEOREM ScriptsGiveCanvas == DdlSpec => []ScriptGivesCanvas
<1>1. DdlInv => ScriptGivesCanvas
  <2> SUFFICES ASSUME DdlInv, ~HasErrors, FreshNames, Applied.runs \/ Untangled
               PROVE  Applied.runs /\ Schema(Applied) = Canvas
    BY DEF ScriptGivesCanvas
  <2>1. Clean
    BY DEF Clean
  <2> QED
    BY <2>1, ScriptRuns
<1> QED
  BY <1>1, DdlInvariance, PTL
=============================================================================
