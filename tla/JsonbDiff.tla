----------------------------- MODULE JsonbDiff -----------------------------
(***************************************************************************)
(* What a JSONB save writes: jsonb_save parses the original text of the    *)
(* cell and the draft, compares the two and updates the row by jsonb_set   *)
(* and #- at the paths that differ, or by the whole draft.  The frontend   *)
(* compares them as JavaScript values and shows that comparison as the     *)
(* preview.  Both parsers round numbers PostgreSQL keeps, each in its way, *)
(* and serde_json refuses numbers beyond a double.  Other sessions write   *)
(* the row meanwhile; the database is there.                               *)
(*                                                                         *)
(* A document is given by what it has at each of its paths: the value of a *)
(* leaf, "object" or "array".  A path is the keys that lead there, for an  *)
(* element of an array its index as the text it has in a path.  A part of  *)
(* a document has the paths of the document that begin with one of them.   *)
(* Row keys and the production guard are in JsonbEdit.                     *)
(*                                                                         *)
(* Source: src-tauri/src/query/jsonb/write.rs, query/commands.rs,          *)
(* query/format.rs, src/features/jsonb/diff/computeDiff.ts,                *)
(* tree/pathOps.ts and state/store.ts.  jsonb_set and #- are PostgreSQL's. *)
(***************************************************************************)
EXTENDS Naturals, Sequences, FiniteSets, SequencesExt

CONSTANTS
    Docs,       \* documents that are written by others or typed as a draft
    LeafValues, \* values of leaves
    AsNumber,   \* what JSON.parse makes of a value: big numbers lose digits
    AsSerde,    \* what serde_json makes of a value: bigger ones lose digits
    TooLarge,   \* numbers serde_json does not read
    ObjectKeys, \* keys of objects
    PathIndices, \* indices of arrays in path text, lowest first
    DIFF_OPS_THRESHOLD,
    MaxDraftEdits, \* bound: edits of one opening
    MaxDiffSaves \* bound: saves that succeed

Containers == {"object", "array"}
Keys == ObjectKeys \cup ToSet(PathIndices)

\* The first indices.
Indices(n) == {PathIndices[i] : i \in 1..n}

\* The first steps of a path.
First(p, n) == SubSeq(p, 1, n)

\* The place of an index.
Place(k) == CHOOSE i \in DOMAIN PathIndices : PathIndices[i] = k

\* The keys or indices that follow a path.
Children(d, p) == {k \in Keys : Append(p, k) \in DOMAIN d}

\* There is a root, what leads to a path is an object or an array, and the
\* elements of an array have the first indices.
IsDoc(d) ==
    /\ IsFiniteSet(DOMAIN d) /\ d \in [DOMAIN d -> LeafValues \cup Containers]
    /\ <<>> \in DOMAIN d
    /\ \A p \in DOMAIN d :
          /\ p \in Seq(Keys)
          /\ \A n \in 0..(Len(p) - 1) : First(p, n) \in DOMAIN d /\ d[First(p, n)] \in Containers
          /\ d[p] = "array" => \E n \in 0..Len(PathIndices) : Children(d, p) = Indices(n)

ASSUME DiffAssumption ==
    /\ LeafValues \cap Containers = {} /\ TooLarge \subseteq LeafValues
    /\ AsNumber \in [LeafValues -> LeafValues] /\ AsSerde \in [LeafValues -> LeafValues]
    /\ PathIndices \in Seq(STRING) /\ IsInjective(PathIndices) /\ ObjectKeys \cap ToSet(PathIndices) = {}
    /\ \A d \in Docs : IsDoc(d)
    /\ DIFF_OPS_THRESHOLD \in Nat /\ MaxDraftEdits \in Nat /\ MaxDiffSaves \in Nat

VARIABLES
    cell,       \* document in the row, NoDoc when the row is gone
    grid,       \* document in the result grid, NoDoc for a NULL
    editing,    \* original and draft while the editor is open, else NoDoc
    request,    \* the jsonb_save under way: what it was sent, and its state
    saveStatus, \* status of the editor
    closeTimer, \* a timer will close the editor
    saves       \* saves so far

diffVars == <<cell, grid, editing, request, saveStatus, closeTimer, saves>>

\* Nothing, at no path.
NoDoc == [p \in {} |-> 0]

\* The part of a document under a path, and what is beside it.
Below(d, p)  == [q \in {x \in DOMAIN d : IsPrefix(p, x)} |-> d[q]]
Beside(d, p) == [q \in {x \in DOMAIN d : ~IsPrefix(p, x)} |-> d[q]]

\* A leaf at a path.
LeafAt(p, v) == [q \in {p} |-> v]

\* A path with another key at a place of it.
Through(q, n, k) == [q EXCEPT ![n] = k]

\* JSON.parse of a document's text, and JSON.stringify of the result.
Parsed(d) == [p \in DOMAIN d |-> IF d[p] \in LeafValues THEN AsNumber[d[p]] ELSE d[p]]

\* serde_json's parse of a document's text, when it is one, and its text again.
Readable(d) == \A p \in DOMAIN d : d[p] \notin TooLarge
Read(d)     == [p \in DOMAIN d |-> IF d[p] \in LeafValues THEN AsSerde[d[p]] ELSE d[p]]

\* The grid's text of a jsonb value goes through serde_json; what it does not read is NULL.
GridText(d) == IF Readable(d) THEN Read(d) ELSE NoDoc

----------------------------------------------------------------------------
(* compute_diff.                                                           *)

Set(path, part) == [op |-> "set", path |-> path, value |-> part]
Delete(path)    == [op |-> "delete", path |-> path, value |-> NoDoc]

\* Both documents have an object or both an array at a path.
SameContainer(old, new, p) ==
    p \in DOMAIN old \cap DOMAIN new /\ old[p] = new[p] /\ old[p] \in Containers

\* diff_walk comes to the path.
Walked(old, new, p) == \A n \in 0..(Len(p) - 1) : SameContainer(old, new, First(p, n))

\* What diff_walk pushes.
Operations(old, new) ==
    {Delete(p) : p \in {x \in DOMAIN old \ DOMAIN new : Walked(old, new, x)}}
    \cup {Set(p, Below(new, p)) :
             p \in {x \in DOMAIN new : /\ Walked(old, new, x) /\ ~SameContainer(old, new, x)
                                       /\ Below(old, x) # Below(new, x)}}

\* Two paths lead to elements of an array, the first to the earlier one.
Before(p, q) ==
    \E n \in DOMAIN p \cap DOMAIN q :
        /\ First(p, n - 1) = First(q, n - 1) /\ {p[n], q[n]} \subseteq ToSet(PathIndices)
        /\ Place(p[n]) < Place(q[n])

\* The orders it may have: keys in any order, the elements of an array from the first.
Walks(ops) ==
    {walk \in SetToSeqs(ops) : \A i, j \in DOMAIN walk : i < j => ~Before(walk[j].path, walk[i].path)}

\* MUTANT of Resized: no array is compared by length.
ResizedNever(old, new) == FALSE

\* An array has another length somewhere both documents have one.
Resized(old, new) ==
    \E p \in DOMAIN old : /\ Walked(old, new, p) /\ SameContainer(old, new, p) /\ old[p] = "array"
                          /\ Children(old, p) # Children(new, p)

\* MUTANT of Diff: only what is at the top of the documents is compared.
DiffShallow(old, new) ==
    LET gone == {Delete(<<k>>) : k \in Children(old, <<>>) \ Children(new, <<>>)}
        come == {Set(<<k>>, Below(new, <<k>>)) : k \in Children(new, <<>>)}
    IN  [full |-> old[<<>>] # "object" \/ new[<<>>] # "object", value |-> new, ops |-> gone \cup come]

Diff(old, new) ==
    LET walked == SameContainer(old, new, <<>>)
        full   == IF walked
                  THEN Resized(old, new) \/ Cardinality(Operations(old, new)) > DIFF_OPS_THRESHOLD
                  ELSE old # new
    IN  [full |-> full, value |-> new, ops |-> IF full \/ ~walked THEN {} ELSE Operations(old, new)]

----------------------------------------------------------------------------
(* PostgreSQL: jsonb_set(d, path, v, true) and d #- path.                  *)

\* A path leads by a key into an array.
BadIndex(d, path) ==
    \E n \in DOMAIN path :
        LET at == First(path, n - 1)
        IN  at \in DOMAIN d /\ d[at] = "array" /\ path[n] \notin ToSet(PathIndices)

\* The number of elements of an array.
Length(d, p) == CHOOSE n \in 0..Len(PathIndices) : Children(d, p) = Indices(n)

\* At the end of the path a key is replaced or created, and an index past the end of an
\* array appends; a step before it that is missing changes nothing.
JsonbSet(d, path, part) ==
    LET parent == Front(path)
        key    == IF d[parent] = "array" /\ path \notin DOMAIN d
                    THEN PathIndices[Length(d, parent) + 1] ELSE Last(path)
        old    == Beside(d, Append(parent, key))
        Moved(q, k) == Through(q, Len(path), k)
    IN  IF parent \notin DOMAIN d \/ d[parent] \notin Containers THEN d
        ELSE [q \in DOMAIN old \cup {Moved(x, key) : x \in DOMAIN part} |->
                 IF q \in DOMAIN old THEN old[q] ELSE part[Moved(q, Last(path))]]

\* The path of an element of an array when one before it is removed.
Up(q, path) ==
    LET n == Len(path)
    IN  IF IsStrictPrefix(Front(path), q) /\ Place(q[n]) > Place(Last(path))
          THEN Through(q, n, PathIndices[Place(q[n]) - 1]) ELSE q

\* The document without a key or an element; the elements after it move up.
Without(d, path) ==
    LET left == Beside(d, path)
    IN  IF d[Front(path)] = "array"
          THEN [q \in {Up(x, path) : x \in DOMAIN left} |-> left[CHOOSE x \in DOMAIN left : Up(x, path) = q]]
          ELSE left

JsonbDelete(d, path) == IF path \in DOMAIN d THEN Without(d, path) ELSE d

\* The expression build_update_sql nests: an operation that fails fails the
\* statement.  Nothing can be set in a scalar; in an empty root there is
\* nothing to delete.
Step(result, op) ==
    LET d == result.doc
        fails == \/ d[<<>>] \notin Containers
                 \/ BadIndex(d, op.path) /\ ~(op.op = "delete" /\ DOMAIN d = {<<>>})
    IN  IF ~result.ok \/ fails THEN [ok |-> FALSE, doc |-> d]
        ELSE [ok |-> TRUE, doc |-> IF op.op = "set" THEN JsonbSet(d, op.path, op.value)
                                   ELSE JsonbDelete(d, op.path)]

\* The row after the first operations.
Stepped(d, walk) ==
    LET after[n \in 0..Len(walk)] == IF n = 0 THEN [ok |-> TRUE, doc |-> d] ELSE Step(after[n - 1], walk[n])
    IN  after

\* The UPDATE of one row: it is gone, or gets the new document.
Update(d, diff, walk) ==
    IF d = NoDoc THEN [ok |-> FALSE, doc |-> d]
    ELSE IF diff.full THEN [ok |-> TRUE, doc |-> diff.value]
    ELSE Stepped(d, walk)[Len(walk)]

----------------------------------------------------------------------------
(* The editor.                                                             *)

DiffInit ==
    /\ cell \in Docs /\ grid = GridText(cell)
    /\ editing = NoDoc /\ request = NoDoc /\ saveStatus = "idle" /\ closeTimer = FALSE /\ saves = 0

\* Another session writes the document, or deletes the row.
OtherWrites(d) ==
    /\ cell # NoDoc /\ cell' = d
    /\ UNCHANGED <<grid, editing, request, saveStatus, closeTimer, saves>>

\* The query is run again, and finds the row.  Bound: not while a save is under way.
RerunQuery ==
    /\ editing = NoDoc /\ cell # NoDoc /\ request = NoDoc
    /\ grid' = GridText(cell)
    /\ UNCHANGED <<cell, editing, request, saveStatus, closeTimer, saves>>

\* Opened from the grid, which opens no NULL.  Bound: not while a save is under way
\* (openings that overlap with calls are in JsonbEdit).
OpenDocument ==
    /\ editing = NoDoc /\ grid # NoDoc /\ request = NoDoc /\ saves < MaxDiffSaves
    /\ editing' = [original |-> grid, draft |-> grid, edits |-> 0]
    /\ saveStatus' = "idle"
    /\ UNCHANGED <<cell, grid, request, closeTimer, saves>>

ReviseDraft(d) ==
    /\ editing # NoDoc /\ editing.edits < MaxDraftEdits
    /\ editing' = [editing EXCEPT !.draft = d, !.edits = @ + 1]
    /\ UNCHANGED <<cell, grid, request, saveStatus, closeTimer, saves>>

\* Typed in the text view.
TypeDraft(d) == ReviseDraft(d)

\* Edited in the tree: the parsed draft is changed at a place of it, or at a
\* new key, and written out again.  On such a path setAtPath does what
\* jsonb_set does.
TreeEdit ==
    /\ editing # NoDoc
    /\ LET parsed == Parsed(editing.draft)
           places == DOMAIN parsed \ {<<>>}
           added  == {Append(p, k) : p \in {x \in DOMAIN parsed : parsed[x] = "object"}, k \in ObjectKeys}
       IN  \/ \E p \in places \cup added, v \in LeafValues :
                 ReviseDraft(JsonbSet(parsed, p, LeafAt(p, AsNumber[v])))
           \/ \E p \in places : ReviseDraft(Without(parsed, p))

CloseDocument ==
    /\ editing # NoDoc
    /\ editing' = NoDoc /\ saveStatus' = "idle"
    /\ UNCHANGED <<cell, grid, request, closeTimer, saves>>

\* The editor sends both texts, once the text of the draft was changed.  Bound: one
\* save is under way at a time.
Save ==
    /\ editing # NoDoc /\ editing.edits > 0 /\ request = NoDoc /\ saves < MaxDiffSaves
    /\ request' = [old |-> editing.original, new |-> editing.draft, st |-> "sent"]
    /\ saveStatus' = "saving"
    /\ UNCHANGED <<cell, grid, editing, closeTimer, saves>>

\* jsonb_save can parse what it was sent, and the difference it makes of it.
BothRead == Readable(request.old) /\ Readable(request.new)
SaveDiff == Diff(Read(request.old), Read(request.new))

\* What the preview shows of an opening.
PreviewDiff == Diff(Parsed(editing.original), Parsed(editing.draft))

\* jsonb_save: an error, nothing to do, or one UPDATE.
ApplySave ==
    /\ request # NoDoc /\ request.st = "sent"
    /\ \E walk \in Walks(SaveDiff.ops) :
          LET idle   == ~SaveDiff.full /\ SaveDiff.ops = {}
              result == IF ~BothRead THEN [ok |-> FALSE, doc |-> cell]
                        ELSE IF idle THEN [ok |-> TRUE, doc |-> cell] ELSE Update(cell, SaveDiff, walk)
          IN  IF result.ok
              THEN /\ cell' = result.doc /\ saves' = saves + 1
                   /\ request' = [request EXCEPT !.st = "done"]
              ELSE /\ UNCHANGED <<cell, saves>>
                   /\ request' = [request EXCEPT !.st = "refused"]
    /\ UNCHANGED <<grid, editing, saveStatus, closeTimer>>

\* The answer of a save is the text of the draft it was sent, which goes into the grid.
SaveAnswered ==
    /\ request # NoDoc /\ request.st # "sent"
    /\ request' = NoDoc
    /\ IF request.st = "done"
         THEN grid' = request.new /\ saveStatus' = "saved" /\ closeTimer' = TRUE
         ELSE saveStatus' = "error" /\ UNCHANGED <<grid, closeTimer>>
    /\ UNCHANGED <<cell, editing, saves>>

\* The timer closes the editor if the status still says saved, typed in or not.
TimedClose ==
    /\ closeTimer /\ closeTimer' = FALSE
    /\ IF saveStatus = "saved" THEN editing' = NoDoc /\ saveStatus' = "idle"
       ELSE UNCHANGED <<editing, saveStatus>>
    /\ UNCHANGED <<cell, grid, request, saves>>

DiffNext ==
    \/ \E d \in Docs \cup {NoDoc} : OtherWrites(d)
    \/ RerunQuery \/ OpenDocument
    \/ \E d \in Docs : TypeDraft(d)
    \/ TreeEdit \/ CloseDocument \/ Save \/ ApplySave \/ SaveAnswered \/ TimedClose

DiffSpec == DiffInit /\ [][DiffNext]_diffVars

----------------------------------------------------------------------------
(* Properties.                                                             *)

DiffTypeOK ==
    /\ cell = NoDoc \/ IsDoc(cell)
    /\ grid = NoDoc \/ IsDoc(grid)
    /\ editing # NoDoc => /\ IsDoc(editing.original) /\ IsDoc(editing.draft)
                            /\ editing.edits \in 0 .. MaxDraftEdits
    /\ request # NoDoc => /\ IsDoc(request.old) /\ IsDoc(request.new)
                            /\ request.st \in {"sent", "done", "refused"}
    /\ saveStatus \in {"idle", "saving", "saved", "error"} /\ closeTimer \in BOOLEAN
    /\ saves \in 0 .. MaxDiffSaves

\* Two documents have the same paths, and objects and arrays at the same ones.
SameShape(d, e) ==
    /\ DOMAIN d = DOMAIN e
    /\ \A p \in DOMAIN d : {d[p], e[p]} \cap Containers # {} => d[p] = e[p]

\* A document has everywhere what the draft has, or what the row had before where
\* original and draft have the same.
LeavesDraft(old, new, before, after) ==
    /\ DOMAIN after = DOMAIN new
    /\ \A p \in DOMAIN new :
          \/ after[p] = new[p]
          \/ p \in DOMAIN old /\ old[p] = new[p] /\ after[p] = before[p]

\* What leads to the path are objects.
InObjects(d, path) ==
    \A n \in 0..(Len(path) - 1) : First(path, n) \in DOMAIN d /\ d[First(path, n)] = "object"

\* The draft has at the path what the original has, in objects both have.
NotEdited(path) ==
    /\ InObjects(request.old, path) /\ InObjects(request.new, path)
    /\ Below(request.old, path) = Below(request.new, path)

\* What is under a path of keys.
Under(d, path) == IF InObjects(d, path) THEN Below(d, path) ELSE NoDoc

KeyPaths == {<<k>> : k \in ObjectKeys} \cup {<<k, j>> : k \in ObjectKeys, j \in ObjectKeys}

\* A save of two texts that serde_json reads, over a row that differs from the original
\* in its leaves at most (what others wrote there, digits the grid did not show), is not
\* refused and leaves the draft in the row as serde_json reads it, whichever way the
\* difference was found and applied.  A save by paths over any row keeps what is there,
\* to the last digit, at keys the user did not edit.  (Indices are positions: in an array
\* somebody shortened or reordered meanwhile they are those of other elements.)
SaveMerges ==
    [][ApplySave /\ BothRead =>
          /\ SameShape(cell, request.old) =>
                /\ request'.st = "done"
                /\ LeavesDraft(Read(request.old), Read(request.new), cell, cell')
          /\ ~SaveDiff.full /\ cell # NoDoc =>
                \A path \in KeyPaths :
                    NotEdited(path) => Under(cell', path) = Under(cell, path)]_diffVars

\* What the comment on new_cell_value says: the grid is refreshed from the row
\* (query/types.rs:556-558).
GridShowsRow == [][grid' # grid => grid' = GridText(cell')]_diffVars

\* What the comment on the frontend's computeDiff says: it mirrors the
\* backend's, so that what is previewed is what runs (computeDiff.ts:13-18).
PreviewIsWhatRuns ==
    [][Save =>
          /\ PreviewDiff.full = SaveDiff'.full
          /\ {op.path : op \in PreviewDiff.ops} = {op.path : op \in SaveDiff'.ops}]_diffVars

=============================================================================
