----------------------------- MODULE TextEngine -----------------------------
(***************************************************************************)
(* FTS5SearchEngine (src/src/text/fts5_search_engine.cpp): documents in a  *)
(* map, changes of them that are staged and committed, and a copy of the   *)
(* documents in an sqlite database in memory that answers queries as long  *)
(* as it works.  The copy has the documents in a table (rows) and in an    *)
(* index of their words (postings), which triggers keep up with the table. *)
(* The journal of the database is off: what a failed transaction leaves in *)
(* the table and in the index is open, of each on its own.                 *)
(*                                                                         *)
(* An engine is [docs, pending, mirror, upset]: a mirror is the copy, or   *)
(* Gone, and upset, which is no state of the program, has the documents    *)
(* that transactions that failed were to change.                           *)
(***************************************************************************)
EXTENDS Integers, FiniteSets, SequencesExt, Functions, TLC

CONSTANTS StopWord, Gone

Entries(docs, id) == {id} \X (IF id \in DOMAIN docs THEN ToSet(docs[id]) ELSE {})
Postings(docs) == UNION {Entries(docs, id) : id \in DOMAIN docs}

NoDocs == [rows |-> <<>>, postings |-> {}]

NewEngines == {[docs |-> <<>>, pending |-> <<>>, mirror |-> m, upset |-> {}] : m \in {NoDocs, Gone}}

StageIndex(e, id, text) == [e EXCEPT !.pending = Append(@, [id |-> id, text |-> {text}])]

StageRemove(e, id) == [e EXCEPT !.pending = Append(@, [id |-> id, text |-> {}])]

RollbackStaged(e) == [e EXCEPT !.pending = <<>>]

Applied(docs, mutation) ==
  [id \in (DOMAIN docs \ {mutation.id}) \cup {mutation.id : t \in mutation.text} |->
     IF id = mutation.id THEN CHOOSE t \in mutation.text : TRUE ELSE docs[id]]

\* CommitStaged, when it does not throw, changes the documents first.
DocsChanged(e) == [e EXCEPT !.docs = FoldLeft(Applied, @, e.pending)]

\* One statement of its transaction on the copy, in the order in which sqlite
\* and the triggers _ad, _au and _ai change it: the row, the words that the row
\* had, the words that it has.
RowChanged(copy, mutation) == [copy EXCEPT !.rows = Applied(@, mutation)]
WordsDropped(copy, mutation, old) == [copy EXCEPT !.postings = @ \ Entries(old, mutation.id)]
WordsAdded(copy, mutation) ==
  [copy EXCEPT !.postings = @ \cup ({mutation.id} \X UNION {ToSet(t) : t \in mutation.text})]

\* A failed transaction that began with these rows, after a ROLLBACK without a
\* journal: the rows stay or go back, and the index keeps what of it was already
\* written, which is what it was after some of the changes.
RolledBack(copy, rows, seen) == [rows : {rows, copy.rows}, postings : seen]

\* RebuildSqliteSnapshot: DELETE FROM frame_docs, whose trigger drops the words
\* of the rows that there are, and an INSERT of each document.
\* A slip: the documents are inserted over what the table holds.
KeptFull(copy) == copy
Emptied(copy) == [rows |-> <<>>, postings |-> copy.postings \ Postings(copy.rows)]
Filled(copy, docs) == [rows |-> docs @@ copy.rows, postings |-> copy.postings \cup Postings(docs)]

\* FilterStopWords
Sought(query) == IF query \subseteq StopWord THEN query ELSE query \ StopWord

Matching(docs, query) == {id \in DOMAIN docs : ToSet(docs[id]) \cap Sought(query) # {}}

\* Search before the limit top_k: by the index of the copy, or by the map when
\* there is no copy or the copy fails.
Matches(e, query) ==
  {Matching(e.docs, query)} \cup
    IF e.mirror = Gone \/ e.docs = <<>> THEN {}
    ELSE {{p[1] : p \in {q \in e.mirror.postings : q[2] \in Sought(query)}}}
=============================================================================
