-------------------------- MODULE StructuredMemory --------------------------
(***************************************************************************)
(* StructuredMemoryStore (src/src/text/structured_memory_store.cpp): the   *)
(* facts of the running process, one entry for each key (an entity and an  *)
(* attribute), with the changes staged over them until a flush.            *)
(*                                                                         *)
(* A store is a record: entries, staged (staged_entries_), staging         *)
(* (pending_mutations_ is not empty) and visible                           *)
(* (staged_query_visibility_enabled_).  Values, metadata and versions are  *)
(* left out: an entry is known by its id, that of the frame it came from.  *)
(***************************************************************************)
EXTENDS Naturals

CONSTANTS Key, None

Entry(id, supersedes, pinned) ==
  [id |-> id, supersedes |-> supersedes, pinned |-> pinned]

NoEntry == Entry(None, None, FALSE)
NoEntries == [k \in Key |-> NoEntry]

Empty == [entries |-> NoEntries, staged |-> NoEntries, staging |-> FALSE, visible |-> FALSE]

\* A slip: the staged map is set up from the entries every time.
StageUpsertOverEntries(m, k, entry) ==
  [m EXCEPT !.staged = [m.entries EXCEPT ![k] = entry],
            !.staging = TRUE,
            !.visible = TRUE]

StageUpsert(m, k, entry) ==
  [m EXCEPT !.staged = [IF m.staging THEN m.staged ELSE m.entries EXCEPT ![k] = entry],
            !.staging = TRUE,
            !.visible = TRUE]

\* StageRemove takes an empty staged map for one that was never set up, also
\* when every fact has been removed, and starts over from the entries.
StartsOver(m) == m.staging /\ m.staged = NoEntries

RemoveBase(m) == IF m.staging /\ ~StartsOver(m) THEN m.staged ELSE m.entries

\* The id StageRemove returns; None when it finds nothing.
RemovedId(m, k) == RemoveBase(m)[k].id

StageRemove(m, k) ==
  IF RemovedId(m, k) # None
  THEN [m EXCEPT !.staged = [RemoveBase(m) EXCEPT ![k] = NoEntry],
                 !.staging = TRUE,
                 !.visible = TRUE]
  ELSE [m EXCEPT !.staged = IF m.staging THEN RemoveBase(m) ELSE @]

CommitStaged(m) ==
  IF m.staging THEN [Empty EXCEPT !.entries = m.staged] ELSE m

\* What QueryByEntityPrefix answers from.
Visible(m) == IF m.staging /\ m.visible THEN m.staged ELSE m.entries
=============================================================================
