---------------------------- MODULE MCFactMemory -----------------------------
(* A fact of an enricher, which an update may make too long for a restart to *)
(* read; a fact with metadata of content; one too long to be put.            *)
EXTENDS FactMemory, TLC

MCKey == {<<"A", "is">>, <<"B", "is">>}
MCKeyOrder == <<"chunk_id", "enricher_kind", "fact_pinned", "language">>
MCSize == [s \in {"", "A", "B", "is", "short", "long", "huge", "yes"} \cup ToSet(MCKeyOrder) |->
             CASE s = "" -> 0 [] s = "long" -> 40000 [] s = "huge" -> 9000000 [] OTHER -> 1]
Said(value, keys) == [value |-> value, meta |-> [k \in keys |-> "yes"]]
MCText ==
  <<"A", "is">> :> {Said("short", {"chunk_id", "enricher_kind"}), Said("long", {"chunk_id", "enricher_kind"})}
  @@ <<"B", "is">> :> {Said("short", {"fact_pinned", "language"}), Said("huge", {})}
==============================================================================
