---------------------------- MODULE MCStoreFiles -----------------------------
(* Metadata with a kind and labels, without, too many entries, too long.   *)
EXTENDS StoreFiles, TLC

MCKeyOrder == <<"kind", "labels", "path", "x">>
MCSize == [s \in {"", "kind", "labels", "path", "x", "a", "a,b", "b", "long"} |->
             CASE s = "" -> 0 [] s = "long" -> 2 [] OTHER -> 1]
MCLabelsOf ==
  [s \in DOMAIN MCSize |->
     CASE s = "" -> <<>> [] s = "a,b" -> <<"a", "b">> [] OTHER -> <<s>>]
Input(content, meta) == [content |-> content, meta |-> meta]
MCInputs ==
  {Input(<<1>>, ("kind" :> "a") @@ ("labels" :> "a,b")),
   Input(<<>>, "kind" :> ""),
   Input(<<2>>, "path" :> "long"),
   Input(<<>>, ("kind" :> "a") @@ ("labels" :> "b") @@ ("path" :> "a") @@ ("x" :> "a"))}
==============================================================================
