------------------------------ MODULE MCVisitor -----------------------------
(***************************************************************************)
(* Four schemas and ten values, every schema against every value. "old" is *)
(* deprecated and contains itself, "loop" as well through its items; "list"*)
(* has items, "old" and "obj" have none; a list's description says         *)
(* deprecated, which the visit of an array does not look at.               *)
(***************************************************************************)
EXTENDS Visitor, TLC

MCSchemas == {"obj", "old", "list", "loop"}
MCDeprecated == {"old", "list"}
MCProperties ==
    [obj  |-> "a" :> "old" @@ "b" :> "list",
     old  |-> "a" :> "old",
     list |-> <<>>,
     loop |-> "a" :> "loop" @@ "b" :> "old" @@ "c" :> "list"]
MCItems == [obj |-> NoSchema, old |-> NoSchema, list |-> "obj", loop |-> "loop"]

MCIndexTexts == <<"0", "1">>
MCKeys == {"a", "b", "c", "0", "1"}

MCChildren ==
    [leaf    |-> <<>>,
     odd     |-> <<>>,
     empty   |-> <<>>,
     none    |-> <<>>,
     one     |-> "0" :> "leaf",
     field   |-> "a" :> "leaf",
     two     |-> "0" :> "field" @@ "1" :> "leaf",
     flat    |-> "a" :> "field" @@ "b" :> "none" @@ "c" :> "leaf",
     mixed   |-> "a" :> "empty" @@ "b" :> "two",
     deep    |-> "a" :> "flat" @@ "b" :> "one" @@ "c" :> "odd"]
MCValues == DOMAIN MCChildren
MCShape ==
    [v \in MCValues |-> CASE v = "leaf" -> "scalar"
                          [] v = "odd" -> "unhandled"
                          [] v \in {"none", "one", "two"} -> "array"
                          [] OTHER -> "object"]

MCPaths == UNION {[1..n -> MCKeys] : n \in 0..3}
=============================================================================
