---------------------------- MODULE MCClusterCheck --------------------------
(***************************************************************************)
(* A cluster of two namespaces over the catalogs of MCCatalogs. Of web the *)
(* applied document is known, of api and job what the API server returns;  *)
(* bad cannot be parsed, odd makes the validation panic, and review is of  *)
(* a kind FetchK8sObjects does not list.                                   *)
(***************************************************************************)
EXTENDS ClusterCheck, MCCatalogs

MCObjects == {"web", "api", "job", "bad", "odd", "review"}
MCNamespaces == {"default", "system"}
MCNamespaceOf ==
    [o \in MCObjects |-> IF o \in {"api", "bad", "odd"} THEN "system" ELSE "default"]
MCKindOf ==
    [o \in MCObjects |-> CASE o \in {"web", "api", "bad"} -> Ing
                           [] o \in {"job", "odd"} -> Dep
                           [] OTHER -> Rev]
MCLive ==
    [o \in MCObjects |-> CASE o = "api" -> "beta" :> "plainIng" @@ "ga" :> "gaIng"
                           [] o = "job" -> "beta" :> "oldDep" @@ "ga" :> "nullDep"
                           [] OTHER -> "beta" :> "list" @@ "ga" :> "list"]
MCApplied ==
    [o \in MCObjects |-> CASE o = "web" -> "betaIng" [] o = "odd" -> "oddNs" [] OTHER -> NoDoc]
MCMapped == {<<"beta", Ing>>, <<"ga", Ing>>, <<"ga", Dep>>, <<"ga", Rev>>}
MCSkippedKinds == {Rev}

MCChars == {"*", "d", "e", "f", "g", "i", "n", "p", "r", "s", "v", "y", "D", "I", "R"}
MCLower == [c \in MCChars |-> CASE c = "D" -> "d" [] c = "I" -> "i" [] c = "R" -> "r" [] OTHER -> c]
MCSpelling ==
    Ing :> <<"I", "n", "g">> @@ Dep :> <<"D", "e", "p">> @@ Rev :> <<"R", "e", "v">>
      @@ "default" :> <<"d", "e", "f">> @@ "system" :> <<"s", "y", "s">>

MCConfigs ==
    [target : {"tgt"}, targetLocation : {NoLocation, "saved"},
     ignoreNullErrors : BOOLEAN, format : {"stdout"},
     selectNamespaces : {{}, {<<"d", "*">>, <<"*", "y", "*">>}},
     ignoreNamespaces : {{}, {<<"*", "y", "s">>}},
     selectKinds : {{}, {<<"i", "n", "g">>}}, ignoreKinds : {{}, {<<"d", "*">>}}]
=============================================================================
