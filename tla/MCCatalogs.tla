----------------------------- MODULE MCCatalogs -----------------------------
(***************************************************************************)
(* The small world both kinds of run are checked in: three kinds, two      *)
(* apiVersions and three catalogs in the shape of the Kubernetes history   *)
(* of Ingress, which was served in beta only, then in both, then in GA     *)
(* only. The current and the target release are branches whose published   *)
(* specification may change during the run; the empty release has none.    *)
(***************************************************************************)
EXTENDS TLC, Integers, Sequences

Ing == "ingress"
Dep == "deployment"
Rev == "tokenreview"
MCKinds == {Ing, Dep, Rev}
MCApis  == {"beta", "ga"}
MCRoot  == "root"
MCKeys  == {MCRoot, "spec", "metadata"}

MCNoApi == "none"
MCNotLoaded == "not loaded"

MCCatalogs == {"old", "mid", "new"}
MCServed ==
    [old |-> {<<"beta", Ing>>, <<"ga", Dep>>},
     mid |-> {<<"beta", Ing>>, <<"ga", Ing>>, <<"ga", Dep>>, <<"ga", Rev>>},
     new |-> {<<"ga", Ing>>, <<"ga", Rev>>}]
MCLatest ==
    [old |-> Ing :> "beta" @@ Dep :> "ga" @@ Rev :> MCNoApi,
     mid |-> Ing :> "ga" @@ Dep :> "ga" @@ Rev :> "ga",
     new |-> Ing :> "ga" @@ Dep :> MCNoApi @@ Rev :> "ga"]

MCReleases  == {"", "cur", "tgt"}
MCPublished == "" :> {} @@ "cur" :> {"old", "mid"} @@ "tgt" :> {"mid", "new"}
MCLocations == {"saved", "missing", "hand made"}
MCStored    == "saved" :> "old" @@ "missing" :> MCNotLoaded @@ "hand made" :> "old"
MCUnsortable == {"cur", "tgt", "hand made"}

Wrong   == [key |-> "spec", null |-> FALSE]
Unknown == [key |-> MCRoot, null |-> FALSE]    \* a property the schema does not have
Misplaced == [key |-> "metadata", null |-> FALSE]
NullErr == [key |-> "spec", null |-> TRUE]

Outcome(errs, deps) == [errors |-> errs, deprecations |-> deps, panics |-> FALSE]

\* The same outcome under every schema.
Always(o) == [c \in MCCatalogs |-> [a \in MCApis |-> o]]

\* Fits the beta schema, which is deprecated as a whole from mid on, and not the GA schema.
BetaObject ==
    [c \in MCCatalogs |-> [a \in MCApis |->
        IF a = "ga" THEN Outcome({Wrong, Unknown}, {})
        ELSE Outcome({}, IF c = "old" THEN {} ELSE {MCRoot})]]

\* Fits the schemas of old and mid; new has made a field mandatory.
StaleObject ==
    [c \in MCCatalogs |-> [a \in MCApis |->
        Outcome(IF c = "new" THEN {Wrong} ELSE {}, {})]]

Obj(fate, api, kind, schema) ==
    [fate |-> fate, api |-> api, kind |-> kind, schema |-> schema]

MCManifest ==
    [betaIng  |-> Obj("ok", "beta", Ing, BetaObject),
     plainIng |-> Obj("ok", "beta", Ing, Always(Outcome({}, {}))),
     gaIng    |-> Obj("ok", "ga", Ing, StaleObject),
     nullDep  |-> Obj("ok", "ga", Dep, Always(Outcome({NullErr}, {}))),
     oldDep   |-> Obj("ok", "ga", Dep, Always(Outcome({Wrong, Misplaced}, {MCRoot, "metadata"}))),
     noApi    |-> Obj("ok", MCNoApi, Ing, Always(Outcome({}, {}))),
     list     |-> Obj("error", "ga", Ing, Always(Outcome({}, {}))),
     oddNs    |-> Obj("panic", "ga", Ing, Always(Outcome({}, {}))),
     oddList  |-> Obj("ok", "ga", Ing,
                      [Always(Outcome({}, {})) EXCEPT !.new["ga"].panics = TRUE,
                                                      !.mid["ga"].panics = TRUE])]
MCDocs == DOMAIN MCManifest
=============================================================================
