------------------------------ MODULE Verdicts ------------------------------
(***************************************************************************)
(* The second half that kubedd.Validate and kubedd.ValidateCluster share   *)
(* line for line: every result is judged against the target release        *)
(* through a cache local to the call, then null errors are filtered out.   *)
(***************************************************************************)
EXTENDS KubeChecker

VARIABLES
    pc,                    \* control state of the run
    results,               \* validationResults of the current call
    at,                    \* the result the judging loop is at
    apiVersionKindCache    \* <<apiVersion, kind>> -> what was found in the target

verdictVars == <<pc, results, at, apiVersionKindCache>>

Answers == {"absent", "supported", "unsupported"}

EmptyCache == [key \in ApiVersions \X Kinds |-> "absent"]

-----------------------------------------------------------------------------
\* Faulty variant: the key has no apiVersion that tells two of a kind apart.
CacheKeyByKind(api, kind) == <<CHOOSE a \in Apis : TRUE, kind>>

CacheKey(api, kind) == <<api, kind>>

\* The answer for api and kind is in the cache afterwards; target is the release asked.
LookUp(api, kind, target) ==
    LET key == CacheKey(api, kind)
    IN  IF apiVersionKindCache[key] # "absent"
        THEN UNCHANGED <<versionMap, apiVersionKindCache>>
        ELSE \E ok \in BOOLEAN :
               /\ LoadFromUrl(target, FALSE, ok)
               /\ apiVersionKindCache' = [apiVersionKindCache EXCEPT ![key] =
                    IF IsVersionSupported(ok, versionMap'[target], api, kind)
                    THEN "supported" ELSE "unsupported"]

\* The next look-up of the loop has to ask the target: its answer is not in the cache.
asksTarget ==
    /\ at \in DOMAIN results
    /\ LET r == results[at]
           api == IF pc = "judgeLatest" THEN migratesTo(r) ELSE r.api
       IN  /\ pc \in {"judgeLatest", "judgeCurrent"}
           /\ apiVersionKindCache[CacheKey(api, r.kind)] = "absent"

\* What LookUp found.
Found(api, kind) == apiVersionKindCache'[CacheKey(api, kind)] = "supported"

\* First half of the loop body: the apiVersion the object would migrate to.
JudgeLatest(target) ==
    /\ pc = "judgeLatest"
    /\ at \in DOMAIN results
    /\ LET r == results[at]
       IN  /\ LookUp(migratesTo(r), r.kind, target)
           /\ results' = [results EXCEPT ![at] =
                IF Found(migratesTo(r), r.kind)
                THEN [r EXCEPT !.isVersionSupported = 1]
                ELSE [r EXCEPT !.isVersionSupported = 2, !.deleted = TRUE]]
    /\ pc' = "judgeCurrent"
    /\ UNCHANGED at

\* Faulty variant: what the first half found is kept.
deletedKept(r) == r.deleted \/ ~Found(r.api, r.kind)

deletedByTarget(r) == ~Found(r.api, r.kind)

\* Faulty variant: the loop misses every other result.
nextResultSkipping == at + 2

nextResult == at + 1

\* Second half: the apiVersion the object has. It overwrites deleted.
JudgeCurrent(target) ==
    /\ pc = "judgeCurrent"
    /\ LookUp(results[at].api, results[at].kind, target)
    /\ results' = [results EXCEPT ![at].deleted = deletedByTarget(results[at])]
    /\ at' = nextResult
    /\ pc' = "judgeLatest"

FilterNullErrors(ignoreNull) ==
    /\ pc = "judgeLatest"
    /\ at \notin DOMAIN results
    /\ results' = [i \in DOMAIN results |->
         [results[i] EXCEPT
            !.errorsForLatest = Kept(@, ignoreNull),
            !.errorsForOriginal = Kept(@, ignoreNull)]]
    /\ pc' = "emit"
    /\ UNCHANGED <<at, apiVersionKindCache, versionMap>>
=============================================================================
