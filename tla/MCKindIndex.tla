----------------------------- MODULE MCKindIndex ----------------------------
(***************************************************************************)
(* Small OpenAPI documents in the shape of the Kubernetes ones: a kind     *)
(* that moved from a beta version in one group to the same beta version    *)
(* and then v1 in another, a kind with one version, a component that       *)
(* lists several GVKs, a version text that does not match and one without  *)
(* digits, and paths with POST, with PUT only, with both, and with neither.*)
(***************************************************************************)
EXTENDS KindIndex

CONSTANTS c1, c2, c3

Text(t, ok, M, s, m) ==
    [text |-> t, extension |-> FALSE, matches |-> ok, major |-> M, stage |-> s, minor |-> m]
v1beta1  == Text("v1beta1", TRUE, 1, betaVersion, 1)
v1       == Text("v1", TRUE, 1, gaVersion, NoDigits)
internal == Text("internal", FALSE, NoDigits, gaVersion, NoDigits)
vbeta1   == Text("vbeta1", TRUE, NoDigits, betaVersion, 1)

Gvk(g, v, k) == [group |-> g, version |-> v, kind |-> k]
ExtIngress == Gvk("extensions", v1beta1, "ingress")
BetIngress == Gvk("networking", v1beta1, "ingress")
NetIngress == Gvk("networking", v1, "ingress")
Deployment == Gvk("apps", v1, "deployment")
OddIngress == Gvk("networking", internal, "ingress")
RawIngress == Gvk("networking", vbeta1, "ingress")

MCKinds        == {"ingress", "deployment"}
MCGroups       == {"extensions", "networking", "apps"}
MCVersionTexts == {v1beta1, v1, internal, vbeta1}
MCUrls         == 1..4

Annotations ==
    {<<>>, <<ExtIngress>>, <<BetIngress>>, <<NetIngress>>, <<Deployment>>, <<OddIngress>>,
     <<RawIngress>>, <<ExtIngress, NetIngress>>}

Paths ==
    {[url |-> 1, post |-> <<ExtIngress>>, put |-> <<NetIngress>>],
     [url |-> 2, post |-> NoMethod, put |-> <<NetIngress>>],
     [url |-> 3, post |-> <<NetIngress, BetIngress>>, put |-> <<Deployment>>],
     [url |-> 4, post |-> <<Deployment>>, put |-> NoMethod]}

MCOpenAPIDocs == [paths : SUBSET Paths, schemas : [Components -> Annotations]]
=============================================================================
