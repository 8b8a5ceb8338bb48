----------------------------- MODULE MCFileCheck ----------------------------
(***************************************************************************)
(* Files and directories for FileCheck, over the catalogs of MCCatalogs.   *)
(***************************************************************************)
EXTENDS FileClaims, MCCatalogs

MCFiles == {"ingresses", "deployments", "clean", "odd", "gone"}
MCContents ==
    [ingresses   |-> <<"betaIng", "list", "gaIng", "betaIng">>,
     deployments |-> <<"nullDep", "oldDep">>,
     clean       |-> <<"plainIng", "noApi", "gaIng">>,
     odd         |-> <<"gaIng", "oddList", "oddNs">>,
     gone        |-> Unreadable]

MCDirs == {"charts", "broken"}
Item(f, yaml, ignored, fails) ==
    [file |-> f, yaml |-> yaml, ignored |-> ignored, fails |-> fails]
MCListing ==
    [charts |-> <<Item("odd", FALSE, FALSE, FALSE), Item("clean", TRUE, FALSE, FALSE),
                  Item("deployments", TRUE, TRUE, FALSE)>>,
     broken |-> <<Item("clean", TRUE, FALSE, FALSE), Item("gone", TRUE, FALSE, TRUE)>>]

Cmd(args, directories) == [args |-> args, dirs |-> directories]
MCCommandLines ==
    {Cmd(<<"ingresses", "clean">>, <<>>), Cmd(<<"ingresses", "deployments">>, <<>>),
     Cmd(<<"deployments", "odd">>, <<>>), Cmd(<<"gone", "clean">>, <<>>),
     Cmd(<<>>, <<"charts">>), Cmd(<<"deployments">>, <<"broken", "charts">>)}

MCConfigs ==
    [target : {"tgt"}, source : {"", "cur", "tgt"},
     targetLocation : {NoLocation, "saved", "missing", "hand made"},
     sourceLocation : {NoLocation, "saved"},
     ignoreNullErrors : BOOLEAN, format : {"", "json"},
     ignoreKeysFromDeprecation : {{"metadata"}}, ignoreKeysFromValidation : {{"metadata"}}]
=============================================================================
