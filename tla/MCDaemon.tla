------------------------------ MODULE MCDaemon ------------------------------
EXTENDS Daemon, TLC

CONSTANTS app, web, inApp, beside

\* Two sqlite databases whose dumps have the same name: one in the container
\* app, one in a directory that is named like it.
MCKind == (beside :> 3) @@ (inApp :> 4)
MCHolder == (beside :> None) @@ (inApp :> app)
MCDumpName == (beside :> "app-data.db") @@ (inApp :> "app-data.db")

Few  == [volumes |-> <<>>, databases |-> {beside}]
Many == [volumes |-> <<app, web>>, databases |-> {beside, inApp}]
MCPlans == {Few, Many}
MCConfigs == {[every |-> 2, plan |-> Many], [every |-> 4, plan |-> Few], [every |-> 0, plan |-> Few]}
=============================================================================
