------------------------------ MODULE MCGateway ------------------------------
(* The three parts of the gateway share no variable, so every property of   *)
(* one is decided by the behaviours of that one: the run explores the parts *)
(* side by side, each from the initial state, and not their product.        *)
EXTENDS GatewayRuntime, GatewayCommands, GatewayTables

VARIABLE part

gatewayVars == <<part, rtVars, cmdVars, tableVars>>

GatewayInit ==
    /\ part \in {"runtimes", "commands", "tables"}
    /\ RuntimeInit /\ CommandInit /\ TablesInit

GatewayNext ==
    /\ UNCHANGED part
    /\ \/ part = "runtimes" /\ (RuntimeNext \/ GatewayRestart) /\ UNCHANGED <<cmdVars, tableVars>>
       \/ part = "commands" /\ CommandNext /\ UNCHANGED <<rtVars, tableVars>>
       \/ part = "tables" /\ (FileNext \/ ClaimNext \/ Reboot) /\ UNCHANGED <<rtVars, cmdVars>>

\* The sweep thread runs for as long as the gateway does.
GatewaySpec == GatewayInit /\ [][GatewayNext]_gatewayVars /\ WF_gatewayVars(SweepOnce /\ UNCHANGED <<part, cmdVars, tableVars>>)

GatewayTypeOK == RuntimeTypeOK /\ CommandTypeOK /\ TablesTypeOK
=============================================================================
