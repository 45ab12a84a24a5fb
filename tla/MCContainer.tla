---------------------------- MODULE MCContainer ------------------------------
(***************************************************************************)
(* Commands for the model checking of ContainerLifecycle.                  *)
(***************************************************************************)
EXTENDS ContainerLifecycle, TLC

Run == <<"create", "start", "wait">>
RunRm == <<"create", "start", "wait", "remove">>
RunDetached == <<"create", "start", "watch">>
RunDetachedRm == <<"create", "start", "watch", "remove">>
StartCmd == <<"start", "watch">>
StopCmd == <<"stop">>
RmForce == <<"stop", "remove">>
Daemon == <<"recover">>

Cli == {RunRm, RunDetachedRm, StartCmd, RmForce}
CliDaemon == {Run, RunDetached, StartCmd, StopCmd, Daemon}
CliDetached == {RunDetached, StartCmd, StopCmd}

\* A program calls the methods one by one.
SingleMethods == {<<"create">>, <<"start">>, <<"wait">>, <<"stop">>, <<"remove">>}

Interchangeable == Permutations(Clients)
==============================================================================
