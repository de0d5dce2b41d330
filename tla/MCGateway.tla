------------------------------ MODULE MCGateway ------------------------------
(* A server with two requests and a worker with one loop; a second worker    *)
(* was started paused.                                                       *)
EXTENDS Gateway, TLC

CONSTANTS server, worker, halted, api, form, watcher, drain, prefix, address

ThreeProcesses == {server, worker, halted}
FourCallers == {api, form, watcher, drain}
Places == api :> server @@ form :> server @@ watcher :> worker @@ drain :> halted

\* The bucket of the form's key has twice the window of the shortest.
TwoKeys == {prefix, address}
RequestKeys == api :> prefix @@ form :> address
Limits == prefix :> 1 @@ address :> 1
Windows == prefix :> 1 @@ address :> 2
=============================================================================
