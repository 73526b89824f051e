------------------------ MODULE MCMonitorWorkspaces -------------------------
(* Two monitors and the fallback output; a rule binds a workspace to one of *)
(* them, and another names the workspace the other one starts with.         *)
EXTENDS MonitorWorkspaces, TLC

CONSTANTS a, b

MCBoundTo == [id \in Ids |-> IF id = 2 THEN a ELSE NoMonitor]
MCDefaultFor == [m \in Outputs |-> IF m = b THEN 1 ELSE NoWorkspace]
\* Nothing is followed beyond the step that takes a special workspace away.
NotTorn == ~desk.torn
\* Nor beyond a step that makes a fourth workspace, special ones included.
FewWorkspaces == Len(desk.order) <= 3
\* What is remembered of a monitor is written before it is read again.
Unread == <<desk, plugged, unsafe,
            [m \in Outputs \ Enabled(desk) |-> seen[m]]>>
=============================================================================
