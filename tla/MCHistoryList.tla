---------------------------- MODULE MCHistoryList ----------------------------
(***************************************************************************)
(* Instances of HistoryList for TLC: two tools, the first with two         *)
(* sessions.  In one instance every session has a transcript of its own,   *)
(* in the other those of the first tool are rows of one database.          *)
(***************************************************************************)
EXTENDS HistoryList, TLC

CONSTANTS a, b

TwoTools == <<a, b>>
MCTool == <<a, a, b>>

OwnPath == <<"p", "q", "r">>
MCDiscovered == {{}, {1}, {2, 3}}
MCReported == {{}, [session : {1, 2}, form : {"native"}], [session : {1, 2}, form : {"path"}]}

SharedPath == <<"p", "p", "r">>
Databases == {{1, 2}, {2}, {3}}
NoReports == {{}}
=============================================================================
