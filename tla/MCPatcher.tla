----------------------------- MODULE MCPatcher -----------------------------
(* Patcher with one or two functions in each group of hooks. *)
EXTENDS Patcher

FewHooks ==
    [create |-> << "CreateProcessA" >>,
     launcher |-> << "SetParam" >>,
     game |-> << "GetParam", "ExistsParam" >>,
     net |-> << "connect" >>,
     cmdline |-> << "GetCommandLineA" >>,
     audit |-> << "CreateWindowExA" >>,
     bugtrap |-> << "BT_SendSnapshot" >>,
     wait |-> << "WaitForSingleObject" >>]
TwoApis == {"ExitProcess", "NtTerminateProcess"}
SomeWindows == << "other", "dialog", "dialog" >>
=============================================================================
