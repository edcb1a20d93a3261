--------------------------- MODULE MCRuntimeFilter ---------------------------
(***************************************************************************)
(* Small instances of RuntimeFilter: two levels of the five, so that a     *)
(* mask can hold none, one or all of them.                                 *)
(***************************************************************************)
EXTENDS RuntimeFilter

MCLevel == {"Info", "Error"}
EnableInfo == [kind |-> "enable", arg |-> {"Info"}]
DisableInfo == [kind |-> "disable", arg |-> {"Info"}]
Silence == [kind |-> "init_from_value", arg |-> Off]
NoKnownName == [kind |-> "init_from_value", arg |-> {}]
Clear == [kind |-> "clear", arg |-> {}]
Reload == [kind |-> "init_from_env", arg |-> {}]

SetOrNot == {NotSet, {"Error"}}
AllCalls == {EnableInfo, DisableInfo, Silence, NoKnownName, Clear, Reload}
=============================================================================
