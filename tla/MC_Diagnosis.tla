---------------------------- MODULE MC_Diagnosis ----------------------------
(***************************************************************************)
(* An instance of Diagnosis: a web server with a service unit and a shell in *)
(* a login scope.                                                          *)
(***************************************************************************)
EXTENDS Diagnosis

CONSTANTS web, shell, webService, sshService, loginScope

MCCommands == {web, shell}
MCUnitOf   == [c \in MCCommands |->
                 CASE c = web -> webService [] c = shell -> loginScope]
=============================================================================
