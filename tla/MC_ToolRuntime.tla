--------------------------- MODULE MC_ToolRuntime ---------------------------
(***************************************************************************)
(* Instances of ToolRuntime.  The envelopes are a service restart planned  *)
(* in a chat session and the same restart asked for with "mc tool".  The   *)
(* calls are numbered in the order in which they are made.                 *)
(***************************************************************************)
EXTENDS ToolRuntime

CONSTANTS ChatRestart, CliRestart

MCEnvelopes == {ChatRestart, CliRestart}
MCSessioned == {ChatRestart}

\* A chat approval prints "mc tool", which runs under another audit context;
\* the approval of an "mc tool" run prints the command that runs it.
MCHint == [e \in MCEnvelopes |-> CliRestart]

\* The calls are alike: one is made only when those of a lower number are.
MCInOrder == \A c, d \in Calls : c < d /\ pc[d] # "idle" => pc[c] # "idle"
=============================================================================
