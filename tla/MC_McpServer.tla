---------------------------- MODULE MC_McpServer ----------------------------
(***************************************************************************)
(* An instance of McpServer.  The client may ask to restart a service, to  *)
(* read a managed file, to run a tool nobody registered, and decide about  *)
(* the first approval; it may also send a notification, which is not to be *)
(* handled.  One policy document limits restarts to another service, wants *)
(* reads confirmed and lists no target; the other has a malformed rule.    *)
(***************************************************************************)
EXTENDS McpServer

CONSTANTS managed, None, o1

MCCalls == {1, 2, o1}

Restart == [tool |-> "restart_service", mutating |-> TRUE, scope |-> "system",
            name |-> "web", path |-> None]
Read    == [tool |-> "read_config_file", mutating |-> FALSE, scope |-> "system",
            name |-> None, path |-> managed]
Unknown == [tool |-> "renamed_tool", mutating |-> TRUE, scope |-> "system",
            name |-> None, path |-> None]

MCRegistered == {Restart, Read}
MCEnvelopes  == MCRegistered \cup {Unknown}
MCReadOnly  == {Read}
\* No call here follows a printed command: Hint is not used.
MCHint      == [e \in MCEnvelopes |-> e]

Rule(enabled, confirm, scopes, patterns) ==
    [enabled |-> enabled, confirm |-> confirm, scopes |-> scopes, patterns |-> patterns]

Narrow    == [version |-> 1, targets |-> {},
              rules |-> [tool \in {"read_config_file", "restart_service"} |->
                           Rule(TRUE, tool = "read_config_file", {"system"}, {"db"})]]
Malformed == [version |-> 1, targets |-> Default,
              rules |-> [tool \in {"restart_service"} |-> Rule(TRUE, Bad, {}, {})]]

MCDocuments == {Narrow, Malformed}

Line(form, id, method, name, arg) ==
    [form |-> form, id |-> id, method |-> method, name |-> name, arg |-> arg]

MCRequests ==
    {Line("jsonrpc", TRUE, "tools/call", "restart_service", Restart),
     Line("jsonrpc", TRUE, "tools/call", "read_config_file", Read),
     Line("legacy", TRUE, "tools/call", "renamed_tool", Unknown),
     Line("jsonrpc", TRUE, "tools/call", "approval_approve", 1),
     Line("legacy", FALSE, "approvals/reject", None, 1),
     Line("jsonrpc", FALSE, "approvals/approve", None, 1),
     Line("legacy", TRUE, "approvals/approve", None, Bad)}
=============================================================================
