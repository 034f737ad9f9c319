-------------------------- MODULE ApprovalLifecycle --------------------------
(***************************************************************************)
(* What the tool_approvals table promises to an operator, with no trace of *)
(* how the runtime keeps it: an approval is requested for one action       *)
(* envelope, is either rejected or begun, is executed by at most one call  *)
(* and only after it was begun, and ends once.  ToolRuntime implements it. *)
(***************************************************************************)
EXTENDS Naturals, Sequences

CONSTANTS
    Calls,      \* invocations of the runtime
    Envelopes   \* action envelopes: tool, arguments and audit context

VARIABLES
    rows,       \* the approvals, in the order of their ids
    runs        \* <<id, call>>: the call executed the tool under approval id

avars == <<rows, runs>>

ActiveStatuses   == {"pending", "executing"}
TerminalStatuses == {"completed", "failed", "rejected"}
Row == [env : Envelopes, status : ActiveStatuses \cup TerminalStatuses]

Is(i, status)    == i \in DOMAIN rows /\ rows[i].status = status
Become(i, status) == rows' = [rows EXCEPT ![i].status = status]

Init == rows = <<>> /\ runs = {}

\* Only one approval of an envelope is open at a time.
Request(e) ==
    /\ \A i \in DOMAIN rows : rows[i].env = e => rows[i].status \notin ActiveStatuses
    /\ rows' = Append(rows, [env |-> e, status |-> "pending"])
    /\ UNCHANGED runs

Reject(i) == Is(i, "pending") /\ Become(i, "rejected") /\ UNCHANGED runs

Begin(i)  == Is(i, "pending") /\ Become(i, "executing") /\ UNCHANGED runs

Execute(i, c) ==
    /\ Is(i, "executing")
    /\ \A run \in runs : run[1] # i
    /\ runs' = runs \cup {<<i, c>>}
    /\ UNCHANGED rows

\* A completed approval was executed; a failed one may have been.
End(i, status) ==
    /\ Is(i, "executing")
    /\ status = "completed" => \E run \in runs : run[1] = i
    /\ Become(i, status)
    /\ UNCHANGED runs

Next ==
    \/ \E e \in Envelopes : Request(e)
    \/ \E i \in DOMAIN rows :
          \/ Reject(i)
          \/ Begin(i)
          \/ \E c \in Calls : Execute(i, c)
          \/ \E status \in {"completed", "failed"} : End(i, status)

Spec == Init /\ [][Next]_avars
=============================================================================
