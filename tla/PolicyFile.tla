------------------------------ MODULE PolicyFile ------------------------------
(***************************************************************************)
(* PolicyLoader and PolicyEngine: the policy file an operator edits, the   *)
(* cached policy of every process that evaluates it, and the decision that *)
(* evaluate takes for one tool call.                                       *)
(*                                                                         *)
(* load looks at the file twice: it takes the stamp (st_mtime_ns) and then *)
(* reads.  An edit may come in between.  Every edit gives the file a new   *)
(* stamp; two edits in one tick of the file system's clock are left out.   *)
(***************************************************************************)
EXTENDS Integers

CONSTANTS
    Loaders,      \* processes with a PolicyLoader
    Documents,    \* what an operator may leave in the file
    Absent,       \* no file
    Bad,          \* a value of the wrong type, or a file that is not TOML
    Default,      \* the document has no config_targets
    DefaultPaths, \* the paths build_default_config_targets covers
    MaxEdits      \* bound on the edits of the file

VARIABLES
    file,   \* the document in the file
    stamp,  \* edits so far: the file's modification time
    load,   \* the load each process is in
    cache   \* the policy each process has cached, and its key

pvars == <<file, stamp, load, cache>>

Scopes     == {"system", "user"}
Validators == {"ini_parse", "json_parse", "command"}
NoKey      == -1
NoStamp    == MaxEdits + 1

\* Of the file's documents a rule is [enabled, confirm, scopes, patterns] and a
\* target [paths, validator, command]: the paths its roots and globs match and
\* whether it has a validator_command.
AcceptsRule(rule) ==
    /\ Bad \notin {rule.enabled, rule.confirm}
    /\ rule.scopes \subseteq Scopes
    /\ Bad \notin rule.patterns

AcceptsTarget(target) ==
    /\ Bad \notin target.paths
    /\ target.validator \in Validators
    /\ target.command <=> target.validator = "command"

AcceptsDocument(doc) ==
    /\ doc # Bad
    /\ doc.version = 1
    /\ \A tool \in DOMAIN doc.rules : AcceptsRule(doc.rules[tool])
    /\ doc.targets # Default => \A target \in doc.targets : AcceptsTarget(target)

NoRules == [tool \in {} |-> Bad]

Policy(error, rules, paths) == [error |-> error, rules |-> rules, paths |-> paths]

\* A document that cannot be read whole leaves neither rules nor targets.
Parsed(doc) ==
    IF doc = Absent THEN Policy(FALSE, NoRules, DefaultPaths)
    ELSE IF ~AcceptsDocument(doc) THEN Policy(TRUE, NoRules, {})
    ELSE Policy(FALSE, doc.rules,
                IF doc.targets = Default THEN DefaultPaths
                ELSE UNION {target.paths : target \in doc.targets})

ServiceTools == {"service_status", "restart_service", "reload_service"}

\* _evaluate_argument_constraints.
Constrained(rule, call) ==
    \/ rule.scopes # {} /\ call.scope \notin rule.scopes
    \/ /\ rule.patterns # {} /\ call.tool \in ServiceTools
       /\ call.name \notin rule.patterns

\* Mutations (Mut...): a plausible slip in the code each, never used by a Spec.
MutTrustsRules(policy, call) ==
    LET ruled == call.tool \in DOMAIN policy.rules IN
    IF policy.error \/ (ruled /\ ~policy.rules[call.tool].enabled) THEN "deny"
    ELSE IF (IF ruled THEN policy.rules[call.tool].confirm ELSE call.mutating)
    THEN "confirm" ELSE "allow"

\* PolicyEngine.evaluate.
Decision(policy, call) ==
    LET ruled == call.tool \in DOMAIN policy.rules
        rule  == policy.rules[call.tool]
    IN  IF \/ policy.error
           \/ ruled /\ (~rule.enabled \/ Constrained(rule, call))
        THEN "deny"
        ELSE IF call.mutating \/ (ruled /\ rule.confirm) THEN "confirm" ELSE "allow"

-----------------------------------------------------------------------------
EmptyCache == [key |-> NoKey, policy |-> Parsed(Absent)]
NoLoad     == [phase |-> "none", key |-> NoKey]

PolicyTypeOK ==
    /\ file \in Documents \cup {Absent}
    /\ stamp \in 0 .. MaxEdits
    /\ load \in [Loaders -> [phase : {"none", "read", "loaded"}, key : {NoKey} \cup 0 .. NoStamp]]
    /\ cache \in [Loaders -> [key : {NoKey} \cup 0 .. NoStamp,
                              policy : {Parsed(doc) : doc \in Documents \cup {Absent, Bad}}]]

PolicyInit ==
    /\ file \in Documents \cup {Absent}
    /\ stamp = 0
    /\ load = [l \in Loaders |-> NoLoad]
    /\ cache = [l \in Loaders |-> EmptyCache]

MutKeyWithoutStamp == IF file = Absent THEN NoStamp ELSE 0

\* (exists, st_mtime_ns).
CacheKey == IF file = Absent THEN NoStamp ELSE stamp

StatPolicy(l) ==
    /\ load[l].phase = "none"
    /\ load' = [load EXCEPT ![l] =
          [phase |-> IF cache[l].key = CacheKey THEN "loaded" ELSE "read", key |-> CacheKey]]
    /\ UNCHANGED <<file, stamp, cache>>

\* A file that has gone since is an error, like one that does not parse.
ReadPolicy(l) ==
    LET doc == IF load[l].key = NoStamp THEN Absent ELSE IF file = Absent THEN Bad ELSE file IN
    /\ load[l].phase = "read"
    /\ cache' = [cache EXCEPT ![l] = [key |-> load[l].key, policy |-> Parsed(doc)]]
    /\ load' = [load EXCEPT ![l].phase = "loaded"]
    /\ UNCHANGED <<file, stamp>>

LoadPolicy(l) == StatPolicy(l) \/ ReadPolicy(l)

\* load has returned its policy.
UsePolicy(l) ==
    /\ load[l].phase = "loaded"
    /\ load' = [load EXCEPT ![l] = NoLoad]
    /\ UNCHANGED <<file, stamp, cache>>

\* An exception leaves the load, wherever it is.
AbandonLoad(l) ==
    /\ load' = [load EXCEPT ![l] = NoLoad]
    /\ UNCHANGED <<file, stamp, cache>>

\* The process is replaced by a new one.
ForgetPolicy(l) ==
    /\ load' = [load EXCEPT ![l] = NoLoad]
    /\ cache' = [cache EXCEPT ![l] = EmptyCache]
    /\ UNCHANGED <<file, stamp>>

EditPolicy(doc) ==
    /\ stamp < MaxEdits
    /\ doc \in (Documents \cup {Absent}) \ {file}
    /\ file' = doc
    /\ stamp' = stamp + 1
    /\ UNCHANGED <<load, cache>>
=============================================================================
