--------------------------- MODULE QuoteLifecycle ---------------------------
(***************************************************************************)
(* What the advance desk promises of each quote, whatever runs at once: it *)
(* is offered once, and then either executed, exactly once, or it lapses;  *)
(* a lapsed quote is never executed and an executed one never again.       *)
(***************************************************************************)
EXTENDS Naturals

CONSTANT Ids

VARIABLES status, executions

lifecycleVars == <<status, executions>>

Having(s) == {id \in Ids : status[id] = s}

LifecycleInit ==
    /\ status = [id \in Ids |-> "new"]
    /\ executions = [id \in Ids |-> 0]

\* One look at the cache drops what has expired and may add a fresh quote.
Refresh(lapsed, fresh) ==
    /\ lapsed \subseteq Having("offered")
    /\ fresh \subseteq Having("new")
    /\ status' = [id \in Ids |-> CASE id \in lapsed -> "lapsed"
                                   [] id \in fresh  -> "offered"
                                   [] OTHER         -> status[id]]
    /\ UNCHANGED executions

Execute(id) ==
    /\ status[id] = "offered"
    /\ status' = [status EXCEPT ![id] = "executed"]
    /\ executions' = [executions EXCEPT ![id] = @ + 1]

LifecycleNext ==
    \/ \E lapsed, fresh \in SUBSET Ids : Refresh(lapsed, fresh)
    \/ \E id \in Ids : Execute(id)

LifecycleSpec == LifecycleInit /\ [][LifecycleNext]_lifecycleVars
=============================================================================
