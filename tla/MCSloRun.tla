------------------------------- MODULE MCSloRun -------------------------------
(* Instances of SloRun for TLC: contexts, commands and engines.            *)
EXTENDS SloRun

Cmd(params, unparsed) == [params |-> params, unparsed |-> unparsed]
Base  == Cmd("tp=4", "")
Large == Cmd("tp=8", "")

\* The tokens --tp=4 and --tp=8, which parse_model_cmd_args passes over.
BaseEq  == Cmd("", "--tp=4")
LargeEq == Cmd("", "--tp=8")

MCExternal == Cmd("", "external")

Context(v, init, max) ==
    [context |-> v, init_concurrent |-> init, max_concurrent |-> max]

\* Three contexts, the second with limits of its own.
ThreeContexts == <<Context("short", 0, 0), Context("medium", 1, 2),
                   Context("long", 3, 0)>>
TwoContexts   == <<Context("short", 0, 0), Context("long", 1, 1)>>

\* The same context twice, as when two overrides are compared on it.
SameContext == <<Context("short", 0, 0), Context("short", 0, 0)>>

OneGroup  == <<"sglang">>
TwoGroups == <<"sglang", "sglang">>
TwoEngines == <<"sglang", "vllm">>

\* Per group, the commands of the contexts: shared by the first two and then
\* overridden, or overridden for the second only.
SharedThenOverride == <<<<Base, Base, Large>>, <<Base, Large, Base>>>>
OverrideEq         == <<<<BaseEq, LargeEq>>>>
Shared             == <<<<Base, Base>>>>
PerEngine          == <<<<Base, Base>>, <<Large, Large>>>>

MCMethods         == {"stopN"}
MCInitConcurrents == {1, 2, 3}
MCMaxConcurrents  == {0, 1, 2, 3}
MCStopNs          == {1}
=============================================================================
