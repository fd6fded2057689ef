------------------------- MODULE MCMergeDashboards -------------------------
(* Instances of MergeDashboards for TLC.                                   *)
EXTENDS MergeDashboards

Bare(name)   == [name |-> <<name>>, braced |-> FALSE]
Braced(name) == [name |-> <<name>>, braced |-> TRUE]

Panel(row, placed, y, h, cols, refs, nested) ==
    [row |-> row, placed |-> placed, id |-> 1, y |-> y, h |-> h, cols |-> cols,
     refs |-> refs, nested |-> nested, from |-> <<0, 0, 0>>]

Chart(y, h, cols, refs) == Panel(FALSE, TRUE, y, h, cols, refs, <<>>)
OpenRow(y)              == Panel(TRUE, TRUE, y, 1, {1, 2}, {}, <<>>)
ClosedRow(y, ps)        == Panel(TRUE, TRUE, y, 1, {1, 2}, {}, ps)
Unplaced(refs)          == Panel(FALSE, FALSE, 0, 0, {}, refs, <<>>)

Var(name, refs) == [name |-> <<name>>, refs |-> refs]

\* Panels side by side, below each other, one of them tall.
Columns(refs) == <<Chart(2, 3, {1}, refs), Chart(2, 1, {2}, {}), Chart(3, 1, {2}, refs)>>
\* An open row and what follows it; panels nested in a closed row, and the
\* panel that follows directly below while it is closed, where they are stored.
Opened(refs)  == <<OpenRow(0), Chart(1, 2, {1, 2}, refs)>>
Closed(refs)  == <<ClosedRow(0, <<Chart(1, 2, {1}, refs), Chart(1, 1, {2}, {})>>),
                   Chart(1, 2, {1, 2}, refs)>>
Mixed(refs)   == <<Unplaced(refs), Chart(1, 1, {1}, {})>>

\* The variables of the files for the cluster: a data source, a model, and
\* the pods of a namespace; and a variable whose name begins with another's.
AllVars == <<Var("datasource", {}), Var("namespace", {}),
             Var("pod", {Bare("namespace"), Bare("all")}), Var("pod_ip", {Braced("pod")})>>
FewVars == <<Var("datasource", {}), Var("pod_ip", {})>>

AllRefs == {Bare("pod"), Braced("namespace"), Bare("pod_ip"), Braced("interval")}
FewRefs == {Bare("pod_ip"), Bare("datasource")}

MCDashboards ==
    {[panels |-> ps, vars |-> AllVars] :
        ps \in {Columns(AllRefs), Opened(AllRefs), Closed(AllRefs), <<>>}}
    \cup {[panels |-> Mixed(FewRefs), vars |-> FewVars],
          [panels |-> Opened(FewRefs), vars |-> <<>>]}

MCNames  == {"sgl", "vllm", "datasource", "namespace", "pod", "pod_ip",
             "interval", "all"}
MCPrefix == <<"sgl", "vllm", "vllm">>
MCLonger == {<<"pod", "pod_ip">>}
=============================================================================
