----------------------------- MODULE NodeNames -----------------------------
(***************************************************************************)
(* The node names that the configuration of the fake node exporter stands  *)
(* for.  A pattern such as rack-[1..2]-gpu-[01..16] is the sequence of its *)
(* ranges; the text around them is left out, so that patterns of one       *)
(* configuration are taken to share it.  A number of a name is printed     *)
(* with leading zeros up to the width of the range's first bound, so that  *)
(* [1..10] and [01..10] agree on the name of 10 only.                      *)
(***************************************************************************)
EXTENDS Integers, FiniteSets, SequencesExt

Digits(i) == Max({1, Cardinality({k \in 0 .. 8 : 10^k <= i})})

\* str(i).zfill(width): the number, and how many digits are printed.
Numbered(i, width) == <<i, Max({width, Digits(i)})>>

\* Each name, extended by each number of the range, in order.
WithRange(stems, r) ==
    FlattenSeq([j \in 1 .. Len(stems) |->
        [i \in 1 .. r.hi - r.lo + 1 |->
            Append(stems[j], Numbered(r.lo + i - 1, r.width))]])

\* expand_node_range: the leftmost range first, then the rest of each name.
ExpandNodeRange(pattern) == FoldLeft(WithRange, <<<<>>>>, pattern)

\* generate_nodes_from_config: without patterns, the names of the default
\* range.  Names may occur twice.
GenerateNodes(patterns, default) ==
    IF patterns = <<>>
    THEN ExpandNodeRange(<<default>>)
    ELSE FlattenSeq([p \in 1 .. Len(patterns) |-> ExpandNodeRange(patterns[p])])
=============================================================================
