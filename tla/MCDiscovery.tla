---------------------------- MODULE MCDiscovery ----------------------------
(***************************************************************************)
(* Discovery for TLC: two regions of one plugin, a root type with a nested *)
(* type, a type no one may discover, global resources that both regions    *)
(* list, one of which a filter keeps out of the inventory.                 *)
(***************************************************************************)
EXTENDS Discovery

Desc(ns, parents, mapped) ==
    [namespace |-> ns, discoverable |-> TRUE, parents |-> parents, mapped |-> mapped]

VpcTypes == [vpc |-> Desc("aws", {}, TRUE), subnet |-> Desc("aws", {"vpc"}, TRUE),
             secret |-> [Desc("aws", {}, TRUE) EXCEPT !.discoverable = FALSE]]

Resource(id, type, targets, parent) ==
    [id |-> id, type |-> type, targets |-> targets, parent |-> parent]

TwoRegions == [east |-> "aws", west |-> "aws"]

Global == {Resource("v1", "vpc", {"east", "west"}, "none"),
           Resource("s1", "subnet", {"east", "west"}, "v1"),
           Resource("s2", "subnet", {"east", "west"}, "v1")}
Default == {"s2"}

Aws == {"aws"}
OneEach == [ns \in Namespaces |-> 1]
Commands == {"c1", "c2"}
Nothing == {}

=============================================================================
