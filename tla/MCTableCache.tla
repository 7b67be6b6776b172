---------------------------- MODULE MCTableCache ----------------------------
(***************************************************************************)
(* Instances of TableCache.  In the recursive schema `a` has message       *)
(* fields of types b and c, b refers back to a, and c refers to itself and *)
(* has a field of a shape the table compiler does not support.  In the     *)
(* dynamic schema two descriptors share one Go type, as all messages of    *)
(* dynamicpb do: `void` has no field, `profile` has fields that no struct  *)
(* field carries.                                                          *)
(***************************************************************************)
EXTENDS TableCache, TLC

RecursiveDescs == {"a", "b", "c"}
RecursiveTypes == {"A", "B", "C"}
RecursiveGoType == [d \in RecursiveDescs |->
                      CASE d = "a" -> "A" [] d = "b" -> "B" [] d = "c" -> "C"]
RecursiveNested == [d \in RecursiveDescs |->
                      CASE d = "a" -> <<"b", "c">>
                        [] d = "b" -> <<"a">>
                        [] d = "c" -> <<"c">>]
RecursiveFallback == {"c"}

DynamicDescs == {"void", "profile"}
DynamicTypes == {"dynamicpb.Message"}
DynamicGoType == [d \in DynamicDescs |-> "dynamicpb.Message"]
DynamicNested == [d \in DynamicDescs |-> <<>>]
DynamicFallback == {"profile"}

Symmetry == Permutations(Procs)
=============================================================================
