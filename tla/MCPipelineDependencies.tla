------------------------ MODULE MCPipelineDependencies ------------------------
(* PipelineDependencies with one kind of rule: a pipeline is set off when   *)
(* another one has succeeded.                                              *)
EXTENDS PipelineDependencies

MCKinds == {<<"trigger", "succeeded">>}
=============================================================================
