--------------------------- MODULE MCPreparation ---------------------------
(* Three plans: the first of an unpacked EPUB, the others of files; only   *)
(* some have matter that is not narrative.                                 *)
EXTENDS Preparation

MCParts == <<"package", "chapters", "matter">>
MCDirs == <<{"package", "chapters"}, {"chapters", "matter"}, {"package", "chapters", "matter"}>>

=============================================================================
