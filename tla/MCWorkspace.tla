---------------------------- MODULE MCWorkspace ----------------------------
(* One term, mentioned in the first of two chunks of one chapter, so that  *)
(* the second one depends on it through the text of the first only.  The   *)
(* second text of the first chunk is the first one, grown in front.        *)
EXTENDS Workspace, Sequences

MCMentions == <<{"term"}, {}>>
MCAnswers == [c \in 1 .. 2 |-> [n \in 2 .. 5 |-> [k \in 0 .. 1 |->
                IF n = 3 THEN {k} ELSE IF n = 5 /\ c = 1 THEN {1, 2} ELSE {1}]]]
MCSuffix == <<1, 2>>
MCEnds == <<{1}, {1, 2}>>

=============================================================================
