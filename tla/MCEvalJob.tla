----------------------------- MODULE MCEvalJob -----------------------------
(***************************************************************************)
(* Libraries and requests for the model checker.                           *)
(***************************************************************************)
EXTENDS EvalJob

File(t, c) == [task |-> t, category |-> c, valid |-> TRUE]
BadFile    == [task |-> "t1", category |-> "qa", valid |-> FALSE]

(* Two files of one task, the second of which changes its category; and a
   library with a file that is a JSON array, as the repository's own has. *)
Good == <<File("t1", "qa"), File("t2", "qa"), File("t1", "tools")>>
Bad  == <<File("t1", "qa"), BadFile>>

MCLibraries == {Good, Bad}
GoodOnly    == {Good}

Ask(ids, category) == [ids |-> ids, category |-> category]

(* One task; two in another order than the library's, and an unknown id; none. *)
MCAsked == {Ask(<<All>>, "qa"), Ask(<<"t2", "t3", "t1">>, "qa"), Ask(<<"t3">>, NoCategory)}
OneTask  == {Ask(<<"t1">>, NoCategory)}
=============================================================================
