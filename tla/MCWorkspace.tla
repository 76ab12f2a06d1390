----------------------------- MODULE MCWorkspace -----------------------------
EXTENDS Workspace

CONSTANTS u1, u2, stranger

Symmetric == Permutations({u1, u2})

(* The answer of the last request guards nothing: states that differ in it *)
(* alone need not be told apart.                                           *)
View == <<tables, counters, torn, cached, taskHistory>>

(* A task of defaults, the changes of each field, two of them at once, and *)
(* what is refused: a short title, an empty body, an unknown project.      *)
Nothing == [title |-> Null, status |-> Null, priority |-> Null, project |-> Null]
SomeTaskInputs ==
    {Nothing,
     [Nothing EXCEPT !.title = "short"],
     [Nothing EXCEPT !.title = "ok"],
     [Nothing EXCEPT !.title = "ok", !.project = ProjectId(1)],
     [Nothing EXCEPT !.title = "ok", !.project = stranger],
     [Nothing EXCEPT !.status = "TODO"],
     [Nothing EXCEPT !.status = "DONE", !.priority = "HIGH"]}

SomePaths == {List}

SomeProjectInputs ==
    {[name |-> "ok", memberIds |-> {}], [name |-> "short", memberIds |-> {}],
     [name |-> "ok", memberIds |-> {u1, u2}],
     [name |-> "ok", memberIds |-> {u1, stranger}]}

=============================================================================
