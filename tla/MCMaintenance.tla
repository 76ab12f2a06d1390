---------------------------- MODULE MCMaintenance ----------------------------
EXTENDS Maintenance, TLC

CONSTANTS a, b
Symmetric == Permutations({a, b})

(* 002 makes a table that may be there and two indices that may not, one   *)
(* of which every start makes, too; day35 is written for MySQL and has no  *)
(* number. After 001 and an empty database no start would succeed, for its *)
(* users are keyed by numbers: a later migration, 004, stands for it here, *)
(* which makes such users if there are none and adds a column to them.     *)
SomeFiles ==
    <<[name |-> "002", id |-> 2, makes |-> {"comments"},
       anew |-> {"idx_comments_task_id", "idx_comments_user_id"}, valid |-> TRUE],
      [name |-> "004", id |-> 4, makes |-> {"users"}, anew |-> {"locale"}, valid |-> TRUE],
      [name |-> "day35", id |-> 0, makes |-> {"organizations"}, anew |-> {}, valid |-> FALSE]>>
SomeTables == <<"users", "comments", "idx_comments_task_id">>

(* What the database can hold, whatever the calls do.                      *)
SomeContents == Database
=============================================================================
