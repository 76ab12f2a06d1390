---------------------------- MODULE MCAnalytics ----------------------------
(***************************************************************************)
(* A small instance: two users, a kind of task of each and six words.      *)
(***************************************************************************)
EXTENDS Insights
CONSTANTS u1, u2

MCStatusChanges == {<<"TODO", "IN_PROGRESS">>, <<"TODO", "CANCELLED">>, <<"TODO", "DONE">>,
                    <<"IN_PROGRESS", "DONE">>, <<"DONE", "IN_PROGRESS">>}
MCInputs ==
    {[user |-> u1, priority |-> "URGENT", title |-> <<"bug", "report">>, days |-> 1],
     [user |-> u2, priority |-> "LOW", title |-> <<"integration", "report", "great">>,
      days |-> Null]}
=============================================================================
