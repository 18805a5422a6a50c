----------------------------- MODULE MCProcess -----------------------------
(* Process with two workers; the task thread publishes to the data thread.  *)
EXTENDS Process

MCOrder == <<"task", "data">>
MCFeeds == {<<"task", "data">>}
MCRegistered == <<"get_handlers", "get_data_stats", "set_data_budget">>
=============================================================================
