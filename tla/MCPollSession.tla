--------------------------- MODULE MCPollSession ---------------------------
(* Instances of PollSession: one port, two meters, two event categories.   *)
EXTENDS PollSession

MCEvents == {"event_data_cat1", "event_data_cat3"}

MCInitialPoll ==
  [SERIAL |-> <<"get_nameplate", "inst_data", "event_data_cat1", "mn_data">>,
   PLCC   |-> <<"install_data", "get_nameplate", "bill_data">>]

(* One event category between functions of other types; two in a row. *)
MCStorePoll ==
  [SERIAL |-> <<"ls_day", "ls_block", "event_data_cat1", "install_data", "ls_day">>,
   PLCC   |-> <<"install_data", "event_data_cat1", "event_data_cat3">>]

MCStoreEvents == [SERIAL |-> MCStorePoll["PLCC"]]
=============================================================================
