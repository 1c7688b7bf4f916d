----------------------------- MODULE MCMessages -----------------------------
(***************************************************************************)
(* Instances of Messages for TLC.                                          *)
(***************************************************************************)
EXTENDS Messages

MCUsers == {"a", "b", "c"}
MCHosts == {"api", "events", "other"}
MCUserOf == [api |-> "a", events |-> "b", other |-> "c"]
MCDirectories == {<<"api", "a">>, <<"api", "b">>, <<"events", "b">>, <<"other", "c">>}
MCFactors == {"ab", "abc"}
MCHostOf == [ab |-> "api", abc |-> "api"]
MCSender == [ab |-> "a", abc |-> "a"]
MCReceiver == [ab |-> <<"b">>, abc |-> <<"b", "c">>]
MCMaxPair == [a |-> 1, b |-> 2, c |-> 1]
=============================================================================
