-------------------------- MODULE MCEventDispatcher --------------------------
(* Two topics to subscribe to and one empty entry, one message to publish; *)
(* the clock shows two instants, one second and one year apart.            *)
EXTENDS EventDispatcher

MCTopics        == {"templates", "dispatch"}
MCSubscriptions == <<"templates", "", "dispatch">>
MCPublications  == <<"dispatch">>
MCBusinessIds   == [dispatch |-> 1030101]
MCInstants      == <<[yyyy |-> 2025, MM |-> 12, dd |-> 31, HH |-> 23, mm |-> 59, ss |-> 59],
                     [yyyy |-> 2026, MM |-> 1, dd |-> 1, HH |-> 0, mm |-> 0, ss |-> 0]>>
=============================================================================
