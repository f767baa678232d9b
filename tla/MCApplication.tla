---------------------------- MODULE MCApplication ----------------------------
(* Two files that share an object and one that is no configuration; a      *)
(* setting below a leaf and one that is not UTF-8.                         *)
EXTENDS Application

MCInitial ==
    [main   |-> [whole |-> TRUE,
                 doc |-> [p \in {<<>>, <<"mqtt">>, <<"mqtt", "port">>} |->
                            IF p = <<"mqtt", "port">> THEN "1883" ELSE "object"]],
     tcp    |-> [whole |-> TRUE,
                 doc |-> [p \in {<<>>, <<"mqtt">>, <<"mqtt", "user">>, <<"tcp">>} |->
                            IF p \in {<<>>, <<"mqtt">>} THEN "object" ELSE "4004"]],
     README |-> Torn]
MCFiles     == DOMAIN MCInitial
MCJsonFiles == {"main", "tcp"}
MCSettings  == {[path |-> <<"tcp", "", "port">>, value |-> Leaf("4005")],
                [path |-> <<"mqtt", "user">>, value |-> Leaf("not UTF-8")],
                [path |-> <<"mqtt">>, value |-> Leaf("null")]}
MCAppTasks  == << <<"mqtt">>, <<"tcp">> >>
=============================================================================
