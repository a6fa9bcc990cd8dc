--------------------------- MODULE MCNodeLifecycle ---------------------------
(* Instances of NodeLifecycle for TLC. *)
EXTENDS NodeLifecycle

(* Nothing fails that can succeed. *)
FairWeather == [platform : {"linux", "windows"}, faulty : {FALSE}, deaf : {FALSE}]

(* Or any command of Linux fails, or the server and the router do not      *)
(* answer, or both on Windows.  (Commands and requests have nothing to do  *)
(* with each other.)                                                       *)
AnyWeather ==
    FairWeather \cup { [platform |-> "linux",   faulty |-> TRUE,  deaf |-> FALSE],
                       [platform |-> "linux",   faulty |-> FALSE, deaf |-> TRUE],
                       [platform |-> "windows", faulty |-> TRUE,  deaf |-> TRUE] }
=============================================================================
