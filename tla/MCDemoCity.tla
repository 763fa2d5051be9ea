------------------------------ MODULE MCDemoCity ------------------------------
(* A small instance of DemoCity.  A behaviour is about boots that fail again  *)
(* and again, with one request, or about two requests and one failure.        *)
EXTENDS DemoCity, TLC

VARIABLE scene

Scene == [boots |-> [stops |-> 3, jobs |-> 1], requests |-> [stops |-> 1, jobs |-> 2]]

MCInit == CityInit /\ scene \in DOMAIN Scene

MCNext ==
    /\ CityNext
    /\ UNCHANGED scene
    /\ stops' <= Scene[scene].stops /\ started' <= Scene[scene].jobs

MCSpec == MCInit /\ [][MCNext]_<<city, scene>>

AnyJob == Permutations(Jobs)
===============================================================================
