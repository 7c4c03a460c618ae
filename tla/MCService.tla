----------------------------- MODULE MCService -----------------------------
(* TLC instance of Service: one setup per thing an administrator does.     *)
EXTENDS Service, TLC

CONSTANTS c1, c2, large, small

Quiet == [e \in Events |-> 0]

(* A release is activated, or the one before it again, while the appliance  *)
(* runs and may be restarted.                                               *)
Upgrading ==
  [commands |-> {"activate", "rollback"}, installed |-> c1, built |-> {c2}, selected |-> large,
   left |-> [Quiet EXCEPT !["commands"] = 2, !["crashes"] = 2]]

Updating ==
  [commands |-> {"update"}, installed |-> c1, built |-> {}, selected |-> large,
   left |-> [Quiet EXCEPT !["commands"] = 1, !["crashes"] = 2]]

Configuring ==
  [commands |-> {}, installed |-> c1, built |-> {}, selected |-> large,
   left |-> [Quiet EXCEPT !["edits"] = 1, !["restarts"] = 2, !["crashes"] = 2, !["faults"] = 2]]

(* The model is switched twice, with a failure; or once, beside a new        *)
(* qualification.                                                           *)
Switched(switches, provisions, crashes) ==
  [commands |-> {}, installed |-> c1, built |-> {}, selected |-> large,
   left |-> [Quiet EXCEPT !["switches"] = switches, !["provisions"] = provisions,
                          !["crashes"] = crashes, !["faults"] = 1]]

(* The first release, the first qualification.                              *)
Commissioning ==
  [commands |-> {"activate"}, installed |-> None, built |-> {c1}, selected |-> None,
   left |-> [Quiet EXCEPT !["commands"] = 1, !["provisions"] = 1, !["crashes"] = 1]]

MCSetups ==
  {Upgrading, Updating, Configuring, Switched(2, 0, 1), Switched(1, 1, 0), Commissioning}
=============================================================================
