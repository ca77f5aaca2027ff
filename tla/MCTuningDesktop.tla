--------------------------- MODULE MCTuningDesktop ---------------------------
(* Instances of TuningDesktop for TLC.                                     *)
EXTENDS TuningDesktop, TLC

CONSTANTS k1, k2, a1, a2

MCPlan == <<a1, a2>>
MCTier == (k1 :> "premium") @@ (k2 :> "expert")

Nothing == [activate |-> 0, deactivate |-> 0, refresh |-> 0, deaths |-> 0, days |-> 0,
            hourly |-> TRUE, loops |-> {}, offline |-> FALSE, hangs |-> FALSE, broken |-> FALSE,
            keys |-> {None}, env |-> None, caches |-> {None}]

FirstLoop == CHOOSE l \in Loops : TRUE
OldCache == [tier |-> "premium", age |-> 1]

\* In turn: two runs of a plan; one run with scripts that hang, and a service that dies
\* or the hourly refreshes; the licence in the hands of the user, with a cloud that
\* fails, or a service that dies and is not found again; a key in the environment; the
\* days of grace, with a service restarted until it is given up, and with two keys.
MCSettings ==
  {[Nothing EXCEPT !.loops = Loops, !.hourly = FALSE, !.keys = {k1}],
   [Nothing EXCEPT !.loops = {FirstLoop}, !.hangs = TRUE, !.deaths = 1, !.hourly = FALSE, !.keys = {k1}],
   [Nothing EXCEPT !.loops = {FirstLoop}, !.hangs = TRUE, !.keys = {k1}],
   [Nothing EXCEPT !.activate = 1, !.deactivate = 1, !.offline = TRUE, !.caches = {OldCache}],
   [Nothing EXCEPT !.activate = 1, !.deactivate = 1, !.deaths = 1, !.broken = TRUE, !.keys = {k1}],
   [Nothing EXCEPT !.deactivate = 1, !.refresh = 1, !.keys = {None, k1}, !.env = k2],
   [Nothing EXCEPT !.days = 3, !.offline = TRUE, !.deaths = 2, !.keys = {k1}],
   [Nothing EXCEPT !.days = 3, !.offline = TRUE, !.keys = {k1, k2}]}
=============================================================================
