----------------------------- MODULE MCAutoMode -----------------------------
(* Instances of AutoMode for TLC: two ordinals, one cycle at a time.        *)
EXTENDS AutoMode
None == [k \in {"scale", "edit", "manual", "cycle", "cancel", "restart", "squat", "crash"} |-> 0]
Scene(tier, start, rep, keep, b, max) == [tier |-> tier, start |-> start, rep |-> rep, keep |-> keep, b |-> b, max |-> max]
Ordinary1 == [None EXCEPT !.crash = 1, !.scale = 1]
MCScenes == {
  \* a gateway tier that is scaled down and up, with retained and with deleted claims
  Scene("gateway", "serving", 2, TRUE, [None EXCEPT !.scale = 3, !.edit = 1, !.crash = 1], 4),
  Scene("gateway", "serving", 2, FALSE, [None EXCEPT !.scale = 3, !.restart = 1, !.crash = 1], 3),
  \* a storage tier: bootstrap next to a foreign claim, scaling, an edit that overtakes a drain
  Scene("storage", "fresh", 1, TRUE, [None EXCEPT !.squat = 1, !.restart = 1, !.crash = 1], 3),
  Scene("storage", "serving", 2, FALSE, [None EXCEPT !.scale = 2, !.edit = 1, !.crash = 1], 3),
  Scene("storage", "serving", 2, TRUE, [None EXCEPT !.scale = 2, !.crash = 1], 3),
  \* a cycle: resumed, cancelled, with a Pod that restarts, overtaken by a scale-down or a change of policy
  Scene("storage", "serving", 1, FALSE, [None EXCEPT !.cycle = 1, !.cancel = 1, !.restart = 1, !.crash = 1], 4),
  Scene("storage", "serving", 2, FALSE, [None EXCEPT !.cycle = 1, !.scale = 1, !.crash = 1], 2),
  Scene("storage", "serving", 1, TRUE, [None EXCEPT !.cycle = 1, !.manual = 1, !.crash = 1], 3),
  \* what earlier releases left behind
  Scene("storage", "legacy", 2, TRUE, [Ordinary1 EXCEPT !.crash = 2], 3),
  Scene("storage", "legacyZero", 2, TRUE, Ordinary1, 2),
  Scene("storage", "legacyLost", 2, TRUE, Ordinary1, 2),
  Scene("gateway", "legacy", 2, FALSE, Ordinary1, 2),
  Scene("gateway", "legacyLost", 2, TRUE, Ordinary1, 2),
  Scene("gateway", "unproven", 2, TRUE, [Ordinary1 EXCEPT !.scale = 2], 3),
  Scene("storage", "unproven", 2, FALSE, Ordinary1, 2),
  Scene("storage", "promoted", 2, TRUE, [Ordinary1 EXCEPT !.edit = 1], 3),
  Scene("storage", "serving", 2, TRUE, [None EXCEPT !.manual = 1, !.edit = 1, !.crash = 1], 3)}
\* a storage tier with retained claims, and two edits of its replicas
RetainScenes == {Scene("storage", "serving", 2, TRUE, [None EXCEPT !.scale = 2], 2)}
=============================================================================
