------------------------------- MODULE Inbox --------------------------------
(***************************************************************************)
(* What the device promises about what it is sent, over all its runs: an   *)
(* item is reported any number of times and then acknowledged, after which *)
(* its server never sends it again.                                        *)
(***************************************************************************)
EXTENDS Naturals

CONSTANTS
  Item,          \* what the servers send
  Text,          \* the items that are texts; only they are reported
  AtMostOnce,    \* items that are never reported twice
  AtLeastOnce    \* items that are not acknowledged without having been reported

VARIABLES
  reports,    \* how often an item was reported
  acked       \* the items acknowledged

Report(item) ==
  /\ item \in Text \ acked
  /\ item \in AtMostOnce => reports[item] = 0
  /\ reports' = [reports EXCEPT ![item] = @ + 1]
  /\ UNCHANGED acked

Acknowledge(item) ==
  /\ item \in AtLeastOnce => reports[item] > 0
  /\ acked' = acked \cup {item}
  /\ UNCHANGED reports

Spec ==
  /\ reports = [item \in Item |-> 0] /\ acked = {}
  /\ [][\E item \in Item : Report(item) \/ Acknowledge(item)]_<<reports, acked>>
=============================================================================
