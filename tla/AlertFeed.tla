----------------------------- MODULE AlertFeed -----------------------------
(***************************************************************************)
(* What the operator is promised about the messages on a probe target, with *)
(* no mention of probes, hosts or schedulers: an incident is announced once *)
(* before it is reminded of or declared over, and after it is over only the *)
(* next incident is announced.  A restart of the process forgets what was   *)
(* announced.                                                               *)
(*                                                                          *)
(* AutoTriage.tla implements this specification.                            *)
(***************************************************************************)
CONSTANT Presets          \* the saved probe targets

VARIABLES
    open,                 \* the targets with an announced incident
    sent                  \* sent[p]: the last message about p

Message == {"none", "incident", "reminder", "recovery"}

Init ==
    /\ open = {}
    /\ sent = [p \in Presets |-> "none"]

Announce(p) ==
    /\ p \notin open
    /\ open' = open \cup {p}
    /\ sent' = [sent EXCEPT ![p] = "incident"]

Remind(p) ==
    /\ p \in open
    /\ open' = open
    /\ sent' = [sent EXCEPT ![p] = "reminder"]

Close(p) ==
    /\ p \in open
    /\ open' = open \ {p}
    /\ sent' = [sent EXCEPT ![p] = "recovery"]

Restart ==
    /\ open' = {}
    /\ sent' = sent

Next ==
    \/ \E p \in Presets : Announce(p) \/ Remind(p) \/ Close(p)
    \/ Restart

Spec == Init /\ [][Next]_<<open, sent>>
=============================================================================
