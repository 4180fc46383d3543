--------------------------- MODULE MCClaudeLanes ---------------------------
(* Constant values for TLC: see claude_lanes.cfg, claude_order.cfg and README.md. *)
EXTENDS ClaudeLanes

CONSTANTS dm1, box, nudge, agenda, teach

MCCalls == {dm1, box, nudge, agenda, teach}

MCLaneOf == [c \in MCCalls |-> IF c = teach THEN "meta" ELSE "shared"]

MCPurposeOf ==
  [c \in MCCalls |-> CASE c = nudge          -> "follow_up"
                       [] c = agenda         -> "open_agenda_infer"
                       [] c \in {box, teach} -> "admin"
                       [] OTHER              -> "customer_dm"]

MCMaxConcurrency == [l \in {"shared", "meta"} |-> IF l = "meta" THEN 1 ELSE 2]

\* One slot in each lane, so that two calls may wait for the same one.
MCOneSlot == [l \in {"shared", "meta"} |-> 1]
=============================================================================
