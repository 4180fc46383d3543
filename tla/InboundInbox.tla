---------------------------- MODULE InboundInbox ----------------------------
(***************************************************************************)
(* What the coalescing and the turn queue promise about the bubbles of one *)
(* conversation, with no timers, no flags and no database: a bubble waits, *)
(* is read by the one turn that runs, and ends settled.  A turn gives back *)
(* or settles everything it read at once; nothing settles unread, and no   *)
(* settled bubble is read again.  InboundTurns implements SafeSpec in a    *)
(* conversation with a history as long as no retry reopens a bubble, and   *)
(* Spec when, besides, no process dies and no turn throws.                 *)
(***************************************************************************)
EXTENDS Naturals

CONSTANT Bubbles   \* the names bubbles may have

VARIABLE inbox     \* the status of every bubble that arrived

Status == {"waiting", "reading", "settled"}

In(st) == {b \in DOMAIN inbox : inbox[b] = st}

Move(S, st) == inbox' = [b \in DOMAIN inbox |-> IF b \in S THEN st ELSE inbox[b]]

\* Whatever an older conversation left is settled.
Init == \A b \in DOMAIN inbox : inbox[b] = "settled"

Arrive ==
  \E b \in DOMAIN inbox' \ DOMAIN inbox :
    /\ b \in Bubbles
    /\ inbox' = [c \in DOMAIN inbox \cup {b} |->
                   IF c = b THEN "waiting" ELSE inbox[c]]

\* A turn starts on some waiting bubbles, and may be joined by later ones.
Read == \E S \in SUBSET In("waiting") : S # {} /\ Move(S, "reading")

Settle  == In("reading") # {} /\ Move(In("reading"), "settled")
PutBack == In("reading") # {} /\ Move(In("reading"), "waiting")

Next == Arrive \/ Read \/ Settle \/ PutBack

SafeSpec == Init /\ [][Next]_inbox

\* However often turns are given back, the inbox is settled again and again.
Drains == []<>(DOMAIN inbox = In("settled"))

Spec == SafeSpec /\ Drains
=============================================================================
