---------------------------- MODULE MCFollowUps -----------------------------
(* An instance of FollowUps small enough for TLC.                          *)
EXTENDS FollowUps

\* Two of a bubble, a manager's reply, and another action or fault.
MCBudgets ==
  {[bubbles |-> 1, replies |-> 1, others |-> 0],
   [bubbles |-> 1, replies |-> 0, others |-> 1],
   [bubbles |-> 0, replies |-> 1, others |-> 1]}

\* A manager sends what the bot had sent.
MCLike == {<<<<2, 1>>, 1>>, <<<<1, 1>>, 2>>}
=============================================================================
