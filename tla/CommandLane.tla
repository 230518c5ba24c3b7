---------------------------- MODULE CommandLane ----------------------------
(***************************************************************************)
(* What the repository service promises to the command queue (ADR 0110,    *)
(* "Queue command intents"): commands run one at a time, a command changes *)
(* the repository only while it is the running one, and it is over only    *)
(* when the screen shows a snapshot with all of its work, or the user has  *)
(* been told that there is none.  The screen never goes back in time.      *)
(***************************************************************************)
EXTENDS Integers

VARIABLES
  running,   \* the command under way, or 0
  version,   \* version of the repository
  work,      \* version the last change made by a command produced
  shown,     \* version on screen
  told       \* the user was told that the screen may be out of date

laneVars == <<running, version, work, shown, told>>

Init ==
  /\ running = 0 /\ version \in Nat /\ work = 0 /\ shown = 0 /\ told = FALSE

Start ==
  /\ running = 0
  /\ running' \in Nat \ {0}
  /\ UNCHANGED <<version, work, shown, told>>

Work ==
  /\ running # 0
  /\ version' = version + 1
  /\ work' = version + 1
  /\ UNCHANGED <<running, shown, told>>

\* Someone else changes the repository.
Change ==
  /\ version' = version + 1
  /\ UNCHANGED <<running, work, shown, told>>

Show(v) ==
  /\ v \in shown..version
  /\ shown' = v /\ told' = FALSE
  /\ UNCHANGED <<running, version, work>>

Tell ==
  /\ told' = TRUE
  /\ UNCHANGED <<running, version, work, shown>>

Finish(v) ==
  /\ running # 0
  /\ running' = 0
  /\ v \in shown..version /\ v >= work
  /\ shown' = v /\ told' = FALSE
  /\ UNCHANGED <<version, work>>

FinishBlind ==
  /\ running # 0
  /\ running' = 0
  /\ told' = TRUE
  /\ UNCHANGED <<version, work, shown>>

Next ==
  \/ Start \/ Work \/ Change \/ Tell \/ FinishBlind
  \/ \E v \in shown..version : Show(v) \/ Finish(v)

LaneSpec == Init /\ [][Next]_laneVars

=============================================================================
