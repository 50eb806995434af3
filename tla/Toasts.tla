------------------------------- MODULE Toasts -------------------------------
(***************************************************************************)
(* The toasts of the web client: a stack of at most two messages, each     *)
(* with a countdown that stops while somebody attends to it.               *)
(***************************************************************************)
EXTENDS Integers, Sequences

CONSTANTS MaxToasts      \* bounds the messages of one history

VARIABLES
  toasts,                \* ids, oldest first
  nextId,
  isPaused, timer,       \* of each toast; timer: its countdown is running
  hovered, focused       \* the toast under the pointer, the one with the focus, or 0

vars == <<toasts, nextId, isPaused, timer, hovered, focused>>

Ids == 1..MaxToasts
Shown == {toasts[i] : i \in 1..Len(toasts)}

Init ==
  /\ toasts = <<>> /\ nextId = 1
  /\ isPaused = [id \in Ids |-> FALSE] /\ timer = [id \in Ids |-> FALSE]
  /\ hovered = 0 /\ focused = 0

(* current.slice(-1) and the new one *)
WithLast(id) == IF toasts = <<>> THEN <<id>> ELSE <<toasts[Len(toasts)], id>>

(* A toast that is no longer rendered: its effect is cleaned up.           *)
Unmounts(gone) ==
  /\ hovered' = IF hovered \in gone THEN 0 ELSE hovered
  /\ focused' = IF focused \in gone THEN 0 ELSE focused

notify ==
  /\ nextId \in Ids /\ nextId' = nextId + 1
  /\ toasts' = WithLast(nextId)
  /\ timer' = [id \in Ids |->
                 id = nextId \/ (timer[id] /\ id \in {toasts'[i] : i \in 1..Len(toasts')})]
  /\ Unmounts(Shown \ {toasts'[i] : i \in 1..Len(toasts')})
  /\ UNCHANGED isPaused

dismiss(id) ==
  /\ toasts' = SelectSeq(toasts, LAMBDA t : t # id)
  /\ timer' = [timer EXCEPT ![id] = FALSE]
  /\ Unmounts({id})
  /\ UNCHANGED <<nextId, isPaused>>

Fires(id) == id \in Shown /\ timer[id] /\ dismiss(id)
Close(id) == id \in Shown /\ dismiss(id)

(* Mutant of Countdown: it is started once. *)
CountdownOnce(id, pause) == timer[id] /\ ~pause

(* The effect: with isPaused the countdown is cleared, without it a whole  *)
(* one begins.                                                             *)
Countdown(id, pause) == ~pause

Pauses(id, pause) ==
  /\ isPaused' = [isPaused EXCEPT ![id] = pause]
  /\ timer' = [timer EXCEPT ![id] = IF pause = isPaused[id] THEN @ ELSE Countdown(id, pause)]
  /\ UNCHANGED <<toasts, nextId>>

MouseEnter(id) ==
  /\ id \in Shown /\ hovered = 0 /\ hovered' = id
  /\ Pauses(id, TRUE) /\ UNCHANGED focused

MouseLeave ==
  /\ hovered # 0 /\ hovered' = 0
  /\ Pauses(hovered, FALSE) /\ UNCHANGED focused

Focus(id) ==
  /\ id \in Shown /\ focused = 0 /\ focused' = id
  /\ Pauses(id, TRUE) /\ UNCHANGED hovered

Blur ==
  /\ focused # 0 /\ focused' = 0
  /\ Pauses(focused, FALSE) /\ UNCHANGED hovered

Next ==
  \/ notify
  \/ \E id \in Ids : Fires(id) \/ Close(id) \/ MouseEnter(id) \/ Focus(id)
  \/ MouseLeave \/ Blur

Spec == Init /\ [][Next]_vars

(* Timers fire. *)
FairSpec == Spec /\ \A id \in Ids : WF_vars(Fires(id))

-----------------------------------------------------------------------------
(* A message nobody attends to goes away, also one that somebody attended  *)
(* to before.                                                              *)
UnattendedGoes ==
  \A id \in Ids : (id \in Shown) ~> (id \notin Shown \/ hovered = id \/ focused = id)

(* "Hovering pauses the countdown: a message that vanishes mid-read is     *)
(* worse than no message" (ToastItem).                                     *)
HoveringPauses == hovered # 0 => ~timer[hovered]
=============================================================================
