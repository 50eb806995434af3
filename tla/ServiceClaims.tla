---------------------------- MODULE ServiceClaims ----------------------------
(***************************************************************************)
(* What the repository's documents and comments say, held against          *)
(* RsvpService.  The history variable since remembers, in real time, when  *)
(* each user's place in a queue became visible; the service itself knows   *)
(* only the clock of the instance that queued the user (queuedAt).         *)
(***************************************************************************)
EXTENDS RsvpService

VARIABLE since   \* since[e][u]: when u last entered the queue of e

NewlyQueued(e) == Waiting(e)' \ Waiting(e)

ClaimInit ==
  /\ Init
  /\ since = [e \in Events |-> [u \in Users |-> 0]]

ClaimNext ==
  /\ Next
  /\ since' = [e \in Events |-> [u \in Users |->
                 IF u \in NewlyQueued(e) THEN now ELSE since[e][u]]]

ClaimSpec == ClaimInit /\ [][ClaimNext]_<<vars, since>>

-----------------------------------------------------------------------------

(* promoteNextWaitlisted says it promotes the longest-waiting participant:  *)
(* one who was in the queue before another is not overtaken by them.       *)
(* People queued in the same instant are ordered by row id, which is       *)
(* documented, and a place an organiser left idle goes to the next joiner. *)
LongestWaitingPromoted ==
  [][\A e \in Events :
       \A v \in Waiting(e) \cap Confirmed(e)', u \in Waiting(e) \cap Waiting(e)' :
         rsvp[e][u].queuedAt # rsvp[e][v].queuedAt => since[e][v] <= since[e][u]
     ]_<<vars, since>>

(* DATA_MODEL.md: capacity becomes available -> the earliest WAITLISTED is  *)
(* promoted to CONFIRMED.  So nobody waits for an event that has room.     *)
NobodyWaitsForAnIdlePlace == \A e \in Events : ~IdlePlace(e)

(* A confirmed RSVP of e is cancelled while others wait. *)
ConfirmedLeavesQueue(e) ==
  /\ event[e] # Gone /\ event'[e] # Gone
  /\ event[e].waitlistEnabled
  /\ Waiting(e) # {}
  /\ Confirmed(e) \ Confirmed(e)' # {}

(* API_SPEC.md: when a confirmed RSVP is cancelled and the waitlist is      *)
(* enabled, the next waitlisted participant is promoted in the same        *)
(* transaction.                                                            *)
CancellationPromotes ==
  [][\A e \in Events :
       ConfirmedLeavesQueue(e) => Waiting(e) \cap Confirmed(e)' # {}]_<<vars, since>>

(* prisma.service.ts lists P2025, a delete of a missing row, among the      *)
(* errors the application handles explicitly: while the database works, an *)
(* organiser's DELETE is never answered INTERNAL_ERROR.                    *)
MissingRowHandled ==
  \A r \in Requests :
    pc[r] = "done" /\ call[r].op = "delete" => answer[r].code # "INTERNAL_ERROR"
=============================================================================
