---------------------------- MODULE TokenEscrow ----------------------------
(***************************************************************************)
(* What a token lock promises, without contracts, roles or arithmetic:     *)
(* tokens are promised to a beneficiary once, come in from anywhere, and   *)
(* leave on four ways only, each within its own limit.  The locks are      *)
(* shown to implement this machine.                                        *)
(***************************************************************************)
EXTENDS Integers

VARIABLES
  promised,    \* tokens promised to the beneficiary, zero before the promise
  committed,   \* the part that cannot be taken back any more
  limit,       \* what may have been released by now
  accepted,    \* the beneficiary has accepted
  terminated,  \* the owner has revoked what was not committed
  held,        \* tokens in escrow
  received, released, extra, cancelled, revoked   \* sums of what moved

promise == <<promised, committed, limit>>
status  == <<accepted, terminated>>
escrowVars ==
  <<promise, status, held, received, released, extra, cancelled, revoked>>

Init ==
  /\ promised = 0 /\ committed = 0 /\ limit = 0
  /\ accepted = FALSE /\ terminated = FALSE
  /\ held = 0 /\ received = 0
  /\ released = 0 /\ extra = 0 /\ cancelled = 0 /\ revoked = 0

(* The promise is made once. *)
Promise ==
  /\ promised = 0 /\ promised' > 0
  /\ committed' >= 0 /\ limit' >= 0
  /\ UNCHANGED <<status, held, received, released, extra, cancelled, revoked>>

(* Time only adds to what is committed and to what may be released. *)
Pass ==
  /\ committed' >= committed /\ limit' >= limit
  /\ UNCHANGED <<promised, status, held, received, released, extra, cancelled,
                 revoked>>

Accept ==
  /\ promised > 0
  /\ accepted' = TRUE
  /\ UNCHANGED <<promise, terminated, held, received, released, extra,
                 cancelled, revoked>>

Receive ==
  /\ received' > received
  /\ held' = held + (received' - received)
  /\ UNCHANGED <<promise, status, released, extra, cancelled, revoked>>

(* The beneficiary gets no more than the limit ... *)
Release ==
  /\ released' > released
  /\ released' <= limit
  /\ held' = held - (released' - released) /\ held' >= 0
  /\ UNCHANGED <<promise, status, received, extra, cancelled, revoked>>

(* ... besides what came in on top of the promise.                         *)
PayExtra ==
  /\ extra' > extra
  /\ extra' + promised <= received
  /\ held' = held - (extra' - extra) /\ held' >= 0
  /\ UNCHANGED <<promise, status, received, released, cancelled, revoked>>

(* The owner may take tokens back until the promise is accepted ...        *)
Cancel ==
  /\ promised > 0
  /\ ~accepted
  /\ cancelled' >= cancelled
  /\ held' = held - (cancelled' - cancelled) /\ held' >= 0
  /\ UNCHANGED <<promise, status, received, released, extra, revoked>>

(* ... and, once, what is not committed.                                   *)
Revoke ==
  /\ ~terminated /\ terminated' = TRUE
  /\ revoked = 0 /\ revoked' > 0
  /\ revoked' + committed <= promised
  /\ held' = held - revoked' /\ held' >= 0
  /\ UNCHANGED <<promise, accepted, received, released, extra, cancelled>>

Next ==
  \/ Promise \/ Pass \/ Accept \/ Receive
  \/ Release \/ PayExtra \/ Cancel \/ Revoke

Spec == Init /\ [][Next]_escrowVars
=============================================================================
