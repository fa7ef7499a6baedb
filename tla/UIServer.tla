------------------------------- MODULE UIServer -------------------------------
(***************************************************************************)
(* The drawing server (src/user/server/ui_server.c): a re-entrant lock     *)
(* over the console, held for one batch of output at a time.  A task that  *)
(* asks while another draws is not answered until the lock is passed on to *)
(* it.  A draw is answered by status only, and its callers in ui.c ignore  *)
(* that: a refused one is lost.                                            *)
(***************************************************************************)
EXTENDS Sequences, Naturals

CONSTANTS
  UI_SERVER_MAX_WAITERS,
  Nobody

ASSUME UIAssumption == UI_SERVER_MAX_WAITERS \in Nat

VARIABLE
  ui        \* owner_tid, owner_mode, owner_depth, waiters, and
            \* lost: the tasks of which output was refused

UIInit == ui = [owner |-> Nobody, mode |-> "RAW", depth |-> 0,
                waiters |-> <<>>, lost |-> {}]

Waiting(t) == \E i \in DOMAIN ui.waiters : ui.waiters[i].task = t

\* UI_SERVER_MSG_ACQUIRE: the lock is granted, also to the task that has it
\* already, or its reply is kept back; with no room for a waiter it is refused.
Acquire(t, m) ==
  IF ui.owner \in {Nobody, t}
  THEN ui' = [ui EXCEPT !.owner = t, !.mode = m, !.depth = @ + 1]
  ELSE IF Len(ui.waiters) < UI_SERVER_MAX_WAITERS
  THEN ui' = [ui EXCEPT !.waiters = Append(@, [task |-> t, mode |-> m])]
  ELSE ui' = [ui EXCEPT !.lost = @ \cup {t}]

\* UI_SERVER_MSG_RELEASE: the last release passes the lock to the first waiter,
\* whose ACQUIRE is answered by it.
Released(l) ==
  IF l.depth > 1 THEN [l EXCEPT !.depth = @ - 1]
  ELSE IF l.waiters = <<>> THEN [l EXCEPT !.owner = Nobody, !.depth = 0]
  ELSE [l EXCEPT !.owner = Head(l.waiters).task, !.mode = Head(l.waiters).mode,
                 !.waiters = Tail(@)]

\* UI_SERVER_MSG_RAW_*, CMD_* and the release that ends the batch: drawn only in the
\* owner's batch and in its mode, released only by the owner.
DrawAndRelease(t, m) ==
  LET drawn == IF ui.owner = t /\ ui.mode = m THEN ui ELSE [ui EXCEPT !.lost = @ \cup {t}]
  IN  ui' = IF ui.owner = t THEN Released(drawn) ELSE drawn
===============================================================================
