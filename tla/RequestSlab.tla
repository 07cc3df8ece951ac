----------------------------- MODULE RequestSlab -----------------------------
(***************************************************************************)
(* How the users of request_slab share its blocks.  A block is free,       *)
(* prepared by one thread, lent to the CoAP client with one request, or,   *)
(* while the callback that ends the request still runs, ended.             *)
(*                                                                         *)
(* A thread touches only free blocks and those it prepared itself; a lent  *)
(* block is touched only by the callback of its request, which ends it     *)
(* once.  ThingsboardClient and TimeseriesSend each implement this module, *)
(* so that what TimeseriesSend lets the other users of the slab do is what *)
(* they may do.                                                            *)
(***************************************************************************)

CONSTANTS
    Request,   \* the blocks of request_slab
    Sender,    \* the threads that prepare requests
    Purpose,   \* what a block can be lent for
    Nobody     \* the user of a block that is free or ended

VARIABLES
    place,     \* where each block is
    user       \* the thread that prepares it, or what it is lent for

vars == <<place, user>>

Place == {"free", "prepared", "lent", "ended"}

Is(r, where, who) == place[r] = where /\ user[r] = who

Becomes(r, where, who) == place'[r] = where /\ user'[r] = who

Free(r) == Is(r, "free", Nobody)

Lent(r) == \E purpose \in Purpose : Is(r, "lent", purpose)

\* Some blocks may be lent before the first step that is looked at.
Init ==
    /\ place \in [Request -> Place]
    /\ user \in [Request -> Purpose \cup {Nobody}]
    /\ \A r \in Request : Free(r) \/ Lent(r)

-----------------------------------------------------------------------------
(* What can become of one block *)

Stays(r) == Becomes(r, place[r], user[r])

Release(r) == Becomes(r, "free", Nobody)

Lend(r) == \E purpose \in Purpose : Becomes(r, "lent", purpose)

Prepare(r, t) == Free(r) /\ Becomes(r, "prepared", t)

Submit(r, t) == Is(r, "prepared", t) /\ Lend(r)

GiveUp(r, t) == Is(r, "prepared", t) /\ Release(r)

\* Prepared and handed over, with nobody able to look in between.
PrepareAndSubmit(r) == Free(r) /\ Lend(r)

End(r) == Lent(r) /\ (Release(r) \/ Becomes(r, "ended", Nobody))

ReleaseEnded(r) == Is(r, "ended", Nobody) /\ Release(r)

-----------------------------------------------------------------------------
(* The steps of the users *)

ThreadStep(t) ==
    \A r \in Request :
        \/ Stays(r)
        \/ Prepare(r, t)
        \/ Submit(r, t)
        \/ GiveUp(r, t)
        \/ PrepareAndSubmit(r)

\* The callback of the request of block r, one callback at a time; it may
\* send other requests.
CallbackStep(r) ==
    /\ End(r) \/ ReleaseEnded(r)
    /\ \A b \in Request \ {r} :
          /\ place[b] # "ended"
          /\ Stays(b) \/ PrepareAndSubmit(b)

Next ==
    /\ place' \in [Request -> Place]
    /\ user' \in [Request -> Sender \cup Purpose \cup {Nobody}]
    /\ (\E t \in Sender : ThreadStep(t)) \/ (\E r \in Request : CallbackStep(r))

Spec == Init /\ [][Next]_vars
=============================================================================
