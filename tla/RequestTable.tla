---------------------------- MODULE RequestTable ----------------------------
(***************************************************************************)
(* What vtlib/vt_mpireq.c promises to the MPI wrappers: a table that holds *)
(* one entry for every tracked request, found by its MPI handle. Nothing   *)
(* is said here about blocks, indices or the place of an entry. A handle   *)
(* is lost to the table once an active request is freed; nothing is        *)
(* promised about its requests from then on.                               *)
(***************************************************************************)
CONSTANT Handles   \* MPI_Request values the MPI library hands out

VARIABLES
  tracked,         \* set of entries
  lost,            \* handles the table knows nothing about any more
  open             \* FALSE once the table was given back

Kinds == {"send", "recv", "io"}

NoneFor(h) == \A e \in tracked : e.request # h

Init == tracked = {} /\ lost = {} /\ open = TRUE

Create(h, kind, persistent) ==
  /\ h \notin lost /\ NoneFor(h)
  /\ tracked' = tracked \cup {[request |-> h, kind |-> kind, persistent |-> persistent,
                               active |-> FALSE]}
  /\ UNCHANGED lost

\* MPI_Start, MPI_Startall: persistent requests become active.
Activate(es) ==
  /\ \A e \in es : e.persistent
  /\ tracked' = (tracked \ es) \cup {[e EXCEPT !.active = TRUE] : e \in es}
  /\ UNCHANGED lost

\* A tracked request has completed: a persistent one stays, inactive.
Complete(e) ==
  /\ e.persistent => e.active
  /\ tracked' = (tracked \ {e}) \cup
                 (IF e.persistent THEN {[e EXCEPT !.active = FALSE]} ELSE {})
  /\ UNCHANGED lost

\* MPI_Request_free of an inactive persistent request, or of any other one.
Free(e) ==
  /\ tracked' = tracked \ {e}
  /\ lost' = IF e.persistent /\ ~e.active THEN lost ELSE lost \cup {e.request}

Change ==
  \/ \E h \in Handles, kind \in Kinds, p \in BOOLEAN : Create(h, kind, p)
  \/ \E es \in SUBSET tracked : Activate(es)
  \/ \E e \in tracked : Complete(e) \/ Free(e)

Finalize == open' = FALSE /\ tracked' = {} /\ UNCHANGED lost

Next ==
  /\ open
  /\ \/ open' = open /\ Change
     \/ Finalize

Spec == Init /\ [][Next]_<<tracked, lost, open>>
=============================================================================
