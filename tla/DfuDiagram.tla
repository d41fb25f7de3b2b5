----------------------------- MODULE DfuDiagram -----------------------------
(***************************************************************************)
(* What device firmware upgrade promises a host: the state diagrams drawn  *)
(* in dfu_state_machine.c, one action per request and one disjunct per     *)
(* edge.  A request is taken up while the device is not busy, and each     *)
(* edge answers the request it is labelled with: which request is legal in *)
(* which state is in the edges, and a request that is not leads to         *)
(* dfuERROR.  An answer is one step, whatever the tasks do behind it.      *)
(***************************************************************************)
VARIABLES
  state,      (* The DFU state.                                              *)
  request,    (* The request taken up and not answered: a set of one, or {}. *)
  work,       (* A transfer, or the manifestation, is still to be done.      *)
  rebooting   (* A restart of the device has been asked for.                 *)

vars == <<state, request, work, rebooting>>

Busy    == {"DNBUSY", "MANIFEST"}
Settled == {"IDLE", "DNLOAD_SYNC", "DNLOAD_IDLE", "MANIFEST_SYNC", "UPLOAD_IDLE", "ERROR"}
Requests == {"DNLOAD", "UPLOAD", "GETSTATUS", "CLRSTATUS", "ABORT", "SETALTERNATE"}

Init == state = "IDLE" /\ request = {} /\ work = FALSE /\ rebooting = FALSE

TakeUp ==
  /\ request = {} /\ state \in Settled
  /\ \E r \in Requests : request' = {r}
  /\ UNCHANGED <<state, work, rebooting>>

\* The edges labelled r from some states to one: plainly, to dfuIDLE with nothing
\* left to do, and to dfuERROR.
Edge(r, from, to) ==
  /\ request = {r} /\ request' = {}
  /\ state \in from /\ state' = to
  /\ UNCHANGED rebooting

Clear(r, from)  == Edge(r, from, "IDLE") /\ work' = FALSE
Refuse(r, from) == Edge(r, from, "ERROR") /\ work' = FALSE

\* DFU_DNLOAD with data, and of length zero, which dfuIDLE refuses.
Download ==
  \/ Edge("DNLOAD", {"IDLE", "DNLOAD_IDLE"}, "DNLOAD_SYNC") /\ work' = TRUE
  \/ Edge("DNLOAD", {"DNLOAD_IDLE"}, "MANIFEST_SYNC") /\ work' = TRUE
  \/ Refuse("DNLOAD", Settled \ {"DNLOAD_IDLE"})

\* DFU_UPLOAD: a full fragment, or less, which ends the image.
Upload ==
  \/ Edge("UPLOAD", {"IDLE", "UPLOAD_IDLE"}, "UPLOAD_IDLE") /\ UNCHANGED work
  \/ Edge("UPLOAD", {"IDLE", "UPLOAD_IDLE"}, "IDLE") /\ UNCHANGED work
  \/ Refuse("UPLOAD", Settled \ {"IDLE", "UPLOAD_IDLE"})

\* DFU_GETSTATUS: the device goes busy with the work, or moves on when it is done.
GetStatus ==
  /\ \/ work /\ Edge("GETSTATUS", {"DNLOAD_SYNC"}, "DNBUSY")
     \/ work /\ Edge("GETSTATUS", {"MANIFEST_SYNC"}, "MANIFEST")
     \/ ~work /\ Edge("GETSTATUS", {"DNLOAD_SYNC"}, "DNLOAD_IDLE")
     \/ ~work /\ Edge("GETSTATUS", {"MANIFEST_SYNC"}, "IDLE")
     \/ Edge("GETSTATUS", Settled \ {"DNLOAD_SYNC", "MANIFEST_SYNC"}, state)
  /\ UNCHANGED work

ClearStatus  == Clear("CLRSTATUS", {"ERROR"}) \/ Refuse("CLRSTATUS", Settled \ {"ERROR"})
SetAlternate == Clear("SETALTERNATE", Settled)

\* DFU_ABORT.  The refusal in dfuIDLE is the code's: the diagram drawn at
\* dfu_state_machine.c:818-834 has an edge from dfuIDLE to itself instead.
Aborted == {"UPLOAD_IDLE", "DNLOAD_IDLE"}
Abort        == Clear("ABORT", Aborted) \/ Refuse("ABORT", Settled \ (Aborted \cup {"IDLE"}))
AbortRefused == Refuse("ABORT", {"IDLE"})

Answer ==
  \/ Download \/ Upload \/ GetStatus \/ ClearStatus \/ SetAlternate
  \/ Abort \/ AbortRefused

\* The work ends, well or in an error; no request is taken up meanwhile.
EndWork ==
  /\ \/ state = "DNBUSY" /\ state' \in {"DNLOAD_SYNC", "ERROR"}
     \/ state = "MANIFEST" /\ state' \in {"MANIFEST_SYNC", "ERROR"}
  /\ work' = FALSE
  /\ UNCHANGED <<request, rebooting>>

\* Requests that come faster than they are taken up merge, and none is answered.
Merge ==
  /\ request = {} /\ state \in Settled
  /\ state' = "ERROR" /\ work' = FALSE
  /\ UNCHANGED <<request, rebooting>>

Detach  == rebooting' = TRUE /\ UNCHANGED <<state, request, work>>
Restart == rebooting /\ rebooting' = FALSE /\ state' = "IDLE" /\ request' = {} /\ work' = FALSE

Next == TakeUp \/ Answer \/ EndWork \/ Merge \/ Detach \/ Restart

\* A busy device stops being busy, and a request taken up is answered.
Progress == (state \in Busy ~> state \notin Busy) /\ (request # {} ~> request = {})

Spec == Init /\ [][Next]_vars /\ Progress
=============================================================================
