----------------------------- MODULE ApiServer -----------------------------
(***************************************************************************)
(* The Kubernetes API server as the code under src/engine uses it; it is   *)
(* not part of the repository.  Every create attempt has a name of its     *)
(* own, hence a slot of its own.  A POST that was sent stays in flight     *)
(* until the server commits or refuses it, whatever the client's timeout   *)
(* did in the meantime; it is handled at most once (MaxRetries(0)).        *)
(***************************************************************************)
EXTENDS CleanupRecord

CONSTANTS
  Kind,        \* the kind of the object each attempt creates
  Vanishing,   \* attempts whose object someone else may delete
  Contested    \* attempts whose name someone else may also use

ASSUME KindAssumption == Kind \in [Attempts -> {"pods", "secrets", "namespaces"}]
ASSUME BoundsAssumption == Vanishing \subseteq Attempts /\ Contested \subseteq Attempts

VARIABLES
  request,     \* what became of the POST of each attempt
  object,      \* the object under the name of each attempt
  deletesSent  \* history: attempts some cleaner issued a DELETE for

apiVars == <<request, object, deletesSent>>

NoObject == [uid |-> NoUID, deleting |-> FALSE]

ApiTypeOK ==
  /\ request \in [Attempts -> {"none", "inflight", "committed", "refused"}]
  /\ object \in [Attempts -> [uid : UIDs, deleting : BOOLEAN]]
  /\ deletesSent \in SUBSET Attempts

ApiInit ==
  /\ request = [a \in Attempts |-> "none"]
  /\ object = [a \in Attempts |-> NoObject]
  /\ deletesSent = {}

Exists(a)    == object[a].uid # NoUID
OwnExists(a) == object[a].uid = a

(* A POST reaches the server. *)
SendPost(a) ==
  /\ request' = [request EXCEPT ![a] = "inflight"]
  /\ UNCHANGED <<object, deletesSent>>

Commit(a) ==
  /\ request[a] = "inflight"
  /\ ~Exists(a)
  /\ request' = [request EXCEPT ![a] = "committed"]
  /\ object' = [object EXCEPT ![a] = [uid |-> a, deleting |-> FALSE]]
  /\ UNCHANGED deletesSent

(* Quota, admission, authorisation, a name that is taken, a throttled or   *)
(* lost request: the object is never made.                                 *)
Refuse(a) ==
  /\ request[a] = "inflight"
  /\ request' = [request EXCEPT ![a] = "refused"]
  /\ UNCHANGED <<object, deletesSent>>

(* Grace period over, finalizers run: the deleted object is gone. *)
Finalize(a) ==
  /\ object[a].deleting
  /\ object' = [object EXCEPT ![a] = NoObject]
  /\ UNCHANGED <<request, deletesSent>>

(* Eviction, a node's garbage collection, an operator: not this runner. *)
ExternalDelete(a) ==
  /\ a \in Vanishing
  /\ OwnExists(a)
  /\ object' = [object EXCEPT ![a] = NoObject]
  /\ UNCHANGED <<request, deletesSent>>

ForeignCreate(a) ==
  /\ a \in Contested
  /\ ~Exists(a)
  /\ object' = [object EXCEPT ![a] = [uid |-> Foreign, deleting |-> FALSE]]
  /\ UNCHANGED <<request, deletesSent>>

ApiNext ==
  \E a \in Attempts : \/ Commit(a) \/ Refuse(a) \/ Finalize(a)
                      \/ ExternalDelete(a) \/ ForeignCreate(a)

(* DELETE with the precondition that the object has this UID.  An accepted *)
(* DELETE only starts the deletion; a second one changes nothing.          *)
Delete(a, uid) ==
  /\ deletesSent' = deletesSent \cup {a}
  /\ object' = IF object[a].uid = uid
               THEN [object EXCEPT ![a] = [uid |-> uid, deleting |-> TRUE]] ELSE object
  /\ UNCHANGED request

(* A DELETE that was issued and never reached the server. *)
LostDelete(a) ==
  /\ deletesSent' = deletesSent \cup {a}
  /\ UNCHANGED <<request, object>>
=============================================================================
