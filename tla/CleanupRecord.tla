--------------------------- MODULE CleanupRecord ---------------------------
(***************************************************************************)
(* The algebra of the durable cleanup record, translated from              *)
(* src/engine/recovery_store.go and the cleanupResource type of            *)
(* src/engine/cleanup.go.  The module has no state.                        *)
(*                                                                         *)
(* A task makes at most N create attempts; attempt a is the a-th entry of  *)
(* the slice c.resources, so an index and an attempt id (a random UUID in  *)
(* the code) are the same number here.  What the record says of an attempt *)
(* are its facts.  Version, Pool, Task and Owner are written once, by      *)
(* initialize, and every writer copies them: the equality tests on them    *)
(* can only succeed inside one runner pool and are left out, as are        *)
(* LastError and the kind, namespace and name of an attempt, which no      *)
(* writer changes.                                                         *)
(***************************************************************************)
EXTENDS Integers

CONSTANT N              \* the number of create attempts one Setup may make

ASSUME NAssumption == N \in Nat \ {0}

Attempts == 1 .. N

(* The UID of the object attempt a created is the number a; one more value *)
(* stands for any object somebody else put under the same name.            *)
NoUID   == 0
Foreign == N + 1
UIDs    == 0 .. N + 1

Facts == [listed : BOOLEAN, uid : UIDs, unknown : BOOLEAN, done : BOOLEAN, delReq : BOOLEAN]

Unlisted == [listed |-> FALSE, uid |-> NoUID, unknown |-> FALSE, done |-> FALSE, delReq |-> FALSE]

Entry(uid, unknown, done, delReq) ==
  [listed |-> TRUE, uid |-> uid, unknown |-> unknown, done |-> done, delReq |-> delReq]

IntentWrong == Entry(NoUID, FALSE, FALSE, FALSE)

(* What create appends to c.resources before it sends anything, and what   *)
(* is ever assigned to an entry f: a UID the server told, the wish to      *)
(* delete it, a create that came to nothing, the end of a deletion.        *)
Intent          == Entry(NoUID, TRUE, FALSE, FALSE)
Learn(f, uid)   == Entry(uid, FALSE, f.done, f.delReq)
Condemn(f, uid) == Entry(uid, FALSE, f.done, TRUE)
Discard(f)      == Entry(f.uid, FALSE, TRUE, f.delReq)
MarkDone(f)     == Entry(f.uid, f.unknown, TRUE, f.delReq)
MarkPending(f)  == Entry(f.uid, f.unknown, FALSE, f.delReq)

Reasons == {"", "task-finished", "executor-terminated"}

Resources == [Attempts -> Facts]

Records == [closed : BOOLEAN, reason : Reasons, res : Resources]

NoResources == [a \in Attempts |-> Unlisted]

EmptyRecord == [closed |-> FALSE, reason |-> "", res |-> NoResources]

(* decode refuses an entry that is settled in no way and one that is both  *)
(* settled and unknown: a record holding such an entry is stuck for good.  *)
DecodesFacts(f) == f.listed => (f.done \/ f.unknown \/ f.uid # NoUID) /\ ~(f.done /\ f.unknown)

Decodes(rec) == \A a \in Attempts : DecodesFacts(rec.res[a])

(* Faults for mutation checking are the definitions whose name ends in     *)
(* "Wrong"; no other definition uses them.  Here: the last writer wins.    *)
MergeFactsWrong(prev, next) ==
  IF ~next.listed THEN prev
  ELSE [next EXCEPT !.uid = IF next.uid # NoUID THEN next.uid ELSE prev.uid]

(* The four monotone assignments of mergeRecord's inner loop. *)
MergeFacts(prev, next) ==
  IF ~next.listed THEN prev
  ELSE IF ~prev.listed THEN next
  ELSE [listed  |-> TRUE,
        uid     |-> IF next.uid # NoUID THEN next.uid ELSE prev.uid,
        unknown |-> prev.unknown /\ next.unknown,
        done    |-> prev.done \/ next.done,
        delReq  |-> prev.delReq \/ next.delReq]

MergeResources(cur, inc) == [a \in Attempts |-> MergeFacts(cur[a], inc[a])]

(* mergeRecord fails when two UIDs disagree and when an attempt would be   *)
(* added to a closed task.                                                 *)
Mergeable(current, incoming) ==
  \A a \in Attempts :
    LET prev == current.res[a]
        next == incoming.res[a]
    IN  next.listed =>
          IF prev.listed
          THEN prev.uid = NoUID \/ next.uid = NoUID \/ prev.uid = next.uid
          ELSE ~current.closed

MergeRecord(current, incoming) ==
  [closed |-> current.closed \/ incoming.closed,
   reason |-> IF incoming.reason # "" /\ current.reason # "executor-terminated"
              THEN incoming.reason ELSE current.reason,
   res    |-> MergeResources(current.res, incoming.res)]

RecordCompleteWrong(rec) ==
  rec.closed /\ \A a \in Attempts : rec.res[a].listed => rec.res[a].done \/ rec.res[a].unknown

RecordComplete(rec) ==
  /\ rec.closed
  /\ \A a \in Attempts : rec.res[a].listed => rec.res[a].done /\ ~rec.res[a].unknown

(* f is at least as informed as e: nothing e established is taken back. *)
KnowsMore(e, f) ==
  e.listed => /\ f.listed
              /\ e.uid # NoUID => f.uid = e.uid
              /\ f.unknown => e.unknown
              /\ e.done => f.done
              /\ e.delReq => f.delReq

RecordGrows(old, new) ==
  /\ old.closed => new.closed
  /\ old.reason = "executor-terminated" => new.reason = "executor-terminated"
  /\ \A a \in Attempts : KnowsMore(old.res[a], new.res[a])
  /\ old.closed => \A a \in Attempts : new.res[a].listed => old.res[a].listed
=============================================================================
