-------------------------------- MODULE Content --------------------------------
(***************************************************************************)
(* What an LLM makes of a chat and the database keeps: the digest of a day *)
(* (services/digests.py and the nightly job) and the generated images      *)
(* (services/images.py).  Both read the database, wait for an LLM, and     *)
(* write what they were told; the turn of a user does so inside one long   *)
(* transaction, in which it may ask for digests and images again and again. *)
(*                                                                         *)
(* One chat, one day, one user.  Messages are never deleted from the       *)
(* database, so that their number says which ones there are.  An edit of a *)
(* text, which leaves their number and so the digest as it was, is not     *)
(* modelled.                                                               *)
(***************************************************************************)
EXTENDS Integers, FiniteSets

CONSTANTS
  None,
  Txs,         \* turns and jobs that run at the same time (bound)
  MaxMsgs,     \* bound: messages of the day
  MinMsgs,     \* MIN_MSGS_FOR_DIGEST
  DailyImages, \* image_max_per_day
  MaxImages,   \* bound: images that an LLM delivers to one of Txs
  MaxLost      \* bound: images of turns that fail

ASSUME ContentAssumption ==
  /\ {MaxMsgs, DailyImages, MaxImages, MaxLost} \subseteq Nat
  /\ MinMsgs \in Nat \ {0}
  /\ None \notin Txs
  /\ IsFiniteSet(Txs)

Kinds == {"turn", "nightly"}

VARIABLES
  msgs,      \* how many messages of the day there are
  digest,    \* the row of chat_digests: its msg_count (0: no row), and of: how many were summarised
  keyHolder, \* the transaction that has written the row and not ended, or None
  files,     \* images in the directory
  images,    \* committed rows of generated_images
  made,      \* made[t]: how many images t has made
  lost,      \* history: images of turns that have failed
  tx         \* tx[t]: the local variables of a turn or job

vars == <<msgs, digest, keyHolder, files, images, made, lost, tx>>

(* asks: whether it is a turn, which goes on to ask; seen: the messages of    *)
(* the day; row: the digest that is read, then written; mine: the rows of    *)
(* generated_images that are not committed.                                 *)
(* An image, a uuid in the code, is named <<t, n>>: the n-th that t has made.  *)
NoRow == [count |-> 0, of |-> 0]
Idle == [pc |-> "idle", asks |-> FALSE, seen |-> 0, row |-> NoRow, cached |-> FALSE, mine |-> {}]

At(t, pc) == tx[t].pc = pc
Go(t, pc) == tx' = [tx EXCEPT ![t].pc = pc]

-----------------------------------------------------------------------------
(* What a turn asks for: a digest or an image.  It keeps the rows it has     *)
(* written.                                                                *)

Own(t) == IF keyHolder = t THEN tx[t].row ELSE NoRow

Ask(t) ==
  /\ At(t, "ready") /\ tx[t].asks
  /\ \E what \in {"day", "count"} :
       tx' = [tx EXCEPT ![t].pc = what, ![t].seen = 0, ![t].cached = FALSE, ![t].row = Own(t)]
  /\ UNCHANGED <<msgs, digest, keyHolder, files, images, made, lost>>

-----------------------------------------------------------------------------
(* digest_for_day.                                                         *)

ReadDay(t) ==
  /\ At(t, "day")
  /\ tx' = [tx EXCEPT ![t].seen = msgs, ![t].pc = IF msgs = 0 THEN "ready" ELSE "cache"]
  /\ UNCHANGED <<msgs, digest, keyHolder, files, images, made, lost>>

(* Mutated: whatever there is for the day is served. *)
Serves_Any(row, seen) == row # NoRow

Serves(row, seen) == row # NoRow /\ row.count = seen

(* The row a transaction reads: its own, once it has written one. *)
RowFor(t) == IF keyHolder = t THEN tx[t].row ELSE digest

(* A day with few messages is not summarised: its raw lines are the answer.  *)
ReadCache(t) ==
  /\ At(t, "cache")
  /\ tx' = [tx EXCEPT ![t].row = RowFor(t), ![t].cached = Serves(RowFor(t), tx[t].seen),
                      ![t].pc = IF Serves(RowFor(t), tx[t].seen) \/ tx[t].seen < MinMsgs
                                THEN "ready" ELSE "summarize"]
  /\ UNCHANGED <<msgs, digest, keyHolder, files, images, made, lost>>

(* _summarize, part by part: one error, and the raw lines are the answer. *)
Summarize(t) ==
  /\ At(t, "summarize")
  /\ Go(t, "write") \/ Go(t, "ready")
  /\ UNCHANGED <<msgs, digest, keyHolder, files, images, made, lost>>

NewDigest(t) == [count |-> tx[t].seen, of |-> tx[t].seen]

(* The flush waits for another transaction that has written the row.  An     *)
(* INSERT then fails if that one has committed; an UPDATE overwrites it.     *)
WriteDigest(t) ==
  /\ At(t, "write") /\ keyHolder \in {t, None}
  /\ IF digest # NoRow /\ tx[t].row = NoRow
     THEN Go(t, "broken") /\ UNCHANGED keyHolder
     ELSE /\ keyHolder' = t
          /\ tx' = [tx EXCEPT ![t].pc = "ready", ![t].row = NewDigest(t)]
  /\ UNCHANGED <<msgs, digest, files, images, made, lost>>

-----------------------------------------------------------------------------
(* generate.                                                               *)

(* Mutated: the limit is one too many. *)
LimitReached_OffByOne(t) == Cardinality(images \cup tx[t].mine) > DailyImages

(* The rows that are counted: the committed ones and the turn's own. *)
LimitReached(t) == Cardinality(images \cup tx[t].mine) >= DailyImages

CountImages(t) ==
  /\ At(t, "count")
  /\ Go(t, IF LimitReached(t) THEN "ready" ELSE "paint")
  /\ UNCHANGED <<msgs, digest, keyHolder, files, images, made, lost>>

NewImage(t) == <<t, made[t] + 1>>

(* Mutated: the row is added before the file is written. *)
NoFile_RowFirst(t) == tx' = [tx EXCEPT ![t].pc = "ready", ![t].mine = @ \cup {NewImage(t)}]

(* The tool reports an error, and the turn goes on without an image. *)
NoFile(t) == Go(t, "ready")

(* The LLM's picture goes to a file, and then into a row of the transaction. *)
Paint(t) ==
  /\ At(t, "paint")
  /\ \/ /\ made[t] < MaxImages
        /\ made' = [made EXCEPT ![t] = @ + 1]
        /\ files' = files \cup {NewImage(t)}
        /\ tx' = [tx EXCEPT ![t].pc = "ready", ![t].mine = @ \cup {NewImage(t)}]
     \/ NoFile(t) /\ UNCHANGED <<made, files>>
  /\ UNCHANGED <<msgs, digest, keyHolder, images, lost>>

-----------------------------------------------------------------------------
(* The end of a transaction.                                               *)

Close(t) ==
  /\ tx' = [tx EXCEPT ![t] = Idle]
  /\ keyHolder' = IF keyHolder = t THEN None ELSE keyHolder

Commit(t) ==
  /\ At(t, "ready")
  /\ digest' = IF keyHolder = t THEN tx[t].row ELSE digest
  /\ images' = images \cup tx[t].mine
  /\ Close(t)
  /\ UNCHANGED <<msgs, files, made, lost>>

(* An exception of the turn, the time limit of the job, or a death.  What    *)
(* ends in the middle of a request has done no more than before it, or       *)
(* after it.                                                               *)
Abort(t) ==
  /\ At(t, "ready") /\ Cardinality(lost \cup tx[t].mine) <= MaxLost
  /\ lost' = lost \cup tx[t].mine
  /\ Close(t)
  /\ UNCHANGED <<msgs, digest, files, images, made>>

(* After an IntegrityError nothing commits: the turn fails with its next      *)
(* statement, and the nightly job with the commit of session_scope.          *)
Broken(t) ==
  /\ At(t, "broken")
  /\ lost' = lost \cup tx[t].mine
  /\ Close(t)
  /\ UNCHANGED <<msgs, digest, files, images, made>>

-----------------------------------------------------------------------------
(* What starts them, and the ingestion.                                    *)

First == [turn |-> "ready", nightly |-> "day"]

(* chats_needing_digest: the nightly job leaves a day with a digest alone.    *)
Start(t, kind) ==
  /\ At(t, "idle")
  /\ kind = "nightly" => digest = NoRow /\ msgs >= MinMsgs
  /\ tx' = [tx EXCEPT ![t].pc = First[kind], ![t].asks = (kind = "turn")]
  /\ UNCHANGED <<msgs, digest, keyHolder, files, images, made, lost>>

Arrive ==
  /\ msgs < MaxMsgs
  /\ msgs' = msgs + 1
  /\ UNCHANGED <<digest, keyHolder, files, images, made, lost, tx>>

Init ==
  /\ msgs = 0 /\ digest = NoRow /\ keyHolder = None
  /\ files = {} /\ images = {} /\ lost = {}
  /\ made = [t \in Txs |-> 0]
  /\ tx = [t \in Txs |-> Idle]

Step(t) ==
  \/ Ask(t) \/ ReadDay(t) \/ ReadCache(t) \/ Summarize(t) \/ WriteDigest(t)
  \/ CountImages(t) \/ Paint(t)
  \/ Commit(t) \/ Broken(t)

Next ==
  \/ \E t \in Txs : Step(t) \/ Abort(t) \/ \E kind \in Kinds : Start(t, kind)
  \/ Arrive

Spec == Init /\ [][Next]_vars

-----------------------------------------------------------------------------
(* Properties.                                                             *)

Images == Txs \X (1..MaxImages)

Digest == [count : 0..MaxMsgs, of : 0..MaxMsgs]

Places == {"idle", "day", "cache", "summarize", "write", "count", "paint", "ready", "broken"}

Local == [pc : Places, asks : BOOLEAN, seen : 0..MaxMsgs, row : Digest, cached : BOOLEAN, mine : SUBSET Images]

(* Every variable keeps to the values the code can give it. *)
TypeOK ==
  /\ msgs \in 0..MaxMsgs
  /\ digest \in Digest
  /\ keyHolder \in Txs \cup {None}
  /\ made \in [Txs -> 0..MaxImages]
  /\ files \subseteq {i \in Images : i[2] <= made[i[1]]}
  /\ tx \in [Txs -> Local]
  /\ \A t \in Txs : tx[t].seen <= msgs

(* A digest that is served from the table summarises the very messages the   *)
(* reader has found, whoever wrote it, in whatever order.                    *)
CachedIsOfTheDay == \A t \in Txs : tx[t].cached => tx[t].row.of = tx[t].seen

(* A turn counts the rows that are committed and its own: the images of a    *)
(* day are at most the limit for each of the turns that run at a time.       *)
ImagesLimited == Cardinality(images) <= DailyImages * Cardinality(Txs)

Uncommitted == UNION {tx[t].mine : t \in Txs}

(* Every row has its file.  A file without a row is one of a turn that is at  *)
(* work or has failed: a commit leaves none of its turn's files behind.      *)
RowsHaveFiles ==
  /\ images \subseteq files
  /\ files \ images = Uncommitted \cup lost

(* What the tables and the disk are at any moment, turns at work included.   *)
ContentInv == TypeOK /\ RowsHaveFiles
=============================================================================
