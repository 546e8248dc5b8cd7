------------------------------- MODULE Embedding -------------------------------
(***************************************************************************)
(* embed_messages of worker/tasks.py: the messages that have no embedding  *)
(* yet are sent to an LLM in batches, the newest first.                    *)
(*                                                                         *)
(* Messages are never deleted from the database: they are 1..stored in the *)
(* order of their ids.  A run is the cron's or one that a sync enqueues.    *)
(***************************************************************************)
EXTENDS Integers, FiniteSets

CONSTANTS
  Runs,        \* runs of the job that may overlap (bound)
  EmbedLimit,  \* embed_batch_per_run
  EmbedBatch,  \* EMBED_BATCH
  MaxStored,   \* bound: messages
  MaxErrors    \* bound: errors of the LLM

VARIABLES
  stored,    \* how many messages there are
  embedded,  \* messages with a row in message_embeddings
  left,      \* left[r]: the messages that run r has still to embed
  errors     \* bound

embedVars == <<stored, embedded, left, errors>>

(* Mutated: the newest messages are taken, whether embedded or not. *)
Pending_All == 1..stored

Pending == 1..stored \ embedded

(* The newest n of a set of messages: the first n in the order of the query. *)
Newest(S, n) == {m \in S : Cardinality({k \in S : k > m}) < n}

(* A run begins, in a transaction of its own; with nothing pending it is over. *)
Select(r) ==
  /\ left[r] = {}
  /\ left' = [left EXCEPT ![r] = Newest(Pending, EmbedLimit)]
  /\ UNCHANGED <<stored, embedded, errors>>

Batch(r) == Newest(left[r], EmbedBatch)

(* The vectors of a batch: for all of it, or for the first ones only. *)
Vectors(r) == {Newest(left[r], n) : n \in 0..Cardinality(Batch(r))}

(* A batch is a transaction.  If another run has embedded one of its         *)
(* messages meanwhile, it is rolled back, and the run ends with the error.   *)
Embed(r) ==
  /\ left[r] # {}
  /\ \E got \in Vectors(r) :
       /\ IF got = Batch(r) THEN UNCHANGED errors ELSE errors < MaxErrors /\ errors' = errors + 1
       /\ IF got \cap embedded # {}
          THEN left' = [left EXCEPT ![r] = {}] /\ UNCHANGED embedded
          ELSE /\ embedded' = embedded \cup got
               /\ left' = [left EXCEPT ![r] = @ \ Batch(r)]
  /\ UNCHANGED stored

(* LLMError, or the job's time limit: the rest is left for another run. *)
EmbedFails(r) ==
  /\ left[r] # {}
  /\ errors < MaxErrors /\ errors' = errors + 1
  /\ left' = [left EXCEPT ![r] = {}]
  /\ UNCHANGED <<stored, embedded>>

(* upsert_messages *)
Store ==
  /\ stored < MaxStored
  /\ stored' = stored + 1
  /\ UNCHANGED <<embedded, left, errors>>

EmbedInit ==
  /\ stored = 0 /\ embedded = {} /\ errors = 0
  /\ left = [r \in Runs |-> {}]

Proceed(r) == Embed(r) \/ EmbedFails(r)

EmbedNext == Store \/ \E r \in Runs : Select(r) \/ Proceed(r)

(* A run goes on, and the cron starts the job again and again. *)
EmbedFairness == \A r \in Runs : WF_embedVars(Select(r)) /\ WF_embedVars(Proceed(r))

EmbedSpec == EmbedInit /\ [][EmbedNext]_embedVars /\ EmbedFairness

-----------------------------------------------------------------------------
(* Properties.                                                             *)

(* Every message is embedded at last, although runs overlap and then fail,   *)
(* and errors end them.                                                     *)
EverythingIsEmbedded == \A m \in 1..MaxStored : m <= stored ~> m \in embedded
=============================================================================
