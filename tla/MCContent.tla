------------------------------- MODULE MCContent -------------------------------
(***************************************************************************)
(* What an LLM makes of the messages, on small instances: two turns or     *)
(* nightly jobs at a time, or two runs of the embeddings.  They share      *)
(* nothing, so that a behaviour is of the ones or of the others.           *)
(***************************************************************************)
EXTENDS Content, Embedding

VARIABLE work   \* which of them there are

MCInit == Init /\ EmbedInit /\ work \in {"content", "embeddings"}

MCNext ==
  \/ work = "content" /\ Next /\ UNCHANGED <<embedVars, work>>
  \/ work = "embeddings" /\ EmbedNext /\ UNCHANGED <<vars, work>>

MCSpec == MCInit /\ [][MCNext]_<<vars, embedVars, work>> /\ (work = "embeddings" => EmbedFairness)
=============================================================================
