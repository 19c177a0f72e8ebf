------------------------------- MODULE Embedding -------------------------------
(***************************************************************************)
(* The embedding client (services/search/embeddings.py): texts are sent in   *)
(* batches, a batch is tried again after a transient error, and the vectors  *)
(* are concatenated in the order of the texts.  Callers zip them with what    *)
(* they embedded, so a vector out of place describes the wrong operation.    *)
(***************************************************************************)
EXTENDS Naturals, Sequences

CONSTANTS
  MaxTexts,     \* bound on the number of texts
  BatchSize,    \* _EMBED_BATCH_SIZE
  MaxAttempts   \* _EMBED_MAX_ATTEMPTS

ASSUME EmbeddingAssumption ==
  MaxTexts \in Nat /\ BatchSize \in Nat \ {0} /\ MaxAttempts \in Nat \ {0}

VARIABLES
  texts,     \* what is embedded; a text stands for its vector too
  start,     \* how many texts were sent with success
  attempt,   \* failed attempts at the present batch
  vectors,   \* out
  billed,    \* total_tokens, with one token a text
  outcome    \* "pending", "done" or "raised"

embeddingVars == <<texts, start, attempt, vectors, billed, outcome>>

EmbeddingInit ==
  /\ \E n \in 0..MaxTexts : texts = [i \in 1..n |-> i]
  /\ start = 0
  /\ attempt = 0
  /\ vectors = <<>>
  /\ billed = 0
  /\ outcome = IF texts = <<>> THEN "done" ELSE "pending"

\* texts[start : start + _EMBED_BATCH_SIZE]
Batch ==
  SubSeq(texts, start + 1, IF start + BatchSize < Len(texts) THEN start + BatchSize ELSE Len(texts))

\* Mutant: the loop goes on from the first text it has no vector for plus one.
EmbedBatchSkipping ==
  /\ outcome = "pending"
  /\ vectors' = vectors \o Batch
  /\ billed' = billed + Len(Batch)
  /\ start' = start + BatchSize + attempt
  /\ attempt' = 0
  /\ outcome' = IF start + BatchSize + attempt < Len(texts) THEN "pending" ELSE "done"
  /\ UNCHANGED texts

EmbedBatch ==
  /\ outcome = "pending"
  /\ vectors' = vectors \o Batch
  /\ billed' = billed + Len(Batch)
  /\ start' = start + BatchSize
  /\ attempt' = 0
  /\ outcome' = IF start + BatchSize < Len(texts) THEN "pending" ELSE "done"
  /\ UNCHANGED texts

\* _embed_chunk_with_retry: the last attempt raises, and so does an error that
\* is neither a rate limit nor transient.
AttemptFails(retryable) ==
  /\ outcome = "pending"
  /\ IF attempt + 1 = MaxAttempts \/ ~retryable
     THEN outcome' = "raised" /\ UNCHANGED attempt
     ELSE attempt' = attempt + 1 /\ UNCHANGED outcome
  /\ UNCHANGED <<texts, start, vectors, billed>>

EmbeddingNext == EmbedBatch \/ \E retryable \in BOOLEAN : AttemptFails(retryable)

EmbeddingSpec == EmbeddingInit /\ [][EmbeddingNext]_embeddingVars

-----------------------------------------------------------------------------
(* A batch run that ends well has one vector for each text, in the order of   *)
(* the texts, and bills each text once, whatever attempts failed in between   *)
(* (embed_batch).                                                            *)
VectorsAligned == outcome = "done" => vectors = texts /\ billed = Len(texts)

=============================================================================
