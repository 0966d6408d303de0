----------------------------- MODULE ImageIndex -----------------------------
(***************************************************************************)
(* What the indexing keeps in PostgreSQL: the status of the rows of        *)
(* event_images, the rows of face_embeddings (unique on image, model       *)
(* version and face) and those of rejected_faces (no uniqueness).          *)
(*                                                                         *)
(* The detector and the quality filter are deterministic: an image's faces *)
(* are split by constants into those accepted and those rejected.          *)
(***************************************************************************)
EXTENDS Domain

CONSTANTS
  Accepted,  \* face indexes of each image that pass the quality filter
  Rejected   \* face indexes of each image that it rejects

ASSUME FacesAssumption ==
  /\ Accepted \in [Images -> SUBSET Nat]
  /\ Rejected \in [Images -> SUBSET Nat]

VARIABLES
  status,      \* index_status of each image
  embeddings,  \* keys <<image, version, face>> of face_embeddings
  rejections   \* how often each image's rejected faces were recorded

indexVars == <<status, embeddings, rejections>>

\* The two statuses some code writes; "failed" and "skipped" are never set.
IndexStatus == {"pending", "done"}
RejectionCap == 2

EmbeddingsOf(i, v) == {<<i, v, f>> : f \in Accepted[i]}

IndexTypeOK ==
  /\ status \in [Images -> IndexStatus]
  /\ embeddings \subseteq UNION {EmbeddingsOf(i, v) : i \in Images, v \in Versions}
  /\ rejections \in [Images -> 0..RejectionCap]

\* Images just imported: rows inserted with the default status.
IndexInit ==
  /\ status = [i \in Images |-> "pending"]
  /\ embeddings = {}
  /\ rejections = [i \in Images |-> 0]

(* ProcessImageMessageUseCase.execute in one transaction: the rejected     *)
(* faces, the accepted ones (ON CONFLICT DO NOTHING) and the status.       *)
IndexImage(i, v) ==
  /\ rejections' = [rejections EXCEPT ![i] =
        IF Rejected[i] = {} \/ @ = RejectionCap THEN @ ELSE @ + 1]
  /\ embeddings' = embeddings \cup EmbeddingsOf(i, v)
  /\ status' = [status EXCEPT ![i] = "done"]

\* Mutation: only the status is tested, as if there were one model version.
PendingOnly(v) == {i \in Images : status[i] = "pending"}

(* list_images_needing_indexing, before ORDER BY and LIMIT.                *)
NeedsIndexing(v) ==
  {i \in Images : \/ status[i] = "pending"
                  \/ ~\E e \in embeddings : e[1] = i /\ e[2] = v}
=============================================================================
