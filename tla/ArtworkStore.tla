---------------------------- MODULE ArtworkStore ----------------------------
(***************************************************************************)
(* The lead image of an edition: SupabaseBackedArtworkService.generate     *)
(* (artwork/service.py) with the image worker's client                     *)
(* (artwork/cloudflare.py) and the public bucket (artwork/supabase.py).    *)
(* Several processes do this at a time on the one bucket; each HTTP        *)
(* request is a step.  A request that fails may have been executed.        *)
(*                                                                         *)
(* An image is known by its object key, which the edition's number, the    *)
(* job and the hash of the prompt determine.                               *)
(***************************************************************************)
EXTENDS Naturals, Sequences, FiniteSets

CONSTANTS
  Procs,       \* the processes that generate editions
  Keys,        \* object keys
  NoKey,
  MaxStored,   \* max_stored_images
  MaxRetries   \* artwork.max_retries, of the image worker's client

ASSUME ArtworkAssumption ==
  /\ IsFiniteSet(Procs)
  /\ NoKey \notin Keys
  /\ MaxStored \in Nat \ {0}
  /\ MaxRetries \in Nat

VARIABLES
  bucket,     \* the keys stored, oldest first
  uploaded,   \* every key ever stored, in the order of its upload
  art         \* process -> its generate: [pc, key, listed, tries]

artVars == <<bucket, uploaded, art>>

\* "kept" and "fallback" are its returns, "escaped" an error that is not
\* ArtworkGenerationFailed.
Outcomes == {"kept", "fallback", "escaped"}
ArtSteps == {"off", "load", "draw", "list", "delete", "upload", "reload"} \cup Outcomes

NoArt == [pc |-> "off", key |-> NoKey, listed |-> << >>, tries |-> 0]

Stored == {bucket[i] : i \in DOMAIN bucket}

ArtTypeOK ==
  /\ bucket \in Seq(Keys)
  /\ Cardinality(Stored) = Len(bucket)
  /\ uploaded \in Seq(Keys)
  /\ art \in [Procs -> [pc : ArtSteps, key : Keys \cup {NoKey},
                        listed : Seq(Keys), tries : 0..MaxRetries]]

ArtInit ==
  /\ bucket = << >>
  /\ uploaded = << >>
  /\ art = [p \in Procs |-> NoArt]

-----------------------------------------------------------------------------
ArtAt(p, step) == art[p].pc = step
ArtGoto(p, step) == art' = [art EXCEPT ![p].pc = step]
SameBucket == UNCHANGED <<bucket, uploaded>>

\* The error of a request, of the image worker or of its answer.
FallsBack(p) == ArtGoto(p, "fallback") /\ SameBucket

\* _authenticated_request asks for the token outside its try: ProviderUnavailable
\* of the Supabase session passes through.
TokenRefused(p) == ArtGoto(p, "escaped") /\ SameBucket

StartArtwork(p, key) ==
  /\ ArtAt(p, "off")
  /\ art' = [art EXCEPT ![p] = [NoArt EXCEPT !.pc = "load", !.key = key]]
  /\ SameBucket

\* load_existing: one public read per extension, the first that is there is used.
LoadExisting(p, absent) ==
  \/ art[p].key \in Stored /\ ArtGoto(p, "kept") /\ SameBucket
  \/ art[p].key \notin Stored /\ ArtGoto(p, absent) /\ SameBucket
  \/ FallsBack(p)

Load(p) == ArtAt(p, "load") /\ LoadExisting(p, "draw")

\* What comes of a request to the image worker (index.ts): an image, nothing, a 429 or
\* the 502 of every error of the model, a refusal of the request, and a 200 that is
\* no image of the profile asked for.
ImageAnswers == {"image", "unavailable", "rejected", "unfit"}

\* Only what is unavailable is asked for again.
Draw(p) ==
  /\ ArtAt(p, "draw")
  /\ SameBucket
  /\ \E answer \in ImageAnswers :
       IF answer = "image" THEN ArtGoto(p, "list")
       ELSE IF answer = "unavailable" /\ art[p].tries < MaxRetries
            THEN art' = [art EXCEPT ![p].tries = @ + 1]
            ELSE ArtGoto(p, "fallback")

-----------------------------------------------------------------------------
(* persist.                                                                *)

\* Mutants: room is made for none; everything is removed once it is full.
NoRoom(listed) == IF Len(listed) > MaxStored THEN Len(listed) - MaxStored ELSE 0
Emptied(listed) == IF Len(listed) >= MaxStored THEN Len(listed) ELSE 0

\* remove_count: the oldest go so that one more makes MaxStored.
Excess(listed) == IF Len(listed) >= MaxStored THEN Len(listed) - MaxStored + 1 ELSE 0

\* _prune_for_new_object reads the list, sorted by created_at ...
ListStored(p) ==
  /\ ArtAt(p, "list")
  /\ \/ /\ art' = [art EXCEPT
                     ![p].listed = SubSeq(bucket, 1, Excess(bucket)),
                     ![p].pc = IF Excess(bucket) = 0 THEN "upload" ELSE "delete"]
        /\ SameBucket
     \/ FallsBack(p)
     \/ TokenRefused(p)

\* ... and removes by path what the list said is too much.
Doomed(p) == {art[p].listed[i] : i \in DOMAIN art[p].listed}

Without(s, S) ==
  LET kept[i \in 0..Len(s)] ==
        IF i = 0 THEN << >>
        ELSE IF s[i] \in S THEN kept[i - 1] ELSE Append(kept[i - 1], s[i])
  IN kept[Len(s)]

DeleteExcess(p) ==
  /\ ArtAt(p, "delete")
  /\ \/ /\ bucket' = Without(bucket, Doomed(p))
        /\ ArtGoto(p, "upload") \/ ArtGoto(p, "fallback")
        /\ UNCHANGED uploaded
     \/ FallsBack(p)
     \/ TokenRefused(p)

\* Mutant: a key that is there is stored once more.
PutAgain(key) ==
  /\ bucket' = Append(bucket, key)
  /\ uploaded' = Append(uploaded, key)

Put(key) ==
  /\ key \notin Stored
  /\ bucket' = Append(bucket, key)
  /\ uploaded' = Append(uploaded, key)

\* Mutant: an upload that got no answer is believed.
AfterLostUpload(p) == ArtGoto(p, "kept")
AfterFailedUpload(p) == ArtGoto(p, "fallback")

\* The upload never replaces (x-upsert: false): a key that is there by now is
\* refused and read instead.
Upload(p) ==
  /\ ArtAt(p, "upload")
  /\ \/ Put(art[p].key) /\ ArtGoto(p, "kept")
     \/ art[p].key \in Stored /\ ArtGoto(p, "reload") /\ SameBucket
     \/ (Put(art[p].key) \/ SameBucket) /\ AfterFailedUpload(p)
     \/ TokenRefused(p)

Reload(p) == ArtAt(p, "reload") /\ LoadExisting(p, "fallback")

ArtStep(p) ==
  \/ Load(p) \/ Draw(p) \/ ListStored(p) \/ DeleteExcess(p) \/ Upload(p) \/ Reload(p)

ArtOver(p) == art' = [art EXCEPT ![p] = NoArt] /\ SameBucket

-----------------------------------------------------------------------------
\* The number of images uploaded after the last upload of key.
UploadsSince(key) ==
  Cardinality({i \in DOMAIN uploaded :
                 \A k \in i..Len(uploaded) : uploaded[k] # key})

\* Pruning before the upload bounds the bucket.  Processes that have listed the
\* same images each go on to add one, so it is not MaxStored (ADR 0002) but one
\* more for every further process.
BucketBounded == Len(bucket) <= MaxStored + Cardinality(Procs) - 1

\* Whatever lists are stale when they are used, an image goes only when MaxStored
\* less one newer ones have been uploaded.  (Of a key uploaded a second time a
\* list older than that upload may still take the image away.)
Once(key) == Cardinality({i \in DOMAIN uploaded : uploaded[i] = key}) = 1

NewestKept ==
  \A i \in DOMAIN uploaded :
    Once(uploaded[i]) =>
      uploaded[i] \in Stored \/ UploadsSince(uploaded[i]) >= MaxStored - 1
=============================================================================
