--------------------------- MODULE ThrottledUpload ---------------------------
(***************************************************************************)
(* An upload under a bandwidth cap, as PutObject reads it: the throttled   *)
(* reader (internal/backend/common/ratelimit.go) asks the aws-chunked      *)
(* decoder for at most throttleChunk bytes and pays for what it got from a *)
(* bucket, which it shares with other streams.                             *)
(***************************************************************************)
EXTENDS TokenBucket, ChunkedBody

CONSTANT Upload     \* the stream that is the upload

ASSUME UploadAssumption == Upload \in Takers /\ 1..MaxRead \subseteq Chunks

uploadVars == <<takeVars, decoderVars>>

UploadInit == BucketInit /\ DecoderInit

\* throttledReader.Read: the bytes that came are paid for, also beside an error.
ReadUpload ==
    /\ Read
    /\ StartTake(Upload, Len(got') - Len(got))

\* The same for a stream of which only the amounts matter.
ReadOther(t) ==
    /\ \E n \in Chunks : StartTake(t, n)
    /\ UNCHANGED decoderVars

UploadNext ==
    \/ ReadUpload
    \/ \E t \in Takers \ {Upload} : ReadOther(t)
    \/ BucketStep /\ UNCHANGED decoderVars

\* The backend reads on until there is an error.
UploadSpec == UploadInit /\ [][UploadNext]_uploadVars
FairSpec == UploadSpec /\ BucketFairness /\ WF_uploadVars(ReadUpload)

-----------------------------------------------------------------------------
\* Every variable keeps its type.
UploadTypeOK == BucketTypeOK /\ DecoderTypeOK

\* The payload is handed out in order, and an end that is reported as proper is one.
DecodedIsExact == UploadTypeOK /\ DecodedIsPrefix /\ CleanEndIsWhole

\* The upload comes to its end, whatever its body, how the connection breaks and
\* how the cap changes, unless other streams go on taking for ever.
UploadEnds ==
    <>[][\A t \in Takers \ {Upload} : ~TakeNow(t)]_uploadVars => <>(err # "none")

=============================================================================
