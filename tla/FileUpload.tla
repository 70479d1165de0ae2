------------------------------ MODULE FileUpload ------------------------------
(***************************************************************************)
(* Multipart upload (crates/openim-domain/src/file.rs): the part size, the *)
(* plan, the signed session, uploading what is missing, resuming,          *)
(* completing.  The object server and the HTTP client are the environment: *)
(* every call may fail, a put may be stored and its answer lost, a         *)
(* signature may be missing.                                               *)
(*                                                                         *)
(* The application follows the flow of the API: it prepares an upload,     *)
(* resumes its plan with the parts the server has for that upload, uploads *)
(* what is missing and completes.  After any error it may call again,      *)
(* prepare a new upload, or restart from a saved plan, whose flags are     *)
(* older than those in memory.  Hashes, names, urls and headers are left   *)
(* out; a part is its number.                                              *)
(*                                                                         *)
(* A definition named Mutant... is a wrong version of the definition that  *)
(* follows it, kept to show that the properties notice the mistake.        *)
(***************************************************************************)
EXTENDS Integers, Sequences, FiniteSets, FiniteSetsExt

CONSTANTS
    Sizes,      \* file sizes
    Bounds,     \* values of min_part_size and max_part_size
    MaxCount,   \* largest max_num_size the server may have
    MaxU64,     \* the largest u64
    MaxSign,    \* DEFAULT_MAX_SIGN_PARTS
    MaxFaults   \* bound: calls that fail, and restarts

ASSUME UploadConstants ==
    /\ Sizes \subseteq Nat
    /\ Bounds \subseteq Nat
    /\ {MaxCount, MaxU64, MaxFaults} \subseteq Nat
    /\ MaxSign \in Nat \ {0}

VARIABLES
    size,     \* FileDigest.file_size
    limit,    \* ObjectPartLimit
    phase,    \* how far the application is
    plan,     \* MultipartUploadPlan.parts
    upload,   \* upload_id of the session, 0 if there is none
    sign,     \* the part numbers in MultipartUploadSession.sign
    bad,      \* those whose signature is unusable or has expired
    stored,   \* parts the server has for each upload
    object,   \* has the server put the object together?
    faults,   \* failed calls so far
    puts,     \* history: puts of each part to the current upload
    lost      \* history: answers to such puts that were lost or wrong

vars == <<size, limit, phase, plan, upload, sign, bad, stored, object, faults, puts, lost>>

Error == -1
Uploads == 1..(MaxFaults + 1)
MaxParts == Max(Sizes \cup {1})

-----------------------------------------------------------------------------
(* Planning *)

DivCeil(a, b) == (a + b - 1) \div b

MutantPartSizeFor(s, l) ==
    IF s = 0 \/ l.min = 0 \/ l.max = 0 \/ l.num = 0 THEN Error
    ELSE IF l.max * l.num > MaxU64 \/ s > l.max * l.num THEN Error
    ELSE IF l.min * l.num > MaxU64 THEN Error
    ELSE IF s <= l.min * l.num THEN l.min
    ELSE s \div l.num

\* ObjectPartLimit::part_size_for; the products are checked_mul.
PartSizeFor(s, l) ==
    IF s = 0 \/ l.min = 0 \/ l.max = 0 \/ l.num = 0 THEN Error
    ELSE IF l.max * l.num > MaxU64 \/ s > l.max * l.num THEN Error
    ELSE IF l.min * l.num > MaxU64 THEN Error
    ELSE IF s <= l.min * l.num THEN l.min
    ELSE DivCeil(s, l.num)

\* plan_multipart: the loop over offset.
PlanMultipart(s, partSize) ==
    LET from[offset \in 0..s] ==
          IF offset >= s THEN <<>>
          ELSE LET n == Min({s - offset, partSize})
               IN  <<[offset |-> offset, size |-> n, uploaded |-> FALSE]>>
                   \o from[offset + n]
    IN  from[0]

Parts == DOMAIN plan
Uploaded(p) == {i \in DOMAIN p : p[i].uploaded}
WithFlags(p, flags) == [i \in DOMAIN p |-> [p[i] EXCEPT !.uploaded = i \in flags]]

\* max_sign_parts
MaxSignParts(count) == Max({Min({MaxSign, count}), 1})

\* The sizes of the flagged parts, summed up in the plan's order.
UploadedBytes(p) ==
    LET sum[i \in 0..Len(p)] ==
          IF i = 0 THEN 0 ELSE sum[i - 1] + (IF p[i].uploaded THEN p[i].size ELSE 0)
    IN  sum[Len(p)]

\* FileTransferService::progress and UploadProgress::is_complete
Progress(p) == [bytes |-> UploadedBytes(p), parts |-> Cardinality(Uploaded(p))]
IsComplete(p) == Progress(p).bytes = size /\ Progress(p).parts = Len(p)

Limits == [min: Bounds, max: Bounds, num: 0..MaxCount]

Init ==
    /\ size \in Sizes
    /\ limit \in Limits
    /\ phase = "start"
    /\ plan = <<>>
    /\ upload = 0
    /\ sign = {}
    /\ bad = {}
    /\ stored = [u \in Uploads |-> {}]
    /\ object = FALSE
    /\ faults = 0
    /\ puts = [i \in 1..MaxParts |-> 0]
    /\ lost = [i \in 1..MaxParts |-> 0]

\* part_limit, part_size_from_limit, plan_multipart.
MakePlan ==
    /\ phase = "start"
    /\ LET partSize == PartSizeFor(size, limit)
       IN  IF partSize = Error
           THEN phase' = "rejected" /\ UNCHANGED plan
           ELSE phase' = "planned" /\ plan' = PlanMultipart(size, partSize)
    /\ UNCHANGED <<size, limit, upload, sign, bad, stored, object, faults, puts, lost>>

-----------------------------------------------------------------------------
(* The calls *)

Fault ==
    /\ faults < MaxFaults
    /\ faults' = faults + 1

\* MultipartUploadSession::new on what the server answers: a new upload with some of its
\* first parts signed.
NewSession ==
    /\ upload' = upload + 1
    /\ sign' \in SUBSET (1..MaxSignParts(Len(plan)))
    /\ bad' = {}
    /\ puts' = [i \in 1..MaxParts |-> 0]
    /\ lost' = [i \in 1..MaxParts |-> 0]

\* prepare_multipart_upload with initiate_multipart_request.  The server starts an
\* upload, or says it has the object.  The application starts over
\* after a failure only (upload <= faults).  It is an error, and nothing
\* changes, if the call fails or the answer is unusable (another part size, an
\* empty upload_id or url).
PrepareMultipartUpload ==
    /\ phase \in {"planned", "prepared", "ready", "uploaded"}
    /\ \/ /\ object
          /\ phase' = "done"
          /\ UNCHANGED <<upload, sign, bad, faults, puts, lost>>
       \/ /\ ~object /\ upload <= faults
          /\ phase' = "prepared"
          /\ NewSession
          /\ UNCHANGED faults
       \/ Fault /\ UNCHANGED <<phase, upload, sign, bad, puts, lost>>
    /\ UNCHANGED <<size, limit, plan, stored, object>>

MutantResumePlan ==
    /\ phase \in {"prepared", "ready"}
    /\ phase' = "ready"
    /\ plan' = WithFlags(plan, Uploaded(plan) \cup stored[upload])
    /\ UNCHANGED <<size, limit, upload, sign, bad, stored, object, faults, puts, lost>>

\* resume_plan with the part numbers the server has: flags are set and cleared.
ResumePlan ==
    /\ phase \in {"prepared", "ready"}
    /\ phase' = "ready"
    /\ plan' = WithFlags(plan, stored[upload])
    /\ UNCHANGED <<size, limit, upload, sign, bad, stored, object, faults, puts, lost>>

\* mark_uploaded: the application puts a part itself, or learns that the server has it, and
\* flags it.  A number the plan does not have is an error that changes nothing.
MarkUploaded(i) ==
    /\ phase = "ready" /\ i \in Parts /\ i \in stored[upload]
    /\ plan' = [plan EXCEPT ![i].uploaded = TRUE]
    /\ UNCHANGED <<size, limit, phase, upload, sign, bad, stored, object, faults, puts, lost>>

MutantMissing == Parts

\* The part upload_missing_parts is at: it goes through the plan in order and
\* skips what is flagged.
Missing == Parts \ Uploaded(plan)

\* next_part_numbers
NextPartNumbers(i) == i..Min({i + MaxSignParts(Len(plan)) - 1, Len(plan)})

\* AuthSignParts::contains_part: listed, usable or not.
ContainsPart(i) == i \in sign

MutantSigns(i) == UNCHANGED <<sign, bad>>

\* signed_part_request leaves sign as it is if it holds the part, else replaces
\* it by what auth_sign returns for the batch.  expire_time is not looked at.
Signs(i) ==
    IF ContainsPart(i) THEN UNCHANGED <<sign, bad>>
    ELSE \E answer \in SUBSET NextPartNumbers(i) : sign' = answer /\ bad' = {}

\* build_signed_put_request, and a server that takes the signature.
Signed(i) == i \in sign' \ bad'

PutOk(i) ==
    /\ Signed(i)
    /\ stored' = [stored EXCEPT ![upload] = @ \cup {i}]
    /\ puts' = [puts EXCEPT ![i] = @ + 1]
    /\ plan' = [plan EXCEPT ![i].uploaded = TRUE]
    /\ UNCHANGED <<lost, faults>>

\* The put fails, before or after the server stored the part, or the answer
\* names another part: an error, and the part is not flagged.
PutLost(i) ==
    /\ Fault
    /\ Signed(i)
    /\ \/ stored' = [stored EXCEPT ![upload] = @ \cup {i}]
       \/ UNCHANGED stored
    /\ puts' = [puts EXCEPT ![i] = @ + 1]
    /\ lost' = [lost EXCEPT ![i] = @ + 1]
    /\ UNCHANGED plan

\* auth_sign fails, or does not sign the part it was asked for: an error, no put.
\* (A part with a bad signature is an error that changes nothing.)
NotSigned(i) ==
    /\ Fault
    /\ i \notin sign'
    /\ UNCHANGED <<stored, puts, lost, plan>>

\* One round of the loop of upload_missing_parts, upload_part included.  The
\* call returns Ok when nothing is missing; an error leaves the flags set so far.
UploadMissingParts ==
    /\ phase = "ready"
    /\ IF Missing = {}
         THEN phase' = "uploaded" /\ UNCHANGED <<sign, bad, stored, puts, lost, plan, faults>>
         ELSE LET i == Min(Missing)
              IN  /\ Signs(i)
                  /\ PutOk(i) \/ PutLost(i) \/ NotSigned(i)
                  /\ UNCHANGED phase
    /\ UNCHANGED <<size, limit, upload, object>>

\* complete_multipart_request lists every part of the plan; the server puts
\* the object together if it has them.  The answer may be lost.
CompleteMultipartUpload ==
    /\ phase = "uploaded"
    /\ object' = (object \/ stored[upload] = Parts)
    /\ \/ phase' = (IF object' THEN "done" ELSE "refused") /\ UNCHANGED faults
       \/ Fault /\ UNCHANGED phase
    /\ UNCHANGED <<size, limit, plan, upload, sign, bad, stored, puts, lost>>

\* A signature of the session expires, or was unusable from the start.
SignatureExpires ==
    /\ Fault
    /\ \E i \in sign \ bad : bad' = bad \cup {i}
    /\ UNCHANGED <<size, limit, phase, plan, upload, sign, stored, object, puts, lost>>

\* The application restarts from a saved plan: the session is gone and the
\* flags are older.
Restart ==
    /\ phase \in {"prepared", "ready", "uploaded"}
    /\ Fault
    /\ phase' = "planned"
    /\ \E flags \in SUBSET Uploaded(plan) : plan' = WithFlags(plan, flags)
    /\ UNCHANGED <<size, limit, upload, sign, bad, stored, object, puts, lost>>

Next ==
    \/ MakePlan
    \/ PrepareMultipartUpload
    \/ ResumePlan
    \/ \E i \in 1..MaxParts : MarkUploaded(i)
    \/ UploadMissingParts
    \/ CompleteMultipartUpload
    \/ SignatureExpires
    \/ Restart

Spec == Init /\ [][Next]_vars

\* Uploading again cannot help: the part is listed, so it is not signed anew.
Stuck == phase = "ready" /\ Missing # {} /\ Min(Missing) \in bad

\* The application goes on with its upload, and prepares a new one when it is stuck.
Fairness ==
    /\ WF_vars(MakePlan)
    /\ WF_vars(PrepareMultipartUpload /\ (phase = "planned" \/ Stuck) /\ phase' # phase)
    /\ WF_vars(ResumePlan /\ phase = "prepared")
    /\ WF_vars(UploadMissingParts /\ faults' = faults)
    /\ WF_vars(CompleteMultipartUpload /\ faults' = faults)

FairSpec == Spec /\ Fairness

-----------------------------------------------------------------------------
(* Properties *)

TypeOK ==
    /\ phase \in {"start", "rejected", "planned", "prepared", "ready", "uploaded",
                  "refused", "done"}
    /\ \A i \in Parts : plan[i].offset \in Nat /\ plan[i].size \in Nat \ {0}
    /\ upload \in {0} \cup Uploads
    /\ sign \subseteq Parts /\ bad \subseteq sign
    /\ stored \in [Uploads -> SUBSET (1..MaxParts)]
    /\ object \in BOOLEAN
    /\ faults \in 0..MaxFaults

End(part) == part.offset + part.size

\* The parts of a plan tile the file: they follow each other without gap or
\* overlap from its first byte to its last, and none is empty.  They stay within
\* the server's limits, when these make sense.
PlanFitsTheFile ==
    plan # <<>> =>
        /\ plan[1].offset = 0 /\ End(plan[Len(plan)]) = size
        /\ \A i \in Parts \ {Len(plan)} : plan[i + 1].offset = End(plan[i])
        /\ \A i \in Parts : plan[i].size > 0
        /\ limit.min <= limit.max =>
              /\ Len(plan) <= limit.num
              /\ \A i \in Parts : plan[i].size <= limit.max
              /\ \A i \in Parts \ {Len(plan)} : plan[i].size >= limit.min

\* While parts are uploaded, a flag means that the server has the part under
\* the current upload: flags of an earlier upload or of an older plan do not
\* survive, so the server never refuses to complete.
FlagsAreStored ==
    /\ phase \in {"ready", "uploaded"} => Uploaded(plan) \subseteq stored[upload]
    /\ phase = "uploaded" => stored[upload] = Parts /\ IsComplete(plan)
    /\ phase # "refused"

\* A part is sent to an upload once, and again only after its answer was lost.
NoRedundantPuts == \A i \in 1..MaxParts : puts[i] <= 1 + lost[i]

\* The upload ends, whatever fails on the way: it is done, or the limits reject
\* the file.
UploadEnds == <>(phase \in {"done", "rejected"})
==============================================================================
