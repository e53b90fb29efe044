-------------------------- MODULE SubmissionArtifacts --------------------------
(***************************************************************************)
(* submission_artifacts: an uploaded submission, from its admission to the *)
(* copy an evaluation reads.                                               *)
(*                                                                         *)
(* stat takes the identity of the object that lies at the key (its ETag,   *)
(* which here is its version); download and materialize fetch what has     *)
(* that identity, into memory or into a file of a temporary directory.     *)
(* Each works in a thread (run_blocking), so that its caller waits for it  *)
(* even when cancelled.  The object can be uploaded again at any time: the *)
(* URL to do so stays valid for its expiry.  The store answers a read with *)
(* the bytes of one version, whole unless the body breaks off.             *)
(***************************************************************************)
EXTENDS Naturals

CONSTANTS
  Versions,
  Oversized,     \* versions above MAX_DOWNLOAD_BYTES
  None,
  MaxUploads     \* bound: changes of the object after the admission began

VARIABLES
  object,      \* what lies at the key
  uploads,
  accepted,    \* the SubmissionArtifactReference that stat returned
  worker,      \* what the thread of the request does
  body,        \* the version whose bytes the store sends
  copy,        \* what the caller was given
  directory    \* the temporary directory of materialize, or its file

artifactVars == <<object, uploads, accepted, worker, body, copy, directory>>

Outcomes == {"ok", "not found", "too large", "changed", "failed"}
MaybeVersion == Versions \cup {None}

TypeOK ==
  /\ object \in MaybeVersion /\ accepted \in MaybeVersion
  /\ body \in MaybeVersion /\ copy \in MaybeVersion
  /\ uploads \in 0 .. MaxUploads
  /\ worker \in {"none", "head", "get", "read", "remove"}
  /\ directory \in {"none", "empty", "partial", "whole", "gone"}

Init ==
  /\ object \in MaybeVersion
  /\ uploads = 0
  /\ accepted = None /\ body = None /\ copy = None
  /\ worker = "none" /\ directory = "none"

\* The caller uploads again, or the store's owner removes the object.
Upload(v) ==
  /\ uploads < MaxUploads
  /\ uploads' = uploads + 1
  /\ object' = v
  /\ UNCHANGED <<accepted, worker, body, copy, directory>>

\* A thread is started; materialize makes its directory first.
Start(work, file) ==
  /\ worker = "none"
  /\ worker' = work
  /\ directory' = IF work = "get" /\ file THEN "empty" ELSE directory
  /\ UNCHANGED <<object, uploads, accepted, body, copy>>

\* _stat_sync
HeadEnds(out) ==
  /\ worker = "head"
  /\ worker' = "none"
  /\ \/ out = "failed" /\ UNCHANGED accepted
     \/ out = "not found" /\ object = None /\ UNCHANGED accepted
     \/ out = "too large" /\ object \in Oversized /\ UNCHANGED accepted
     \/ out = "ok" /\ object \in Versions \ Oversized /\ accepted' = object
  /\ UNCHANGED <<object, uploads, body, copy, directory>>

\* Mutant: the object is read whatever its version is.
GetAnswersUnchecked ==
  /\ worker = "get" /\ object # None
  /\ worker' = "read"
  /\ body' = object
  /\ UNCHANGED <<object, uploads, accepted, copy, directory>>

\* get_object with If-Match: the object still is what was accepted.
GetAnswers ==
  /\ worker = "get" /\ object = accepted
  /\ worker' = "read"
  /\ body' = object
  /\ UNCHANGED <<object, uploads, accepted, copy, directory>>

\* It is gone, or another one, or the store fails.
GetEnds(out) ==
  /\ worker = "get"
  /\ \/ out = "failed"
     \/ out = "not found" /\ object = None
     \/ out = "changed" /\ object \notin {None, accepted}
  /\ worker' = "none"
  /\ UNCHANGED <<object, uploads, accepted, body, copy, directory>>

\* The body: download returns it; materialize checks the response's identity, writes
\* it to the file and counts its bytes; a body that is too short or too long leaves a part.
ReadEnds(out, file) ==
  /\ worker = "read"
  /\ worker' = "none"
  /\ \/ /\ out = "ok" /\ (file => body = accepted)
        /\ copy' = body
        /\ directory' = IF file THEN "whole" ELSE directory
     \/ /\ out \in {"changed", "too large"} /\ file
        /\ directory' = IF body = accepted THEN "partial" ELSE directory
        /\ UNCHANGED copy
     \/ /\ out = "failed"
        /\ directory' \in IF file THEN {directory, "partial"} ELSE {directory}
        /\ UNCHANGED copy
  /\ UNCHANGED <<object, uploads, accepted, body>>

\* temporary_directory.cleanup
RemoveEnds ==
  /\ worker = "remove"
  /\ worker' = "none"
  /\ directory' = "gone"
  /\ UNCHANGED <<object, uploads, accepted, body, copy>>
=============================================================================
