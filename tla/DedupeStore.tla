---------------------------- MODULE DedupeStore ----------------------------
(* dedupe/dedupe.c: a backup is a manifest, one line per file with the key  *)
(* of a blob, and the blobs of all manifests live in one directory.  A blob *)
(* is named by the hash of what it holds, so the model lets a blob be the   *)
(* file itself.  Nothing is synced: a power loss can leave a blob short, or *)
(* take it, while the line that names it is there.                          *)
(*                                                                          *)
(* A manifest is [files, tail]: the files of its complete lines, and how it *)
(* ends.  "whole" is the end of a directory walk that succeeded; "cut" ends *)
(* with a complete line, so that no reader sees that lines are missing;     *)
(* "torn" ends within a line, and a reader crashes on the missing field;    *)
(* "newer" states a version above DEDUPE_VERSION in its first line.         *)
EXTENDS FiniteSets

VARIABLES
    blobs,      \* the files whose blob is in the store, whole
    short       \* those whose blob is there but has lost data, and size with it

Tails == {"whole", "cut", "torn", "newer"}

(* store_file: hash, copy to a temporary name and rename unless a blob of   *)
(* that name and size exists, and only then complete the manifest's line.   *)
StoreBlobsByName(fs) == blobs' = blobs \cup (fs \ short) /\ UNCHANGED short
StoreBlobs(fs) == blobs' = blobs \cup fs /\ short' = short \ fs

(* What the reader of a manifest can come to: its lines, a refusal, a crash.*)
Readable(m) == m.tail \in {"whole", "cut"}

(* dedupe gc: the manifests are read one after another, in the order find   *)
(* lists them.  A torn one crashes the program.  A newer one ends the       *)
(* reading, and the deletion goes on with what has been read so far.        *)
GcCrashes(ms) == \E m \in ms : m.tail = "torn"

GcReadsUpToTorn(ms) ==
    IF \E m \in ms : m.tail \in {"newer", "torn"} THEN SUBSET {m \in ms : Readable(m)} ELSE {ms}

GcReads(ms) ==
    IF \E m \in ms : m.tail = "newer"
    THEN SUBSET {m \in ms : Readable(m)}
    ELSE IF GcCrashes(ms) THEN {} ELSE {ms}

Unused(read) == (blobs \cup short) \ UNION {m.files : m \in read}

(* remove() of one blob after another. *)
RemoveBlobs(gone) == blobs' = blobs \ gone /\ short' = short \ gone

(* dedupe x, one line: the blob is copied out as it is, without a look at   *)
(* the size in the manifest, or the program gives up.                       *)
CanExtract(f) == f \in blobs \cup short
=============================================================================
