----------------------------- MODULE ReviewFiles -----------------------------
(***************************************************************************)
(* The files executives upload for review (review_files.py): bytes go to a *)
(* temporary file, are validated and renamed into the tenant's vault; then *)
(* the manifest, one JSON file, is read, extended and replaced under the   *)
(* process's lock.  Executives list the vault and download what is listed. *)
(***************************************************************************)
EXTENDS Integers, Sequences, SequencesExt, FiniteSets

CONSTANTS
  Upload,        \* uploads, each with an id of its own
  FileName,      \* names, case folded
  Cap,           \* REVIEW_FILE_CAP
  MaxStamp,      \* bound: time
  MaxMisreads    \* bound: reads of the manifest that fail

ASSUME VaultAssumption ==
  /\ Cap \in Nat \ {0}
  /\ MaxStamp \in Nat /\ MaxMisreads \in Nat

FileEntry == [id : Upload, name : FileName, at : 0..MaxStamp]

VARIABLES
  vault,      \* uploads whose file is in the vault, complete
  manifest,   \* manifest.json
  upload,     \* per upload: [pc, entry, loaded]
  shown,      \* history: entries some listing has shown
  misreads,   \* reads that failed so far
  time

vaultVars == <<vault, manifest, upload, shown, misreads, time>>

Uploading ==
       [pc : {"new", "writing", "stored", "listed", "over"}]
  \cup [pc : {"stamped"}, entry : FileEntry]
  \cup [pc : {"loaded"}, entry : FileEntry, items : Seq(FileEntry)]

VaultTypeOK ==
  /\ vault \subseteq Upload
  /\ manifest \in Seq(FileEntry)
  /\ upload \in [Upload -> Uploading]
  /\ shown \subseteq FileEntry
  /\ misreads \in 0..MaxMisreads
  /\ time \in 0..MaxStamp

VaultInit ==
  /\ vault = {}
  /\ manifest = <<>>
  /\ upload = [u \in Upload |-> [pc |-> "new"]]
  /\ shown = {}
  /\ misreads = 0
  /\ time = 0

----------------------------------------------------------------------------
(* save_review_file_upload.                                                 *)

StartUpload(u) ==
  /\ upload[u].pc = "new"
  /\ upload' = [upload EXCEPT ![u] = [pc |-> "writing"]]
  /\ UNCHANGED <<vault, manifest, shown, misreads, time>>

(* Too large, or not a readable Office document: the temporary goes.        *)
RejectUpload(u) ==
  /\ upload[u].pc = "writing"
  /\ upload' = [upload EXCEPT ![u] = [pc |-> "over"]]
  /\ UNCHANGED <<vault, manifest, shown, misreads, time>>

StoreFile(u) ==
  /\ upload[u].pc = "writing"
  /\ vault' = vault \cup {u}
  /\ upload' = [upload EXCEPT ![u] = [pc |-> "stored"]]
  /\ UNCHANGED <<manifest, shown, misreads, time>>

(* The entry is stamped before the lock is asked for.                       *)
StampEntry(u, n) ==
  /\ upload[u].pc = "stored"
  /\ upload' = [upload EXCEPT ![u] =
       [pc |-> "stamped", entry |-> [id |-> u, name |-> n, at |-> time]]]
  /\ UNCHANGED <<vault, manifest, shown, misreads, time>>

(* Nobody waits for the lock.                                               *)
LoadManifest_UNLOCKED(u) ==
  /\ upload[u].pc = "stamped"
  /\ upload' = [upload EXCEPT ![u] =
       [pc |-> "loaded", entry |-> upload[u].entry, items |-> manifest]]
  /\ UNCHANGED <<vault, manifest, shown, misreads, time>>

LoadManifest(u) ==
  /\ upload[u].pc = "stamped"
  /\ \A v \in Upload : upload[v].pc # "loaded"
  /\ upload' = [upload EXCEPT ![u] =
       [pc |-> "loaded", entry |-> upload[u].entry, items |-> manifest]]
  /\ UNCHANGED <<vault, manifest, shown, misreads, time>>

(* A manifest that cannot be read counts as empty.                          *)
MisreadManifest(u) ==
  /\ upload[u].pc = "stamped"
  /\ \A v \in Upload : upload[v].pc # "loaded"
  /\ misreads < MaxMisreads
  /\ misreads' = misreads + 1
  /\ upload' = [upload EXCEPT ![u] =
       [pc |-> "loaded", entry |-> upload[u].entry, items |-> <<>>]]
  /\ UNCHANGED <<vault, manifest, shown, time>>

(* Written to one side, renamed, and answered.                              *)
_save_tenant_manifest(u) ==
  /\ upload[u].pc = "loaded"
  /\ manifest' = Append(upload[u].items, upload[u].entry)
  /\ upload' = [upload EXCEPT ![u] = [pc |-> "listed"]]
  /\ UNCHANGED <<vault, shown, misreads, time>>

(* The server dies: uploads under way are gone, what they stored stays.     *)
StopServer ==
  /\ \E u \in Upload : upload[u].pc \notin {"new", "listed", "over"}
  /\ upload' = [u \in Upload |->
                  IF upload[u].pc \in {"new", "listed"} THEN upload[u]
                  ELSE [pc |-> "over"]]
  /\ UNCHANGED <<vault, manifest, shown, misreads, time>>

TickClock ==
  /\ time < MaxStamp
  /\ time' = time + 1
  /\ UNCHANGED <<vault, manifest, upload, shown, misreads>>

----------------------------------------------------------------------------
(* _uploaded_registry: per name the entry with the latest stamp, the first  *)
(* of those in the manifest; newest first, and no more than the cap.        *)

LatestOf(n) ==
  LET is   == {i \in DOMAIN manifest : manifest[i].name = n}
      last == {i \in is : \A j \in is : \/ manifest[j].at < manifest[i].at
                                        \/ manifest[j].at = manifest[i].at /\ i <= j}
  IN  {manifest[i] : i \in last}

_uploaded_registry ==
  LET items == UNION {LatestOf(n) : n \in FileName}
      newer(e) == {f \in items : f.at > e.at}
  IN  {e \in items : Cardinality(newer(e)) < Cap}

build_review_file_registry ==
  /\ shown' = shown \cup _uploaded_registry
  /\ UNCHANGED <<vault, manifest, upload, misreads, time>>

VaultNext ==
  \/ \E u \in Upload :
       \/ StartUpload(u) \/ RejectUpload(u) \/ StoreFile(u)
       \/ \E n \in FileName : StampEntry(u, n)
       \/ LoadManifest(u) \/ MisreadManifest(u) \/ _save_tenant_manifest(u)
  \/ StopServer \/ TickClock \/ build_review_file_registry

VaultSpec == VaultInit /\ [][VaultNext]_vaultVars

----------------------------------------------------------------------------
(* Wherever the server dies, a file that was ever listed is there, whole,   *)
(* for the executive who opens it.                                          *)
ListedIsStored == {e.id : e \in shown \cup ToSet(manifest)} \subseteq vault

(* An upload that was answered stays in the manifest, whoever uploads at    *)
(* the same moment; only a read that failed forgets it.                     *)
LostOnlyToMisread ==
  misreads = 0 => \A u \in Upload : upload[u].pc = "listed" =>
                                      \E e \in ToSet(manifest) : e.id = u

(* Without the exception: an answered upload is never forgotten.            *)
AnsweredStays ==
  \A u \in Upload : upload[u].pc = "listed" => \E e \in ToSet(manifest) : e.id = u
=============================================================================
