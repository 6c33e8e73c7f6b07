-------------------------- MODULE AuthorityMatrix --------------------------
(***************************************************************************)
(* Publication of one tenant's Authority Matrix (authority_matrix.py): a   *)
(* row with optimistic versions in Postgres and, whenever the pool has no  *)
(* connection for a call, a JSON file under a lock.  Each call of a save   *)
(* asks for its own connection, so one save may read one store and write   *)
(* the other.                                                              *)
(***************************************************************************)
EXTENDS Naturals, Sequences

CONSTANTS
  Editor,           \* requests of principals that may edit the matrix
  None,             \* no row; no expected_version
  MaxPublications,  \* bound: accepted saves
  MaxCrashes        \* bound: crashes inside a save

ASSUME BoundsAssumption == MaxPublications \in Nat /\ MaxCrashes \in Nat
ASSUME NoneAssumption ==
  None \notin Nat /\ None \notin [version : Nat, matrix : Nat]

VARIABLES
  row,        \* strategyos_authority_matrices: version and matrix, or None
  file,       \* the tenant's JSON file; the default matrix while there is none
  rowAudit,   \* strategyos_authority_matrix_audit
  fileAudit,  \* the tenant's .audit.jsonl
  epc,        \* per editor: control
  loaded,     \* per editor: the matrix it edits
  expected,   \* per editor: expected_version of its save
  current,    \* per editor: the version save_authority_matrix read
  crashes

stores == <<row, file, rowAudit, fileAudit>>
editors == <<epc, loaded, expected, current>>
vars == <<stores, editors, crashes>>

Version == 1..(MaxPublications + 1)
Matrix  == [version : Version, matrix : 0..MaxPublications]

(* default_authority_matrix(): version 1; publications are numbered from 1. *)
Default == [version |-> 1, matrix |-> 0]

published == Len(rowAudit) + file.version - 1

TypeOK ==
  /\ row \in Matrix \cup {None}
  /\ file \in Matrix
  /\ rowAudit \in Seq(Matrix)
  /\ fileAudit \in Seq(Matrix)
  /\ epc \in [Editor -> {"idle", "editing", "write", "audit"}]
  /\ loaded \in [Editor -> Matrix]
  /\ expected \in [Editor -> Version \cup {None}]
  /\ current \in [Editor -> Version]
  /\ crashes \in 0..MaxCrashes

Init ==
  /\ row = None
  /\ file = Default
  /\ rowAudit = <<>>
  /\ fileAudit = <<>>
  /\ epc = [e \in Editor |-> "idle"]
  /\ loaded = [e \in Editor |-> Default]
  /\ expected = [e \in Editor |-> None]
  /\ current = [e \in Editor |-> 1]
  /\ crashes = 0

(* What a read returns, by whether the pool had a connection for it.        *)
get_authority_matrix(connection) ==
  IF connection /\ row # None THEN row ELSE file

Step(e, from, to) == epc[e] = from /\ epc' = [epc EXCEPT ![e] = to]

----------------------------------------------------------------------------

(* GET /authority-matrix, and the editor works on what it got.              *)
Read(e) ==
  /\ Step(e, "idle", "editing")
  /\ \E connection \in BOOLEAN :
       loaded' = [loaded EXCEPT ![e] = get_authority_matrix(connection)]
  /\ UNCHANGED <<stores, expected, current, crashes>>

(* The comparison with the version that was loaded left out.                *)
CheckVersion_UNCOMPARED(e) ==
  /\ Step(e, "editing", "write")
  /\ \E connection \in BOOLEAN, x \in {loaded[e].version, None} :
       /\ expected' = [expected EXCEPT ![e] = x]
       /\ current' = [current EXCEPT ![e] = get_authority_matrix(connection).version]
  /\ UNCHANGED <<stores, loaded, crashes>>

(* PUT with the version that was loaded, or with none.  The first half of   *)
(* save_authority_matrix reads the matrix again and compares.               *)
CheckVersion(e) ==
  /\ Step(e, "editing", "write")
  /\ \E connection \in BOOLEAN, x \in {loaded[e].version, None} :
       /\ x \in {get_authority_matrix(connection).version, None}
       /\ expected' = [expected EXCEPT ![e] = x]
       /\ current' = [current EXCEPT ![e] = get_authority_matrix(connection).version]
  /\ UNCHANGED <<stores, loaded, crashes>>

(* "Authority Matrix changed since it was loaded; refresh before saving."   *)
RefuseVersion(e) ==
  /\ Step(e, "editing", "idle")
  /\ \E connection \in BOOLEAN :
       get_authority_matrix(connection).version # loaded[e].version
  /\ UNCHANGED <<stores, loaded, expected, current, crashes>>

(* The upsert without its where clause.                                     *)
save_authority_matrix_BLIND(e) ==
  /\ row' = [version |-> current[e] + 1, matrix |-> published + 1]
  /\ rowAudit' = Append(rowAudit, row')

(* insert ... on conflict do update ... where version = the one read, with  *)
(* the audit row in the same transaction.                                   *)
save_authority_matrix(e) ==
  /\ row # None => row.version = current[e]
  /\ row' = [version |-> current[e] + 1, matrix |-> published + 1]
  /\ rowAudit' = Append(rowAudit, row')

WriteRow(e) ==
  /\ Step(e, "write", "idle")
  /\ published < MaxPublications
  /\ save_authority_matrix(e)
  /\ UNCHANGED <<file, fileAudit, loaded, expected, current, crashes>>

RefuseRow(e) ==
  /\ Step(e, "write", "idle")
  /\ row # None
  /\ row.version # current[e]
  /\ UNCHANGED <<stores, loaded, expected, current, crashes>>

(* The second call of database_connection found no connection: the file,    *)
(* under its lock, with its own comparison.                                 *)
FileLocked == \E e \in Editor : epc[e] = "audit"

write_file(e) ==
  /\ expected[e] \in {file.version, None}
  /\ file' = [version |-> file.version + 1, matrix |-> published + 1]

WriteFile(e) ==
  /\ ~FileLocked
  /\ Step(e, "write", "audit")
  /\ published < MaxPublications
  /\ write_file(e)
  /\ UNCHANGED <<row, rowAudit, fileAudit, loaded, expected, current, crashes>>

RefuseFile(e) ==
  /\ ~FileLocked
  /\ Step(e, "write", "idle")
  /\ expected[e] \notin {file.version, None}
  /\ UNCHANGED <<stores, loaded, expected, current, crashes>>

AppendAudit(e) ==
  /\ Step(e, "audit", "idle")
  /\ fileAudit' = Append(fileAudit, file)
  /\ UNCHANGED <<row, file, rowAudit, loaded, expected, current, crashes>>

(* The request dies before its write, or between the replacement of the     *)
(* file and its audit line; the kernel releases the lock.                   *)
Crash(e) ==
  /\ crashes < MaxCrashes
  /\ crashes' = crashes + 1
  /\ Step(e, "write", "idle") \/ Step(e, "audit", "idle")
  /\ UNCHANGED <<stores, loaded, expected, current>>

EditorNext(e) ==
  \/ Read(e)
  \/ CheckVersion(e)
  \/ RefuseVersion(e)
  \/ WriteRow(e)
  \/ RefuseRow(e)
  \/ WriteFile(e)
  \/ RefuseFile(e)
  \/ AppendAudit(e)
  \/ Crash(e)

Next == \E e \in Editor : EditorNext(e)

Spec == Init /\ [][Next]_vars

----------------------------------------------------------------------------
(* Properties.                                                              *)

(* The audit of a store is its history: one entry for each accepted save,   *)
(* versions without gap or repetition however saves race and stores         *)
(* alternate, and the last entry is the matrix in force.  The file's audit  *)
(* line may be missing after a crash, never out of order.                   *)
AuditMirrorsMatrix ==
  /\ row = None <=> rowAudit = <<>>
  /\ row # None => row = rowAudit[Len(rowAudit)]
  /\ \A i \in 2..Len(rowAudit) : rowAudit[i].version = rowAudit[i - 1].version + 1
  /\ \A i, j \in 1..Len(fileAudit) : i < j => fileAudit[i].version < fileAudit[j].version
  /\ crashes = 0 /\ ~FileLocked /\ file # Default => file = fileAudit[Len(fileAudit)]

(* While no save has had to fall back to the file, a save that names the    *)
(* version it loaded replaces that very matrix or is refused, whichever of  *)
(* its own reads met an outage: no other editor's publication is lost.      *)
SavesReplaceWhatWasLoaded ==
  [][\A e \in Editor :
       file = Default /\ epc[e] = "write" /\ epc'[e] # "write" /\ expected[e] # None
         => /\ row' # row => loaded[e] = IF row = None THEN Default ELSE row
            /\ file' # file => loaded[e] = Default]_vars
=============================================================================
