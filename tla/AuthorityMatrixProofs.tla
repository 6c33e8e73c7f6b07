----------------------- MODULE AuthorityMatrixProofs -----------------------
(***************************************************************************)
(* Proofs about AuthorityMatrix, for every set of editors and every value  *)
(* of the bounds.                                                          *)
(***************************************************************************)
EXTENDS AuthorityMatrix, TLAPS

(* No version runs ahead of the number of publications, so the types' upper *)
(* bounds are kept.                                                         *)
VersionsCounted ==
  /\ row # None => row.version <= published + 1
  /\ \A e \in Editor : current[e] <= published + 1

(* The versions of the row's history, in closed form.                       *)
RowHistory ==
  /\ row = None <=> rowAudit = <<>>
  /\ row # None => row = rowAudit[Len(rowAudit)]
  /\ rowAudit # <<>> => rowAudit[1].version >= 2
  /\ \A i \in 1..Len(rowAudit) : rowAudit[i].version = rowAudit[1].version + i - 1

(* One writer at a time is inside the lock of the file, and the audit lines *)
(* are of earlier versions until it has added its own.                      *)
FileHistory ==
  /\ \A d, e \in Editor : epc[d] = "audit" /\ epc[e] = "audit" => d = e
  /\ \A i \in 1..Len(fileAudit) :
       /\ fileAudit[i].version <= file.version
       /\ FileLocked => fileAudit[i].version < file.version
  /\ \A i, j \in 1..Len(fileAudit) : i < j => fileAudit[i].version < fileAudit[j].version
  /\ crashes = 0 /\ ~FileLocked /\ file # Default
       => fileAudit # <<>> /\ file = fileAudit[Len(fileAudit)]

(* What a save in progress knows: the version it compared is the one it     *)
(* loaded, and until the file is written it was loaded from the row's       *)
(* history or is the default.                                               *)
SaveKnows ==
  \A e \in Editor :
    /\ epc[e] = "write" /\ expected[e] # None
         => expected[e] = loaded[e].version /\ current[e] = loaded[e].version
    /\ file = Default
         => loaded[e] = Default \/ \E i \in 1..Len(rowAudit) : loaded[e] = rowAudit[i]

IInv == TypeOK /\ VersionsCounted /\ RowHistory /\ FileHistory /\ SaveKnows

(* A matrix is a record with a number in it, and so never None.             *)
LEMMA MatrixIsNotNone ==
  ASSUME NEW m \in Matrix
  PROVE  m # None /\ m.version \in Nat /\ m.version >= 1 /\ m.version <= MaxPublications + 1
BY NoneAssumption, BoundsAssumption DEF Matrix, Version

LEMMA DefaultIsMatrix == Default \in Matrix
BY BoundsAssumption DEF Default, Matrix, Version

LEMMA ReadIsMatrix ==
  ASSUME TypeOK, NEW c \in BOOLEAN
  PROVE  get_authority_matrix(c) \in Matrix
BY DEF TypeOK, get_authority_matrix

LEMMA PublishedIsNat == TypeOK => published \in Nat
<1> SUFFICES ASSUME TypeOK PROVE published \in Nat
  OBVIOUS
<1>1. file.version \in Nat /\ file.version >= 1
  BY MatrixIsNotNone DEF TypeOK
<1>2. Len(rowAudit) \in Nat
  BY DEF TypeOK
<1> QED
  BY <1>1, <1>2 DEF published

LEMMA IInvInit == Init => IInv
<1> SUFFICES ASSUME Init PROVE IInv
  OBVIOUS
<1>1. TypeOK
  BY DefaultIsMatrix, BoundsAssumption DEF Init, TypeOK, Version
<1>2. published = 0
  BY DEF Init, published, Default
<1>3. VersionsCounted /\ RowHistory /\ FileHistory /\ SaveKnows
  BY <1>2 DEF Init, VersionsCounted, RowHistory, FileHistory, SaveKnows, FileLocked, Default
<1> QED
  BY <1>1, <1>3 DEF IInv

----------------------------------------------------------------------------
(* One lemma per kind of step.                                              *)

(* Steps that write neither store.  What the editors know changes only by   *)
(* a read.                                                                  *)
LEMMA ReadStep ==
  ASSUME IInv, NEW e \in Editor, Read(e)
  PROVE  IInv'
<1> USE DEF IInv
<1>1. PICK c \in BOOLEAN : loaded' = [loaded EXCEPT ![e] = get_authority_matrix(c)]
  BY DEF Read
<1>2. UNCHANGED <<stores, published, FileLocked>>
  BY DEF Read, stores, published, FileLocked, Step, TypeOK
<1>3. get_authority_matrix(c) \in Matrix
  BY ReadIsMatrix
<1>4. TypeOK'
  BY <1>1, <1>2, <1>3 DEF Read, Step, TypeOK, stores
<1>5. VersionsCounted' /\ RowHistory'
  BY <1>2 DEF VersionsCounted, RowHistory, Read, stores
<1>6. FileHistory'
  BY <1>2 DEF FileHistory, Read, Step, stores, TypeOK
<1>7. SaveKnows'
  <2> SUFFICES ASSUME NEW d \in Editor
               PROVE  /\ epc'[d] = "write" /\ expected'[d] # None
                           => expected'[d] = loaded'[d].version /\ current'[d] = loaded'[d].version
                      /\ file' = Default
                           => loaded'[d] = Default
                                \/ \E i \in 1..Len(rowAudit') : loaded'[d] = rowAudit'[i]
    BY DEF SaveKnows
  <2>1. CASE d # e
    BY <2>1, <1>1, <1>2 DEF SaveKnows, Read, Step, stores, TypeOK
  <2>2. CASE d = e
    <3>1. epc'[d] # "write" /\ loaded'[d] = get_authority_matrix(c)
      BY <2>2, <1>1 DEF Read, Step, TypeOK
    <3>2. file = Default => get_authority_matrix(c) = Default
                              \/ \E i \in 1..Len(rowAudit) : get_authority_matrix(c) = rowAudit[i]
      <4>1. CASE c /\ row # None
        <5>1. rowAudit # <<>> /\ rowAudit \in Seq(Matrix)
          BY <4>1 DEF RowHistory, TypeOK
        <5>2. Len(rowAudit) \in 1..Len(rowAudit)
          BY <5>1
        <5> QED
          BY <4>1, <5>2 DEF RowHistory, get_authority_matrix
      <4>2. CASE ~(c /\ row # None)
        BY <4>2 DEF get_authority_matrix
      <4> QED
        BY <4>1, <4>2
    <3> QED
      BY <3>1, <3>2, <1>2 DEF stores
  <2> QED
    BY <2>1, <2>2
<1> QED
  BY <1>4, <1>5, <1>6, <1>7

LEMMA CheckVersionStep ==
  ASSUME IInv, NEW e \in Editor, CheckVersion(e)
  PROVE  IInv'
<1> USE DEF IInv
<1>1. PICK c \in BOOLEAN, x \in {loaded[e].version, None} :
        /\ x \in {get_authority_matrix(c).version, None}
        /\ expected' = [expected EXCEPT ![e] = x]
        /\ current' = [current EXCEPT ![e] = get_authority_matrix(c).version]
  BY DEF CheckVersion
<1> DEFINE m == get_authority_matrix(c)
<1>2. UNCHANGED <<stores, loaded, published, FileLocked>>
  BY DEF CheckVersion, stores, published, FileLocked, Step, TypeOK
<1>3. /\ m \in Matrix
      /\ m.version \in Version
      /\ m.version <= published + 1
  <2>1. m \in Matrix
    BY ReadIsMatrix
  <2>2. file.version \in Nat /\ Len(rowAudit) \in Nat
    BY MatrixIsNotNone DEF TypeOK
  <2>3. file.version <= published + 1
    BY <2>2 DEF published
  <2> QED
    BY <2>1, <2>3 DEF get_authority_matrix, VersionsCounted, Matrix
<1>4. x \in Version \cup {None}
  BY <1>1, <1>3
<1>5. TypeOK'
  BY <1>1, <1>2, <1>3, <1>4 DEF CheckVersion, Step, TypeOK, stores
<1>6. VersionsCounted'
  BY <1>1, <1>2, <1>3 DEF VersionsCounted, stores, TypeOK
<1>7. RowHistory'
  BY <1>2 DEF RowHistory, stores
<1>8. FileHistory'
  BY <1>2 DEF FileHistory, CheckVersion, Step, stores, TypeOK
<1>9. SaveKnows'
  BY <1>1, <1>2 DEF SaveKnows, CheckVersion, Step, stores, TypeOK
<1> QED
  BY <1>5, <1>6, <1>7, <1>8, <1>9

LEMMA RefusalStep ==
  ASSUME IInv, NEW e \in Editor, RefuseVersion(e) \/ RefuseRow(e) \/ RefuseFile(e)
  PROVE  IInv'
<1> USE DEF IInv
<1>1. UNCHANGED <<stores, loaded, expected, current, crashes>>
  BY DEF RefuseVersion, RefuseRow, RefuseFile
<1>2. /\ epc' = [epc EXCEPT ![e] = "idle"]
      /\ epc[e] # "audit"
  BY DEF RefuseVersion, RefuseRow, RefuseFile, Step
<1>3. UNCHANGED <<published, FileLocked>>
  BY <1>1, <1>2 DEF stores, published, FileLocked, TypeOK
<1>4. TypeOK' /\ VersionsCounted' /\ RowHistory'
  BY <1>1, <1>2, <1>3 DEF TypeOK, VersionsCounted, RowHistory, stores
<1>5. FileHistory'
  BY <1>1, <1>2, <1>3 DEF FileHistory, stores, TypeOK
<1>6. SaveKnows'
  BY <1>1, <1>2 DEF SaveKnows, stores, TypeOK
<1> QED
  BY <1>4, <1>5, <1>6

(* The row's store: the compare-and-set keeps its history without gaps.     *)
LEMMA WriteRowStep ==
  ASSUME IInv, NEW e \in Editor, WriteRow(e)
  PROVE  IInv'
<1> USE DEF IInv
<1> DEFINE n == Len(rowAudit)
           m == [version |-> current[e] + 1, matrix |-> published + 1]
<1>1. /\ row' = m
      /\ rowAudit' = Append(rowAudit, m)
      /\ row # None => row.version = current[e]
      /\ published < MaxPublications
      /\ UNCHANGED <<file, fileAudit, loaded, expected, current, crashes>>
      /\ epc' = [epc EXCEPT ![e] = "idle"]
      /\ epc[e] = "write"
  BY DEF WriteRow, save_authority_matrix, Step
<1>2. /\ published \in Nat
      /\ current[e] \in Nat /\ current[e] >= 1 /\ current[e] <= published + 1
      /\ MaxPublications \in Nat
      /\ n \in Nat /\ rowAudit \in Seq(Matrix)
  BY PublishedIsNat, BoundsAssumption DEF TypeOK, VersionsCounted, Version
<1>3. m \in Matrix /\ m # None
  <2>1. m \in Matrix
    BY <1>1, <1>2 DEF Matrix, Version
  <2> QED
    BY <2>1, MatrixIsNotNone
<1>4. /\ Len(rowAudit') = n + 1
      /\ rowAudit'[n + 1] = m
      /\ \A i \in 1..n : rowAudit'[i] = rowAudit[i]
      /\ rowAudit' # <<>> /\ rowAudit' \in Seq(Matrix)
  BY <1>1, <1>2, <1>3
<1>5. published' = published + 1
  <2>1. file'.version = file.version /\ file.version \in Nat
    BY <1>1, <1>2, MatrixIsNotNone DEF TypeOK, Matrix, Version
  <2> QED
    BY <1>2, <1>4, <2>1 DEF published
<1>6. FileLocked' = FileLocked
  BY <1>1 DEF FileLocked, TypeOK
<1>7. TypeOK'
  BY <1>1, <1>3, <1>4 DEF TypeOK
<1>8. VersionsCounted'
  <2>1. row'.version <= published' + 1
    BY <1>1, <1>2, <1>5
  <2>2. \A d \in Editor : current[d] \in Nat
    BY DEF TypeOK, Version
  <2> QED
    BY <1>1, <1>2, <1>5, <2>1, <2>2 DEF VersionsCounted
<1>9. RowHistory'
  <2>1. CASE row = None
    <3>1. n = 0
      BY <2>1, <1>2 DEF RowHistory
    <3> QED
      BY <3>1, <1>1, <1>2, <1>3, <1>4 DEF RowHistory
  <2>2. CASE row # None
    <3>1. n >= 1 /\ rowAudit[n].version = current[e]
      BY <2>2, <1>1, <1>2 DEF RowHistory
    <3>2. /\ rowAudit[1].version \in Nat
          /\ rowAudit[n].version = rowAudit[1].version + n - 1
          /\ rowAudit[1].version >= 2
      BY <3>1, <1>2, MatrixIsNotNone DEF RowHistory
    <3>3. rowAudit'[1] = rowAudit[1]
      BY <3>1, <1>2, <1>4
    <3>4. rowAudit'[n + 1].version = rowAudit'[1].version + (n + 1) - 1
      <4>1. rowAudit'[n + 1].version = current[e] + 1
        BY <1>4
      <4>2. current[e] + 1 = rowAudit[1].version + (n + 1) - 1
        BY <1>2, <3>1, <3>2
      <4> QED
        BY <4>1, <4>2, <3>3
    <3>5. \A i \in 1..n : rowAudit'[i].version = rowAudit'[1].version + i - 1
      BY <1>4, <3>3 DEF RowHistory
    <3>6. \A i \in 1..Len(rowAudit') : rowAudit'[i].version = rowAudit'[1].version + i - 1
      BY <1>2, <1>4, <3>4, <3>5
    <3> QED
      BY <1>1, <1>2, <1>3, <1>4, <3>2, <3>3, <3>6 DEF RowHistory
  <2> QED
    BY <2>1, <2>2
<1>10. FileHistory'
  BY <1>1, <1>6 DEF FileHistory, TypeOK
<1>11. SaveKnows'
  <2>1. \A i \in 1..n : i \in 1..Len(rowAudit') /\ rowAudit'[i] = rowAudit[i]
    BY <1>2, <1>4
  <2> QED
    BY <1>1, <2>1 DEF SaveKnows, TypeOK
<1> QED
  BY <1>7, <1>8, <1>9, <1>10, <1>11

(* The file's store: written under the lock, with a version above every     *)
(* audit line's.                                                            *)
LEMMA WriteFileStep ==
  ASSUME IInv, NEW e \in Editor, WriteFile(e)
  PROVE  IInv'
<1> USE DEF IInv
<1> DEFINE m == [version |-> file.version + 1, matrix |-> published + 1]
<1>1. /\ ~FileLocked
      /\ file' = m
      /\ published < MaxPublications
      /\ epc' = [epc EXCEPT ![e] = "audit"]
      /\ UNCHANGED <<row, rowAudit, fileAudit, loaded, expected, current, crashes>>
  BY DEF WriteFile, write_file, Step
<1>2. /\ published \in Nat /\ MaxPublications \in Nat
      /\ file.version \in Nat /\ file.version >= 1 /\ file.version <= published + 1
  <2>1. file.version \in Nat /\ file.version >= 1 /\ Len(rowAudit) \in Nat
    BY MatrixIsNotNone DEF TypeOK
  <2> QED
    BY <2>1, PublishedIsNat, BoundsAssumption DEF published
<1>3. m \in Matrix /\ m # Default
  BY <1>1, <1>2 DEF Matrix, Version, Default
<1>4. published' = published + 1
  BY <1>1, <1>2 DEF published, TypeOK
<1>5. TypeOK'
  BY <1>1, <1>3 DEF TypeOK
<1>6. VersionsCounted'
  <2>1. /\ \A d \in Editor : current[d] \in Nat
        /\ row # None => row.version \in Nat
    BY MatrixIsNotNone DEF TypeOK, Version
  <2> QED
    BY <1>1, <1>2, <1>4, <2>1 DEF VersionsCounted
<1>7. RowHistory'
  BY <1>1 DEF RowHistory
<1>8. FileHistory'
  <2>1. \A d \in Editor : epc'[d] = "audit" <=> d = e
    BY <1>1 DEF FileLocked, TypeOK
  <2>2. FileLocked'
    BY <2>1 DEF FileLocked
  <2>3. \A i \in 1..Len(fileAudit) : fileAudit[i].version \in Nat
    BY MatrixIsNotNone DEF TypeOK
  <2>4. \A i \in 1..Len(fileAudit) : fileAudit[i].version < file'.version
    BY <1>1, <1>2, <2>3 DEF FileHistory
  <2>5. file'.version \in Nat
    BY <1>1, <1>2
  <2>6. \A i \in 1..Len(fileAudit) : fileAudit[i].version <= file'.version
    BY <2>3, <2>4, <2>5
  <2> QED
    BY <1>1, <2>1, <2>2, <2>4, <2>6 DEF FileHistory
<1>9. SaveKnows'
  BY <1>1, <1>3 DEF SaveKnows, TypeOK
<1> QED
  BY <1>5, <1>6, <1>7, <1>8, <1>9

LEMMA AppendAuditStep ==
  ASSUME IInv, NEW e \in Editor, AppendAudit(e)
  PROVE  IInv'
<1> USE DEF IInv
<1> DEFINE n == Len(fileAudit)
<1>1. /\ epc[e] = "audit"
      /\ epc' = [epc EXCEPT ![e] = "idle"]
      /\ fileAudit' = Append(fileAudit, file)
      /\ UNCHANGED <<row, file, rowAudit, loaded, expected, current, crashes>>
  BY DEF AppendAudit, Step
<1>2. FileLocked /\ ~FileLocked'
  BY <1>1 DEF FileLocked, FileHistory, TypeOK
<1>3. /\ n \in Nat
      /\ Len(fileAudit') = n + 1 /\ fileAudit' # <<>>
      /\ fileAudit'[n + 1] = file
      /\ \A i \in 1..n : fileAudit'[i] = fileAudit[i]
      /\ fileAudit' \in Seq(Matrix)
  BY <1>1 DEF TypeOK
<1>4. TypeOK' /\ VersionsCounted' /\ RowHistory'
  BY <1>1, <1>3 DEF TypeOK, VersionsCounted, RowHistory, published
<1>5. FileHistory'
  <2>1. \A i \in 1..n : fileAudit[i].version < file.version
    BY <1>2 DEF FileHistory
  <2>2. file.version \in Nat /\ \A i \in 1..n : fileAudit[i].version \in Nat
    BY MatrixIsNotNone DEF TypeOK
  <2>3. \A i \in 1..(n + 1) : i \in 1..n \/ i = n + 1
    BY <1>3
  <2>4. \A i \in 1..(n + 1) : fileAudit'[i].version <= file.version
    BY <1>3, <2>1, <2>2, <2>3
  <2>5. ASSUME NEW i \in 1..(n + 1), NEW j \in 1..(n + 1), i < j
        PROVE  fileAudit'[i].version < fileAudit'[j].version
    <3>1. i \in 1..n
      BY <2>5, <1>3
    <3>2. CASE j \in 1..n
      BY <2>5, <3>1, <3>2, <1>3 DEF FileHistory
    <3>3. CASE j = n + 1
      BY <3>1, <3>3, <1>3, <2>1
    <3> QED
      BY <2>3, <3>2, <3>3
  <2>6. \A d, c \in Editor : epc'[d] = "audit" /\ epc'[c] = "audit" => d = c
    BY <1>1 DEF FileHistory, TypeOK
  <2> QED
    BY <1>1, <1>2, <1>3, <2>4, <2>5, <2>6 DEF FileHistory
<1>6. SaveKnows'
  BY <1>1 DEF SaveKnows, TypeOK
<1> QED
  BY <1>4, <1>5, <1>6

LEMMA CrashStep ==
  ASSUME IInv, NEW e \in Editor, Crash(e)
  PROVE  IInv'
<1> USE DEF IInv
<1>1. /\ epc' = [epc EXCEPT ![e] = "idle"]
      /\ crashes < MaxCrashes /\ crashes' = crashes + 1
      /\ UNCHANGED <<stores, loaded, expected, current>>
  BY DEF Crash, Step
<1>2. crashes' \in 0..MaxCrashes /\ crashes' # 0
  BY <1>1, BoundsAssumption DEF TypeOK
<1>3. TypeOK' /\ VersionsCounted' /\ RowHistory'
  BY <1>1, <1>2 DEF TypeOK, VersionsCounted, RowHistory, published, stores
<1>4. FileLocked' => FileLocked
  BY <1>1 DEF FileLocked, TypeOK
<1>5. FileHistory'
  BY <1>1, <1>2, <1>4 DEF FileHistory, stores, TypeOK
<1>6. SaveKnows'
  BY <1>1 DEF SaveKnows, stores, TypeOK
<1> QED
  BY <1>3, <1>5, <1>6

LEMMA IInvNext == IInv /\ [Next]_vars => IInv'
<1> SUFFICES ASSUME IInv, [Next]_vars PROVE IInv'
  OBVIOUS
<1>1. CASE UNCHANGED vars
  BY <1>1 DEF vars, stores, editors, IInv, TypeOK, VersionsCounted, RowHistory,
              FileHistory, SaveKnows, FileLocked, published
<1>2. ASSUME NEW e \in Editor, EditorNext(e) PROVE IInv'
  BY <1>2, ReadStep, CheckVersionStep, RefusalStep, WriteRowStep, WriteFileStep,
     AppendAuditStep, CrashStep DEF EditorNext
<1> QED
  BY <1>1, <1>2 DEF Next

(* The strengthened invariant; its first part is type correctness.          *)
THEOREM TypeCorrectness == Spec => []TypeOK
<1>1. IInv => TypeOK
  BY DEF IInv
<1> QED
  BY <1>1, IInvInit, IInvNext, PTL DEF Spec

LEMMA Invariance == Spec => []IInv
BY IInvInit, IInvNext, PTL DEF Spec

(* Each store's audit is its history, for any number of editors, outages    *)
(* and crashes.                                                             *)
THEOREM AuditCorrectness == Spec => []AuditMirrorsMatrix
<1>1. IInv => AuditMirrorsMatrix
  <2> SUFFICES ASSUME IInv PROVE AuditMirrorsMatrix
    OBVIOUS
  <2>1. ASSUME NEW i \in 2..Len(rowAudit)
        PROVE  rowAudit[i].version = rowAudit[i - 1].version + 1
    <3>1. /\ i \in 1..Len(rowAudit) /\ i - 1 \in 1..Len(rowAudit)
          /\ 1 \in 1..Len(rowAudit) /\ rowAudit \in Seq(Matrix)
      BY DEF IInv, TypeOK
    <3>2. rowAudit[1].version \in Nat
      BY <3>1, MatrixIsNotNone
    <3>3. /\ rowAudit[i].version = rowAudit[1].version + i - 1
          /\ rowAudit[i - 1].version = rowAudit[1].version + (i - 1) - 1
      BY <3>1 DEF IInv, RowHistory
    <3>4. /\ i \in Nat /\ Len(rowAudit) \in Nat
      BY <3>1
    <3> QED
      BY <3>2, <3>3, <3>4
  <2> QED
    BY <2>1 DEF IInv, RowHistory, FileHistory, AuditMirrorsMatrix
<1> QED
  BY <1>1, Invariance, PTL

(* The versions of a history are distinct, so a matrix that was loaded from *)
(* it with the row's version is the row's matrix.                           *)
LEMMA VersionNamesMatrix ==
  ASSUME IInv, row # None, NEW i \in 1..Len(rowAudit), rowAudit[i].version = row.version
  PROVE  rowAudit[i] = row
<1>1. /\ Len(rowAudit) \in Nat /\ Len(rowAudit) \in 1..Len(rowAudit)
      /\ 1 \in 1..Len(rowAudit) /\ rowAudit \in Seq(Matrix)
  BY DEF IInv, TypeOK
<1>2. rowAudit[1].version \in Nat
  BY <1>1, MatrixIsNotNone
<1>3. /\ row = rowAudit[Len(rowAudit)]
      /\ rowAudit[i].version = rowAudit[1].version + i - 1
      /\ rowAudit[Len(rowAudit)].version = rowAudit[1].version + Len(rowAudit) - 1
  BY <1>1 DEF IInv, RowHistory
<1>4. i = Len(rowAudit)
  BY <1>1, <1>2, <1>3
<1> QED
  BY <1>3, <1>4

(* The default matrix has a version no row ever had.                        *)
LEMMA DefaultIsNotPublished ==
  ASSUME IInv, NEW i \in 1..Len(rowAudit)
  PROVE  rowAudit[i].version > Default.version
<1>1. /\ i \in Nat /\ i >= 1 /\ 1 \in 1..Len(rowAudit)
      /\ rowAudit # <<>> /\ rowAudit \in Seq(Matrix)
  BY DEF IInv, TypeOK
<1>2. rowAudit[1].version \in Nat /\ rowAudit[1].version >= 2
  BY <1>1, MatrixIsNotNone DEF IInv, RowHistory
<1>3. rowAudit[i].version = rowAudit[1].version + i - 1
  BY DEF IInv, RowHistory
<1> QED
  BY <1>1, <1>2, <1>3 DEF Default

(* A save that names a version replaces the matrix it loaded or nothing,    *)
(* until a save has fallen back to the file.                                *)
THEOREM NoLostPublication == Spec => SavesReplaceWhatWasLoaded
<1> DEFINE Replaces(e) ==
      file = Default /\ epc[e] = "write" /\ epc'[e] # "write" /\ expected[e] # None
        => /\ row' # row => loaded[e] = IF row = None THEN Default ELSE row
           /\ file' # file => loaded[e] = Default
<1>1. ASSUME IInv, Next, NEW e \in Editor PROVE Replaces(e)
  <2> SUFFICES ASSUME file = Default, epc[e] = "write", epc'[e] # "write", expected[e] # None
               PROVE  /\ row' # row => loaded[e] = IF row = None THEN Default ELSE row
                      /\ file' # file => loaded[e] = Default
    OBVIOUS
  <2>1. PICK d \in Editor : EditorNext(d)
    BY <1>1 DEF Next
  <2>2. d = e
    BY <2>1, <1>1 DEF EditorNext, Read, CheckVersion, RefuseVersion, WriteRow, RefuseRow,
                      WriteFile, RefuseFile, AppendAudit, Crash, Step, IInv, TypeOK
  <2>3. /\ expected[e] = loaded[e].version /\ current[e] = loaded[e].version
        /\ loaded[e] = Default \/ \E i \in 1..Len(rowAudit) : loaded[e] = rowAudit[i]
    BY <1>1 DEF IInv, SaveKnows
  <2>4. CASE WriteRow(e)
    <3>1. /\ row # None => row.version = loaded[e].version
          /\ file' = file
      BY <2>3, <2>4 DEF WriteRow, save_authority_matrix
    <3>2. CASE row = None
      <4>1. Len(rowAudit) = 0
        BY <3>2, <1>1 DEF IInv, RowHistory
      <4> QED
        BY <4>1, <3>1, <3>2, <2>3
    <3>3. CASE row # None
      <4>1. loaded[e] # Default
        <5>1. Len(rowAudit) \in 1..Len(rowAudit) /\ row = rowAudit[Len(rowAudit)]
          BY <3>3, <1>1 DEF IInv, RowHistory, TypeOK
        <5>2. row.version > Default.version /\ Default.version = 1
          BY <5>1, <1>1, DefaultIsNotPublished DEF Default
        <5>3. row \in Matrix
          BY <3>3, <1>1 DEF IInv, TypeOK
        <5> QED
          BY <5>2, <5>3, <3>1, <3>3, MatrixIsNotNone
      <4>2. PICK i \in 1..Len(rowAudit) : loaded[e] = rowAudit[i]
        BY <4>1, <2>3
      <4> QED
        BY <4>2, <3>1, <3>3, <1>1, VersionNamesMatrix
    <3> QED
      BY <3>2, <3>3
  <2>5. CASE WriteFile(e)
    <3>1. /\ loaded[e].version = Default.version
          /\ row' = row
      BY <2>3, <2>5 DEF WriteFile, write_file
    <3>2. ASSUME NEW i \in 1..Len(rowAudit) PROVE loaded[e] # rowAudit[i]
      <4>1. rowAudit[i].version > Default.version /\ Default.version = 1
        BY <1>1, DefaultIsNotPublished DEF Default
      <4> QED
        BY <4>1, <3>1
    <3> QED
      BY <3>1, <3>2, <2>3
  <2>6. CASE ~WriteRow(e) /\ ~WriteFile(e)
    BY <2>1, <2>2, <2>6 DEF EditorNext, Read, CheckVersion, RefuseVersion, RefuseRow,
                            RefuseFile, AppendAudit, Crash, stores
  <2> QED
    BY <2>4, <2>5, <2>6
<1>2. IInv /\ [Next]_vars => [\A e \in Editor : Replaces(e)]_vars
  BY <1>1
<1> QED
  BY <1>2, Invariance, PTL DEF Spec, SavesReplaceWhatWasLoaded
=============================================================================
