---------------------------- MODULE BoardMemory ----------------------------
(***************************************************************************)
(* Closing a board meeting (board_api.py close, board_memory.py): a packet *)
(* is composed from what the run and the authority matrix say at that      *)
(* moment and stored once under the meeting's id.  Several executives may  *)
(* close, and retry, at the same time, over different runs, while the      *)
(* sources change.                                                         *)
(***************************************************************************)
EXTENDS Integers, FiniteSets

CONSTANTS
  Closer,          \* requests that close the meeting
  Run,             \* runs a meeting can be closed against
  NoPacket,        \* no row
  MaxSource        \* bound: versions of a run's content and of the matrix

ASSUME BoardAssumption == MaxSource \in Nat

(* A packet stands for its digest: equal contents, equal digests.           *)
Packet == [run : Run, context : 0..MaxSource, authority : 0..MaxSource]

ASSUME PacketAssumption == NoPacket \notin Packet

VARIABLES
  snapshot,    \* the row of strategyos_board_snapshots
  content,     \* per run: the version of its summary and documents
  approved,    \* runs that are approved and whose publication gate passed
  matrix,      \* the version of the tenant's authority matrix
  closing,     \* per closer: its request
  closed,      \* answers: [run, packet] of a 200
  viewed       \* packets a closed view has shown

boardVars == <<snapshot, content, approved, matrix, closing, closed, viewed>>

NoRequest == [pc |-> "idle"]

(* "composed" has the context and the files, "ready" the authority too.     *)
Closing ==
  {NoRequest} \cup [pc : {"checking", "composing"}, run : Run]
              \cup [pc : {"composed"}, run : Run, context : 0..MaxSource]
              \cup [pc : {"ready"}, run : Run, packet : Packet]

BoardTypeOK ==
  /\ snapshot \in Packet \cup {NoPacket}
  /\ content \in [Run -> 0..MaxSource]
  /\ approved \subseteq Run
  /\ matrix \in 0..MaxSource
  /\ closing \in [Closer -> Closing]
  /\ closed \subseteq [run : Run, packet : Packet]
  /\ viewed \subseteq Packet

BoardInit ==
  /\ snapshot = NoPacket
  /\ content = [r \in Run |-> 0]
  /\ approved = {}
  /\ matrix = 0
  /\ closing = [c \in Closer |-> NoRequest]
  /\ closed = {}
  /\ viewed = {}

----------------------------------------------------------------------------
(* The sources: another component changes them.                             *)

ApproveRun(r) ==
  /\ r \notin approved
  /\ approved' = approved \cup {r}
  /\ UNCHANGED <<snapshot, content, matrix, closing, closed, viewed>>

ChangeContent(r) ==
  /\ content[r] < MaxSource
  /\ content' = [content EXCEPT ![r] = @ + 1]
  /\ UNCHANGED <<snapshot, approved, matrix, closing, closed, viewed>>

ChangeMatrix ==
  /\ matrix < MaxSource
  /\ matrix' = matrix + 1
  /\ UNCHANGED <<snapshot, content, approved, closing, closed, viewed>>

----------------------------------------------------------------------------
(* close.                                                                   *)

RequestClose(c, r) ==
  /\ closing[c] = NoRequest
  /\ closing' = [closing EXCEPT ![c] = [pc |-> "checking", run |-> r]]
  /\ UNCHANGED <<snapshot, content, approved, matrix, closed, viewed>>

(* An existing packet of the same run is answered as a replay; one of       *)
(* another run, or a run that is not approved, is refused.                  *)
CheckExisting(c) ==
  LET r == closing[c].run IN
  /\ closing[c].pc = "checking"
  /\ \/ /\ snapshot # NoPacket
        /\ snapshot.run = r
        /\ closed' = closed \cup {[run |-> r, packet |-> snapshot]}
        /\ closing' = [closing EXCEPT ![c] = NoRequest]
     \/ /\ snapshot = NoPacket
        /\ r \in approved
        /\ closing' = [closing EXCEPT ![c] = [pc |-> "composing", run |-> r]]
        /\ UNCHANGED closed
     \/ /\ IF snapshot = NoPacket THEN r \notin approved ELSE snapshot.run # r
        /\ closing' = [closing EXCEPT ![c] = NoRequest]
        /\ UNCHANGED closed
  /\ UNCHANGED <<snapshot, content, approved, matrix, viewed>>

CaptureContext(c) ==
  LET r == closing[c].run IN
  /\ closing[c].pc = "composing"
  /\ closing' = [closing EXCEPT ![c] = [pc |-> "composed", run |-> r,
                                        context |-> content[r]]]
  /\ UNCHANGED <<snapshot, content, approved, matrix, closed, viewed>>

CaptureAuthority(c) ==
  LET q == closing[c] IN
  /\ q.pc = "composed"
  /\ closing' = [closing EXCEPT ![c] =
       [pc |-> "ready", run |-> q.run,
        packet |-> [run |-> q.run, context |-> q.context, authority |-> matrix]]]
  /\ UNCHANGED <<snapshot, content, approved, matrix, closed, viewed>>

(* The last to close wins.                                                  *)
close_meeting_UPSERT(c) ==
  LET q == closing[c].packet IN
  /\ closing[c].pc = "ready"
  /\ snapshot' = q
  /\ closed' = closed \cup {[run |-> q.run, packet |-> q]}
  /\ closing' = [closing EXCEPT ![c] = NoRequest]
  /\ UNCHANGED <<content, approved, matrix, viewed>>

(* INSERT ... ON CONFLICT DO NOTHING waits for a concurrent insert, so that *)
(* the digest compared with is a committed one or the caller's own.         *)
close_meeting(c) ==
  LET q == closing[c].packet IN
  /\ closing[c].pc = "ready"
  /\ snapshot' = IF snapshot = NoPacket THEN q ELSE snapshot
  /\ closed' = IF snapshot' = q THEN closed \cup {[run |-> q.run, packet |-> q]}
                                ELSE closed
  /\ closing' = [closing EXCEPT ![c] = NoRequest]
  /\ UNCHANGED <<content, approved, matrix, viewed>>

(* A document that is missing, or a connection lost before the commit.      *)
AbandonClose(c) ==
  /\ closing[c] # NoRequest
  /\ closing' = [closing EXCEPT ![c] = NoRequest]
  /\ UNCHANGED <<snapshot, content, approved, matrix, closed, viewed>>

(* read_meeting, for views, answers and downloads.                          *)
ReadMeeting ==
  /\ snapshot # NoPacket
  /\ viewed' = viewed \cup {snapshot}
  /\ UNCHANGED <<snapshot, content, approved, matrix, closing, closed>>

BoardNext ==
  \/ \E r \in Run : ApproveRun(r) \/ ChangeContent(r)
  \/ ChangeMatrix \/ ReadMeeting
  \/ \E c \in Closer :
       \/ \E r \in Run : RequestClose(c, r)
       \/ CheckExisting(c) \/ CaptureContext(c) \/ CaptureAuthority(c)
       \/ close_meeting(c) \/ AbandonClose(c)

BoardSpec == BoardInit /\ [][BoardNext]_boardVars

----------------------------------------------------------------------------
(* A closed meeting has one content: everyone who was told "closed", at any *)
(* time and by whichever path, and everyone who looked, has the packet that *)
(* is stored, and it is of the run they closed.                             *)
OneClosedPacket ==
  /\ \A a \in closed : a.packet = snapshot /\ a.run = snapshot.run
  /\ viewed \subseteq {snapshot}

=============================================================================
