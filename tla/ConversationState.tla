-------------------------- MODULE ConversationState --------------------------
(***************************************************************************)
(* An executive's conversation workspace: the rows of                      *)
(* conversation_state.py, one per persona of one subject and run, and the  *)
(* pages (static/executive.js) that load, edit and save them.  A row is    *)
(* replaced as a whole by a compare-and-set on its version.  Requests are  *)
(* served once or not at all and answers may be lost; a page runs one      *)
(* callback at a time, and everything may happen between two of them.      *)
(***************************************************************************)
EXTENDS Integers, Sequences, FiniteSets, Functions

CONSTANTS
  Persona,
  Device,          \* pages open on the workspace
  NoScope,         \* null
  MaxMessages,     \* bound: messages typed or answered
  MaxVersion,      \* bound: accepted saves of a row
  MaxOpened,       \* bound: workspaces all pages open
  MaxSwitches,     \* bound: personas chosen on all pages
  MaxSaves         \* bound: saves waiting in a page

ASSUME WorkspaceAssumption ==
  /\ MaxMessages \in Nat /\ MaxVersion \in Nat /\ MaxOpened \in Nat
  /\ MaxSwitches \in Nat
  /\ NoScope \notin Persona

Message == [persona : Persona, n : Nat]

VARIABLES
  workspace,  \* strategyos_executive_threads: version and threads per persona
  page,       \* the page of each device, see Page
  typed       \* messages that exist, on any device

workspaceVars == <<workspace, page, typed>>

Scope == [persona : Persona, opened : Nat,
          queued : SUBSET Message, saved : SUBSET Message]
Save  == [persona : Persona, opened : Nat, from : Persona,
          threads : SUBSET Message]
(* "of" is the scope in which the version was answered: a history.          *)
Flight == [save : Save, version : Nat, of : Nat,
           answer : {"none", "saved", "conflict"}]
Load   == [persona : Persona, answered : BOOLEAN,
           version : Nat, threads : SUBSET Message]

ASSUME NoFlightAssumption == NoScope \notin Flight

(* One page: state.* of executive.js, the requests under way included.      *)
Page == [active   : Persona,                  \* activePersona
         opens    : Nat,                      \* scopes made so far
         switches : Nat,                      \* personas chosen so far
         scope    : Scope \cup {NoScope},     \* durableThreadScope
         threads  : SUBSET Message,           \* threadStore()
         version  : Nat,                      \* threadVersion
         of       : Nat,                      \* history, as in Flight
         conflict : BOOLEAN,                  \* threadConflict
         saves    : Seq(Save),                \* threadSaveChain
         flight   : Flight \cup {NoScope},    \* the PUT that is awaited
         load     : Load \cup {NoScope},      \* the GET that is awaited
         asked    : Persona \cup {NoScope}]   \* assistantRequestPending

WorkspaceTypeOK ==
  /\ workspace \in [Persona -> [version : Nat, threads : SUBSET Message]]
  /\ page \in [Device -> Page]
  /\ typed \subseteq Message /\ IsFiniteSet(typed)

NewPage(p) ==
  [active |-> p, opens |-> 0, switches |-> 0, scope |-> NoScope, threads |-> {}, version |-> 0,
   of |-> 0, conflict |-> FALSE, saves |-> <<>>, flight |-> NoScope,
   load |-> NoScope, asked |-> NoScope]

WorkspaceInit ==
  /\ workspace = [p \in Persona |-> [version |-> 0, threads |-> {}]]
  /\ \E p \in Persona : page = [d \in Device |-> NewPage(p)]
  /\ typed = {}

----------------------------------------------------------------------------
(* saveStoredThreads, which every change and every render ends with.  The   *)
(* snapshot holds the threads of the active persona, and is queued for the  *)
(* row of the scope.                                                        *)

Snapshot(p) == {m \in p.threads : m.persona = p.active}

SaveDue(p) == p.scope # NoScope /\ p.scope.queued # Snapshot(p)

saveStoredThreads(p) ==
  IF SaveDue(p)
  THEN [p EXCEPT !.scope.queued = Snapshot(p),
                 !.saves = Append(@, [persona |-> p.scope.persona,
                                      opened |-> p.scope.opened,
                                      from |-> p.active,
                                      threads |-> Snapshot(p)])]
  ELSE p

(* A page in which a callback that ends with a save left p.                 *)
Update(d, p) ==
  /\ SaveDue(p) => Len(p.saves) < MaxSaves
  /\ page' = [page EXCEPT ![d] = saveStoredThreads(p)]

(* A message is new and belongs to persona r.                               *)
NewMessage(r) == [persona |-> r, n |-> Cardinality(typed) + 1]

askAssistant(d) ==
  LET p == page[d] IN
  /\ p.asked = NoScope
  /\ Cardinality(typed) < MaxMessages
  /\ typed' = typed \cup {NewMessage(p.active)}
  /\ Update(d, [p EXCEPT !.threads = @ \cup {NewMessage(p.active)},
                         !.asked = p.active])
  /\ UNCHANGED workspace

(* The reply goes to the thread that asked, if the page still has one.      *)
AssistantAnswers(d) ==
  LET p == page[d] IN
  /\ p.asked # NoScope
  /\ Cardinality(typed) < MaxMessages
  /\ IF \E m \in p.threads : m.persona = p.asked
     THEN /\ typed' = typed \cup {NewMessage(p.asked)}
          /\ Update(d, [p EXCEPT !.threads = @ \cup {NewMessage(p.asked)},
                                 !.asked = NoScope])
     ELSE /\ UNCHANGED typed
          /\ Update(d, [p EXCEPT !.asked = NoScope])
  /\ UNCHANGED workspace

Switched == FoldFunction(LAMBDA p, n : p.switches + n, 0, page)

(* The persona menu and the agent cards: the scope stays behind.            *)
SwitchPersona(d, r) ==
  /\ page[d].active # r
  /\ Switched < MaxSwitches
  /\ page' = [page EXCEPT ![d].active = r, ![d].switches = @ + 1]
  /\ UNCHANGED <<workspace, typed>>

(* renderAssistantStudio and a refresh whose scope is current: both call    *)
(* ensureThreads, which saves.                                              *)
Render(d) ==
  /\ SaveDue(page[d])
  /\ Update(d, page[d])
  /\ UNCHANGED <<workspace, typed>>

----------------------------------------------------------------------------
(* The chain of saves: one PUT at a time, with the version of that moment.  *)

IsScope(p, s) == p.scope # NoScope /\ p.scope.opened = s.opened

SendSave(d) ==
  LET p == page[d]  s == Head(p.saves) IN
  /\ p.saves # <<>>
  /\ p.flight = NoScope
  /\ page' = [page EXCEPT ![d].saves = Tail(@),
                          ![d].flight =
                IF IsScope(p, s) /\ ~p.conflict
                THEN [save |-> s, version |-> p.version, of |-> p.of,
                      answer |-> "none"]
                ELSE NoScope]
  /\ UNCHANGED <<workspace, typed>>

(* The row is replaced whatever its version.                                *)
ServeSave_UNCHECKED(d) ==
  LET f == page[d].flight IN
  /\ f # NoScope
  /\ f.answer = "none"
  /\ workspace[f.save.persona].version < MaxVersion
  /\ workspace' = [workspace EXCEPT ![f.save.persona] =
                     [version |-> @.version + 1, threads |-> f.save.threads]]
  /\ page' = [page EXCEPT ![d].flight.answer = "saved",
                          ![d].flight.version = workspace'[f.save.persona].version]
  /\ UNCHANGED typed

ServeSave(d) ==
  LET f == page[d].flight  row == workspace[f.save.persona] IN
  /\ f # NoScope
  /\ f.answer = "none"
  /\ UNCHANGED typed
  /\ \/ /\ row.version = f.version
        /\ row.version < MaxVersion
        /\ workspace' = [workspace EXCEPT ![f.save.persona] =
                           [version |-> row.version + 1, threads |-> f.save.threads]]
        /\ page' = [page EXCEPT ![d].flight.answer = "saved",
                                ![d].flight.version = row.version + 1]
     \/ /\ row.version # f.version
        /\ page' = [page EXCEPT ![d].flight.answer = "conflict"]
        /\ UNCHANGED workspace

(* The version of the answer is kept whatever the scope has become.         *)
SaveAnswered(d) ==
  LET p == page[d]  f == p.flight IN
  /\ f # NoScope
  /\ f.answer = "saved"
  /\ LET q == [p EXCEPT !.flight = NoScope, !.version = f.version,
                        !.of = f.save.opened]
     IN  page' = [page EXCEPT ![d] =
                    IF IsScope(p, f.save)
                    THEN [q EXCEPT !.scope.saved = f.save.threads] ELSE q]
  /\ UNCHANGED <<workspace, typed>>

(* A refusal, or an answer lost before or after the row was replaced.       *)
SaveFailed(d) ==
  LET p == page[d]  f == p.flight IN
  /\ f # NoScope
  /\ LET q == [p EXCEPT !.flight = NoScope,
                        !.conflict = @ \/ f.answer = "conflict"]
     IN  page' = [page EXCEPT ![d] =
                    IF IsScope(p, f.save)
                    THEN [q EXCEPT !.scope.queued = p.scope.saved] ELSE q]
  /\ UNCHANGED <<workspace, typed>>

----------------------------------------------------------------------------
(* refresh: loadDurableThreads, then ensureThreads, which saves.            *)

Opened == FoldFunction(LAMBDA p, n : p.opens + n, 0, page)

AskLoad(d) ==
  LET p == page[d] IN
  /\ p.load = NoScope
  /\ Opened + Cardinality({e \in Device : page[e].load # NoScope}) < MaxOpened
  /\ ~(p.scope # NoScope /\ p.scope.persona = p.active)
  /\ page' = [page EXCEPT ![d].load = [persona |-> p.active, answered |-> FALSE,
                                       version |-> 0, threads |-> {}]]
  /\ UNCHANGED <<workspace, typed>>

ServeLoad(d) ==
  LET l == page[d].load IN
  /\ l # NoScope
  /\ ~l.answered
  /\ page' = [page EXCEPT ![d].load =
                [persona |-> l.persona, answered |-> TRUE,
                 version |-> workspace[l.persona].version,
                 threads |-> workspace[l.persona].threads]]
  /\ UNCHANGED <<workspace, typed>>

LoadAnswered(d) ==
  LET p == page[d]  l == p.load IN
  /\ l # NoScope
  /\ l.answered
  /\ Update(d, [p EXCEPT
       !.load = NoScope,
       !.threads = {m \in @ : m.persona # l.persona} \cup l.threads,
       !.version = l.version, !.of = p.opens + 1, !.conflict = FALSE,
       !.opens = @ + 1,
       !.scope = [persona |-> l.persona, opened |-> p.opens + 1,
                  queued |-> l.threads, saved |-> l.threads]])
  /\ UNCHANGED <<workspace, typed>>

(* An answer that is not 2xx: the workspace is not opened and refresh goes  *)
(* on to ensureThreads.                                                     *)
LoadRefused(d) ==
  /\ page[d].load # NoScope
  /\ Update(d, [page[d] EXCEPT !.load = NoScope])
  /\ UNCHANGED <<workspace, typed>>

(* No answer: the exception ends the refresh.                               *)
LoadLost(d) ==
  /\ page[d].load # NoScope
  /\ page' = [page EXCEPT ![d].load = NoScope]
  /\ UNCHANGED <<workspace, typed>>

(* The page is reloaded; a request under way is forgotten.                  *)
ReloadPage(d) ==
  /\ page[d].scope # NoScope
  /\ Opened < MaxOpened
  /\ page' = [page EXCEPT ![d] =
                [NewPage(page[d].active) EXCEPT !.opens = page[d].opens,
                                                !.switches = page[d].switches]]
  /\ UNCHANGED <<workspace, typed>>

WorkspaceNext ==
  \E d \in Device :
    \/ askAssistant(d) \/ AssistantAnswers(d)
    \/ \E r \in Persona : SwitchPersona(d, r)
    \/ Render(d) \/ ReloadPage(d)
    \/ SendSave(d) \/ ServeSave(d) \/ SaveAnswered(d) \/ SaveFailed(d)
    \/ AskLoad(d) \/ ServeLoad(d) \/ LoadAnswered(d)
    \/ LoadRefused(d) \/ LoadLost(d)

WorkspaceSpec == WorkspaceInit /\ [][WorkspaceNext]_workspaceVars

----------------------------------------------------------------------------
(* Messages of persona r that its row loses in this step.                   *)
Dropped(r) ==
  {m \in workspace[r].threads : m.persona = r /\ m \notin workspace'[r].threads}

(* The save that is being served: in flight before the step, answered after. *)
Served(d, r) ==
  /\ page[d].flight # NoScope
  /\ page[d].flight.answer = "none"
  /\ page'[d].flight # NoScope
  /\ page'[d].flight.answer = "saved"
  /\ page[d].flight.save.persona = r

(* A message that has reached a row stays in it: what the user sees on one  *)
(* device is never taken away by what another device, or another persona,   *)
(* saves.  This is the user's view that conversation_state.py preserves.    *)
ViewPreserved == [][\A r \in Persona : Dropped(r) = {}]_workspaceVars

(* The compare-and-set does protect the row: a message is lost only to a    *)
(* save whose snapshot was taken under another persona than its scope's, or *)
(* whose version was answered in a scope the page has left.  Two devices of *)
(* one persona, lost answers, retries and reloads lose nothing.             *)
LostOnlyAcrossScopes ==
  [][\A r \in Persona : Dropped(r) # {} =>
       \E d \in Device : /\ Served(d, r)
                         /\ \/ page[d].flight.save.from # r
                            \/ page[d].flight.of # page[d].flight.save.opened
    ]_workspaceVars
=============================================================================
