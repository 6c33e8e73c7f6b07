----------------------------- MODULE SourcePacks -----------------------------
(***************************************************************************)
(* A staged source pack (source_pack.py): one directory with raw files, a  *)
(* file of operator-confirmed mappings, and two dataset roots, one for     *)
(* full and one for partial runs, that requests delete and rebuild without *)
(* a lock while governed runs of the same pack (run_poc.py, ingestion.py)  *)
(* read them.  A file fits a role exactly, or only by column aliases, and  *)
(* then an operator must confirm the mapping before the file is used.  The *)
(* directory it was uploaded to says whether it is current evidence,       *)
(* restricted context (a forecast, say) or historic context.               *)
(***************************************************************************)
EXTENDS Integers, FiniteSets

CONSTANTS
  File,        \* structured files of the pack, each of which fits a role
  Role,        \* RUN_MODEL_REQUIRED_ROLES
  Period,      \* how recent a file is: the date its data ends at, and below
               \* every date how near to the root an undated file lies
  Request,     \* requests and runs that use the pack, one operation each
  NoContext    \* no .strategyos_run_context.json

ASSUME PackAssumption == IsFiniteSet(File) /\ Period \subseteq Int

Root == {"normalized", "partial"}
(* source_disposition; the others fit no role.                              *)
Disposition == {"current", "restricted", "historic"}
Fit == [role : Role, exact : BOOLEAN, period : Period, at : Disposition]
Operation == {"validate", "confirm", "resolve", "run"}
Mode == {"full", "partial"}
RunContext == [mode : Mode, claims : SUBSET Role]
(* What one run has read; "later" is the root when the KPIs were derived.   *)
Reading == [mode : Mode, claims : SUBSET Role,
            files : SUBSET File, later : SUBSET File]

VARIABLES
  fits,        \* per file: role, exact match or alias, period, disposition;
               \* fixed
  overrides,   \* source_mapping_overrides.json: confirmed files
  unreadable,  \* that file is between its truncation and its write
  confirmed,   \* history: files an operator was told are confirmed
  dataset,     \* files in each root
  context,     \* the run context in each root
  work,        \* per request: where it is
  readings     \* history: what the runs that finished have read

packVars ==
  <<fits, overrides, unreadable, confirmed, dataset, context, work, readings>>

Work == [pc : {"new", "clear", "fill", "checked", "reload", "truncate", "write",
               "empty", "copy", "open", "strict", "lenient", "read", "derive", "over"},
         op : Operation, partial : BOOLEAN, told : BOOLEAN,
         file : SUBSET File,       \* the file whose mapping it confirms, if any
         seen : SUBSET File,       \* the overrides it has loaded
         left : SUBSET File,       \* files it has yet to copy
         reading : Reading]

PackTypeOK ==
  /\ fits \in [File -> Fit]
  /\ overrides \subseteq File
  /\ unreadable \in BOOLEAN
  /\ confirmed \subseteq File
  /\ dataset \in [Root -> SUBSET File]
  /\ context \in [Root -> RunContext \cup {NoContext}]
  /\ work \in [Request -> Work]
  /\ readings \subseteq Reading

Nothing == [mode |-> "full", claims |-> {}, files |-> {}, later |-> {}]

(* The locals of a request that has none.                                   *)
Fresh == [pc |-> "new", op |-> "validate", partial |-> FALSE, told |-> FALSE,
          file |-> {}, seen |-> {}, left |-> {}, reading |-> Nothing]

PackInit ==
  /\ fits \in [File -> Fit]
  /\ overrides = {} /\ unreadable = FALSE /\ confirmed = {}
  /\ dataset = [r \in Root |-> {}]
  /\ context = [r \in Root |-> NoContext]
  /\ readings = {}
  /\ work = [q \in Request |-> Fresh]

----------------------------------------------------------------------------
(* What a manifest says, given the overrides it was classified with.        *)

Classified(seen) == {f \in File : fits[f].exact \/ f \in seen}

Current == {f \in File : fits[f].at = "current"}

_role_inventory(seen, r) == {f \in Current \cap Classified(seen) : fits[f].role = r}

(* The most recent files of a role; the others are historic context.        *)
_run_model_role_inventory(seen, r) ==
  {f \in _role_inventory(seen, r) :
     \A g \in _role_inventory(seen, r) : fits[g].period <= fits[f].period}

Available(seen) ==
  {r \in Role : Cardinality(_run_model_role_inventory(seen, r)) = 1}

Ready(seen) == Available(seen) = Role

Selected(seen) == UNION {_run_model_role_inventory(seen, r) : r \in Available(seen)}

(* A role is trusted for a restricted file too, which no run ever reads.    *)
_unconfirmed_roles(seen) ==
  {fits[f].role : f \in Current \ Classified(seen)}
    \ {fits[f].role : f \in {g \in Classified(seen) : fits[g].at # "historic"}}

LoadOverrides == IF unreadable THEN {} ELSE overrides

At(q, pc) == work[q].pc = pc

Go(q, pc) ==
  work' = [work EXCEPT ![q] = [(IF pc = "over" THEN Fresh ELSE @) EXCEPT !.pc = pc]]

----------------------------------------------------------------------------
(* validate_source_pack, which every operation begins with: the manifest is *)
(* classified and the normalized root is deleted and filled again.          *)

BeginRequest(q, op, fs, partial) ==
  /\ At(q, "new")
  /\ work' = [work EXCEPT ![q].pc = "clear", ![q].op = op, ![q].file = fs,
                          ![q].partial = partial, ![q].seen = LoadOverrides]
  /\ UNCHANGED <<fits, overrides, unreadable, confirmed, dataset, context, readings>>

ClearNormalized(q) ==
  /\ At(q, "clear")
  /\ dataset' = [dataset EXCEPT !["normalized"] = {}]
  /\ context' = [context EXCEPT !["normalized"] = NoContext]
  /\ work' = [work EXCEPT ![q].pc = "fill", ![q].left = Selected(work[q].seen)]
  /\ UNCHANGED <<fits, overrides, unreadable, confirmed, readings>>

CopyNormalized(q) ==
  /\ At(q, "fill")
  /\ \E f \in work[q].left :
       /\ dataset' = [dataset EXCEPT !["normalized"] = @ \cup {f}]
       /\ work' = [work EXCEPT ![q].left = @ \ {f}]
  /\ UNCHANGED <<fits, overrides, unreadable, confirmed, context, readings>>

(* The answer of validate, and of a confirmation that validated again.      *)
_payload_for(q) ==
  /\ At(q, "fill")
  /\ work[q].left = {}
  /\ Go(q, CASE work[q].op = "validate" \/ work[q].told -> "over"
             [] work[q].op = "confirm"  -> "reload"
             [] OTHER                   -> "checked")
  /\ confirmed' = IF work[q].told THEN confirmed \cup work[q].file ELSE confirmed
  /\ UNCHANGED <<fits, overrides, unreadable, dataset, context, readings>>

(* Every step may raise: a directory or a file that another request has     *)
(* just deleted, a full disk, a process that dies.                          *)
RequestFails(q) ==
  /\ work[q].pc \notin {"new", "over"}
  /\ Go(q, "over")
  /\ UNCHANGED <<fits, overrides, unreadable, confirmed, dataset, context, readings>>

----------------------------------------------------------------------------
(* confirm_source_pack_mapping: load, add, write, validate.                 *)

ReloadOverrides(q) ==
  /\ At(q, "reload")
  /\ work' = [work EXCEPT ![q].pc = "truncate", ![q].seen = LoadOverrides]
  /\ UNCHANGED <<fits, overrides, unreadable, confirmed, dataset, context, readings>>

TruncateOverrides(q) ==
  /\ At(q, "truncate")
  /\ unreadable' = TRUE
  /\ Go(q, "write")
  /\ UNCHANGED <<fits, overrides, confirmed, dataset, context, readings>>

WriteOverrides(q) ==
  /\ At(q, "write")
  /\ overrides' = work[q].seen \cup work[q].file
  /\ unreadable' = FALSE
  /\ work' = [work EXCEPT ![q].pc = "clear", ![q].told = TRUE,
                          ![q].seen = work[q].seen \cup work[q].file]
  /\ UNCHANGED <<fits, confirmed, dataset, context, readings>>

----------------------------------------------------------------------------
(* resolve_source_pack_for_run: called by the route, which drops what it    *)
(* returns, and again by the run.                                           *)

Partial(q) == work[q].partial /\ ~Ready(work[q].seen)

RootOf(q) == IF Partial(q) THEN "partial" ELSE "normalized"

(* No confidence gate.                                                      *)
PassGate_UNCONFIRMED(q) ==
  /\ At(q, "checked")
  /\ Ready(work[q].seen) \/ work[q].partial
  /\ Go(q, IF Partial(q) THEN "empty" ELSE IF work[q].op = "run" THEN "open" ELSE "over")
  /\ UNCHANGED <<fits, overrides, unreadable, confirmed, dataset, context, readings>>

PassGate(q) ==
  /\ At(q, "checked")
  /\ Ready(work[q].seen) \/ work[q].partial
  /\ _unconfirmed_roles(work[q].seen) = {}
  /\ Go(q, IF Partial(q) THEN "empty" ELSE IF work[q].op = "run" THEN "open" ELSE "over")
  /\ UNCHANGED <<fits, overrides, unreadable, confirmed, dataset, context, readings>>

(* _build_partial_dataset.                                                  *)
ClearPartial(q) ==
  /\ At(q, "empty")
  /\ dataset' = [dataset EXCEPT !["partial"] = {}]
  /\ context' = [context EXCEPT !["partial"] = NoContext]
  /\ work' = [work EXCEPT ![q].pc = "copy", ![q].left = dataset["normalized"]]
  /\ UNCHANGED <<fits, overrides, unreadable, confirmed, readings>>

CopyPartial(q) ==
  /\ At(q, "copy")
  /\ \E f \in work[q].left \cap dataset["normalized"] :
       /\ dataset' = [dataset EXCEPT !["partial"] = @ \cup {f}]
       /\ work' = [work EXCEPT ![q].left = @ \ {f}]
  /\ UNCHANGED <<fits, overrides, unreadable, confirmed, context, readings>>

FinishPartial(q) ==
  /\ At(q, "copy")
  /\ work[q].left = {}
  /\ Go(q, IF work[q].op = "run" THEN "open" ELSE "over")
  /\ UNCHANGED <<fits, overrides, unreadable, confirmed, dataset, context, readings>>

----------------------------------------------------------------------------
(* run: the context is written into the root, then load_dataset.            *)

_write_source_pack_run_context(q) ==
  /\ At(q, "open")
  /\ context' = [context EXCEPT ![RootOf(q)] =
       [mode |-> IF Partial(q) THEN "partial" ELSE "full",
        claims |-> Available(work[q].seen)]]
  /\ Go(q, "strict")
  /\ UNCHANGED <<fits, overrides, unreadable, confirmed, dataset, readings>>

(* What a context says, or the defaults of one that is missing.             *)
Claimed(c) == IF c = NoContext THEN [mode |-> "full", claims |-> Role] ELSE c

(* Roles are allowed to be absent if the context is.                        *)
_load_run_metadata_LENIENT(q) ==
  LET c == context[RootOf(q)] IN
  /\ At(q, "strict")
  /\ work' = [work EXCEPT
       ![q].pc = IF c # NoContext /\ c.mode = "full" THEN "read" ELSE "lenient",
       ![q].reading.mode = Claimed(c).mode, ![q].reading.claims = Claimed(c).claims]
  /\ UNCHANGED <<fits, overrides, unreadable, confirmed, dataset, context, readings>>

_load_run_metadata(q) ==
  LET c == context[RootOf(q)] IN
  /\ At(q, "strict")
  /\ work' = [work EXCEPT
       ![q].pc = IF Claimed(c).mode = "partial" THEN "lenient" ELSE "read",
       ![q].reading.mode = Claimed(c).mode, ![q].reading.claims = Claimed(c).claims]
  /\ UNCHANGED <<fits, overrides, unreadable, confirmed, dataset, context, readings>>

Present(root) == {fits[f].role : f \in dataset[root]}

(* Strict loading raises if a role does not resolve.                        *)
load_dataset(q) ==
  /\ work[q].pc \in {"read", "lenient"}
  /\ At(q, "lenient") \/ Present(RootOf(q)) = Role
  /\ work' = [work EXCEPT ![q].pc = "derive",
                          ![q].reading.files = dataset[RootOf(q)]]
  /\ UNCHANGED <<fits, overrides, unreadable, confirmed, dataset, context, readings>>

(* The workflow has run on the bundle; KPIs, agenda and enrichment are      *)
(* derived from the root as it is now.                                      *)
derive_source_finance_kpis(q) ==
  /\ At(q, "derive")
  /\ readings' = readings \cup
       {[work[q].reading EXCEPT !.later = dataset[RootOf(q)]]}
  /\ Go(q, "over")
  /\ UNCHANGED <<fits, overrides, unreadable, confirmed, dataset, context>>

PackNext ==
  \E q \in Request :
    \/ BeginRequest(q, "validate", {}, FALSE)
    \/ \E f \in File : BeginRequest(q, "confirm", {f}, FALSE)
    \/ \E op \in {"resolve", "run"}, p \in BOOLEAN : BeginRequest(q, op, {}, p)
    \/ ClearNormalized(q) \/ CopyNormalized(q) \/ _payload_for(q)
    \/ RequestFails(q)
    \/ ReloadOverrides(q) \/ TruncateOverrides(q) \/ WriteOverrides(q)
    \/ PassGate(q) \/ ClearPartial(q) \/ CopyPartial(q) \/ FinishPartial(q)
    \/ _write_source_pack_run_context(q) \/ _load_run_metadata(q)
    \/ load_dataset(q) \/ derive_source_finance_kpis(q)

PackSpec == PackInit /\ [][PackNext]_packVars

----------------------------------------------------------------------------
(* A root may lose its files, and its context, under a run; but a run that  *)
(* says it was full has read every required role.                           *)
FullRunsAreComplete ==
  \A r \in readings : r.mode = "full" => {fits[f].role : f \in r.files} = Role

(* Two different current files of one period claim role r.                  *)
Duplicated(r) ==
  \E g, h \in Current : /\ g # h /\ fits[g].role = r /\ fits[h].role = r
                        /\ fits[g].period = fits[h].period

(* A restricted file is taken for role r, and no current file fits it       *)
(* exactly.                                                                 *)
Shadowed(r) ==
  /\ \E g \in File : fits[g].role = r /\ fits[g].at = "restricted"
  /\ \A g \in Current : fits[g].role = r => ~fits[g].exact

(* A role that a current file fits is left out of a run, even a partial     *)
(* one, only because two files of one period claim it, or because the one   *)
(* that counts as trusted is restricted; never because a low-confidence     *)
(* mapping of all that was supplied for it was not confirmed, whatever      *)
(* other requests do to the overrides meanwhile.                            *)
LeftOutForCause ==
  \A r \in readings, f \in Current :
    \/ fits[f].role \in r.claims
    \/ Duplicated(fits[f].role)
    \/ Shadowed(fits[f].role)

(* "Block the run until the operator confirms it": beside a restricted file *)
(* the unconfirmed one is dropped, and the run goes on without the role.    *)
OnlyDuplicatesLeftOut ==
  \A r \in readings, f \in Current :
    fits[f].role \in r.claims \/ Duplicated(fits[f].role)

(* "Operator-confirmed mappings are never flagged" again: a confirmation    *)
(* that was answered stays in the file.                                     *)
ConfirmedStays == confirmed \subseteq overrides

(* A run skips "exactly the absent roles": what its context claims is what  *)
(* was there when it loaded.                                                *)
ClaimsWereRead ==
  \A r \in readings : r.claims \subseteq {fits[f].role : f \in r.files}

(* The findings and the KPIs of one run come from one dataset.              *)
OneDataset == \A r \in readings : r.files = r.later
=============================================================================
