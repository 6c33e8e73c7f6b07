---------------------------- MODULE AnswerRouting ----------------------------
(***************************************************************************)
(* One question to the assistant, from the request to the reply: POST     *)
(* /assistant/chat of a signed-in and of an anonymous reader, and POST /qa *)
(* (api.py _assistant_chat_response, data_qa).  A route asks governed      *)
(* sources in turn and the model last; answer_question (llm_qa.py) calls   *)
(* the provider, repairs what it says and validates it; the orchestrator   *)
(* (assistants/orchestrator.py) picks among the results it is handed.      *)
(* What a source finds and what the provider answers is nondeterministic.  *)
(***************************************************************************)
EXTENDS Naturals, Sequences

VARIABLES
  question,   \* surface, mode, chat_status, and whether a run is loaded
  route,      \* the sources still to be asked, in order
  found,      \* results that are handed to the orchestrator
  draft,      \* `parsed` of answer_question, and where it is with it
  calls,      \* provider calls made
  reply

routingVars == <<question, route, found, draft, calls, reply>>

Question ==
  [surface : {"chat", "public", "qa"}, mode : {"auto", "deterministic", "llm"},
   enabled : BOOLEAN, run : BOOLEAN]

(* In the order of the code; "governed" stands for its resolvers (calendar, *)
(* signals, release gate, twins, cost levers, named entities, KPI panel).   *)
Route(q) ==
  CASE q.surface = "chat" ->
         <<"governed", "general", "scenario", "governed", "run", "graph",
           "governed", "tabular", "model">>
    [] q.surface = "public" -> <<"governed", "scenario", "governed", "packet">>
    [] q.surface = "qa" /\ q.mode = "llm" ->
         <<"governed", "run", "graph", "tabular", "model">>
    [] OTHER -> <<"governed", "scenario", "graph", "tabular", "model">>

(* claims, cites: every quantity is in the evidence, every citation         *)
(* resolves. errors: citation_errors. denies: it says that the calendar,    *)
(* which was supplied, is missing. own: the text is the model's.            *)
NoDraft == [stage |-> "none"]
Draft(stage, matched, claims, cites, denies) ==
  [stage |-> stage, matched |-> matched, claims |-> claims, cites |-> cites,
   errors |-> FALSE, denies |-> denies, own |-> TRUE]

Drafts ==
  {NoDraft}
    \cup [stage : {"json", "plain", "failed", "general", "generalText"}]
    \cup [stage : {"text", "check", "repair", "final"}, matched : BOOLEAN,
          claims : BOOLEAN, cites : BOOLEAN, errors : BOOLEAN,
          denies : BOOLEAN, own : BOOLEAN]

(* by: whose text is shown; "refused" and "error" are 4xx and 5xx answers.  *)
NoReply == [by |-> "none"]
Writer == {"scenario", "forced", "graph", "tabular", "model", "persona", "fallback"}
Replies ==
  {NoReply}
    \cup [by : Writer \cup {"refused", "error"}, origin : {"llm", "governed", "unset"},
          text : {"own", "refusal", "answer", "general"}]

RoutingTypeOK ==
  /\ question \in Question
  /\ route \in Seq({"governed", "general", "scenario", "run", "graph", "tabular",
                    "packet", "model"})
  /\ found \subseteq {"graph", "tabular", "packet"}
  /\ draft \in Drafts
  /\ calls \in 0..4
  /\ reply \in Replies

RoutingInit ==
  /\ question \in Question
  /\ route = Route(question)
  /\ found = {}
  /\ draft = NoDraft
  /\ calls = 0
  /\ reply = NoReply

----------------------------------------------------------------------------
(* compose_persona_answer: the first of these that there is. A forced       *)
(* result is shown whether it matched or not; the persona's default comes   *)
(* last.                                                                    *)
Precedence ==
  <<"scenario", "forced", "graph", "tabular", "model", "persona", "fallback">>

Winner(results) ==
  Precedence[CHOOSE i \in DOMAIN Precedence :
               /\ Precedence[i] \in results
               /\ \A j \in 1..(i - 1) : Precedence[j] \notin results]

(* A persona's pattern may match any question.                              *)
Composed(results) ==
  {Winner(results \cup {"fallback"}), Winner(results \cup {"persona", "fallback"})}

(* _assistant_response_payload writes the base result over an unmatched     *)
(* composition and marks what is answered by the model; _compose_response   *)
(* of /qa shows what was composed and has no such mark.                     *)
Reply(winner, base, text) ==
  LET by == IF question.surface # "qa" /\ winner = "fallback" THEN base ELSE winner IN
  [by |-> by,
   origin |-> IF question.surface = "qa" THEN "unset"
              ELSE IF winner = "model" THEN "llm" ELSE "governed",
   text |-> IF by = "model" THEN text ELSE "own"]

Http(status) == [by |-> status, origin |-> "unset", text |-> "own"]

Answer(r) ==
  /\ reply' = r
  /\ UNCHANGED <<question, route, found, calls>>

Asks(source) == reply = NoReply /\ draft = NoDraft /\ route # <<>> /\ Head(route) = source

Drop(results) ==
  /\ route' = Tail(route)
  /\ found' = found \cup results
  /\ UNCHANGED <<question, draft, calls, reply>>

----------------------------------------------------------------------------
(* Refused before a source is asked: by the Authority Matrix, without a run *)
(* and a way to do without one, or in /qa and mode llm without a model.     *)
WithoutModel == question.surface = "qa" /\ question.mode = "llm" /\ ~question.enabled

RefuseRequest ==
  /\ reply = NoReply /\ route = Route(question) /\ draft = NoDraft
  /\ Answer(Http("refused")) /\ UNCHANGED draft

(* The governed resolvers force their answer. In /qa and mode llm only the  *)
(* relevance guard and the attention list are asked.                        *)
AskGoverned ==
  /\ Asks("governed") /\ ~WithoutModel
  /\ \/ Answer(Reply("forced", "forced", "own")) /\ UNCHANGED draft
     \/ Drop({})

(* General knowledge, for a question no governed component claims, when     *)
(* there is neither a run nor a finding.                                    *)
AskGeneral ==
  /\ Asks("general")
  /\ \/ /\ question.mode = "auto" /\ ~question.run /\ question.enabled
        /\ draft' = [stage |-> "general"]
        /\ UNCHANGED <<question, route, found, calls, reply>>
     \/ Drop({})

(* The packet of the public page claims any question: with a model to ask,  *)
(* its answer is kept for the case that the model fails.                    *)
AskScenario ==
  /\ Asks("scenario")
  /\ \/ /\ question.mode # "llm"
        /\ Answer(Reply("scenario", "scenario", "own")) /\ UNCHANGED draft
     \/ /\ question.surface = "public" /\ question.mode = "auto" /\ question.enabled
        /\ Drop({"packet"})
     \/ Drop({})

CheckRun ==
  /\ Asks("run")
  /\ IF question.run THEN Drop({})
     ELSE /\ Answer(IF question.surface = "qa" THEN Http("refused")
                    ELSE Reply("forced", "forced", "own"))
          /\ UNCHANGED draft

(* Graph and retrieval, then the tabular engine: in /qa and mode llm they   *)
(* only supply evidence for the model and results for the orchestrator.     *)
Gathers == question.surface = "qa" /\ question.mode = "llm"

AskGraph ==
  /\ Asks("graph")
  /\ \/ question.run /\ Gathers /\ Drop({"graph"})
     \/ /\ question.run /\ ~Gathers
        /\ Answer(Reply("graph", "graph", "own")) /\ UNCHANGED draft
     \/ Drop({})

AskTabular ==
  /\ Asks("tabular")
  /\ \/ question.run /\ Gathers /\ Drop({"tabular"})
     \/ /\ question.run /\ ~Gathers
        /\ Answer(Reply(IF question.surface = "qa" THEN "tabular" ELSE "forced",
                        "tabular", "own"))
        /\ UNCHANGED draft
     \/ /\ question.run /\ question.mode = "deterministic"
        /\ IF question.surface = "qa"
           THEN \E w \in Composed({}) : Answer(Reply(w, "tabular", "own"))
           ELSE Answer(Reply("forced", "tabular", "own"))
        /\ UNCHANGED draft
     \/ question.run /\ question.mode # "deterministic" /\ Drop({})
     \/ ~question.run /\ Drop({})

(* The model's turn. Without it, chat in mode llm is refused and the others *)
(* say what the tabular engine or the persona has to say.                   *)
AskModel ==
  /\ Asks("model")
  /\ \/ /\ question.enabled /\ question.run
        /\ draft' = [stage |-> "json"]
        /\ UNCHANGED <<question, route, found, calls, reply>>
     \/ /\ ~question.enabled /\ question.surface = "chat" /\ question.mode = "llm"
        /\ Answer(Http("refused")) /\ UNCHANGED draft
     \/ /\ ~(question.enabled /\ question.run)
        /\ ~(question.surface = "chat" /\ question.mode = "llm")
        /\ \E w \in Composed({}) : Answer(Reply(w, "tabular", "own"))
        /\ UNCHANGED draft

AskPacket ==
  /\ Asks("packet")
  /\ IF question.mode # "deterministic" /\ question.enabled
     THEN /\ draft' = [stage |-> "json"]
          /\ UNCHANGED <<question, route, found, calls, reply>>
     ELSE /\ Answer(Reply("forced", "forced", "own"))
          /\ UNCHANGED draft

----------------------------------------------------------------------------
(* answer_question. A call ends with an answer, with text to be said again  *)
(* without JSON ("braces"), empty, malformed, in a RuntimeError (transport, *)
(* budget, audit), or with a body that json.loads rejects: a ValueError,    *)
(* which no caller expects.                                                 *)
Stage(s) == reply = NoReply /\ draft.stage = s

Calling == calls' = calls + 1 /\ UNCHANGED <<question, route, found>>

Unreadable ==
  /\ reply = NoReply
  /\ draft.stage \in {"json", "text", "plain", "repair", "general", "generalText"}
  /\ Calling
  /\ reply' = Http("error") /\ UNCHANGED draft

JsonCall ==
  /\ Stage("json") /\ Calling /\ UNCHANGED reply
  /\ \/ \E stage \in {"check", "text"} : \E m, c, t, d \in BOOLEAN :
          draft' = Draft(stage, m, c, t, d)
     \/ draft' = [stage |-> "plain"]
     \/ draft' = [stage |-> "failed"]

TextCall ==
  /\ Stage("text") /\ Calling /\ UNCHANGED reply
  /\ \/ \E c, d \in BOOLEAN : draft' = Draft("check", draft.matched, c, draft.cites, d)
     \/ draft' = [stage |-> "plain"]
     \/ draft' = [stage |-> "failed"]

(* No citation comes with it. The public page has an answer made from its   *)
(* packet when the provider stays silent.                                   *)
PlainCall ==
  /\ Stage("plain") /\ Calling /\ UNCHANGED reply
  /\ \/ \E c, d \in BOOLEAN : draft' = Draft("check", TRUE, c, FALSE, d)
     \/ /\ question.surface = "public"
        /\ draft' = [Draft("final", TRUE, TRUE, TRUE, FALSE) EXCEPT !.own = FALSE]
     \/ draft' = [stage |-> "failed"]

(* The governed calendar replaces an answer that denies it; a missing       *)
(* domain source replaces any answer by a refusal without a figure.         *)
Repaired(d, c, t) ==
  IF ~d.denies THEN d
  ELSE [d EXCEPT !.denies = FALSE, !.own = FALSE, !.matched = TRUE,
                 !.claims = c, !.cites = t]

DomainBoundary(d) ==
  [d EXCEPT !.denies = FALSE, !.own = FALSE, !.matched = FALSE,
            !.claims = TRUE, !.cites = TRUE]

CitationErrors(d) == question.surface # "public" /\ ~d.cites

Check ==
  /\ Stage("check")
  /\ \E c, t \in BOOLEAN : \E d \in {Repaired(draft, c, t), DomainBoundary(draft)} :
       draft' = [d EXCEPT !.errors = CitationErrors(d),
                          !.stage = IF d.claims /\ ~CitationErrors(d) THEN "final"
                                    ELSE "repair"]
  /\ UNCHANGED <<question, route, found, calls, reply>>

(* The repair that takes whatever the provider says the second time.        *)
RepairCall_TRUSTING ==
  /\ Stage("repair") /\ Calling /\ UNCHANGED reply
  /\ \/ \E m, c, t, d \in BOOLEAN :
          draft' = [Draft("final", m, c, t, d) EXCEPT !.errors = draft.errors]
     \/ draft' = [draft EXCEPT !.stage = "final"]

(* The second answer replaces the first if it passes both validations; an   *)
(* empty, malformed or failed call leaves the first, which stays rejected.  *)
RepairCall ==
  /\ Stage("repair") /\ Calling /\ UNCHANGED reply
  /\ \/ \E m, t, d \in BOOLEAN :
          /\ t \/ question.surface = "public"
          /\ draft' = Draft("final", m, TRUE, t, d)
     \/ draft' = [draft EXCEPT !.stage = "final"]

Rejected == draft.errors \/ ~draft.claims
Matched == ~Rejected /\ draft.matched

(* Chat and the public page select the model's result, matched or not; /qa  *)
(* hands it on as it is, with the graph and tabular results of mode llm.    *)
ModelAnswers ==
  /\ Stage("final")
  /\ LET text == IF Rejected THEN "refusal" ELSE "answer" IN
     IF question.surface # "qa" THEN Answer(Reply("model", "model", text))
     ELSE \E w \in Composed(found \cup (IF Matched THEN {"model"} ELSE {})) :
            Answer(Reply(w, "model", text))
  /\ UNCHANGED draft

ModelFails ==
  /\ Stage("failed")
  /\ \/ /\ question.surface # "public" /\ question.mode = "llm"
        /\ Answer(Http("error"))
     \/ /\ question.surface = "qa" /\ question.mode = "auto"
        /\ \E w \in Composed({}) : Answer(Reply(w, "tabular", "own"))
     \/ /\ question.surface = "chat" /\ question.mode = "auto"
        /\ Answer(Reply("forced", "tabular", "own"))
     \/ /\ question.surface = "public"
        /\ Answer(Reply(IF found = {} THEN "forced" ELSE "scenario", "forced", "own"))
  /\ UNCHANGED draft

(* answer_general_question: two calls at most and nobody to catch an error. *)
(* The base result does not say who answered.                               *)
GeneralCall ==
  /\ reply = NoReply /\ draft.stage \in {"general", "generalText"} /\ Calling
  /\ \/ /\ draft.stage = "general"
        /\ draft' = [stage |-> "generalText"] /\ UNCHANGED reply
     \/ /\ UNCHANGED draft
        /\ \/ reply' = Reply("model", "model", "general")
           \/ /\ draft.stage = "general"
              /\ \E w \in Composed({}) : reply' = Reply(w, "model", "general")
           \/ reply' = Http("error")

RoutingNext ==
  \/ RefuseRequest \/ AskGoverned \/ AskGeneral \/ AskScenario \/ CheckRun
  \/ AskGraph \/ AskTabular \/ AskModel \/ AskPacket
  \/ JsonCall \/ TextCall \/ PlainCall \/ Check \/ RepairCall \/ Unreadable
  \/ ModelAnswers \/ ModelFails \/ GeneralCall

RoutingSpec == RoutingInit /\ [][RoutingNext]_routingVars

----------------------------------------------------------------------------
(* The model speaks last and is vetted: its text is shown on no surface and *)
(* in no mode over a graph, retrieval or tabular result; and as an answer   *)
(* about the business only if every number in it is in the evidence and,    *)
(* outside the public page, every citation resolves. No order of empty,     *)
(* malformed, failed and repaired calls gets around the two validations.    *)
VettedBeforeShown ==
  reply.by = "model" =>
    /\ found \subseteq {"packet"}
    /\ reply.text = "answer" => draft.claims /\ (question.surface = "public" \/ draft.cites)

(* "A model answer ... is never presented as a governed calculation": in    *)
(* the assistant, text of the model carries its origin and its review mark. *)
ModelAnswersAreDisclosed ==
  reply.by = "model" /\ question.surface # "qa" => reply.origin = "llm"

(* The executive sees "a useful board-packet fallback, never provider       *)
(* transport details": no outcome of the provider is a 5xx for the public.  *)
PublicAlwaysAnswers == question.surface = "public" => reply.by # "error"

(* "A false statement about the evidence boundary": no shown answer denies  *)
(* the calendar that was supplied with the question.                        *)
CalendarNotDenied ==
  reply.by = "model" /\ reply.text = "answer" => ~draft.denies

(* A reader whose model answer was rejected is told so, on every surface.   *)
RefusalIsShown ==
  reply # NoReply /\ draft.stage = "final" /\ Rejected /\ found = {}
    => reply.text = "refusal"
=============================================================================
