------------------------------ MODULE AiModels ------------------------------
(***************************************************************************)
(* The models of the AI assistant (OllamaPull, OllamaModels, OllamaPing    *)
(* and OllamaDelete of internal/system/ai/ai.go, the settings and models   *)
(* of internal/api/handlers/ai.go): which models Ollama has, which one the *)
(* settings name, and what each page shows and would save.                 *)
(*                                                                         *)
(* The other settings are copied from the page to the table and back, one  *)
(* by one, and an empty one keeps what is there; only the model may be     *)
(* saved empty, which means the first one that Ollama has.                 *)
(***************************************************************************)
EXTENDS Naturals

CONSTANTS
  AiPages,    \* pages of the assistant
  Models,  \* names of models
  NoModel, \* the empty name
  MaxAiActs  \* bound of the model: pulls, deletions and saves

ASSUME AiAssumption == NoModel \notin Models /\ MaxAiActs \in Nat

VARIABLES
  local,   \* the models that Ollama has
  chosen,  \* ai.ollama_model in the table of settings
  field,   \* tab -> the model in its form
  offered,    \* tab -> the models it lists
  pull,    \* tab -> what its pull does next, and the model
  said,    \* tab -> how its last pull was answered
  aiActs     \* number of pulls, deletions and saves so far

aiVars == <<local, chosen, field, offered, pull, said, aiActs>>

NoPull == [pc |-> "idle", model |-> NoModel]

AiInit ==
  /\ local \in SUBSET Models
  /\ chosen \in {NoModel} \union local
  /\ field = [t \in AiPages |-> chosen] /\ offered = [t \in AiPages |-> local]
  /\ pull = [t \in AiPages |-> NoPull] /\ said = [t \in AiPages |-> "nothing"]
  /\ aiActs = 0

AiAct == aiActs < MaxAiActs /\ aiActs' = aiActs + 1

\* GET /api/ai/status; nothing is listed when Ollama does not answer.
LoadStatus(t) ==
  /\ field' = [field EXCEPT ![t] = chosen]
  /\ \E models \in {local, {}} : offered' = [offered EXCEPT ![t] = models]
  /\ UNCHANGED <<local, chosen, pull, said, aiActs>>

\* PUT /api/ai/settings: of the whole form, or of the model of a row alone.
SaveSettings(t) ==
  /\ AiAct
  /\ chosen' = field[t]
  /\ UNCHANGED <<local, field, offered, pull, said>>

UseModel(t, m) ==
  /\ AiAct
  /\ m \in offered[t] /\ chosen' = m /\ field' = [field EXCEPT ![t] = m]
  /\ UNCHANGED <<local, offered, pull, said>>

\* DELETE /api/ai/models, of a model of the list; Ollama's status is not looked at.
DeleteModel(t, m) ==
  /\ AiAct
  /\ m \in offered[t] /\ local' = local \ {m} /\ offered' = [offered EXCEPT ![t] = local']
  /\ UNCHANGED <<chosen, field, pull, said>>

-----------------------------------------------------------------------------
\* POST /api/ai/models/pull.
PullModel(t, m) ==
  /\ AiAct
  /\ pull[t].pc = "idle" /\ pull' = [pull EXCEPT ![t] = [pc |-> "pulling", model |-> m]]
  /\ UNCHANGED <<local, chosen, field, offered, said>>

\* The end of Ollama's answer.  An error that Ollama reports, by its status or in a
\* line of the body, is read like any other line; the request fails when there is no
\* answer, when the answer is cut and when the client leaves.
OllamaPull(t) ==
  LET m == pull[t].model IN
  /\ pull[t].pc = "pulling"
  /\ \/ /\ local' \in {local, local \union {m}}
        /\ said' = [said EXCEPT ![t] = "ready"]
        /\ pull' = [pull EXCEPT ![t].pc = "look"]
     \/ /\ said' = [said EXCEPT ![t] = "error"]
        /\ pull' = [pull EXCEPT ![t].pc = "shown"]
        /\ UNCHANGED local
  /\ UNCHANGED <<chosen, field, offered, aiActs>>

\* After it has said that the model is ready the server looks whether one is chosen.
LookForChoice(t) ==
  /\ pull[t].pc = "look"
  /\ pull' = [pull EXCEPT ![t].pc = IF chosen = NoModel THEN "select" ELSE "shown"]
  /\ UNCHANGED <<local, chosen, field, offered, said, aiActs>>

AutoSelect(t) ==
  /\ pull[t].pc = "select"
  /\ chosen' = pull[t].model /\ pull' = [pull EXCEPT ![t].pc = "shown"]
  /\ UNCHANGED <<local, field, offered, said, aiActs>>

\* The page lists the models again and puts the one it pulled into its form, however
\* the pull ended.
PullShown(t) ==
  /\ pull[t].pc = "shown"
  /\ offered' = [offered EXCEPT ![t] = local] /\ field' = [field EXCEPT ![t] = pull[t].model]
  /\ pull' = [pull EXCEPT ![t] = NoPull]
  /\ UNCHANGED <<local, chosen, said, aiActs>>

AiNext == \E t \in AiPages :
  \/ LoadStatus(t) \/ SaveSettings(t)
  \/ \E m \in Models : UseModel(t, m) \/ DeleteModel(t, m) \/ PullModel(t, m)
  \/ OllamaPull(t) \/ LookForChoice(t) \/ AutoSelect(t) \/ PullShown(t)

AiSpec == AiInit /\ [][AiNext]_aiVars

-----------------------------------------------------------------------------
AiTypeOK ==
  /\ local \subseteq Models /\ chosen \in Models \union {NoModel}
  /\ \A t \in AiPages : offered[t] \subseteq Models /\ field[t] \in Models \union {NoModel}
  /\ \A t \in AiPages : pull[t].pc \in {"idle", "pulling", "look", "select", "shown"}

\* "[done] <model> ready" is said of a model that Ollama has.
ReadyMeansThere ==
  [][\A t \in AiPages : pull[t].pc = "pulling" /\ pull'[t].pc = "look"
       => pull[t].model \in local']_aiVars
=============================================================================
