------------------------------ MODULE AgentPolicy ------------------------------
(***************************************************************************)
(* Which agent answers a request, and which agents a caller is shown       *)
(* (src/jota_gateway/core/agent_policy.py and `list_models` of             *)
(* api/openai_routes.py, issues #105, #217 and #234).                      *)
(*                                                                         *)
(* Pure operators.  A client's configuration is a record with its default  *)
(* agent and the agents it is allowed, NoLimit when there is no list; the  *)
(* gateway's information is what OpenClaw announced, its default and its   *)
(* roster.  Either is Absent where the code has None.  A name of blanks is *)
(* no name: both become NoAgent.                                           *)
(***************************************************************************)
EXTENDS FiniteSets

CONSTANTS
  Agents,   \* names of agents
  Alias,    \* MODEL_ALIAS: the model every caller may name, which is no agent
  Main,     \* the agent of last resort
  NoAgent,  \* nothing asked for, or nothing configured
  NoLimit,  \* allowed_agents is None
  Absent    \* no client configuration (a trusted origin), no gateway information

ASSUME AgentAssumption == /\ Main \in Agents
                          /\ {Alias, NoAgent, NoLimit, Absent} \cap Agents = {}

\* agent_from_model
AgentFromModel(model) == IF model = Alias THEN NoAgent ELSE model

\* The cascade of resolve_agent.
Effective(requested, config, info) ==
  IF requested # NoAgent                                  THEN requested
  ELSE IF config # Absent /\ config.default # NoAgent     THEN config.default
  ELSE IF info # Absent /\ info.default # NoAgent         THEN info.default
  ELSE Main

\* The rest of resolve_agent: an explicit list binds whatever the cascade chose, the roster only
\* what was asked for.
ResolveAgent(requested, config, info) ==
  LET agent == Effective(requested, config, info) IN
  IF config # Absent /\ config.allowed # NoLimit /\ agent \notin config.allowed
  THEN [agent |-> NoAgent, error |-> "not_permitted"]
  ELSE IF requested # NoAgent /\ info # Absent /\ agent \notin info.agents
  THEN [agent |-> NoAgent, error |-> "not_available"]
  ELSE [agent |-> agent, error |-> "none"]

\* The agent of a chat request: a caller without configuration never chooses.
ChatAgent(model, config, info) ==
  IF config # Absent THEN ResolveAgent(AgentFromModel(model), config, info)
  ELSE [agent |-> IF info # Absent THEN info.default ELSE Main, error |-> "none"]

\* list_models: the alias, and the agents of the roster an authenticated caller may use.
ListsRoster(config, info) ==     \* mutant of ListedModels: the client's list is not looked at
  {Alias} \cup (IF config # Absent /\ info # Absent THEN info.agents ELSE {})
ListedModels(config, info) ==
  {Alias} \cup
  IF config = Absent \/ info = Absent THEN {}
  ELSE {a \in info.agents \ {Alias} : config.allowed = NoLimit \/ a \in config.allowed}
=============================================================================
