------------------------------ MODULE Preparation ------------------------------
(***************************************************************************)
(* build_contract_request of the native runtimes: before the producer is   *)
(* started, the native command is asked, under the attempt's deadline,     *)
(* which servers and policies its configuration would start, and every     *)
(* foreign server is disabled by name (runtime/copilot_runtime.py) or in a *)
(* profile that is looked at again (runtime/opencode_runtime.py).  A       *)
(* replay (runtime/replay.py) asks for its bundle only.                    *)
(*                                                                         *)
(* The native configuration belongs to the user and may change meanwhile.  *)
(***************************************************************************)
EXTENDS FiniteSets, Integers

CONSTANTS
  Foreign,    \* names of MCP servers in the user's configuration
  MaxChanges  \* bound: how often the configuration changes during the preparation

Own == "apmx_artifacts"

VARIABLES
  runtime,   \* "copilot", "opencode" or "replay"
  prep,      \* program point; "launched" and "refused" are final
  refusal,   \* the code of the ContractError
  native,    \* the user's configuration: servers, policy, prompt
  named,     \* server names that the first look returned
  denied,    \* servers that the request disables
  lastSeen,  \* history: the foreign servers enabled when it was looked at last
  spent,     \* the deadline has passed
  changes    \* of the configuration

prepVars == <<runtime, prep, refusal, native, named, denied, lastSeen, spent, changes>>
asked == <<named, denied, lastSeen>>

\* policy: permissions, plugins, agents or managed settings that the profile cannot
\* replace; prompt: a global AGENTS.md; override: configuration by environment
Configurations == [servers: SUBSET (Foreign \cup {Own}), policy: BOOLEAN, prompt: BOOLEAN]

RefuseWith(code) == prep' = "refused" /\ refusal' = code

Proceed(next) == prep' = next /\ UNCHANGED refusal

ProbeStates == {"inventory", "version", "configuration", "paths", "effective"}

\* _remaining, _probe and get_contract_mcp_server_names: a supervised child whose
\* output is bounded; it may fail, or say what cannot be understood
ProbeFails ==
  /\ prep \in ProbeStates
  /\ \/ spent /\ prep # "inventory" /\ RefuseWith("attempt_deadline")
     \/ RefuseWith(IF prep = "inventory" THEN "native_mcp_inventory_failed"
                   ELSE "native_configuration_failed")
     \/ RefuseWith(CASE prep = "inventory" -> "native_mcp_unobservable"
                     [] prep = "version"   -> "unsupported_native_version"
                     [] OTHER              -> "native_configuration_unobservable")
  /\ UNCHANGED <<runtime, native, asked, spent, changes>>

\* The environment and the declared outputs: nothing is started yet
Check ==
  /\ prep = "check"
  /\ \/ /\ runtime = "copilot"
        /\ Proceed("inventory") \/ RefuseWith("unsupported_output_location")
     \/ /\ runtime = "opencode"
        /\ Proceed("version") \/ RefuseWith("native_configuration_unobservable")
     \/ /\ runtime = "replay"
        /\ Proceed("launch") \/ RefuseWith("unsupported_harness")
  /\ UNCHANGED <<runtime, native, asked, spent, changes>>

\* Copilot: one look, and everything that was seen is disabled
Inventory ==
  /\ prep = "inventory"
  /\ named' = native.servers
  /\ IF Own \in native.servers THEN RefuseWith("native_tool_collision") /\ UNCHANGED <<denied, lastSeen>>
     ELSE /\ Proceed("launch")
          /\ denied' = named' /\ lastSeen' = native.servers \ denied'
  /\ UNCHANGED <<runtime, native, spent, changes>>

Version ==
  /\ prep = "version" /\ ~spent
  /\ Proceed("configuration")
  /\ UNCHANGED <<runtime, native, asked, spent, changes>>

\* _startup_names: agents, plugins and permissions refuse; OpenCode's first look
Configuration ==
  /\ prep = "configuration" /\ ~spent
  /\ named' = native.servers
  /\ CASE native.policy                              -> RefuseWith("native_configuration_unobservable")
       [] ~native.policy /\ Own \in native.servers   -> RefuseWith("native_tool_collision")
       [] OTHER                                      -> Proceed("paths")
  /\ UNCHANGED <<runtime, native, denied, lastSeen, spent, changes>>

\* _config_root and the global AGENTS.md; then the profile is written
Paths ==
  /\ prep = "paths" /\ ~spent
  /\ IF native.prompt THEN RefuseWith("native_configuration_unobservable") /\ UNCHANGED denied
     ELSE Proceed("effective") /\ denied' = named
  /\ UNCHANGED <<runtime, native, named, lastSeen, spent, changes>>

\* Mutated: the second look only asks whether the own server is there
EffectiveOwn ==
  /\ prep = "effective" /\ ~spent
  /\ lastSeen' = native.servers \ (denied \cup {Own})
  /\ Proceed("launch")
  /\ UNCHANGED <<runtime, native, named, denied, spent, changes>>

\* The second look, under the profile: the same names and the own server, and
\* nothing of the profile replaced
Effective ==
  /\ prep = "effective" /\ ~spent
  /\ lastSeen' = native.servers \ (denied \cup {Own})
  /\ IF native.policy \/ native.servers \cup {Own} # named \cup {Own}
     THEN RefuseWith("native_configuration_unobservable")
     ELSE Proceed("launch")
  /\ UNCHANGED <<runtime, native, named, denied, spent, changes>>

\* What is left of the deadline is the producer's
Launch ==
  /\ prep = "launch"
  /\ IF spent THEN RefuseWith("attempt_deadline") ELSE Proceed("launched")
  /\ UNCHANGED <<runtime, native, asked, spent, changes>>

\* The user edits the configuration, or the deadline passes
Reconfigure ==
  /\ prep \notin {"launched", "refused"}
  /\ \/ changes < MaxChanges /\ changes' = changes + 1 /\ native' \in Configurations /\ UNCHANGED spent
     \/ ~spent /\ spent' = TRUE /\ UNCHANGED <<native, changes>>
  /\ UNCHANGED <<runtime, prep, refusal, asked>>

Prepare ==
  \/ ProbeFails \/ Check \/ Inventory \/ Version \/ Configuration \/ Paths \/ Effective \/ Launch

PrepInit ==
  /\ runtime \in {"copilot", "opencode", "replay"}
  /\ prep = "check" /\ refusal = "none"
  /\ native \in Configurations
  /\ named = {} /\ denied = {} /\ lastSeen = {} /\ spent = FALSE /\ changes = 0

-----------------------------------------------------------------------------
(* Properties *)

\* A producer starts only with every foreign server disabled that its native
\* command reported when it was asked last, also when the configuration changed
\* between the looks; and only in time.
OnlyOwnServerIsEnabled == prep = "launched" => lastSeen = {} /\ ~spent /\ Own \notin named
=============================================================================
