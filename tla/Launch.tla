------------------------------- MODULE Launch -------------------------------
(***************************************************************************)
(* The command line a backend is started with, and what a run that fails   *)
(* is said to have failed of: the config, cli and adapter modules of the   *)
(* three backends (src/src/amicus/backends/), the flag probe               *)
(* (sdk/conventions/preflight.py) and the errors (errors.py).              *)
(*                                                                         *)
(* A flag, a config key and a feature are words; spec.shell is where the   *)
(* run starts: the operator's arguments, the user's config file, the       *)
(* installed CLI and what amicus last read of its --help.                  *)
(***************************************************************************)
EXTENDS RunRequest, Sequences

Shell == spec.shell
Codex == spec.backend = "codex"
Claude == spec.backend = "claude"
Kimi == spec.backend = "kimi"
Writes == spec.verb = "delegate"
EffortTold == Shell.effort # "none"

-----------------------------------------------------------------------------
(* prepare_run: what is wrong with a call, in the order it is looked at.   *)
Where == Resolution(spec.place)

Checks ==
  <<"options", "backend", "placeholder", "workspace", "effort_shape", "turn_text", "scope", "size">>

RefusalOf ==
  [options |-> "invalid_arguments", backend |-> "backend_unavailable",
   placeholder |-> "unexpanded_env_placeholder", workspace |-> IF there THEN Where.code ELSE "invalid_workspace_root",
   effort_shape |-> "invalid_reasoning_effort", turn_text |-> "invalid_arguments",
   scope |-> "invalid_arguments", size |-> "input_too_large"]

Wrong == Shell.wrong \cup (IF Where.code = "none" /\ there THEN {} ELSE {"workspace"})
Unfit == Wrong # {}
FirstWrong == Checks[Min({i \in DOMAIN Checks : Checks[i] \in Wrong})]

-----------------------------------------------------------------------------
(* The operator's extra arguments: [flag, name, plain], where name is what *)
(* codex reads and plain says it is written that way (not quoted, spaced   *)
(* or in another case).  One that is denied denies them all.               *)
ConfigFlags == {"-c", "--config"}
FeatureFlags == {"--enable", "--disable"}
OwnedFeatures == {"remote_plugin", "sleep_tool", "goals"}

NetworkKey == "sandbox_workspace_write.network_access"
RootsKey == "sandbox_workspace_write.writable_roots"
EffortKey == "model_reasoning_effort"
TurnKey == "developer_instructions"
PluginKeys == {NetworkKey, RootsKey, EffortKey, TurnKey}
FeatureKeys == {"features.remote_plugin", "features.sleep_tool", "features.goals"}
Covers(key, inner) ==
  \/ key = inner
  \/ key = "features" /\ inner \in FeatureKeys
  \/ key = "tools" /\ inner = "tools.web_search"

DeniedKeys ==
  PluginKeys \cup FeatureKeys \cup
  {"sandbox_mode", "approval_policy", "shell_environment_policy", "features",
   "model_instructions_file", "model"}

(* Mutant: a key is compared as it is written.                             *)
NormalAsWritten(entry) == IF entry.plain THEN entry.name ELSE "\"" \o entry.name \o "\""
Normal(entry) == entry.name

IsDenied(entry) ==
  \/ entry.flag \in ConfigFlags /\ Normal(entry) \in DeniedKeys
  \/ entry.flag \in FeatureFlags /\ Normal(entry) \in OwnedFeatures

Passed ==
  LET entries == {Shell.entries[i] : i \in DOMAIN Shell.entries}
  IN  IF Codex /\ \A e \in entries : ~IsDenied(e) THEN entries ELSE {}

OperatorFlags == {e.flag : e \in Passed}
OperatorKeys == {e.name : e \in {p \in Passed : p.flag \in ConfigFlags}}
OperatorFeatures == {e.name : e \in {p \in Passed : p.flag \in FeatureFlags}}
OperatorWords == OperatorFlags \cup {e.name : e \in Passed}
HasProfile == \E e \in Passed : e.flag \in {"-p", "--profile"}
Owns(key) == \E own \in OperatorKeys : Covers(own, key)

-----------------------------------------------------------------------------
(* The config keys a codex run pins: plugin_config_keys_for.               *)
PinnedKeys ==
  {k \in PluginKeys :
     /\ Codex
     /\ k \in {NetworkKey, RootsKey} => Writes
     /\ k = EffortKey => EffortTold
     /\ k = TurnKey => Shell.turn}
IsStrict == Codex /\ PinnedKeys \cup OperatorKeys # {}

(* Who sets a key: the operator's -c come last, and every -c is stronger   *)
(* than a file; a disabled feature is such a key.                          *)
Pins(key) == key \in PinnedKeys \cup FeatureKeys
Setter(key) == IF Owns(key) THEN "operator" ELSE IF Pins(key) THEN "amicus" ELSE "file"

(* claude: the mode and the tools of a run.                                *)
Mode ==
  IF Shell.askedMode # "none" THEN Shell.askedMode
  ELSE IF spec.verb = "adversarial_review" /\ Shell.mode # "bare" THEN "safe"
  ELSE Shell.mode
Access ==
  IF Shell.access # "none" THEN Shell.access
  ELSE IF spec.verb = "review_changes" THEN "readonly" ELSE "toolless"

ModeFlags ==
  {"--no-session-persistence", "--strict-mcp-config", "--mcp-config"} \cup
  CASE Mode = "inherit" -> {} [] Mode = "scoped" -> {"--setting-sources"}
    [] Mode = "safe" -> {"--safe-mode"} [] Mode = "bare" -> {"--bare"}

(* The flags of the three command lines, before what --help does not list  *)
(* is left out.  A reading that failed lists everything.                   *)
WantedFlags ==
  (IF Shell.model THEN {"--model"} ELSE {}) \cup
  CASE Codex ->
         {"--json", "--sandbox", "--cd", "--output-last-message", "--ephemeral", "--disable"} \cup
         (IF PinnedKeys # {} THEN {"-c"} ELSE {}) \cup
         (IF IsStrict THEN {"--strict-config"} ELSE {}) \cup
         (IF Shell.isolation # "inherit" THEN {"--ignore-user-config"} ELSE {}) \cup
         (IF Shell.isolation = "ignore-rules" THEN {"--ignore-rules"} ELSE {}) \cup
         (IF spec.verb = "consult" THEN {"--skip-git-repo-check"} ELSE {}) \cup
         (IF spec.verb = "review_changes" THEN {"--output-schema"} ELSE {})
    [] Claude ->
         {"--output-format", "--no-chrome", "--append-system-prompt", "--max-budget-usd",
          "--tools"} \cup ModeFlags \cup
         (IF Access = "readonly" THEN {"--disallowed-tools"} ELSE {}) \cup
         (IF EffortTold THEN {"--effort"} ELSE {})
    [] Kimi ->
         {"--prompt", "--output-format"} \cup
         (IF Writes THEN {} ELSE {"--agent-file"}) \cup
         (IF Shell.isolation = "ignore-skills" THEN {"--skills-dir"} ELSE {})

GatedFlags ==
  CASE Codex -> {"--model"} [] Claude -> {"--effort", "--model", "--disallowed-tools"}
    [] Kimi -> {"--model", "--skills-dir"}

IsSupported(flag) == Shell.probed => flag \in Shell.lists
Dropped == {f \in WantedFlags \cap GatedFlags : ~IsSupported(f)}
SentFlags == WantedFlags \ Dropped

(* scrub_env, build_run_env: what of the server's environment a child gets. *)
Inherited ==
  Shell.vars \ ((IF Claude /\ Mode # "bare" THEN {"ANTHROPIC_API_KEY"} ELSE {}) \cup
                (IF Kimi THEN {"KIMI_CODE_TRUST_WORKSPACE"} ELSE {}))

(* validate_request: what an adapter refuses before it spends anything.    *)
(* kimi ignores an effort it does not know; an alias its catalog does not  *)
(* list it rejects itself.                                                 *)
Invalid ==
  IF Codex /\ Shell.home = "relative" THEN "user_config_rejected"
  ELSE IF Claude /\ Shell.effort = "odd" THEN "invalid_reasoning_effort"
  ELSE IF Kimi /\ Shell.effort = "odd" /\ ~(Shell.model /\ Shell.catalog = "unlisted") THEN
         "invalid_reasoning_effort"
  ELSE IF Claude /\ Mode = "bare" /\ "ANTHROPIC_API_KEY" \notin Shell.vars THEN "api_key_missing"
  ELSE IF Shell.turn /\ spec.verb \notin {"consult", "review_changes"} THEN "invalid_arguments"
  ELSE "none"

-----------------------------------------------------------------------------
(* What a CLI says as it fails: of what, whose it is, where it was read,   *)
(* and the words of other failures its text may hold.                      *)
Says(kindOf, about, by, where, also) ==
  [says |-> kindOf, about |-> about, by |-> by, where |-> where, also |-> also]
Quiet == Says("other", "nothing", "nobody", "run", {})

OwnerOf(setting) == IF setting.where = "config" THEN "user" ELSE "operator"

(* A file's setting is read unless something stronger sets the key.        *)
IsRead(setting) ==
  CASE setting.where = "argv" -> setting.key \in OperatorKeys
    [] setting.where = "profile" -> HasProfile
    [] OTHER -> Shell.isolation = "inherit"
IsInForce(setting) ==
  /\ IsRead(setting)
  /\ setting.where # "argv" => Setter(setting.key) = "file"
  /\ setting.where = "config" =>
       ~\E s \in Shell.settings : s.where = "profile" /\ s.key = setting.key /\ IsRead(s)

RejectedFlags ==
  {Says("flag", f, IF f \in SentFlags THEN "amicus" ELSE "operator", "argv", {}) :
     f \in (SentFlags \cup OperatorFlags) \cap Shell.gone}

RejectedFeatures ==
  {Says("feature", f, IF f \in OwnedFeatures THEN "amicus" ELSE "operator", "argv", {}) :
     f \in (OwnedFeatures \cup OperatorFeatures) \cap Shell.gone}

RejectedPins ==
  {Says(how, k, "amicus", "argv", also) :
     how \in {"override", "retired", "value"}, k \in PinnedKeys \cap Shell.gone,
     also \in {{}, {"auth", "drift", "rate"}}}

RejectedSettings ==
  {Says(IF s.wrong # "unknown" THEN s.wrong ELSE IF s.where = "argv" THEN "override" ELSE "file",
        s.key, OwnerOf(s), s.where, also) :
     s \in {t \in Shell.settings : IF t.wrong = "unknown" THEN IsStrict /\ IsRead(t)
                                   ELSE IsInForce(t)},
     also \in {{}, {"auth", "drift", "rate"}}}

RejectedAlias ==
  IF Kimi /\ Shell.catalog = "unlisted" /\ "--model" \in SentFlags
  THEN {Says("model", "alias", "caller", "run", {})} ELSE {}

Startup ==
  RejectedFlags \cup RejectedAlias \cup
  IF Codex THEN RejectedFeatures \cup RejectedPins \cup RejectedSettings ELSE {}

(* What becomes of a run that started.                                     *)
Fates == {"other", "auth", "rate", "effort", "key", "budget", "default_model"}
FateOf ==
  [auth |-> "account", key |-> "account", rate |-> "account", budget |-> "caller",
   effort |-> IF EffortTold THEN "caller" ELSE "user", default_model |-> "user"]
Complaints ==
  IF Startup # {} THEN Startup
  ELSE {IF Shell.fate = "other" THEN Quiet
        ELSE Says(Shell.fate, Shell.fate, FateOf[Shell.fate], "run", {})}

-----------------------------------------------------------------------------
(* The three classifiers read a text, not an owner.                        *)
Reads(c) ==
  c.also \cup
  CASE c.says \in {"flag", "feature", "effort"} -> {"drift"}
    [] c.says = "default_model" -> {"model"}
    [] OTHER -> {c.says}

(* codex: a rejected argument is the operator's if the text names it,      *)
(* unless amicus sends the same.                                           *)
DriftCode(c) ==
  LET named == {c.about} \cap OperatorWords
  IN  IF c.says = "effort" /\ EffortTold THEN "invalid_reasoning_effort"
      ELSE IF named # {} /\ ~(PinnedKeys # {} /\ named = {"-c"}) THEN "extra_args_rejected"
      ELSE "cli_contract_changed"

(* Mutant: the substring matchers come before the config grammars.         *)
CodexSubstringsFirst(c) ==
  IF "auth" \in Reads(c) THEN "backend_auth_required"
  ELSE IF "drift" \in Reads(c) THEN DriftCode(c)
  ELSE IF c.says \in {"retired", "value", "file"} THEN "user_config_rejected"
  ELSE "nonzero_exit"

CodexCode(c) ==
  IF c.says = "file" THEN
         IF c.where = "profile" THEN "extra_args_rejected" ELSE "user_config_rejected"
  ELSE IF c.says = "override" THEN
         IF c.about \notin PluginKeys /\ Owns(c.about) THEN "extra_args_rejected"
         ELSE "cli_contract_changed"
  ELSE IF c.says \in {"retired", "value"} THEN
         IF c.about \in PinnedKeys THEN "cli_contract_changed"
         ELSE IF Owns(c.about) THEN "extra_args_rejected" ELSE "user_config_rejected"
  ELSE IF "auth" \in Reads(c) THEN "backend_auth_required"
  ELSE IF "drift" \in Reads(c) THEN DriftCode(c)
  ELSE IF "rate" \in Reads(c) THEN "backend_rate_limited"
  ELSE "nonzero_exit"

ClaudeCode(c) ==
  IF "auth" \in Reads(c) THEN "backend_auth_required"
  ELSE IF "key" \in Reads(c) THEN "api_key_invalid"
  ELSE IF "budget" \in Reads(c) THEN "budget_exceeded"
  ELSE IF "rate" \in Reads(c) THEN "backend_rate_limited"
  ELSE IF "drift" \in Reads(c) THEN "cli_contract_changed"
  ELSE "nonzero_exit"

KimiCode(c) ==
  IF "drift" \in Reads(c) THEN "cli_contract_changed"
  ELSE IF "auth" \in Reads(c) THEN "backend_auth_required"
  ELSE IF "rate" \in Reads(c) THEN "backend_rate_limited"
  ELSE IF "model" \in Reads(c) THEN "invalid_model"
  ELSE "nonzero_exit"

Classified(c) == IF Codex THEN CodexCode(c) ELSE IF Claude THEN ClaudeCode(c) ELSE KimiCode(c)

(* Whom an error sends to work: the repair of its code, of invalid_model   *)
(* the hint; a rejected value whose file codex does not name may be the    *)
(* profile's, which the message says.                                      *)
SentTo(code, c) ==
  CASE code = "extra_args_rejected" -> {"operator"}
    [] code = "cli_contract_changed" -> {"amicus"}
    [] code = "user_config_rejected" ->
         {"user"} \cup (IF c.says \in {"retired", "value"} /\ HasProfile THEN {"operator"} ELSE {})
    [] code \in {"invalid_reasoning_effort", "budget_exceeded"} -> {"caller"}
    [] code \in {"backend_auth_required", "api_key_invalid", "backend_rate_limited"} -> {"account"}
    [] code = "invalid_model" -> {IF c.says = "default_model" THEN "user" ELSE "caller"}
    [] OTHER -> {"nobody"}
=============================================================================
