----------------------------- MODULE Configuration -----------------------------
(****************************************************************************)
(* penny-config: what a process makes of the default file, the operator's   *)
(* file and its environment.  A layer is what one of them says: for some    *)
(* sections (`set`) some of their keys, and perhaps a list of budgets       *)
(* (`budgets` holds at most one list).  Numbers are the digits of the file: *)
(* an amount is in tenths of a micro-dollar, or NotANumber.                 *)
(****************************************************************************)
EXTENDS Integers, Sequences, TLC

CONSTANTS
  MaxMoney,   \* i64::MAX, the largest Money in micros
  Failed,     \* the result of reading what does not parse, and of what fails
  NotANumber  \* an amount that is not one, which TOML can write
ASSUME MaxMoneyAssumption == MaxMoney \in Nat

Blank == ""

ServerKeys == {"bind", "admin_socket", "database_path", "mode",
               "max_inflight_requests", "upstream_timeout_ms"}
ServerDefaults == [max_inflight_requests |-> 64, upstream_timeout_ms |-> 60000]
DefaultsKeys == {"provider", "model"}
AttributionKeys == {"auto_detect_project", "session_window_minutes"}
ProviderKeys == {"enabled", "base_url", "api_key_env", "api_format"}
DetectKeys == {"enabled", "burn_rate_alert_usd_per_hour", "loop_window_seconds",
               "loop_threshold_similar_requests", "loop_action"}
CleanupDefaults == [strip_ansi |-> TRUE, minify_json |-> FALSE]

Providers == {"anthropic", "openai"}
Sections == [server |-> ServerKeys, defaults |-> DefaultsKeys,
             attribution |-> AttributionKeys, anthropic |-> ProviderKeys,
             openai |-> ProviderKeys, detect |-> DetectKeys,
             cleanup |-> DOMAIN CleanupDefaults]
Optional == [server |-> ServerDefaults, cleanup |-> CleanupDefaults]

Nothing == [set |-> << >>, budgets |-> << >>]
Says(layer, s, k) == s \in DOMAIN layer.set /\ k \in DOMAIN layer.set[s]

--------------------------------------------------------------------------------
(* Logging                                                                  *)

(* resolve_observe_config: the filter of the command line, that of the two  *)
(* variables, or the default of the program; Failed does not parse.         *)
LogFilter(candidates) ==
  LET given == SelectSeq(candidates, LAMBDA filter : filter # Blank)
  IN IF given = << >> THEN "info" ELSE Head(given)

--------------------------------------------------------------------------------
(* Merging                                                                  *)

(* The keys of both; those of `over` come first.                            *)
Over(over, base) ==
  [k \in DOMAIN over \cup DOMAIN base |-> IF k \in DOMAIN over THEN over[k] ELSE base[k]]

(* Mutant: a key that an earlier layer has is kept.                         *)
MergeMissing(base, over) ==
  LET keys(layer, s) == IF s \in DOMAIN layer.set THEN layer.set[s] ELSE << >> IN
  [set |-> [s \in DOMAIN base.set \cup DOMAIN over.set |-> Over(keys(base, s), keys(over, s))],
   budgets |-> IF base.budgets = << >> THEN over.budgets ELSE base.budgets]

(* merge_from: key by key in a section, and the budgets as a whole.         *)
Merge(base, over) ==
  LET keys(layer, s) == IF s \in DOMAIN layer.set THEN layer.set[s] ELSE << >> IN
  [set |-> [s \in DOMAIN base.set \cup DOMAIN over.set |-> Over(keys(over, s), keys(base, s))],
   budgets |-> IF over.budgets = << >> THEN base.budgets ELSE over.budgets]

(* The variables that override a setting, and those that are parsed.        *)
EnvKeys == {<<"server", "bind">>, <<"server", "mode">>, <<"defaults", "provider">>,
            <<"defaults", "model">>, <<"attribution", "auto_detect_project">>,
            <<"attribution", "session_window_minutes">>,
            <<"cleanup", "strip_ansi">>, <<"cleanup", "minify_json">>}
EnvLayer(vars) ==
  [set |-> [s \in {key[1] : key \in DOMAIN vars} |->
              [k \in {key[2] : key \in {x \in DOMAIN vars : x[1] = s}} |-> vars[<<s, k>>]]],
   budgets |-> << >>]

(* require_all                                                              *)
Missing(layer) ==
  \/ layer.budgets = << >>
  \/ \E s \in DOMAIN Sections \ {"cleanup"} :
       \E k \in Sections[s] : ~Says(layer, s, k) /\ ~Says([set |-> Optional], s, k)

Complete(layer) == [Merge([set |-> Optional, budgets |-> << >>], layer)
                      EXCEPT !.budgets = Head(@)]

--------------------------------------------------------------------------------
(* Validation                                                               *)

ValidProvider(p) ==
  p.enabled => p.base_url # Blank /\ p.api_key_env # Blank /\ p.api_format # Blank

(* An amount that is not a number passes every comparison; None is << >>.   *)
Positive(limit) == \A v \in {limit[i] : i \in DOMAIN limit} : v = NotANumber \/ v > 0
Ordered(soft, hard) ==
  (soft # << >> /\ hard # << >> /\ soft[1] # NotANumber /\ hard[1] # NotANumber)
    => soft[1] <= hard[1]

ValidBudget(b) == Positive(b.hard) /\ Positive(b.soft) /\ Ordered(b.soft, b.hard)

(* validate_config.  No budget has a blank scope here: a key is a scope and *)
(* a window, and ValidBudget is about its amounts.                          *)
Valid(c) ==
  /\ c.set.server.bind # Blank
  /\ c.set.server.max_inflight_requests # 0 /\ c.set.server.upstream_timeout_ms # 0
  /\ c.set.attribution.session_window_minutes # 0
  /\ \A p \in Providers : ValidProvider(c.set[p])
  /\ \E p \in Providers : c.set[p].enabled
  /\ c.budgets # << >>
  /\ \A i \in DOMAIN c.budgets : ValidBudget(c.budgets[i])

(* load_config of a process with the variables `vars` that reads `file`.    *)
Loaded(default, file, vars) ==
  LET merged == Merge(Merge(default, file), EnvLayer(vars)) IN
  IF file = Failed \/ (\E key \in DOMAIN vars : vars[key] = Failed) THEN Failed
  ELSE IF Missing(merged) THEN Failed
  ELSE IF Valid(Complete(merged)) THEN Complete(merged) ELSE Failed

--------------------------------------------------------------------------------
(* What a serving process takes of it                                       *)

(* Rounded to the nearest, halves away from zero, as f64::round does.       *)
Micros(v) == IF v >= 0 THEN (v + 5) \div 10 ELSE -((5 - v) \div 10)
FromUsd(v) ==
  IF v = NotANumber THEN Failed
  ELSE IF Micros(v) > MaxMoney \/ Micros(v) < -MaxMoney - 1 THEN Failed ELSE Micros(v)

(* The limit of a row: of an option, the option of its micros.              *)
LimitOf(limit) == IF limit = << >> THEN << >> ELSE <<FromUsd(limit[1])>>

(* map_config_budget                                                        *)
Converts(b) == LimitOf(b.hard) # <<Failed>> /\ LimitOf(b.soft) # <<Failed>>
BudgetRow(b) == [key |-> b.key, hard |-> LimitOf(b.hard), soft |-> LimitOf(b.soft)]

(* read_required_env: the named variable is set, and not blank.             *)
HasKey(provider, secrets) == provider.api_key_env \in secrets

(* build_runtime_provider, of a process that has the keys `secrets`.        *)
ProviderStarts(c, secrets) ==
  /\ c.set.defaults.model # Blank
  /\ c.set.defaults.provider \in Providers
  /\ LET p == c.set[c.set.defaults.provider] IN p.enabled /\ HasKey(p, secrets)
================================================================================
