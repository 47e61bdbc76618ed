---------------------------- MODULE MCOperatorSetup ----------------------------
(* The default file and two presets of the repository, files an operator    *)
(* may leave behind, and the pricebooks of two versions of the program.     *)
(* Amounts are small: a limit of 305 tenths stands for one that rounds.     *)
EXTENDS OperatorSetup

CONSTANTS c1, server

Budget(key, hard, soft) == [key |-> key, hard |-> hard, soft |-> soft]
MonthDay(hard, soft, day) == << <<Budget("month", <<hard>>, <<soft>>), Budget("day", <<day>>, << >>)>> >>
Provider(url, key, format) ==
  [enabled |-> TRUE, base_url |-> url, api_key_env |-> key, api_format |-> format]

TheDefault ==
  [set |-> [server |-> [bind |-> "127.0.0.1:8585", admin_socket |-> "admin.sock",
                        database_path |-> "penny.db", mode |-> "guard",
                        max_inflight_requests |-> 64, upstream_timeout_ms |-> 60000],
            defaults |-> [provider |-> "anthropic", model |-> "sonnet"],
            attribution |-> [auto_detect_project |-> TRUE, session_window_minutes |-> 30],
            anthropic |-> Provider("https://a", "ANTHROPIC_API_KEY", "anthropic"),
            openai |-> Provider("https://o", "OPENAI_API_KEY", "openai"),
            detect |-> [enabled |-> TRUE, burn_rate_alert_usd_per_hour |-> 10,
                        loop_window_seconds |-> 120,
                        loop_threshold_similar_requests |-> 8, loop_action |-> "pause"],
            cleanup |-> CleanupDefaults],
   budgets |-> MonthDay(305, 204, 100)]

Preset(mode, model, lists) ==
  [set |-> [server |-> [mode |-> mode], defaults |-> [provider |-> "anthropic", model |-> model]],
   budgets |-> lists]
TheTemplates ==
  [team |-> Preset("guard", "sonnet", MonthDay(1000, 700, 200)),
   explore |-> Preset("observe", "haiku", << <<Budget("month", << >>, <<100>>)>> >>)]
ThePresetModels == {"sonnet", "haiku"}

Listing(list) == [set |-> << >>, budgets |-> <<list>>]
Edited ==
  [set |-> [server |-> [database_path |-> "other.db"],
            defaults |-> [provider |-> "openai", model |-> "gpt"],
            anthropic |-> [enabled |-> FALSE]], budgets |-> << >>]
TheEdits ==
  {Edited,
   Listing(<<Budget("month", <<4>>, <<3>>), Budget("day", <<NotANumber>>, << >>)>>),
   Listing(<<Budget("month", <<100>>, <<104>>)>>),
   Listing(<<Budget("day", <<50>>, << >>), Budget("day", <<2000>>, <<95>>)>>)}
TwoEdits == {Failed, Edited}

Env(variables, keys, filters, path) ==
  [vars |-> variables, secrets |-> keys, log |-> filters, database |-> path]
TheEnvironments ==
  {Env(<< >>, {"ANTHROPIC_API_KEY"}, <<Blank, Blank, Failed>>, << >>),
   Env(<< >>, {"ANTHROPIC_API_KEY"}, <<Blank, "debug", Failed>>, << >>),
   Env(<<"server", "mode">> :> "observe", {"OPENAI_API_KEY"}, <<Blank, Blank, Blank>>, <<"other.db">>),
   Env(<<"server", "mode">> :> Failed, {}, << >>, << >>)}
TheServeArgs ==
  {[is |-> "serve", mock |-> FALSE, bind |-> << >>, socket |-> << >>],
   [is |-> "serve", mock |-> TRUE, bind |-> <<"127.0.0.1:9000">>, socket |-> <<"127.0.0.1:8586">>]}
TheBudgetIds == 0..2
TheBudgetArgs == {Budget("day", <<100>>, <<300>>)}

Entry(model, rates, cache, from, until) ==
  [model |-> model, input |-> rates[1], output |-> rates[2], cacheRead |-> cache[1],
   cacheWrite |-> cache[2], from |-> from, until |-> until]
Anthropic(entries) == [provider |-> "anthropic", entries |-> entries]
OpenAi(entries) == [provider |-> "openai", entries |-> entries]
TheBooks ==
  {<<Anthropic(<<Entry("sonnet", <<7, 13>>, << <<1>>, <<9>> >>, 0, <<1>>),
                 Entry("haiku", <<3, 5>>, << << >>, << >> >>, 0, << >>)>>),
     OpenAi(<<Entry("gpt", <<2, 8>>, << <<1>>, <<2>> >>, 1, << >>)>>)>>,
   <<Anthropic(<<Entry("sonnet", <<6, 11>>, << << >>, << >> >>, 1, << >>)>>)>>}

Message(input, output) == [input_tokens |-> input, output_tokens |-> output]
CachedMessage(input, read, write, output) ==
  [input_tokens |-> input, output_tokens |-> output,
   cache_read_input_tokens |-> read, cache_creation_input_tokens |-> write]
Completion(prompt, cached, output) ==
  [prompt_tokens |-> prompt, completion_tokens |-> output, cached_tokens |-> cached]
Used(input, read, write, output) ==
  [input |-> input, read |-> read, write |-> write, output |-> output]
Answer(from, ingress, report) ==
  [from |-> from, ingress |-> ingress, report |-> report,
   estimate |-> [input |-> 3, output |-> 1]]
TheAnswers ==
  {Answer("anthropic", "anthropic", CachedMessage(i, 4, w, o)) :
     i \in {0, 3}, w \in {0, 7}, o \in {0, 5}}
  \cup {Answer("anthropic", "openai", r) : r \in {Message(15, 4), CachedMessage(3, 4, 7, 5), << >>}}
  \cup {Answer("openai", "openai", r) :
          r \in {Completion(7, 4, 5), Completion(4, 4, 0), Completion(15, 0, 33)}}
  \cup {Answer("openai", "anthropic", Completion(7, 4, 5))}
  \cup {Answer(from, from, << >>) : from \in {"anthropic", "openai"}}
  \cup {Answer("mock", form, Used(3, 4, 7, 5)) : form \in {"anthropic", "openai"}}
  \cup {Answer("mock", "openai", Used(0, 0, 0, 0))}
================================================================================
