----------------------------- MODULE UsageReports ------------------------------
(****************************************************************************)
(* penny-providers and penny-proxy: from the usage that a provider reports  *)
(* with a whole answer to the four counts that are billed.  A report is a   *)
(* function from the fields it has to their counts; one without a usage has *)
(* none.  Streams have their own usage, in StreamRelay.                     *)
(****************************************************************************)
EXTENDS Integers, FiniteSetsExt

Count(report, field) == IF field \in DOMAIN report THEN report[field] ELSE 0
Has(report, fields) == fields \subseteq DOMAIN report

--------------------------------------------------------------------------------
(* The answers that a handler sees                                          *)

(* map_non_stream_response: Anthropic's answer to a client of OpenAI's form *)
(* has the two counts, zero if unreported, and no counts of the cache.      *)
Translated(report) == [prompt_tokens |-> Count(report, "input_tokens"),
                       completion_tokens |-> Count(report, "output_tokens")]

(* completion_payload of the mock provider, of a configured usage.          *)
MockCompletion(ingress, use) ==
  IF ingress = "openai"
  THEN [prompt_tokens |-> use.input + use.read, completion_tokens |-> use.output,
        cached_tokens |-> use.read]
  ELSE [input_tokens |-> use.input, output_tokens |-> use.output,
        cache_read_input_tokens |-> use.read, cache_creation_input_tokens |-> use.write]

(* What `send` gives of an answer: its provider, the form of its client,    *)
(* and the provider's report, which of the mock is the configured usage.    *)
Sent(answer) ==
  CASE answer.from = "mock" -> MockCompletion(answer.ingress, answer.report)
    [] answer.from = "anthropic" /\ answer.ingress = "openai" -> Translated(answer.report)
    [] OTHER -> answer.report

--------------------------------------------------------------------------------
(* The usage that is billed                                                 *)

(* Anthropic's input tokens are those that are not cached.                  *)
FromMessage(report) ==
  [input |-> report["input_tokens"], output |-> report["output_tokens"],
   read |-> Count(report, "cache_read_input_tokens"),
   write |-> Count(report, "cache_creation_input_tokens")]

(* OpenAI's cached tokens are among those of the prompt.                    *)
FromCompletion(report) ==
  LET read == Min({Count(report, "cached_tokens"), report["prompt_tokens"]}) IN
  [input |-> report["prompt_tokens"] - read, output |-> report["completion_tokens"],
   read |-> read, write |-> 0]

Estimated(estimate) ==
  [input |-> estimate.input, output |-> estimate.output, read |-> 0, write |-> 0]

(* provider_usage_from_response, by the form of the client, or the estimate *)
(* that the request was admitted with.                                      *)
UsageOf(answer) ==
  LET report == Sent(answer) IN
  IF answer.ingress = "anthropic" /\ Has(report, {"input_tokens", "output_tokens"})
  THEN FromMessage(report)
  ELSE IF answer.ingress = "openai" /\ Has(report, {"prompt_tokens", "completion_tokens"})
  THEN FromCompletion(report)
  ELSE Estimated(answer.estimate)
================================================================================
