-------------------------------- MODULE Pricing --------------------------------
(****************************************************************************)
(* penny-cost: the price of a model at a time, and the cost of a usage, in  *)
(* integers at the width of Money.  A price row names its model, the time   *)
(* from which it holds and, as an option, the time until which it does;     *)
(* its rates are micros per Mtok tokens, those of the cache options.        *)
(****************************************************************************)
EXTENDS Integers, Sequences, FiniteSetsExt, Configuration, UsageReports

CONSTANTS
  Mtok,      \* 1_000_000: the tokens a rate is for
  OutputCap, \* 4096: the most output tokens that are estimated
  NotFound, Overflow
ASSUME MtokAssumption == Mtok \in Nat \ {0}
ASSUME CapAssumption == OutputCap \in Nat
ASSUME MarksAssumption == NotFound \notin Int /\ Overflow \notin Int

--------------------------------------------------------------------------------
(* get_price                                                                *)
EffectiveAt(row, at) == row.from <= at /\ (row.until = << >> \/ at < row.until[1])
InForce(prices, model, at) ==
  {i \in DOMAIN prices : prices[i].model = model /\ EffectiveAt(prices[i], at)}

(* The latest start, then the latest id, the position of the row.           *)
GetPrice(prices, model, at) ==
  LET rows == InForce(prices, model, at)
      latest == {i \in rows : \A j \in rows : prices[j].from <= prices[i].from}
  IN IF rows = {} THEN NotFound ELSE prices[Max(latest)]

--------------------------------------------------------------------------------
(* Costs                                                                    *)

(* Mutant: a division without the half that rounds it.                      *)
ProrateDown(tokens, rate) ==
  LET n == tokens * rate
      micros == IF n >= 0 THEN n \div Mtok ELSE -((-n) \div Mtok)
  IN IF micros > MaxMoney \/ micros < -MaxMoney - 1 THEN Overflow ELSE micros

(* prorate_mtok, in i128, and then at the width of i64.                     *)
Prorate(tokens, rate) ==
  LET n == tokens * rate
      half == Mtok \div 2
      micros == IF n >= 0 THEN (n + half) \div Mtok ELSE -((half - n) \div Mtok)
  IN IF micros > MaxMoney \/ micros < -MaxMoney - 1 THEN Overflow ELSE micros

Add(a, b) == IF a = Overflow \/ b = Overflow THEN Overflow
             ELSE IF a + b > MaxMoney \/ a + b < -MaxMoney - 1 THEN Overflow ELSE a + b

OrInput(price, rate) == IF rate = << >> THEN price.input ELSE rate[1]

(* calculate_with_cache, its rates in the order they are added.             *)
Calculate(prices, model, use, at) ==
  LET p == GetPrice(prices, model, at)
      read == Prorate(use.read, OrInput(p, p.cacheRead))
      write == Prorate(use.write, OrInput(p, p.cacheWrite))
  IN IF use.input = 0 /\ use.read = 0 /\ use.write = 0 /\ use.output = 0 THEN 0
     ELSE IF p = NotFound THEN NotFound
     ELSE Add(Add(Add(Prorate(use.input, p.input), read), write), Prorate(use.output, p.output))

--------------------------------------------------------------------------------
(* Estimates                                                                *)

(* estimate_output_tokens: three tenths, to the nearest, up to the cap.     *)
OutputTokens(input) == Min({(3 * input + 5) \div 10, OutputCap})

(* estimate_range, in tenths of a micro: rounds and margin of each task.    *)
Task == [single_pass |-> [rounds |-> 1, margin |-> 3],
         multi_round |-> [rounds |-> 3, margin |-> 5],
         agent_task  |-> [rounds |-> 5, margin |-> 10]]
EstimateRange(prices, model, context, task, at) ==
  LET use == [input |-> context, read |-> 0, write |-> 0,
              output |-> OutputTokens(context)]
      round == Calculate(prices, model, use, at)
      center == Task[task].rounds * round
  IN IF round \in {NotFound, Overflow} THEN round
     ELSE [min |-> Max({center * (10 - Task[task].margin), 0}),
           max |-> center * (10 + Task[task].margin)]

(* run_estimate: the budgets are asked for the maximum, read as dollars.    *)
AskedFor(range) == FromUsd(range.max)
================================================================================
