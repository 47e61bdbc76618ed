----------------------------- MODULE OperatorSetup -----------------------------
(****************************************************************************)
(* How a deployment gets its configuration, its budgets and its prices: an  *)
(* operator's commands (init, budget set, budget reset, prices update) and  *)
(* the budgets posted to the admin plane, beside a process that serves, on  *)
(* one configuration file and the databases it names.  Every process reads  *)
(* the file when it opens its store, and serve and prices update read it    *)
(* again; any of them may end at any step.  At most one process serves.     *)
(****************************************************************************)
EXTENDS Pricing, SequencesExt

CONSTANTS
  Commands, Server,   \* processes: command lines (or handlers of the admin
                      \* plane), and the one that serves
  DefaultFile,        \* config/default.toml
  Templates,          \* preset |-> the file `init` writes
  PresetModels,       \* the default models of the embedded presets
  Edits,              \* what an operator may leave in the file; Failed if unreadable
  Environments,       \* of a process: its variables, the keys that are set, the
                      \* log filters of its command line and variables, and
                      \* the database of its command line, if there is one
  Books,              \* the embedded pricebooks of the versions of the program
  ServeArgs,          \* of `serve`: mock or not, and options of two addresses
  BudgetArgs,         \* that are set or posted: a key, a hard and a soft limit
  BudgetIds,          \* that a post may name; 0 if it names none
  Answers,            \* of providers, whose cost is looked at
  Absent,
  MaxRuns, MaxRows, MaxNow \* bounds: processes started, price rows, the clock

VARIABLES
  now,
  file,     \* the operator's file
  budgets,  \* of each database: its rows by id, << >> once deleted
  touched,  \* history, of each database: the keys whose rows an operator has
            \* changed since the server last looked for them
  catalog,  \* of each database: the providers and models it knows
  prices,   \* of each database: its pricebook_entries, by id
  process,
  runs      \* how many processes were started

tables == <<budgets, touched>>
db == <<tables, catalog, prices>>
vars == <<now, file, db, process, runs>>

Databases == {"penny.db", "other.db"}
Procs == Commands \cup {Server}
ASSUME ServerAssumption == Server \notin Commands
ASSUME ServeArgsAssumption == \A cmd \in ServeArgs : cmd.is = "serve"

(* What a file states: at most one list of budgets, whose limits are        *)
(* amounts or absent; and the databases are those that anything names.      *)
Layers == ({DefaultFile} \cup Edits \cup Range(Templates)) \ {Failed}
Listed == UNION {Range(list) : list \in UNION {Range(layer.budgets) : layer \in Layers}}
IsLimit(limit) ==
  limit = << >> \/ (limit = <<limit[1]>> /\ (limit[1] = NotANumber \/ limit[1] \in Int))
ASSUME FilesAssumption ==
  /\ DefaultFile # Failed
  /\ \A layer \in Layers :
       /\ layer.budgets \in Seq(Seq(Listed)) /\ Len(layer.budgets) <= 1
       /\ Says(layer, "server", "database_path") =>
            layer.set["server"]["database_path"] \in Databases
  /\ \A b \in Listed : IsLimit(b.hard) /\ IsLimit(b.soft)
ASSUME EnvironmentsAssumption ==
  \A env \in Environments :
    DOMAIN env.vars \subseteq EnvKeys /\ env.database \in Seq(Databases)
Gone == [at |-> "gone", cmd |-> [is |-> "none"], env |-> [vars |-> << >>, secrets |-> {}],
         opened |-> Nothing, db |-> "none", read |-> Nothing, bind |-> Blank, socket |-> Blank,
         todo |-> << >>, found |-> 0]

Init ==
  /\ now = 0 /\ file = Absent /\ runs = 0
  /\ budgets = [d \in Databases |-> << >>] /\ touched = [d \in Databases |-> {}]
  /\ catalog = [d \in Databases |-> {}]
  /\ prices = [d \in Databases |-> << >>]
  /\ process = [p \in Procs |-> Gone]

Becomes(p, state) == process' = [process EXCEPT ![p] = state]
Goto(p, at) == process' = [process EXCEPT ![p].at = at]
End(p) == Becomes(p, Gone)

(* load_config, with a file that need not exist.                            *)
Content == IF file = Absent THEN Nothing ELSE file
Config(read, env) == Loaded(DefaultFile, read, env.vars)

(* An option of the command line, or what it leaves to the configuration.   *)
OrElse(option, other) == IF option # << >> THEN option[1] ELSE other

(* The process starts with its logging and open_store, whatever its command *)
(* is: the database of the configuration, unless the command line has one.  *)
Invoke(p, cmd, env) ==
  LET config == Config(Content, env)
      given == env.database # << >>
  IN
  /\ process[p].at = "gone" /\ runs < MaxRuns /\ runs' = runs + 1
  /\ LogFilter(env.log) # Failed /\ (given \/ config # Failed)
  /\ Becomes(p, [Gone EXCEPT !.at = cmd.is, !.cmd = cmd, !.env = env, !.opened = Content,
                             !.db = OrElse(env.database, config.set.server.database_path)])
  /\ UNCHANGED <<now, file, db>>

(* The process is killed, or a call of it fails: what it did stays done.    *)
(* With the one that serves end the handlers of its admin plane.            *)
Ends(p) ==
  /\ process[p].at # "gone"
  /\ process' = [q \in Procs |->
       IF q = p \/ (p = Server /\ process[q].cmd.is = "post") THEN Gone ELSE process[q]]
  /\ UNCHANGED <<now, file, db, runs>>

--------------------------------------------------------------------------------
(* BudgetRepo::upsert, in statements of its own                             *)

RowsOf(table, key) == {id \in DOMAIN table : table[id] # << >> /\ table[id].key = key}

(* The table becomes another one; of an operator's change, the keys are     *)
(* noted of the rows that it changes, before and after.                     *)
Changes(p, table) ==
  LET d == process[p].db
      old == budgets[d]
      changed == {id \in DOMAIN table : id \in DOMAIN old => table[id] # old[id]}
      rows == {old[id] : id \in changed \cap DOMAIN old} \cup {table[id] : id \in changed}
  IN
  /\ budgets' = [budgets EXCEPT ![d] = table]
  /\ touched' = IF p = Server THEN touched
                ELSE [touched EXCEPT ![d] = @ \cup {row.key : row \in rows \ {<< >>}}]

(* With an id, the row that has it is all changed, its key too.             *)
UpdateById(p) ==
  LET id == process[p].cmd.id
      table == budgets[process[p].db]
  IN
  /\ process[p].at = "move"
  /\ IF id \in DOMAIN table /\ table[id] # << >>
     THEN Changes(p, [table EXCEPT ![id] = BudgetRow(process[p].cmd.budget)]) /\ End(p)
     ELSE UNCHANGED tables /\ Goto(p, "post")
  /\ UNCHANGED <<now, file, catalog, prices, runs>>

(* SELECT id ... LIMIT 1: of one budget of the configuration after another, *)
(* or of the budget that is set or posted.                                  *)
Wanted(p) == IF p = Server THEN Head(process[p].todo) ELSE process[p].cmd.budget

FindBudget(p) ==
  LET d == process[p].db
      same == RowsOf(budgets[d], Wanted(p).key)
  IN
  /\ process[p].at \in {"seed", "set", "post"}
  /\ p = Server => process[p].todo # << >>
  /\ IF ~Converts(Wanted(p)) THEN End(p) /\ UNCHANGED touched
     ELSE /\ \E id \in IF same = {} THEN {0} ELSE same :
               Becomes(p, [process[p] EXCEPT !.at = "put", !.found = id])
          /\ touched' = IF p = Server THEN [touched EXCEPT ![d] = @ \ {Wanted(p).key}] ELSE touched
  /\ UNCHANGED <<now, file, budgets, catalog, prices, runs>>

(* An INSERT, or an UPDATE of the row that was found, if it is still there, *)
(* whatever its key is by now.                                              *)
PutBudget(p) ==
  LET table == budgets[process[p].db]
      row == BudgetRow(Wanted(p))
      id == process[p].found
  IN
  /\ process[p].at = "put"
  /\ Changes(p, IF id = 0 THEN Append(table, row)
                ELSE IF table[id] = << >> THEN table
                ELSE [table EXCEPT ![id] = [row EXCEPT !.key = table[id].key]])
  /\ IF p = Server THEN Becomes(p, [process[p] EXCEPT !.at = "seed", !.todo = Tail(@)]) ELSE End(p)
  /\ UNCHANGED <<now, file, catalog, prices, runs>>

(* run_budget_reset, of a budget that no request has used.                  *)
ResetBudget(p) ==
  LET table == budgets[process[p].db]
      gone == RowsOf(table, process[p].cmd.key)
  IN
  /\ process[p].at = "reset" /\ End(p)
  /\ Changes(p, [id \in DOMAIN table |-> IF id \in gone THEN << >> ELSE table[id]])
  /\ UNCHANGED <<now, file, catalog, prices, runs>>

--------------------------------------------------------------------------------
(* serve: run_serve_with_shutdown                                           *)

(* The second reading, and the provider.                                    *)
LoadRuntime(p) ==
  LET config == Config(Content, process[p].env)
      cmd == process[p].cmd
  IN
  /\ process[p].at = "serve"
  /\ IF config # Failed /\ (cmd.mock \/ ProviderStarts(config, process[p].env.secrets))
     THEN Becomes(p, [process[p] EXCEPT !.at = "seed", !.read = Content, !.todo = config.budgets,
                                        !.bind = OrElse(cmd.bind, config.set.server.bind),
                                        !.socket = OrElse(cmd.socket, config.set.server.admin_socket)])
     ELSE End(p)
  /\ UNCHANGED <<now, file, db, runs>>

(* seed_budgets_from_runtime_config is done.                                *)
StartServing(p) ==
  /\ process[p].at = "seed" /\ process[p].todo = << >> /\ Goto(p, "serving")
  /\ UNCHANGED <<now, file, db, runs>>

(* A handler of the admin plane: post_budgets, of amounts that parse.       *)
PostBudget(c, cmd) ==
  /\ process[Server].at = "serving"
  /\ process[c].at = "gone" /\ runs < MaxRuns /\ runs' = runs + 1
  /\ Converts(cmd.budget)
  /\ Becomes(c, [Gone EXCEPT !.at = IF cmd.id > 0 THEN "move" ELSE "post", !.cmd = cmd,
                             !.db = process[Server].db])
  /\ UNCHANGED <<now, file, db>>

--------------------------------------------------------------------------------
(* init and edits of the file                                               *)

(* run_init: fs::write empties the file before it writes it.                *)
EmptyTarget(p) ==
  /\ process[p].at = "init"
  /\ IF file # Absent /\ ~process[p].cmd.force THEN End(p) /\ UNCHANGED file
     ELSE file' = Nothing /\ Goto(p, "write")
  /\ UNCHANGED <<now, db, runs>>

WriteTarget(p) ==
  /\ process[p].at = "write"
  /\ file' = Templates[process[p].cmd.preset] /\ End(p)
  /\ UNCHANGED <<now, db, runs>>

EditFile(layer) ==
  /\ file # layer /\ file' = layer
  /\ UNCHANGED <<now, db, process, runs>>

--------------------------------------------------------------------------------
(* prices update                                                            *)

Entries(book) == FlattenSeq([i \in DOMAIN book |-> book[i].entries])
Models(rows) == {rows[i].model : i \in DOMAIN rows}

PriceRows == UNION {Range(Entries(book)) : book \in Books}
ASSUME BooksAssumption == \A book \in Books : Entries(book) \in Seq(PriceRows)

(* The rates of the embedded pricebooks are not negative.                   *)
IsRate(rate) == rate = << >> \/ (rate = <<rate[1]>> /\ rate[1] \in Nat)
ASSUME RatesAssumption ==
  \A row \in PriceRows :
    /\ row # NotFound /\ row.from \in Int
    /\ row.input \in Nat /\ row.output \in Nat
    /\ IsRate(row.cacheRead) /\ IsRate(row.cacheWrite)

(* The models that must have a price: those of the presets, and that of the *)
(* configuration when it can be read.                                       *)
Guarded(env) ==
  LET config == Config(Content, env) IN
  PresetModels \cup IF config = Failed THEN {} ELSE {config.set.defaults.model}

Resolvable(models, d, book) == models \subseteq Models(Entries(book)) \cup Models(prices[d])

(* The upserts of a file: its provider, then the model of each entry.       *)
Registrations(book) ==
  FlattenSeq([i \in DOMAIN book |->
    <<book[i].provider>> \o [j \in DOMAIN book[i].entries |-> book[i].entries[j].model]])

ValidateUpdate(p) ==
  LET book == process[p].cmd.book IN
  /\ process[p].at = "update"
  /\ IF Resolvable(Guarded(process[p].env), process[p].db, book)
     THEN Becomes(p, [process[p] EXCEPT !.at = "register", !.todo = Registrations(book)])
     ELSE End(p)
  /\ UNCHANGED <<now, file, db, runs>>

(* Each upsert is a transaction of its own.                                 *)
Register(p) ==
  /\ process[p].at = "register" /\ process[p].todo # << >>
  /\ catalog' = [catalog EXCEPT ![process[p].db] = @ \cup {Head(process[p].todo)}]
  /\ process' = [process EXCEPT ![p].todo = Tail(@)]
  /\ UNCHANGED <<now, file, tables, prices, runs>>

(* Mutant: the entries of each file are a transaction of their own.         *)
ImportByFile(p) ==
  LET book == process[p].cmd.book
      d == process[p].db
  IN
  /\ process[p].at = "register" /\ process[p].todo = << >> /\ Len(prices[d]) < MaxRows
  /\ IF Len(book) = 1 THEN End(p)
     ELSE Becomes(p, [process[p] EXCEPT !.cmd.book = Tail(book)])
  /\ prices' = [prices EXCEPT ![d] = @ \o book[1].entries]
  /\ UNCHANGED <<now, file, tables, catalog, runs>>

(* PricebookRepo::import: all entries in one transaction.                   *)
Import(p) ==
  LET d == process[p].db
      rows == Entries(process[p].cmd.book)
  IN
  /\ process[p].at = "register" /\ process[p].todo = << >> /\ Len(prices[d]) < MaxRows
  /\ Models(rows) \subseteq catalog[d]
  /\ prices' = [prices EXCEPT ![d] = @ \o rows]
  /\ End(p)
  /\ UNCHANGED <<now, file, tables, catalog, runs>>

Tick == now < MaxNow /\ now' = now + 1 /\ UNCHANGED <<file, db, process, runs>>

--------------------------------------------------------------------------------
Calls == [is : {"init"}, preset : DOMAIN Templates, force : BOOLEAN]
         \cup [is : {"set"}, budget : BudgetArgs]
         \cup [is : {"reset"}, key : {b.key : b \in Listed}]
         \cup [is : {"update"}, book : Books]
Posts == [is : {"post"}, id : BudgetIds, budget : BudgetArgs]

Next ==
  \/ \E env \in Environments :
       \/ \E cmd \in ServeArgs : Invoke(Server, cmd, env)
       \/ \E c \in Commands, cmd \in Calls : Invoke(c, cmd, env)
  \/ \E c \in Commands, cmd \in Posts : PostBudget(c, cmd)
  \/ LoadRuntime(Server) \/ FindBudget(Server) \/ PutBudget(Server) \/ StartServing(Server)
  \/ \E c \in Commands :
       \/ EmptyTarget(c) \/ WriteTarget(c)
       \/ UpdateById(c) \/ FindBudget(c) \/ PutBudget(c) \/ ResetBudget(c)
       \/ ValidateUpdate(c) \/ Register(c) \/ Import(c)
  \/ \E p \in Procs : Ends(p)
  \/ \E layer \in Edits : EditFile(layer)
  \/ Tick

Spec == Init /\ [][Next]_vars

--------------------------------------------------------------------------------
(* Properties                                                               *)

(* The setting that the topmost of variables, file and defaults states, or  *)
(* its default in the program, to a process that has read the file.         *)
Topmost(read, env, s, k) ==
  CASE <<s, k>> \in DOMAIN env.vars -> env.vars[<<s, k>>]
    [] <<s, k>> \notin DOMAIN env.vars /\ Says(read, s, k) -> read.set[s][k]
    [] <<s, k>> \notin DOMAIN env.vars /\ ~Says(read, s, k) /\ Says(DefaultFile, s, k)
         -> DefaultFile.set[s][k]
    [] OTHER -> Optional[s][k]

(* To half a micro-dollar, an option of an amount is that of a limit.       *)
Amounts(limit, row) ==
  /\ Len(limit) = Len(row)
  /\ \A i \in DOMAIN limit : 10 * row[i] - limit[i] \in -5..5

(* A row has the key and the limits of a configured budget.                 *)
Enforced(b, table) ==
  \E id \in RowsOf(table, b.key) :
    LET row == table[id] IN
    /\ Amounts(b.hard, row.hard) /\ Amounts(b.soft, row.soft)
    /\ row.hard # << >> => row.hard[1] >= 0
    /\ (row.hard # << >> /\ row.soft # << >>) => row.soft[1] <= row.hard[1]

(* A process that serves does so with every setting of the topmost source   *)
(* that states it, at the addresses of its command line before those, with  *)
(* an enabled provider whose key is set, and with all configured budgets in *)
(* the table of its database, to half a micro-dollar and their soft limits  *)
(* within the hard ones: whatever starts failed or were cut short before,   *)
(* unless an operator has set, reset or posted a budget of that key since   *)
(* the server looked for it.  Its database is that of its command line, or  *)
(* the topmost one of the file as it was opened, which is another reading   *)
(* than that of all else: an edit between them gives it the old database.   *)
ServedAsConfigured ==
  LET p == process[Server]
      config == Config(p.read, p.env)
      stated(s, k) == Topmost(p.read, p.env, s, k)
      lists == IF p.read.budgets # << >> THEN p.read.budgets[1] ELSE DefaultFile.budgets[1]
      chosen == stated("defaults", "provider")
  IN p.at = "serving" =>
       /\ \A s \in DOMAIN Sections : \A k \in Sections[s] : config.set[s][k] = stated(s, k)
       /\ p.bind = OrElse(p.cmd.bind, stated("server", "bind"))
       /\ p.socket = OrElse(p.cmd.socket, stated("server", "admin_socket"))
       /\ p.db = OrElse(p.env.database, Topmost(p.opened, p.env, "server", "database_path"))
       /\ p.cmd.mock \/ /\ stated(chosen, "enabled")
                        /\ stated(chosen, "api_key_env") \in p.env.secrets
       /\ \A i \in DOMAIN lists :
            (\A j \in i + 1..Len(lists) : lists[j].key # lists[i].key)
              => Enforced(lists[i], budgets[p.db]) \/ lists[i].key \in touched[p.db]

(* Prices change only by all the entries of a version's pricebooks at once, *)
(* of models that are known, and then the default model of every preset has *)
(* a price: wherever an update fails, or whatever another one does.         *)
Whole(d) ==
  prices'[d] # prices[d] =>
    /\ \E book \in Books : prices'[d] = prices[d] \o Entries(book)
    /\ PresetModels \subseteq Models(prices'[d])
    /\ Models(prices'[d]) \subseteq catalog'[d]
UpdateIsWhole == [][\A d \in Databases : Whole(d)]_vars

(* The fields of a usage that a provider reports; OpenAI's cached tokens    *)
(* are among those of the prompt, which the code does not rely on.          *)
Reported == [mock |-> {"input", "output", "read", "write"},
             anthropic |-> {"input_tokens", "output_tokens", "cache_read_input_tokens",
                            "cache_creation_input_tokens"},
             openai |-> {"prompt_tokens", "completion_tokens", "cached_tokens"}]
ASSUME AnswersAssumption ==
  \A answer \in Answers :
    LET r == answer.report IN
    /\ answer.from \in DOMAIN Reported /\ answer.ingress \in {"anthropic", "openai"}
    /\ answer.estimate.input \in Nat /\ answer.estimate.output \in Nat
    /\ DOMAIN r \subseteq Reported[answer.from] /\ \A field \in DOMAIN r : r[field] \in Nat
    /\ answer.from = "mock" => DOMAIN r = Reported["mock"]
    /\ Has(r, {"prompt_tokens"}) => Count(r, "cached_tokens") <= r["prompt_tokens"]

(* What a report costs exactly, in micros times Mtok: the cached tokens of  *)
(* OpenAI's prompt at their own rate, Anthropic's beside the input.         *)
OfPrompt(p, report) ==
  report["prompt_tokens"] * p.input + report["completion_tokens"] * p.output
  - Count(report, "cached_tokens") * (p.input - OrInput(p, p.cacheRead))
OfMessage(p, report) ==
  Count(report, "input_tokens") * p.input + Count(report, "output_tokens") * p.output
  + Count(report, "cache_read_input_tokens") * OrInput(p, p.cacheRead)
  + Count(report, "cache_creation_input_tokens") * OrInput(p, p.cacheWrite)

(* Of an answer: of what its provider reports, or, without both counts in   *)
(* the client's form, of the estimate.  The translation to OpenAI's form    *)
(* has no counts of Anthropic's cache, and none of the mock's cache writes. *)
Exact(p, answer) ==
  LET r == answer.report
      asOpenAi == answer.ingress = "openai"
      mock == answer.from = "mock"
  IN CASE mock -> r.input * p.input + r.output * p.output + r.read * OrInput(p, p.cacheRead)
                  + (IF asOpenAi THEN 0 ELSE r.write * OrInput(p, p.cacheWrite))
       [] asOpenAi /\ answer.from = "anthropic" ->
            Count(r, "input_tokens") * p.input + Count(r, "output_tokens") * p.output
       [] asOpenAi /\ answer.from = "openai" /\ Has(r, {"prompt_tokens", "completion_tokens"}) ->
            OfPrompt(p, r)
       [] ~asOpenAi /\ answer.from = "anthropic" /\ Has(r, {"input_tokens", "output_tokens"}) ->
            OfMessage(p, r)
       [] OTHER -> answer.estimate.input * p.input + answer.estimate.output * p.output

(* Half a micro for each kind of tokens that it has.                        *)
Slack(use) == Cardinality({k \in DOMAIN use : use[k] # 0}) * (Mtok \div 2)

(* The price that holds at a time: none starts later, or is of a later id.  *)
Holds(rows, i, model, at) ==
  i \in InForce(rows, model, at)
  /\ \A j \in InForce(rows, model, at) :
       rows[j].from < rows[i].from \/ (rows[j].from = rows[i].from /\ j <= i)

(* Whatever updates ran, and at any time, a process that serves bills the   *)
(* counts that the provider of an answer reports, through both forms of     *)
(* clients, at the rates that hold, each to half a micro; only a cost       *)
(* beyond Money overflows, and only a model without a price in force has    *)
(* none.  A single pass that was estimated for the input of a usage allows  *)
(* for its cost, to the roundings, unless a cache rate is above the margin. *)
CostWithinRounding ==
  LET rows == prices[process[Server].db] IN
  process[Server].at = "serving" =>
  \A answer \in Answers, model \in Models(rows) \cup PresetModels :
    LET use == UsageOf(answer)
        cost == Calculate(rows, model, use, now)
        held == {i \in DOMAIN rows : Holds(rows, i, model, now)}
        total == use.input + use.read + use.write
        range == EstimateRange(rows, model, total, "single_pass", now)
    IN \/ total + use.output = 0 /\ cost = 0
       \/ held = {} /\ cost = NotFound
       \/ \E i \in held :
            /\ \/ cost = Overflow /\ Exact(rows[i], answer) > Mtok * MaxMoney - Slack(use)
               \/ cost # Overflow /\ cost * Mtok - Exact(rows[i], answer) \in -Slack(use)..Slack(use)
            /\ (cost # Overflow /\ range # Overflow /\ use.output <= OutputTokens(total)
                 /\ \A rate \in Range(rows[i].cacheRead) \cup Range(rows[i].cacheWrite) :
                      10 * rate <= 13 * rows[i].input)
                 => AskedFor(range) = Failed \/ cost <= AskedFor(range) + 3
================================================================================
