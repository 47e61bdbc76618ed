-------------------------- MODULE OperatorSetupProofs --------------------------
(****************************************************************************)
(* Proofs about OperatorSetup: the arithmetic of Pricing, for every number  *)
(* of tokens, every rate and every width of Money; that an update of the    *)
(* prices is whole; that a process serves with what the files and variables *)
(* state; and that it bills what providers report, to the roundings: for    *)
(* any number of commands, any contents of files and databases, and all     *)
(* pricebooks and presets.                                                  *)
(****************************************************************************)
EXTENDS OperatorSetup, FiniteSums, SequenceTheorems, TLAPS

--------------------------------------------------------------------------------
(* The arithmetic of prices                                                 *)

(* Euclidean division.                                                      *)
LEMMA Division ==
  ASSUME NEW a \in Int, NEW m \in Nat \ {0}
  PROVE  /\ a \div m \in Int
         /\ (a \div m) * m <= a
         /\ a < (a \div m) * m + m
OBVIOUS

LEMMA Halves ==
  ASSUME NEW m \in Nat
  PROVE  m \div 2 \in Nat /\ 2 * (m \div 2) <= m /\ m <= 2 * (m \div 2) + 1
OBVIOUS

(* prorate_mtok in penny-cost, of any count of tokens at any rate, is a     *)
(* nearest whole number of micro-dollars if Money has it, and Overflow if   *)
(* it is beyond the width of Money.                                         *)
THEOREM ProrateRounds ==
  ASSUME NEW tokens \in Nat, NEW rate \in Int
  PROVE  \E micros \in Int :
           /\ 2 * (micros * Mtok - tokens * rate) \in -Mtok..Mtok
           /\ Prorate(tokens, rate) =
                IF micros \in -MaxMoney - 1..MaxMoney THEN micros ELSE Overflow
<1> DEFINE half == Mtok \div 2
           up(x) == (x + half) \div Mtok
           micros(n) == IF n >= 0 THEN up(n) ELSE -up(-n)
<1>1. Mtok \in Nat \ {0} /\ MaxMoney \in Nat
  BY MtokAssumption, MaxMoneyAssumption
<1>2. half \in Nat /\ 2 * half <= Mtok /\ Mtok <= 2 * half + 1
  BY <1>1, Halves
<1>3. \A x \in Nat : up(x) \in Int /\ 2 * (up(x) * Mtok - x) \in -Mtok..Mtok
  <2> TAKE x \in Nat
  <2> DEFINE q == (x + half) \div Mtok
             whole == q * Mtok
  <2>1. x + half \in Int
    BY <1>2
  <2>2. q \in Int /\ whole <= x + half /\ x + half < whole + Mtok
    BY <1>1, <2>1, Division
  <2>3. whole \in Int
    BY <1>1, <2>2
  <2> HIDE DEF half, whole
  <2>4. 2 * (whole - x) \in -Mtok..Mtok
    BY <1>1, <1>2, <2>2, <2>3
  <2> QED
    BY <2>2, <2>4 DEF whole
<1>4. \A n \in Int : micros(n) \in Int /\ 2 * (micros(n) * Mtok - n) \in -Mtok..Mtok
  <2> TAKE n \in Int
  <2> HIDE DEF half, up
  <2>1. CASE n >= 0
    BY <1>3, <2>1
  <2>2. CASE n < 0
    <3> DEFINE q == up(-n)
    <3>1. -n \in Nat /\ q \in Int /\ 2 * (q * Mtok - (-n)) \in -Mtok..Mtok
      BY <1>3, <2>2
    <3>2. micros(n) = -q
      BY <2>2
    <3>3. q * Mtok \in Int /\ (-q) * Mtok = -(q * Mtok)
      BY <1>1, <3>1
    <3> HIDE DEF q, micros
    <3> QED
      BY <1>1, <3>1, <3>2, <3>3
  <2> QED
    BY <2>1, <2>2
<1> DEFINE n == tokens * rate
<1>5. n \in Int
  OBVIOUS
<1>6. half - n = -n + half /\ Prorate(tokens, rate) =
        IF micros(n) > MaxMoney \/ micros(n) < -MaxMoney - 1 THEN Overflow ELSE micros(n)
  BY <1>2, <1>5 DEF Prorate
<1> HIDE DEF micros, n
<1>7. Prorate(tokens, rate) = IF micros(n) \in -MaxMoney - 1..MaxMoney THEN micros(n) ELSE Overflow
  BY <1>1, <1>4, <1>5, <1>6
<1>8. micros(n) \in Int /\ 2 * (micros(n) * Mtok - n) \in -Mtok..Mtok
  BY <1>4, <1>5
<1> QED
  BY <1>7, <1>8 DEF n

LEMMA ProrateFits ==
  ASSUME NEW tokens \in Nat, NEW rate \in Int, Prorate(tokens, rate) # Overflow
  PROVE  /\ Prorate(tokens, rate) \in -MaxMoney - 1..MaxMoney
         /\ 2 * (Prorate(tokens, rate) * Mtok - tokens * rate) \in -Mtok..Mtok
BY ProrateRounds

(* A sum that does not overflow is one of amounts.                          *)
LEMMA AddIsSum ==
  ASSUME NEW a, NEW b, Add(a, b) # Overflow
  PROVE  a # Overflow /\ b # Overflow /\ Add(a, b) = a + b
BY DEF Add

(* A usage costs its four counts at the rates of the price that is in force *)
(* off by at most half a micro-dollar for each, or Overflow: what           *)
(* calculate_with_cache in penny-cost answers, when there is a price.       *)
THEOREM CostRounds ==
  ASSUME NEW list, NEW model, NEW at, NEW use \in [input : Nat, read : Nat, write : Nat, output : Nat],
         NEW p, p = GetPrice(list, model, at), p # NotFound,
         NEW read, read = OrInput(p, p.cacheRead), NEW write, write = OrInput(p, p.cacheWrite),
         p.input \in Int, p.output \in Int, read \in Int, write \in Int,
         Calculate(list, model, use, at) # Overflow
  PROVE  LET exact == use.input * p.input + use.read * read + use.write * write
                      + use.output * p.output
         IN  2 * (Calculate(list, model, use, at) * Mtok - exact) \in -(4 * Mtok)..4 * Mtok
<1> DEFINE i == Prorate(use.input, p.input)
           r == Prorate(use.read, read)
           w == Prorate(use.write, write)
           o == Prorate(use.output, p.output)
           ei == use.input * p.input
           er == use.read * read
           ew == use.write * write
           eo == use.output * p.output
           cost == Calculate(list, model, use, at)
<1>1. /\ use.input \in Nat /\ use.read \in Nat /\ use.write \in Nat /\ use.output \in Nat
      /\ Mtok \in Nat
  BY MtokAssumption
<1>2. CASE use.input = 0 /\ use.read = 0 /\ use.write = 0 /\ use.output = 0
  <2>1. cost = 0
    BY <1>2 DEF Calculate
  <2>2. ei = 0 /\ er = 0 /\ ew = 0 /\ eo = 0
    BY <1>2
  <2> HIDE DEF cost, ei, er, ew, eo
  <2>3. 2 * (cost * Mtok - (ei + er + ew + eo)) = 0
    BY <1>1, <2>1, <2>2
  <2> QED
    BY <1>1, <2>3 DEF cost, ei, er, ew, eo
<1>3. CASE ~(use.input = 0 /\ use.read = 0 /\ use.write = 0 /\ use.output = 0)
  <2>1. cost = Add(Add(Add(i, r), w), o)
    BY <1>3 DEF Calculate
  <2>2. /\ i # Overflow /\ r # Overflow /\ w # Overflow /\ o # Overflow
        /\ cost = i + r + w + o
    <3> HIDE DEF i, r, w, o
    <3>1. Add(Add(i, r), w) # Overflow /\ o # Overflow /\ cost = Add(Add(i, r), w) + o
      BY <2>1, AddIsSum
    <3>2. Add(i, r) # Overflow /\ w # Overflow /\ Add(Add(i, r), w) = Add(i, r) + w
      BY <3>1, AddIsSum
    <3>3. i # Overflow /\ r # Overflow /\ Add(i, r) = i + r
      BY <3>2, AddIsSum
    <3> QED
      BY <3>1, <3>2, <3>3
  <2>3. /\ i \in Int /\ 2 * (i * Mtok - ei) \in -Mtok..Mtok
        /\ r \in Int /\ 2 * (r * Mtok - er) \in -Mtok..Mtok
        /\ w \in Int /\ 2 * (w * Mtok - ew) \in -Mtok..Mtok
        /\ o \in Int /\ 2 * (o * Mtok - eo) \in -Mtok..Mtok
    <3>1. /\ i \in Int /\ 2 * (i * Mtok - ei) \in -Mtok..Mtok
      BY <1>1, <2>2, ProrateFits, MaxMoneyAssumption
    <3>2. /\ r \in Int /\ 2 * (r * Mtok - er) \in -Mtok..Mtok
      BY <1>1, <2>2, ProrateFits, MaxMoneyAssumption
    <3>3. /\ w \in Int /\ 2 * (w * Mtok - ew) \in -Mtok..Mtok
      BY <1>1, <2>2, ProrateFits, MaxMoneyAssumption
    <3>4. /\ o \in Int /\ 2 * (o * Mtok - eo) \in -Mtok..Mtok
      BY <1>1, <2>2, ProrateFits, MaxMoneyAssumption
    <3> QED
      BY <3>1, <3>2, <3>3, <3>4
  <2>4. ei \in Int /\ er \in Int /\ ew \in Int /\ eo \in Int
    BY <1>1
  <2> HIDE DEF i, r, w, o, ei, er, ew, eo, cost
  <2>5. cost * Mtok = i * Mtok + r * Mtok + w * Mtok + o * Mtok
    BY <1>1, <2>2, <2>3
  <2>6. 2 * (cost * Mtok - (ei + er + ew + eo)) \in -(4 * Mtok)..4 * Mtok
    <3> DEFINE im == i * Mtok
               rm == r * Mtok
               wm == w * Mtok
               om == o * Mtok
    <3>1. im \in Int /\ rm \in Int /\ wm \in Int /\ om \in Int
      BY <1>1, <2>3
    <3> HIDE DEF im, rm, wm, om
    <3>2. /\ 2 * (im - ei) \in -Mtok..Mtok /\ 2 * (rm - er) \in -Mtok..Mtok
          /\ 2 * (wm - ew) \in -Mtok..Mtok /\ 2 * (om - eo) \in -Mtok..Mtok
          /\ cost * Mtok = im + rm + wm + om
      BY <2>3, <2>5 DEF im, rm, wm, om
    <3> QED
      BY <1>1, <2>4, <3>1, <3>2
  <2> QED
    BY <2>6 DEF ei, er, ew, eo, cost
<1> QED
  BY <1>2, <1>3

--------------------------------------------------------------------------------
(* Updates of the prices                                                    *)

Updating == {"update", "register"}

(* Processes are records of these fields, and databases have a catalog.     *)
Fields == {"at", "cmd", "env", "opened", "db", "read", "bind", "socket", "todo", "found"}
IsProcess(r) == r = [f \in Fields |-> r[f]]
Shapes ==
  /\ process = [p \in Procs |-> process[p]]
  /\ \A p \in Procs : IsProcess(process[p])
  /\ catalog = [d \in Databases |-> catalog[d]]

(* A price is of a model that the catalog of its database has.              *)
PricesKnown ==
  /\ prices \in [Databases -> Seq(PriceRows)]
  /\ \A d \in Databases : Models(prices[d]) \subseteq catalog[d]

(* An update that was validated stays valid while other updates go on: its  *)
(* entries and the prices that are there have the models of every preset.   *)
UpdateValid(p) ==
  LET book == process[p].cmd.book IN
  /\ process[p].at \in Updating => book \in Books
  /\ process[p].at = "register" =>
       \A d \in Databases :
         process[p].db = d => PresetModels \subseteq Models(Entries(book)) \cup Models(prices[d])

IInv == Shapes /\ PricesKnown /\ \A p \in Procs : UpdateValid(p)

--------------------------------------------------------------------------------
(* The models of rows are those of both parts of them.                      *)
LEMMA ModelsOfBoth ==
  ASSUME NEW s \in Seq(PriceRows), NEW t \in Seq(PriceRows)
  PROVE  Models(s \o t) = Models(s) \cup Models(t)
<1>1. /\ DOMAIN s = 1..Len(s) /\ DOMAIN t = 1..Len(t)
      /\ DOMAIN (s \o t) = 1..(Len(s) + Len(t))
      /\ Len(s) \in Nat /\ Len(t) \in Nat
  OBVIOUS
<1>2. \A i \in 1..Len(s) : (s \o t)[i] = s[i]
  OBVIOUS
<1>3. \A j \in 1..Len(t) : Len(s) + j \in DOMAIN (s \o t) /\ (s \o t)[Len(s) + j] = t[j]
  OBVIOUS
<1>4. \A i \in DOMAIN (s \o t) : i \in 1..Len(s) \/ \E j \in 1..Len(t) : i = Len(s) + j
  <2> TAKE i \in DOMAIN (s \o t)
  <2>1. CASE i <= Len(s)
    BY <1>1, <2>1
  <2>2. CASE i > Len(s)
    <3>1. i - Len(s) \in 1..Len(t) /\ i = Len(s) + (i - Len(s))
      BY <1>1, <2>2
    <3> QED
      BY <3>1
  <2> QED
    BY <1>1, <2>1, <2>2
<1>5. Models(s) \subseteq Models(s \o t)
  <2> SUFFICES ASSUME NEW i \in 1..Len(s)
               PROVE  \E k \in DOMAIN (s \o t) : (s \o t)[k] = s[i]
    BY <1>1 DEF Models
  <2>1. i \in DOMAIN (s \o t)
    BY <1>1
  <2> QED
    BY <1>2, <2>1
<1>6. Models(t) \subseteq Models(s \o t)
  <2> SUFFICES ASSUME NEW j \in 1..Len(t)
               PROVE  \E k \in DOMAIN (s \o t) : (s \o t)[k] = t[j]
    BY <1>1 DEF Models
  <2> QED
    BY <1>3
<1>7. Models(s \o t) \subseteq Models(s) \cup Models(t)
  BY <1>1, <1>2, <1>3, <1>4 DEF Models
<1> QED
  BY <1>5, <1>6, <1>7

(* A step that leaves prices and catalog alone, and in which no process     *)
(* becomes or changes an update.                                            *)
LEMMA Unrelated ==
  ASSUME IInv, Shapes', prices' = prices, catalog' = catalog,
         \A q \in Procs : process'[q].at \in Updating => process'[q] = process[q]
  PROVE  IInv' /\ \A d \in Databases : Whole(d)
<1>1. PricesKnown'
  BY DEF IInv, PricesKnown
<1>2. ASSUME NEW q \in Procs
      PROVE  UpdateValid(q)'
  <2>1. CASE process'[q].at \in Updating
    <3>1. process'[q] = process[q] /\ UpdateValid(q)
      BY <2>1 DEF IInv
    <3> QED
      BY <3>1 DEF UpdateValid
  <2>2. CASE process'[q].at \notin Updating
    BY <2>2 DEF UpdateValid, Updating
  <2> QED
    BY <2>1, <2>2
<1> QED
  BY <1>1, <1>2 DEF IInv, Whole

(* One process gets a new state, which has its fields.                      *)
LEMMA Becoming ==
  ASSUME Shapes, catalog' = catalog, NEW p \in Procs, NEW r, IsProcess(r), Becomes(p, r)
  PROVE  /\ Shapes'
         /\ process'[p] = r
         /\ \A q \in Procs : q # p => process'[q] = process[q]
BY DEF Shapes, Becomes

(* One process changes, and is not an update when it has.                   *)
LEMMA OtherProcess ==
  ASSUME IInv, prices' = prices, catalog' = catalog, NEW p \in Procs,
         NEW r, IsProcess(r), r.at \notin Updating, Becomes(p, r)
  PROVE  IInv' /\ \A x \in Databases : Whole(x)
<1>1. /\ Shapes' /\ process'[p].at \notin Updating
      /\ \A q \in Procs : q # p => process'[q] = process[q]
  BY Becoming DEF IInv
<1> QED
  BY <1>1, Unrelated

(* The process ends.                                                        *)
LEMMA Ending ==
  ASSUME IInv, prices' = prices, catalog' = catalog, NEW p \in Procs, End(p)
  PROVE  IInv' /\ \A x \in Databases : Whole(x)
<1>1. IsProcess(Gone) /\ Gone.at \notin Updating
  BY DEF Gone, IsProcess, Fields, Updating
<1> QED
  BY <1>1, OtherProcess DEF End

(* A process goes on, and is not an update.                                 *)
LEMMA Going ==
  ASSUME IInv, prices' = prices, catalog' = catalog, NEW p \in Procs,
         NEW at, at \notin Updating, Goto(p, at)
  PROVE  IInv' /\ \A x \in Databases : Whole(x)
<1> DEFINE r == [process[p] EXCEPT !.at = at]
<1>1. IsProcess(process[p])
  BY DEF IInv, Shapes
<1>2. IsProcess(r) /\ r.at = at
  BY <1>1 DEF IsProcess, Fields
<1>3. Becomes(p, r)
  BY DEF Goto, Becomes
<1> HIDE DEF r
<1> QED
  BY <1>2, <1>3, OtherProcess

--------------------------------------------------------------------------------
(* The steps                                                                *)

(* A command starts: if it is an update, with a book of a version.          *)
LEMMA InvokeStep ==
  ASSUME IInv, NEW p \in Procs, NEW cmd, NEW env,
         cmd.is = "update" => cmd.book \in Books, cmd.is # "register", Invoke(p, cmd, env)
  PROVE  IInv' /\ \A x \in Databases : Whole(x)
<1> DEFINE started(d) == [Gone EXCEPT !.at = cmd.is, !.cmd = cmd, !.env = env,
                                      !.opened = Content, !.db = d]
<1>1. /\ prices' = prices /\ catalog' = catalog
      /\ \E d : Becomes(p, started(d))
  BY DEF Invoke, db
<1>2. PICK d : Becomes(p, started(d))
  BY <1>1
<1>3. /\ IsProcess(started(d))
      /\ started(d).at = cmd.is /\ started(d).cmd = cmd
  BY DEF Gone, IsProcess, Fields
<1> HIDE DEF started
<1>4. /\ Shapes' /\ process'[p].at = cmd.is /\ process'[p].cmd = cmd
      /\ \A q \in Procs : q # p => process'[q] = process[q]
  BY <1>1, <1>2, <1>3, Becoming DEF IInv
<1>5. ASSUME NEW q \in Procs
      PROVE  UpdateValid(q)'
  <2>1. CASE q = p
    BY <1>4, <2>1 DEF UpdateValid, Updating
  <2>2. CASE q # p
    <3>1. process'[q] = process[q] /\ UpdateValid(q)
      BY <1>4, <2>2 DEF IInv
    <3> QED
      BY <1>1, <3>1 DEF UpdateValid
  <2> QED
    BY <2>1, <2>2
<1>6. PricesKnown'
  BY <1>1 DEF IInv, PricesKnown
<1> QED
  BY <1>1, <1>4, <1>5, <1>6 DEF IInv, Whole

(* A handler of the admin plane starts.                                     *)
LEMMA PostStep ==
  ASSUME IInv, NEW c \in Commands, NEW cmd, PostBudget(c, cmd)
  PROVE  IInv' /\ \A x \in Databases : Whole(x)
<1> DEFINE r == [Gone EXCEPT !.at = IF cmd.id > 0 THEN "move" ELSE "post", !.cmd = cmd,
                             !.db = process[Server].db]
<1>1. prices' = prices /\ catalog' = catalog /\ Becomes(c, r) /\ c \in Procs
  BY DEF PostBudget, db, Procs
<1>2. IsProcess(r) /\ r.at \notin Updating
  BY DEF Gone, IsProcess, Fields, Updating
<1> HIDE DEF r
<1> QED
  BY <1>1, <1>2, OtherProcess

(* A serving process reads its configuration, and serves.                   *)
LEMMA ServeStep ==
  ASSUME IInv, NEW p \in Procs, LoadRuntime(p) \/ StartServing(p)
  PROVE  IInv' /\ \A x \in Databases : Whole(x)
<1>1. prices' = prices /\ catalog' = catalog /\ IsProcess(process[p])
  BY DEF LoadRuntime, StartServing, db, IInv, Shapes
<1>2. CASE End(p)
  BY <1>1, <1>2, Ending
<1>3. CASE StartServing(p)
  BY <1>1, <1>3, Going DEF StartServing, Updating
<1>4. CASE LoadRuntime(p) /\ ~End(p)
  <2> DEFINE r(list, bind, socket) ==
        [process[p] EXCEPT !.at = "seed", !.read = Content, !.todo = list,
                           !.bind = bind, !.socket = socket]
  <2>1. PICK list, bind, socket : Becomes(p, r(list, bind, socket))
    BY <1>4 DEF LoadRuntime
  <2>2. IsProcess(r(list, bind, socket)) /\ r(list, bind, socket).at \notin Updating
    BY <1>1 DEF IsProcess, Fields, Updating
  <2> HIDE DEF r
  <2> QED
    BY <1>1, <2>1, <2>2, OtherProcess
<1> QED
  BY <1>2, <1>3, <1>4

(* The statements of an upsert of budgets, and of a reset.                  *)
LEMMA BudgetStep ==
  ASSUME IInv, NEW p \in Procs,
         UpdateById(p) \/ FindBudget(p) \/ PutBudget(p) \/ ResetBudget(p)
  PROVE  IInv' /\ \A x \in Databases : Whole(x)
<1>1. prices' = prices /\ catalog' = catalog /\ IsProcess(process[p])
  BY DEF UpdateById, FindBudget, PutBudget, ResetBudget, IInv, Shapes
<1>2. CASE End(p)
  BY <1>1, <1>2, Ending
<1>3. CASE Goto(p, "post")
  BY <1>1, <1>3, Going DEF Updating
<1>4. CASE FindBudget(p) /\ ~End(p)
  <2> DEFINE r(id) == [process[p] EXCEPT !.at = "put", !.found = id]
  <2>1. PICK id : Becomes(p, r(id))
    BY <1>4 DEF FindBudget
  <2>2. IsProcess(r(id)) /\ r(id).at \notin Updating
    BY <1>1 DEF IsProcess, Fields, Updating
  <2> HIDE DEF r
  <2> QED
    BY <1>1, <2>1, <2>2, OtherProcess
<1>5. CASE PutBudget(p) /\ ~End(p)
  <2> DEFINE r == [process[p] EXCEPT !.at = "seed", !.todo = Tail(@)]
  <2>1. Becomes(p, r)
    BY <1>5 DEF PutBudget
  <2>2. IsProcess(r) /\ r.at \notin Updating
    BY <1>1 DEF IsProcess, Fields, Updating
  <2> HIDE DEF r
  <2> QED
    BY <1>1, <2>1, <2>2, OtherProcess
<1> QED
  BY <1>2, <1>3, <1>4, <1>5 DEF UpdateById, ResetBudget

(* init changes neither prices nor catalog.                                 *)
LEMMA CommandStep ==
  ASSUME IInv, NEW p \in Procs, EmptyTarget(p) \/ WriteTarget(p)
  PROVE  IInv' /\ \A x \in Databases : Whole(x)
<1>1. prices' = prices /\ catalog' = catalog
  BY DEF EmptyTarget, WriteTarget, db
<1>2. End(p) \/ Goto(p, "write")
  BY DEF EmptyTarget, WriteTarget
<1> QED
  BY <1>1, <1>2, Ending, Going DEF Updating

(* Nor does the end of a process, and of the handlers with it.              *)
LEMMA EndsStep ==
  ASSUME IInv, NEW p \in Procs, Ends(p)
  PROVE  IInv' /\ \A x \in Databases : Whole(x)
<1>1. prices' = prices /\ catalog' = catalog /\ process' = [q \in Procs |-> process'[q]]
      /\ \A q \in Procs : process'[q] = Gone \/ process'[q] = process[q]
  BY DEF Ends, db
<1>2. IsProcess(Gone) /\ Gone.at \notin Updating
  BY DEF Gone, IsProcess, Fields, Updating
<1>3. Shapes'
  BY <1>1, <1>2 DEF IInv, Shapes
<1> QED
  BY <1>1, <1>2, <1>3, Unrelated

(* The validation of an update establishes that it is valid.                *)
LEMMA ValidateStep ==
  ASSUME IInv, NEW p \in Procs, ValidateUpdate(p)
  PROVE  IInv' /\ \A x \in Databases : Whole(x)
<1> DEFINE book == process[p].cmd.book
<1>1. prices' = prices /\ catalog' = catalog
  BY DEF ValidateUpdate, db
<1>2. CASE End(p)
  BY <1>1, <1>2, Ending
<1>3. CASE ~End(p)
  <2> DEFINE r == [process[p] EXCEPT !.at = "register", !.todo = Registrations(book)]
  <2>1. /\ process[p].at = "update"
        /\ Resolvable(Guarded(process[p].env), process[p].db, book)
        /\ Becomes(p, r)
    BY <1>3 DEF ValidateUpdate
  <2>2. IsProcess(process[p])
    BY DEF IInv, Shapes
  <2>3. IsProcess(r) /\ r.at = "register" /\ r.cmd = process[p].cmd /\ r.db = process[p].db
    BY <2>2 DEF IsProcess, Fields
  <2> HIDE DEF r
  <2>4. /\ Shapes' /\ process'[p].at = "register" /\ process'[p].cmd = process[p].cmd
        /\ process'[p].db = process[p].db
        /\ \A q \in Procs : q # p => process'[q] = process[q]
    BY <1>1, <2>1, <2>3, Becoming DEF IInv
  <2>5. /\ PresetModels \subseteq Models(Entries(book)) \cup Models(prices[process[p].db])
        /\ book \in Books
    <3>1. PresetModels \subseteq Guarded(process[p].env)
      BY DEF Guarded
    <3>2. UpdateValid(p)
      BY DEF IInv
    <3> QED
      BY <2>1, <3>1, <3>2 DEF Resolvable, UpdateValid, Updating
  <2>6. ASSUME NEW q \in Procs
        PROVE  UpdateValid(q)'
    <3>1. CASE q = p
      BY <1>1, <2>4, <2>5, <3>1 DEF UpdateValid
    <3>2. CASE q # p
      <4>1. process'[q] = process[q] /\ UpdateValid(q)
        BY <2>4, <3>2 DEF IInv
      <4> QED
        BY <1>1, <4>1 DEF UpdateValid
    <3> QED
      BY <3>1, <3>2
  <2>7. PricesKnown'
    BY <1>1 DEF IInv, PricesKnown
  <2> QED
    BY <1>1, <2>4, <2>6, <2>7 DEF IInv, Whole
<1> QED
  BY <1>2, <1>3

(* The catalog only grows.                                                  *)
LEMMA RegisterStep ==
  ASSUME IInv, NEW p \in Procs, Register(p)
  PROVE  IInv' /\ \A x \in Databases : Whole(x)
<1>1. /\ prices' = prices /\ process[p].at = "register"
      /\ process' = [process EXCEPT ![p].todo = Tail(@)]
      /\ catalog' = [catalog EXCEPT ![process[p].db] = @ \cup {Head(process[p].todo)}]
  BY DEF Register
<1>2. /\ Shapes'
      /\ \A q \in Procs : /\ process'[q].at = process[q].at
                          /\ process'[q].cmd = process[q].cmd
                          /\ process'[q].db = process[q].db
  <2>1. \A q \in Procs : IsProcess(process[q])
    BY DEF IInv, Shapes
  <2>2. catalog' = [d \in Databases |-> catalog'[d]]
    BY <1>1 DEF IInv, Shapes
  <2> DEFINE r == [process[p] EXCEPT !.todo = Tail(@)]
  <2>3. /\ IsProcess(r) /\ r.at = process[p].at
        /\ r.cmd = process[p].cmd /\ r.db = process[p].db
    BY <2>1 DEF IsProcess, Fields
  <2>4. process = [q \in Procs |-> process[q]] /\ process' = [process EXCEPT ![p] = r]
    BY <1>1 DEF IInv, Shapes
  <2> HIDE DEF r
  <2>5. \A q \in Procs : process'[q] = IF q = p THEN r ELSE process[q]
    BY <2>4
  <2>6. process' = [q \in Procs |-> process'[q]]
    BY <2>4
  <2> QED
    BY <2>1, <2>2, <2>3, <2>5, <2>6 DEF Shapes
<1>3. \A d \in Databases : catalog[d] \subseteq catalog'[d]
  BY <1>1 DEF IInv, Shapes
<1>4. PricesKnown'
  BY <1>1, <1>3 DEF IInv, PricesKnown
<1>5. \A q \in Procs : UpdateValid(q)'
  BY <1>1, <1>2 DEF IInv, UpdateValid
<1> QED
  BY <1>1, <1>2, <1>4, <1>5 DEF IInv, Whole

(* All entries of an update at once, of a valid update.                     *)
LEMMA ImportStep ==
  ASSUME IInv, NEW p \in Procs, Import(p)
  PROVE  IInv' /\ \A x \in Databases : Whole(x)
<1> DEFINE book == process[p].cmd.book
           rows == Entries(book)
           at == process[p].db
<1>1. /\ process[p].at = "register" /\ End(p) /\ catalog' = catalog
      /\ Models(rows) \subseteq catalog[at]
      /\ prices' = [prices EXCEPT ![at] = @ \o rows]
  BY DEF Import
<1>2. CASE at \notin Databases
  <2>1. prices' = prices
    BY <1>1, <1>2 DEF IInv, PricesKnown
  <2> QED
    BY <1>1, <2>1, Ending
<1>3. CASE at \in Databases
  <2>1. /\ book \in Books /\ rows \in Seq(PriceRows)
        /\ PresetModels \subseteq Models(rows) \cup Models(prices[at])
    BY <1>1, <1>3, BooksAssumption DEF IInv, UpdateValid, Updating
  <2>2. /\ prices \in [Databases -> Seq(PriceRows)]
        /\ prices'[at] = prices[at] \o rows
        /\ \A d \in Databases : d # at => prices'[d] = prices[d]
    BY <1>1, <1>3 DEF IInv, PricesKnown
  <2>3. Models(prices'[at]) = Models(prices[at]) \cup Models(rows)
    BY <1>3, <2>1, <2>2, ModelsOfBoth
  <2>4. prices' \in [Databases -> Seq(PriceRows)]
    <3>1. prices[at] \o rows \in Seq(PriceRows)
      BY <1>3, <2>1, <2>2
    <3> QED
      BY <1>1, <2>2, <3>1
  <2>5. PricesKnown'
    BY <1>1, <2>2, <2>3, <2>4 DEF IInv, PricesKnown
  <2>6. /\ Shapes' /\ process'[p].at = "gone"
        /\ \A q \in Procs : q # p => process'[q] = process[q]
    <3>1. IsProcess(Gone) /\ Gone.at = "gone" /\ Becomes(p, Gone)
      BY <1>1 DEF End, Gone, IsProcess, Fields
    <3> QED
      BY <1>1, <3>1, Becoming DEF IInv
  <2>7. ASSUME NEW q \in Procs
        PROVE  UpdateValid(q)'
    <3>1. CASE q = p
      BY <2>6, <3>1 DEF UpdateValid, Updating
    <3>2. CASE q # p
      <4>1. process'[q] = process[q] /\ UpdateValid(q)
        BY <2>6, <3>2 DEF IInv
      <4>2. \A d \in Databases : Models(prices[d]) \subseteq Models(prices'[d])
        BY <2>2, <2>3
      <4> QED
        BY <4>1, <4>2 DEF UpdateValid
    <3> QED
      BY <3>1, <3>2
  <2>8. ASSUME NEW d \in Databases
        PROVE  Whole(d)
    <3>1. CASE d = at
      BY <1>1, <1>3, <2>1, <2>2, <2>3, <2>5, <3>1 DEF Whole, PricesKnown
    <3>2. CASE d # at
      BY <2>2, <3>2 DEF Whole
    <3> QED
      BY <3>1, <3>2
  <2> QED
    BY <2>5, <2>6, <2>7, <2>8 DEF IInv
<1> QED
  BY <1>2, <1>3

--------------------------------------------------------------------------------
(* Every step keeps the invariant, and changes prices only as a whole.      *)
LEMMA StepIsWhole ==
  ASSUME IInv, [Next]_vars
  PROVE  IInv' /\ \A x \in Databases : Whole(x)
<1>1. ASSUME NEW env, NEW cmd \in ServeArgs, Invoke(Server, cmd, env)
      PROVE  IInv' /\ \A x \in Databases : Whole(x)
  BY <1>1, ServeArgsAssumption, InvokeStep DEF Procs
<1>2. ASSUME NEW env, NEW c \in Commands, NEW cmd \in Calls, Invoke(c, cmd, env)
      PROVE  IInv' /\ \A x \in Databases : Whole(x)
  <2>1. (cmd.is = "update" => cmd.book \in Books) /\ cmd.is # "register" /\ c \in Procs
    BY DEF Calls, Procs
  <2> QED
    BY <1>2, <2>1, InvokeStep
<1>3. CASE LoadRuntime(Server) \/ FindBudget(Server) \/ PutBudget(Server) \/ StartServing(Server)
  BY <1>3, ServeStep, BudgetStep DEF Procs
<1>4. ASSUME NEW c \in Commands,
             \/ EmptyTarget(c) \/ WriteTarget(c)
             \/ UpdateById(c) \/ FindBudget(c) \/ PutBudget(c) \/ ResetBudget(c)
      PROVE  IInv' /\ \A x \in Databases : Whole(x)
  BY <1>4, CommandStep, BudgetStep DEF Procs
<1>5. ASSUME NEW c \in Commands, ValidateUpdate(c) \/ Register(c) \/ Import(c)
      PROVE  IInv' /\ \A x \in Databases : Whole(x)
  BY <1>5, ValidateStep, RegisterStep, ImportStep DEF Procs
<1>6. ASSUME NEW p \in Procs, Ends(p)
      PROVE  IInv' /\ \A x \in Databases : Whole(x)
  BY <1>6, EndsStep
<1>7. ASSUME prices' = prices, catalog' = catalog, process' = process
      PROVE  IInv' /\ \A x \in Databases : Whole(x)
  BY <1>7, Unrelated DEF IInv, Shapes
<1>8. CASE (\E layer \in Edits : EditFile(layer)) \/ Tick \/ UNCHANGED vars
  BY <1>7, <1>8 DEF EditFile, Tick, vars, db
<1>9. ASSUME NEW c \in Commands, NEW cmd \in Posts, PostBudget(c, cmd)
      PROVE  IInv' /\ \A x \in Databases : Whole(x)
  BY <1>9, PostStep
<1> QED
  BY <1>1, <1>2, <1>3, <1>4, <1>5, <1>6, <1>8, <1>9 DEF Next

LEMMA InitIsValid == Init => IInv
<1> SUFFICES ASSUME Init PROVE IInv
  OBVIOUS
<1>1. Shapes
  BY DEF Init, Shapes, Gone, IsProcess, Fields
<1>2. PricesKnown
  <2>1. \A d \in Databases : prices[d] = << >> /\ Models(prices[d]) = {}
    BY DEF Init, Models
  <2>2. prices \in [Databases -> Seq(PriceRows)]
    BY DEF Init
  <2> QED
    BY <2>1, <2>2 DEF PricesKnown
<1>3. \A p \in Procs : UpdateValid(p)
  BY DEF Init, UpdateValid, Updating, Gone
<1> QED
  BY <1>1, <1>2, <1>3 DEF IInv

(* Whatever commands run at once and wherever they end, prices change only  *)
(* by all the entries of a version's pricebooks, of models that are known,  *)
(* and then the default model of every preset has a price.                  *)
THEOREM UpdatesAreWhole == Spec => UpdateIsWhole
<1>1. IInv /\ [Next]_vars => IInv'
  BY StepIsWhole
<1>2. IInv /\ [Next]_vars => [\A d \in Databases : Whole(d)]_vars
  BY StepIsWhole
<1> QED
  BY <1>1, <1>2, InitIsValid, PTL DEF Spec, UpdateIsWhole

--------------------------------------------------------------------------------
(* Configurations                                                           *)

(* Merged layers say what either says, and the second comes first.          *)
LEMMA MergedKey ==
  ASSUME NEW base, NEW over, NEW s, NEW k
  PROVE  LET m == Merge(base, over) IN
         /\ Says(m, s, k) <=> Says(over, s, k) \/ Says(base, s, k)
         /\ Says(over, s, k) => m.set[s][k] = over.set[s][k]
         /\ ~Says(over, s, k) /\ Says(base, s, k) => m.set[s][k] = base.set[s][k]
<1> DEFINE m == Merge(base, over)
           keys(layer) == IF s \in DOMAIN layer.set THEN layer.set[s] ELSE << >>
<1>1. DOMAIN m.set = DOMAIN base.set \cup DOMAIN over.set
  BY DEF Merge
<1>2. s \in DOMAIN m.set => m.set[s] = Over(keys(over), keys(base))
  BY <1>1 DEF Merge
<1>3. \A layer : k \in DOMAIN keys(layer) <=> Says(layer, s, k)
  <2>1. DOMAIN << >> = {}
    OBVIOUS
  <2> QED
    BY <2>1 DEF Says
<1>4. \A layer : Says(layer, s, k) => keys(layer)[k] = layer.set[s][k] /\ s \in DOMAIN layer.set
  BY DEF Says
<1> HIDE DEF keys, m
<1>5. s \in DOMAIN m.set =>
        /\ k \in DOMAIN m.set[s] <=> k \in DOMAIN keys(over) \/ k \in DOMAIN keys(base)
        /\ k \in DOMAIN keys(over) => m.set[s][k] = keys(over)[k]
        /\ k \notin DOMAIN keys(over) /\ k \in DOMAIN keys(base) => m.set[s][k] = keys(base)[k]
  BY <1>2 DEF Over
<1>6. Says(m, s, k) <=> s \in DOMAIN m.set /\ k \in DOMAIN m.set[s]
  BY DEF Says
<1> QED
  BY <1>1, <1>3, <1>4, <1>5, <1>6 DEF m

(* The layer of the variables says what they do.                            *)
LEMMA EnvKey ==
  ASSUME NEW given, DOMAIN given \subseteq EnvKeys, NEW s, NEW k
  PROVE  /\ Says(EnvLayer(given), s, k) <=> <<s, k>> \in DOMAIN given
         /\ <<s, k>> \in DOMAIN given => EnvLayer(given).set[s][k] = given[<<s, k>>]
<1> DEFINE layer == EnvLayer(given)
           under(t) == {key[2] : key \in {x \in DOMAIN given : x[1] = t}}
<1>1. \A key \in DOMAIN given : key = <<key[1], key[2]>>
  BY DEF EnvKeys
<1>2. DOMAIN layer.set = {key[1] : key \in DOMAIN given}
  BY DEF EnvLayer
<1>3. \A t \in DOMAIN layer.set : layer.set[t] = [j \in under(t) |-> given[<<t, j>>]]
  BY DEF EnvLayer
<1>4. \A t, j : j \in under(t) <=> <<t, j>> \in DOMAIN given
  <2> SUFFICES ASSUME NEW t, NEW j PROVE j \in under(t) <=> <<t, j>> \in DOMAIN given
    OBVIOUS
  <2>1. <<t, j>>[1] = t /\ <<t, j>>[2] = j
    OBVIOUS
  <2> QED
    BY <1>1, <2>1
<1>5. <<s, k>> \in DOMAIN given => s \in DOMAIN layer.set
  <2>1. <<s, k>>[1] = s
    OBVIOUS
  <2> QED
    BY <1>2, <2>1
<1> HIDE DEF layer, under
<1> QED
  BY <1>3, <1>4, <1>5 DEF Says, layer

(* A configuration that loads has every setting of the topmost source that  *)
(* states it, or that of the program.                                       *)
LEMMA LoadedSetting ==
  ASSUME NEW read, NEW env, DOMAIN env.vars \subseteq EnvKeys, Config(read, env) # Failed,
         NEW s \in DOMAIN Sections, NEW k \in Sections[s]
  PROVE  Config(read, env).set[s][k] = Topmost(read, env, s, k)
<1> DEFINE over == EnvLayer(env.vars)
           program == [set |-> Optional, budgets |-> << >>]
           files == Merge(DefaultFile, read)
           merged == Merge(files, over)
           whole == Merge(program, merged)
<1>1. ~Missing(merged) /\ Config(read, env) = [whole EXCEPT !.budgets = Head(@)]
  BY DEF Config, Loaded, Complete
<1>2. [whole EXCEPT !.budgets = Head(@)].set = whole.set
  BY DEF Merge
<1>3. program.set = Optional /\ (Says([set |-> Optional], s, k) <=> Says(program, s, k))
  BY DEF Says
<1>4. Says(merged, s, k) \/ Says(program, s, k)
  <2>1. CASE s # "cleanup"
    BY <1>1, <1>3, <2>1 DEF Missing
  <2>2. CASE s = "cleanup"
    BY <2>2 DEF Says, Optional, Sections
  <2> QED
    BY <2>1, <2>2
<1> HIDE DEF whole, merged, files, program, over
<1>5. /\ Says(merged, s, k) => whole.set[s][k] = merged.set[s][k]
      /\ ~Says(merged, s, k) => whole.set[s][k] = Optional[s][k]
  BY <1>3, <1>4, MergedKey DEF whole
<1>6. /\ Says(merged, s, k) <=> Says(over, s, k) \/ Says(files, s, k)
      /\ Says(over, s, k) => merged.set[s][k] = over.set[s][k]
      /\ ~Says(over, s, k) /\ Says(files, s, k) => merged.set[s][k] = files.set[s][k]
  BY MergedKey DEF merged
<1>7. /\ Says(files, s, k) <=> Says(read, s, k) \/ Says(DefaultFile, s, k)
      /\ Says(read, s, k) => files.set[s][k] = read.set[s][k]
      /\ ~Says(read, s, k) /\ Says(DefaultFile, s, k)
           => files.set[s][k] = DefaultFile.set[s][k]
  BY MergedKey DEF files
<1>8. /\ Says(over, s, k) <=> <<s, k>> \in DOMAIN env.vars
      /\ Says(over, s, k) => over.set[s][k] = env.vars[<<s, k>>]
  BY EnvKey DEF over
<1>9. CASE <<s, k>> \in DOMAIN env.vars
  BY <1>1, <1>2, <1>5, <1>6, <1>8, <1>9 DEF Topmost
<1>10. CASE <<s, k>> \notin DOMAIN env.vars /\ Says(read, s, k)
  BY <1>1, <1>2, <1>5, <1>6, <1>7, <1>8, <1>10 DEF Topmost
<1>11. CASE <<s, k>> \notin DOMAIN env.vars /\ ~Says(read, s, k) /\ Says(DefaultFile, s, k)
  BY <1>1, <1>2, <1>5, <1>6, <1>7, <1>8, <1>11 DEF Topmost
<1>12. CASE <<s, k>> \notin DOMAIN env.vars /\ ~Says(read, s, k) /\ ~Says(DefaultFile, s, k)
  BY <1>1, <1>2, <1>5, <1>6, <1>7, <1>8, <1>12 DEF Topmost
<1> QED
  BY <1>9, <1>10, <1>11, <1>12

(* Its budgets are those of the file that is read, or else the default ones.*)
ListOf(read) == IF read.budgets # << >> THEN read.budgets[1] ELSE DefaultFile.budgets[1]

LEMMA LoadedBudgets ==
  ASSUME NEW read \in Layers \cup {Nothing}, NEW env, Config(read, env) # Failed
  PROVE  /\ Config(read, env).budgets = ListOf(read)
         /\ ListOf(read) \in Seq(Listed)
         /\ \A i \in DOMAIN ListOf(read) :
              LET b == ListOf(read)[i] IN ValidBudget(b) /\ IsLimit(b.hard) /\ IsLimit(b.soft)
<1> DEFINE over == EnvLayer(env.vars)
           files == Merge(DefaultFile, read)
           merged == Merge(files, over)
           whole == Merge([set |-> Optional, budgets |-> << >>], merged)
<1>1. /\ ~Missing(merged) /\ Config(read, env) = [whole EXCEPT !.budgets = Head(@)]
      /\ Valid([whole EXCEPT !.budgets = Head(@)])
  BY DEF Config, Loaded, Complete
<1>2. over.budgets = << >>
  BY DEF EnvLayer
<1>3. /\ [whole EXCEPT !.budgets = Head(@)].budgets = Head(whole.budgets)
      /\ whole.budgets = merged.budgets /\ merged.budgets = files.budgets
      /\ files.budgets = IF read.budgets = << >> THEN DefaultFile.budgets ELSE read.budgets
  BY <1>2 DEF Merge
<1>4. merged.budgets # << >>
  BY <1>1 DEF Missing
<1>5. DefaultFile.budgets \in Seq(Seq(Listed)) /\ read.budgets \in Seq(Seq(Listed))
  <2>1. DefaultFile \in Layers
    BY FilesAssumption DEF Layers
  <2>2. Nothing.budgets = << >> /\ << >> \in Seq(Seq(Listed))
    BY DEF Nothing
  <2>3. \A layer \in Layers : layer.budgets \in Seq(Seq(Listed))
    BY FilesAssumption
  <2> QED
    BY <2>1, <2>2, <2>3
<1>6. files.budgets # << >> /\ files.budgets \in Seq(Seq(Listed))
      /\ Head(files.budgets) = ListOf(read)
  BY <1>3, <1>4, <1>5 DEF ListOf
<1> HIDE DEF whole, merged, files, over
<1>7. Head(files.budgets) \in Seq(Listed)
  BY <1>6
<1>8. Config(read, env).budgets = ListOf(read)
  BY <1>1, <1>3, <1>6
<1>9. Valid(Config(read, env))
  BY <1>1
<1>10. \A i \in DOMAIN ListOf(read) : ValidBudget(ListOf(read)[i])
  BY <1>8, <1>9 DEF Valid
<1>11. \A i \in DOMAIN ListOf(read) : ListOf(read)[i] \in Listed
  BY <1>6, <1>7
<1> QED
  BY <1>6, <1>7, <1>8, <1>10, <1>11, FilesAssumption

--------------------------------------------------------------------------------
(* Budgets                                                                  *)

(* The nearest micro, which keeps the order.                                *)
LEMMA MicrosRound ==
  ASSUME NEW v \in Int, v > 0
  PROVE  /\ Micros(v) \in Int /\ Micros(v) >= 0 /\ 10 * Micros(v) - v \in -5..5
         /\ \A u \in Int : 0 < u /\ u <= v => Micros(u) <= Micros(v)
BY DEF Micros

(* What becomes of a limit that converts.                                   *)
LEMMA LimitRounds ==
  ASSUME NEW limit, IsLimit(limit), Positive(limit), LimitOf(limit) # <<Failed>>
  PROVE  \/ limit = << >> /\ LimitOf(limit) = << >>
         \/ /\ limit = <<limit[1]>> /\ limit[1] \in Int /\ limit[1] # NotANumber
            /\ limit[1] > 0 /\ LimitOf(limit) = <<Micros(limit[1])>>
<1>1. CASE limit = << >>
  BY <1>1 DEF LimitOf
<1>2. CASE limit # << >>
  <2>1. limit = <<limit[1]>> /\ (limit[1] = NotANumber \/ limit[1] \in Int)
    BY <1>2 DEF IsLimit
  <2>2. LimitOf(limit) = <<FromUsd(limit[1])>> /\ FromUsd(limit[1]) # Failed
    BY <1>2 DEF LimitOf
  <2>3. limit[1] # NotANumber /\ FromUsd(limit[1]) = Micros(limit[1])
    BY <2>2 DEF FromUsd
  <2>4. limit[1] > 0
    <3>1. 1 \in DOMAIN limit
      BY <2>1
    <3> QED
      BY <2>3, <3>1 DEF Positive
  <2> QED
    BY <2>1, <2>2, <2>3, <2>4
<1> QED
  BY <1>1, <1>2

LEMMA RowRounds ==
  ASSUME NEW b, ValidBudget(b), IsLimit(b.hard), IsLimit(b.soft), Converts(b)
  PROVE  LET row == BudgetRow(b) IN
         /\ Amounts(b.hard, row.hard) /\ Amounts(b.soft, row.soft)
         /\ row.hard # << >> => row.hard[1] >= 0
         /\ row.hard # << >> /\ row.soft # << >> => row.soft[1] <= row.hard[1]
<1> DEFINE row == BudgetRow(b)
<1>1. row.hard = LimitOf(b.hard) /\ row.soft = LimitOf(b.soft)
  BY DEF BudgetRow
<1>2. Positive(b.hard) /\ Positive(b.soft) /\ Ordered(b.soft, b.hard)
      /\ LimitOf(b.hard) # <<Failed>> /\ LimitOf(b.soft) # <<Failed>>
  BY DEF ValidBudget, Converts
<1> HIDE DEF row
<1>3. ASSUME NEW limit, IsLimit(limit), Positive(limit), LimitOf(limit) # <<Failed>>
      PROVE  Amounts(limit, LimitOf(limit)) /\ (LimitOf(limit) # << >> => LimitOf(limit)[1] >= 0)
  <2>1. CASE limit = << >> /\ LimitOf(limit) = << >>
    BY <2>1 DEF Amounts
  <2>2. CASE /\ limit = <<limit[1]>> /\ limit[1] \in Int /\ limit[1] > 0
             /\ LimitOf(limit) = <<Micros(limit[1])>>
    <3>1. Micros(limit[1]) >= 0 /\ 10 * Micros(limit[1]) - limit[1] \in -5..5
      BY <2>2, MicrosRound
    <3>2. Len(limit) = 1 /\ Len(LimitOf(limit)) = 1 /\ DOMAIN limit = {1}
          /\ LimitOf(limit)[1] = Micros(limit[1])
      BY <2>2
    <3> QED
      BY <3>1, <3>2 DEF Amounts
  <2> QED
    BY <1>3, <2>1, <2>2, LimitRounds
<1>4. row.hard # << >> /\ row.soft # << >> => row.soft[1] <= row.hard[1]
  <2> SUFFICES ASSUME row.hard # << >>, row.soft # << >> PROVE row.soft[1] <= row.hard[1]
    OBVIOUS
  <2>1. /\ b.hard # << >> /\ b.hard[1] \in Int /\ b.hard[1] > 0 /\ b.hard[1] # NotANumber
        /\ row.hard[1] = Micros(b.hard[1])
    BY <1>1, <1>2, LimitRounds
  <2>2. /\ b.soft # << >> /\ b.soft[1] \in Int /\ b.soft[1] > 0 /\ b.soft[1] # NotANumber
        /\ row.soft[1] = Micros(b.soft[1])
    BY <1>1, <1>2, LimitRounds
  <2>3. b.soft[1] <= b.hard[1]
    BY <1>2, <2>1, <2>2 DEF Ordered
  <2> QED
    BY <2>1, <2>2, <2>3, MicrosRound
<1> QED
  BY <1>1, <1>2, <1>3, <1>4 DEF row

--------------------------------------------------------------------------------
(* Tables of budgets                                                        *)

IsTable(t) == t \in Seq(Range(t))

LEMMA TableIs ==
  ASSUME NEW t, IsTable(t)
  PROVE  Len(t) \in Nat /\ DOMAIN t = 1..Len(t) /\ t = [i \in 1..Len(t) |-> t[i]]
BY DEF IsTable

LEMMA TableMade ==
  ASSUME NEW n \in Nat, NEW t, t = [i \in 1..n |-> t[i]]
  PROVE  IsTable(t)
<1>1. t \in [1..n -> Range(t)]
  BY DEF Range
<1> QED
  BY <1>1, SeqDef DEF IsTable

(* A row more is the last one, and the others stay.                         *)
LEMMA TableAppends ==
  ASSUME NEW t, IsTable(t), NEW row
  PROVE  LET u == Append(t, row) IN
         /\ IsTable(u) /\ DOMAIN t \subseteq DOMAIN u
         /\ Len(t) + 1 \in DOMAIN u \ DOMAIN t /\ u[Len(t) + 1] = row
         /\ \A id \in DOMAIN t : u[id] = t[id]
<1> DEFINE S == Range(t) \cup {row}
           u == Append(t, row)
<1>1. t \in Seq(S) /\ row \in S
  BY SeqDef DEF IsTable
<1>2. /\ u \in Seq(S) /\ Len(u) = Len(t) + 1 /\ u[Len(t) + 1] = row
      /\ \A id \in 1..Len(t) : u[id] = t[id]
  BY <1>1
<1> HIDE DEF u
<1>3. DOMAIN u = 1..Len(t) + 1 /\ Len(t) \in Nat /\ u = [i \in 1..Len(t) + 1 |-> u[i]]
      /\ DOMAIN t = 1..Len(t)
  <2>1. DOMAIN u = 1..Len(u) /\ u = [i \in 1..Len(u) |-> u[i]]
    BY <1>2
  <2>2. Len(t) \in Nat /\ DOMAIN t = 1..Len(t)
    BY <1>1
  <2> QED
    BY <1>2, <2>1, <2>2
<1>4. IsTable(u)
  BY <1>3, TableMade
<1> QED
  BY <1>2, <1>3, <1>4 DEF u

(* The rows change, and no ids.                                             *)
LEMMA TableChanges ==
  ASSUME NEW t, IsTable(t), NEW u, u = [id \in DOMAIN t |-> u[id]]
  PROVE  IsTable(u)
BY TableIs, TableMade

(* A budget makes a row of its key, which is none that was deleted.         *)
LEMMA RowIs ==
  ASSUME NEW b
  PROVE  BudgetRow(b) # << >> /\ BudgetRow(b).key = b.key
<1>1. DOMAIN BudgetRow(b) = {"key", "hard", "soft"}
  BY DEF BudgetRow
<1>2. DOMAIN << >> = {}
  OBVIOUS
<1> QED
  BY <1>1, <1>2 DEF BudgetRow

--------------------------------------------------------------------------------
(* The process that serves                                                  *)

(* The first n budgets of a list are in a table, where no later one of the  *)
(* list has the key, unless the key is one of those that are noted.         *)
Seeded(list, n, table, noted) ==
  \A i \in 1..n :
    (\A j \in i + 1..Len(list) : list[j].key # list[i].key) =>
      \/ list[i].key \in noted
      \/ \E id \in RowsOf(table, list[i].key) :
           Converts(list[i]) /\ table[id] = BudgetRow(list[i])

(* The id that was found for a budget is still that of its row; or its key  *)
(* is noted, and that which the row has by now.                             *)
Sought(b, id, table, noted) ==
  \/ id = 0
  \/ id \in RowsOf(table, b.key)
  \/ /\ id \in DOMAIN table /\ b.key \in noted
     /\ table[id] = << >> \/ table[id].key \in noted

Seeds == {"seed", "put"}
Loads(p) ==
  LET config == Config(p.read, p.env) IN
  /\ p.read \in Layers \cup {Nothing} /\ config # Failed
  /\ p.cmd.mock \/ ProviderStarts(config, p.env.secrets)
  /\ p.bind = OrElse(p.cmd.bind, config.set.server.bind)
  /\ p.socket = OrElse(p.cmd.socket, config.set.server.admin_socket)
Opened(p) ==
  /\ p.env \in Environments /\ p.db \in Databases
  /\ p.db = OrElse(p.env.database, Topmost(p.opened, p.env, "server", "database_path"))
Starting(p) ==
  /\ p.at \in {"gone", "serve", "serving"} \cup Seeds
  /\ p.at # "gone" => Opened(p)
  /\ p.at \in Seeds \cup {"serving"} => Loads(p)

(* A server has seeded what it has still to seed no more.                   *)
Seeding(p, all, keys) ==
  p.at \in Seeds \cup {"serving"} =>
    LET list == ListOf(p.read)
        table == all[p.db]
        noted == keys[p.db]
    IN
    \E n \in 0..Len(list) :
      /\ Seeded(list, n, table, noted)
      /\ p.at \in Seeds => p.todo = SubSeq(list, n + 1, Len(list))
      /\ p.at = "put" => /\ n < Len(list) /\ Converts(list[n + 1])
                         /\ Sought(list[n + 1], p.found, table, noted)
      /\ p.at = "serving" => n = Len(list)

Files == file \in Layers \cup {Nothing, Failed, Absent}
Tables ==
  /\ budgets = [d \in Databases |-> budgets[d]] /\ touched = [d \in Databases |-> touched[d]]
  /\ \A d \in Databases : IsTable(budgets[d])
ServeInv == Files /\ Tables /\ Starting(process[Server])
            /\ Seeding(process[Server], budgets, touched)

(* An init is of a preset that there is.                                    *)
PresetsNamed ==
  \A c \in Commands :
    process[c].at \in {"init", "write"} => process[c].cmd.preset \in DOMAIN Templates

(* Rows stay, or their keys are noted, before and after.                    *)
Kept(t, u, noted) ==
  \A id \in DOMAIN t :
    /\ id \in DOMAIN u
    /\ \/ u[id] = t[id]
       \/ /\ t[id] = << >> \/ t[id].key \in noted
          /\ u[id] = << >> \/ u[id].key \in noted

LEMMA KeptIsSeeded ==
  ASSUME NEW list, NEW n, NEW t, NEW u, NEW old, NEW noted, old \subseteq noted,
         Seeded(list, n, t, old), Kept(t, u, noted)
  PROVE  Seeded(list, n, u, noted)
<1> SUFFICES ASSUME NEW i \in 1..n, \A j \in i + 1..Len(list) : list[j].key # list[i].key,
                    list[i].key \notin noted
             PROVE  \E id \in RowsOf(u, list[i].key) :
                      Converts(list[i]) /\ u[id] = BudgetRow(list[i])
  BY DEF Seeded
<1>1. PICK id \in RowsOf(t, list[i].key) : Converts(list[i]) /\ t[id] = BudgetRow(list[i])
  BY DEF Seeded
<1>2. id \in DOMAIN t /\ t[id] # << >> /\ t[id].key = list[i].key
  BY <1>1 DEF RowsOf
<1>3. id \in DOMAIN u /\ u[id] = t[id]
  BY <1>2 DEF Kept
<1> QED
  BY <1>1, <1>2, <1>3 DEF RowsOf

LEMMA KeptIsSought ==
  ASSUME NEW b, NEW id, NEW t, NEW u, NEW old, NEW noted, old \subseteq noted,
         Sought(b, id, t, old), Kept(t, u, noted)
  PROVE  Sought(b, id, u, noted)
BY DEF Sought, Kept, RowsOf

(* What leaves the server alone, and its rows to operators.                 *)
LEMMA ServerKept ==
  ASSUME ServeInv, Files', Tables', process'[Server] = process[Server],
         \A d \in Databases : /\ Kept(budgets[d], budgets'[d], touched'[d])
                              /\ touched[d] \subseteq touched'[d]
  PROVE  ServeInv'
<1> DEFINE p == process[Server]
           list == ListOf(p.read)
           table == budgets[p.db]
           noted == touched[p.db]
<1>1. Starting(process'[Server])
  BY DEF ServeInv
<1>2. ASSUME p.at \in Seeds \cup {"serving"} PROVE Seeding(p, budgets', touched')
  <2>1. PICK n \in 0..Len(list) :
          /\ Seeded(list, n, table, noted)
          /\ p.at \in Seeds => p.todo = SubSeq(list, n + 1, Len(list))
          /\ p.at = "put" => /\ n < Len(list) /\ Converts(list[n + 1])
                             /\ Sought(list[n + 1], p.found, table, noted)
          /\ p.at = "serving" => n = Len(list)
    BY <1>2 DEF ServeInv, Seeding
  <2>2. p.db \in Databases
    BY <1>2 DEF ServeInv, Starting, Opened, Seeds
  <2>3. Kept(table, budgets'[p.db], touched'[p.db]) /\ noted \subseteq touched'[p.db]
    BY <2>2
  <2>4. Seeded(list, n, budgets'[p.db], touched'[p.db])
    BY <2>1, <2>3, KeptIsSeeded
  <2>5. p.at = "put" => Sought(list[n + 1], p.found, budgets'[p.db], touched'[p.db])
    BY <2>1, <2>3, KeptIsSought
  <2> QED
    BY <2>1, <2>4, <2>5 DEF Seeding
<1>3. Seeding(process'[Server], budgets', touched')
  BY <1>2 DEF Seeding
<1> QED
  BY <1>1, <1>3 DEF ServeInv

(* The server alone changes.                                                *)
LEMMA ServerChanges ==
  ASSUME ServeInv, Shapes, UNCHANGED <<file, tables>>, NEW r, Becomes(Server, r),
         Starting(r), Seeding(r, budgets, touched)
  PROVE  ServeInv'
<1>1. process'[Server] = r
  BY DEF Shapes, Becomes, Procs
<1> QED
  BY <1>1 DEF ServeInv, Files, Tables, tables

LEMMA ServerGone ==
  ASSUME ServeInv, UNCHANGED <<file, tables>>, process'[Server] = Gone
  PROVE  ServeInv'
<1>1. Gone.at = "gone"
  BY DEF Gone
<1>2. Starting(Gone) /\ Seeding(Gone, budgets, touched)
  BY <1>1 DEF Starting, Seeding, Seeds
<1> QED
  BY <1>2 DEF ServeInv, Files, Tables, tables

LEMMA ServerEnds ==
  ASSUME ServeInv, Shapes, UNCHANGED <<file, tables>>, End(Server)
  PROVE  ServeInv'
<1>1. process'[Server] = Gone
  BY DEF End, Becomes, Shapes, Procs
<1> QED
  BY <1>1, ServerGone

(* The database that a process opens is one that is named.                  *)
LEMMA Opens ==
  ASSUME ServeInv, NEW env \in Environments, Config(Content, env) # Failed
  PROVE  LET d == Config(Content, env).set.server.database_path
         IN  d \in Databases /\ d = Topmost(Content, env, "server", "database_path")
<1>1. DOMAIN env.vars \subseteq EnvKeys
  BY EnvironmentsAssumption
<1>3. "server" \in DOMAIN Sections /\ "database_path" \in Sections["server"]
  BY DEF Sections, ServerKeys
<1>4. Config(Content, env).set["server"]["database_path"]
        = Topmost(Content, env, "server", "database_path")
  BY <1>1, <1>3, LoadedSetting
<1>5. <<"server", "database_path">> \notin DOMAIN env.vars
  BY <1>1 DEF EnvKeys
<1>6. ~Missing(Merge(Merge(DefaultFile, Content), EnvLayer(env.vars))) /\ Content # Failed
  BY DEF Config, Loaded
<1>7. Says(Content, "server", "database_path") \/ Says(DefaultFile, "server", "database_path")
  <2>1. ~Says([set |-> Optional], "server", "database_path")
    BY DEF Says, Optional, ServerDefaults
  <2>2. Says(Merge(Merge(DefaultFile, Content), EnvLayer(env.vars)), "server", "database_path")
    BY <1>3, <1>6, <2>1 DEF Missing
  <2>3. ~Says(EnvLayer(env.vars), "server", "database_path")
    BY <1>1, <1>5, EnvKey
  <2> QED
    BY <2>2, <2>3, MergedKey
<1>8. Content \in Layers \cup {Nothing} /\ DefaultFile \in Layers
  BY <1>6, FilesAssumption DEF ServeInv, Files, Content, Layers
<1>9. ~Says(Nothing, "server", "database_path")
  BY DEF Nothing, Says
<1>10. \A layer \in Layers : Says(layer, "server", "database_path") =>
         layer.set["server"]["database_path"] \in Databases
  BY FilesAssumption
<1>11. CASE Says(Content, "server", "database_path")
  BY <1>4, <1>5, <1>8, <1>9, <1>10, <1>11 DEF Topmost
<1>12. CASE ~Says(Content, "server", "database_path")
  BY <1>4, <1>5, <1>7, <1>8, <1>10, <1>12 DEF Topmost
<1> QED
  BY <1>4, <1>11, <1>12

LEMMA StartServes ==
  ASSUME ServeInv, Shapes, NEW env \in Environments, NEW cmd \in ServeArgs,
         Invoke(Server, cmd, env)
  PROVE  ServeInv'
<1> DEFINE r(d) == [Gone EXCEPT !.at = cmd.is, !.cmd = cmd, !.env = env, !.opened = Content, !.db = d]
           stated == Topmost(Content, env, "server", "database_path")
<1>1. UNCHANGED <<file, tables>> /\ cmd.is = "serve"
  BY ServeArgsAssumption DEF Invoke, db
<1>2. PICK d \in Databases : Becomes(Server, r(d)) /\ d = OrElse(env.database, stated)
  <2>1. CASE env.database # << >>
    <3>1. env.database \in Seq(Databases) /\ env.database[1] \in Databases
      BY <2>1, EnvironmentsAssumption
    <3>2. Becomes(Server, r(env.database[1]))
      BY <2>1 DEF Invoke, OrElse
    <3> QED
      BY <2>1, <3>1, <3>2 DEF OrElse
  <2>2. CASE env.database = << >>
    <3>1. Config(Content, env) # Failed
      BY <2>2 DEF Invoke
    <3>2. Becomes(Server, r(Config(Content, env).set.server.database_path))
      BY <2>2 DEF Invoke, OrElse
    <3> QED
      BY <2>2, <3>1, <3>2, Opens DEF OrElse
  <2> QED
    BY <2>1, <2>2
<1>3. r(d).at = "serve" /\ r(d).env = env /\ r(d).db = d /\ r(d).opened = Content
  BY <1>1 DEF Gone
<1> HIDE DEF r
<1>4. Starting(r(d)) /\ Seeding(r(d), budgets, touched)
  BY <1>2, <1>3 DEF Starting, Opened, Seeding, Seeds
<1> QED
  BY <1>1, <1>2, <1>4, ServerChanges

LEMMA LoadServes ==
  ASSUME ServeInv, Shapes, LoadRuntime(Server)
  PROVE  ServeInv'
<1> DEFINE p == process[Server]
           config == Config(Content, p.env)
           list == ListOf(Content)
           bind == OrElse(p.cmd.bind, config.set.server.bind)
           socket == OrElse(p.cmd.socket, config.set.server.admin_socket)
           r == [p EXCEPT !.at = "seed", !.read = Content, !.todo = config.budgets,
                          !.bind = bind, !.socket = socket]
<1>1. UNCHANGED <<file, tables>> /\ p.at = "serve" /\ IsProcess(p)
  BY DEF LoadRuntime, db, Shapes, Procs
<1>2. CASE End(Server)
  BY <1>1, <1>2, ServerEnds
<1>3. CASE ~End(Server)
  <2>1. /\ config # Failed /\ (p.cmd.mock \/ ProviderStarts(config, p.env.secrets))
        /\ Becomes(Server, r)
    BY <1>3 DEF LoadRuntime
  <2>2. /\ r.at = "seed" /\ r.read = Content /\ r.todo = config.budgets
        /\ r.bind = bind /\ r.socket = socket
        /\ r.env = p.env /\ r.db = p.db /\ r.cmd = p.cmd /\ r.opened = p.opened
    BY <1>1 DEF IsProcess, Fields
  <2> HIDE DEF r
  <2>3. Content \in Layers \cup {Nothing}
    <3>1. Content # Failed
      BY <2>1 DEF Config, Loaded
    <3> QED
      BY <3>1 DEF ServeInv, Files, Content
  <2>4. Starting(r)
    <3>1. Opened(p)
      BY <1>1 DEF ServeInv, Starting
    <3> QED
      BY <2>1, <2>2, <2>3, <3>1 DEF Starting, Opened, Loads, Seeds
  <2>5. config.budgets = list /\ list \in Seq(Listed)
    BY <2>1, <2>3, LoadedBudgets
  <2>6. r.todo = SubSeq(list, 0 + 1, Len(list))
    <3>1. SubSeq(list, 1, Len(list)) = list
      BY <2>5
    <3> QED
      BY <2>2, <2>5, <3>1
  <2>7. Seeding(r, budgets, touched)
    <3>1. Seeded(list, 0, budgets[r.db], touched[r.db])
      BY DEF Seeded
    <3>2. 0 \in 0..Len(list) /\ r.read = Content /\ r.at \notin {"put", "serving"}
      BY <2>2, <2>5
    <3> QED
      BY <2>6, <3>1, <3>2 DEF Seeding
  <2> QED
    BY <1>1, <2>1, <2>4, <2>7, ServerChanges
<1> QED
  BY <1>2, <1>3

(* The server has looked for its next budget, whose key is noted no more.   *)
LEMMA FindServes ==
  ASSUME ServeInv, Shapes, FindBudget(Server)
  PROVE  ServeInv'
<1> DEFINE p == process[Server]
           list == ListOf(p.read)
           b == Head(p.todo)
           table == budgets[p.db]
<1>1. UNCHANGED <<file, budgets>> /\ p.at \in {"seed", "set", "post"} /\ p.todo # << >>
      /\ Wanted(Server) = b
  BY DEF FindBudget, Wanted
<1>2. p.at = "seed" /\ IsProcess(p) /\ Opened(p) /\ Loads(p)
  BY <1>1 DEF ServeInv, Starting, Seeds, Shapes, Procs
<1>3. CASE End(Server) /\ UNCHANGED touched
  BY <1>1, <1>3, ServerEnds DEF tables
<1>4. CASE ~(End(Server) /\ UNCHANGED touched)
  <2> DEFINE same == RowsOf(table, b.key)
             r(id) == [p EXCEPT !.at = "put", !.found = id]
  <2>1. /\ Converts(b) /\ touched' = [touched EXCEPT ![p.db] = @ \ {b.key}]
        /\ \E id \in IF same = {} THEN {0} ELSE same : Becomes(Server, r(id))
    BY <1>1, <1>4 DEF FindBudget
  <2>2. PICK id : id \in {0} \cup same /\ Becomes(Server, r(id))
    BY <2>1
  <2>3. /\ r(id).at = "put" /\ r(id).found = id /\ r(id).todo = p.todo
        /\ r(id).env = p.env /\ r(id).db = p.db /\ r(id).cmd = p.cmd /\ r(id).opened = p.opened
        /\ r(id).read = p.read /\ r(id).bind = p.bind /\ r(id).socket = p.socket
    BY <1>2 DEF IsProcess, Fields
  <2>4. process'[Server] = r(id)
    BY <2>2 DEF Becomes, Shapes, Procs
  <2> HIDE DEF r
  <2>5. Starting(r(id))
    BY <1>2, <2>3 DEF Starting, Opened, Loads, Seeds
  <2>6. p.db \in Databases /\ touched'[p.db] = touched[p.db] \ {b.key}
    BY <1>2, <2>1 DEF Opened, ServeInv, Tables
  <2>7. PICK n \in 0..Len(list) : /\ Seeded(list, n, table, touched[p.db])
                                  /\ p.todo = SubSeq(list, n + 1, Len(list))
    BY <1>2 DEF ServeInv, Seeding, Seeds
  <2>8. list \in Seq(Listed)
    BY <1>2, LoadedBudgets DEF Loads
  <2>9. n < Len(list) /\ b = list[n + 1] /\ n + 1 \in 1..Len(list)
    <3>1. n < Len(list)
      BY <1>1, <2>7, <2>8
    <3> QED
      BY <2>7, <2>8, <3>1
  <2>10. Seeded(list, n, table, touched'[p.db])
    <3> SUFFICES ASSUME NEW i \in 1..n,
                        \A j \in i + 1..Len(list) : list[j].key # list[i].key
                 PROVE  \/ list[i].key \in touched'[p.db]
                        \/ \E k \in RowsOf(table, list[i].key) :
                             Converts(list[i]) /\ table[k] = BudgetRow(list[i])
      BY DEF Seeded
    <3>1. n + 1 \in i + 1..Len(list)
      BY <2>8, <2>9
    <3>2. list[i].key # b.key
      BY <2>9, <3>1
    <3> QED
      BY <2>6, <2>7, <3>2 DEF Seeded
  <2>11. Sought(b, id, table, touched'[p.db])
    BY <2>2 DEF Sought
  <2>12. Seeding(r(id), budgets, touched')
    <3> HIDE DEF b, list, table
    <3>1. ListOf(r(id).read) = list /\ budgets[r(id).db] = table /\ r(id).db = p.db
      BY <2>3 DEF list, table
    <3> QED
      BY <2>1, <2>3, <2>7, <2>9, <2>10, <2>11, <3>1 DEF Seeding
  <2>13. Tables'
    BY <1>1, <2>1 DEF ServeInv, Tables
  <2> QED
    BY <1>1, <2>4, <2>5, <2>12, <2>13 DEF ServeInv, Files
<1> QED
  BY <1>3, <1>4

(* What the server puts is one budget more that is seeded.                  *)
LEMMA PutsOne ==
  ASSUME NEW list \in Seq(Listed), NEW n \in Nat, n < Len(list), NEW t, NEW noted, IsTable(t),
         Seeded(list, n, t, noted), Converts(list[n + 1]),
         NEW id, Sought(list[n + 1], id, t, noted),
         NEW u, u = LET row == BudgetRow(list[n + 1]) IN
                    IF id = 0 THEN Append(t, row)
                    ELSE IF t[id] = << >> THEN t
                    ELSE [t EXCEPT ![id] = [row EXCEPT !.key = t[id].key]]
  PROVE  IsTable(u) /\ Seeded(list, n + 1, u, noted)
<1> DEFINE b == list[n + 1]
           row == BudgetRow(b)
<1>1. row # << >> /\ row.key = b.key
  BY RowIs
<1>2. ASSUME IsTable(u), DOMAIN t \subseteq DOMAIN u,
             \A k \in DOMAIN t : u[k] = t[k] \/ t[k] = << >> \/ t[k].key \in noted \cup {b.key},
             b.key \in noted \/ \E k \in RowsOf(u, b.key) : u[k] = row
      PROVE  IsTable(u) /\ Seeded(list, n + 1, u, noted)
  <2> SUFFICES ASSUME NEW i \in 1..n + 1,
                      \A j \in i + 1..Len(list) : list[j].key # list[i].key,
                      list[i].key \notin noted
               PROVE  \E k \in RowsOf(u, list[i].key) :
                        Converts(list[i]) /\ u[k] = BudgetRow(list[i])
    BY <1>2 DEF Seeded
  <2>1. CASE i = n + 1
    BY <1>2, <2>1
  <2>2. CASE i # n + 1
    <3>1. i \in 1..n /\ n + 1 \in i + 1..Len(list)
      BY <2>2
    <3>2. list[i].key # b.key
      BY <3>1
    <3>3. PICK k \in RowsOf(t, list[i].key) : Converts(list[i]) /\ t[k] = BudgetRow(list[i])
      BY <3>1 DEF Seeded
    <3>4. k \in DOMAIN t /\ t[k] # << >> /\ t[k].key = list[i].key
      BY <3>3 DEF RowsOf
    <3>5. k \in DOMAIN u /\ u[k] = t[k]
      BY <1>2, <3>2, <3>4
    <3> QED
      BY <3>3, <3>4, <3>5 DEF RowsOf
  <2> QED
    BY <2>1, <2>2
<1>3. CASE id = 0
  <2>1. u = Append(t, row)
    BY <1>3
  <2> HIDE DEF row, b
  <2>2. /\ IsTable(u) /\ DOMAIN t \subseteq DOMAIN u
        /\ Len(t) + 1 \in DOMAIN u /\ u[Len(t) + 1] = row
        /\ \A k \in DOMAIN t : u[k] = t[k]
    BY <2>1, TableAppends
  <2>3. Len(t) + 1 \in RowsOf(u, b.key)
    BY <1>1, <2>2 DEF RowsOf
  <2> QED
    BY <1>2, <2>2, <2>3
<1>4. CASE id # 0 /\ t[id] = << >>
  <2>1. u = t /\ b.key \in noted
    BY <1>4 DEF Sought, RowsOf
  <2> QED
    BY <1>2, <2>1
<1>5. CASE id # 0 /\ t[id] # << >>
  <2> DEFINE put == [row EXCEPT !.key = t[id].key]
  <2>1. u = [t EXCEPT ![id] = put]
    BY <1>5
  <2>2. /\ id \in DOMAIN t /\ t[id].key \in noted \cup {b.key}
        /\ b.key \in noted \/ t[id].key = b.key
    BY <1>5 DEF Sought, RowsOf
  <2>3. t[id].key = b.key => put = row
    BY <1>1 DEF BudgetRow
  <2> HIDE DEF put, row, b
  <2>4. t = [k \in DOMAIN t |-> t[k]]
    BY TableIs
  <2>5. /\ u = [k \in DOMAIN t |-> u[k]] /\ DOMAIN u = DOMAIN t /\ u[id] = put
        /\ \A k \in DOMAIN t : k # id => u[k] = t[k]
    BY <2>1, <2>2, <2>4
  <2>6. IsTable(u)
    BY <2>5, TableChanges
  <2>7. t[id].key = b.key => id \in RowsOf(u, b.key) /\ u[id] = row
    BY <1>1, <2>2, <2>3, <2>5 DEF RowsOf
  <2> QED
    BY <1>2, <2>2, <2>5, <2>6, <2>7
<1> QED
  BY <1>3, <1>4, <1>5

LEMMA PutServes ==
  ASSUME ServeInv, Shapes, PutBudget(Server)
  PROVE  ServeInv'
<1> DEFINE p == process[Server]
           list == ListOf(p.read)
           table == budgets[p.db]
           noted == touched[p.db]
           r == [p EXCEPT !.at = "seed", !.todo = Tail(@)]
<1>1. UNCHANGED file /\ p.at = "put" /\ Becomes(Server, r)
  BY DEF PutBudget
<1>2. IsProcess(p) /\ Opened(p) /\ Loads(p)
  BY <1>1 DEF ServeInv, Starting, Seeds, Shapes, Procs
<1>3. /\ r.at = "seed" /\ r.todo = Tail(p.todo)
      /\ r.env = p.env /\ r.db = p.db /\ r.cmd = p.cmd /\ r.opened = p.opened
      /\ r.read = p.read /\ r.bind = p.bind /\ r.socket = p.socket
  BY <1>2 DEF IsProcess, Fields
<1>4. process'[Server] = r
  BY <1>1 DEF Becomes, Shapes, Procs
<1> HIDE DEF r
<1>5. PICK n \in 0..Len(list) :
        /\ Seeded(list, n, table, noted) /\ p.todo = SubSeq(list, n + 1, Len(list))
        /\ n < Len(list) /\ Converts(list[n + 1]) /\ Sought(list[n + 1], p.found, table, noted)
  BY <1>1, <1>2 DEF ServeInv, Seeding, Seeds
<1>6. list \in Seq(Listed)
  BY <1>2, LoadedBudgets DEF Loads
<1>7. Head(p.todo) = list[n + 1] /\ Tail(p.todo) = SubSeq(list, (n + 1) + 1, Len(list))
      /\ n + 1 \in 0..Len(list) /\ n \in Nat
  <2>1. n \in Nat /\ n + 1 \in 1..Len(list) /\ Len(list) \in n + 1..Len(list)
    BY <1>5, <1>6
  <2> HIDE DEF list
  <2> QED
    BY <1>5, <1>6, <2>1, HeadTailOfSubSeq
<1>8. p.db \in Databases /\ IsTable(table)
  BY <1>2 DEF Opened, ServeInv, Tables
<1> DEFINE u == LET row == BudgetRow(list[n + 1]) IN
                IF p.found = 0 THEN Append(table, row)
                ELSE IF table[p.found] = << >> THEN table
                ELSE [table EXCEPT ![p.found] = [row EXCEPT !.key = table[p.found].key]]
<1>9. budgets' = [budgets EXCEPT ![p.db] = u] /\ touched' = touched
  <2>1. Wanted(Server) = list[n + 1]
    BY <1>7 DEF Wanted
  <2>2. Changes(Server, u)
    BY <1>1, <2>1 DEF PutBudget
  <2> HIDE DEF u
  <2> QED
    BY <2>2 DEF Changes
<1>10. IsTable(u) /\ Seeded(list, n + 1, u, noted)
  <2> HIDE DEF list, table, noted
  <2> QED
    BY <1>5, <1>6, <1>7, <1>8, PutsOne
<1> HIDE DEF u
<1>11. Tables' /\ budgets'[p.db] = u /\ touched'[p.db] = noted
  BY <1>8, <1>9, <1>10 DEF ServeInv, Tables
<1>12. Seeding(r, budgets', touched')
  <2> HIDE DEF list, noted
  <2>1. ListOf(r.read) = list /\ budgets'[r.db] = u /\ touched'[r.db] = noted
    BY <1>3, <1>11 DEF list
  <2>2. r.todo = SubSeq(list, (n + 1) + 1, Len(list)) /\ r.at \notin {"put", "serving"}
    BY <1>3, <1>7
  <2> QED
    BY <1>7, <1>10, <2>1, <2>2 DEF Seeding
<1>13. Starting(r)
  BY <1>2, <1>3 DEF Starting, Opened, Loads, Seeds
<1> QED
  BY <1>1, <1>4, <1>11, <1>12, <1>13 DEF ServeInv, Files

LEMMA ServingServes ==
  ASSUME ServeInv, Shapes, StartServing(Server)
  PROVE  ServeInv'
<1> DEFINE p == process[Server]
           list == ListOf(p.read)
           r == [p EXCEPT !.at = "serving"]
<1>1. UNCHANGED <<file, tables>> /\ p.at = "seed" /\ p.todo = << >> /\ Becomes(Server, r)
  BY DEF StartServing, db, Goto, Becomes
<1>2. IsProcess(p) /\ Opened(p) /\ Loads(p)
  BY <1>1 DEF ServeInv, Starting, Seeds, Shapes, Procs
<1>3. /\ r.at = "serving"
      /\ r.env = p.env /\ r.db = p.db /\ r.cmd = p.cmd /\ r.opened = p.opened
      /\ r.read = p.read /\ r.bind = p.bind /\ r.socket = p.socket
  BY <1>2 DEF IsProcess, Fields
<1> HIDE DEF r
<1>4. PICK n \in 0..Len(list) : Seeded(list, n, budgets[p.db], touched[p.db])
                                /\ p.todo = SubSeq(list, n + 1, Len(list))
  BY <1>1 DEF ServeInv, Seeding, Seeds
<1>5. list \in Seq(Listed)
  BY <1>2, LoadedBudgets DEF Loads
<1>6. n = Len(list)
  BY <1>1, <1>4, <1>5
<1>7. Starting(r)
  BY <1>2, <1>3 DEF Starting, Opened, Loads, Seeds
<1>8. Seeding(r, budgets, touched)
  BY <1>3, <1>4, <1>6 DEF Seeding, Seeds
<1> QED
  BY <1>1, <1>7, <1>8, ServerChanges

(* An operator's change of a table keeps its rows, or notes their keys.     *)
LEMMA OperatorChanges ==
  ASSUME ServeInv, NEW c, c # Server, NEW t, Changes(c, t),
         process[c].db \in Databases =>
           IsTable(t) /\ DOMAIN budgets[process[c].db] \subseteq DOMAIN t
  PROVE  Tables' /\ \A d \in Databases : /\ Kept(budgets[d], budgets'[d], touched'[d])
                                        /\ touched[d] \subseteq touched'[d]
<1> DEFINE at == process[c].db
           old == budgets[at]
           changed == {id \in DOMAIN t : id \in DOMAIN old => t[id] # old[id]}
           rows == {old[id] : id \in changed \cap DOMAIN old} \cup {t[id] : id \in changed}
           keys == {row.key : row \in rows \ {<< >>}}
<1>1. /\ budgets' = [budgets EXCEPT ![at] = t]
      /\ touched' = [touched EXCEPT ![at] = @ \cup keys]
  BY DEF Changes
<1>2. Kept(old, t, keys) \/ at \notin Databases
  <2> SUFFICES ASSUME NEW id \in DOMAIN old, id \in DOMAIN t, t[id] # old[id]
               PROVE  /\ old[id] = << >> \/ old[id].key \in keys
                      /\ t[id] = << >> \/ t[id].key \in keys
    BY DEF Kept
  <2>1. id \in changed /\ old[id] \in rows /\ t[id] \in rows
    OBVIOUS
  <2> HIDE DEF rows
  <2> QED
    BY <2>1
<1> HIDE DEF keys
<1>3. Tables'
  BY <1>1 DEF ServeInv, Tables
<1>4. ASSUME NEW d \in Databases
      PROVE  /\ Kept(budgets[d], budgets'[d], touched'[d])
             /\ touched[d] \subseteq touched'[d]
  <2>1. CASE d = at
    <3>1. budgets'[d] = t /\ touched'[d] = touched[d] \cup keys /\ old = budgets[d]
      BY <1>1, <2>1 DEF ServeInv, Tables
    <3> HIDE DEF old
    <3> QED
      BY <1>2, <2>1, <3>1 DEF Kept
  <2>2. CASE d # at
    <3>1. budgets'[d] = budgets[d] /\ touched'[d] = touched[d]
      BY <1>1, <2>2 DEF ServeInv, Tables
    <3> QED
      BY <3>1 DEF Kept
  <2> QED
    BY <2>1, <2>2
<1> QED
  BY <1>3, <1>4

(* The tables that operators write: no id goes.                             *)
LEMMA OperatorWrites ==
  ASSUME ServeInv, NEW c \in Commands, budgets' # budgets \/ touched' # touched,
         UpdateById(c) \/ FindBudget(c) \/ PutBudget(c) \/ ResetBudget(c)
  PROVE  Tables' /\ \A d \in Databases : /\ Kept(budgets[d], budgets'[d], touched'[d])
                                        /\ touched[d] \subseteq touched'[d]
<1> DEFINE at == process[c].db
           table == budgets[at]
<1>1. c # Server
  BY ServerAssumption
<1>2. at \in Databases => IsTable(table)
  BY DEF ServeInv, Tables
<1>3. ASSUME IsTable(table), NEW u, u = [id \in DOMAIN table |-> u[id]]
      PROVE  IsTable(u) /\ DOMAIN table \subseteq DOMAIN u
  BY <1>3, TableChanges
<1>4. ASSUME IsTable(table), NEW id, NEW row
      PROVE  [table EXCEPT ![id] = row] = [k \in DOMAIN table |-> [table EXCEPT ![id] = row][k]]
  <2>1. table = [k \in DOMAIN table |-> table[k]]
    BY <1>4, TableIs
  <2> QED
    BY <2>1
<1>5. CASE UpdateById(c)
  <2> DEFINE u == [table EXCEPT ![process[c].cmd.id] = BudgetRow(process[c].cmd.budget)]
  <2>1. Changes(c, u)
    BY <1>5 DEF UpdateById, tables
  <2>2. at \in Databases => IsTable(u) /\ DOMAIN table \subseteq DOMAIN u
    <3> HIDE DEF table
    <3> QED
      BY <1>2, <1>3, <1>4
  <2> HIDE DEF u
  <2> QED
    BY <1>1, <2>1, <2>2, OperatorChanges
<1>6. CASE FindBudget(c)
  BY <1>1, <1>6 DEF FindBudget
<1>7. CASE PutBudget(c)
  <2> DEFINE row == BudgetRow(Wanted(c))
             id == process[c].found
             put == [row EXCEPT !.key = table[id].key]
             u == IF id = 0 THEN Append(table, row)
                  ELSE IF table[id] = << >> THEN table ELSE [table EXCEPT ![id] = put]
  <2>1. Changes(c, u)
    BY <1>7 DEF PutBudget
  <2>2. at \in Databases => IsTable(u) /\ DOMAIN table \subseteq DOMAIN u
    <3> HIDE DEF table, row, put
    <3>1. CASE id = 0
      BY <1>2, <3>1, TableAppends
    <3>2. CASE id # 0 /\ table[id] = << >>
      BY <1>2, <3>2
    <3>3. CASE id # 0 /\ table[id] # << >>
      BY <1>2, <1>3, <1>4, <3>3
    <3> QED
      BY <3>1, <3>2, <3>3
  <2> HIDE DEF u
  <2> QED
    BY <1>1, <2>1, <2>2, OperatorChanges
<1>8. CASE ResetBudget(c)
  <2> DEFINE gone == RowsOf(table, process[c].cmd.key)
             u == [id \in DOMAIN table |-> IF id \in gone THEN << >> ELSE table[id]]
  <2>1. Changes(c, u)
    BY <1>8 DEF ResetBudget
  <2>2. at \in Databases => IsTable(u) /\ DOMAIN table \subseteq DOMAIN u
    <3> HIDE DEF table, gone
    <3>1. u = [id \in DOMAIN table |-> u[id]]
      OBVIOUS
    <3> HIDE DEF u
    <3> QED
      BY <1>2, <1>3, <3>1
  <2> HIDE DEF u
  <2> QED
    BY <1>1, <2>1, <2>2, OperatorChanges
<1> QED
  BY <1>5, <1>6, <1>7, <1>8

(* Commands and handlers leave the server alone, and its rows to operators. *)
LEMMA CommandServes ==
  ASSUME ServeInv, PresetsNamed, Shapes, NEW c \in Commands,
         \/ \E cmd, env : Invoke(c, cmd, env)
         \/ \E cmd : PostBudget(c, cmd)
         \/ EmptyTarget(c) \/ WriteTarget(c)
         \/ UpdateById(c) \/ FindBudget(c) \/ PutBudget(c) \/ ResetBudget(c)
         \/ ValidateUpdate(c) \/ Register(c) \/ Import(c) \/ Ends(c)
  PROVE  ServeInv'
<1>1. c # Server
  BY ServerAssumption
<1>2. process'[Server] = process[Server]
  <2>1. CASE Ends(c)
    BY <1>1, <2>1 DEF Ends, Shapes, Procs
  <2>2. CASE ~Ends(c)
    <3>1. PICK r : process' = [process EXCEPT ![c] = r]
      BY <2>2 DEF Invoke, PostBudget, EmptyTarget, WriteTarget, UpdateById, FindBudget, PutBudget,
         ResetBudget, ValidateUpdate, Register, Import, End, Goto, Becomes
    <3> QED
      BY <1>1, <3>1 DEF Shapes, Procs
  <2> QED
    BY <2>1, <2>2
<1>3. Files'
  <2>1. process[c].at = "write" => Templates[process[c].cmd.preset] \in Layers \cup {Failed}
    BY DEF PresetsNamed, Layers, Range
  <2> QED
    BY <2>1 DEF Invoke, PostBudget, EmptyTarget, WriteTarget, UpdateById, FindBudget, PutBudget,
       ResetBudget, ValidateUpdate, Register, Import, Ends, ServeInv, Files
<1>4. CASE UNCHANGED tables
  <2>1. Tables' /\ \A d \in Databases : /\ Kept(budgets[d], budgets'[d], touched'[d])
                                        /\ touched[d] \subseteq touched'[d]
    BY <1>4 DEF ServeInv, Tables, Kept, tables
  <2> QED
    BY <1>2, <1>3, <2>1, ServerKept
<1>5. CASE ~UNCHANGED tables
  <2>1. UpdateById(c) \/ FindBudget(c) \/ PutBudget(c) \/ ResetBudget(c)
    BY <1>5 DEF Invoke, PostBudget, EmptyTarget, WriteTarget, ValidateUpdate, Register, Import,
       Ends, db
  <2>2. Tables' /\ \A d \in Databases : /\ Kept(budgets[d], budgets'[d], touched'[d])
                                        /\ touched[d] \subseteq touched'[d]
    BY <1>5, <2>1, OperatorWrites DEF tables
  <2> QED
    BY <1>2, <1>3, <2>2, ServerKept
<1> QED
  BY <1>4, <1>5

LEMMA NextPresets ==
  ASSUME PresetsNamed, Shapes, [Next]_vars
  PROVE  PresetsNamed'
<1>1. ASSUME NEW p \in Procs, NEW r, Becomes(p, r),
             r.at \in {"init", "write"} =>
               p = Server \/ r.cmd.preset \in DOMAIN Templates
      PROVE  PresetsNamed'
  BY <1>1, ServerAssumption DEF Becomes, Shapes, Procs, PresetsNamed
<1>2. ASSUME NEW p \in Procs, NEW cmd, NEW env, Invoke(p, cmd, env),
             cmd.is = "init" => p = Server \/ cmd.preset \in DOMAIN Templates,
             cmd.is # "write"
      PROVE  PresetsNamed'
  <2> DEFINE r(d) == [Gone EXCEPT !.at = cmd.is, !.cmd = cmd, !.env = env, !.opened = Content, !.db = d]
  <2>1. PICK d : Becomes(p, r(d))
    BY <1>2 DEF Invoke
  <2>2. r(d).at = cmd.is /\ r(d).cmd = cmd
    BY DEF Gone
  <2> HIDE DEF r
  <2> QED
    BY <1>1, <1>2, <2>1, <2>2
<1>3. ASSUME NEW p \in Procs, End(p) PROVE PresetsNamed'
  <2>1. Gone.at = "gone"
    BY DEF Gone
  <2> QED
    BY <1>1, <1>3, <2>1 DEF End
<1>4. CASE LoadRuntime(Server) \/ FindBudget(Server) \/ PutBudget(Server) \/ StartServing(Server)
  <2>1. PICK r : process' = [process EXCEPT ![Server] = r]
    BY <1>4 DEF LoadRuntime, FindBudget, PutBudget, StartServing, Becomes, End, Goto
  <2>2. \A c \in Commands : process'[c] = process[c]
    BY <2>1, ServerAssumption DEF Shapes, Procs
  <2> QED
    BY <2>2 DEF PresetsNamed
<1>5. ASSUME NEW c \in Commands, EmptyTarget(c), ~End(c) PROVE PresetsNamed'
  <2> DEFINE r == [process[c] EXCEPT !.at = "write"]
  <2>1. process[c].at = "init" /\ Becomes(c, r) /\ IsProcess(process[c])
    BY <1>5 DEF EmptyTarget, Goto, Becomes, Shapes, Procs
  <2>2. r.cmd = process[c].cmd
    BY <2>1 DEF IsProcess, Fields
  <2> HIDE DEF r
  <2> QED
    BY <1>1, <2>1, <2>2 DEF PresetsNamed, Procs
<1>6. ASSUME NEW c \in Commands, ValidateUpdate(c), ~End(c) PROVE PresetsNamed'
  <2> DEFINE r == [process[c] EXCEPT !.at = "register",
                                     !.todo = Registrations(process[c].cmd.book)]
  <2>1. Becomes(c, r) /\ IsProcess(process[c])
    BY <1>6 DEF ValidateUpdate, Shapes, Procs
  <2>2. r.at = "register"
    BY <2>1 DEF IsProcess, Fields
  <2> HIDE DEF r
  <2> QED
    BY <1>1, <2>1, <2>2 DEF Procs
<1>7. ASSUME NEW c \in Commands, Register(c) PROVE PresetsNamed'
  <2> DEFINE r == [process[c] EXCEPT !.todo = Tail(@)]
  <2>1. Becomes(c, r) /\ IsProcess(process[c]) /\ process[c].at = "register"
    BY <1>7 DEF Register, Becomes, Shapes, Procs
  <2>2. r.at = "register"
    BY <2>1 DEF IsProcess, Fields
  <2> HIDE DEF r
  <2> QED
    BY <1>1, <2>1, <2>2 DEF Procs
<1>8. CASE UNCHANGED process
  BY <1>8 DEF PresetsNamed
<1>9. ASSUME NEW env, NEW cmd \in ServeArgs, Invoke(Server, cmd, env)
      PROVE  PresetsNamed'
  BY <1>2, <1>9, ServeArgsAssumption DEF Procs
<1>10. ASSUME NEW env, NEW c \in Commands, NEW cmd \in Calls, Invoke(c, cmd, env)
       PROVE  PresetsNamed'
  <2>1. (cmd.is = "init" => cmd.preset \in DOMAIN Templates) /\ cmd.is # "write" /\ c \in Procs
    BY DEF Calls, Procs
  <2> QED
    BY <1>2, <1>10, <2>1
<1>11. ASSUME NEW c \in Commands, WriteTarget(c) \/ ResetBudget(c) \/ Import(c)
       PROVE  PresetsNamed'
  BY <1>3, <1>11 DEF WriteTarget, ResetBudget, Import, Procs
<1>12. ASSUME NEW p \in Procs, Ends(p) PROVE PresetsNamed'
  <2>1. \A c \in Commands : process'[c] = Gone \/ process'[c] = process[c]
    BY <1>12 DEF Ends, Procs
  <2> QED
    BY <2>1 DEF PresetsNamed, Gone
<1>13. CASE (\E layer \in Edits : EditFile(layer)) \/ Tick \/ UNCHANGED vars
  BY <1>8, <1>13 DEF EditFile, Tick, vars
<1>14. ASSUME NEW c \in Commands, End(c) PROVE PresetsNamed'
  BY <1>3, <1>14 DEF Procs
<1>15. ASSUME NEW c \in Commands, NEW r, Becomes(c, r), r.at \notin {"init", "write"}
       PROVE  PresetsNamed'
  BY <1>1, <1>15 DEF Procs
<1>16. ASSUME NEW c \in Commands, NEW cmd, PostBudget(c, cmd) PROVE PresetsNamed'
  <2> DEFINE r == [Gone EXCEPT !.at = IF cmd.id > 0 THEN "move" ELSE "post", !.cmd = cmd,
                               !.db = process[Server].db]
  <2>1. Becomes(c, r)
    BY <1>16 DEF PostBudget
  <2>2. r.at \notin {"init", "write"}
    BY DEF Gone
  <2> HIDE DEF r
  <2> QED
    BY <1>15, <2>1, <2>2
<1>17. ASSUME NEW c \in Commands, UpdateById(c), ~End(c) PROVE PresetsNamed'
  <2> DEFINE r == [process[c] EXCEPT !.at = "post"]
  <2>1. Becomes(c, r) /\ IsProcess(process[c])
    BY <1>17 DEF UpdateById, Goto, Becomes, Shapes, Procs
  <2>2. r.at = "post"
    BY <2>1 DEF IsProcess, Fields
  <2> HIDE DEF r
  <2> QED
    BY <1>15, <2>1, <2>2
<1>18. ASSUME NEW c \in Commands, FindBudget(c), ~End(c) PROVE PresetsNamed'
  <2> DEFINE r(id) == [process[c] EXCEPT !.at = "put", !.found = id]
  <2>1. IsProcess(process[c]) /\ \E id : Becomes(c, r(id))
    BY <1>18 DEF FindBudget, Shapes, Procs
  <2>2. PICK id : Becomes(c, r(id))
    BY <2>1
  <2>3. r(id).at = "put"
    BY <2>1 DEF IsProcess, Fields
  <2> HIDE DEF r
  <2> QED
    BY <1>15, <2>2, <2>3
<1>19. ASSUME NEW c \in Commands, PutBudget(c), ~End(c) PROVE PresetsNamed'
  BY <1>19, ServerAssumption DEF PutBudget
<1>20. ASSUME NEW c \in Commands,
              \/ EmptyTarget(c) \/ WriteTarget(c)
              \/ UpdateById(c) \/ FindBudget(c) \/ PutBudget(c) \/ ResetBudget(c)
              \/ ValidateUpdate(c) \/ Register(c) \/ Import(c)
       PROVE  PresetsNamed'
  BY <1>5, <1>6, <1>7, <1>11, <1>14, <1>17, <1>18, <1>19, <1>20
<1> QED
  BY <1>4, <1>9, <1>10, <1>12, <1>13, <1>16, <1>20 DEF Next

LEMMA NextServes ==
  ASSUME ServeInv, PresetsNamed, Shapes, [Next]_vars
  PROVE  ServeInv'
<1>1. ASSUME NEW c \in Commands,
             (\E cmd, env : Invoke(c, cmd, env)) \/ \E cmd : PostBudget(c, cmd)
      PROVE  ServeInv'
  BY <1>1, CommandServes
<1>2. CASE LoadRuntime(Server) \/ FindBudget(Server) \/ PutBudget(Server) \/ StartServing(Server)
  BY <1>2, LoadServes, FindServes, PutServes, ServingServes
<1>3. ASSUME NEW c \in Commands,
             \/ EmptyTarget(c) \/ WriteTarget(c)
             \/ UpdateById(c) \/ FindBudget(c) \/ PutBudget(c) \/ ResetBudget(c)
             \/ ValidateUpdate(c) \/ Register(c) \/ Import(c)
      PROVE  ServeInv'
  BY <1>3, CommandServes
<1>4. ASSUME NEW p \in Procs, Ends(p) PROVE ServeInv'
  <2>1. CASE p = Server
    <3>1. process'[Server] = Gone /\ UNCHANGED <<file, tables>>
      BY <1>4, <2>1 DEF Ends, db
    <3> QED
      BY <3>1, ServerGone
  <2>2. CASE p \in Commands
    BY <1>4, <2>2, CommandServes
  <2> QED
    BY <2>1, <2>2 DEF Procs
<1>5. ASSUME NEW layer \in Edits, EditFile(layer) PROVE ServeInv'
  <2>1. Files'
    BY <1>5 DEF EditFile, Files, Layers
  <2> QED
    BY <1>5, <2>1 DEF EditFile, db, tables, ServeInv, Tables
<1>6. CASE Tick \/ UNCHANGED vars
  BY <1>6 DEF Tick, vars, db, tables, ServeInv, Files, Tables
<1>7. ASSUME NEW env \in Environments, NEW cmd \in ServeArgs, Invoke(Server, cmd, env)
      PROVE  ServeInv'
  BY <1>7, StartServes
<1> QED
  BY <1>1, <1>2, <1>3, <1>4, <1>5, <1>6, <1>7 DEF Next

LEMMA InitServes == Init => ServeInv /\ PresetsNamed
<1> SUFFICES ASSUME Init PROVE ServeInv /\ PresetsNamed
  OBVIOUS
<1>1. \A p \in Procs : process[p].at = "gone"
  BY DEF Init, Gone
<1>2. \A d \in Databases : budgets[d] = << >> /\ IsTable(budgets[d])
  BY DEF Init, IsTable
<1>3. Tables /\ Files
  BY <1>2 DEF Init, Tables, Files
<1> QED
  BY <1>1, <1>3 DEF ServeInv, Starting, Seeding, Seeds, PresetsNamed, Procs

(* A process that serves does so as it was configured.                      *)
LEMMA ServesAsLoaded == ASSUME ServeInv PROVE ServedAsConfigured
<1> DEFINE p == process[Server]
           config == Config(p.read, p.env)
           stated(s, k) == Topmost(p.read, p.env, s, k)
           lists == IF p.read.budgets # << >> THEN p.read.budgets[1] ELSE DefaultFile.budgets[1]
           chosen == stated("defaults", "provider")
           database == Topmost(p.opened, p.env, "server", "database_path")
<1> SUFFICES ASSUME p.at = "serving"
             PROVE  /\ \A s \in DOMAIN Sections : \A k \in Sections[s] :
                         config.set[s][k] = stated(s, k)
                    /\ p.bind = OrElse(p.cmd.bind, stated("server", "bind"))
                    /\ p.socket = OrElse(p.cmd.socket, stated("server", "admin_socket"))
                    /\ p.db = OrElse(p.env.database, database)
                    /\ p.cmd.mock \/ /\ stated(chosen, "enabled")
                                     /\ stated(chosen, "api_key_env") \in p.env.secrets
                    /\ \A i \in DOMAIN lists :
                         (\A j \in i + 1..Len(lists) : lists[j].key # lists[i].key)
                           => Enforced(lists[i], budgets[p.db]) \/ lists[i].key \in touched[p.db]
  BY DEF ServedAsConfigured
<1>1. Loads(p) /\ Opened(p)
  BY DEF ServeInv, Starting, Seeds
<1>2. \A s \in DOMAIN Sections : \A k \in Sections[s] : config.set[s][k] = stated(s, k)
  BY <1>1, EnvironmentsAssumption, LoadedSetting DEF Loads, Opened
<1>3. \/ p.cmd.mock
      \/ stated(chosen, "enabled") /\ stated(chosen, "api_key_env") \in p.env.secrets
  <2> SUFFICES ASSUME ProviderStarts(config, p.env.secrets)
               PROVE  /\ stated(chosen, "enabled")
                      /\ stated(chosen, "api_key_env") \in p.env.secrets
    BY <1>1 DEF Loads
  <2>1. /\ "defaults" \in DOMAIN Sections /\ "provider" \in Sections["defaults"]
        /\ \A q \in Providers : /\ q \in DOMAIN Sections
                                /\ "enabled" \in Sections[q] /\ "api_key_env" \in Sections[q]
    BY DEF Sections, DefaultsKeys, Providers, ProviderKeys
  <2>2. config.set["defaults"]["provider"] = chosen
    BY <1>2, <2>1
  <2>3. /\ chosen \in Providers /\ config.set[chosen]["enabled"]
        /\ config.set[chosen]["api_key_env"] \in p.env.secrets
    BY <2>2 DEF ProviderStarts, HasKey
  <2> HIDE DEF chosen
  <2> QED
    BY <1>2, <2>1, <2>3
<1>4. PICK n \in 0..Len(lists) : /\ Seeded(lists, n, budgets[p.db], touched[p.db])
                                 /\ n = Len(lists)
  BY DEF ServeInv, Seeding, ListOf
<1>5. /\ lists \in Seq(Listed)
      /\ \A i \in DOMAIN lists :
           ValidBudget(lists[i]) /\ IsLimit(lists[i].hard) /\ IsLimit(lists[i].soft)
  BY <1>1, LoadedBudgets DEF Loads, ListOf
<1> HIDE DEF lists
<1>6. ASSUME NEW i \in DOMAIN lists, \A j \in i + 1..Len(lists) : lists[j].key # lists[i].key,
             lists[i].key \notin touched[p.db]
      PROVE  Enforced(lists[i], budgets[p.db])
  <2> DEFINE b == lists[i]
             table == budgets[p.db]
  <2>1. i \in 1..n
    BY <1>4, <1>5
  <2>2. PICK id \in RowsOf(table, b.key) : Converts(b) /\ table[id] = BudgetRow(b)
    BY <1>4, <1>6, <2>1 DEF Seeded
  <2>3. ValidBudget(b) /\ IsLimit(b.hard) /\ IsLimit(b.soft)
    BY <1>5
  <2> HIDE DEF b, table
  <2> QED
    BY <2>2, <2>3, RowRounds DEF Enforced, b, table
<1>7. /\ p.bind = OrElse(p.cmd.bind, stated("server", "bind"))
      /\ p.socket = OrElse(p.cmd.socket, stated("server", "admin_socket"))
  <2>1. /\ "server" \in DOMAIN Sections
        /\ "bind" \in Sections["server"] /\ "admin_socket" \in Sections["server"]
    BY DEF Sections, ServerKeys
  <2>2. config.set.server.bind = stated("server", "bind")
        /\ config.set.server.admin_socket = stated("server", "admin_socket")
    BY <1>2, <2>1
  <2> QED
    BY <1>1, <2>2 DEF Loads
<1>8. p.db = OrElse(p.env.database, database)
  BY <1>1 DEF Opened
<1> QED
  BY <1>2, <1>3, <1>6, <1>7, <1>8 DEF lists

(* The invariant of the setup: the shapes of processes, the prices, what a  *)
(* server has loaded and seeded, and the presets that are written.          *)
LEMMA SetupHolds == Spec => [](IInv /\ ServeInv /\ PresetsNamed)
<1> DEFINE All == IInv /\ ServeInv /\ PresetsNamed
<1>1. Init => All
  BY InitIsValid, InitServes
<1>2. All /\ [Next]_vars => All'
  BY StepIsWhole, NextServes, NextPresets DEF IInv
<1> QED
  BY <1>1, <1>2, PTL DEF Spec

(* run_serve_with_shutdown, load_config and the seeding: what a process     *)
(* serves with and where is what its command line or the topmost source     *)
(* states (of the first reading, for the database), and the configured      *)
(* budgets are in its table, but for those whose keys an operator changes   *)
(* after it has looked for them: whatever processes were started before or  *)
(* beside it, and wherever they ended.                                      *)
THEOREM ConfiguredIsServed == Spec => []ServedAsConfigured
<1>1. IInv /\ ServeInv /\ PresetsNamed => ServedAsConfigured
  BY ServesAsLoaded
<1> QED
  BY <1>1, SetupHolds, PTL

--------------------------------------------------------------------------------
(* What a process bills                                                     *)

Half == Mtok \div 2
Rounded(tokens, rate) == (tokens * rate + Half) \div Mtok
Capped(x) == IF x > MaxMoney THEN Overflow ELSE x
Some(count) == IF count = 0 THEN 0 ELSE 1

LEMMA Product == ASSUME NEW a \in Nat, NEW b \in Nat PROVE a * b \in Nat
OBVIOUS

(* A part of a cost, before it is checked to fit, is off by half a micro if *)
(* there are such tokens.                                                   *)
LEMMA RoundedPart ==
  ASSUME NEW tokens \in Nat, NEW rate \in Nat
  PROVE  /\ Rounded(tokens, rate) \in Nat
         /\ Prorate(tokens, rate) = Capped(Rounded(tokens, rate))
         /\ Rounded(tokens, rate) * Mtok - tokens * rate \in -(Some(tokens) * Half)..Some(tokens) * Half
<1> DEFINE n == tokens * rate
           q == (n + Half) \div Mtok
<1>1. Mtok \in Nat \ {0} /\ MaxMoney \in Nat
  BY MtokAssumption, MaxMoneyAssumption
<1>2. Half \in Nat /\ 2 * Half <= Mtok /\ Mtok <= 2 * Half + 1
  BY <1>1, Halves DEF Half
<1>3. n \in Nat
  BY Product
<1>4. Prorate(tokens, rate) =
        IF q > MaxMoney \/ q < -MaxMoney - 1 THEN Overflow ELSE q
  <2>1. n >= 0
    BY <1>3
  <2> QED
    BY <2>1 DEF Prorate, Half
<1> HIDE DEF n
<1>5. q \in Int /\ q * Mtok <= n + Half /\ n + Half < q * Mtok + Mtok
  BY <1>1, <1>2, <1>3, Division
<1>6. q >= 0
  <2> SUFFICES ASSUME q <= -1 PROVE FALSE
    BY <1>5
  <2>1. q * Mtok + Mtok <= 0
    <3>1. (q + 1) * Mtok <= 0
      <4>1. -(q + 1) \in Nat
        BY <1>5
      <4>2. (-(q + 1)) * Mtok \in Nat
        BY <1>1, <4>1, Product
      <4> QED
        BY <1>1, <1>5, <4>2
    <3> QED
      BY <1>1, <1>5, <3>1
  <2> QED
    BY <1>1, <1>2, <1>3, <1>5, <2>1
<1>7. tokens = 0 => q * Mtok - n = 0
  <2> SUFFICES ASSUME tokens = 0 PROVE q = 0 /\ n = 0
    BY <1>1
  <2>1. n = 0
    BY DEF n
  <2>2. Half < Mtok
    BY <1>1, <1>2
  <2>3. q = 0
    <3> SUFFICES ASSUME q >= 1 PROVE FALSE
      BY <1>5, <1>6
    <3>1. (q - 1) * Mtok \in Nat
      BY <1>1, <1>5, Product
    <3>2. q * Mtok >= Mtok
      BY <1>1, <1>5, <3>1
    <3> QED
      BY <1>1, <1>2, <1>5, <2>1, <2>2, <3>2
  <2> QED
    BY <2>1, <2>3
<1>8. q * Mtok - n \in -Half..Half
  <2> DEFINE m == q * Mtok
  <2>1. m \in Int
    BY <1>1, <1>5
  <2> HIDE DEF m, q
  <2>2. m <= n + Half /\ n + Half < m + Mtok
    BY <1>5 DEF m
  <2> QED
    BY <1>1, <1>2, <1>3, <2>1, <2>2 DEF m
<1>9. q \in Nat /\ ~(q < -MaxMoney - 1)
  BY <1>1, <1>5, <1>6
<1>10. Rounded(tokens, rate) = q
  BY DEF Rounded, n
<1> HIDE DEF q
<1>11. q * Mtok - n \in -(Some(tokens) * Half)..Some(tokens) * Half
  <2>1. CASE tokens = 0
    <3>1. Some(tokens) * Half = 0
      BY <1>2, <2>1 DEF Some
    <3> QED
      BY <1>7, <2>1, <3>1
  <2>2. CASE tokens # 0
    <3>1. Some(tokens) * Half = Half
      BY <1>2, <2>2 DEF Some
    <3> QED
      BY <1>8, <3>1
  <2> QED
    BY <2>1, <2>2
<1> QED
  BY <1>4, <1>9, <1>10, <1>11 DEF Capped, n

LEMMA CappedAdds ==
  ASSUME NEW a \in Nat, NEW b \in Nat
  PROVE  Add(Capped(a), Capped(b)) = Capped(a + b)
<1>1. MaxMoney \in Nat /\ Overflow \notin Int
  BY MaxMoneyAssumption, MarksAssumption
<1>2. CASE a > MaxMoney \/ b > MaxMoney
  <2>1. a + b > MaxMoney
    BY <1>1, <1>2
  <2> QED
    BY <1>2, <2>1 DEF Capped, Add
<1>3. CASE ~(a > MaxMoney) /\ ~(b > MaxMoney)
  <2>1. Capped(a) = a /\ Capped(b) = b /\ a # Overflow /\ b # Overflow
    BY <1>1, <1>3 DEF Capped
  <2>2. ~(a + b < -MaxMoney - 1)
    BY <1>1
  <2> QED
    BY <2>1, <2>2 DEF Capped, Add
<1> QED
  BY <1>2, <1>3

Counts == [input : Nat, read : Nat, write : Nat, output : Nat]

LEMMA SlackIs ==
  ASSUME NEW use \in Counts
  PROVE  Slack(use) = Some(use.input) * Half + Some(use.read) * Half
                      + Some(use.write) * Half + Some(use.output) * Half
<1> DEFINE part(k) == IF use[k] = 0 THEN {} ELSE {k}
           a == part("input")
           b == a \cup part("read")
           c == b \cup part("write")
           d == c \cup part("output")
<1>1. {k \in DOMAIN use : use[k] # 0} = d
  BY DEF Counts
<1>2. ASSUME NEW t, IsFiniteSet(t), NEW k, k \notin t, use[k] \in Nat
      PROVE  /\ IsFiniteSet(t \cup part(k))
             /\ Cardinality(t \cup part(k)) = Cardinality(t) + Some(use[k])
             /\ Cardinality(t) \in Nat
  <2>1. Cardinality(t) \in Nat
    BY <1>2, FS_CardinalityType
  <2>2. CASE use[k] = 0
    <3>1. t \cup part(k) = t
      BY <2>2
    <3> QED
      BY <1>2, <2>1, <2>2, <3>1 DEF Some
  <2>3. CASE use[k] # 0
    <3>1. t \cup part(k) = t \cup {k}
      BY <2>3
    <3>2. IsFiniteSet(t \cup {k}) /\ Cardinality(t \cup {k}) = Cardinality(t) + 1
      BY <1>2, FS_AddElement
    <3> QED
      BY <2>1, <2>3, <3>1, <3>2 DEF Some
  <2> QED
    BY <2>2, <2>3
<1>3. IsFiniteSet({}) /\ Cardinality({}) = 0 /\ a = {} \cup part("input")
  BY FS_EmptySet
<1>4. "input" \notin {} /\ "read" \notin a /\ "write" \notin b /\ "output" \notin c
  OBVIOUS
<1>5. /\ use["input"] \in Nat /\ use["read"] \in Nat /\ use["write"] \in Nat
      /\ use["output"] \in Nat
  BY DEF Counts
<1> HIDE DEF part
<1>6. IsFiniteSet(a) /\ Cardinality(a) = Some(use["input"])
  <2>1. Cardinality({} \cup part("input")) = 0 + Some(use["input"])
        /\ IsFiniteSet({} \cup part("input"))
    BY <1>2, <1>3, <1>4, <1>5
  <2>2. Some(use["input"]) \in Nat
    BY DEF Some
  <2> QED
    BY <1>3, <2>1, <2>2
<1> HIDE DEF a
<1>7. IsFiniteSet(b) /\ Cardinality(b) = Cardinality(a) + Some(use["read"])
  BY <1>2, <1>4, <1>5, <1>6
<1> HIDE DEF b
<1>8. IsFiniteSet(c) /\ Cardinality(c) = Cardinality(b) + Some(use["write"])
  BY <1>2, <1>4, <1>5, <1>7
<1> HIDE DEF c
<1>9. Cardinality(d) = Cardinality(c) + Some(use["output"])
  BY <1>2, <1>4, <1>5, <1>8
<1> HIDE DEF d
<1>10. Half \in Nat
  BY MtokAssumption, Halves DEF Half
<1>11. \A x : Some(x) = 0 \/ Some(x) = 1
  BY DEF Some
<1>12. Slack(use) = (Some(use.input) + Some(use.read) + Some(use.write) + Some(use.output)) * Half
  <2>1. Slack(use) = Cardinality(d) * Half
    BY <1>1 DEF Slack, Half
  <2>2. Cardinality(d) = Some(use.input) + Some(use.read) + Some(use.write) + Some(use.output)
    BY <1>6, <1>7, <1>8, <1>9, <1>11
  <2> QED
    BY <2>1, <2>2
<1> QED
  BY <1>10, <1>11, <1>12

(* What the counts of a usage cost exactly.                                 *)
PriceOf(p, use) ==
  use.input * p.input + use.read * OrInput(p, p.cacheRead)
  + use.write * OrInput(p, p.cacheWrite) + use.output * p.output

LEMMA RatesNat ==
  ASSUME NEW p \in PriceRows
  PROVE  /\ p.input \in Nat /\ p.output \in Nat
         /\ OrInput(p, p.cacheRead) \in Nat /\ OrInput(p, p.cacheWrite) \in Nat
<1>1. ASSUME NEW rate, IsRate(rate), p.input \in Nat PROVE OrInput(p, rate) \in Nat
  BY <1>1 DEF IsRate, OrInput
<1> QED
  BY <1>1, RatesAssumption

LEMMA CostIs ==
  ASSUME NEW rows, NEW model, NEW at, NEW use \in Counts,
         NEW p \in PriceRows, GetPrice(rows, model, at) = p
  PROVE  \E sum \in Nat :
           /\ Calculate(rows, model, use, at) = Capped(sum)
           /\ sum * Mtok - PriceOf(p, use) \in -Slack(use)..Slack(use)
<1> DEFINE rd == OrInput(p, p.cacheRead)
           wr == OrInput(p, p.cacheWrite)
           i == Rounded(use.input, p.input)
           r == Rounded(use.read, rd)
           w == Rounded(use.write, wr)
           o == Rounded(use.output, p.output)
           ei == use.input * p.input
           er == use.read * rd
           ew == use.write * wr
           eo == use.output * p.output
           si == Some(use.input) * Half
           sr == Some(use.read) * Half
           sw == Some(use.write) * Half
           so == Some(use.output) * Half
           sum == i + r + w + o
<1>1. /\ use.input \in Nat /\ use.read \in Nat /\ use.write \in Nat /\ use.output \in Nat
      /\ Mtok \in Nat \ {0} /\ MaxMoney \in Nat /\ Half \in Nat
  BY MtokAssumption, MaxMoneyAssumption, Halves DEF Counts, Half
<1>2. p.input \in Nat /\ rd \in Nat /\ wr \in Nat /\ p.output \in Nat
  BY RatesNat
<1>3. ei \in Nat /\ er \in Nat /\ ew \in Nat /\ eo \in Nat
  BY <1>1, <1>2, Product
<1>4. /\ PriceOf(p, use) = ei + er + ew + eo
      /\ Slack(use) = si + sr + sw + so
  BY SlackIs DEF PriceOf
<1>5. \A count \in Nat : Some(count) * Half \in Nat
  BY <1>1 DEF Some
<1>6. /\ i \in Nat /\ Prorate(use.input, p.input) = Capped(i) /\ i * Mtok - ei \in -si..si
      /\ r \in Nat /\ Prorate(use.read, rd) = Capped(r) /\ r * Mtok - er \in -sr..sr
      /\ w \in Nat /\ Prorate(use.write, wr) = Capped(w) /\ w * Mtok - ew \in -sw..sw
      /\ o \in Nat /\ Prorate(use.output, p.output) = Capped(o) /\ o * Mtok - eo \in -so..so
  BY <1>1, <1>2, RoundedPart
<1>7. si \in Nat /\ sr \in Nat /\ sw \in Nat /\ so \in Nat
  BY <1>1, <1>5
<1>8. Calculate(rows, model, use, at) = Capped(sum)
  <2>1. CASE use.input = 0 /\ use.read = 0 /\ use.write = 0 /\ use.output = 0
    <3>1. Calculate(rows, model, use, at) = 0
      BY <2>1 DEF Calculate
    <3>2. \A rate \in Nat : Rounded(0, rate) = 0
      <4> SUFFICES ASSUME NEW rate \in Nat PROVE Rounded(0, rate) = 0
        OBVIOUS
      <4> DEFINE q == Rounded(0, rate)
      <4>1. q \in Nat /\ q * Mtok - 0 * rate \in -(Some(0) * Half)..Some(0) * Half
        BY RoundedPart
      <4>2. Some(0) * Half = 0 /\ 0 * rate = 0
        BY <1>1 DEF Some
      <4> HIDE DEF q
      <4>3. q * Mtok = 0
        BY <1>1, <4>1, <4>2
      <4>4. q = 0
        <5> SUFFICES ASSUME q - 1 \in Nat PROVE FALSE
          BY <4>1
        <5>1. (q - 1) * Mtok \in Nat
          BY <1>1, Product
        <5> QED
          BY <1>1, <4>1, <4>3, <5>1
      <4> QED
        BY <4>4 DEF q
    <3>3. i = 0 /\ r = 0 /\ w = 0 /\ o = 0
      <4> HIDE DEF rd, wr
      <4> QED
        BY <1>2, <2>1, <3>2
    <3>4. sum = 0
      BY <3>3
    <3> QED
      BY <1>1, <3>1, <3>4 DEF Capped
  <2>2. CASE ~(use.input = 0 /\ use.read = 0 /\ use.write = 0 /\ use.output = 0)
    <3>1. p # NotFound
      BY RatesAssumption
    <3>2. Calculate(rows, model, use, at) = Add(Add(Add(Capped(i), Capped(r)), Capped(w)), Capped(o))
      BY <1>6, <2>2, <3>1 DEF Calculate
    <3> HIDE DEF i, r, w, o
    <3>3. i \in Nat /\ r \in Nat /\ w \in Nat /\ o \in Nat
      BY <1>6
    <3>4. Add(Capped(i), Capped(r)) = Capped(i + r) /\ i + r \in Nat
      BY <3>3, CappedAdds
    <3>5. Add(Capped(i + r), Capped(w)) = Capped((i + r) + w) /\ (i + r) + w \in Nat
      BY <3>3, <3>4, CappedAdds
    <3>6. Add(Capped((i + r) + w), Capped(o)) = Capped(((i + r) + w) + o)
      BY <3>3, <3>5, CappedAdds
    <3>7. ((i + r) + w) + o = sum
      BY <3>3
    <3> QED
      BY <3>2, <3>4, <3>5, <3>6, <3>7
  <2> QED
    BY <2>1, <2>2
<1> HIDE DEF i, r, w, o, ei, er, ew, eo, si, sr, sw, so
<1>9. sum * Mtok = i * Mtok + r * Mtok + w * Mtok + o * Mtok
  BY <1>1, <1>6
<1>10. sum * Mtok - (ei + er + ew + eo) \in -(si + sr + sw + so)..(si + sr + sw + so)
  <2> DEFINE im == i * Mtok
             rm == r * Mtok
             wm == w * Mtok
             om == o * Mtok
  <2>1. im \in Int /\ rm \in Int /\ wm \in Int /\ om \in Int
    BY <1>1, <1>6
  <2> HIDE DEF im, rm, wm, om
  <2>2. /\ im - ei \in -si..si /\ rm - er \in -sr..sr /\ wm - ew \in -sw..sw /\ om - eo \in -so..so
        /\ sum * Mtok = im + rm + wm + om
    BY <1>6, <1>9 DEF im, rm, wm, om
  <2> HIDE DEF sum
  <2> QED
    BY <1>3, <1>7, <2>1, <2>2
<1>11. sum \in Nat
  BY <1>6
<1> HIDE DEF sum
<1> QED
  BY <1>4, <1>8, <1>10, <1>11

(* The price that is taken is one that holds, and none holds where none is. *)
LEMMA PriceHolds ==
  ASSUME NEW rows \in Seq(PriceRows), NEW model, NEW at
  PROVE  \/ /\ GetPrice(rows, model, at) = NotFound
            /\ \A i \in DOMAIN rows : ~Holds(rows, i, model, at)
         \/ \E i \in DOMAIN rows :
              Holds(rows, i, model, at) /\ GetPrice(rows, model, at) = rows[i]
<1> DEFINE S == InForce(rows, model, at)
           latest == {i \in S : \A j \in S : rows[j].from <= rows[i].from}
<1>1. S \subseteq DOMAIN rows /\ DOMAIN rows = 1..Len(rows) /\ Len(rows) \in Nat
  BY DEF InForce
<1>2. CASE S = {}
  BY <1>2 DEF GetPrice, Holds
<1>3. CASE S # {}
  <2>1. IsFiniteSet(S) /\ S \in SUBSET Int
    <3>1. IsFiniteSet(1..Len(rows))
      BY <1>1, FS_Interval
    <3> QED
      BY <1>1, <3>1, FS_Subset
  <2>2. \A i \in S : rows[i].from \in Int
    BY <1>1, RatesAssumption
  <2> HIDE DEF S
  <2>3. PICK m \in S : \A j \in S : rows[j].from <= rows[m].from
    <3> DEFINE starts == {rows[j].from : j \in S}
    <3>1. IsFiniteSet(starts)
      <4> DEFINE f == [j \in S |-> rows[j].from]
      <4>1. starts = {f[j] : j \in S}
        OBVIOUS
      <4> HIDE DEF f
      <4> QED
        BY <2>1, <4>1, ImageFinite
    <3>2. starts \in SUBSET Int /\ starts # {}
      BY <1>3, <2>2
    <3>3. PICK f \in starts : \A g \in starts : g <= f
      BY <3>1, <3>2, LargestOf
    <3> QED
      BY <3>3
  <2>4. latest \in SUBSET Int /\ IsFiniteSet(latest) /\ latest # {}
    BY <2>1, <2>3, FS_Subset
  <2>5. PICK i \in latest : \A j \in latest : j <= i
    BY <2>4, LargestOf
  <2>6. Max(latest) = i
    <3>1. \A j \in latest : i >= j
      BY <2>4, <2>5
    <3>2. \A x \in latest : (\A j \in latest : x >= j) => x = i
      BY <2>4, <2>5
    <3> HIDE DEF latest
    <3> QED
      BY <2>5, <3>1, <3>2 DEF Max
  <2>7. GetPrice(rows, model, at) = rows[i]
    BY <1>3, <2>6 DEF GetPrice, S
  <2>8. \A j \in S : rows[j].from < rows[i].from \/ (rows[j].from = rows[i].from /\ j <= i)
    <3> SUFFICES ASSUME NEW j \in S, ~(rows[j].from < rows[i].from)
                 PROVE  rows[j].from = rows[i].from /\ j <= i
      OBVIOUS
    <3>1. i \in S /\ rows[j].from = rows[i].from
      BY <2>2, <2>5
    <3>2. j \in latest
      BY <2>5, <3>1
    <3> QED
      BY <2>5, <3>1, <3>2
  <2>9. i \in S /\ i \in DOMAIN rows
    BY <1>1
  <2> QED
    BY <2>7, <2>8, <2>9 DEF Holds, S
<1> QED
  BY <1>2, <1>3

LEMMA Regroup ==
  ASSUME NEW a \in Nat, NEW b \in Nat, NEW c \in Nat, NEW d \in Nat
  PROVE  /\ a + b + c + d = a + c + d + b /\ a + b + c + 0 = a + c + 0 + b
         /\ a + b = a + 0 + 0 + b
         /\ a + b - (d - c) = (a - d) + c + 0 + b
OBVIOUS

(* The counts that are billed are those that the provider reports.          *)
LEMMA BilledExactly ==
  ASSUME NEW answer \in Answers, NEW p, p.input \in Nat, p.output \in Nat,
         OrInput(p, p.cacheRead) \in Nat, OrInput(p, p.cacheWrite) \in Nat
  PROVE  /\ UsageOf(answer) \in Counts
         /\ Exact(p, answer) = PriceOf(p, UsageOf(answer))
<1> DEFINE r == answer.report
           use == UsageOf(answer)
           rd == OrInput(p, p.cacheRead)
           wr == OrInput(p, p.cacheWrite)
<1> SUFFICES use \in Counts /\ Exact(p, answer) = PriceOf(p, use)
  OBVIOUS
<1>1. p.input \in Nat /\ p.output \in Nat /\ rd \in Nat /\ wr \in Nat
  OBVIOUS
<1>2. /\ answer.from \in {"mock", "anthropic", "openai"}
      /\ answer.ingress \in {"anthropic", "openai"}
      /\ answer.estimate.input \in Nat /\ answer.estimate.output \in Nat
      /\ DOMAIN r \subseteq Reported[answer.from] /\ \A field \in DOMAIN r : r[field] \in Nat
      /\ answer.from = "mock" => DOMAIN r = Reported["mock"]
      /\ Has(r, {"prompt_tokens"}) => Count(r, "cached_tokens") <= r["prompt_tokens"]
  BY AnswersAssumption DEF Reported
<1>3. \A field : Count(r, field) \in Nat
  BY <1>2 DEF Count
<1>4. \A a \in Nat, b \in Nat : a <= b => Min({a, b}) = a
  <2> SUFFICES ASSUME NEW a \in Nat, NEW b \in Nat, a <= b PROVE Min({a, b}) = a
    OBVIOUS
  <2>1. \A x \in {a, b} : (\A y \in {a, b} : x <= y) => x = a
    OBVIOUS
  <2> QED
    BY <2>1 DEF Min
<1>5. \A u \in Counts : /\ u.input \in Nat /\ u.read \in Nat /\ u.write \in Nat /\ u.output \in Nat
  BY DEF Counts
<1>6. 0 * rd = 0 /\ 0 * wr = 0
  BY <1>1
<1>13. \A u : PriceOf(p, u) = u.input * p.input + u.read * rd + u.write * wr + u.output * p.output
  BY DEF PriceOf
(* Without both counts, the estimate. *)
<1>7. ASSUME use = Estimated(answer.estimate),
             Exact(p, answer) = answer.estimate.input * p.input + answer.estimate.output * p.output
      PROVE  use \in Counts /\ Exact(p, answer) = PriceOf(p, use)
  <2>1. /\ use.input = answer.estimate.input /\ use.output = answer.estimate.output
        /\ use.read = 0 /\ use.write = 0 /\ use \in Counts
    BY <1>2, <1>7 DEF Estimated, Counts
  <2> HIDE DEF use, rd, wr
  <2>2. answer.estimate.input * p.input \in Nat /\ answer.estimate.output * p.output \in Nat
    BY <1>1, <1>2, Product
  <2>3. PriceOf(p, use) = answer.estimate.input * p.input + 0 * rd + 0 * wr
                          + answer.estimate.output * p.output
    BY <1>13, <2>1
  <2> QED
    BY <1>6, <1>7, <2>1, <2>2, <2>3, Regroup
<1>8. CASE answer.from = "mock"
  <2>1. r.input \in Nat /\ r.read \in Nat /\ r.write \in Nat /\ r.output \in Nat
    BY <1>2, <1>8 DEF Reported
  <2>2. CASE answer.ingress = "openai"
    <3> DEFINE sent == [prompt_tokens |-> r.input + r.read, completion_tokens |-> r.output,
                        cached_tokens |-> r.read]
    <3>1. Sent(answer) = sent
      BY <1>8, <2>2 DEF Sent, MockCompletion
    <3>2. use = FromCompletion(sent)
      BY <2>2, <3>1 DEF UsageOf, Has
    <3>3. Count(sent, "cached_tokens") = r.read /\ Min({r.read, r.input + r.read}) = r.read
      BY <1>4, <2>1 DEF Count
    <3>4. use = [input |-> (r.input + r.read) - r.read, output |-> r.output,
                 read |-> r.read, write |-> 0]
      BY <3>2, <3>3 DEF FromCompletion
    <3>5. /\ use.input = r.input /\ use.output = r.output /\ use.read = r.read /\ use.write = 0
          /\ use \in Counts
      BY <2>1, <3>4 DEF Counts
    <3>6. Exact(p, answer) = r.input * p.input + r.output * p.output + r.read * rd + 0
      BY <1>8, <2>2 DEF Exact
    <3>7. r.input * p.input \in Nat /\ r.output * p.output \in Nat /\ r.read * rd \in Nat
      BY <1>1, <2>1, Product
    <3> HIDE DEF use, rd, wr
    <3>8. PriceOf(p, use) = r.input * p.input + r.read * rd + 0 * wr + r.output * p.output
      BY <1>13, <3>5
    <3> QED
      BY <1>6, <3>5, <3>6, <3>7, <3>8, Regroup
  <2>3. CASE answer.ingress = "anthropic"
    <3> DEFINE sent == [input_tokens |-> r.input, output_tokens |-> r.output,
                        cache_read_input_tokens |-> r.read,
                        cache_creation_input_tokens |-> r.write]
    <3>1. Sent(answer) = sent
      BY <1>8, <2>3 DEF Sent, MockCompletion
    <3>2. use = FromMessage(sent)
      BY <2>3, <3>1 DEF UsageOf, Has
    <3>3. use = [input |-> r.input, output |-> r.output, read |-> r.read, write |-> r.write]
      BY <3>2 DEF FromMessage, Count
    <3>4. /\ use.input = r.input /\ use.output = r.output /\ use.read = r.read
          /\ use.write = r.write /\ use \in Counts
      BY <2>1, <3>3 DEF Counts
    <3>5. Exact(p, answer) = r.input * p.input + r.output * p.output + r.read * rd + r.write * wr
      BY <1>8, <2>3 DEF Exact
    <3>6. /\ r.input * p.input \in Nat /\ r.output * p.output \in Nat /\ r.read * rd \in Nat
          /\ r.write * wr \in Nat
      BY <1>1, <2>1, Product
    <3> HIDE DEF use, rd, wr
    <3>7. PriceOf(p, use) = r.input * p.input + r.read * rd + r.write * wr + r.output * p.output
      BY <1>13, <3>4
    <3> QED
      BY <3>4, <3>5, <3>6, <3>7, Regroup
  <2> QED
    BY <1>2, <2>2, <2>3
<1>9. CASE answer.from = "anthropic" /\ answer.ingress = "openai"
  <2> DEFINE a == Count(r, "input_tokens")
             b == Count(r, "output_tokens")
             sent == [prompt_tokens |-> a, completion_tokens |-> b]
  <2>1. Sent(answer) = sent
    BY <1>9 DEF Sent, Translated
  <2>2. use = FromCompletion(sent)
    BY <1>9, <2>1 DEF UsageOf, Has
  <2>3. a \in Nat /\ b \in Nat
    BY <1>3
  <2>4. Count(sent, "cached_tokens") = 0 /\ Min({0, a}) = 0
    BY <1>4, <2>3 DEF Count
  <2>5. Exact(p, answer) = a * p.input + b * p.output
    BY <1>9 DEF Exact
  <2> HIDE DEF a, b
  <2>6. use = [input |-> a - 0, output |-> b, read |-> 0, write |-> 0]
    BY <2>2, <2>4 DEF FromCompletion
  <2>7. use.input = a /\ use.output = b /\ use.read = 0 /\ use.write = 0 /\ use \in Counts
    BY <2>3, <2>6 DEF Counts
  <2>8. a * p.input \in Nat /\ b * p.output \in Nat
    BY <1>1, <2>3, Product
  <2> HIDE DEF use, rd, wr
  <2>9. PriceOf(p, use) = a * p.input + 0 * rd + 0 * wr + b * p.output
    BY <1>13, <2>7
  <2> QED
    BY <1>6, <2>5, <2>7, <2>8, <2>9, Regroup
<1>10. CASE answer.from = "anthropic" /\ answer.ingress = "anthropic"
  <2>1. Sent(answer) = r
    BY <1>10 DEF Sent
  <2>2. CASE Has(r, {"input_tokens", "output_tokens"})
    <3> DEFINE a == r["input_tokens"]
               b == r["output_tokens"]
               c == Count(r, "cache_read_input_tokens")
               d == Count(r, "cache_creation_input_tokens")
    <3>1. use = [input |-> a, output |-> b, read |-> c, write |-> d]
      BY <1>10, <2>1, <2>2 DEF UsageOf, FromMessage
    <3>2. Count(r, "input_tokens") = a /\ Count(r, "output_tokens") = b
      BY <2>2 DEF Count, Has
    <3>3. a \in Nat /\ b \in Nat /\ c \in Nat /\ d \in Nat
      BY <1>3, <3>2
    <3>4. Exact(p, answer) = a * p.input + b * p.output + c * rd + d * wr
      BY <1>10, <2>2, <3>2 DEF Exact, OfMessage
    <3> HIDE DEF a, b, c, d
    <3>5. use.input = a /\ use.output = b /\ use.read = c /\ use.write = d /\ use \in Counts
      BY <3>1, <3>3 DEF Counts
    <3>6. a * p.input \in Nat /\ b * p.output \in Nat /\ c * rd \in Nat /\ d * wr \in Nat
      BY <1>1, <3>3, Product
    <3> HIDE DEF use, rd, wr
    <3>7. PriceOf(p, use) = a * p.input + c * rd + d * wr + b * p.output
      BY <1>13, <3>5
    <3> QED
      BY <3>4, <3>5, <3>6, <3>7, Regroup
  <2>3. CASE ~Has(r, {"input_tokens", "output_tokens"})
    BY <1>7, <1>10, <2>1, <2>3 DEF UsageOf, Exact
  <2> QED
    BY <2>2, <2>3
<1>11. CASE answer.from = "openai" /\ answer.ingress = "openai"
  <2>1. Sent(answer) = r
    BY <1>11 DEF Sent
  <2>2. CASE Has(r, {"prompt_tokens", "completion_tokens"})
    <3> DEFINE a == r["prompt_tokens"]
               b == r["completion_tokens"]
               c == Count(r, "cached_tokens")
    <3>1. a \in Nat /\ b \in Nat /\ c \in Nat /\ c <= a
      BY <1>2, <1>3, <2>2 DEF Has
    <3>2. Min({c, a}) = c
      BY <1>4, <3>1
    <3>3. use = [input |-> a - c, output |-> b, read |-> c, write |-> 0]
      BY <1>11, <2>1, <2>2, <3>2 DEF UsageOf, FromCompletion
    <3>4. Exact(p, answer) = a * p.input + b * p.output - c * (p.input - rd)
      BY <1>11, <2>2 DEF Exact, OfPrompt
    <3> HIDE DEF a, b, c, use, rd, wr
    <3>5. use.input = a - c /\ use.output = b /\ use.read = c /\ use.write = 0 /\ use \in Counts
      BY <3>1, <3>3 DEF Counts
    <3>6. (a - c) * p.input = a * p.input - c * p.input
      BY <1>1, <3>1
    <3>7. c * (p.input - rd) = c * p.input - c * rd
      BY <1>1, <3>1
    <3>8. a * p.input \in Nat /\ b * p.output \in Nat /\ c * rd \in Nat /\ c * p.input \in Nat
      BY <1>1, <3>1, Product
    <3>9. PriceOf(p, use) = (a * p.input - c * p.input) + c * rd + 0 + b * p.output
      BY <1>6, <1>13, <3>5, <3>6
    <3>10. a * p.input + b * p.output - (c * p.input - c * rd)
           = (a * p.input - c * p.input) + c * rd + 0 + b * p.output
      BY <3>8, Regroup
    <3> QED
      BY <3>4, <3>5, <3>7, <3>9, <3>10
  <2>3. CASE ~Has(r, {"prompt_tokens", "completion_tokens"})
    BY <1>7, <1>11, <2>1, <2>3 DEF UsageOf, Exact
  <2> QED
    BY <2>2, <2>3
<1>12. CASE answer.from = "openai" /\ answer.ingress = "anthropic"
  <2>1. Sent(answer) = r /\ ~Has(r, {"input_tokens", "output_tokens"})
    BY <1>2, <1>12 DEF Sent, Reported, Has
  <2> QED
    BY <1>7, <1>12, <2>1 DEF UsageOf, Exact
<1> QED
  BY <1>2, <1>8, <1>9, <1>10, <1>11, <1>12

(* A rate of at most 13 tenths of another's, for as many tokens.            *)
LEMMA Cheaper ==
  ASSUME NEW tokens \in Nat, NEW a \in Nat, NEW b \in Nat, 10 * a <= 13 * b
  PROVE  10 * (tokens * a) <= 13 * (tokens * b)
<1>1. tokens * (13 * b - 10 * a) \in Nat
  BY Product
<1>2. tokens * (13 * b - 10 * a) = 13 * (tokens * b) - 10 * (tokens * a)
  OBVIOUS
<1>3. tokens * a \in Nat /\ tokens * b \in Nat
  BY Product
<1> QED
  BY <1>1, <1>2, <1>3

LEMMA Cancel ==
  ASSUME NEW a \in Int, NEW b \in Int, NEW m \in Nat \ {0}, a * m <= b * m
  PROVE  a <= b
<1> SUFFICES ASSUME a - b - 1 \in Nat PROVE FALSE
  OBVIOUS
<1>1. (a - b - 1) * m \in Nat
  BY Product
<1>2. (a - b - 1) * m = a * m - b * m - m
  OBVIOUS
<1>3. a * m \in Int /\ b * m \in Int
  OBVIOUS
<1> QED
  BY <1>1, <1>2, <1>3

(* What the budgets are asked for covers the cost of a usage of the input   *)
(* that was estimated for.                                                  *)
LEMMA EstimateCovers ==
  ASSUME NEW rows, NEW model, NEW at, NEW use \in Counts, NEW total,
         total = use.input + use.read + use.write,
         NEW p \in PriceRows, GetPrice(rows, model, at) = p,
         NEW sum \in Nat, sum * Mtok - PriceOf(p, use) \in -Slack(use)..Slack(use),
         NEW range, range = EstimateRange(rows, model, total, "single_pass", at),
         range # Overflow, use.output <= OutputTokens(total),
         \A rate \in Range(p.cacheRead) \cup Range(p.cacheWrite) : 10 * rate <= 13 * p.input
  PROVE  AskedFor(range) = Failed \/ sum <= AskedFor(range) + 3
<1> DEFINE rd == OrInput(p, p.cacheRead)
           wr == OrInput(p, p.cacheWrite)
           out == OutputTokens(total)
           max == [input |-> total, read |-> 0, write |-> 0, output |-> out]
<1>1. /\ use.input \in Nat /\ use.read \in Nat /\ use.write \in Nat /\ use.output \in Nat
      /\ total \in Nat
  BY DEF Counts
<1>2. Mtok \in Nat \ {0} /\ MaxMoney \in Nat
  BY MtokAssumption, MaxMoneyAssumption
<1>3. Half \in Nat /\ 2 * Half <= Mtok
  BY <1>2, Halves DEF Half
<1>4. out \in Nat
  <2>1. \A a \in Nat, b \in Nat : Min({a, b}) \in Nat
    <3> SUFFICES ASSUME NEW a \in Nat, NEW b \in Nat PROVE Min({a, b}) \in Nat
      OBVIOUS
    <3>1. \E x \in {a, b} : \A y \in {a, b} : x <= y
      BY SMT
    <3> QED
      BY <3>1 DEF Min
  <2>2. (3 * total + 5) \div 10 \in Nat
    BY <1>1
  <2> QED
    BY <2>1, <2>2, CapAssumption DEF OutputTokens
<1> HIDE DEF out
<1>5. max \in Counts
  BY <1>1, <1>4 DEF Counts
<1>6. PICK most \in Nat : /\ Calculate(rows, model, max, at) = Capped(most)
                          /\ most * Mtok - PriceOf(p, max) \in -Slack(max)..Slack(max)
  BY <1>5, CostIs
<1>7. /\ Capped(most) = most
      /\ range = [min |-> Max({1 * most * (10 - 3), 0}), max |-> 1 * most * (10 + 3)]
  <2>1. range = LET round == Capped(most)
                    center == Task["single_pass"].rounds * round
                IN IF round \in {NotFound, Overflow} THEN round
                   ELSE [min |-> Max({center * (10 - Task["single_pass"].margin), 0}),
                         max |-> center * (10 + Task["single_pass"].margin)]
    BY <1>6 DEF EstimateRange, out
  <2>2. Task["single_pass"].rounds = 1 /\ Task["single_pass"].margin = 3
    BY DEF Task
  <2>3. Capped(most) = most
    BY <2>1 DEF Capped
  <2>4. most \notin {NotFound, Overflow}
    BY MarksAssumption
  <2> QED
    BY <2>1, <2>2, <2>3, <2>4
<1>8. AskedFor(range) = FromUsd(13 * most)
  BY <1>7 DEF AskedFor
<1> SUFFICES ASSUME FromUsd(13 * most) # Failed
             PROVE  sum <= FromUsd(13 * most) + 3
  BY <1>8
<1>9. FromUsd(13 * most) = (13 * most + 5) \div 10
  BY DEF FromUsd, Micros
<1>10. p.input \in Nat /\ p.output \in Nat /\ rd \in Nat /\ wr \in Nat
  BY RatesNat
<1>11. 10 * rd <= 13 * p.input /\ 10 * wr <= 13 * p.input
  <2>1. ASSUME NEW rate, IsRate(rate), \A x \in Range(rate) : 10 * x <= 13 * p.input
        PROVE  10 * OrInput(p, rate) <= 13 * p.input
    <3>1. CASE rate = << >>
      BY <1>10, <3>1 DEF OrInput
    <3>2. CASE rate # << >>
      <4>1. 1 \in DOMAIN rate
        BY <2>1, <3>2 DEF IsRate
      <4> QED
        BY <2>1, <3>2, <4>1 DEF OrInput, Range
    <3> QED
      BY <3>1, <3>2
  <2> QED
    BY <2>1, RatesAssumption
<1> HIDE DEF rd, wr
<1> DEFINE ei == use.input * p.input
           er == use.read * rd
           ew == use.write * wr
           eo == use.output * p.output
           mr == use.read * p.input
           mw == use.write * p.input
           mo == out * p.output
           sm == sum * Mtok
           mm == most * Mtok
<1>12. /\ ei \in Nat /\ er \in Nat /\ ew \in Nat /\ eo \in Nat
       /\ mr \in Nat /\ mw \in Nat /\ mo \in Nat /\ sm \in Nat /\ mm \in Nat
  BY <1>1, <1>2, <1>4, <1>10, Product
<1>13. 10 * er <= 13 * mr /\ 10 * ew <= 13 * mw
  BY <1>1, <1>10, <1>11, Cheaper
<1>14. eo <= mo
  <2>1. (out - use.output) * p.output \in Nat
    BY <1>1, <1>4, <1>10, Product DEF out
  <2>2. (out - use.output) * p.output = mo - eo
    BY <1>1, <1>4, <1>10
  <2> QED
    BY <1>12, <2>1, <2>2
<1>15. PriceOf(p, use) = ei + er + ew + eo
  BY DEF PriceOf, rd, wr
<1>16. PriceOf(p, max) = ei + mr + mw + mo
  <2>1. PriceOf(p, max) = total * p.input + 0 * rd + 0 * wr + mo
    BY DEF PriceOf, rd, wr
  <2>2. 0 * rd = 0 /\ 0 * wr = 0 /\ total * p.input = ei + mr + mw
    BY <1>1, <1>10
  <2> HIDE DEF ei, er, ew, eo, mr, mw, mo
  <2> QED
    BY <1>12, <2>1, <2>2
<1>17. Slack(use) <= 4 * Half /\ Slack(use) \in Nat /\ Slack(max) <= 2 * Half /\ Slack(max) \in Nat
  <2>1. \A count : Some(count) * Half \in Nat /\ Some(count) * Half <= Half
    BY <1>3 DEF Some
  <2>2. Some(0) * Half = 0
    BY <1>3 DEF Some
  <2>3. Slack(use) = Some(use.input) * Half + Some(use.read) * Half
                     + Some(use.write) * Half + Some(use.output) * Half
    BY SlackIs
  <2>4. Slack(max) = Some(total) * Half + Some(0) * Half + Some(0) * Half + Some(out) * Half
    BY <1>5, SlackIs
  <2> QED
    BY <1>3, <2>1, <2>2, <2>3, <2>4
<1>18. sm - PriceOf(p, use) \in -Slack(use)..Slack(use)
       /\ mm - PriceOf(p, max) \in -Slack(max)..Slack(max)
  BY <1>6
<1> HIDE DEF ei, er, ew, eo, mr, mw, mo, sm, mm, max
<1>19. 10 * sm <= 13 * mm + 33 * Mtok
  BY <1>2, <1>3, <1>12, <1>13, <1>14, <1>15, <1>16, <1>17, <1>18
<1>20. (10 * sum) * Mtok <= (13 * most + 33) * Mtok
  BY <1>2, <1>19 DEF sm, mm
<1>21. 10 * sum <= 13 * most + 33
  BY <1>2, <1>20, Cancel
<1> QED
  BY <1>9, <1>21

LEMMA CountsBilled == ASSUME NEW answer \in Answers PROVE UsageOf(answer) \in Counts
<1> DEFINE free == [input |-> 0, output |-> 0, cacheRead |-> << >>, cacheWrite |-> << >>]
<1>1. /\ free.input \in Nat /\ free.output \in Nat
      /\ OrInput(free, free.cacheRead) \in Nat /\ OrInput(free, free.cacheWrite) \in Nat
  BY DEF OrInput
<1> QED
  BY <1>1, BilledExactly

(* What a process bills is what the rates that hold give, to the roundings. *)
LEMMA BillsWithin == ASSUME ServeInv, PricesKnown PROVE CostWithinRounding
<1> DEFINE rows == prices[process[Server].db]
<1> SUFFICES
      ASSUME process[Server].at = "serving",
             NEW answer \in Answers, NEW model \in Models(rows) \cup PresetModels
      PROVE  LET use == UsageOf(answer)
                 cost == Calculate(rows, model, use, now)
                 held == {i \in DOMAIN rows : Holds(rows, i, model, now)}
                 total == use.input + use.read + use.write
                 range == EstimateRange(rows, model, total, "single_pass", now)
             IN \/ total + use.output = 0 /\ cost = 0
                \/ held = {} /\ cost = NotFound
                \/ \E i \in held :
                     /\ \/ cost = Overflow /\ Exact(rows[i], answer) > Mtok * MaxMoney - Slack(use)
                        \/ /\ cost # Overflow
                           /\ cost * Mtok - Exact(rows[i], answer) \in -Slack(use)..Slack(use)
                     /\ (cost # Overflow /\ range # Overflow /\ use.output <= OutputTokens(total)
                          /\ \A rate \in Range(rows[i].cacheRead) \cup Range(rows[i].cacheWrite) :
                               10 * rate <= 13 * rows[i].input)
                          => AskedFor(range) = Failed \/ cost <= AskedFor(range) + 3
  BY DEF CostWithinRounding
<1> DEFINE use == UsageOf(answer)
           cost == Calculate(rows, model, use, now)
           held == {i \in DOMAIN rows : Holds(rows, i, model, now)}
           total == use.input + use.read + use.write
           range == EstimateRange(rows, model, total, "single_pass", now)
<1>1. rows \in Seq(PriceRows)
  BY DEF ServeInv, Starting, Opened, PricesKnown
<1>2. use \in Counts
  BY CountsBilled
<1>3. /\ use.input \in Nat /\ use.read \in Nat /\ use.write \in Nat /\ use.output \in Nat
      /\ Mtok \in Nat \ {0} /\ MaxMoney \in Nat
  BY <1>2, MtokAssumption, MaxMoneyAssumption DEF Counts
<1> HIDE DEF rows, use
<1>4. ASSUME GetPrice(rows, model, now) = NotFound
      PROVE  (total + use.output = 0 /\ cost = 0) \/ cost = NotFound
  BY <1>3, <1>4 DEF Calculate
<1>5. ASSUME NEW i \in DOMAIN rows, Holds(rows, i, model, now),
             GetPrice(rows, model, now) = rows[i]
      PROVE  /\ \/ cost = Overflow /\ Exact(rows[i], answer) > Mtok * MaxMoney - Slack(use)
                \/ /\ cost # Overflow
                   /\ cost * Mtok - Exact(rows[i], answer) \in -Slack(use)..Slack(use)
             /\ (cost # Overflow /\ range # Overflow /\ use.output <= OutputTokens(total)
                  /\ \A rate \in Range(rows[i].cacheRead) \cup Range(rows[i].cacheWrite) :
                       10 * rate <= 13 * rows[i].input)
                  => AskedFor(range) = Failed \/ cost <= AskedFor(range) + 3
  <2> DEFINE p == rows[i]
             exact == Exact(p, answer)
  <2>1. p \in PriceRows
    BY <1>1, <1>5
  <2>2. exact = PriceOf(p, use)
    BY <2>1, RatesNat, BilledExactly DEF use
  <2>3. PICK sum \in Nat : cost = Capped(sum) /\ sum * Mtok - PriceOf(p, use) \in -Slack(use)..Slack(use)
    BY <1>2, <1>5, <2>1, CostIs
  <2> HIDE DEF p, cost
  <2>4. Slack(use) \in Nat /\ exact \in Nat
    <3>1. Half \in Nat
      BY <1>3, Halves DEF Half
    <3>2. \A count : Some(count) * Half \in Nat
      BY <3>1 DEF Some
    <3>3. Slack(use) \in Nat
      BY <1>2, <3>2, SlackIs
    <3>4. /\ p.input \in Nat /\ p.output \in Nat
          /\ OrInput(p, p.cacheRead) \in Nat /\ OrInput(p, p.cacheWrite) \in Nat
      BY <2>1, RatesNat
    <3>5. /\ use.input * p.input \in Nat /\ use.output * p.output \in Nat
          /\ use.read * OrInput(p, p.cacheRead) \in Nat
          /\ use.write * OrInput(p, p.cacheWrite) \in Nat
      BY <1>3, <3>4, Product
    <3>6. PriceOf(p, use) \in Nat
      BY <3>5 DEF PriceOf
    <3> QED
      BY <2>2, <3>3, <3>6
  <2>5. CASE sum > MaxMoney
    <3>1. cost = Overflow
      BY <2>3, <2>5 DEF Capped
    <3>2. (sum - MaxMoney) * Mtok \in Nat
      BY <1>3, <2>5, Product
    <3>3. (sum - MaxMoney - 1) * Mtok \in Nat
      BY <1>3, <2>5, Product
    <3>4. (sum - MaxMoney - 1) * Mtok = sum * Mtok - Mtok * MaxMoney - Mtok
      BY <1>3
    <3>5. sum * Mtok \in Nat /\ Mtok * MaxMoney \in Nat
      BY <1>3, Product
    <3> HIDE DEF exact
    <3>6. exact > Mtok * MaxMoney - Slack(use)
      BY <1>3, <2>2, <2>3, <2>4, <3>3, <3>4, <3>5
    <3> QED
      BY <3>1, <3>6 DEF exact, p
  <2>6. CASE ~(sum > MaxMoney)
    <3>1. cost = sum /\ cost # Overflow
      BY <2>3, <2>6, MarksAssumption DEF Capped
    <3>2. cost * Mtok - Exact(rows[i], answer) \in -Slack(use)..Slack(use)
      BY <2>2, <2>3, <3>1 DEF p, exact
    <3>3. ASSUME range # Overflow, use.output <= OutputTokens(total),
                 \A rate \in Range(rows[i].cacheRead) \cup Range(rows[i].cacheWrite) :
                   10 * rate <= 13 * rows[i].input
          PROVE  AskedFor(range) = Failed \/ cost <= AskedFor(range) + 3
      <4>1. GetPrice(rows, model, now) = p
        BY <1>5 DEF p
      <4> HIDE DEF total, range
      <4>2. AskedFor(range) = Failed \/ sum <= AskedFor(range) + 3
        BY <1>2, <2>1, <2>3, <3>3, <4>1, EstimateCovers DEF total, range, p
      <4> QED
        BY <3>1, <4>2
    <3> QED
      BY <3>1, <3>2, <3>3
  <2> QED
    BY <2>5, <2>6
<1>6. CASE GetPrice(rows, model, now) = NotFound /\ \A i \in DOMAIN rows : ~Holds(rows, i, model, now)
  <2>1. held = {}
    BY <1>6
  <2> HIDE DEF cost, held, total, range
  <2> QED
    BY <1>4, <1>6, <2>1 DEF cost, held, total, range, use
<1>7. CASE \E i \in DOMAIN rows : Holds(rows, i, model, now) /\ GetPrice(rows, model, now) = rows[i]
  <2>1. PICK i \in held : GetPrice(rows, model, now) = rows[i] /\ Holds(rows, i, model, now)
    BY <1>7
  <2> QED
    BY <1>5, <2>1 DEF use
<1> QED
  BY <1>1, <1>6, <1>7, PriceHolds

(* calculate_with_cache and run_estimate: whatever updates ran, a process   *)
(* that serves bills what the rates that hold give for what the provider    *)
(* reports, to half a micro for each kind of tokens, at every width of      *)
(* Money and for all counts and rates; and an estimate covers the cost.     *)
THEOREM BilledToRounding == Spec => []CostWithinRounding
<1>1. IInv /\ ServeInv /\ PresetsNamed => CostWithinRounding
  BY BillsWithin DEF IInv
<1> QED
  BY <1>1, SetupHolds, PTL

================================================================================
