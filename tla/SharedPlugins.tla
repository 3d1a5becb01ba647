---------------------------- MODULE SharedPlugins -----------------------------
(***************************************************************************)
(* Pipelines that are built, run and closed while their plugins share      *)
(* state: the lines of a pipeline share the client of a plugin and its     *)
(* statistics, the pipelines share the codecs and the parsed templates.    *)
(*                                                                         *)
(* A start builds the plugins of the plan one after another; a plugin that *)
(* cannot be built ends the build, and the service closes what had been    *)
(* added to the pipeline.  Each start reads the configuration anew and     *)
(* draws new identifiers for the plugins, so that a key of a storage is    *)
(* a plugin and the number of the start; the key of a codec is the same    *)
(* for the whole process.  A line has one event in it at a time: events    *)
(* in different plugins of a line meet only in the state the plugins       *)
(* share, and lines already interleave there.  Redis and the other         *)
(* services that clients call are external.                                *)
(***************************************************************************)
EXTENDS SharedStorage, PipelinePlan

CONSTANTS
  Types,       \* how a type of plugin shares and fails: see below
  Events,      \* Events[p]: the events the inputs of p receive
  KeyOf,       \* KeyOf[e]: the value of its idempotency key
  Copies,      \* clients of one key that are in use or open at a time (a bound)
  MaxStarts,   \* MaxStarts[p]: starts of p (a bound)
  MaxFaults,   \* calls and initialisations that fail (a bound)
  Attempts     \* Attempts[p]: retry_attempts in p, 0 for endless

(* A type says how its Init obtains what it shares ("ping": the client is  *)
(* tried out, "lend": it is not, "stats", "templates" or "none"), whether  *)
(* Close closes a client nobody else holds, whether an identifier of the   *)
(* process is the key, and whether Init may fail at all.                   *)
Step(i)  == Types[i.type].shares
Plans    == [p \in Pipes |-> Plan(p)]
ToClose  == [p \in Pipes |-> [g \in 0 .. Len(Plans[p]) |-> ClosePlan(p, g)]]
Planned(p, g) == UNION {Range(Plans[p][h]) : h \in 1 .. g}
AllPlans == UNION {Planned(p, Len(Plans[p])) : p \in Pipes}
Lent     == {i \in AllPlans : Step(i) \in {"ping", "lend"}}
Counting == {i \in AllPlans : Step(i) = "stats"}
KeyIn(i, n) == IF Types[i.type].global THEN <<i.type, 0>> ELSE <<i.name, n>>
KeysOf(I) == UNION {{KeyIn(i, n) : n \in 1 .. MaxStarts[i.pipe]} : i \in I}
Keys      == KeysOf(Lent)
CacheKeys == KeysOf(Counting)
Clients   == Keys \X Copies
AllEvents == UNION {Events[p] : p \in Pipes}

ASSUME SharedAssumption ==
  /\ MaxStarts \in [Pipes -> Nat \ {0}] /\ MaxFaults \in Nat /\ Attempts \in [Pipes -> Nat]
  /\ None \notin Clients /\ None \notin AllEvents
  /\ \A p, q \in Pipes : p # q => Events[p] \cap Events[q] = {}

(* Two plugins do not have the same identifier, and the clients that are   *)
(* tried out are kept under the identifier of their plugin.                *)
ASSUME KeyAssumption ==
  /\ \A i, j \in AllPlans : i.name = j.name => i.pipe = j.pipe
  /\ \A i \in Lent : Step(i) = "ping" => ~Types[i.type].global

VARIABLES
  stage,     \* stage[p]: stopped, building, running, closing
  starts,    \* starts[p]: how often p was started
  at,        \* at[p]: the group and the plugin in it that is built next
  left,      \* left[p]: instances that are still to be closed
  alive,     \* instances that were built, and not closed or lost
  client,    \* client[i]: the client that an instance uses
  open,      \* clients that are open
  storage,   \* the storages of clients
  caches,    \* the caches of statistics
  templates, \* the cache of templates
  lost,      \* lost[k]: instances that will never leave k
  faults,    \* what has failed so far
  keys,      \* keys that are set in Redis
  cur,       \* cur[p][l]: the event in a line, the processor it is at, the attempt
  done,      \* done[p][l]: processors of the line that have ended
  stopping,  \* pipelines whose inputs are told to stop
  mark,      \* mark[e]: its duplicate label and whether an error is on it
  out        \* events that have left their line

build   == <<stage, starts, at, left, alive, client, lost>>
shared  == <<open, storage, caches, templates>>
running == <<keys, cur, done, stopping, mark, out>>
vars    == <<build, shared, running, faults>>

Idle == [e |-> None, k |-> 0, try |-> 0]

Init ==
  /\ stage = [p \in Pipes |-> "stopped"] /\ starts = [p \in Pipes |-> 0]
  /\ at = [p \in Pipes |-> <<1, 1>>] /\ left = [p \in Pipes |-> <<>>]
  /\ alive = {} /\ client = [i \in Lent |-> None] /\ open = {}
  /\ storage = NewStorage(Keys) /\ caches = [k \in CacheKeys |-> NoCache]
  /\ templates = NoTemplates /\ lost = [k \in Keys |-> 0] /\ faults = 0
  /\ keys = {} /\ stopping = {} /\ out = {}
  /\ cur = [p \in Pipes |-> [l \in Lines(p) |-> Idle]]
  /\ done = [p \in Pipes |-> [l \in Lines(p) |-> 0]]
  /\ mark = [e \in AllEvents |-> [dup |-> FALSE, err |-> FALSE]]

Key(i) == KeyIn(i, starts[i.pipe])
Fault  == faults < MaxFaults /\ faults' = faults + 1

----------------------------------------------------------------------------
(* Start: a pipeline is created from the stored configuration, and built.  *)
Start(p) ==
  /\ stage[p] = "stopped" /\ starts[p] < MaxStarts[p]
  /\ stage' = [stage EXCEPT ![p] = "building"]
  /\ starts' = [starts EXCEPT ![p] = @ + 1]
  /\ at' = [at EXCEPT ![p] = <<1, 1>>]
  /\ cur' = [cur EXCEPT ![p] = [l \in Lines(p) |-> Idle]]
  /\ done' = [done EXCEPT ![p] = [l \in Lines(p) |-> 0]]
  /\ stopping' = stopping \ {p}
  /\ UNCHANGED <<left, alive, client, lost, shared, keys, mark, out, faults>>

Building(p) == stage[p] = "building" /\ at[p][1] <= Len(Plans[p])
Group(p)    == Plans[p][at[p][1]]
Current(p)  == Group(p)[at[p][2]]
Pending(p)  == {Group(p)[n] : n \in 1 .. at[p][2] - 1}

Advance(p) ==
  at' = [at EXCEPT ![p] = IF @[2] < Len(Group(p)) THEN <<@[1], @[2] + 1>> ELSE <<@[1] + 1, 1>>]

(* A client that nobody has: the next one to be created for a key.         *)
Unused(c) == c \notin open /\ c \notin Range(storage.objects) /\ c \notin Range(client)
Created(k) == CHOOSE c \in {k} \X Copies : Unused(c)

(* CompareAndStore of a client that was just created.  Where the storage   *)
(* has one already, the new one is closed at once, or has nothing to be    *)
(* closed yet.                                                             *)
Join(i) ==
  LET c == Created(Key(i)) IN
  /\ \E d \in {Key(i)} \X Copies : Unused(d)
  /\ storage' = CompareAndStore(storage, Key(i), c)
  /\ client' = [client EXCEPT ![i] = Stored(storage, Key(i), c)]

Opened(i) == IF storage.objects[Key(i)] = None THEN open \cup {Created(Key(i))} ELSE open

(* Init of a plugin succeeds.  A ping fails on a client that is closed.    *)
InitShared(i) ==
  /\ Step(i) \in {"ping", "lend"}
  /\ Join(i)
  /\ open' = Opened(i)
  /\ Step(i) = "ping" => client'[i] \in open'
  /\ UNCHANGED <<caches, templates>>

InitStats(i) ==
  /\ Step(i) = "stats"
  /\ caches' = [caches EXCEPT ![Key(i)] = NewCache(@)]
  /\ UNCHANGED <<client, open, storage, templates>>

InitTemplates(i) ==
  /\ Step(i) = "templates"
  /\ templates' = Reg(templates)
  /\ UNCHANGED <<client, open, storage, caches>>

InitPlain(i) == Step(i) = "none" /\ UNCHANGED <<client, shared>>

InitPlugin(i) == InitShared(i) \/ InitStats(i) \/ InitTemplates(i) \/ InitPlain(i)

BuildNext(p) ==
  /\ Building(p)
  /\ InitPlugin(Current(p))
  /\ Advance(p)
  /\ alive' = alive \cup {Current(p)}
  /\ UNCHANGED <<stage, starts, left, lost, running, faults>>

\* Mutated form of GiveUp: a pipeline that cannot be built is not closed.
GiveUp_Unclosed(p, others) ==
  /\ stage' = [stage EXCEPT ![p] = "closing"]
  /\ left' = [left EXCEPT ![p] = <<>>]
  /\ alive' = alive \ Pending(p)
  /\ lost' = [k \in Keys |-> lost[k] + Cardinality({i \in (Pending(p) \cap Lent) \cup others : Key(i) = k})]
  /\ UNCHANGED <<starts, at, running>>

(* A plugin fails.  What was built of its group belongs to no set of the   *)
(* pipeline and is lost; the service closes the groups before.             *)
GiveUp(p, others) ==
  /\ stage' = [stage EXCEPT ![p] = "closing"]
  /\ left' = [left EXCEPT ![p] = ToClose[p][at[p][1] - 1]]
  /\ alive' = alive \ Pending(p)
  /\ lost' = [k \in Keys |-> lost[k] + Cardinality({i \in (Pending(p) \cap Lent) \cup others : Key(i) = k})]
  /\ UNCHANGED <<starts, at, running>>

(* The configuration is refused: a key, an option, a name or an alias.     *)
InitRefused(p) ==
  /\ Building(p) /\ Types[Current(p).type].fails
  /\ Fault
  /\ GiveUp(p, {})
  /\ UNCHANGED <<client, shared>>

(* The server does not answer the ping: Init closes the client it was lent *)
(* and returns, without leaving the storage.                               *)
PingFails(p) ==
  /\ Building(p) /\ Step(Current(p)) = "ping"
  /\ Fault
  /\ Join(Current(p))
  /\ open' = Opened(Current(p)) \ {client'[Current(p)]}
  /\ GiveUp(p, {Current(p)})
  /\ UNCHANGED <<caches, templates>>

(* The fields of a stats plugin are checked when it is a writer already.   *)
StatsRefused(p) ==
  /\ Building(p) /\ Step(Current(p)) = "stats"
  /\ Fault
  /\ caches' = [caches EXCEPT ![Key(Current(p))] = NewCache(@)]
  /\ GiveUp(p, {})
  /\ UNCHANGED <<client, open, storage, templates>>

Built(p) == stage[p] = "building" /\ at[p][1] > Len(Plans[p])

(* The pipeline runs, or its lock cannot be acquired and it is closed.     *)
Run(p) ==
  /\ Built(p)
  /\ stage' = [stage EXCEPT ![p] = "running"]
  /\ UNCHANGED <<starts, at, left, alive, client, lost, shared, running, faults>>

NotAcquired(p) ==
  /\ Built(p)
  /\ Fault
  /\ stage' = [stage EXCEPT ![p] = "closing"]
  /\ left' = [left EXCEPT ![p] = ToClose[p][at[p][1] - 1]]
  /\ UNCHANGED <<starts, at, alive, client, lost, shared, running>>

\* Mutated form of CloseShared: who leaves closes the client.
CloseShared_Always(i) ==
  /\ Step(i) \in {"ping", "lend"}
  /\ storage' = Leave(storage, Key(i))
  /\ open' = open \ {client[i]}
  /\ client' = [client EXCEPT ![i] = None]
  /\ UNCHANGED <<caches, templates>>

(* Close of a plugin.                                                      *)
CloseShared(i) ==
  /\ Step(i) \in {"ping", "lend"}
  /\ storage' = Leave(storage, Key(i))
  /\ open' = IF LastMember(storage, Key(i)) /\ Types[i.type].closes THEN open \ {client[i]} ELSE open
  /\ client' = [client EXCEPT ![i] = None]
  /\ UNCHANGED <<caches, templates>>

CloseStats(i) ==
  /\ Step(i) = "stats"
  /\ caches' = [caches EXCEPT ![Key(i)] = CacheClear(@)]
  /\ UNCHANGED <<client, open, storage, templates>>

CloseTemplates(i) ==
  /\ Step(i) = "templates"
  /\ templates' = LeaveTemplates(templates)
  /\ UNCHANGED <<client, open, storage, caches>>

ClosePlain(i) == Step(i) = "none" /\ UNCHANGED <<client, shared>>

ClosePlugin(i) == CloseShared(i) \/ CloseStats(i) \/ CloseTemplates(i) \/ ClosePlain(i)

CloseNext(p) ==
  /\ stage[p] = "closing" /\ left[p] # <<>>
  /\ ClosePlugin(Head(left[p]))
  /\ alive' = alive \ {Head(left[p])}
  /\ left' = [left EXCEPT ![p] = Tail(@)]
  /\ UNCHANGED <<stage, starts, at, lost, running, faults>>

CloseEnds(p) ==
  /\ stage[p] = "closing" /\ left[p] = <<>>
  /\ stage' = [stage EXCEPT ![p] = "stopped"]
  /\ UNCHANGED <<starts, at, left, alive, client, lost, shared, running, faults>>

----------------------------------------------------------------------------
(* The lines of a running pipeline.                                        *)
Procs(p)    == Config[p].processors
Proc(p, l)  == Instance(p, Procs(p)[cur[p][l].k], l)
Runs(p, l, what) ==
  /\ cur[p][l].e # None /\ cur[p][l].k <= Len(Procs(p))
  /\ Types[Proc(p, l).type].runs = what

InLines == UNION {{cur[p][l].e : l \in Lines(p)} : p \in Pipes}

(* The event goes to the next plugin, or leaves the line.                  *)
Passed(p, l) ==
  IF cur[p][l].k < Len(Procs(p))
  THEN /\ cur' = [cur EXCEPT ![p][l] = [e |-> @.e, k |-> @.k + 1, try |-> 0]]
       /\ UNCHANGED out
  ELSE /\ cur' = [cur EXCEPT ![p][l] = Idle]
       /\ out' = out \cup {cur[p][l].e}

Marked(p, l, d) == mark' = [mark EXCEPT ![cur[p][l].e] = [dup |-> @.dup \/ d, err |-> @.err]]
Erred(p, l)  == mark' = [mark EXCEPT ![cur[p][l].e].err = TRUE]

(* A line takes an event of the channel of its first processor, until that *)
(* channel is closed and drained.                                          *)
Take(p, l, e) ==
  /\ stage[p] = "running" /\ cur[p][l] = Idle /\ done[p][l] = 0
  /\ e \in Events[p] /\ e \notin out /\ e \notin InLines
  /\ cur' = [cur EXCEPT ![p][l] = [e |-> e, k |-> 1, try |-> 0]]
  /\ UNCHANGED <<build, shared, keys, done, stopping, mark, out, faults>>

(* deduplicate: SETNX tells whether the key was not there.                 *)
\* Mutated form of Unique: SET, which succeeds whether the key is there or not.
Unique_Set(e) == TRUE

Unique(e) == KeyOf[e] \notin keys

SetKey(p, l) ==
  /\ Runs(p, l, "deduplicate")
  /\ IF KeyOf[cur[p][l].e] = None
     THEN UNCHANGED <<keys, mark>>
     ELSE /\ keys' = keys \cup {KeyOf[cur[p][l].e]}
          /\ Marked(p, l, ~Unique(cur[p][l].e))
  /\ Passed(p, l)
  /\ UNCHANGED <<build, shared, done, stopping, faults>>

(* A call fails: it is tried again, or the error is put on the event.      *)
Retry(p, l) ==
  IF Attempts[p] > 0 /\ cur[p][l].try + 1 >= Attempts[p]
  THEN Erred(p, l) /\ Passed(p, l)
  ELSE /\ cur' = [cur EXCEPT ![p][l].try = IF Attempts[p] > 0 THEN @ + 1 ELSE @]
       /\ UNCHANGED <<mark, out>>

CallFails(p, l) ==
  /\ Runs(p, l, "deduplicate") \/ Runs(p, l, "call")
  /\ Fault
  /\ Retry(p, l)
  /\ UNCHANGED <<build, shared, keys, done, stopping>>

(* The server has executed SETNX, its answer is lost.                      *)
AnswerLost(p, l) ==
  /\ Runs(p, l, "deduplicate") /\ KeyOf[cur[p][l].e] # None
  /\ Fault
  /\ keys' = keys \cup {KeyOf[cur[p][l].e]}
  /\ Retry(p, l)
  /\ UNCHANGED <<build, shared, done, stopping>>

(* redis, sql, http, ollama: a call through the client that is shared; an  *)
(* event that lacks what the call needs gets an error.                     *)
Call(p, l) ==
  /\ Runs(p, l, "call")
  /\ Erred(p, l) \/ UNCHANGED mark
  /\ Passed(p, l)
  /\ UNCHANGED <<build, shared, keys, done, stopping, faults>>

(* dynamic_template: a template is parsed once.                            *)
Render(p, l) ==
  /\ Runs(p, l, "template")
  /\ \/ templates' = Put(templates, KeyOf[cur[p][l].e]) /\ UNCHANGED mark
     \/ Erred(p, l) /\ UNCHANGED templates
  /\ Passed(p, l)
  /\ UNCHANGED <<build, open, storage, caches, keys, done, stopping, faults>>

(* stats: an event is observed, every period the cache is flushed.         *)
Observe(p, l) ==
  /\ Runs(p, l, "stats")
  /\ caches' = [caches EXCEPT ![Key(Proc(p, l))] = CacheObserve(@, cur[p][l].e)]
  /\ Passed(p, l)
  /\ UNCHANGED <<build, open, storage, templates, keys, done, stopping, mark, faults>>

StatsOf(p, l) == {k \in 1 .. Len(Procs(p)) : Types[Procs(p)[k].type].runs = "stats"}

Flush(p, l, k) ==
  LET key == Key(Instance(p, Procs(p)[k], l)) IN caches' = [caches EXCEPT ![key] = CacheFlush(@)]

Tick(p, l) ==
  /\ stage[p] = "running"
  /\ \E k \in StatsOf(p, l) : done[p][l] < k /\ Flush(p, l, k)
  /\ UNCHANGED <<build, open, storage, templates, running, faults>>

(* Stop: the inputs end, the channels close one after another, each plugin *)
(* ends when its own is drained.  A stats plugin flushes a last time.      *)
Stop(p) ==
  /\ stage[p] = "running" /\ p \notin stopping
  /\ stopping' = stopping \cup {p}
  /\ UNCHANGED <<build, shared, keys, cur, done, mark, out, faults>>

ProcEnds(p, l) ==
  /\ p \in stopping /\ stage[p] = "running" /\ done[p][l] < Len(Procs(p))
  /\ cur[p][l].e = None \/ cur[p][l].k > done[p][l] + 1
  /\ done' = [done EXCEPT ![p][l] = @ + 1]
  /\ IF done[p][l] + 1 \in StatsOf(p, l) THEN Flush(p, l, done[p][l] + 1) ELSE UNCHANGED caches
  /\ UNCHANGED <<build, open, storage, templates, keys, cur, stopping, mark, out, faults>>

RunEnds(p) ==
  /\ p \in stopping /\ stage[p] = "running"
  /\ \A l \in Lines(p) : done[p][l] = Len(Procs(p)) /\ cur[p][l] = Idle
  /\ stage' = [stage EXCEPT ![p] = "closing"]
  /\ left' = [left EXCEPT ![p] = ToClose[p][at[p][1] - 1]]
  /\ UNCHANGED <<starts, at, alive, client, lost, shared, running, faults>>

LineStep(p, l) ==
  \/ SetKey(p, l) \/ CallFails(p, l) \/ AnswerLost(p, l) \/ Call(p, l)
  \/ Render(p, l) \/ Observe(p, l) \/ ProcEnds(p, l)

EngineStep(p) ==
  \/ BuildNext(p) \/ InitRefused(p) \/ PingFails(p) \/ StatsRefused(p)
  \/ Run(p) \/ NotAcquired(p) \/ RunEnds(p) \/ CloseNext(p) \/ CloseEnds(p)

Next ==
  \E p \in Pipes :
    \/ Start(p) \/ Stop(p) \/ EngineStep(p)
    \/ \E l \in Lines(p) :
         \/ LineStep(p, l) \/ Tick(p, l)
         \/ \E e \in Events[p] : Take(p, l, e)

Spec == Init /\ [][Next]_vars

(* The ticker of some line ticks.  Nothing else has to happen.             *)
Fairness == \A p \in {i.pipe : i \in Counting} : WF_vars(\E l \in Lines(p) : Tick(p, l))

FairSpec == Spec /\ Fairness

----------------------------------------------------------------------------
TypeOK ==
  /\ stage \in [Pipes -> {"stopped", "building", "running", "closing"}]
  /\ starts \in [Pipes -> Nat] /\ \A p \in Pipes : starts[p] <= MaxStarts[p]
  /\ at \in [Pipes -> Nat \X Nat] /\ left \in [Pipes -> Seq(AllPlans)]
  /\ alive \subseteq AllPlans /\ client \in [Lent -> Clients \cup {None}] /\ open \subseteq Clients
  /\ storage \in [members : [Keys -> Nat], objects : [Keys -> Clients \cup {None}]]
  /\ caches \in [CacheKeys -> [writers : Nat, syncPoint : Nat, fresh : SUBSET AllEvents]]
  /\ templates \in [u : Nat, m : SUBSET {KeyOf[e] : e \in AllEvents}]
  /\ lost \in [Keys -> Nat] /\ faults \in 0 .. MaxFaults /\ stopping \subseteq Pipes
  /\ keys \subseteq {KeyOf[e] : e \in AllEvents} /\ out \subseteq AllEvents
  /\ DOMAIN cur = Pipes /\ DOMAIN done = Pipes
  /\ \A p \in Pipes :
       /\ cur[p] \in [Lines(p) -> [e : Events[p] \cup {None}, k : Nat, try : Nat]]
       /\ done[p] \in [Lines(p) -> Nat]
  /\ mark \in [AllEvents -> [dup : BOOLEAN, err : BOOLEAN]]

(* The plugins of a running pipeline that share a client use the one in    *)
(* the storage, and nobody has closed it.                                  *)
InUseIsOpen ==
  \A i \in alive \cap Lent :
    stage[i.pipe] = "running" => client[i] \in open /\ client[i] = storage.objects[Key(i)]

(* A storage counts those that will leave it and those that never will,    *)
(* and holds an object as long as there are any.                           *)
CountsMembers ==
  \A k \in Keys :
    /\ storage.members[k] = Cardinality({i \in alive \cap Lent : Key(i) = k}) + lost[k]
    /\ storage.members[k] = 0 <=> storage.objects[k] = None

(* When all pipelines are stopped, only what a failed build has lost is    *)
(* still held, and a client is open only in a storage.                     *)
StoppedIsFree ==
  (\A p \in Pipes : stage[p] = "stopped") =>
    /\ \A k \in Keys : storage.members[k] = lost[k]
    /\ open \subseteq Range(storage.objects)
    /\ alive = {}

(* Of the events with one idempotency key, at most one leaves as unique    *)
(* and without an error.                                                   *)
OneOriginal ==
  \A e, f \in out :
    (e # f /\ KeyOf[e] = KeyOf[f] /\ KeyOf[e] # None) => \E x \in {e, f} : mark[x].dup \/ mark[x].err

(* A label that says duplicate is right: another event has the same key,   *)
(* and was not marked itself.                                              *)
DuplicateHasOriginal ==
  \A e \in AllEvents : mark[e].dup =>
    \E f \in AllEvents \ {e} : KeyOf[f] = KeyOf[e] /\ ~mark[f].dup /\ (f \in out \/ f \in InLines)

(* While the pipeline runs, the values that were observed are reported.    *)
StatsReported ==
  \A i \in {j \in Counting : j.line = 0} : \A n \in 1 .. MaxStarts[i.pipe] :
    LET fresh == caches[KeyIn(i, n)].fresh IN
    (starts[i.pipe] = n /\ fresh # {}) ~> (fresh = {} \/ i.pipe \in stopping)
=============================================================================
