------------------------------ MODULE CodeIds ------------------------------
(***************************************************************************)
(* The life of a code id (crates/py/src/intern.rs, codewatch.rs,           *)
(* monitoring.rs, crates/core/src/codecache.rs).  A code object lives at   *)
(* an address, its key; the interner gives the key an id; the watcher      *)
(* forgets the key when the object is destroyed; and an id is given to     *)
(* another object once it was freed before the recycle floor.  Each thread *)
(* remembers the last id it used and caches others, both valid for one     *)
(* value of the global generation.                                         *)
(*                                                                         *)
(* The operators here are the steps of a callback and of the watcher, for  *)
(* Recycling to put an event queue beside.  Both hold the GIL, so each is  *)
(* one step, but for a callback that looks up its thread's name: that runs *)
(* Python code, which may switch threads or destroy code objects between   *)
(* the tick and generation it has read and the id it will use.  What a     *)
(* code object is called stands for itself: info maps an id to the code    *)
(* object it was stored for.  Any entry of the 256-slot cache may be       *)
(* evicted when another is put.                                            *)
(***************************************************************************)
EXTENDS Integers, Sequences, FiniteSetsExt

CONSTANTS Threads,
          Codes,         \* the code objects that exist in the course of the run
          Keys,          \* the addresses they are allocated at
          Capacity,      \* ids the interner has
          Unnamed,       \* threads whose name the registry does not have yet
          NameRetries,   \* NAME_RETRIES: how often such a thread looks for it
          NoCode,        \* an address where no code object lives
          NotCached,     \* NOT_CACHED: no last key
          MaxTicks       \* bounds the clock

ASSUME IdsAssumption ==
    /\ Capacity \in Nat \ {0} /\ MaxTicks \in Nat /\ NameRetries \in Nat
    /\ Unnamed \subseteq Threads
    /\ NoCode \notin Codes
    /\ NotCached \notin Keys

VARIABLES
    clock,         \* ticks read so far
    unborn,        \* code objects not created yet
    at,            \* at[k]: the code object that lives at k
    map,           \* InternerInner.map: the id of at[k], 0 for none
    info,          \* InternerInner.info, by id
    free,          \* InternerInner.free: ids and when they were freed
    generation,    \* GENERATION
    cache,         \* cache[t][k]: the id CodeCache has for k, 0 for none
    codeGen,       \* Hot.code_gen
    last,          \* Hot.last_code_key and last_code_id
    lookups,       \* lookups[t]: Hot.name_retries, 0 once the name is ensured
    call,          \* callbacks that are looking up their thread's name
    floor,         \* EventQueue.recycle_floor
    refused,       \* history: threads that did not get an id for an event
    misfiled       \* history: threads that filed an event under another name

objectVars == <<unborn, at>>
internerVars == <<map, info, free>>
cacheVars == <<cache, codeGen, last, lookups>>
idVars == <<clock, unborn, at, map, info, free, generation, cache, codeGen, last, lookups, call, floor,
            refused, misfiled>>

Ids == 1..Capacity
NothingCached == [k \in Keys |-> 0]

IdsInit ==
    /\ clock = 0
    /\ unborn = Codes
    /\ at = [k \in Keys |-> NoCode]
    /\ map = [k \in Keys |-> 0]
    /\ info = <<>>
    /\ free = <<>>
    /\ generation = 0
    /\ cache = [t \in Threads |-> NothingCached]
    /\ codeGen = [t \in Threads |-> 0]
    /\ last = [t \in Threads |-> [key |-> NotCached, id |-> 0]]
    /\ lookups = [t \in Threads |-> IF t \in Unnamed THEN NameRetries ELSE 0]
    /\ call = {}
    /\ floor = 0
    /\ refused = {}
    /\ misfiled = {}

Tick == clock < MaxTicks /\ clock' = clock + 1

---------------------------------------------------------------------------
(* Code objects come and go.                                                *)

\* A code object is there from its first callback on: before that, nothing of
\* the tracer knows of it.  Which one it is makes no difference.
CalledAt(k) ==
    IF at[k] # NoCode
    THEN UNCHANGED objectVars
    ELSE /\ unborn # {}
         /\ LET c == CHOOSE c \in unborn : TRUE
            IN  at' = [at EXCEPT ![k] = c] /\ unborn' = unborn \ {c}

\* Mutant: the watcher does not bump the generation.
DestroyQuietly(k) ==
    /\ Tick
    /\ at[k] # NoCode /\ \A c \in call : c.key # k
    /\ at' = [at EXCEPT ![k] = NoCode]
    /\ map' = [map EXCEPT ![k] = 0]
    /\ free' = IF map[k] = 0 THEN free ELSE Append(free, [id |-> map[k], freed |-> clock'])
    /\ UNCHANGED <<unborn, info, generation, cache, codeGen, last, lookups, call, floor, refused, misfiled>>

\* on_code_event and Interner::forget: a key that has an id gives it back.  A
\* code object that a callback was called for is in use.
Destroy(k) ==
    /\ Tick
    /\ at[k] # NoCode /\ \A c \in call : c.key # k
    /\ at' = [at EXCEPT ![k] = NoCode]
    /\ map' = [map EXCEPT ![k] = 0]
    /\ IF map[k] = 0
          THEN UNCHANGED <<free, generation>>
          ELSE /\ free' = Append(free, [id |-> map[k], freed |-> clock'])
               /\ generation' = generation + 1
    /\ UNCHANGED <<unborn, info, cache, codeGen, last, lookups, call, floor, refused, misfiled>>

---------------------------------------------------------------------------
(* The interner.                                                            *)

\* The places in the free list whose id may be given out again.
Recyclable == {i \in DOMAIN free : free[i].freed < floor}

\* The first of them, as position finds it.
Slot == Min(Recyclable)

\* Mutant: the id that is given out stays in the free list.
KeepRemoved(s, i) == s

\* Vec::swap_remove: the last element takes the place of the one removed.
SwapRemove(s, i) == SubSeq([s EXCEPT ![i] = s[Len(s)]], 1, Len(s) - 1)

\* Interner::lookup and insert: the id that k has, or a new one, or a recycled one.
Intern(k, id) ==
    \/ /\ map[k] # 0 /\ id = map[k]
       /\ UNCHANGED internerVars
    \/ /\ map[k] = 0 /\ Len(info) < Capacity
       /\ id = Len(info) + 1
       /\ info' = Append(info, at'[k])
       /\ map' = [map EXCEPT ![k] = id]
       /\ UNCHANGED free
    \/ /\ map[k] = 0 /\ Len(info) = Capacity /\ Recyclable # {}
       /\ id = free[Slot].id
       /\ free' = SwapRemove(free, Slot)
       /\ info' = [info EXCEPT ![id] = at'[k]]
       /\ map' = [map EXCEPT ![k] = id]

\* Interner::insert has no id for k.
NoIdFor(k) == map[k] = 0 /\ Len(info) = Capacity /\ Recyclable = {}

---------------------------------------------------------------------------
(* record and resolve_cold, up to the push.                                 *)

\* The event of a callback at k, filed under an id.
Event(k, id) == [id |-> id, code |-> at'[k]]

Filed(t, e) == misfiled' = IF info'[e.id] = e.code THEN misfiled ELSE misfiled \cup {t}

\* A thread that is looking up its name takes no other callback.
Idle(t) == \A c \in call : c.thread # t

\* The last key and id are good for this callback too.
Hits(t, k) == last[t].key = k /\ codeGen[t] = generation

UseLast(t, k, e) ==
    /\ Idle(t) /\ CalledAt(k) /\ Hits(t, k)
    /\ Tick
    /\ e = Event(k, last[t].id)
    /\ UNCHANGED <<internerVars, generation, cacheVars, call, floor, refused>>
    /\ Filed(t, e)

\* The thread's cache as resolve_cold leaves it that read generation gen.
Cached(t, gen) == IF codeGen[t] = gen THEN cache[t] ELSE NothingCached

\* CodeCache::put: k's entry, in the place of those that share its slot.
Put(cached, k, id, evicted) ==
    [j \in Keys |-> IF j = k THEN id ELSE IF j \in evicted THEN 0 ELSE cached[j]]

\* resolve_cold with a cached id, or with the interner's, which is then cached.
ResolveTo(t, k, gen, id) ==
    /\ codeGen' = [codeGen EXCEPT ![t] = gen]
    /\ IF Cached(t, gen)[k] # 0
          THEN /\ id = Cached(t, gen)[k]
               /\ cache' = [cache EXCEPT ![t] = Cached(t, gen)]
               /\ UNCHANGED internerVars
          ELSE /\ Intern(k, id)
               /\ \E evicted \in SUBSET (Keys \ {k}) :
                    cache' = [cache EXCEPT ![t] = Put(Cached(t, gen), k, id, evicted)]
    /\ last' = [last EXCEPT ![t] = [key |-> IF lookups'[t] = 0 THEN k ELSE NotCached, id |-> id]]

\* resolve_cold without an id: it returns None with the last key and id as they
\* were, but code_gen up to date.
ResolveToNone(t, k, gen) ==
    /\ Cached(t, gen)[k] = 0 /\ NoIdFor(k)
    /\ codeGen' = [codeGen EXCEPT ![t] = gen]
    /\ cache' = [cache EXCEPT ![t] = Cached(t, gen)]
    /\ refused' = refused \cup {t}
    /\ UNCHANGED <<internerVars, last, misfiled>>

\* A callback of a thread that looks up its name reads the tick and the
\* generation, uses up one of its tries, and then runs Python code.
LookUpName(t, k) ==
    /\ Idle(t) /\ CalledAt(k) /\ ~Hits(t, k)
    /\ lookups[t] > 0
    /\ lookups' = [lookups EXCEPT ![t] = @ - 1]
    /\ Tick
    /\ call' = call \cup {[thread |-> t, key |-> k, ticks |-> clock', gen |-> generation]}
    /\ UNCHANGED <<internerVars, generation, cache, codeGen, last, floor, refused, misfiled>>

\* It goes on, with a name for good or with the tries it has left.
NameLookedUp(c) ==
    /\ call' = call \ {c}
    /\ \E n \in {0, lookups[c.thread]} : lookups' = [lookups EXCEPT ![c.thread] = n]
    /\ UNCHANGED <<clock, objectVars, generation, floor>>

\* A callback of another thread goes through resolve_cold in one step.
NoNameNeeded(t, k) ==
    /\ Idle(t) /\ CalledAt(k) /\ ~Hits(t, k)
    /\ lookups[t] = 0
    /\ Tick
    /\ UNCHANGED <<generation, lookups, call, floor>>

---------------------------------------------------------------------------
IdTypes ==
    /\ clock \in 0..MaxTicks /\ floor \in 0..MaxTicks /\ generation \in 0..MaxTicks
    /\ unborn \subseteq Codes
    /\ at \in [Keys -> Codes \cup {NoCode}]
    /\ map \in [Keys -> Ids \cup {0}]
    /\ info \in Seq(Codes) /\ Len(info) <= Capacity
    /\ free \in Seq([id : Ids, freed : 1..MaxTicks])
    /\ cache \in [Threads -> [Keys -> Ids \cup {0}]]
    /\ codeGen \in [Threads -> 0..MaxTicks]
    /\ last \in [Threads -> [key : Keys \cup {NotCached}, id : Ids \cup {0}]]
    /\ call \subseteq [thread : Threads, key : Keys, ticks : 1..MaxTicks, gen : 0..MaxTicks]
    /\ lookups \in [Threads -> 0..NameRetries]
    /\ refused \subseteq Threads /\ misfiled \subseteq Threads

\* Every id handed out so far has one owner: the code object that lives at
\* the one key mapped to it, under whose name it is stored, or one entry of the
\* free list (Interner::insert, Interner::forget).
OneOwnerPerId ==
    /\ \A k \in Keys : map[k] # 0 => at[k] # NoCode /\ info[map[k]] = at[k]
    /\ \A id \in DOMAIN info :
         Cardinality({k \in Keys : map[k] = id})
           + Cardinality({i \in DOMAIN free : free[i].id = id}) = 1

\* An event is filed under another code object's name only by a thread that
\* was refused an id before (resolve_cold leaves last_code_key behind).
MisfiledOnlyAfterRefusal == misfiled \subseteq refused

=============================================================================
