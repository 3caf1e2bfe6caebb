----------------------------- MODULE KeyStorage -----------------------------
(***************************************************************************)
(* The memcached client's keys (lib/cache/clients/memcached.js): values    *)
(* at a server that any number of clients share, and an index of their     *)
(* keys, itself a value there, which each client reads, changes and writes *)
(* back.  get() does not trust what the index does not know (isGetUnsafe   *)
(* unset), and delete() finds with it what a pattern means.                *)
(*                                                                         *)
(* A key is a sequence of names.  The index is a tree; its nodes are the   *)
(* prefixes of the keys in it, as setKeyStorage() makes them all, and      *)
(* deleteKeyInStorage() cuts a branch where it forks: so it is given here  *)
(* by the set of its keys.                                                 *)
(***************************************************************************)
EXTENDS Naturals, Sequences, FiniteSets, SequencesExt, FiniteSetsExt

CONSTANTS
    Keys,           \* keys in use, sequences of names
    Patterns,       \* patterns in use, sequences of names and Star
    Star,           \* matches any one name
    NoIndex,        \* get() of the index found nothing
    Clients,        \* calls that may be under way at once, of one or more processes
    MaxCalls        \* bound: calls

ASSUME KeysAssumption ==
    /\ \A p \in Keys \cup Patterns : p \in Seq(Range(p)) /\ p # <<>>
    /\ \A p \in Keys : ~Contains(p, Star)
ASSUME NoIndexAssumption == \A t \in SUBSET Keys : t # NoIndex
ASSUME CallsAssumption == MaxCalls \in Nat

-----------------------------------------------------------------------------
(* The index as a tree. *)

Nodes(t) == {<<>>} \cup UNION {Prefixes(v) : v \in t}

Children(t, n) == {m \in Nodes(t) : Len(m) = Len(n) + 1 /\ IsPrefix(n, m)}

Beneath(t, n) == {v \in t : IsPrefix(n, v)}

Expand(p, t, nodes, d) ==
    UNION {{m \in Children(t, n) : p[d] \in {Star, m[d]}} : n \in nodes}

Reached(p, t) ==
    LET level[d \in 0 .. Len(p)] ==
            IF d = 0 THEN {<<>>} ELSE Expand(p, t, level[d - 1], d)
    IN  level[Len(p)]

(* findKeyInStorage(): of one item, the names it meets, keys or not; of    *)
(* more, the keys of a leaf, or all keys beneath what a last Star meets.   *)
Find(p, t) ==
    IF Len(p) = 1 THEN Reached(p, t)
    ELSE UNION {Beneath(t, n) :
                n \in {m \in Reached(p, t) : Last(p) = Star \/ Children(t, m) = {}}}

(* How deep the last fork is above a key's own node. *)
ForkAbove(p, t) ==
    Max({0} \cup {i \in 1 .. Len(p) - 2 : Cardinality(Children(t, SubSeq(p, 1, i))) > 1})

Fork(p, t) ==
    Max({0} \cup {i \in 1 .. Len(p) - 1 : Cardinality(Children(t, SubSeq(p, 1, i))) > 1})

(* deleteKeyInStorage() of a key: the branch at the last fork on its way. *)
Cut(p, t) ==
    IF \A i \in 1 .. Len(p) - 1 : SubSeq(p, 1, i) \in Nodes(t)
    THEN t \ Beneath(t, SubSeq(p, 1, Fork(p, t) + 1))
    ELSE t

(* ... and of a pattern: what it finds; all when it finds as many.  Where  *)
(* findKeyInStorage() returns undefined it throws, and nothing is written. *)
DropFound(p, t) ==
    IF Cardinality(Find(p, t)) = Cardinality(t) THEN {} ELSE t \ Find(p, t)

Drop(p, t) == IF Contains(p, Star) THEN DropFound(p, t) ELSE Cut(p, t)

-----------------------------------------------------------------------------

VARIABLES
    stored,         \* keys whose value is at the server
    index,          \* the index at the server
    call,           \* calls under way
    calls,          \* history: calls so far
    live,           \* history: keys set, and neither deleted nor evicted since
    excused         \* history: live keys may be missing, see Plain, Crossed and Raced

keyVars == <<stored, index, call, calls, live, excused>>

NoCall == [op |-> "none", key |-> <<>>, at |-> "done", copy |-> NoIndex]

Index == {NoIndex} \cup SUBSET Keys

Call == [op : {"none", "set", "get", "delete", "pattern"},
         key : Keys \cup Patterns \cup {<<>>},
         at : {"done", "value", "read", "drop", "write"},
         copy : Index]

KeyTypeOK ==
    /\ stored \in SUBSET Keys
    /\ index \in Index
    /\ call \in [Clients -> Call]
    /\ calls \in 0 .. MaxCalls
    /\ live \in SUBSET Keys
    /\ excused \in BOOLEAN

KeyInit ==
    /\ stored = {}
    /\ index = NoIndex
    /\ call = [c \in Clients |-> NoCall]
    /\ calls = 0
    /\ live = {}
    /\ excused = FALSE

(* What a key or a pattern means, told without a tree: the keys that match *)
(* it name by name, and those that a last Star matches the beginning of.   *)
Matches(p, v) ==
    /\ Len(p) <= Len(v)
    /\ Last(p) # Star => Len(p) = Len(v)
    /\ \A i \in 1 .. Len(p) : p[i] \in {Star, v[i]}

KeysOf(i) == IF i = NoIndex THEN {} ELSE i

(* A key that is no part of another, nor another of it. *)
Alone(key, t) == \A v \in t \ {key} : ~IsPrefix(key, v) /\ ~IsPrefix(v, key)

(* What the index is made for: patterns of several items, keys alone in    *)
(* it.  A key that is not alone is not found, or not deleted alone.        *)
Plain(op, p, t) ==
    CASE op = "get"     -> p \in t => Alone(p, t)
      [] op = "delete"  -> p \in t /\ Alone(p, t)
      [] op = "pattern" -> Len(p) > 1 /\ (~Contains(p, Star) => p \in t /\ Alone(p, t))
      [] OTHER          -> TRUE

(* A value goes while a call sets it. *)
Crossed(keys) ==
    \E c \in Clients : call[c].op = "set" /\ call[c].at # "value" /\ call[c].key \in keys

(* The index is written while another call acts on what it read of it. *)
Raced(c) == \E d \in Clients \ {c} : call[d].at \in {"drop", "write"}

Begin(c, op, p, at) ==
    /\ call[c] = NoCall
    /\ calls < MaxCalls
    /\ calls' = calls + 1
    /\ call' = [call EXCEPT ![c] = [op |-> op, key |-> p, at |-> at, copy |-> NoIndex]]
    /\ UNCHANGED <<stored, index, live, excused>>

SetKey(c, key) == Begin(c, "set", key, "value")

GetKey(c, key) == Begin(c, "get", key, "read")

DeleteKey(c, key) == Begin(c, "delete", key, "read")

DeletePattern(c, p) == Begin(c, "pattern", p, "read")

End(c) == call' = [call EXCEPT ![c] = NoCall]

(* set(): first the value, then the index. *)
ValueSet(c) ==
    /\ call[c].at = "value"
    /\ stored' = stored \cup {call[c].key}
    /\ call' = [call EXCEPT ![c].at = "read"]
    /\ UNCHANGED <<index, calls, live, excused>>

(* The index is read, here by what the call goes on to do with it. *)
IndexRead(c, at) ==
    /\ call[c].at = "read"
    /\ call' = [call EXCEPT ![c].at = at, ![c].copy = index]
    /\ excused' = (excused \/ ~Plain(call[c].op, call[c].key, KeysOf(index)))
    /\ UNCHANGED <<stored, index, calls, live>>

ReadToAdd(c) == call[c].op = "set" /\ IndexRead(c, "write")

ReadToDelete(c) == call[c].op \in {"delete", "pattern"} /\ IndexRead(c, "drop")

Unknown(key, i) == i # NoIndex /\ Find(key, i) = {}

(* The answer may be a value; only what the index lacks changes anything. *)
ReadToGet(c) ==
    /\ call[c].op = "get"
    /\ call[c].at = "read"
    /\ IF Unknown(call[c].key, index) THEN IndexRead(c, "drop")
       ELSE /\ End(c)
            /\ excused' = (excused \/ ~Plain("get", call[c].key, KeysOf(index)))
            /\ UNCHANGED <<stored, index, calls, live>>

(* del() of the key, or of all that the pattern was found to mean. *)
Found(c) ==
    IF call[c].op = "pattern" THEN Find(call[c].key, KeysOf(call[c].copy))
    ELSE {call[c].key}

Meant(c) ==
    IF call[c].op = "get" THEN {} ELSE {v \in Keys : Matches(call[c].key, v)}

ValuesDeleted(c) ==
    /\ call[c].at = "drop"
    /\ stored' = stored \ Found(c)
    /\ excused' = (excused \/ Crossed(Found(c)))
    /\ IF call[c].op = "get" THEN End(c) ELSE call' = [call EXCEPT ![c].at = "write"]
    /\ live' = live \ Meant(c)
    /\ UNCHANGED <<index, calls>>

AddAlone(key, i) == {key}

Add(key, i) == KeysOf(i) \cup {key}

Remaining(p, i) ==
    IF i = NoIndex /\ p # <<Star>> THEN NoIndex ELSE Drop(p, KeysOf(i))

(* The changed copy is written over whatever the index is by now. *)
IndexWritten(c) ==
    /\ call[c].at = "write"
    /\ LET key == call[c].key IN
         IF call[c].op = "set"
         THEN index' = Add(key, call[c].copy) /\ live' = live \cup {key}
         ELSE index' = Remaining(key, call[c].copy) /\ UNCHANGED live
    /\ excused' = (excused \/ Raced(c))
    /\ End(c)
    /\ UNCHANGED <<stored, calls>>

(* The server refuses: the call ends there, its value and index at odds. *)
Failed(c) ==
    /\ call[c] # NoCall
    /\ End(c)
    /\ UNCHANGED <<stored, index, calls, live, excused>>

(* The server drops a value, or the index with what only it knew. *)
Evicted(key) ==
    /\ key \in stored
    /\ stored' = stored \ {key}
    /\ live' = live \ {key}
    /\ excused' = (excused \/ Crossed({key}))
    /\ UNCHANGED <<index, call, calls>>

IndexEvicted ==
    /\ index # NoIndex
    /\ index' = NoIndex
    /\ excused' = TRUE
    /\ UNCHANGED <<stored, call, calls, live>>

KeyNext ==
    \/ \E c \in Clients :
          \/ \E key \in Keys : SetKey(c, key) \/ GetKey(c, key) \/ DeleteKey(c, key)
          \/ \E p \in Patterns : DeletePattern(c, p)
          \/ ValueSet(c)
          \/ ReadToAdd(c)
          \/ ReadToDelete(c)
          \/ ReadToGet(c)
          \/ ValuesDeleted(c)
          \/ IndexWritten(c)
          \/ Failed(c)
    \/ \E key \in Keys : Evicted(key)
    \/ IndexEvicted

KeySpec == KeyInit /\ [][KeyNext]_keyVars

-----------------------------------------------------------------------------

(* What was set is stored and known to the index, until it is deleted or   *)
(* evicted: no get() drops it and no pattern misses it - as long as no two *)
(* calls change the index, or a key, at the same time.                     *)
Kept == ~excused => live \subseteq stored \cap KeysOf(index)

(* The tree is as good as the set of its keys, in whatever tree the calls  *)
(* have left.  findKeyInStorage() of several items finds the keys that     *)
(* match, those that another key extends only with a last Star;            *)
(* deleteKeyInStorage() of a key that is alone deletes this key only.  (Of *)
(* a key that is not there it may delete another, and neither is promised.) *)
TreeIsASet ==
    LET t == KeysOf(index) IN
    /\ \A p \in {q \in Keys \cup Patterns : Len(q) > 1} :
          Find(p, t) = {v \in t : Matches(p, v) /\ (Last(p) = Star \/ Beneath(t, v) = {v})}
    /\ \A key \in t : Alone(key, t) => Drop(key, t) = t \ {key}
=============================================================================
