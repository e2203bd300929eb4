------------------------------- MODULE Cache -------------------------------
(***************************************************************************)
(* The cache connections of infrastructure/cache/: CacheManager with its   *)
(* named connections, the key and lifetime rules every client shares, and  *)
(* what the Redis and the Memcached storage make of them.                  *)
(*                                                                         *)
(* A command is one message to the server and one reply.  The reply may be *)
(* lost while the command is still on its way: the caller gets             *)
(* CacheOperationError (or is cancelled) and the server carries the        *)
(* command out later, after commands that were sent later, or never.       *)
(*                                                                         *)
(* Time runs in half seconds, so that a truncated second shows.  Every     *)
(* connection has a server of its own, which keeps the clock of its        *)
(* clients and evicts nothing before its time.  Scripts are modelled with  *)
(* the components that own them.                                           *)
(***************************************************************************)
EXTENDS Integers, FiniteSets

CONSTANTS
  CacheConfigs,    \* cache settings a process may be started with
  CKeys,           \* business keys: [bytes, clean] records
  CValues,         \* values, members and hash fields
  Ttls,            \* lifetimes a caller asks for, in seconds
  MaxKeyBytes,     \* MAX_CACHE_KEY_BYTES
  RelativeLimit,   \* MEMCACHED_RELATIVE_EXPIRY_LIMIT, in seconds
  StartClock,      \* the Unix time at which a process starts, in half seconds
  MaxClock,        \* bound: half seconds
  MaxLate          \* bound: commands on their way without a caller

ASSUME CacheTimes ==
  /\ RelativeLimit \in Nat \ {0} /\ Ttls \subseteq Nat \ {0}
  /\ StartClock \in Nat /\ StartClock > 2 * RelativeLimit
  /\ MaxClock \in Nat /\ MaxLate \in Nat
(* CacheSettings.default_ttl: positive, or none.                           *)
ASSUME DefaultTtlAssumption == \A s \in CacheConfigs : s.ttl \in Nat

VARIABLES
  cacheConfig,   \* the settings of this process
  cacheClosed,   \* CacheManager._closed
  clock,         \* the time, in half seconds
  entry,         \* entry[c][k]: what the server of c has under k
  told,          \* told[c][k]: what the replies promise the callers
  adrift         \* commands whose callers have given up

cacheVars == <<cacheConfig, cacheClosed, clock, entry, told, adrift>>

Connections == UNION {DOMAIN s.connections : s \in CacheConfigs}

(* An entry holds pairs: the value of a string, the fields of a hash, the  *)
(* members of a set, the members of a sorted set with their scores.        *)
(* Never is the deadline of an entry without one.                          *)
Never == 0
Absent  == [type |-> "none", val |-> {}, until |-> Never]
Unknown == [type |-> "unknown", val |-> {}, until |-> Never]
Scores  == {0, 1}

-----------------------------------------------------------------------------
(* Configuration, keys and lifetimes                                       *)

(* CacheKeyBuilder._validate_config_segment, for a segment that is there.  *)
Segment(s) == s.bytes > 0 /\ s.clean

(* _prepare_connections: everything is checked before the process starts.  *)
Prepared(s) ==
  /\ s.default \in DOMAIN s.connections \cup {"none"}
  /\ DOMAIN s.connections # {} => Segment(s.namespace)
  /\ \A c \in DOMAIN s.connections :
       /\ s.connections[c].driver \in {"redis", "memcached"}
       /\ s.connections[c].prefix.bytes > 0 => Segment(s.connections[c].prefix)

(* _get_resource and _resolve_name: the connections a caller may reach, by *)
(* their name or as the default one; none once the manager is closing.     *)
Reachable ==
  IF cacheClosed THEN {} ELSE DOMAIN cacheConfig.connections

Driver(c) == cacheConfig.connections[c].driver

(* require_redis *)
RequireRedis(c) == Driver(c) = "redis"

(* CacheKeyBuilder.build: the bytes of namespace:prefix:key.               *)
FinalBytes(c, k) ==
  LET prefix == cacheConfig.connections[c].prefix.bytes
  IN  cacheConfig.namespace.bytes + 1 + (IF prefix = 0 THEN 0 ELSE prefix + 1) + k.bytes

ValidKey(c, k) == k.bytes > 0 /\ k.clean /\ FinalBytes(c, k) <= MaxKeyBytes

(* The sentinels of CacheTTL, and Python's None.                           *)
DefaultExpiration == -1
NoExpiration == -2
NoTtl == 0

(* ManagedCacheClient._resolve_ttl, of a value it accepts.                 *)
ResolveTtl(ttl) ==
  CASE ttl = DefaultExpiration -> cacheConfig.ttl
    [] ttl = NoExpiration -> NoTtl
    [] OTHER -> ttl

(* RedisStringStorage.set, with EX.                                        *)
RedisDeadline(ttl) == IF ttl = NoTtl THEN Never ELSE clock + 2 * ttl

(* Mutant: every lifetime is sent as a relative one.                       *)
RelativeExpiry(ttl) == ttl

(* MemcachedCacheStorage._expiry: 0 for no expiry, seconds up to the       *)
(* limit, Unix time in whole seconds beyond it.                            *)
Expiry(ttl) ==
  CASE ttl = NoTtl -> 0
    [] ttl \in 1..RelativeLimit -> ttl
    [] OTHER -> clock \div 2 + ttl

(* How a Memcached server reads it; its clock counts whole seconds.        *)
MemcachedDeadline(expiry) ==
  CASE expiry = 0 -> Never
    [] expiry \in 1..RelativeLimit -> 2 * (clock \div 2 + expiry)
    [] OTHER -> 2 * expiry

Deadline(c, ttl) ==
  IF RequireRedis(c) THEN RedisDeadline(ttl) ELSE MemcachedDeadline(Expiry(ttl))

-----------------------------------------------------------------------------
(* Reading                                                                 *)

Unexpired(e) == e.until = Never \/ clock < e.until

Current(e) == IF Unexpired(e) THEN e ELSE Absent

HasEntry(c, k) == Current(entry[c][k]).type # "none"

(* A read of one type that meets another raises CacheOperationError.       *)
WrongType(e, type) == e.type \notin {"none", type}

Get(c, k) == Current(entry[c][k]).val

HashGetAll(c, k) == Current(entry[c][k]).val

(* RedisKeyStorage.ttl: rounded seconds, -1 without and -2 for no entry.   *)
Ttl(c, k) ==
  LET e == Current(entry[c][k])
  IN  CASE e.type = "none" -> -2
        [] e.type # "none" /\ e.until = Never -> -1
        [] OTHER -> (e.until - clock + 1) \div 2

(* sorted_set_range_by_score, both ends included.                          *)
RangeByScore(c, k, minimum, maximum) ==
  {p \in Current(entry[c][k]).val : minimum <= p[2] /\ p[2] <= maximum}

-----------------------------------------------------------------------------
(* Writing: what a command makes of a current entry, and its reply         *)

String(v, until) == [type |-> "string", val |-> {<<v, 0>>}, until |-> until]

(* A collection keeps its deadline; a new one has none; an empty one is    *)
(* no entry.                                                               *)
Collection(e, type, val) ==
  IF val = {} THEN Absent ELSE [type |-> type, val |-> val, until |-> e.until]

Members(e) == {p[1] : p \in e.val}
Without(e, m) == {p \in e.val : p[1] # m}

Set(cmd, e) == String(cmd.member, Deadline(cmd.c, ResolveTtl(cmd.ttl)))

(* SET NX PX: the reply says whether it was written.                       *)
SetIfAbsent(cmd, e) == IF e.type = "none" THEN String(cmd.member, clock + cmd.ttl) ELSE e

Expire(cmd, e) == IF e.type = "none" THEN e ELSE [e EXCEPT !.until = clock + 2 * cmd.ttl]

HashSet(cmd, e) == Collection(e, "hash", Without(e, cmd.member) \cup {<<cmd.member, cmd.score>>})

SetAdd(cmd, e) == Collection(e, "set", e.val \cup {<<cmd.member, 0>>})

SortedSetAdd(cmd, e) ==
  IF cmd.nx /\ cmd.member \in Members(e) THEN e
  ELSE Collection(e, "zset", Without(e, cmd.member) \cup {<<cmd.member, cmd.score>>})

SortedSetRemove(cmd, e) == Collection(e, "zset", Without(e, cmd.member))

Effect(cmd, e) ==
  CASE cmd.op = "set" -> Set(cmd, e)
    [] cmd.op = "delete" -> Absent
    [] cmd.op = "set_if_absent" -> SetIfAbsent(cmd, e)
    [] cmd.op = "expire" -> Expire(cmd, e)
    [] cmd.op = "hash_set" -> HashSet(cmd, e)
    [] cmd.op = "set_add" -> SetAdd(cmd, e)
    [] cmd.op = "sorted_set_add" -> SortedSetAdd(cmd, e)
    [] cmd.op = "sorted_set_remove" -> SortedSetRemove(cmd, e)

TypeOf == [hash_set |-> "hash", set_add |-> "set", sorted_set_add |-> "zset",
           sorted_set_remove |-> "zset"]

(* The server refuses a command on an entry of another type (WRONGTYPE).   *)
Refuses(cmd, e) == cmd.op \in DOMAIN TypeOf /\ WrongType(e, TypeOf[cmd.op])

(* The Boolean of the reply: written, existed, member is new, member was   *)
(* there.                                                                  *)
Reply(cmd, e) ==
  CASE cmd.op = "set" -> TRUE
    [] cmd.op = "set_if_absent" -> e.type = "none"
    [] cmd.op \in {"delete", "expire"} -> e.type # "none"
    [] cmd.op = "sorted_set_remove" -> cmd.member \in Members(e)
    [] OTHER -> cmd.member \notin Members(e)

(* The commands of a client: the public ones on any connection, the others *)
(* on Redis.  Arguments a command does not take have a fixed value.        *)
Cmd(c, k, op, member, ttl, score, nx) ==
  [c |-> c, k |-> k, op |-> op, member |-> member, ttl |-> ttl, score |-> score, nx |-> nx]

PublicCommands(c, k) ==
  {Cmd(c, k, "set", v, t, 0, FALSE) : v \in CValues, t \in Ttls \cup {DefaultExpiration, NoExpiration}}
  \cup {Cmd(c, k, "delete", 0, 0, 0, FALSE)}

RedisCommands(c, k) ==
  {Cmd(c, k, "set_if_absent", v, t, 0, FALSE) : v \in CValues, t \in Ttls}
  \cup {Cmd(c, k, "expire", 0, t, 0, FALSE) : t \in Ttls}
  \cup {Cmd(c, k, op, m, 0, 0, FALSE) : op \in {"set_add", "sorted_set_remove"}, m \in CValues}
  \cup {Cmd(c, k, "hash_set", m, 0, s, FALSE) : m \in CValues, s \in Scores}
  \cup {Cmd(c, k, "sorted_set_add", m, 0, s, nx) : m \in CValues, s \in Scores, nx \in BOOLEAN}

Commands ==
  UNION {PublicCommands(c, k) \cup (IF RequireRedis(c) THEN RedisCommands(c, k) ELSE {}) :
           c \in Reachable, k \in CKeys}

-----------------------------------------------------------------------------
(* What a caller may conclude from a reply: the contract of CacheClient    *)
(* and of the docstrings, of which the storages know nothing.              *)
Lifetime(ttl) == IF ttl = NoTtl THEN Never ELSE clock + 2 * ttl

Conclude(cmd, t, reply) ==
  LET known == t.type # "unknown"
      was == IF known THEN Current(t) ELSE t
      Now(type, val) == [type |-> type, val |-> val,
                         until |-> IF was.type = "none" THEN Never ELSE was.until]
  IN
  CASE cmd.op = "set" -> String(cmd.member, Lifetime(ResolveTtl(cmd.ttl)))
    [] cmd.op = "delete" -> Absent
    [] cmd.op = "expire" /\ ~reply -> Absent
    [] cmd.op = "set_if_absent" /\ reply -> String(cmd.member, clock + cmd.ttl)
    [] cmd.op = "expire" /\ reply /\ known -> [was EXCEPT !.until = Lifetime(cmd.ttl)]
    [] cmd.op = "hash_set" /\ known ->
         Now("hash", Without(was, cmd.member) \cup {<<cmd.member, cmd.score>>})
    [] cmd.op = "set_add" /\ known /\ reply -> Now("set", was.val \cup {<<cmd.member, 0>>})
    [] cmd.op = "sorted_set_add" /\ known /\ (reply \/ ~cmd.nx) ->
         Now("zset", Without(was, cmd.member) \cup {<<cmd.member, cmd.score>>})
    [] cmd.op = "sorted_set_remove" /\ known /\ reply ->
         Collection(was, "zset", Without(was, cmd.member))
    [] OTHER -> t

-----------------------------------------------------------------------------
CacheInit ==
  /\ cacheConfig \in {s \in CacheConfigs : Prepared(s)}
  /\ cacheClosed = FALSE
  /\ clock = StartClock
  /\ entry = [c \in Connections |-> [k \in CKeys |-> Absent]]
  /\ told = [c \in Connections |-> [k \in CKeys |-> Absent]]
  /\ adrift = {}

Know(cmd, t) == told' = [told EXCEPT ![cmd.c][cmd.k] = t]
Store(cmd, e) == entry' = [entry EXCEPT ![cmd.c][cmd.k] = e]

Carried(cmd) == Current(entry[cmd.c][cmd.k])

(* A command without a caller may still reach the key.                     *)
Pending(c, k) == \E cmd \in adrift : cmd.c = c /\ cmd.k = k

(* The command is carried out and the reply arrives.                       *)
Answered(cmd) ==
  /\ ValidKey(cmd.c, cmd.k) /\ ~Refuses(cmd, Carried(cmd))
  /\ Store(cmd, Effect(cmd, Carried(cmd)))
  /\ Know(cmd, IF Pending(cmd.c, cmd.k) THEN Unknown
               ELSE Conclude(cmd, told[cmd.c][cmd.k], Reply(cmd, Carried(cmd))))
  /\ UNCHANGED <<cacheConfig, cacheClosed, clock, adrift>>

(* CacheOperationError: refused by the server, or a set that was answered  *)
(* with anything but True; a Memcached server may then have dropped what   *)
(* it had.                                                                 *)
Failed(cmd) ==
  /\ ValidKey(cmd.c, cmd.k)
  /\ \/ Refuses(cmd, Carried(cmd)) /\ UNCHANGED entry
     \/ cmd.op = "set" /\ (UNCHANGED entry \/ Store(cmd, Absent))
  /\ Know(cmd, Unknown)
  /\ UNCHANGED <<cacheConfig, cacheClosed, clock, adrift>>

(* The connection breaks, the read times out or the caller is cancelled.   *)
Lost(cmd) ==
  /\ ValidKey(cmd.c, cmd.k)
  /\ Cardinality(adrift) < MaxLate
  /\ adrift' = adrift \cup {cmd}
  /\ Know(cmd, Unknown)
  /\ UNCHANGED <<cacheConfig, cacheClosed, clock, entry>>

(* A command without a caller reaches its server after all.                *)
Arrive(cmd) ==
  /\ IF Refuses(cmd, Carried(cmd)) THEN UNCHANGED entry ELSE Store(cmd, Effect(cmd, Carried(cmd)))
  /\ adrift' = adrift \ {cmd}
  /\ UNCHANGED <<cacheConfig, cacheClosed, clock, told>>

(* aclose: no new borrowing; the connections are released.                 *)
Aclose ==
  /\ ~cacheClosed
  /\ cacheClosed' = TRUE
  /\ UNCHANGED <<cacheConfig, clock, entry, told, adrift>>

Clock ==
  /\ clock < MaxClock
  /\ clock' = clock + 1
  /\ UNCHANGED <<cacheConfig, cacheClosed, entry, told, adrift>>

CacheNext ==
  \/ \E cmd \in Commands : Answered(cmd) \/ Failed(cmd) \/ Lost(cmd)
  \/ \E cmd \in adrift : Arrive(cmd)
  \/ Aclose
  \/ Clock

CacheSpec == CacheInit /\ [][CacheNext]_cacheVars

-----------------------------------------------------------------------------
(* Both drivers keep the contract of CacheClient.  Whatever the callers    *)
(* may conclude from the replies is what reads return, until the lifetime  *)
(* they asked for is over and not a moment longer (on Memcached, whose     *)
(* clock counts whole seconds, it may be over less than a second early):   *)
(* for lifetimes on both sides of Memcached's limit for relative ones, for *)
(* those replaced by expire, kept by a collection, or untouched by a       *)
(* conditional write.  Of a key that a command of a caller who has given   *)
(* up may still reach, a reply promises nothing: the code does not keep    *)
(* such a command from overwriting what was acknowledged after it.         *)
CacheKeepsItsWord ==
  \A c \in DOMAIN cacheConfig.connections, k \in CKeys :
    LET t == told[c][k]
        promised == Current(t)
        early == IF RequireRedis(c) THEN 0 ELSE 1
    IN  t.type # "unknown" =>
          /\ HasEntry(c, k) => promised.type = entry[c][k].type
          /\ promised.type # "none" /\ ~HasEntry(c, k) =>
               t.until # Never /\ clock + early >= t.until
          /\ HasEntry(c, k) =>
               /\ promised.type = "string" => Get(c, k) = promised.val
               /\ promised.type \in {"hash", "set"} => HashGetAll(c, k) = promised.val
               /\ promised.type = "zset" =>
                    \A m \in Scores : RangeByScore(c, k, 0, m) = {p \in promised.val : p[2] <= m}
               /\ RequireRedis(c) =>
                    IF t.until = Never THEN Ttl(c, k) = -1
                    ELSE 2 * Ttl(c, k) - (t.until - clock) \in {0, 1}
=============================================================================
