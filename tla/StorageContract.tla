-------------------------- MODULE StorageContract --------------------------
(***************************************************************************)
(* The rules every storage backend of cartridge-storage applies to one     *)
(* namespace (crates/cartridge-storage/src/lib.rs): what a value, a set    *)
(* of limits and a batch of mutations are, and what one write computes     *)
(* from the entries it finds.  MemoryStorage and DirectoryStorage share    *)
(* these operators, as the two backends share the functions.               *)
(*                                                                         *)
(* Data abstraction: a value is known by its length in bytes, so Values is *)
(* a set of naturals (0 is the empty value, which occupies a key and no    *)
(* bytes).  A namespace maps every key to a value or to Absent.            *)
(***************************************************************************)
EXTENDS Integers, FiniteSets, FiniteSetsExt, Sequences

CONSTANTS
    Keys,           \* the keys a guest may use; validate_key accepts them
    Values,         \* lengths of the values a guest may write
    MaxOperations,  \* MAX_TRANSACTION_OPERATIONS
    MaxBytes,       \* MAX_STORAGE_BYTES
    Limits          \* StorageLimits: [max_bytes, max_keys, max_value_bytes]

ASSUME ValuesAssumption == Values \subseteq Nat

ASSUME KeysAssumption == IsFiniteSet(Keys)

Absent == -1

Size(v) == IF v = Absent THEN 0 ELSE v

Entries == [Keys -> Values \cup {Absent}]

NoEntries == [k \in Keys |-> Absent]

\* One mutation of a batch: a put, or a delete when its value is Absent.
Mutation == [key: Keys, value: Values \cup {Absent}]

Present(entries) == {k \in Keys : entries[k] # Absent}

Bytes(entries) == SumFunction([k \in Keys |-> Size(entries[k])])

\* validate_limits
ValidLimits(limits) ==
    /\ limits.max_bytes # 0
    /\ limits.max_keys # 0
    /\ limits.max_value_bytes # 0
    /\ limits.max_value_bytes <= limits.max_bytes
    /\ limits.max_bytes <= MaxBytes

ASSUME LimitsAssumption ==
    /\ Limits \in [max_bytes: Nat, max_keys: Nat, max_value_bytes: Nat]
    /\ ValidLimits(Limits)

\* validate_entry_limits, and validate_restore_limits of the directory backend
WithinLimits(entries) ==
    /\ Cardinality(Present(entries)) <= Limits.max_keys
    /\ \A k \in Keys : Size(entries[k]) <= Limits.max_value_bytes
    /\ Bytes(entries) <= Limits.max_bytes

\* validate_mutations: between one and MaxOperations mutations of different
\* keys, none with a value longer than the limit of one value.
ValidMutations(mutations) ==
    /\ Len(mutations) \in 1 .. MaxOperations
    /\ \A i, j \in DOMAIN mutations :
          i # j => mutations[i].key # mutations[j].key
    /\ \A i \in DOMAIN mutations :
          Size(mutations[i].value) <= Limits.max_value_bytes

\* What a write returns: the error, or "ok" with the entries and the byte
\* count that the backend stores.
Written(entries, bytes) == [error |-> "ok", entries |-> entries, bytes |-> bytes]

Refused(error, entries, bytes) ==
    [error |-> error, entries |-> entries, bytes |-> bytes]

\* put, for a value within the limit of one value: the quota is charged from
\* the stored byte count, not recomputed.
PutWrite(entries, bytes, key, value) ==
    LET next == bytes - Size(entries[key]) + Size(value)
    IN  IF entries[key] = value THEN Written(entries, bytes)
        ELSE IF next > Limits.max_bytes THEN Refused("quota", entries, bytes)
        ELSE IF /\ entries[key] = Absent
                /\ Cardinality(Present(entries)) >= Limits.max_keys
        THEN Refused("key_limit", entries, bytes)
        ELSE Written([entries EXCEPT ![key] = value], next)

\* delete
DeleteWrite(entries, bytes, key) ==
    Written([entries EXCEPT ![key] = Absent], bytes - Size(entries[key]))

\* mutations_change
MutationsChange(entries, mutations) ==
    \E i \in DOMAIN mutations :
        entries[mutations[i].key] # mutations[i].value

\* The mutations apply_mutations accounts for: those that change their key.
Effective(entries, mutations) ==
    {i \in DOMAIN mutations : entries[mutations[i].key] # mutations[i].value}

\* The byte count after a batch: the sums of what it removes and what it adds.
NextBytes(entries, bytes, mutations) ==
    LET effective == Effective(entries, mutations)
    IN  bytes - SumFunction([i \in effective |-> Size(entries[mutations[i].key])])
              + SumFunction([i \in effective |-> Size(mutations[i].value)])

\* The number of keys after it.
NextKeys(entries, mutations) ==
    LET effective == Effective(entries, mutations)
        removed == {i \in effective : mutations[i].value = Absent}
        added == {i \in effective : entries[mutations[i].key] = Absent}
    IN  Cardinality(Present(entries)) - Cardinality(removed) + Cardinality(added)

\* The entries after it.
NextEntries(entries, mutations) ==
    LET values(k) == {mutations[i].value :
                        i \in {j \in DOMAIN mutations : mutations[j].key = k}}
    IN  [k \in Keys |-> IF values(k) = {} THEN entries[k]
                        ELSE CHOOSE v \in values(k) : TRUE]

\* apply_mutations: usage is charged with the sums of what is removed and
\* what is added, both quotas are checked on the totals, and only then are
\* the entries changed, all of them.
ApplyMutations(entries, bytes, mutations) ==
    LET nextBytes == NextBytes(entries, bytes, mutations)
    IN  IF nextBytes > Limits.max_bytes THEN Refused("quota", entries, bytes)
        ELSE IF NextKeys(entries, mutations) > Limits.max_keys
        THEN Refused("key_limit", entries, bytes)
        ELSE Written(NextEntries(entries, mutations), nextBytes)
=============================================================================
