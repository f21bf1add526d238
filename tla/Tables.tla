-------------------------------- MODULE Tables --------------------------------
(***************************************************************************)
(* The hash tables: CHashMap (src/src/HashMap.h), COrderedHashMap, which   *)
(* keeps its entries in a list beside one, and SPointerSet, which has keys *)
(* only. All have chained buckets and grow at three quarters of their      *)
(* capacity; growing moves entries while the chains are walked.            *)
(***************************************************************************)
EXTENDS Integers, Sequences, FiniteSets

S == INSTANCE SequencesExt

CONSTANTS Keys,        \* integers, which hash to themselves
          Values,
          Capacities,  \* the capacities a table may begin with
          MaxChanges   \* bound: operations that change the table

VARIABLES kind,        \* "hash", "ordered" or "pointers"
          m_buckets,   \* sequences of <<key, value>>
          m_size, m_threshold, m_modCount,
          m_list,      \* of an ordered map: its entries, oldest first
          enum,        \* an enumerator
          promised,    \* history: the function from keys to values the operations promise
          changes
vars == <<kind, m_buckets, m_size, m_threshold, m_modCount, m_list, enum, promised, changes>>

Nothing == [k \in {} |-> 0]
NoEnum == [where |-> "none", entry |-> <<>>, mod |-> 0, seen |-> <<>>]

Threshold(capacity) == (capacity * 3) \div 4

Init == /\ kind \in {"hash", "ordered", "pointers"}
        /\ \E c \in Capacities : m_buckets = [i \in 1..c |-> <<>>] /\ m_threshold = Threshold(c)
        /\ m_size = 0 /\ m_modCount = 0 /\ m_list = <<>> /\ enum = NoEnum
        /\ promised = Nothing /\ changes = 0

\* abs(hash % count)
getIdx(k, count) == 1 + ((IF k < 0 THEN -k ELSE k) % count)

Bucket(k) == m_buckets[getIdx(k, Len(m_buckets))]
Has(k, e) == e[1] = k
\* The first entry of the chain with the key.
Found(k) == SelectSeq(Bucket(k), LAMBDA e : Has(k, e))
Contains(k) == Found(k) # <<>>
TryGet(k) == Found(k)[1][2]

\* rehash: the old buckets from the last to the first, each entry to the end of its
\* new chain.
rehash == LET all == S!FlattenSeq(S!Reverse(m_buckets))
              count == 2 * Len(m_buckets) + 1
          IN [i \in 1..count |-> SelectSeq(all, LAMBDA e : getIdx(e[1], count) = i)]

\* addEntry
Prepend(buckets, i, e) == [buckets EXCEPT ![i] = <<e>> \o @]

\* Mutant of Grow: the place is the one of the smaller table.
GrowAtOldPlace(k, v) ==
    /\ m_buckets' = Prepend(rehash, getIdx(k, Len(m_buckets)), <<k, v>>)
    /\ m_threshold' = Threshold(2 * Len(m_buckets) + 1)
\* Set of a new key when the table is full: "Need a new idx to suit the bigger table."
Grow(k, v) ==
    /\ m_buckets' = Prepend(rehash, getIdx(k, Len(rehash)), <<k, v>>)
    /\ m_threshold' = Threshold(2 * Len(m_buckets) + 1)

Add(k, v) ==
    /\ m_size' = m_size + 1
    /\ IF m_size + 1 > m_threshold
       THEN Grow(k, v)
       ELSE /\ m_buckets' = Prepend(m_buckets, getIdx(k, Len(m_buckets)), <<k, v>>)
            /\ UNCHANGED m_threshold
    /\ m_modCount' = m_modCount + 1
    /\ m_list' = IF kind = "ordered" THEN Append(m_list, <<k, v>>) ELSE m_list

Replace(k, v) ==
    LET i == getIdx(k, Len(m_buckets))
        first == S!SelectInSeq(m_buckets[i], LAMBDA e : Has(k, e))
    IN /\ m_buckets' = [m_buckets EXCEPT ![i] = S!ReplaceAt(@, first, <<k, v>>)]
       /\ UNCHANGED <<m_size, m_threshold, m_modCount, m_list>>

Changes == changes < MaxChanges /\ changes' = changes + 1

\* COrderedHashMap::Set does nothing when it has the key; SPointerSet has no values.
Set(k, v) ==
    /\ Changes
    /\ IF ~Contains(k) THEN Add(k, v)
       ELSE IF kind = "hash" THEN Replace(k, v)
       ELSE UNCHANGED <<m_buckets, m_size, m_threshold, m_modCount, m_list>>
    /\ promised' = IF k \in DOMAIN promised /\ kind # "hash" THEN promised
                   ELSE [x \in DOMAIN promised \cup {k} |-> IF x = k THEN v ELSE promised[x]]
    /\ UNCHANGED <<kind, enum>>

\* Mutant of Unlink: the enumerators are not told.
UnlinkQuietly(k) ==
    LET i == getIdx(k, Len(m_buckets))
    IN /\ m_buckets' = [m_buckets EXCEPT ![i] = SelectSeq(@, LAMBDA e : ~Has(k, e))]
       /\ m_size' = m_size - 1 /\ UNCHANGED m_modCount
Unlink(k) ==
    LET i == getIdx(k, Len(m_buckets))
    IN /\ m_buckets' = [m_buckets EXCEPT ![i] = SelectSeq(@, LAMBDA e : ~Has(k, e))]
       /\ m_size' = m_size - 1 /\ m_modCount' = m_modCount + 1

Remove(k) ==
    /\ Changes /\ Contains(k)
    /\ Unlink(k)
    /\ m_list' = SelectSeq(m_list, LAMBDA e : ~Has(k, e))
    /\ promised' = [x \in DOMAIN promised \ {k} |-> promised[x]]
    /\ UNCHANGED <<kind, m_threshold, enum>>

\* Clear keeps the buckets.
Clear ==
    /\ Changes
    /\ m_buckets' = [i \in 1..Len(m_buckets) |-> <<>>]
    /\ m_size' = 0 /\ m_list' = <<>> /\ m_modCount' = m_modCount + 1
    /\ promised' = Nothing
    /\ UNCHANGED <<kind, m_threshold, enum>>

(***************************************************************************)
(* An enumerator is at a bucket and at an entry of it, or, for an ordered  *)
(* map, at a node of its list. The set of pointers does not count changes: *)
(* its users do not change it during an enumeration.                       *)
(***************************************************************************)
Reset == /\ enum' = [NoEnum EXCEPT !.mod = m_modCount, !.where = "on"]
         /\ UNCHANGED <<kind, m_buckets, m_size, m_threshold, m_modCount, m_list, promised, changes>>

\* What the enumerator walks: the buckets from the first to the last.
Walked == IF kind = "ordered" THEN m_list ELSE S!FlattenSeq(m_buckets)
\* The entries behind the one the enumerator is at.
Rest == IF enum.entry = <<>> THEN Walked
        ELSE LET at == S!SelectInSeq(Walked, LAMBDA e : Has(enum.entry[1], e))
             IN SubSeq(Walked, at + 1, Len(Walked))

MoveNext ==
    /\ enum.where = "on" /\ enum.mod = m_modCount
    /\ enum' = IF Rest = <<>> THEN [enum EXCEPT !.where = "end"]
               ELSE [enum EXCEPT !.entry = Head(Rest), !.seen = Append(@, Head(Rest)[1])]
    /\ UNCHANGED <<kind, m_buckets, m_size, m_threshold, m_modCount, m_list, promised, changes>>

Next == \/ \E k \in Keys, v \in Values : Set(k, v)
        \/ \E k \in Keys : Remove(k)
        \/ Clear \/ Reset \/ MoveNext
Spec == Init /\ [][Next]_vars

-----------------------------------------------------------------------------
KeysOf(entries) == [i \in 1..Len(entries) |-> entries[i][1]]
\* Whatever was added, replaced, removed and rehashed: a key is found exactly when it
\* was put in and not taken out, with the last value (the first one for an ordered
\* map), and the size counts the keys.
IsMap == /\ \A k \in Keys : Contains(k) <=> k \in DOMAIN promised
         /\ \A k \in DOMAIN promised : kind = "pointers" \/ TryGet(k) = promised[k]
         /\ m_size = Cardinality(DOMAIN promised)
         /\ kind = "ordered" => \A i \in 1..Len(m_list) : m_list[i][2] = promised[m_list[i][1]]

\* An enumeration that ends without an error has met every key exactly once.
EnumeratesOnce == enum.where = "end" =>
    /\ S!IsInjective(enum.seen)
    /\ enum.mod = m_modCount => S!ToSet(enum.seen) = DOMAIN promised
TablesAreMaps == IsMap /\ EnumeratesOnce

\* "If the map previously contained a mapping for the key, the old value is replaced."
\* (OrderedHashMap.h:76): refuted for ordered maps.
SetReplaces == [][\A k \in Keys, v \in Values :
                     Set(k, v) /\ kind = "ordered" => promised'[k] = v]_vars
=============================================================================
