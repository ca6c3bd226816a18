------------------------------ MODULE CertStore ------------------------------
(***************************************************************************)
(* The table behind certmagic.Storage (PGStorage in internal/certs): one   *)
(* statement per operation, and List, which makes a directory listing of   *)
(* a flat set of keys.  A key is a sequence of code points.                *)
(***************************************************************************)
EXTENDS Naturals, FiniteSets, Sequences, SequencesExt, Functions

CONSTANTS
  StoreKeys,   \* the keys certmagic uses
  Values,      \* what it stores
  ListPrefixes,\* the prefixes it lists; none has a % or a backslash
  Collation    \* how the database orders text: "bytes" or "locale"

ASSUME CertStoreAssumption ==
  /\ StoreKeys \cup ListPrefixes \subseteq Seq(Nat)
  /\ Collation \in {"bytes", "locale"}

SlashByte == 47
Underscore == 95

VARIABLE table   \* cert_store: the value of each key that is there

Init == table = <<>>

Store(k, v) == table' = [x \in DOMAIN table \cup {k} |-> IF x = k THEN v ELSE table[x]]

Delete(k) == table' = Restrict(table, DOMAIN table \ {k})

Next == \E k \in StoreKeys : Delete(k) \/ \E v \in Values : Store(k, v)

Spec == Init /\ [][Next]_table

-----------------------------------------------------------------------------
(* List *)

\* key LIKE prefix || '%', where an underscore stands for any character.
Like(k, prefix) ==
  /\ Len(k) >= Len(prefix)
  /\ \A i \in 1..Len(prefix) : prefix[i] \in {k[i], Underscore}

BytesBefore(a, b) ==
  \/ IsStrictPrefix(a, b)
  \/ \E i \in (1..Len(a)) \cap (1..Len(b)) :
       a[i] < b[i] /\ SubSeq(a, 1, i - 1) = SubSeq(b, 1, i - 1)

\* Locales compare letters and digits first, the rest breaks ties.
IsLetterOrDigit(c) == c \in 48..57 \cup 65..90 \cup 97..122
LocaleBefore(a, b) ==
  LET la == SelectSeq(a, IsLetterOrDigit)
      lb == SelectSeq(b, IsLetterOrDigit)
  IN  BytesBefore(la, lb) \/ (la = lb /\ BytesBefore(a, b))

Before(a, b) == IF Collation = "bytes" THEN BytesBefore(a, b) ELSE LocaleBefore(a, b)

\* The rows of the query, in order.
Selected(prefix) ==
  LET found == {k \in DOMAIN table : Like(k, prefix)}
  IN  [i \in 1..Cardinality(found) |->
         CHOOSE k \in found : Cardinality({x \in found : Before(x, k)}) = i - 1]

TrimPrefix(k, prefix) == IF IsPrefix(prefix, k) THEN SubSeq(k, Len(prefix) + 1, Len(k)) ELSE k

\* Mutant: directories are not deduplicated.
ListEntryAlways(keys, k, prefix, recursive) ==
  LET suffix == TrimPrefix(k, prefix)
      slashes == {i \in DOMAIN suffix : suffix[i] = SlashByte}
  IN  IF recursive \/ slashes = {} THEN Append(keys, k)
      ELSE LET i == CHOOSE i \in slashes : \A j \in slashes : i <= j
           IN  Append(keys, prefix \o SubSeq(suffix, 1, i))

\* What one row adds to the listing: itself, or the directory it is in, unless
\* that is what the row before has just added.
ListEntry(keys, k, prefix, recursive) ==
  LET suffix == TrimPrefix(k, prefix)
      slashes == {i \in DOMAIN suffix : suffix[i] = SlashByte}
  IN  IF recursive \/ slashes = {} THEN Append(keys, k)
      ELSE LET i == CHOOSE i \in slashes : \A j \in slashes : i <= j
               dir == prefix \o SubSeq(suffix, 1, i)
           IN  IF keys # <<>> /\ Last(keys) = dir THEN keys ELSE Append(keys, dir)

List(prefix, recursive) ==
  FoldLeft(LAMBDA keys, k : ListEntry(keys, k, prefix, recursive), <<>>, Selected(prefix))

-----------------------------------------------------------------------------

\* What is below a prefix: keys, and directories that end in the next slash.
Below(prefix) == {k \in DOMAIN table : IsPrefix(prefix, k)}
IsChild(entry, prefix) ==
  /\ IsPrefix(prefix, entry)
  /\ \A i \in (Len(prefix) + 1)..(Len(entry) - 1) : entry[i] # SlashByte
Children(prefix) ==
  {k \in Below(prefix) : IsChild(k, prefix)}
  \cup {d \in UNION {{SubSeq(k, 1, i) : i \in (Len(prefix) + 1)..Len(k)} : k \in Below(prefix)} :
          Last(d) = SlashByte /\ IsChild(d, prefix)}

\* A listing has every key below the prefix, or every child of it, nothing else
\* ("Only include keys at the immediate level", pg_storage.go:80), and each once
\* ("deduplicate", pg_storage.go:83), if the database orders keys by their bytes.
ListIsExact ==
  \A prefix \in ListPrefixes :
    /\ ToSet(List(prefix, TRUE)) = Below(prefix)
    /\ ToSet(List(prefix, FALSE)) = Children(prefix)
    /\ \A recursive \in BOOLEAN : IsInjective(List(prefix, recursive))
=============================================================================
