--------------------------- MODULE PrecisionCache ---------------------------
(***************************************************************************)
(* The process-wide cache of retrieval indexes, src/rag/precision/index.py.*)
(* A request looks its index up under the lock, builds a missing one with  *)
(* the lock released, and stores what it built under the lock again; in    *)
(* between another request may store its own and an indexing worker may    *)
(* invalidate the entry. An entry holds derived data only, keyed by the    *)
(* passages' ids; the passages themselves are bound anew for each request. *)
(***************************************************************************)
EXTENDS Naturals, Sequences, SequencesExt

CONSTANTS Askers,      \* the request threads
          Bases,       \* the knowledge bases (resources)
          Groups,      \* the values of parent_group_size a request may ask for
          CacheCap,    \* MAX_CACHED_INDEXES
          Nobody, NoIndex

\* What a thread asks for: the passages of a base, by id, and a group size.
Corpora == Seq(Nat)
Wants   == [base : Bases, rows : Corpora, group : Groups]

ASSUME CacheCapAssumption == CacheCap \in Nat \ {0}
ASSUME NobodyAssumption   == Nobody \notin Wants /\ Nobody \notin [rows : Corpora, group : Groups]

VARIABLES cache,   \* the cached entries, least recently used first
          want,    \* what each thread asked get_index for, Nobody if nothing
          built,   \* the index a thread has built and not yet stored
          view     \* the index get_index returned to a thread

cacheVars == <<cache, want, built, view>>

\* Keyed on the corpus alone: the group size the index was derived with is forgotten.
CorpusFingerprint(b, rows, group) ==
  IF rows = << >> THEN [base |-> b, count |-> 0, first |-> 0, last |-> 0]
  ELSE [base |-> b, count |-> Len(rows), first |-> Head(rows), last |-> Last(rows)]

\* Several corpora of one base have one fingerprint only if they agree on all
\* of this: the ids in between are not compared.
FingerprintOf(b, rows, group) ==
  IF rows = << >> THEN [base |-> b, count |-> 0, first |-> 0, last |-> 0, group |-> group]
  ELSE [base |-> b, count |-> Len(rows), first |-> Head(rows), last |-> Last(rows), group |-> group]

\* The data build_index derives in one pass over the passages: terms, postings,
\* families, aliases. All of it is a function of the passages and the group size.
BuildIndex(b, rows, group) ==
  [fingerprint |-> FingerprintOf(b, rows, group), of |-> rows, group |-> group]

\* The caller's own row objects laid over the shared derived data.
Rebind(index, a) == [of |-> index.of, group |-> index.group, objectsOf |-> a]

\* The cache is keyed by the base: a base has one entry, or none.
Slots(b)   == {i \in DOMAIN cache : cache[i].fingerprint.base = b}
EntryOf(b) == {cache[i] : i \in Slots(b)}
Without(b) == IF Slots(b) = {} THEN cache ELSE RemoveAt(cache, CHOOSE i \in Slots(b) : TRUE)
\* The oldest entries are never dropped.
Unbounded(entries) == entries
\* The store: the entry replaces the base's old one at the recent end, and the
\* oldest entries leave while there are more than the cap.
Evicted(entries) == IF Len(entries) > CacheCap
                    THEN SubSeq(entries, Len(entries) - CacheCap + 1, Len(entries))
                    ELSE entries

CacheInit == /\ cache = << >>
             /\ want = [a \in Askers |-> Nobody]
             /\ built = [a \in Askers |-> NoIndex]
             /\ view = [a \in Askers |-> NoIndex]

Want(a, b, rows, group) ==
  /\ want' = [want EXCEPT ![a] = [base |-> b, rows |-> rows, group |-> group]]
  /\ UNCHANGED <<cache, built, view>>

Unserved(a) == want[a] # Nobody /\ view[a] = NoIndex /\ built[a] = NoIndex

Hit(a) ==
  /\ Unserved(a)
  /\ \E entry \in EntryOf(want[a].base) :
       /\ entry.fingerprint = FingerprintOf(want[a].base, want[a].rows, want[a].group)
       /\ cache' = Append(Without(want[a].base), entry)
       /\ view' = [view EXCEPT ![a] = Rebind(entry, a)]
  /\ UNCHANGED <<want, built>>

\* A miss: the lock is released and the index built from the caller's passages.
Miss(a) ==
  /\ Unserved(a)
  /\ \A entry \in EntryOf(want[a].base) :
       entry.fingerprint # FingerprintOf(want[a].base, want[a].rows, want[a].group)
  /\ built' = [built EXCEPT ![a] = BuildIndex(want[a].base, want[a].rows, want[a].group)]
  /\ UNCHANGED <<cache, want, view>>

Store(a) ==
  /\ built[a] # NoIndex
  /\ cache' = Evicted(Append(Without(want[a].base), built[a]))
  /\ view' = [view EXCEPT ![a] = Rebind(built[a], a)]
  /\ built' = [built EXCEPT ![a] = NoIndex]
  /\ UNCHANGED want

Release(a) ==
  /\ view[a] # NoIndex
  /\ want' = [want EXCEPT ![a] = Nobody]
  /\ view' = [view EXCEPT ![a] = NoIndex]
  /\ UNCHANGED <<cache, built>>

Invalidate(b) == cache' = Without(b) /\ UNCHANGED <<want, built, view>>

GetIndex(a) == Hit(a) \/ Miss(a) \/ Store(a)

CacheFairness == \A a \in Askers : WF_cacheVars(GetIndex(a))

CacheTypeOK ==
  /\ Len(cache) \in 0 .. CacheCap
  /\ \A i, j \in DOMAIN cache : cache[i].fingerprint.base = cache[j].fingerprint.base => i = j
  /\ \A i \in DOMAIN cache : cache[i].fingerprint.base \in Bases /\ cache[i].group \in Groups
  /\ \A a \in Askers : (built[a] # NoIndex \/ view[a] # NoIndex) => want[a] # Nobody

\* The cache implements the index it stands in for.
Fresh == INSTANCE FreshIndex WITH
           asked <- [a \in Askers |-> IF want[a] = Nobody THEN Nobody
                                      ELSE [rows |-> want[a].rows, group |-> want[a].group]],
           given <- view

\* Whatever other requests, evictions, late stores and invalidations do to the
\* cache between a lookup and a store (src/rag/precision/index.py:225-254), the
\* index a request is given was derived from exactly the passages it loaded and
\* the group size it asked for, holds its own session's rows and nobody else's,
\* and is given in the end.
IndexIsFresh == Fresh!Spec
=============================================================================
