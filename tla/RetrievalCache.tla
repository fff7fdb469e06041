---------------------------- MODULE RetrievalCache ----------------------------
(***************************************************************************)
(* CachingMemorySystem (retrieval/cache.py): a content-addressed LRU cache  *)
(* in front of a memory arm.  An OrderedDict is modelled by its two halves, *)
(* the mapping "cached" and the key order "order", least recently used      *)
(* first.  SHA-256 is modelled as injective: a key is the pair it hashes.   *)
(***************************************************************************)
EXTENDS ArmModel, SequencesExt

CONSTANTS
  Capacity,     \* bound on resident entries
  MaxCalls      \* bound of the model: calls of retrieve

\* __init__ refuses a capacity that is not positive.
ASSUME CacheAssumption == Capacity \in Nat \ {0}

VARIABLES
  arm,          \* the wrapped arm
  corpus,       \* the wrapped arm's items
  rng,          \* the state of the wrapped arm's generator
  fingerprint,  \* digest of the last corpus whose write completed
  cached,       \* key |-> memoised context
  order,        \* the keys of cached, least recently used first
  hits, misses, \* the public counters
  answer,       \* what the last call returned
  recent,       \* history: the keys served since the last completed write,
                \* each once, least recently served first
  bareRng,      \* history: the generator, and the last answer, of an arm of the
  bareAnswer    \* same kind and seed that gets the same calls without a cache

history == <<recent, bareRng, bareAnswer>>
vars == <<arm, corpus, rng, fingerprint, cached, order, hits, misses, answer, history>>

\* (Definitions named ...Slip are variants with a plausible coding slip; only
\* the mutation runs use them.)

\* The digest covers ids and texts, in order, and leaves the metadata out.
Fingerprint(batch) == [i \in 1..Len(batch) |-> batch[i].id]

\* Slip: the budget left out of the digest.
KeySlip(r) == <<fingerprint, [r EXCEPT !.budget = 0]>>

Key(r) == <<fingerprint, r>>

\* OrderedDict.move_to_end of a key that is there.
MoveToEnd(s, k) ==
  LET i == CHOOSE i \in 1..Len(s) : s[i] = k
  IN  [j \in 1..Len(s) |-> IF j < i THEN s[j]
                           ELSE IF j < Len(s) THEN s[j + 1] ELSE k]

\* Make a key the most recently used one, adding it if it is not there.
Promote(s, k) == IF k \in Range(s) THEN MoveToEnd(s, k) ELSE Append(s, k)

Init ==
  /\ arm \in Arms
  /\ corpus = <<>>
  /\ rng = Seed
  /\ fingerprint = Fingerprint(<<>>)
  /\ cached = <<>>
  /\ order = <<>>
  /\ hits = 0
  /\ misses = 0
  /\ answer = Written
  /\ recent = <<>> /\ bareRng = Seed /\ bareAnswer = Written

\* Slip: relying on the fingerprint in the key to tell corpora apart.
ClearSlip == UNCHANGED <<cached, order>>

\* OrderedDict.clear.
Clear ==
  /\ cached' = <<>>
  /\ order' = <<>>

\* write: the wrapped arm first, then the fingerprint, then the clearing.
Write(batch) ==
  /\ Len(corpus) + Len(batch) <= MaxItems
  /\ ~ (RejectsRewrite(arm) /\ corpus # <<>>)
  /\ corpus' = corpus \o batch
  /\ fingerprint' = Fingerprint(batch)
  /\ Clear
  /\ answer' = Written
  /\ recent' = <<>> /\ bareAnswer' = Written
  /\ UNCHANGED <<arm, rng, hits, misses, bareRng>>

\* write, when the wrapped arm raises half way: nothing after it runs.
WriteRaises(batch) ==
  /\ Len(corpus) + Len(batch) <= MaxItems
  /\ RejectsRewrite(arm) /\ corpus # <<>>
  /\ corpus' = corpus \o batch
  /\ answer' = Raised /\ bareAnswer' = Raised
  /\ UNCHANGED <<arm, rng, fingerprint, cached, order, hits, misses, recent, bareRng>>

\* retrieve, when the key is resident.
Hit(r) ==
  /\ Key(r) \in DOMAIN cached
  /\ hits' = hits + 1
  /\ order' = Promote(order, Key(r))
  /\ answer' = Returned(r, cached[Key(r)])
  /\ recent' = Promote(recent, Key(r))
  /\ UNCHANGED <<arm, corpus, rng, fingerprint, cached, misses>>

\* Slips: popitem(last=True), and a bound off by one.
ResidentSlip(s) == IF Len(s) > Capacity THEN Front(s) ELSE s
ResidentSlip2(s) == IF Len(s) > Capacity + 1 THEN Tail(s) ELSE s

\* The key order once the oldest key has gone, if there are too many.
Resident(s) == IF Len(s) > Capacity THEN Tail(s) ELSE s

\* retrieve, when the wrapped arm answers.
Miss(r) ==
  /\ Key(r) \notin DOMAIN cached
  /\ ~ Raises(arm, corpus, r)
  /\ misses' = misses + 1
  /\ LET result == Ranking(arm, corpus, rng, r)
         keys == Resident(Promote(order, Key(r)))
     IN  /\ order' = keys
         /\ cached' = [k \in Range(keys) |->
                         IF k = Key(r) THEN result ELSE cached[k]]
         /\ answer' = Returned(r, result)
  /\ rng' = Advanced(arm, corpus, rng)
  /\ recent' = Promote(recent, Key(r))
  /\ UNCHANGED <<arm, corpus, fingerprint, hits>>

\* retrieve, when the wrapped arm raises: the miss has been counted.
MissRaises(r) ==
  /\ Key(r) \notin DOMAIN cached
  /\ Raises(arm, corpus, r)
  /\ misses' = misses + 1
  /\ answer' = Raised
  /\ rng' = Advanced(arm, corpus, rng)
  /\ UNCHANGED <<arm, corpus, fingerprint, cached, order, hits, recent>>

Retrieve(r) ==
  /\ hits + misses < MaxCalls
  /\ Hit(r) \/ Miss(r) \/ MissRaises(r)
  /\ bareRng' = Advanced(arm, corpus, bareRng)
  /\ bareAnswer' = IF Raises(arm, corpus, r) THEN Raised
                   ELSE Returned(r, Ranking(arm, corpus, bareRng, r))

Next ==
  \/ \E batch \in Batches : Write(batch) \/ WriteRaises(batch)
  \/ \E r \in Requests : Retrieve(r)

Spec == Init /\ [][Next]_vars

------------------------------------------------------------------------------
Keys == Seq({i.id : i \in Items}) \X Requests

\* Every variable has its type; the mapping and the key order agree, and the
\* cache is within its capacity.
TypeOK ==
  /\ arm \in Arms /\ corpus \in Seq(Items) /\ Len(corpus) <= MaxItems
  /\ rng \in Generators /\ bareRng \in Generators
  /\ hits \in Nat /\ misses \in Nat
  /\ fingerprint \in Seq({i.id : i \in Items})
  /\ order \in Seq(Keys) /\ recent \in Seq(Keys)
  /\ Len(order) <= Capacity
  /\ DOMAIN cached = Range(order)
  /\ \A k \in DOMAIN cached : cached[k] \in Contexts
  /\ answer \in Answers /\ bareAnswer \in Answers

\* retrieve of a resident key returns what the wrapped arm would return now,
\* whatever was written and evicted before, if the arm only ranks: a write that
\* raises half way leaves the old entries over a corpus that has grown.
CacheCoherent ==
  PureArm(arm) =>
    \A k \in DOMAIN cached : /\ k[1] = fingerprint
                             /\ cached[k] = Ranking(arm, corpus, rng, k[2])

\* The last n elements of s.
Latest(s, n) == IF Len(s) <= n THEN s ELSE SubSeq(s, Len(s) - n + 1, Len(s))

\* The resident keys are exactly the Capacity most recently served ones, in
\* that order, each once: a request is a hit whenever fewer than Capacity other
\* requests came since it was last served.
LruResident ==
  /\ IsInjective(recent)
  /\ order = Latest(recent, Capacity)

\* "every value it returns is byte-for-byte the value the wrapped arm would
\* have returned": the caller cannot tell the cache from the arm.
SameAsUncached == answer = bareAnswer

\* Over such an arm the cache implements it: every step is one the arm takes.
Bare == INSTANCE MemoryArm WITH rng <- bareRng
ImplementsArm == Bare!Init /\ [][PureArm(arm) => Bare!Next]_(Bare!armVars)
==============================================================================
