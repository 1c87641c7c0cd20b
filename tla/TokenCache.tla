------------------------------ MODULE TokenCache ------------------------------
(***************************************************************************)
(* The content-addressed cache of .3mf files (class TokenCache,            *)
(* app/cache.py).  A payload is stored once under its SHA-256; a payload   *)
(* is therefore identified here with its hash.  A token is an opaque       *)
(* random identifier, never drawn twice.  The index (an OrderedDict, least *)
(* recently used first, and the map from hash to token) lives in memory;   *)
(* the files live on disk and survive the process.                         *)
(***************************************************************************)
EXTENDS Integers, Sequences, SequencesExt

CONSTANTS
    Payload,        \* the distinct file contents
    Token,          \* the tokens secrets.token_urlsafe can draw
    Size,           \* Size[p]: the length in bytes of payload p
    MaxFiles,       \* CACHE_MAX_FILES
    MaxBytes,       \* CACHE_MAX_BYTES
    MaxPartials     \* bound of the model: ".tmp-" files left by failed writes

ASSUME CacheAssumption ==
    /\ Size \in [Payload -> Nat]
    /\ MaxFiles \in Int
    /\ MaxBytes \in Int
    /\ MaxPartials \in Nat

VARIABLES
    entries,    \* the tokens of _entries, least recently used first
    shaOf,      \* shaOf[t]: the hash (payload) of the entry of token t
    tokenOf,    \* _sha_to_token
    files,      \* the payloads whose "<sha>.3mf" exists in cache_dir
    partials,   \* how many ".tmp-" files failed or killed writes have left
    issued      \* every token drawn so far, by this process or an earlier one

cacheVars == <<entries, shaOf, tokenOf, files, partials, issued>>

Live == ToSet(entries)

\* f with x mapped to v, whether or not x was in its domain
Assign(f, x, v) == [y \in DOMAIN f \cup {x} |-> IF y = x THEN v ELSE f[y]]

Without(f, S) == Restrict(f, DOMAIN f \ S)

-----------------------------------------------------------------------------
(* The order of _entries *)

Position(q, t) == CHOOSE i \in 1..Len(q) : q[i] = t

Removed(q, t) == RemoveAt(q, Position(q, t))

MoveToEnd(q, t) == Append(Removed(q, t), t)

\* The bytes a set of tokens accounts for, given the payload of each
Bytes(toks, sha) == MapThenSumSet(LAMBDA t : Size[sha[t]], toks)

FileCap == IF MaxFiles > 1 THEN MaxFiles ELSE 1

Newest(q, k) == SubSeq(q, k + 1, Len(q))

\* Where a loop over the n entries that is entered after `from` pops comes to a
\* halt, if `on` are the numbers of pops at which its condition holds
PopWhile(on, from, n) ==
    LET pops[k \in from..n] == IF k \in on THEN pops[k + 1] ELSE k
    IN pops[from]

\* The first loop of _evict_if_needed: too many entries
PoppedForCount(q) ==
    LET n == Len(q)
    IN PopWhile({k \in 0..n : n - k > FileCap /\ n - k > 1}, 0, n)

\* The total the second loop keeps: summed once on entry, then reduced by each
\* popped entry
RunningTotal(q, sha, from) ==
    LET total[k \in from..Len(q)] ==
            IF k = from THEN Bytes(ToSet(Newest(q, from)), sha)
                        ELSE total[k - 1] - Size[sha[q[k]]]
    IN total

\* MUTANT of Surplus: the byte-cap loop is missing
SurplusByCountOnly(q, sha) == PoppedForCount(q)

\* MUTANT of Surplus: `total` is not reduced when an entry is popped
SurplusWithStaleTotal(q, sha) ==
    LET n     == Len(q)
        from  == PoppedForCount(q)
        total == Bytes(ToSet(Newest(q, from)), sha)
    IN PopWhile({k \in from..n : total > MaxBytes /\ n - k > 1}, from, n)

\* How many of the oldest entries _evict_if_needed pops: the second loop goes
\* on from where the first one halts, and leaves one entry whatever its size
Surplus(q, sha) ==
    LET n     == Len(q)
        from  == PoppedForCount(q)
        total == RunningTotal(q, sha, from)
    IN PopWhile({k \in from..n : total[k] > MaxBytes /\ n - k > 1}, from, n)

-----------------------------------------------------------------------------
(* The operations; each runs to its end under the lock *)

Init ==
    /\ entries = <<>>
    /\ shaOf = <<>>
    /\ tokenOf = <<>>
    /\ files = {}
    /\ partials = 0
    /\ issued = {}

\* put of bytes that are indexed already: the same token, now the newest
PutKnown(p, t) ==
    /\ p \in DOMAIN tokenOf
    /\ t = tokenOf[p]
    /\ entries' = MoveToEnd(entries, t)
    /\ UNCHANGED <<shaOf, tokenOf, files, partials, issued>>

\* MUTANT of PutNew: tokens are unique among the live entries only
PutNewReusingTokens(p, t) ==
    /\ p \notin DOMAIN tokenOf
    /\ t \notin Live
    /\ LET q    == Append(entries, t)
           sha  == Assign(shaOf, t, p)
           gone == ToSet(SubSeq(q, 1, Surplus(q, sha)))
       IN /\ entries' = Newest(q, Surplus(q, sha))
          /\ shaOf' = Without(sha, gone)
          /\ tokenOf' = Without(Assign(tokenOf, p, t), {sha[u] : u \in gone})
    /\ files' = files \cup {p}
    /\ issued' = issued \cup {t}
    /\ UNCHANGED partials

\* put of new bytes: write the file unless it exists, index it, evict
PutNew(p, t) ==
    /\ p \notin DOMAIN tokenOf
    /\ t \notin issued
    /\ LET q    == Append(entries, t)
           sha  == Assign(shaOf, t, p)
           k    == Surplus(q, sha)
           gone == ToSet(SubSeq(q, 1, k))
           lost == {sha[u] : u \in gone}
       IN /\ entries' = Newest(q, k)
          /\ shaOf' = Without(sha, gone)
          /\ tokenOf' = Without(Assign(tokenOf, p, t), lost)
          /\ files' = (files \cup {p}) \ lost
    /\ issued' = issued \cup {t}
    /\ UNCHANGED partials

Put(p, t) == PutKnown(p, t) \/ PutNew(p, t)

\* The write of the temporary file fails (a full disk): put raises before it
\* has touched the index, and the temporary file stays
PutFails(p, t) ==
    /\ p \notin DOMAIN tokenOf
    /\ p \notin files
    /\ t \notin issued
    /\ partials < MaxPartials
    /\ partials' = partials + 1
    /\ issued' = issued \cup {t}
    /\ UNCHANGED <<entries, shaOf, tokenOf, files>>

\* MUTANT of Path: the entry is moved before the lookup is checked
PathUnchecked(t) ==
    /\ entries' = Append(SelectSeq(entries, LAMBDA u : u # t), t)
    /\ UNCHANGED <<shaOf, tokenOf, files, partials, issued>>

\* path of a live token refreshes its place; sha256_for and stats change nothing
Path(t) ==
    /\ t \in Live
    /\ entries' = MoveToEnd(entries, t)
    /\ UNCHANGED <<shaOf, tokenOf, files, partials, issued>>

\* MUTANT of Delete: the hash stays in _sha_to_token
DeleteKeepsHash(t) ==
    /\ t \in Live
    /\ entries' = Removed(entries, t)
    /\ shaOf' = Without(shaOf, {t})
    /\ files' = files \ {shaOf[t]}
    /\ UNCHANGED <<tokenOf, partials, issued>>

Delete(t) ==
    /\ t \in Live
    /\ entries' = Removed(entries, t)
    /\ shaOf' = Without(shaOf, {t})
    /\ tokenOf' = Without(tokenOf, {shaOf[t]})
    /\ files' = files \ {shaOf[t]}
    /\ UNCHANGED <<partials, issued>>

Clear ==
    /\ entries' = <<>>
    /\ shaOf' = <<>>
    /\ tokenOf' = <<>>
    /\ files' = files \ {shaOf[t] : t \in Live}
    /\ UNCHANGED <<partials, issued>>

-----------------------------------------------------------------------------
(* The process dies and another one starts: __init__ creates empty indexes *)
(* and looks at no file                                                    *)

Forget ==
    /\ entries' = <<>>
    /\ shaOf' = <<>>
    /\ tokenOf' = <<>>

Restart ==
    /\ Forget
    /\ UNCHANGED <<files, partials, issued>>

\* Death inside put, before os.replace: only the temporary file is left
CrashInWrite(p) ==
    /\ p \notin DOMAIN tokenOf
    /\ p \notin files
    /\ partials < MaxPartials
    /\ partials' = partials + 1
    /\ Forget
    /\ UNCHANGED <<files, issued>>

\* Death inside put, after os.replace and some of the evictions' unlinks
CrashInEviction(p, t) ==
    /\ p \notin DOMAIN tokenOf
    /\ t \notin issued
    /\ LET q   == Append(entries, t)
           sha == Assign(shaOf, t, p)
       IN \E j \in 0..Surplus(q, sha) :
             files' = (files \cup {p}) \ {sha[q[i]] : i \in 1..j}
    /\ issued' = issued \cup {t}
    /\ Forget
    /\ UNCHANGED partials

\* Death inside clear, after some of its unlinks
CrashInClear ==
    /\ \E j \in 0..Len(entries) :
          files' = files \ {shaOf[entries[i]] : i \in 1..j}
    /\ Forget
    /\ UNCHANGED <<partials, issued>>

-----------------------------------------------------------------------------
Next ==
    \/ \E p \in Payload, t \in Token :
          \/ Put(p, t)
          \/ PutFails(p, t)
          \/ CrashInEviction(p, t)
    \/ \E t \in Token : Path(t) \/ Delete(t)
    \/ \E p \in Payload : CrashInWrite(p)
    \/ Clear
    \/ Restart
    \/ CrashInClear

Spec == Init /\ [][Next]_cacheVars

-----------------------------------------------------------------------------
(* Properties *)

\* Every variable has its type; the index is a function on the live tokens.
TypeOK ==
    /\ entries \in Seq(Token)
    /\ shaOf \in [Live -> Payload]
    /\ DOMAIN tokenOf \subseteq Payload
    /\ \A p \in DOMAIN tokenOf : tokenOf[p] \in Token
    /\ files \subseteq Payload
    /\ partials \in 0..MaxPartials
    /\ issued \subseteq Token
    /\ Live \subseteq issued

\* The eviction order names every live token exactly once.
NoDuplicates == IsInjective(entries)

\* _sha_to_token is the inverse of the entries: two tokens never share a
\* payload, and the token that put returns for known bytes is a live one.
IndexInverse ==
    /\ DOMAIN tokenOf = {shaOf[t] : t \in Live}
    /\ \A t \in Live : tokenOf[shaOf[t]] = t

\* A live token's file is on disk, whatever evictions, deletions, crashes and
\* re-uploads of orphaned content came before: path() never hands out a name
\* that an eviction of another entry has unlinked.
LiveFileOnDisk == \A t \in Live : shaOf[t] \in files

\* The index agrees with itself and with the disk.
IndexConsistent == NoDuplicates /\ IndexInverse /\ LiveFileOnDisk

\* The inductive invariant: consistency needs the types to be inductive.
CacheInv == TypeOK /\ IndexConsistent

\* What the caps ask of the entries q, apart from how the loops reach it
Fits(q, sha) ==
    \/ Len(q) <= 1
    \/ Len(q) <= FileCap /\ Bytes(ToSet(q), sha) <= MaxBytes

\* The live entries respect both caps, except that a single entry may exceed
\* the byte cap and a file cap below one counts as one.
CapsRespected == Fits(entries, shaOf)

\* A put may only evict a prefix of the recency order, never the entry it
\* returns, and nothing that both caps had room for: the entries that survive
\* with the youngest evicted one added back would break a cap.
EvictionIsMinimalLRU ==
    [][\A p \in Payload, t \in Token :
         PutNew(p, t) =>
            LET q == Append(entries, t)
                k == Len(q) - Len(entries')
            IN /\ t \in ToSet(entries')
               /\ entries' = Newest(q, k)
               /\ k > 0 => ~Fits(Newest(q, k - 1), Assign(shaOf, t, p))]_cacheVars

\* Clients see a content store: a token they hold never comes to denote other
\* bytes, across evictions, re-uploads, crashes and restarts.
Store == INSTANCE ContentStore WITH denotes <- shaOf, spent <- issued

ImplementsStore == Store!Spec

=============================================================================
