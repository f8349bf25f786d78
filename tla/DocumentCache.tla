----------------------------- MODULE DocumentCache -----------------------------
(***************************************************************************)
(* The documents and the logos a process keeps in memory                   *)
(* (document-cache.service.ts, tenant-logo.service.ts).                    *)
(*                                                                         *)
(* Both caches are maps in insertion order, so a sequence whose first      *)
(* element is the least recently used.  The size of the documents is kept  *)
(* by hand.  A logo is fetched with the event loop running: two fetches of *)
(* one address may end in any order.                                       *)
(***************************************************************************)
EXTENDS Naturals, SequencesExt

CONSTANTS
    Keys,         \* documents
    Addresses,    \* urls of logos
    Exporters,    \* requests that need a logo
    Sizes,        \* sizes of documents, in units; 0 and more than MaxBytes occur
    MaxBytes,     \* maxCacheBytes
    MaxLogos,     \* maxLogoCacheEntries
    DocumentTtl, LogoTtl, NegativeTtl,
    Horizon       \* bound on the clock

ASSUME CacheAssumption ==
    /\ Sizes \subseteq Nat /\ {MaxBytes, DocumentTtl, LogoTtl, NegativeTtl, Horizon} \subseteq Nat
    /\ MaxLogos \in Nat \ {0}

VARIABLES
    now,
    results,     \* resultCache: [key, bytes, expires, made]
    resultBytes, \* resultCacheBytes
    logos,       \* logoCache: [key, found, expires]
    fetching,    \* the address each request fetches, and when it began
    handed       \* how old the last document was that get handed out

cacheVars == <<now, results, resultBytes, logos, fetching, handed>>

NotFetching == [op |-> "idle"]

CacheInit ==
    /\ now = 0
    /\ results = <<>> /\ resultBytes = 0
    /\ logos = <<>>
    /\ fetching = [q \in Exporters |-> NotFetching]
    /\ handed = 0

Has(s, k) == \E i \in DOMAIN s : s[i].key = k
PlaceOf(s, k) == CHOOSE i \in DOMAIN s : s[i].key = k
EntryOf(s, k) == s[PlaceOf(s, k)]
Without(s, k) == IF Has(s, k) THEN RemoveAt(s, PlaceOf(s, k)) ELSE s
AtLeastZero(a, b) == IF a >= b THEN a - b ELSE 0

\* The bytes of the first entries of a sequence, and of all of them.
BytesOf(s) == LET sum[i \in 0..Len(s)] == IF i = 0 THEN 0 ELSE sum[i - 1] + s[i].bytes IN sum
Bytes(s) == BytesOf(s)[Len(s)]

\* Documents, and the bytes counted for them.
Counted(s, n) == [kept |-> s, bytes |-> n]
-----------------------------------------------------------------------------
\* get: an entry past its time is dropped, another becomes the most recent.
get(k) ==
    /\ Has(results, k)
    /\ LET e == EntryOf(results, k) IN
       IF now > e.expires
       THEN /\ results' = Without(results, k)
            /\ resultBytes' = AtLeastZero(resultBytes, e.bytes)
            /\ UNCHANGED handed
       ELSE /\ results' = Append(Without(results, k), e)
            /\ handed' = now - e.made
            /\ UNCHANGED resultBytes
    /\ UNCHANGED <<now, logos, fetching>>

\* The former entry goes.
WithoutFormer(k) ==
    IF Has(results, k) THEN Counted(Without(results, k), AtLeastZero(resultBytes, EntryOf(results, k).bytes))
    ELSE Counted(results, resultBytes)

\* One entry after the other, those past their time go.
Looked(c, e) == IF now > e.expires THEN Counted(c.kept, AtLeastZero(c.bytes, e.bytes)) ELSE Counted(Append(c.kept, e), c.bytes)
Sweep(c) == LET after[i \in 0..Len(c.kept)] == IF i = 0 THEN Counted(<<>>, c.bytes) ELSE Looked(after[i - 1], c.kept[i]) IN after
Swept(c) == Sweep(c)[Len(c.kept)]

\* The least recent go until n more bytes fit by what is counted.
Left(c, i) == AtLeastZero(c.bytes, BytesOf(c.kept)[i])
Fits(c, n) == {i \in 0..Len(c.kept) : i = Len(c.kept) \/ Left(c, i) + n <= MaxBytes}
Evicted(c, n) ==
    LET i == CHOOSE j \in Fits(c, n) : \A k \in Fits(c, n) : j <= k
    IN  Counted(SubSeq(c.kept, i + 1, Len(c.kept)), Left(c, i))

\* set: the former entry, those past their time and the least recent make room.
set(k, bytes) ==
    LET c == Evicted(Swept(WithoutFormer(k)), bytes) IN
    /\ bytes > 0 /\ bytes <= MaxBytes
    /\ results' = Append(c.kept, [key |-> k, bytes |-> bytes, expires |-> now + DocumentTtl, made |-> now])
    /\ resultBytes' = c.bytes + bytes
    /\ UNCHANGED <<now, logos, fetching, handed>>

\* resolveTenantLogoDataUri: a logo in time is the most recent, one past its
\* time is dropped and fetched again.
resolveTenantLogo(q, a) ==
    /\ fetching[q] = NotFetching
    /\ LET known == Has(logos, a) /\ now <= EntryOf(logos, a).expires IN
       /\ logos' = IF known THEN Append(Without(logos, a), EntryOf(logos, a)) ELSE Without(logos, a)
       /\ fetching' = IF known THEN fetching ELSE [fetching EXCEPT ![q] = [op |-> "fetch", key |-> a, since |-> now]]
    /\ UNCHANGED <<now, results, resultBytes, handed>>

Youngest(s, n) == SubSeq(s, IF Len(s) > n THEN Len(s) - n + 1 ELSE 1, Len(s))

\* A mutated form of RoomForLogo, used by no action.
RoomForOneMore(s) == Youngest(s, MaxLogos)

RoomForLogo(s) == Youngest(s, MaxLogos - 1)

\* storeLogoCache, after a fetch that found an image or did not: the time runs
\* from before the fetch.
storeLogo(q, found) ==
    LET f == fetching[q] IN
    /\ f.op = "fetch"
    /\ logos' = Append(RoomForLogo(Without(logos, f.key)),
                       [key |-> f.key, found |-> found, expires |-> f.since + IF found THEN LogoTtl ELSE NegativeTtl])
    /\ fetching' = [fetching EXCEPT ![q] = NotFetching]
    /\ UNCHANGED <<now, results, resultBytes, handed>>

cacheTick ==
    /\ now < Horizon
    /\ now' = now + 1
    /\ UNCHANGED <<results, resultBytes, logos, fetching, handed>>

CacheNext ==
    \/ \E k \in Keys : get(k) \/ \E bytes \in Sizes : set(k, bytes)
    \/ \E q \in Exporters :
         \/ \E a \in Addresses : resolveTenantLogo(q, a)
         \/ \E found \in BOOLEAN : storeLogo(q, found)
    \/ cacheTick

CacheSpec == CacheInit /\ [][CacheNext]_cacheVars
-----------------------------------------------------------------------------
DocumentEntries == [key : Keys, bytes : Sizes, expires : 0..(Horizon + DocumentTtl), made : 0..Horizon]
LogoEntries == [key : Addresses, found : BOOLEAN, expires : 0..(Horizon + LogoTtl + NegativeTtl)]

CacheTypeOK ==
    /\ now \in 0..Horizon /\ resultBytes \in Nat /\ handed \in 0..Horizon
    /\ \A i \in DOMAIN results : results[i] \in DocumentEntries
    /\ \A i \in DOMAIN logos : logos[i] \in LogoEntries
    /\ fetching \in [Exporters -> {NotFetching} \cup [op : {"fetch"}, key : Addresses, since : 0..Horizon]]

OneEach(s) == \A i, j \in DOMAIN s : s[i].key = s[j].key => i = j

\* The bytes counted by hand are those of the documents kept, within the limit,
\* with one entry a key, and nobody is handed a document past its time; logos
\* stay within theirs, and a failure to fetch one is soon tried again, whatever
\* order the fetches of one address end in.
CachesAreBounded ==
    /\ resultBytes = Bytes(results) /\ resultBytes <= MaxBytes
    /\ OneEach(results) /\ OneEach(logos)
    /\ handed <= DocumentTtl
    /\ Len(logos) <= MaxLogos
    /\ \A i \in DOMAIN logos : ~logos[i].found => logos[i].expires <= now + NegativeTtl
=============================================================================
